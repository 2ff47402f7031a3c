---------------------------- MODULE MCAlgorithms ----------------------------
(***************************************************************************)
(* The computations of the service on small inputs, one scene for each:    *)
(* Init chooses an input, one action computes the answer the code gives,   *)
(* and the properties relate the two.  The scene "pages" is the walk of    *)
(* JournalPages through the operation history, and the scene "store" the    *)
(* writers of ModelStore.                                                  *)
(***************************************************************************)
EXTENDS JournalPages, ModelStore

CONSTANTS
  Scenes,          \* the scenes to play
  Refused, Every   \* of Comparisons

VARIABLES
  scene,   \* one of Scenes
  input,   \* the input of the computation
  answer   \* its answer, or None

KindOfPin == [model |-> "native", foundation |-> "foundation", artifact |-> "dataset"]

algorithmVars == <<scene, input, answer>>

Priority == INSTANCE SourcePriority WITH Bits <- 7, Unit <- 16384

-----------------------------------------------------------------------------
(* Evidence about a patch, and about a device: a finding of each kind that  *)
(* the rules tell apart, outliers and inliers of the forest, anomalies with *)
(* and without a trained head, and every way a loss may be reported.        *)

H(n) == Priority!Hundredths(n)
Finding(severity, anomaly, confidence) ==
  [severity |-> severity, anomaly |-> H(anomaly), confidence |-> H(confidence)]

Weak == Finding("info", 0, 10)
Strong == Finding("high", 90, 100)
Medium == Finding("medium", 0, 60)
WeakCritical == Finding("critical", 0, 10)

Forest(raw, samples) ==
  [raw |-> H(raw), offset |-> H(40), min |-> H(30), max |-> H(80), samples |-> samples]
Network(protocol, cleanup, state, direction) ==
  [protocol |-> protocol, cleanup |-> cleanup, state |-> state, direction |-> direction]

Evidence ==
  [report : {3, 4},
   coverage : {"supported_complete", "supported_partial"},
   confidence : {16384},
   policy : {{}, {Weak}, {Strong}, {WeakCritical}, {WeakCritical, Strong}},
   peer : {None, {}, {Medium}},
   forest : {None, Forest(40, 60), Forest(51, 60), Forest(79, 20)},
   neural : {None, [anomaly_head |-> FALSE, anomaly |-> H(90)],
             [anomaly_head |-> TRUE, anomaly |-> H(45)]},
   network : {None, Network(3, TRUE, "observed", "loss_found"),
              Network(4, TRUE, "observed", "loss_and_gain_found"),
              Network(3, FALSE, "observed", "loss_found"),
              Network(4, TRUE, "observed", "gain_found")}]

Bodies ==
  {[e EXCEPT !.confidence = IF e.coverage = "supported_complete" THEN @ ELSE H(60)] :
     e \in Evidence}

Risks ==
  [completed : SUBSET {"policy", "peer_group", "statistical", "transformer"},
   findings : {("policy" :> p) @@ ("peer_group" :> q) @@ ("statistical" :> s)
                 @@ ("transformer" :> t) :
               p \in {{}, {Weak}, {WeakCritical, Strong}}, q \in {{}, {Medium}},
               s \in {{}, {Weak}}, t \in {{}, {Strong}}},
   impact : {"not_run", "no_adverse_impact", "policy_regression", "loss_of_reachability"}]

-----------------------------------------------------------------------------
(* Corpora of five records: 1 and 2 are one text in two layouts, 3 is near  *)
(* to both and 4 near to 3 only, 5 has nothing in common with them but its  *)
(* template with 4.                                                         *)

Text(norm, template, tokens, bands) ==
  [norm |-> norm, template |-> template, tokens |-> tokens, bands |-> bands]

Dataset == INSTANCE DatasetPipeline WITH
  Texts <- <<Text(1, 1, {"a", "b", "c", "d"}, <<1, 1>>),
             Text(1, 1, {"a", "b", "c", "d"}, <<1, 1>>),
             Text(2, 1, {"a", "b", "c", "e"}, <<1, 2>>),
             Text(3, 2, {"a", "b", "e", "f"}, <<3, 2>>),
             Text(4, 2, {"x", "y", "z"}, <<4, 4>>)>>,
  Threshold <- 60, MinTokens <- 3, Window <- 2

Record(i, text, raw, entity, at, scan) ==
  [key |-> i, source |-> entity[1], network |-> entity[2], site |-> entity[3],
   device |-> entity[4], role |-> "edge", at |-> at, raw |-> raw, text |-> text,
   scan |-> scan]

\* Networks of their own; two sources with one network name; a site and a device that
\* belong to two networks.
Inventories ==
  {<<<<"s1", 1, 1, 1>>, <<"s1", 2, 2, 2>>, <<"s1", 3, 3, 3>>, <<"s2", 4, 4, 4>>, <<"s2", 5, 5, 5>>>>,
   <<<<"s1", 1, 1, 1>>, <<"s2", 1, 1, 1>>, <<"s2", 3, 3, 3>>, <<"s2", 4, 4, 4>>, <<"s2", 1, 5, 5>>>>,
   <<<<"s1", 1, 1, 1>>, <<"s1", 2, 1, 2>>, <<"s1", 3, 3, 3>>, <<"s1", 4, 4, 3>>, <<"s2", 5, 5, 5>>>>}

Capture == {<<1, 2, 3, 4, 5>>, <<5, 4, 3, 2, 1>>, <<3, 1, 4, 1, 2>>}
SplitPolicies ==
  {[train |-> 70, validation |-> 15, test |-> 15, minimum |-> 1, strict |-> FALSE],
   [train |-> 40, validation |-> 30, test |-> 30, minimum |-> 1, strict |-> TRUE]}
Gate == [unseen |-> 20, role |-> 50, deviation |-> 5, balanced |-> 4]

Provenance ==
  {[s1 |-> [review |-> "approved", uses |-> {"train", "test"}],
    s2 |-> [review |-> review, uses |-> uses]] :
     review \in {"approved", "pending"}, uses \in {{"train"}, {"test"}}}
  \cup {[s1 |-> [review |-> "approved", uses |-> {"train"}]]}

TextsOf == {t \in [1 .. 5 -> 1 .. 5] : t[1] = 1 /\ t[5] # 2}
Corpus(text, raw, inventory, capture, policy, sources, scan) ==
  [recs |-> [i \in 1 .. 5 |-> Record(i, text[i], raw[i], inventory[i], capture[i], scan[i])],
   policy |-> policy, sources |-> sources, use |-> "train", gate |-> Gate]

Clean == [i \in 1 .. 5 |-> {}]
Permitted == CHOOSE p \in Provenance :
  /\ DOMAIN p = {"s1", "s2"}
  /\ p.s2 = [review |-> "approved", uses |-> {"train"}]

Corpora ==
  {Corpus(text, <<1, 2, 3, 4, 5>>, inventory, capture, policy, Permitted, Clean) :
     text \in TextsOf, inventory \in Inventories, policy \in {CHOOSE p \in SplitPolicies : p.strict},
     capture \in {<<1, 2, 3, 4, 5>>, <<3, 1, 4, 1, 2>>}}
  \cup
  {Corpus(text, raw, inventory, capture, policy, sources, scan) :
     text \in {<<1, 3, 4, 5, 5>>, <<1, 2, 5, 3, 4>>, <<4, 3, 5, 1, 2>>},
     raw \in {<<1, 2, 3, 4, 5>>, <<1, 2, 3, 1, 5>>}, inventory \in Inventories,
     capture \in Capture, policy \in SplitPolicies, sources \in Provenance,
     scan \in {Clean, [Clean EXCEPT ![4] = {"secret_value"}]}}

\* The weights of groups in the order of time, and where to cut them.
Cuts ==
  [weights : [1 .. 6 -> 1 .. 2] \cup UNION {[1 .. n -> 1 .. 3] : n \in 3 .. 5},
   policy : SplitPolicies \cup
     {[train |-> 60, validation |-> 20, test |-> 20, minimum |-> 2, strict |-> FALSE]}]

-----------------------------------------------------------------------------
(* A router, what may change in it, and its snapshots.  Only configurations   *)
(* that a parser can produce: SNMP versions have a fixed order, but users,     *)
(* interfaces and routes stand in any, and a route may stand there twice.      *)

Compared == INSTANCE Comparisons WITH MaxChanges <- 5

Router ==
  [device |-> [vendor |-> "cisco", host |-> "r1", group |-> "edge"], sha |-> 0, at |-> 1,
   warned |-> FALSE, text |-> <<"command", "comment", "delimiter", "command">>,
   unsupported |-> {}, ssh |-> TRUE, snmp |-> <<"v2c", "v3">>, vlans |-> {1, 2},
   users |-> <<[name |-> "u", uid |-> None, auth |-> {<<"secret", "5">>}]>>,
   interfaces |-> <<
     [name |-> "e0", up |-> TRUE, port |-> None, addresses |-> <<<<"a", 24>>>>],
     [name |-> "e1", up |-> TRUE, addresses |-> <<>>,
      port |-> [mode |-> "trunk", access |-> None, native |-> 1, allowed |-> {1, 2}]]>>,
   acls |-> << [name |-> "A", kind |-> "extended", rules |-> <<
     [label |-> 10, action |-> "permit", from |-> "host", to |-> "any", ports |-> {"ssh"}],
     [label |-> 20, action |-> "deny", from |-> "any", to |-> "any", ports |-> {}]>>] >>,
   bgp |-> [as |-> 1, router |-> "a", neighbors |-> << [address |-> "n", as |-> 2, group |-> None] >>],
   ospf |-> << [id |-> "1", router |-> "a", networks |-> << [prefix |-> <<"p", 24>>, area |-> "0"] >>] >>,
   routes |-> << [to |-> "net", via |-> "n", discard |-> FALSE],
                 [to |-> "default", via |-> None, discard |-> TRUE] >>]

Second == [name |-> "e2", up |-> TRUE, port |-> None, addresses |-> <<<<"a", 32>>>>]
Changed ==
  <<Router,
    [Router EXCEPT !.ssh = FALSE], [Router EXCEPT !.snmp = <<"v3">>], [Router EXCEPT !.snmp = <<>>],
    [Router EXCEPT !.vlans = {2}], [Router EXCEPT !.users[1].auth = {<<"none", "plain">>}],
    [Router EXCEPT !.users = @ \o << [name |-> "w", uid |-> None, auth |-> {<<"password", "7">>}] >>],
    [Router EXCEPT !.users = << [name |-> "w", uid |-> None, auth |-> {<<"password", "7">>}] >> \o @],
    [Router EXCEPT !.users = @ \o @],
    [Router EXCEPT !.interfaces = Reverse(@)],
    [Router EXCEPT !.interfaces = @ \o <<Second>>],
    [Router EXCEPT !.interfaces = @ \o <<[Second EXCEPT !.up = FALSE]>>],
    [Router EXCEPT !.interfaces[1].addresses = <<<<"a", 24>>, <<"a", 24>>>>],
    [Router EXCEPT !.interfaces[1].addresses = <<<<"n", 24>>>>],
    [Router EXCEPT !.interfaces[2].port.allowed = Every],
    [Router EXCEPT !.interfaces[2].port.allowed = {2}],
    [Router EXCEPT !.interfaces[2].port.mode = "access"],
    [Router EXCEPT !.interfaces[2].port = None],
    [Router EXCEPT !.acls[1].rules = Reverse(@)],
    [Router EXCEPT !.acls[1].rules[1].from = "any"],
    [Router EXCEPT !.acls[1].rules = <<>>],
    [Router EXCEPT !.acls[1].name = "B"],
    [Router EXCEPT !.bgp = None], [Router EXCEPT !.bgp.router = None],
    [Router EXCEPT !.bgp.neighbors[1].as = 3], [Router EXCEPT !.bgp.neighbors[1].group = "g"],
    [Router EXCEPT !.ospf = <<>>], [Router EXCEPT !.ospf[1].networks[1].area = "1"],
    [Router EXCEPT !.ospf[1].networks = @ \o @],
    [Router EXCEPT !.routes = Reverse(@)], [Router EXCEPT !.routes = @ \o <<@[2]>>],
    [Router EXCEPT !.routes[1].via = "a"], [Router EXCEPT !.routes[1].via = "multicast"],
    [Router EXCEPT !.unsupported = {4}], [Router EXCEPT !.warned = TRUE],
    [Router EXCEPT !.text = <<"comment">>],
    [Router EXCEPT !.device.host = None], [Router EXCEPT !.device.host = "r2"]>>

Snapshot(id, device, config, created) ==
  [id |-> id, device |-> device, config |-> [config EXCEPT !.sha = id], created |-> created,
   coverage |-> Compared!Coverage([config EXCEPT !.sha = id])]

Pairs ==
  {[a |-> Snapshot(1, 1, Changed[i], 2), b |-> Snapshot(j, device, Changed[k], created)] :
     i \in DOMAIN Changed, k \in DOMAIN Changed, <<j, device, created>> \in {<<2, 1, 2>>}}
  \cup {[a |-> Snapshot(1, 1, Router, 2), b |-> Snapshot(x[1], x[2], Router, x[3])] :
          x \in {<<1, 1, 2>>, <<2, 2, 2>>, <<2, 1, 3>>, <<2, 1, 1>>}}

\* Populations of three to five devices of which most differ from the target in one thing.
Peer(i, n) ==
  Snapshot(10 + n, 10 + n, [Changed[i] EXCEPT !.device.host = <<"p1", "p2", "p3", "p4", "p5">>[n]], 2)
Members == 1 .. 6 \cup {10, 13, 19, 24, 28, 30, 31, 34, 35}
Sizes == ("0.1.0" :> {2, 4}) @@ ("0.2.0" :> {4}) @@ ("0.3.0" :> 2 .. 5)
Populations ==
  {[target |-> Snapshot(1, 1, Changed[t], created), version |-> version,
    peers |-> [n \in 1 .. size |-> Peer(IF n <= others THEN m ELSE 1, n)]] :
     t \in Members \cup {36, 37}, m \in Members, version \in {"0.1.0", "0.2.0", "0.3.0"},
     created \in {2}, size \in 2 .. 5, others \in 1 .. 4}
Flawed(peer, flaw) ==
  CASE flaw = "copy" -> [peer EXCEPT !.config.sha = 12]
    [] flaw = "device" -> [peer EXCEPT !.device = 12]
    [] flaw = "target" -> [peer EXCEPT !.device = 1]
    [] flaw = "name" -> [peer EXCEPT !.config.device.host = "p2"]
    [] flaw = "future" -> [peer EXCEPT !.created = 3]
    [] flaw = "collected" -> [peer EXCEPT !.config.at = 2]
    [] flaw = "unmeasured" -> [peer EXCEPT !.coverage = None]
    [] flaw = "unbound" -> [peer EXCEPT !.coverage.units = [n \in {1} |-> "unparsed"]]
    [] flaw = "group" -> [peer EXCEPT !.config.device.group = "core"]
Flaws == {"copy", "device", "target", "name", "future", "collected", "unmeasured", "unbound", "group"}
FlawedPopulations ==
  {[target |-> Snapshot(1, 1, Changed[2], 2), version |-> version,
    peers |-> <<Flawed(Peer(1, 1), flaw), Peer(1, 2), Peer(1, 3), Peer(1, 4)>>] :
     flaw \in Flaws, version \in {"0.1.0", "0.2.0", "0.3.0"}}

Replays ==
  {[before |-> Snapshot(1, 1, Changed[i], 2), after |-> Snapshot(after, 1, Changed[k], 3),
    reference |-> reference, shown |-> shown, version |-> version, catalog |-> catalog,
    peers |-> peers] :
     <<i, k, after>> \in ({1, 2, 7, 11, 14, 20, 31, 34} \X (DOMAIN Changed) \X {2})
                        \cup {<<1, 1, 1>>, <<2, 2, 1>>},
     reference \in {None, Snapshot(3, 1, Changed[31], 1)},
     shown \in {None, Snapshot(3, 1, Changed[31], 1), Snapshot(4, 1, Router, 1)},
     catalog \in {Compared!Legacy, Compared!Current}, version \in {"0.1.0", "0.3.0"},
     peers \in {<<>>, <<Peer(1, 1), Peer(1, 2), Peer(3, 3)>>}}

Parsing == INSTANCE ParsingScenes

-----------------------------------------------------------------------------
Inputs(s) ==
  CASE s = "priority" -> Bodies
    [] s = "risk" -> {r \in Risks : ~Priority!RiskRefused(r)}
    [] s = "dataset" -> Corpora
    [] s = "cut" -> {c \in Cuts : Len(c.weights) >= 3 * c.policy.minimum}
    [] s = "compare" -> Pairs
    [] s = "peers" -> {p \in Populations : Len(p.peers) \in Sizes[p.version]} \cup FlawedPopulations
    [] s = "recheck" -> {r \in Replays : r.shown = r.reference \/ r.before.config.ssh = FALSE}
    [] s = "cisco" -> Parsing!CiscoTexts
    [] s = "junos" -> Parsing!JunosTexts
    [] s \in {"pages", "store"} -> {None}

Answer(s, i) ==
  CASE s = "priority" -> Priority!Compose(i)
    [] s = "risk" -> Priority!FuseRisk(i)
    [] s = "dataset" -> <<Dataset!Pipeline(i), Dataset!Deduplicate(Dataset!Reordered(i.recs))>>
    [] s = "cut" -> Dataset!ChooseBoundaries(i.weights, i.policy)
    [] s = "compare" -> Compared!AnswerPair(i.a, i.b)
    [] s = "peers" -> Compared!AnswerPeers(i)
    [] s = "recheck" -> Compared!AnswerReplay(i)
    [] s = "cisco" -> Parsing!CiscoAnswer(i)
    [] s = "junos" -> Parsing!JunosAnswer(i)

Compute ==
  /\ scene \notin {"pages", "store"}
  /\ answer = None
  /\ answer' = Answer(scene, input)
  /\ UNCHANGED <<scene, input, vars, storeVars>>

AlgorithmInit ==
  /\ Init
  /\ StoreInit
  /\ scene \in Scenes
  /\ input \in Inputs(scene)
  /\ answer = None

AlgorithmNext ==
  \/ Compute
  \/ scene = "pages" /\ Next /\ UNCHANGED <<algorithmVars, storeVars>>
  \/ scene = "store" /\ StoreNext /\ UNCHANGED <<algorithmVars, vars>>

AlgorithmSpec == AlgorithmInit /\ [][AlgorithmNext]_<<vars, algorithmVars, storeVars>>

-----------------------------------------------------------------------------
Answered(s) == scene = s /\ answer # None

\* A priority composed from sound evidence is accepted by the record that is to hold it.
ComposedIsAccepted == Answered("priority") => Priority!ComposedIsAccepted(input, answer)

\* Nothing that was not observed counts as healthy, in a priority of any evidence.
SilentIsNotHealthy == Answered("priority") => Priority!SilentIsNotHealthy(input, answer)

\* A critical policy finding is never diluted, in a priority or in a risk.
CriticalStands ==
  /\ Answered("priority") => Priority!CriticalPriorityStands(input, answer)
  /\ Answered("risk") => Priority!CriticalRiskStands(input, answer)

\* Duplicates collapse soundly, splits isolate what they separate, and a valid corpus has
\* clean and permitted records only.
DatasetsAreSound ==
  /\ Answered("dataset") =>
       /\ Dataset!FamiliesCollapse(input, answer[1].dedup, answer[2])
       /\ Dataset!SplitsIsolate(input, answer[1])
       /\ Dataset!ReportGuards(input, answer[1])
  /\ Answered("cut") => answer = Dataset!BestBoundaries(input.weights, input.policy)

\* A difference, a reference of each version and the policies agree on what has changed.
ComparisonsAgree == Answered("compare") => Compared!ComparisonsAgree(input.a, input.b, answer)

\* No configuration is accused of a deviation that its peers do not bear out, and a replay
\* of an analysis says what was said, and of the change what a new analysis would say.
DeviationsAreJustified ==
  /\ Answered("peers") =>
       Compared!DeviationsAreJustified(input.target, input.peers, input.version, answer)
  /\ Answered("recheck") => Compared!ReplayIsFaithful(input, answer)

\* Every line of a configuration that is read is accounted for, as understood or as not.
EveryLineAccounted ==
  /\ Answered("cisco") => Parsing!Cisco!EveryLineAccounted(input.text, answer)
  /\ Answered("junos") => Parsing!Junos!EveryLineAccounted(input, answer)

\* What is known of an object was said in its own section, and is the same however the
\* sections are written.
SettingsStandWhereWritten ==
  /\ Answered("cisco") => Parsing!Cisco!SettingsStandWhereWritten(input.text, Parsing!Handled(input), answer)
  /\ Answered("junos") => Parsing!Junos!StylesAgree(input, answer)

=============================================================================
