----------------------------- MODULE Comparisons -----------------------------
(***************************************************************************)
(* What the service compares configurations with: an older snapshot of the *)
(* device (comparison/snapshots.py), a selected reference and a group of    *)
(* peers (detection/baseline), each in the versions that are still served, *)
(* the accounting of source lines that the newest version rests on         *)
(* (parsers/coverage.py), and the replay of a saved comparison on a changed *)
(* configuration (detection/baseline/pair.py).                             *)
(*                                                                         *)
(* A configuration has one field of every shape that the comparisons treat *)
(* differently: a setting, a list that is a set, named objects with labels *)
(* and with patterns, ordered rules, a process that may be absent, and     *)
(* routes of which several may have one destination.  Refused is the       *)
(* ValueError that every comparison answers with.                          *)
(***************************************************************************)
EXTENDS Policies, Bags

CONSTANTS
  Refused,
  MaxChanges  \* the changes a difference may list: 500

Each(Op(_), s) == FlattenSeq([i \in DOMAIN s |-> Op(s[i])])
Patterns(Op(_), s) == ToBag([i \in DOMAIN s |-> Op(s[i])])

-----------------------------------------------------------------------------
(* Source lines.  `unsupported` holds the lines of the unparsed fragments,   *)
(* which may be found after the line itself was accepted.                   *)

Disposition(line) ==
  CASE line = "comment" -> "ignored"
    [] line = "delimiter" -> "structural"
    [] line = "command" -> "accepted"

Units(c) ==
  [n \in DOMAIN c.text |-> IF n \in c.unsupported THEN "unparsed" ELSE Disposition(c.text[n])]

Tally(units, d) == Cardinality({n \in DOMAIN units : units[n] = d})

Accounting(sha, device, units) ==
  [sha |-> sha, vendor |-> device.vendor, units |-> units,
   unparsed |-> Tally(units, "unparsed"),
   commands |-> Tally(units, "accepted") + Tally(units, "unparsed")]

Coverage(c) == Accounting(c.sha, c.device, Units(c))

ExactAccounting(r) == r = Accounting(r.sha, r, r.units)
BoundTo(r, c) ==
  /\ r.sha = c.sha /\ r.vendor = c.device.vendor
  /\ {n \in DOMAIN r.units : r.units[n] = "unparsed"} = c.unsupported

\* Delimiters are significant for the parser's confidence but are no command units.
Significant(c) == Cardinality({n \in DOMAIN c.text : c.text[n] # "comment"})

\* 1 - parser_confidence, in units of 1/10000.
Deficit(c) ==
  IF Significant(c) = 0 THEN 10000
  ELSE Min({8000, (12000 * Cardinality(c.unsupported) + Significant(c)) \div (2 * Significant(c))})

Complete(c) == ~c.warned /\ c.unsupported = {} /\ Deficit(c) = 0

-----------------------------------------------------------------------------
(* Projections.  A projection lists facts <<key, value>>; it is ambiguous    *)
(* when a key occurs twice.                                                 *)

Keys(facts) == {facts[i][1] : i \in DOMAIN facts}
Ambiguous(facts) == Cardinality(Keys(facts)) # Len(facts)
Indexed(facts) ==
  [k \in Keys(facts) |-> facts[CHOOSE i \in DOMAIN facts : facts[i][1] = k][2]]

UserFacts(u) ==
  << <<<<"user.present", u.name>>, TRUE>>, <<<<"user.uid", u.name>>, u.uid>>,
     <<<<"user.authentication", u.name>>, u.auth>> >>
InterfaceFacts(i) ==
  << <<<<"interface.present", i.name>>, TRUE>>, <<<<"interface.enabled", i.name>>, i.up>>,
     <<<<"interface.mode", i.name>>, i.port>>,
     <<<<"interface.addresses", i.name>>, ToSet(i.addresses)>> >>
AclFacts(a) ==
  << <<<<"acls.present", a.name, a.kind>>, TRUE>>, <<<<"acls.rules", a.name, a.kind>>, a.rules>> >>
NeighborFacts(n) ==
  << <<<<"bgp.neighbor.present", n.address>>, TRUE>>, <<<<"bgp.neighbor.remote_as", n.address>>, n.as>>,
     <<<<"bgp.neighbor.group", n.address>>, n.group>> >>
BgpFacts(b) ==
  IF b = None THEN << <<<<"bgp.present">>, FALSE>> >>
  ELSE << <<<<"bgp.present">>, TRUE>>, <<<<"bgp.local_as">>, b.as>>,
          <<<<"bgp.router_id">>, b.router>> >> \o Each(NeighborFacts, b.neighbors)
NetworkFacts(process, networks) ==
  [i \in DOMAIN networks |-> <<<<"ospf.network_area", process, networks[i].prefix>>, networks[i].area>>]
ProcessFacts(p) ==
  << <<<<"ospf.process.present", p.id>>, TRUE>>, <<<<"ospf.router_id", p.id>>, p.router>> >>
    \o NetworkFacts(p.id, p.networks)

Destinations(routes) == {routes[i].to : i \in DOMAIN routes}
Via(routes, to) == SelectSeq(routes, LAMBDA r : r.to = to)
RouteFacts(routes) ==
  SetToSeq({<<<<"static_routes.targets", to>>, ToSet(Via(routes, to))>> : to \in Destinations(routes)})

Facts(c) ==
  << <<<<"management.ssh">>, c.ssh>>, <<<<"management.snmp">>, ToSet(c.snmp)>>,
     <<<<"vlans">>, c.vlans>> >>
    \o Each(UserFacts, c.users) \o Each(InterfaceFacts, c.interfaces) \o Each(AclFacts, c.acls)
    \o BgpFacts(c.bgp)
    \o << <<<<"ospf.present">>, c.ospf # <<>> >> >> \o Each(ProcessFacts, c.ospf)
    \o RouteFacts(c.routes)

\* expected-config-0.1.0: what is absent is no fact, and an address counts each time.
LegacyInterfaceFacts(i) ==
  (IF i.port = None THEN <<>> ELSE << <<<<"interface.mode", i.name>>, i.port>> >>)
    \o (IF i.addresses = <<>> THEN <<>>
        ELSE << <<<<"interface.addresses", i.name>>, ToBag(i.addresses)>> >>)
LegacyNeighborFacts(n) == << <<<<"bgp.remote_as", n.address>>, n.as>> >>
LegacyFacts(c) ==
  (IF c.bgp = None THEN <<>> ELSE Each(LegacyNeighborFacts, c.bgp.neighbors))
    \o Each(LegacyInterfaceFacts, c.interfaces)
    \o Each(LAMBDA p : NetworkFacts(p.id, p.networks), c.ospf)

\* peer-baseline-0.2.0 and 0.3.0: names, labels and host addresses are left out.
AclPattern(a) == <<a.kind, [i \in DOMAIN a.rules |-> [a.rules[i] EXCEPT !.label = None]]>>
LengthsOf(addresses) ==
  [l \in {a[2] : a \in addresses} |-> Cardinality({a \in addresses : a[2] = l})]
InterfacePattern(i) == <<i.up, i.port, LengthsOf(ToSet(i.addresses))>>
OspfPattern(p) == <<p.router # None, Patterns(LAMBDA n : <<n.prefix[2], n.area>>, p.networks)>>
Features(c) ==
  [f \in {"ssh", "snmp", "vlans", "users", "interfaces", "acls", "bgp", "bgp.as", "bgp.router",
          "bgp.neighbors", "ospf", "ospf.processes", "routes"} |->
     CASE f = "ssh" -> c.ssh
       [] f = "snmp" -> ToSet(c.snmp)
       [] f = "vlans" -> c.vlans
       [] f = "users" -> Patterns(LAMBDA u : u.auth, c.users)
       [] f = "interfaces" ->
            Patterns(InterfacePattern, c.interfaces)
       [] f = "acls" ->
            Patterns(AclPattern, c.acls)
       [] f = "bgp" -> c.bgp # None
       [] f = "bgp.as" -> IF c.bgp = None THEN None ELSE c.bgp.as
       [] f = "bgp.router" -> c.bgp # None /\ c.bgp.router # None
       [] f = "bgp.neighbors" ->
            IF c.bgp = None THEN EmptyBag ELSE Patterns(LAMBDA n : n.as, c.bgp.neighbors)
       [] f = "ospf" -> c.ospf # <<>>
       [] f = "ospf.processes" ->
            Patterns(OspfPattern, c.ospf)
       [] f = "routes" -> ToSet(c.routes)]

\* peer-baseline-0.1.0: lists keep their order, and only destinations of routes count.
LegacyFeatures(c) ==
  [f \in {"ssh", "snmp", "vlans", "acls", "bgp", "bgp.as", "ospf", "ospf.areas", "routes"} |->
     CASE f = "ssh" -> c.ssh
       [] f = "snmp" -> c.snmp
       [] f = "vlans" -> c.vlans
       [] f = "acls" ->
            Patterns(AclPattern, c.acls)
       [] f = "bgp" -> c.bgp # None
       [] f = "bgp.as" -> IF c.bgp = None THEN None ELSE c.bgp.as
       [] f = "ospf" -> c.ospf # <<>>
       [] f = "ospf.areas" -> UNION {{n.area : n \in ToSet(p.networks)} : p \in ToSet(c.ospf)}
       [] f = "routes" -> Patterns(LAMBDA r : r.to, c.routes)]

\* Mutant: a neighbor is known by its autonomous system only.
NeighborSystem(n) == << <<<<"bgp_neighbors", n.address>>, n.as>> >>

NeighborObject(n) == << <<<<"bgp_neighbors", n.address>>, n>> >>

\* comparison/snapshots.py: every object with all its values; rules and networks in order.
Objects(c) ==
  << <<<<"device">>, c.device>>, <<<<"management">>, <<c.ssh, ToBag(c.snmp)>>>> >>
    \o Each(LAMBDA u : << <<<<"local_users", u.name>>, u>> >>, c.users)
    \o Each(LAMBDA i : << <<<<"interfaces", i.name>>, [i EXCEPT !.addresses = ToBag(@)]>> >>,
            c.interfaces)
    \o Each(LAMBDA a : << <<<<"acls", a.kind, a.name>>, a>> >>, c.acls)
    \o SetToSeq({<<<<"vlans", v>>, v>> : v \in c.vlans})
    \o SetToSeq({<<<<"static_routes", to>>, ToBag(Via(c.routes, to))>> : to \in Destinations(c.routes)})
    \o (IF c.bgp = None THEN <<>>
        ELSE << <<<<"bgp">>, <<c.bgp.as, c.bgp.router>>>> >>
               \o Each(NeighborObject, c.bgp.neighbors))
    \o Each(LAMBDA p : << <<<<"ospf", p.id>>, p>> >>, c.ospf)

-----------------------------------------------------------------------------
(* Peers.  A profile keeps the values that enough of the peers agree on.    *)

Threshold == 75  \* per cent of the peers

\* A tie is decided by the text of the values and never reaches the threshold.
MostCommon(counts) == CHOOSE v \in DOMAIN counts : \A w \in DOMAIN counts : counts[w] <= counts[v]
Agreed(counts, n) == 100 * counts[MostCommon(counts)] >= Threshold * n
Votes(rows, f) == ToBag([i \in DOMAIN rows |-> rows[i][f]])

\* Mutant: the most common value is expected however few agree on it.
AnyPlurality(rows) ==
  [f \in DOMAIN rows[1] |->
     [expected |-> MostCommon(Votes(rows, f)), support |-> Votes(rows, f)[MostCommon(Votes(rows, f))]]]

Consensus(rows) ==
  [f \in {f \in DOMAIN rows[1] : Agreed(Votes(rows, f), Len(rows))} |->
     [expected |-> MostCommon(Votes(rows, f)), support |-> Votes(rows, f)[MostCommon(Votes(rows, f))]]]

GroupOf(c) == <<c.device.vendor, c.device.group>>
OneGroup(configs) ==
  \A i \in DOMAIN configs :
    configs[i].device.group # None /\ GroupOf(configs[i]) = GroupOf(configs[1])

Middle(values) == SortSeq(values, <)
Median2(s) == s[(Len(s) + 1) \div 2] + s[Len(s) \div 2 + 1]  \* twice the median

LegacyProfile(configs) ==
  IF Len(configs) < 3 \/ ~OneGroup(configs) THEN Refused
  ELSE [group |-> GroupOf(configs[1]), count |-> Len(configs),
        features |-> Consensus([i \in DOMAIN configs |-> LegacyFeatures(configs[i])]),
        limit |-> Min({20000, Median2(Middle([i \in DOMAIN configs |-> Deficit(configs[i])])) + 1000})]

Samples(configs) ==
  {[host |-> configs[i].device.host, sha |-> configs[i].sha, at |-> configs[i].at] :
     i \in DOMAIN configs}

\* Copies of a source or of a device supply no votes.
Admissible(configs) ==
  /\ Len(configs) \in 3 .. 20
  /\ OneGroup(configs)
  /\ IsInjective([i \in DOMAIN configs |-> configs[i].device.host])
  /\ IsInjective([i \in DOMAIN configs |-> configs[i].sha])
  /\ \A i \in DOMAIN configs : /\ Complete(configs[i])
                               /\ configs[i].device.host # None
                               /\ ~Ambiguous(Facts(configs[i]))

ExpandedProfile(configs, tolerance) ==
  IF ~Admissible(configs) THEN Refused
  ELSE [group |-> GroupOf(configs[1]), count |-> Len(configs), samples |-> Samples(configs),
        features |-> Consensus([i \in DOMAIN configs |-> Features(configs[i])]),
        limit |-> tolerance]

\* The accounting that was stored with a snapshot, bound to it again before each use.
Measured(s) == s.coverage # None /\ ExactAccounting(s.coverage) /\ BoundTo(s.coverage, s.config)

ConfigsOf(peers) == [i \in DOMAIN peers |-> peers[i].config]

\* The old proxy of the property component is inert: its limit is 1.
MeasuredProfile(peers, tolerance) ==
  IF \E i \in DOMAIN peers : ~Measured(peers[i]) THEN Refused
  ELSE IF \/ \E i \in DOMAIN peers : peers[i].coverage.commands = 0
          \/ ExpandedProfile(ConfigsOf(peers), 10000) = Refused THEN Refused
  ELSE [properties |-> ExpandedProfile(ConfigsOf(peers), 10000),
        coverage |-> {peers[i].coverage : i \in DOMAIN peers}, limit |-> tolerance]

Deviations(profile, features) ==
  [f \in {f \in DOMAIN profile.features : features[f] # profile.features[f].expected} |->
     [value |-> features[f], expected |-> profile.features[f].expected,
      support |-> profile.features[f].support]]

SameGroup(c, profile) == c.device.group # None /\ GroupOf(c) = profile.group

\* 0.1.0 compares what it has, complete or not.
EvaluateLegacy(c, profile) ==
  IF ~SameGroup(c, profile) THEN Refused
  ELSE [findings |-> Deviations(profile, LegacyFeatures(c)),
        excess |-> 2 * Deficit(c) > profile.limit]

OutsidePopulation(c, profile) ==
  /\ SameGroup(c, profile) /\ c.device.host # None
  /\ \A s \in profile.samples : s.host # c.device.host /\ s.sha # c.sha /\ s.at <= c.at

EvaluateExpanded(c, profile) ==
  IF ~OutsidePopulation(c, profile) \/ (Complete(c) /\ Ambiguous(Facts(c))) THEN Refused
  ELSE [complete |-> Complete(c),
        compared |-> IF Complete(c) THEN DOMAIN profile.features ELSE {},
        findings |-> IF Complete(c) THEN Deviations(profile, Features(c)) ELSE <<>>,
        ratio |-> Deficit(c), excess |-> Deficit(c) > profile.limit]

EvaluateMeasured(s, profile) ==
  IF ~Measured(s) THEN Refused
  ELSE IF s.coverage.commands = 0 \/ EvaluateExpanded(s.config, profile.properties) = Refused
  THEN Refused
  ELSE [EvaluateExpanded(s.config, profile.properties) EXCEPT
          !.ratio = (10000 * s.coverage.unparsed) \div s.coverage.commands,
          !.excess = 10000 * s.coverage.unparsed > profile.limit * s.coverage.commands]

\* ExpandedPeerEvaluation.bound_status_and_findings, MeasuredPeerEvaluation.exact_measured_result.
EvaluationAccepted(e, profile) ==
  /\ e.complete => e.compared = DOMAIN profile.features /\ e.ratio = 0
  /\ ~e.complete => e.compared = {} /\ e.findings = <<>>
  /\ DOMAIN e.findings \subseteq DOMAIN profile.features
  /\ \A f \in DOMAIN e.findings : /\ e.findings[f].value # e.findings[f].expected
                                  /\ e.findings[f].expected = profile.features[f].expected
                                  /\ e.findings[f].support = profile.features[f].support

-----------------------------------------------------------------------------
(* A selected reference of the same device.  A snapshot is a configuration   *)
(* with its id, its device and the time it was stored; `coverage` is the     *)
(* accounting of its lines that was stored with it, or None.                *)

Given(index, k) == IF k \in DOMAIN index THEN {index[k]} ELSE {}
Differing(old, new) ==
  [k \in {k \in DOMAIN old \cup DOMAIN new : Given(old, k) # Given(new, k)} |->
     [before |-> Given(old, k), after |-> Given(new, k)]]

Identity(s) == <<s.device, s.config.device.vendor, s.config.device.host>>
Binding(s) == [id |-> s.id, device |-> s.device, sha |-> s.config.sha, created |-> s.created]

Projected(c, version) == IF version = "0.1.0" THEN LegacyFacts(c) ELSE Facts(c)

CreateReference(s, version) ==
  IF ~Complete(s.config) \/ Ambiguous(Projected(s.config, version)) THEN Refused
  ELSE [id |-> s.id, identity |-> Identity(s), sha |-> s.config.sha,
        facts |-> Indexed(Projected(s.config, version))]

CompareReference(s, reference, version) ==
  IF \/ reference = Refused \/ ~Complete(s.config) \/ Identity(s) # reference.identity
     \/ Ambiguous(Projected(s.config, version)) THEN Refused
  ELSE Differing(reference.facts, Indexed(Projected(s.config, version)))

\* ExpandedReference.unique_bounded_facts: an object has all of its facts or none.
Inventories ==
  {{"user.present", "user.uid", "user.authentication"},
   {"interface.present", "interface.enabled", "interface.mode", "interface.addresses"},
   {"acls.present", "acls.rules"},
   {"bgp.neighbor.present", "bgp.neighbor.remote_as", "bgp.neighbor.group"},
   {"ospf.process.present", "ospf.router_id"}}
BgpDetails ==
  {"bgp.local_as", "bgp.router_id", "bgp.neighbor.present", "bgp.neighbor.remote_as",
   "bgp.neighbor.group"}
OspfDetails == {"ospf.process.present", "ospf.router_id", "ospf.network_area"}

ReferenceAccepted(facts) ==
  LET keys == DOMAIN facts IN
  /\ {<<"management.ssh">>, <<"management.snmp">>, <<"vlans">>, <<"bgp.present">>,
      <<"ospf.present">>} \subseteq keys
  /\ \A inventory \in Inventories : \A k \in keys :
       k[1] \in inventory => \A f \in inventory : <<f>> \o Tail(k) \in keys
  /\ IF facts[<<"bgp.present">>] THEN {<<"bgp.local_as">>, <<"bgp.router_id">>} \subseteq keys
     ELSE \A k \in keys : k[1] \notin BgpDetails
  /\ facts[<<"ospf.present">>] = (\E k \in keys : k[1] = "ospf.process.present")
  /\ \A k \in keys : k[1] \in OspfDetails => <<"ospf.process.present", k[2]>> \in keys

-----------------------------------------------------------------------------
(* The difference of two snapshots of one device.                           *)

Difference(a, b) ==
  IF \/ a.id = b.id \/ a.created > b.created \/ Identity(a) # Identity(b)
     \/ Ambiguous(Objects(a.config)) \/ Ambiguous(Objects(b.config)) THEN Refused
  ELSE IF Cardinality(DOMAIN Differing(Indexed(Objects(a.config)), Indexed(Objects(b.config))))
            > MaxChanges THEN Refused
  ELSE [before |-> Binding(a), after |-> Binding(b),
        complete |-> Complete(a.config) /\ Complete(b.config),
        changed |-> a.config.sha # b.config.sha,
        changes |-> Differing(Indexed(Objects(a.config)), Indexed(Objects(b.config)))]

KindOf(change) ==
  IF change.before = {} THEN "added" ELSE IF change.after = {} THEN "removed" ELSE "modified"

DifferenceAccepted(d) ==
  /\ d.before.id # d.after.id /\ d.before.device = d.after.device
  /\ d.before.created <= d.after.created
  /\ d.changed = (d.before.sha # d.after.sha)
  /\ \A k \in DOMAIN d.changes : d.changes[k].before # d.changes[k].after

-----------------------------------------------------------------------------
(* An analysis with selected inputs (api/service.py), refused as a whole     *)
(* when a selection is not comparable, and the contract it is stored under.  *)

Earlier(s, target) == s.created <= target.created

ReferenceSelectable(reference, target) ==
  reference # None => reference.id # target.id /\ Earlier(reference, target)

PeersSelectable(peers, target) ==
  /\ target.config.device.group # None /\ target.config.device.host # None
  /\ IsInjective([i \in DOMAIN peers |-> peers[i].device])
  /\ IsInjective([i \in DOMAIN peers |-> peers[i].config.device.host])
  /\ \A i \in DOMAIN peers :
       /\ peers[i].device # target.device /\ Earlier(peers[i], target)
       /\ peers[i].config.device.host \notin {None, target.config.device.host}
       /\ peers[i].config.device.group = target.config.device.group
       /\ peers[i].config.device.vendor = target.config.device.vendor
       /\ Complete(peers[i].config)

Profile(peers, version) ==
  CASE version = "0.1.0" -> LegacyProfile(ConfigsOf(peers))
    [] version = "0.2.0" -> ExpandedProfile(ConfigsOf(peers), 500)
    [] version = "0.3.0" -> MeasuredProfile(peers, 500)
Evaluate(s, profile, version) ==
  IF profile = Refused THEN Refused
  ELSE CASE version = "0.1.0" -> EvaluateLegacy(s.config, profile)
         [] version = "0.2.0" -> EvaluateExpanded(s.config, profile)
         [] version = "0.3.0" -> EvaluateMeasured(s, profile)

\* Comparison contexts: independent snapshots, and no source stored before it was read.
Independent(peers) ==
  /\ IsInjective([i \in DOMAIN peers |-> peers[i].id])
  /\ IsInjective([i \in DOMAIN peers |-> peers[i].config.sha])
CollectedBefore(peers) == \A i \in DOMAIN peers : peers[i].config.at <= peers[i].created
ContextAccepted(peers, target, version) ==
  /\ Independent(peers)
  /\ version # "0.1.0" =>
       /\ CollectedBefore(peers)
       /\ \A i \in DOMAIN peers : peers[i].config.sha # target.config.sha

\* What the replay later needs: every pin, the frozen profile and the findings.
Findings(target, reference, profile, version, catalog) ==
  [policy |-> EvaluatePolicies(target.config, catalog),
   reference |-> IF reference = None THEN None ELSE CompareReference(target, reference, version),
   peer |-> IF profile = None THEN None ELSE Evaluate(target, profile, version)]

Analyzed(target, reference, peers, profile, version, catalog, findings) ==
  IF findings.reference = Refused \/ findings.peer = Refused THEN Refused
  ELSE [of |-> Binding(target), version |-> version, catalog |-> catalog,
        status |-> IF Complete(target.config) THEN "completed" ELSE "partial",
        reference |-> IF reference = None THEN None ELSE Binding(reference),
        peers |-> {Binding(peers[i]) : i \in DOMAIN peers}, profile |-> profile,
        findings |-> findings]

Frozen(reference, version) ==
  IF reference = None THEN None ELSE CreateReference(reference, version)

Analyze(target, reference, peers, version, catalog) ==
  IF \/ ~ReferenceSelectable(reference, target)
     \/ peers # <<>> /\ ~(/\ PeersSelectable(peers, target) /\ ContextAccepted(peers, target, version))
  THEN Refused
  ELSE LET profile == IF peers = <<>> THEN None ELSE Profile(peers, version)
       IN  Analyzed(target, reference, peers, profile, version, catalog,
                    Findings(target, Frozen(reference, version), profile, version, catalog))

-----------------------------------------------------------------------------
(* The replay of a saved analysis on a changed configuration.               *)

PairMatches(before, after, analysis) ==
  /\ analysis.of = Binding(before) /\ analysis.status = "completed"
  /\ before.created <= after.created /\ before.id # after.id
  /\ before.config.sha # after.config.sha
  /\ Identity(before) = Identity(after)
  /\ Complete(before.config) /\ Complete(after.config)

SelectionMatches(before, analysis, reference) ==
  /\ (reference = None) = (analysis.reference = None)
  /\ reference # None => /\ Binding(reference) = analysis.reference
                         /\ reference.device = before.device /\ Earlier(reference, before)

PopulationExcludes(analysis, s) ==
  \A p \in analysis.peers : /\ p.device # s.device /\ p.id # s.id /\ p.sha # s.config.sha
                            /\ p.created <= s.created

\* Mutant: the replay trusts the saved findings.
Trusted(analysis, old) == old.reference # Refused /\ old.peer # Refused

Reproduced(analysis, old) == old = analysis.findings

Replayed(before, after, analysis, old, new) ==
  IF ~Reproduced(analysis, old) \/ new.reference = Refused \/ new.peer = Refused THEN Refused
  ELSE [before |-> old, after |-> new, policies |-> Changes(old.policy, new.policy)]

Recheck(before, after, analysis, reference) ==
  IF \/ ~PairMatches(before, after, analysis) \/ ~SelectionMatches(before, analysis, reference)
     \/ \E s \in {before, after} : ~PopulationExcludes(analysis, s)
  THEN Refused
  ELSE Replayed(before, after, analysis,
         Findings(before, Frozen(reference, analysis.version), analysis.profile, analysis.version,
                  analysis.catalog),
         Findings(after, Frozen(reference, analysis.version), analysis.profile, analysis.version,
                  analysis.catalog))

-----------------------------------------------------------------------------
(* The questions that are asked together.                                   *)

AnswerPair(a, b) ==
  [difference |-> Difference(a, b), reverse |-> Difference(b, a),
   reference |-> CreateReference(a, "0.2.0"),
   expanded |-> CompareReference(b, CreateReference(a, "0.2.0"), "0.2.0"),
   legacy |-> CompareReference(b, CreateReference(a, "0.1.0"), "0.1.0")]

AnswerPeers(i) ==
  [analysis |-> Analyze(i.target, None, i.peers, i.version, Current),
   permuted |-> Analyze(i.target, None, Reverse(i.peers), i.version, Current)]

AnswerReplay(i) ==
  LET analysis == Analyze(i.before, i.reference, i.peers, i.version, i.catalog) IN
  [analysis |-> analysis,
   fresh |-> Analyze(i.after, i.reference, i.peers, i.version, i.catalog),
   recheck |-> IF analysis = Refused THEN Refused ELSE Recheck(i.before, i.after, analysis, i.shown),
   altered |-> IF analysis = Refused \/ analysis.findings.policy = <<>> THEN Refused
               ELSE Recheck(i.before, i.after, [analysis EXCEPT !.findings.policy = Tail(@)], i.shown)]

-----------------------------------------------------------------------------
(* What a reader of the comparisons relies on.                              *)

\* The object that a fact of either reference version is about.
ObjectOf(k) ==
  CASE k[1] \in {"management.ssh", "management.snmp"} -> {<<"management">>}
    [] k[1] = "vlans" -> {}
    [] k[1] \in {"user.present", "user.uid", "user.authentication"} -> {<<"local_users", k[2]>>}
    [] k[1] \in {"interface.present", "interface.enabled", "interface.mode", "interface.addresses"} ->
         {<<"interfaces", k[2]>>}
    [] k[1] \in {"acls.present", "acls.rules"} -> {<<"acls", k[3], k[2]>>}
    [] k[1] \in {"bgp.present", "bgp.local_as", "bgp.router_id"} -> {<<"bgp">>}
    [] k[1] \in {"bgp.neighbor.present", "bgp.neighbor.remote_as", "bgp.neighbor.group",
                 "bgp.remote_as"} -> {<<"bgp_neighbors", k[2]>>}
    [] k[1] = "ospf.present" -> {}
    [] k[1] \in {"ospf.process.present", "ospf.router_id", "ospf.network_area"} -> {<<"ospf", k[2]>>}
    [] k[1] = "static_routes.targets" -> {<<"static_routes", k[2]>>}

SaidOf(s, catalog) == {Semantic(f) : f \in ToSet(EvaluatePolicies(s.config, catalog))}

\* The three views of one change of a device agree.  A fact that differs from a reference
\* of either version belongs to an object that the difference lists; the older version
\* misses no fact and reports nothing the newer does not, except an address that is
\* declared more often; equal objects say the same policies and have the same features;
\* and a reference is one that its record accepts.
ComparisonsAgree(a, b, answer) ==
  LET diff == answer.difference  new == answer.expanded  old == answer.legacy IN
  /\ answer.reference # Refused => ReferenceAccepted(answer.reference.facts)
  /\ diff # Refused =>
       /\ DifferenceAccepted(diff)
       /\ a.created = b.created => answer.reverse # Refused
       /\ answer.reverse # Refused =>
            \A k \in DOMAIN diff.changes :
              KindOf(diff.changes[k]) = "added" <=> KindOf(answer.reverse.changes[k]) = "removed"
       /\ new # Refused => \A k \in DOMAIN new : ObjectOf(k) \subseteq DOMAIN diff.changes
       /\ DOMAIN diff.changes = {} =>
            /\ Features(a.config) = Features(b.config)
            /\ SaidOf(a, Current) = SaidOf(b, Current)
  /\ new # Refused /\ old # Refused =>
       \A k \in DOMAIN old :
         \/ k \in DOMAIN new \/ <<"bgp.neighbor.remote_as", k[Len(k)]>> \in DOMAIN new
         \/ k[1] = "interface.addresses"
              /\ \A v \in old[k].before : \A w \in old[k].after : DOMAIN v = DOMAIN w

PeerValues(peers, version, f) ==
  [i \in DOMAIN peers |-> IF version = "0.1.0" THEN LegacyFeatures(peers[i].config)[f]
                          ELSE Features(peers[i].config)[f]]
Sharing(values, v) == Cardinality({i \in DOMAIN values : values[i] = v})

\* A deviation is what the target shows and three quarters of at least three devices, with
\* a source of their own each, do not; every such value is reported, in any order of the
\* peers; and a target that was not fully parsed is accused of nothing by the newer versions.
DeviationsAreJustified(target, peers, version, answer) ==
  answer.analysis # Refused =>
    LET found == answer.analysis.findings.peer.findings
        value == IF version = "0.1.0" THEN LegacyFeatures(target.config) ELSE Features(target.config)
    IN
    /\ answer.permuted = answer.analysis
    /\ Cardinality({p.device : p \in answer.analysis.peers}) = Len(peers)
    /\ Cardinality({p.sha : p \in answer.analysis.peers}) = Len(peers)
    /\ version # "0.1.0" => EvaluationAccepted(answer.analysis.findings.peer,
                             IF version = "0.2.0" THEN answer.analysis.profile
                             ELSE answer.analysis.profile.properties)
    /\ \A f \in DOMAIN value :
         LET values == PeerValues(peers, version, f) IN
         (f \in DOMAIN found) <=>
           /\ version # "0.1.0" => Complete(target.config)
           /\ \E i \in DOMAIN values : /\ values[i] # value[f]
                                       /\ 4 * Sharing(values, values[i]) >= 3 * Len(values)

\* A replay reproduces the saved findings, says of the changed configuration what a new
\* analysis with the same selections would say, accounts for every policy finding of both
\* sides once, and never accepts altered findings or another reference.  An analysis of a
\* complete configuration can be replayed, under the catalog it was made with.
ReplayIsFaithful(input, answer) ==
  LET r == answer.recheck  fresh == answer.fresh IN
  /\ answer.analysis # Refused /\ r = Refused =>
       \/ ~Complete(input.before.config) \/ ~Complete(input.after.config)
       \/ fresh = Refused \/ Identity(input.before) # Identity(input.after)
       \/ input.before.config.sha = input.after.config.sha
       \/ input.shown # input.reference
  /\ answer.altered = Refused
  /\ r # Refused =>
       /\ input.shown = input.reference
       /\ r.before = answer.analysis.findings
       /\ fresh # Refused => r.after = fresh.findings
       /\ \A x \in r.policies.introduced : \A y \in r.policies.resolved : Semantic(x) # Semantic(y)
       /\ Len(r.before.policy) =
            Cardinality(r.policies.resolved) + Cardinality(r.policies.persistent)
       /\ Len(r.after.policy) =
            Cardinality(r.policies.introduced) + Cardinality(r.policies.persistent)
  /\ answer.analysis # Refused =>
       LET policy == answer.analysis.findings.policy
       IN  IsInjective([i \in DOMAIN policy |-> FindingId(policy[i])])

=============================================================================
