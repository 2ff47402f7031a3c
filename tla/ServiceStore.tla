---------------------------- MODULE ServiceStore ----------------------------
(***************************************************************************)
(* What the service keeps about devices: uploaded configurations with      *)
(* their retained texts, trained models, analyses and feedback             *)
(* (AnalysisService over Store), saved model runs                          *)
(* (SavedConfigurationModelWorkflow), native candidates                    *)
(* (NativePatchWorkflow) and their materialization into a configuration    *)
(* and a draft (NativeMaterializationWorkflow).                            *)
(*                                                                         *)
(* Uploads, models and analyses get fresh ids from the server and nothing  *)
(* is looked up for them; the other records are named by clients.  Two     *)
(* non-blocking slots per process bound training and local models, and a   *)
(* materialization locks the rows it depends on and writes five of its own *)
(* in one transaction.                                                     *)
(***************************************************************************)
EXTENDS Integers, FiniteSets

CONSTANTS
  Caller,     \* HTTP handlers in flight; a fresh id is named after its caller
  Process,    \* API processes over one database
  Name,       \* ids chosen by clients, and those of records that exist at the start
  Device, Label, Text,
  Parsed,     \* Parsed[t]: platform, host, completeness and telnet flag, None if refused
  Repaired,   \* Repaired[t]: t as the vendor generator changes it
  Configured, \* the processes that have a model registry
  Restored,   \* the databases that the service may be started on, with what clients ask
  FaultKinds, MaxFaults, MaxClock, None

Minted == {"configuration", "model", "analysis"}
Kind == Minted \union {"feedback", "inference", "candidate", "materialization", "patch"}
Key == Kind \X (Name \union Caller)

Time == 0..MaxClock

\* What a client asks for.  "about" is the record that the URL or body is about: of an
\* analysis, a candidate, a materialization and a draft a configuration, of feedback and
\* an inference an analysis.  "reference" is the reference of an analysis, the analysis
\* of a candidate, the later configuration of a draft.  "using" are peers or training
\* configurations.  "pinned" says whether the hashes in the request are right.
Wish == [kind: Kind, name: Name \union {None}, device: Device \union {None},
         text: Text \union {None}, labels: Label \union {None}, keep: BOOLEAN,
         about: Key \union {None}, reference: Key \union {None}, using: SUBSET Key,
         model: Key \union {None}, after: Name \union {None}, patch: Name \union {None},
         pinned: BOOLEAN, consent: BOOLEAN]

Role == {"engineer", "admin"}

\* The keys of the records of one kind.
Of(kind) == {kind} \X (Name \union Caller)

\* The fields that a record of each kind has, a configuration or a draft that a
\* materialization made included.
Shaped(w) ==
  /\ w.kind \notin Minted => w.name \in Name
  /\ w.kind \notin {"model", "analysis"} => w.using = {} /\ w.model = None
  /\ w.kind \notin {"analysis", "candidate", "patch"} => w.reference = None
  /\ w.kind = "configuration" => w.device \in Device /\ w.text \in Text
  /\ w.kind = "model" => w.using \subseteq Of("configuration") /\ w.model = None
  /\ w.kind = "analysis" => /\ w.reference \in Of("configuration") \union {None}
                            /\ w.using \subseteq Of("configuration")
                            /\ w.model \in Of("model") \union {None}
  /\ w.kind = "candidate" => w.reference \in Of("analysis")
  /\ w.kind = "patch" => w.reference \in Of("configuration")
  /\ w.kind = "materialization" => w.after \in Name /\ w.patch \in Name
  /\ w.about \in CASE w.kind = "configuration" -> Of("configuration") \union {None}
                   [] w.kind = "model" -> {None}
                   [] w.kind \in {"feedback", "inference"} -> Of("analysis")
                   [] w.kind \in {"analysis", "candidate", "materialization", "patch"} ->
                        Of("configuration")

\* What the body of a request may be: the server names what it mints.
Requested(w) ==
  /\ Shaped(w)
  /\ w.kind \in Minted => w.name = None
  /\ w.kind = "configuration" => w.about = None

Record == [wish: Wish, at: Time, role: Role \union {None}]

Ending == [at: Time, status: {"completed", "failed"}]

\* Fresh ids differ from all that clients choose and from those of restored records.
ASSUME StoreConstants ==
  /\ DOMAIN Parsed = Text
  /\ \A t \in Text : Parsed[t] # None => <<Parsed[t].platform, Parsed[t].host>> # None
  /\ Repaired \in [Text -> Text]
  /\ \A db \in Restored :
       /\ \A o \in db.offered : o[1] \in Process /\ o[2] \in Wish /\ Requested(o[2])
       /\ \A x \in Key : db.rows[x] # None => x[2] \in Name
  /\ MaxClock \in Nat /\ MaxFaults \in Nat
  /\ Name \intersect Caller = {}
  /\ None \notin Caller \union Name \union Process \union Key \union Wish \union Record
                \union Ending

VARIABLES
  rows,      \* rows[x]: the row of record x, of intents for inferences
  outcomes,  \* outcomes[x]: the outcome of inference x
  devices,   \* devices[d]: the identity that device d is bound to
  sources,   \* the configurations whose original text is retained
  audit,     \* audit[x]: audit rows written about x
  slots,     \* slots[q][s]: the caller that holds slot s of process q
  offered,   \* the requests of this behaviour
  pc, site, wants, role, made, found, answer,  \* of each caller
  clock, faults

tables == <<rows, outcomes, devices, sources, audit>>
call == <<site, wants, role>>
world == <<offered, clock, faults>>
vars == <<rows, outcomes, devices, sources, audit, slots, offered, pc, site, wants, role,
          made, found, answer, clock, faults>>

-----------------------------------------------------------------------------
(* What is stored *)

Identity(t) == <<Parsed[t].platform, Parsed[t].host>>

TextOf(x) == rows[x].wish.text
DeviceOf(x) == rows[x].wish.device
Host(x) == Parsed[TextOf(x)].host
Complete(x) == Parsed[TextOf(x)].complete

\* PeerGroupKey: the platform and the declared role, site class and service profile.
Group(x) == <<Parsed[TextOf(x)].platform, rows[x].wish.labels>>

Stored(x) == x # None /\ rows[x] # None

\* One snapshot of each device, host and text.
Independent(S) ==
  \A x, y \in S : x # y =>
    DeviceOf(x) # DeviceOf(y) /\ Host(x) # Host(y) /\ TextOf(x) # TextOf(y)

\* A configuration belongs to the history of one device.
ValidConfiguration(r) == devices[r.wish.device] = Identity(r.wish.text)

\* A model is trained on complete, identified configurations of one group, none of
\* them newer than the model.
ValidModel(r) ==
  /\ \A x \in r.wish.using :
       /\ Stored(x) /\ Complete(x) /\ Host(x) # None /\ rows[x].wish.labels # None
       /\ rows[x].at <= r.at
  /\ \A x, y \in r.wish.using : Group(x) = Group(y)
  /\ Independent(r.wish.using)

ValidReference(r) ==
  LET target == r.wish.about  reference == r.wish.reference IN
  reference # None =>
    /\ Stored(reference) /\ reference # target
    /\ rows[reference].at <= rows[target].at
    /\ DeviceOf(reference) = DeviceOf(target)

ValidPeers(r) ==
  LET target == r.wish.about IN
  /\ \A x \in r.wish.using :
       /\ Stored(x) /\ DeviceOf(x) # DeviceOf(target) /\ rows[x].at <= rows[target].at
       /\ Group(x) = Group(target) /\ rows[x].wish.labels # None /\ Complete(x)
       /\ Host(x) # None /\ Host(target) # None /\ Host(x) # Host(target)
  /\ Independent(r.wish.using)

\* The target is no part of the training population and not older than it.
ValidStatistics(r) ==
  LET target == r.wish.about
      training == IF Stored(r.wish.model) THEN rows[r.wish.model].wish.using ELSE {}
  IN
  r.wish.model # None =>
    /\ Stored(r.wish.model) /\ Complete(target) /\ Host(target) # None
    /\ \A x \in training :
         /\ Group(x) = Group(target) /\ Host(x) # Host(target)
         /\ DeviceOf(x) # DeviceOf(target) /\ TextOf(x) # TextOf(target)
         /\ rows[x].at <= rows[target].at

ValidAnalysis(r) ==
  Stored(r.wish.about) /\ ValidReference(r) /\ ValidPeers(r) /\ ValidStatistics(r)

ValidFeedback(r) == Stored(r.wish.about) /\ r.wish.pinned

Analyzed(r) == rows[r.wish.about].wish.about

ValidInference(r) ==
  /\ r.wish.consent
  /\ Stored(r.wish.about) /\ Stored(Analyzed(r))
  /\ rows[r.wish.about].at <= r.at /\ rows[Analyzed(r)].at <= r.at

OutcomeOf(o, r) == o.at >= r.at

\* The analysis is of this configuration, complete and not older than it, and found
\* telnet; the candidate is not older than the two.
ValidCandidate(r) ==
  LET before == r.wish.about  analysis == r.wish.reference IN
  /\ Stored(before) /\ Stored(analysis)
  /\ rows[analysis].wish.about = before
  /\ rows[before].at <= rows[analysis].at /\ rows[analysis].at <= r.at
  /\ Complete(before) /\ Parsed[TextOf(before)].telnet
  /\ r.wish.pinned

CandidateOf(r) == <<"candidate", r.wish.name>>
AfterOf(r) == <<"configuration", r.wish.after>>
PatchOf(r) == <<"patch", r.wish.patch>>

\* What the parents demand of a materialization, before and after it is stored.
ParentsAgree(r) ==
  LET native == CandidateOf(r)  before == r.wish.about IN
  /\ Stored(native) /\ Stored(before)
  /\ rows[native].wish.about = before /\ r.wish.pinned
  /\ rows[native].at <= r.at /\ rows[before].at <= r.at
  /\ rows[rows[native].wish.reference].at <= r.at
  /\ devices[DeviceOf(before)] = Identity(TextOf(before))

\* The reader finds the configuration and the draft that were made with it.
ValidMaterialization(r) ==
  /\ ParentsAgree(r)
  /\ Stored(AfterOf(r)) /\ Stored(PatchOf(r))
  /\ rows[AfterOf(r)].at = r.at /\ rows[PatchOf(r)].at = r.at
  /\ DeviceOf(AfterOf(r)) = DeviceOf(r.wish.about)
  /\ TextOf(AfterOf(r)) = Repaired[TextOf(r.wish.about)]
  /\ rows[PatchOf(r)].wish.about = r.wish.about
  /\ rows[PatchOf(r)].wish.reference = AfterOf(r)

\* compare_snapshots accepts the two, and they differ.
Comparable(before, after) ==
  /\ before # after
  /\ DeviceOf(before) = DeviceOf(after)
  /\ Identity(TextOf(before)) = Identity(TextOf(after))
  /\ rows[before].at <= rows[after].at
  /\ TextOf(before) # TextOf(after)

ValidPatch(r) ==
  /\ Stored(r.wish.about) /\ Stored(r.wish.reference)
  /\ Comparable(r.wish.about, r.wish.reference)
  /\ rows[r.wish.reference].at <= r.at
  /\ r.wish.pinned

\* What the reader of a row demands, by table.
ValidRow(r) ==
  /\ r.wish.kind = "configuration" => ValidConfiguration(r)
  /\ r.wish.kind = "model" => ValidModel(r)
  /\ r.wish.kind = "analysis" => ValidAnalysis(r)
  /\ r.wish.kind = "feedback" => ValidFeedback(r)
  /\ r.wish.kind = "inference" => ValidInference(r)
  /\ r.wish.kind = "candidate" => ValidCandidate(r)
  /\ r.wish.kind = "materialization" => ValidMaterialization(r)
  /\ r.wish.kind = "patch" => ValidPatch(r)

Readable(x) == ValidRow(rows[x]) /\ (outcomes[x] # None => OutcomeOf(outcomes[x], rows[x]))

\* Everything is audited in the transaction that stores it.
Audited(x) ==
  IF rows[x] = None THEN 0
  ELSE 1 + (IF x \in sources THEN 1 ELSE 0) + (IF outcomes[x] # None THEN 1 ELSE 0)

Init ==
  /\ \E db \in Restored :
       /\ rows = db.rows
       /\ outcomes = [x \in Key |-> None]
       /\ devices = db.devices
       /\ sources = db.sources
       /\ offered = db.offered
       /\ audit = [x \in Key |-> IF db.rows[x] = None THEN 0
                                 ELSE IF x \in db.sources THEN 2 ELSE 1]
  /\ slots = [q \in Process |-> [training |-> None, worker |-> None]]
  /\ pc = [c \in Caller |-> "idle"]
  /\ site = [c \in Caller |-> None]
  /\ wants = [c \in Caller |-> None]
  /\ role = [c \in Caller |-> None]
  /\ made = [c \in Caller |-> None]
  /\ found = [c \in Caller |-> None]
  /\ answer = [c \in Caller |-> None]
  /\ clock = 0
  /\ faults = 0

-----------------------------------------------------------------------------
(* The steps of a handler *)

Wanted(c) == wants[c]
Is(c, kinds) == Wanted(c).kind \in kinds
Id(c) == <<Wanted(c).kind, IF Is(c, Minted) THEN c ELSE Wanted(c).name>>

View(x) == [row |-> rows[x], outcome |-> outcomes[x]]

Goto(c, s) == pc' = [pc EXCEPT ![c] = s]

AnswerHoldingTraining(c, code, view) ==
  /\ Goto(c, "done")
  /\ answer' = [answer EXCEPT ![c] = [code |-> code, view |-> view]]
  /\ slots' = [q \in Process |-> [slots[q] EXCEPT !.worker = IF @ = c THEN None ELSE @]]

\* Both slots are released in a finally.
Answer(c, code, view) ==
  /\ Goto(c, "done")
  /\ answer' = [answer EXCEPT ![c] = [code |-> code, view |-> view]]
  /\ slots' = [q \in Process |-> [s \in DOMAIN slots[q] |->
                 IF slots[q][s] = c THEN None ELSE slots[q][s]]]

Continue(c, s) == Goto(c, s) /\ UNCHANGED <<slots, answer>>

\* A stored record is validated by its reader, then compared with the request.
ReplayCode(c) ==
  CASE ~Readable(Id(c)) -> "unavailable"
    [] Readable(Id(c)) /\ rows[Id(c)].wish = Wanted(c) -> "found"
    [] Readable(Id(c)) /\ rows[Id(c)].wish # Wanted(c) -> "conflict"

Replay(c) ==
  Answer(c, ReplayCode(c), IF ReplayCode(c) = "found" THEN View(Id(c)) ELSE None)

FirstStage(w) ==
  CASE w.kind = "model" -> "slot"
    [] w.kind \in {"configuration", "analysis", "feedback"} -> "prepare"
    [] w.kind \in {"inference", "candidate", "materialization", "patch"} -> "lookup"

Ask(c, q, w, as) ==
  /\ pc[c] = "idle"
  /\ Goto(c, FirstStage(w))
  /\ site' = [site EXCEPT ![c] = q]
  /\ wants' = [wants EXCEPT ![c] = w]
  /\ role' = [role EXCEPT ![c] = as]
  /\ UNCHANGED <<tables, slots, made, found, answer, world>>

\* A replay needs neither the source nor the worker.
Lookup(c) ==
  /\ pc[c] = "lookup"
  /\ \/ /\ Is(c, {"inference"}) /\ ~Wanted(c).consent
        /\ Answer(c, "consent_required", None)
     \/ /\ Is(c, {"inference"}) => Wanted(c).consent
        /\ Stored(Id(c))
        /\ Replay(c)
     \/ /\ Is(c, {"inference"}) /\ Wanted(c).consent
        /\ ~Stored(Id(c)) /\ site[c] \notin Configured
        /\ Answer(c, "disabled", None)
     \/ /\ Is(c, {"inference"}) /\ Wanted(c).consent
        /\ ~Stored(Id(c)) /\ site[c] \in Configured
        /\ Continue(c, "slot")
     \/ /\ ~Is(c, {"inference"}) /\ ~Stored(Id(c))
        /\ Continue(c, "prepare")
  /\ UNCHANGED <<tables, call, made, found, world>>

SlotOf(c) == IF Is(c, {"model"}) THEN "training" ELSE "worker"

\* BoundedSemaphore(1) and Lock, neither of them waited for.
TakeSlot(c) ==
  /\ pc[c] = "slot"
  /\ \/ /\ slots[site[c]][SlotOf(c)] = None
        /\ slots' = [slots EXCEPT ![site[c]][SlotOf(c)] = c]
        /\ Goto(c, "prepare")
        /\ UNCHANGED answer
     \/ /\ slots[site[c]][SlotOf(c)] # None
        /\ Answer(c, "busy", None)
  /\ UNCHANGED <<tables, call, made, found, world>>

New(c) == [wish |-> Wanted(c), at |-> clock, role |-> role[c]]

Missing(w) ==
  \/ w.kind \in {"analysis", "feedback", "inference"} /\ ~Stored(w.about)
  \/ w.kind \in {"candidate", "patch"} /\ ~(Stored(w.about) /\ Stored(w.reference))
  \/ w.kind = "materialization" /\ ~(Stored(CandidateOf([wish |-> w])) /\ Stored(w.about))

SourceRetained(x) == x \in sources

\* prepare_native_materialization: the generated text parses completely into the same
\* device without telnet, and is an ordinary difference.
Prepared(r) ==
  LET before == r.wish.about  after == Repaired[TextOf(before)] IN
  /\ ParentsAgree(r)
  /\ SourceRetained(before)
  /\ r.wish.after # before[2]
  /\ Parsed[after].complete /\ ~Parsed[after].telnet
  /\ Identity(after) = Identity(TextOf(before))

\* What is demanded before the transaction that adds the row.
Acceptable(r) ==
  /\ r.wish.kind = "configuration" => Parsed[r.wish.text] # None
  /\ r.wish.kind \in {"model", "analysis", "feedback", "patch"} => ValidRow(r)
  /\ r.wish.kind = "inference" =>
       r.wish.pinned /\ Complete(Analyzed(r)) /\ SourceRetained(Analyzed(r))
  /\ r.wish.kind = "candidate" => ValidCandidate(r) /\ SourceRetained(r.wish.about)
  /\ r.wish.kind = "materialization" => Prepared(r)

\* The constructor of an intent refuses an earlier clock, and nobody catches that.
ClockBehind(r) == r.wish.kind = "inference" /\ r.at < rows[Analyzed(r)].at

AfterPreparing(c) ==
  CASE Is(c, {"model", "analysis"}) -> "insert"
    [] Is(c, {"materialization"}) -> "lock"
    [] OTHER -> "reserve"

Prepare(c) ==
  /\ pc[c] = "prepare"
  /\ \/ /\ Missing(Wanted(c))
        /\ Answer(c, "not_found", None)
        /\ UNCHANGED made
     \/ /\ ~Missing(Wanted(c)) /\ ~Acceptable(New(c))
        /\ Answer(c, "conflict", None)
        /\ UNCHANGED made
     \/ /\ ~Missing(Wanted(c)) /\ Acceptable(New(c)) /\ ClockBehind(New(c))
        /\ Answer(c, "error", None)
        /\ UNCHANGED made
     \/ /\ ~Missing(Wanted(c)) /\ Acceptable(New(c)) /\ ~ClockBehind(New(c))
        /\ made' = [made EXCEPT ![c] = New(c)]
        /\ Continue(c, AfterPreparing(c))
  /\ UNCHANGED <<tables, call, found, world>>

\* The rows that a transaction of c locks, or whose keys it references.
Touched(c) ==
  LET w == Wanted(c) IN
  CASE w.kind = "configuration" -> {w.device}
    [] w.kind = "inference" -> {w.about, Analyzed(made[c])}
    [] w.kind = "materialization" ->
         {CandidateOf(made[c]), w.about, rows[CandidateOf(made[c])].wish.reference,
          DeviceOf(w.about)}
    [] OTHER -> {w.about, w.reference}

NeverUnlocks(c) ==
  pc[c] \in {"reserve", "insert", "done"} /\ Is(c, {"materialization"}) /\ made[c] # None

HoldsLocks(c) == pc[c] \in {"reserve", "insert"} /\ Is(c, {"materialization"})

\* SELECT ... FOR UPDATE: whoever needs a locked row waits for the transaction's end.
Waits(c) == \E d \in Caller : d # c /\ HoldsLocks(d) /\ Touched(c) \intersect Touched(d) # {}

LockParents(c) ==
  /\ pc[c] = "lock"
  /\ ~Waits(c)
  /\ Continue(c, "reserve")
  /\ UNCHANGED <<tables, call, made, found, world>>

DeviceNew(d) == devices[d] = None

PatchUnused(c) == ~Stored(PatchOf(made[c]))

OutputsUnused(c) == ~Stored(AfterOf(made[c])) /\ ~Stored(PatchOf(made[c]))

Admissible(c) == ParentsAgree(made[c]) /\ OutputsUnused(c)

\* The transaction that adds the row begins with a look at what is there.
Reserve(c) ==
  /\ pc[c] = "reserve"
  /\ \/ /\ Is(c, {"configuration"})
        /\ ~DeviceNew(Wanted(c).device) /\ ~ValidConfiguration(made[c])
        /\ Answer(c, "conflict", None)
        /\ UNCHANGED found
     \/ /\ Is(c, {"configuration"})
        /\ DeviceNew(Wanted(c).device) \/ ValidConfiguration(made[c])
        /\ found' = [found EXCEPT ![c] = DeviceNew(Wanted(c).device)]
        /\ Continue(c, "insert")
     \/ /\ ~Is(c, {"configuration"}) /\ Stored(Id(c))
        /\ Replay(c)
        /\ UNCHANGED found
     \/ /\ Is(c, {"inference"}) /\ ~Stored(Id(c)) /\ ~ValidInference(made[c])
        /\ Answer(c, "unavailable", None)
        /\ UNCHANGED found
     \/ /\ Is(c, {"materialization"}) /\ ~Stored(Id(c)) /\ ~Admissible(c)
        /\ Answer(c, "conflict", None)
        /\ UNCHANGED found
     \/ /\ ~Is(c, {"configuration"}) /\ ~Stored(Id(c))
        /\ Is(c, {"inference"}) => ValidInference(made[c])
        /\ Is(c, {"materialization"}) => Admissible(c)
        /\ Continue(c, "insert")
        /\ UNCHANGED found
  /\ UNCHANGED <<tables, call, made, world>>

KeyUnusedUpsert(c) ==
  CASE Is(c, {"configuration"}) -> TRUE
    [] Is(c, {"materialization"}) -> ~Stored(Id(c)) /\ OutputsUnused(c)
    [] OTHER -> ~Stored(Id(c))

\* The primary keys, of the device row for an upload that saw none.
KeyUnused(c) ==
  CASE Is(c, {"configuration"}) -> found[c] => DeviceNew(Wanted(c).device)
    [] Is(c, {"materialization"}) -> ~Stored(Id(c)) /\ OutputsUnused(c)
    [] OTHER -> ~Stored(Id(c))

\* The rows of a materialization: the later configuration in the history of the same
\* device and under the same labels, with its text, and a draft from the one to the other.
AfterRow(r) ==
  [r EXCEPT !.wish = [r.wish EXCEPT !.kind = "configuration", !.name = r.wish.after,
                                    !.device = DeviceOf(r.wish.about),
                                    !.text = Repaired[TextOf(r.wish.about)],
                                    !.labels = rows[r.wish.about].wish.labels,
                                    !.keep = TRUE]]

PatchRow(r) ==
  [r EXCEPT !.wish = [r.wish EXCEPT !.kind = "patch", !.name = r.wish.patch,
                                    !.reference = AfterOf(r)]]

CommitOutputs(c) ==
  LET r == made[c]  after == AfterOf(r)  patch == PatchOf(r) IN
  /\ rows' = [rows EXCEPT ![after] = AfterRow(r), ![patch] = PatchRow(r)]
  /\ sources' = sources \union {after}
  /\ audit' = [audit EXCEPT ![after] = @ + 2, ![patch] = @ + 1]
  /\ UNCHANGED <<outcomes, devices>>

CommitMaterialization(c) ==
  LET r == made[c]  after == AfterOf(r)  patch == PatchOf(r) IN
  /\ rows' = [rows EXCEPT ![Id(c)] = r, ![after] = AfterRow(r), ![patch] = PatchRow(r)]
  /\ sources' = sources \union {after}
  /\ audit' = [audit EXCEPT ![Id(c)] = @ + 1, ![after] = @ + 2, ![patch] = @ + 1]
  /\ UNCHANGED <<outcomes, devices>>

\* The device row, if there was none, the configuration, and its text if it is to be kept.
CommitUpload(c) ==
  LET w == Wanted(c) IN
  /\ rows' = [rows EXCEPT ![Id(c)] = made[c]]
  /\ devices' = IF found[c] THEN [devices EXCEPT ![w.device] = Identity(w.text)] ELSE devices
  /\ sources' = IF w.keep THEN sources \union {Id(c)} ELSE sources
  /\ audit' = [audit EXCEPT ![Id(c)] = @ + (IF w.keep THEN 2 ELSE 1)]
  /\ UNCHANGED outcomes

CommitRow(c) ==
  /\ rows' = [rows EXCEPT ![Id(c)] = made[c]]
  /\ audit' = [audit EXCEPT ![Id(c)] = @ + 1]
  /\ UNCHANGED <<outcomes, devices, sources>>

Commit(c) ==
  CASE Is(c, {"configuration"}) -> CommitUpload(c)
    [] Is(c, {"materialization"}) -> CommitMaterialization(c)
    [] OTHER -> CommitRow(c)

Insert(c) ==
  /\ pc[c] = "insert"
  /\ ~Waits(c)
  /\ \/ /\ KeyUnused(c) /\ Is(c, {"inference"})
        /\ Commit(c)
        /\ Continue(c, "running")
     \/ /\ KeyUnused(c) /\ ~Is(c, {"inference"})
        /\ Commit(c)
        /\ Answer(c, "created", [row |-> made[c], outcome |-> None])
     \/ /\ ~KeyUnused(c)
        /\ Continue(c, "raced")
        /\ UNCHANGED tables
  /\ UNCHANGED <<call, made, found, world>>

\* IntegrityError: the winner's row is read and compared.  A lost upload is not retried,
\* and a materialization whose output ids were taken has no winner of its own.
Raced(c) ==
  /\ pc[c] = "raced"
  /\ \/ /\ Is(c, {"configuration"})
        /\ Answer(c, "unavailable", None)
     \/ /\ Is(c, {"materialization"}) /\ ~Stored(Id(c))
        /\ Answer(c, "conflict", None)
     \/ /\ Stored(Id(c))
        /\ Replay(c)
  /\ UNCHANGED <<tables, call, made, found, world>>

Ended(status) == [at |-> clock, status |-> status]

\* A report that is refused for the time it carries is a failure like any other.
RunEnds(c) ==
  /\ pc[c] = "running"
  /\ \/ /\ OutcomeOf(Ended("completed"), made[c])
        /\ found' = [found EXCEPT ![c] = Ended("completed")]
        /\ Continue(c, "commit")
     \/ /\ found' = [found EXCEPT ![c] = None]
        /\ Continue(c, "failing")
  /\ UNCHANGED <<tables, call, made, world>>

RunFails(c) ==
  /\ pc[c] = "failing"
  /\ \/ /\ OutcomeOf(Ended("failed"), made[c])
        /\ found' = [found EXCEPT ![c] = Ended("failed")]
        /\ Continue(c, "commit")
     \/ /\ ~OutcomeOf(Ended("failed"), made[c])
        /\ UNCHANGED found
        /\ Answer(c, "unavailable", None)
  /\ UNCHANGED <<tables, call, made, world>>

CommitOutcome(c) ==
  /\ outcomes' = [outcomes EXCEPT ![Id(c)] = found[c]]
  /\ audit' = [audit EXCEPT ![Id(c)] = @ + 1]
  /\ UNCHANGED <<rows, devices, sources>>

Finish(c) ==
  /\ pc[c] = "commit"
  /\ CommitOutcome(c)
  /\ \/ /\ found[c].status = "completed"
        /\ Answer(c, "created", [row |-> made[c], outcome |-> found[c]])
     \/ /\ found[c].status = "failed"
        /\ Answer(c, "failed", None)
  /\ UNCHANGED <<call, made, found, world>>

Step(c) ==
  \/ Lookup(c) \/ TakeSlot(c) \/ Prepare(c) \/ LockParents(c) \/ Reserve(c) \/ Insert(c)
  \/ Raced(c) \/ RunEnds(c) \/ RunFails(c) \/ Finish(c)

-----------------------------------------------------------------------------
(* Faults and time *)

Fault(kind) ==
  /\ kind \in FaultKinds
  /\ faults < MaxFaults
  /\ faults' = faults + 1

\* A transaction fails, also as the victim of a deadlock that the database resolves.
\* The commit of one may be durable although it is not acknowledged.
DatabaseError(c) ==
  /\ Fault("database")
  /\ pc[c] \in {"lookup", "prepare", "lock", "reserve", "insert", "raced", "commit"}
  /\ Answer(c, "unavailable", None)
  /\ \/ UNCHANGED tables
     \/ pc[c] = "insert" /\ ~Waits(c) /\ KeyUnused(c) /\ Commit(c)
     \/ pc[c] = "commit" /\ CommitOutcome(c)
  /\ UNCHANGED <<call, made, found, offered, clock>>

\* A process dies with its handlers, its slots and its transactions.
CrashRestart(q) ==
  /\ Fault("crash")
  /\ pc' = [c \in Caller |->
              IF site[c] = q /\ pc[c] \notin {"idle", "done"} THEN "dead" ELSE pc[c]]
  /\ slots' = [slots EXCEPT ![q] = [s \in DOMAIN @ |-> None]]
  /\ UNCHANGED <<tables, call, made, found, answer, offered, clock>>

ClockAdvances ==
  /\ clock < MaxClock
  /\ clock' = clock + 1
  /\ UNCHANGED <<tables, slots, pc, call, made, found, answer, offered, faults>>

ClockSetBack ==
  /\ Fault("clock")
  /\ clock > 0
  /\ clock' = clock - 1
  /\ UNCHANGED <<tables, slots, pc, call, made, found, answer, offered>>

Roles(w) == IF w.kind \in {"candidate", "materialization"} THEN Role ELSE {None}

Next ==
  \/ \E c \in Caller, o \in offered : \E as \in Roles(o[2]) : Ask(c, o[1], o[2], as)
  \/ \E c \in Caller : Step(c)
  \/ \E c \in Caller : DatabaseError(c)
  \/ \E q \in Process : CrashRestart(q)
  \/ ClockAdvances
  \/ ClockSetBack

Spec == Init /\ [][Next]_vars

\* A thread that can take its next step does; a database hands out the locks it is
\* asked for once they are free.
Fairness == \A c \in Caller : WF_vars(Step(c))

FairSpec == Spec /\ Fairness

-----------------------------------------------------------------------------
(* Properties *)

\* A slot is held by a handler that is between the step that took it and its answer: it
\* is free again after every error, refusal and crash.
SlotsFreeAgain ==
  \A q \in Process : \A s \in {"training", "worker"} :
    LET c == slots[q][s] IN
    c # None =>
      /\ site[c] = q /\ SlotOf(c) = s /\ Is(c, {"model", "inference"})
      /\ pc[c] \in {"prepare", "reserve", "insert", "raced", "running", "failing", "commit"}

\* Every reader validates a record against the records it rests on again.  Whatever was
\* accepted stays readable, whoever stores what meanwhile.
RecordsReadable == \A x \in Key : rows[x] # None => Readable(x)

\* The history of a device is of one identity, whoever uploaded first: each of its
\* configurations was parsed as it, those a materialization made included.
DeviceKeepsIdentity ==
  \A x \in Key : x[1] = "configuration" /\ rows[x] # None =>
    devices[DeviceOf(x)] = Identity(TextOf(x))

Answered(c) == answer[c] # None /\ answer[c].code \in {"created", "found"}

\* Clients that were told that an id is theirs were shown one and the same stored record,
\* and at most one of them was told that it created it.
AnswersAgree ==
  /\ \A c \in Caller : Answered(c) =>
       /\ answer[c].view.row = rows[Id(c)]
       /\ answer[c].view.outcome \in {None, outcomes[Id(c)]}
       /\ rows[Id(c)].wish = Wanted(c)
  /\ \A c, d \in Caller :
       Answered(c) /\ Answered(d) /\ Id(c) = Id(d) /\ c # d =>
         {answer[c].code, answer[d].code} # {"created"}

\* What one transaction stores is stored whole or not at all, with one audit row for each
\* part: a client's configuration id exists exactly for one materialization, with its
\* retained text and its draft, and no two materializations share an output.
WholeTransactions ==
  /\ \A x \in Key : audit[x] = Audited(x)
  /\ \A x \in Key : x[1] = "materialization" /\ rows[x] # None =>
       /\ Stored(AfterOf(rows[x])) /\ AfterOf(rows[x]) \in sources
       /\ Stored(PatchOf(rows[x]))
  /\ \A x \in Key : x[1] = "configuration" /\ rows[x] # None /\ rows[x].wish.name # None =>
       Cardinality({y \in Key : /\ y[1] = "materialization" /\ rows[y] # None
                                /\ AfterOf(rows[y]) = x}) = 1

\* What clients were told, what is stored and what the audit trail counts agree.
StoreAgrees == AnswersAgree /\ WholeTransactions

Basis(r) ==
  {r.wish.about, r.wish.reference, r.wish.model} \union r.wish.using
  \union (IF r.wish.kind = "materialization"
          THEN {CandidateOf(r), AfterOf(r), PatchOf(r)} ELSE {})

\* What a row says fits its key.  A configuration has been parsed.
RowShape(x) ==
  LET w == rows[x].wish IN
  rows[x] # None =>
    /\ w.kind = x[1] /\ w.name \in {None, x[2]} /\ Shaped(w)
    /\ w.kind = "configuration" => Identity(w.text) # None

\* A record rests on final ones: nothing but an inference is ever open.
Cited(x) ==
  rows[x] # None =>
    \A y \in Basis(rows[x]) \ {None} : Stored(y) /\ y \in Key /\ y[1] # "inference"

\* The outputs of a materialization are its own.
Outputs ==
  /\ \A x \in Key : x[1] = "materialization" /\ rows[x] # None =>
       Stored(AfterOf(rows[x])) /\ AfterOf(rows[x]) \in sources /\ Stored(PatchOf(rows[x]))
  /\ \A x \in Key : x[1] = "configuration" /\ rows[x] # None /\ rows[x].wish.name # None =>
       \E y \in Key : y[1] = "materialization" /\ rows[y] # None /\ AfterOf(rows[y]) = x
  /\ \A x, y \in Key :
       /\ x[1] = "materialization" /\ rows[x] # None
       /\ y[1] = "materialization" /\ rows[y] # None
       /\ AfterOf(rows[x]) = AfterOf(rows[y])
       => x = y

\* What the tables are after every transaction, and must be before the first.
StoreInv ==
  /\ rows \in [Key -> Record \union {None}]
  /\ outcomes \in [Key -> Ending \union {None}]
  /\ DOMAIN devices = Device
  /\ sources \subseteq {x \in Key : rows[x] # None}
  /\ audit \in [Key -> Nat]
  /\ \A x \in Key : RowShape(x) /\ Cited(x) /\ audit[x] = Audited(x)
  /\ \A x \in Key : outcomes[x] # None => x[1] = "inference" /\ rows[x] # None
  /\ RecordsReadable
  /\ Outputs

\* Steps after the preparation of a row, and those of an inference that is stored.
Making == {"lock", "reserve", "insert", "raced", "running", "failing", "commit"}
Running == {"running", "failing", "commit"}

TypeOK ==
  /\ slots \in [Process -> [training: Caller \union {None}, worker: Caller \union {None}]]
  /\ \A o \in offered : o[1] \in Process /\ o[2] \in Wish /\ Requested(o[2])
  /\ pc \in [Caller -> {"idle", "lookup", "slot", "prepare", "done", "dead"} \union Making]
  /\ site \in [Caller -> Process \union {None}]
  /\ wants \in [Caller -> Wish \union {None}]
  /\ role \in [Caller -> Role \union {None}]
  /\ made \in [Caller -> Record \union {None}]
  /\ DOMAIN found = Caller
  /\ DOMAIN answer = Caller
  /\ clock \in Time
  /\ faults \in Nat

\* What a caller was told stays true of the stored record.
Told(c) ==
  /\ answer[c] # None => pc[c] = "done"
  /\ Answered(c) =>
       /\ rows[Id(c)] # None /\ rows[Id(c)].wish = Wanted(c)
       /\ answer[c].view.row = rows[Id(c)]
       /\ answer[c].view.outcome \in {None, outcomes[Id(c)]}

\* What a handler knows at each step.  The ids that the server mints for it are unused
\* until it ends.
CallInv(c) ==
  /\ pc[c] # "idle" => site[c] \in Process /\ wants[c] \in Wish /\ Requested(wants[c])
  /\ pc[c] \notin {"done", "dead"} => \A kind \in Minted : rows[<<kind, c>>] = None
  /\ pc[c] = "slot" => Is(c, {"model", "inference"})
  /\ pc[c] \in Making =>
       made[c] \in Record /\ made[c].wish = wants[c] /\ ~Missing(wants[c]) /\ Acceptable(made[c])
  /\ pc[c] = "insert" /\ Is(c, {"configuration"}) =>
       found[c] \in BOOLEAN /\ (~found[c] => ValidConfiguration(made[c]))
  /\ pc[c] = "insert" /\ Is(c, {"inference"}) => ValidInference(made[c])
  /\ pc[c] \in Running =>
       Is(c, {"inference"}) /\ rows[Id(c)] = made[c] /\ outcomes[Id(c)] = None
  /\ pc[c] = "commit" => found[c] \in Ending /\ OutcomeOf(found[c], made[c])
  /\ Told(c)

\* At most one caller stored, or was told to have created, the record of an id.
Owns(c) == pc[c] \in Running \/ (answer[c] # None /\ answer[c].code = "created")

OneOwner == \A c, d \in Caller : Owns(c) /\ Owns(d) /\ Id(c) = Id(d) => c = d

\* The inductive invariant.
IInv ==
  /\ StoreInv
  /\ TypeOK
  /\ SlotsFreeAgain
  /\ \A c \in Caller : CallInv(c)
  /\ OneOwner

\* The refinement: an inference is open until its outcome is stored, all other records
\* are final at once.
Log == INSTANCE EvidenceLog WITH
  Node <- Key,
  state <- [x \in Key |-> CASE rows[x] = None -> "absent"
                            [] rows[x] # None /\ x[1] = "inference" /\ outcomes[x] = None -> "open"
                            [] OTHER -> "final"],
  cites <- [x \in Key |-> IF rows[x] = None THEN {} ELSE Basis(rows[x]) \ {None}],
  text <- rows

\* The handlers implement the append-only log of the evidence chain: what was stored
\* never changes, and a record rests on final ones.
LogSpec == Log!Spec

\* A caller is answered unless its process dies: no slot, lock or race leaves it waiting.
EveryCallAnswered == \A c \in Caller : pc[c] # "idle" ~> pc[c] \in {"done", "dead"}

=============================================================================
