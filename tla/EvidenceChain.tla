---------------------------- MODULE EvidenceChain ----------------------------
(***************************************************************************)
(* The saved evidence about a source patch: drafts and local preflights    *)
(* (PatchWorkflow), network reviews (SourcePatchWorkflow), Isolation       *)
(* Forest and deterministic rechecks (SourceForestWorkflow,                *)
(* SourceDeterministicWorkflow), and what is composed of them: reports,    *)
(* decisions and risk assessments (SourceEvidenceWorkflow,                 *)
(* SourceEvidenceDecisionWorkflow, SourceRiskWorkflow).                    *)
(*                                                                         *)
(* Nine tables and one habit: a client names the record, the handler looks *)
(* for it, prepares a candidate from the records that it cites, and adds   *)
(* it in a second transaction which looks again and validates the whole    *)
(* chain again.  The habit has variations, and this module keeps them: who *)
(* holds the engine lock, which handlers run something costly between two  *)
(* rows, what a lost race answers, which versions may cite which.          *)
(***************************************************************************)
EXTENDS Integers, FiniteSets

CONSTANTS
  Caller,     \* HTTP handlers in flight, each in its own thread
  Process,    \* API processes over one database
  Name,       \* ids, chosen by clients, of each kind of record
  Pair,       \* pairs of saved configurations a draft may be made of
  Parsed,     \* Parsed[p]: "complete", "partial", "unchanged" or "absent"
  Analysis,   \* saved analyses
  Baseline,   \* Baseline[a]: the pair whose before snapshot it is about, and whether
              \* it holds a statistical result
  Restored,   \* the databases that the service may be started on, each with what its
              \* clients are going to ask which process for
  Engine,     \* the processes whose operator allows engine uploads
  FaultKinds, MaxFaults, MaxClock, None

Attempt == {"network", "forest", "deterministic"}
Composed == {"report", "decision", "risk"}
Kind == {"draft", "preflight"} \union Attempt \union Composed

Key == Kind \X Name

Time == 0..MaxClock

Choice == Pair \union Analysis \union {"rejected", "needs_more_information", None}

\* What a client asks for.  "choice" is the pair of a draft, the original analysis of
\* a recheck or the verdict of a decision; "cites" are the records the request names
\* by id and hash, "over" is the record named in the URL.
Wish == [kind: Kind, name: Name, version: 1..5, over: Key \union {None},
         choice: Choice, cites: SUBSET Key, consent: BOOLEAN]

Role == {"engineer", "admin"}

\* The records that a request of each kind is about: the URL names a draft or a report,
\* the body pins it, and that of a report selects attempts.
Requested(w) ==
  /\ w.kind = "draft" => w.choice \in Pair /\ w.over = None /\ w.cites = {}
  /\ w.kind \in {"forest", "deterministic"} => w.choice \in Analysis
  /\ w.kind \in {"preflight"} \union Attempt => w.over \in {"draft"} \X Name
  /\ w.kind = "report" => w.over \in {"draft"} \X Name /\ w.cites \subseteq Attempt \X Name
  /\ w.kind \in {"decision", "risk"} => w.over \in {"report"} \X Name
  /\ w.kind \notin {"draft", "report"} => w.cites = {w.over}

\* What a row and an outcome hold: the hash of a row stands for what two rows under one id
\* can differ in, and a request pins the rows and outcomes that its client has seen.
Hash == (1..5) \X Choice \X Time \X (Role \union {None})
Outcome == [of: Hash, at: Time, status: {"completed", "failed"}, protocol: 1..5]
Pins == [Key -> ((Hash \union {None}) \X (Outcome \union {None})) \union {None}]
Pinned == [wish: Wish, pins: Pins]
Row == [wish: Wish, pins: Pins, at: Time, role: Role \union {None}]

ASSUME ChainConstants ==
  /\ \A db \in Restored : \A o \in db.offered :
       o[1] \in Process /\ o[2] \in Wish /\ Requested(o[2])
  /\ None \notin Caller \union Key \union Row \union Outcome
  /\ Parsed \in [Pair -> {"complete", "partial", "unchanged", "absent"}]
  /\ Baseline \in [Analysis -> [of: Pair, statistical: BOOLEAN]]
  /\ Engine \subseteq Process
  /\ MaxClock \in Nat /\ MaxFaults \in Nat

VARIABLES
  rows,      \* rows[x]: the row of record x, of intents for attempts
  outcomes,  \* outcomes[x]: the row of the outcome of attempt x
  audit,     \* audit[x]: audit rows written about x
  bench,     \* bench[q]: the caller that holds process q's PatchVerificationRuntime
  offered,   \* the requests of this behaviour
  pc, site, wants, role, made, found, answer,  \* of each caller
  started,   \* started[x]: how often the costly run of x was started
  clock, faults

tables == <<rows, outcomes, audit>>
call == <<site, wants, role>>
world == <<offered, clock, faults>>
vars == <<rows, outcomes, audit, bench, offered, pc, site, wants, role, made, found,
          answer, started, clock, faults>>

Init ==
  /\ \E db \in Restored :
       /\ rows = db.rows
       /\ outcomes = db.outcomes
       /\ offered = db.offered
       /\ audit = [x \in Key |-> (IF db.rows[x] = None THEN 0 ELSE 1)
                                 + (IF db.outcomes[x] = None THEN 0 ELSE 1)]
       /\ started = [x \in Key |-> IF db.outcomes[x] = None THEN 0 ELSE 1]
  /\ bench = [q \in Process |-> None]
  /\ pc = [c \in Caller |-> "idle"]
  /\ site = [c \in Caller |-> None]
  /\ wants = [c \in Caller |-> None]
  /\ role = [c \in Caller |-> None]
  /\ made = [c \in Caller |-> None]
  /\ found = [c \in Caller |-> None]
  /\ answer = [c \in Caller |-> None]
  /\ clock = 0
  /\ faults = 0


-----------------------------------------------------------------------------
(* What makes a record valid.  Every reader of a table applies these tests  *)
(* again, to the record and to everything below it.                         *)

View(x) == [row |-> rows[x], outcome |-> outcomes[x]]

\* The hash of a row: what two rows under one id can differ in.
Sha(r) == IF r = None THEN None ELSE <<r.wish.version, r.wish.choice, r.at, r.role>>

\* review_sha256 covers the row and its outcome.
Digest(x) == <<Sha(rows[x]), outcomes[x]>>

Target(w) == <<w.kind, w.name>>

Of(kind, r) == {x \in r.wish.cites : x[1] = kind}

ParsedBy(draft) == Parsed[rows[draft].wish.choice]

\* Changes are found by comparing the two snapshots, at every read.
ValidDraft(r) == Parsed[r.wish.choice] \in {"complete", "partial"}

\* draft_sha256 of the request, and the draft that the URL names.
PinsDraft(r) == rows[r.wish.over] # None /\ r.pins[r.wish.over] = Digest(r.wish.over)

NotBefore(r, x) == r.at >= rows[x].at

ValidPreflight(r) == PinsDraft(r) /\ NotBefore(r, r.wish.over)

\* The original analysis is about the before snapshot of the draft.
SelectsAnalysis(r) == Baseline[r.wish.choice].of = rows[r.wish.over].wish.choice

NetworkIntentV1(r) == r.wish.version = 1 /\ ParsedBy(r.wish.over) = "complete"
NetworkIntentV2(r) == r.wish.version = 2 /\ ParsedBy(r.wish.over) = "complete"
NetworkIntentV3(r) == r.wish.version = 3 /\ ParsedBy(r.wish.over) = "complete"
NetworkIntentV4(r) == r.wish.version = 4 /\ ParsedBy(r.wish.over) = "complete"

NetworkIntent(r) ==
  NetworkIntentV1(r) \/ NetworkIntentV2(r) \/ NetworkIntentV3(r) \/ NetworkIntentV4(r)

ForestIntent(r) ==
  /\ SelectsAnalysis(r)
  /\ Baseline[r.wish.choice].statistical
  /\ ParsedBy(r.wish.over) = "complete"

\* Version 1 of a deterministic recheck is complete, version 2 the partial diagnostic.
CompleteIntent(r) ==
  r.wish.version = 1 /\ SelectsAnalysis(r) /\ ParsedBy(r.wish.over) = "complete"

PartialIntent(r) ==
  r.wish.version = 2 /\ SelectsAnalysis(r) /\ ParsedBy(r.wish.over) = "partial"

\* What preparing an attempt demands; the chronology of draft and intent is left to
\* the transaction that adds the row.
Selected(r) ==
  /\ PinsDraft(r)
  /\ r.wish.kind = "network" => NetworkIntent(r)
  /\ r.wish.kind = "forest" => ForestIntent(r)
  /\ r.wish.kind = "deterministic" => CompleteIntent(r) \/ PartialIntent(r)

ValidIntent(r) == Selected(r) /\ NotBefore(r, r.wish.over)

\* from_records: the outcome is of this intent and not older than it.
OutcomeOf(o, r) == o.of = Sha(r) /\ o.at >= r.at

\* The engine's result in the protocol of the request: plain, with the SDK that was
\* observed, with the direction of a change, with the scope of an ingress.
NetworkOutcomeV1(o, r) == r.wish.version = 1 /\ o.protocol = 1 /\ OutcomeOf(o, r)
NetworkOutcomeV2(o, r) == r.wish.version = 2 /\ o.protocol = 2 /\ OutcomeOf(o, r)
NetworkOutcomeV3(o, r) == r.wish.version = 3 /\ o.protocol = 3 /\ OutcomeOf(o, r)
NetworkOutcomeV4(o, r) == r.wish.version = 4 /\ o.protocol = 4 /\ OutcomeOf(o, r)

NetworkOutcome(o, r) ==
  /\ o.status = "completed"
  /\ \/ NetworkOutcomeV1(o, r) \/ NetworkOutcomeV2(o, r)
     \/ NetworkOutcomeV3(o, r) \/ NetworkOutcomeV4(o, r)

ForestOutcome(o, r) == OutcomeOf(o, r)

CompleteOutcome(o, r) == r.wish.version = 1 /\ o.protocol = 1 /\ OutcomeOf(o, r)
PartialOutcome(o, r) == r.wish.version = 2 /\ o.protocol = 2 /\ OutcomeOf(o, r)

ValidOutcome(o, r) ==
  /\ r.wish.kind = "network" => NetworkOutcome(o, r)
  /\ r.wish.kind = "forest" => ForestOutcome(o, r)
  /\ r.wish.kind = "deterministic" => CompleteOutcome(o, r) \/ PartialOutcome(o, r)

ValidAttempt(x) ==
  /\ rows[x] # None
  /\ ValidIntent(rows[x])
  /\ outcomes[x] # None => ValidOutcome(outcomes[x], rows[x])

BoundUnfinished(x, r) ==
  /\ rows[x].wish.over = r.wish.over
  /\ outcomes[x] # None => outcomes[x].at <= r.at
  /\ r.pins[x] = Digest(x)

\* bind_selected_source_evidence and the pins of the request.
Bound(x, r) ==
  /\ rows[x].wish.over = r.wish.over
  /\ outcomes[x] # None
  /\ outcomes[x].status = "completed"
  /\ outcomes[x].at <= r.at
  /\ r.pins[x] = Digest(x)

\* Selected results share the draft, and the forest shares the original analysis.
CompleteEvidence(r) ==
  \A d \in Of("deterministic", r) :
    /\ rows[d].wish.version = 1
    /\ \A f \in Of("forest", r) : rows[f].wish.choice = rows[d].wish.choice

\* A report carries the network evidence of its own protocol or of an older one.
NetworkUpTo(v, r) == \A n \in Of("network", r) : rows[n].wish.version <= v

ReportV1(r) == r.wish.version = 1 /\ CompleteEvidence(r) /\ NetworkUpTo(1, r)
ReportV2(r) == r.wish.version = 2 /\ CompleteEvidence(r) /\ NetworkUpTo(2, r)
ReportV3(r) == r.wish.version = 3 /\ CompleteEvidence(r) /\ NetworkUpTo(3, r)
ReportV4(r) == r.wish.version = 4 /\ CompleteEvidence(r) /\ NetworkUpTo(4, r)

\* Partial diagnostics have a protocol of their own, in which nothing else is selected.
ReportV5(r) ==
  /\ r.wish.version = 5
  /\ \A d \in Of("deterministic", r) : rows[d].wish.version = 2
  /\ r.wish.cites = Of("deterministic", r)

ValidReport(r) ==
  /\ rows[r.wish.over] # None
  /\ \A x \in r.wish.cites : ValidAttempt(x) /\ Bound(x, r)
  /\ ReportV1(r) \/ ReportV2(r) \/ ReportV3(r) \/ ReportV4(r) \/ ReportV5(r)

\* What a record about a report demands of it, besides that it is readable.
AboutReport(r) ==
  LET report == r.wish.over IN
  /\ rows[report] # None
  /\ r.pins[report] = Digest(report)
  /\ NotBefore(r, report)

DecisionOn(v, r) == r.wish.version = v /\ rows[r.wish.over].wish.version = v

DecisionV1(r) == DecisionOn(1, r)
DecisionV2(r) == DecisionOn(2, r)
DecisionV3(r) == DecisionOn(3, r)
DecisionV4(r) == DecisionOn(4, r)
DecisionV5(r) == DecisionOn(5, r)

ValidDecision(r) ==
  /\ AboutReport(r)
  /\ DecisionV1(r) \/ DecisionV2(r) \/ DecisionV3(r) \/ DecisionV4(r) \/ DecisionV5(r)
  /\ ValidReport(rows[r.wish.over])

RiskOn(v, reports, r) ==
  r.wish.version = v /\ rows[r.wish.over].wish.version \in reports

RiskV1(r) == RiskOn(1, 1..3, r)
RiskV2(r) == RiskOn(2, {4}, r)
RiskV3(r) == RiskOn(3, {5}, r)

ValidRisk(r) ==
  /\ AboutReport(r)
  /\ RiskV1(r) \/ RiskV2(r) \/ RiskV3(r)
  /\ ValidReport(rows[r.wish.over])

\* What the reader of the row demands, by table.
ValidRow(r) ==
  /\ r.wish.kind = "draft" => ValidDraft(r)
  /\ r.wish.kind = "preflight" => ValidPreflight(r)
  /\ r.wish.kind \in Attempt => ValidIntent(r)
  /\ r.wish.kind = "report" => ValidReport(r)
  /\ r.wish.kind = "decision" => ValidDecision(r)
  /\ r.wish.kind = "risk" => ValidRisk(r)

Readable(x) ==
  /\ ValidRow(rows[x])
  /\ x[1] \in Attempt => ValidAttempt(x)


-----------------------------------------------------------------------------
(* The steps of a handler *)

Wanted(c) == wants[c].wish
Id(c) == Target(Wanted(c))
Stored(c) == rows[Id(c)] # None

Goto(c, s) == pc' = [pc EXCEPT ![c] = s]

\* The engine lock is released when the handler leaves the block that took it.
Answer(c, code, view) ==
  /\ Goto(c, "done")
  /\ answer' = [answer EXCEPT ![c] = [code |-> code, view |-> view]]
  /\ bench' = [q \in Process |-> IF bench[q] = c THEN None ELSE bench[q]]

\* Ids are bound to the patch or report of the URL and to the whole request.
Same(r, c) == r.wish = Wanted(c) /\ r.pins = wants[c].pins

\* The record was found, by whichever read: its reader validates it first, then it
\* is compared with the request.
ReplayCode(c) ==
  CASE ~Readable(Id(c)) -> "unavailable"
    [] Readable(Id(c)) /\ Same(rows[Id(c)], c) -> "found"
    [] Readable(Id(c)) /\ ~Same(rows[Id(c)], c) -> "conflict"

Replay(c) ==
  Answer(c, ReplayCode(c), IF ReplayCode(c) = "found" THEN View(Id(c)) ELSE None)

\* The reservation of an attempt only says that the id is taken: it is read again.
ReplayLater(c) ==
  \/ /\ Same(rows[Id(c)], c)
     /\ Goto(c, "readback")
     /\ UNCHANGED <<bench, answer>>
  \/ /\ ~Same(rows[Id(c)], c)
     /\ Answer(c, "conflict", None)

\* Clients pin what they have seen last.
Seen(w) == [x \in Key |-> IF x \in w.cites THEN Digest(x) ELSE None]

Ask(c, q, w, as) ==
  /\ pc[c] = "idle"
  /\ Goto(c, "lookup")
  /\ site' = [site EXCEPT ![c] = q]
  /\ wants' = [wants EXCEPT ![c] = [wish |-> w, pins |-> Seen(w)]]
  /\ role' = [role EXCEPT ![c] = as]
  /\ UNCHANGED <<tables, bench, made, found, answer, started, world>>

\* A preflight is bound to its draft before its id is looked up; every other handler
\* looks for its id first.
Unbound(c) == Wanted(c).kind = "preflight" /\ ~PinsDraft(wants[c])

Lookup(c) ==
  LET w == Wanted(c) IN
  /\ pc[c] = "lookup"
  /\ \/ /\ Unbound(c)
        /\ Answer(c, IF rows[w.over] = None THEN "not_found" ELSE "conflict", None)
     \/ ~Unbound(c) /\ Stored(c) /\ Replay(c)
     \/ /\ ~Unbound(c) /\ ~Stored(c)
        /\ w.kind \in Attempt /\ ~w.consent
        /\ Answer(c, "consent_required", None)
     \/ /\ ~Stored(c)
        /\ w.kind = "network" /\ w.consent /\ site[c] \notin Engine
        /\ Answer(c, "disabled", None)
     \/ /\ ~Stored(c)
        /\ w.kind = "network" /\ w.consent /\ site[c] \in Engine
        /\ Goto(c, "slot")
        /\ UNCHANGED <<bench, answer>>
     \/ /\ ~Unbound(c) /\ ~Stored(c)
        /\ w.kind # "network" /\ (w.kind \in Attempt => w.consent)
        /\ Goto(c, "prepare")
        /\ UNCHANGED <<bench, answer>>
  /\ UNCHANGED <<tables, call, made, found, started, world>>

BenchAlwaysFree(q) == TRUE

\* Lock.acquire(blocking=False), on the lock the saved model reviews use, too.
BenchFree(q) == bench[q] = None

TakeBench(c) ==
  /\ pc[c] = "slot"
  /\ \/ /\ BenchFree(site[c])
        /\ bench' = [bench EXCEPT ![site[c]] = c]
        /\ Goto(c, "prepare")
        /\ UNCHANGED answer
     \/ /\ ~BenchFree(site[c])
        /\ Answer(c, "busy", None)
  /\ UNCHANGED <<tables, call, made, found, started, world>>

Candidate(c) ==
  [wish |-> Wanted(c), pins |-> wants[c].pins, at |-> clock, role |-> role[c]]

Missing(w) ==
  \/ w.kind = "draft" /\ Parsed[w.choice] = "absent"
  \/ w.kind # "draft" /\ rows[w.over] = None
  \/ w.kind = "report" /\ \E x \in w.cites : rows[x] = None

\* What preparing demands.  The rest of ValidRow is demanded when the row is added.
Acceptable(r) ==
  /\ r.wish.kind \in Attempt => Selected(r)
  /\ r.wish.kind \in Composed \union {"draft"} => ValidRow(r)

Prepare(c) ==
  /\ pc[c] = "prepare"
  /\ \/ /\ Missing(Wanted(c))
        /\ Answer(c, "not_found", None)
        /\ UNCHANGED made
     \/ /\ ~Missing(Wanted(c)) /\ ~Acceptable(Candidate(c))
        /\ Answer(c, "conflict", None)
        /\ UNCHANGED made
     \/ /\ ~Missing(Wanted(c)) /\ Acceptable(Candidate(c))
        /\ made' = [made EXCEPT ![c] = Candidate(c)]
        /\ Goto(c, "reserve")
        /\ UNCHANGED <<bench, answer>>
  /\ UNCHANGED <<tables, call, found, started, world>>

\* The new rows of reports and of what is about them are validated as what the client
\* selected, all others through the reader of stored rows.
Refusal(c) == IF Wanted(c).kind \in Composed THEN "conflict" ELSE "unavailable"

\* The transaction that adds the row begins with a look at the id and validates the
\* new row like a stored one.
Reserve(c) ==
  /\ pc[c] = "reserve"
  /\ \/ Stored(c) /\ Wanted(c).kind \notin Attempt /\ Replay(c)
     \/ Stored(c) /\ Wanted(c).kind \in Attempt /\ ReplayLater(c)
     \/ /\ ~Stored(c) /\ ~ValidRow(made[c])
        /\ Answer(c, Refusal(c), None)
     \/ /\ ~Stored(c) /\ ValidRow(made[c])
        /\ Goto(c, "insert")
        /\ UNCHANGED <<bench, answer>>
  /\ UNCHANGED <<tables, call, made, found, started, world>>

\* The row and its audit row are committed together.
CommitRow(c) ==
  /\ rows' = [rows EXCEPT ![Id(c)] = made[c]]
  /\ audit' = [audit EXCEPT ![Id(c)] = @ + 1]
  /\ UNCHANGED outcomes

AnyIdUnused(c) == TRUE

\* The primary key of the table.
IdUnused(c) == ~Stored(c)

Insert(c) ==
  /\ pc[c] = "insert"
  /\ \/ /\ IdUnused(c) /\ Wanted(c).kind \in Attempt
        /\ CommitRow(c)
        /\ Goto(c, "execute")
        /\ UNCHANGED <<bench, answer>>
     \/ /\ IdUnused(c) /\ Wanted(c).kind \notin Attempt
        /\ CommitRow(c)
        /\ Answer(c, "created", [row |-> made[c], outcome |-> None])
     \/ /\ ~IdUnused(c)
        /\ Goto(c, "raced")
        /\ UNCHANGED <<tables, bench, answer>>
  /\ UNCHANGED <<call, made, found, started, world>>

\* IntegrityError: the winner's row is read and compared.
Raced(c) ==
  /\ pc[c] = "raced"
  /\ \/ Wanted(c).kind \notin Attempt /\ Replay(c)
     \/ Wanted(c).kind \in Attempt /\ ReplayLater(c)
  /\ UNCHANGED <<tables, call, made, found, started, world>>

Execute(c) ==
  /\ pc[c] = "execute"
  /\ started' = [started EXCEPT ![Id(c)] = @ + 1]
  /\ Goto(c, "running")
  /\ UNCHANGED <<tables, bench, call, made, found, answer, world>>

Ended(c, status, protocol) ==
  [of |-> Sha(made[c]), at |-> clock, status |-> status, protocol |-> protocol]

\* What comes back from a run that does not raise: an engine answers in any protocol, a
\* recheck is computed in that of its request.
Results(c) ==
  {Ended(c, "completed", p) : p \in IF Wanted(c).kind = "network"
                                     THEN 1..4 ELSE {Wanted(c).version}}

\* A result is kept if it makes a valid record.  One that does not, because it is of
\* another protocol or the clock was set back, raises like an engine that fails or
\* says too much.
RunEnds(c) ==
  /\ pc[c] = "running"
  /\ \/ \E o \in Results(c) :
          /\ ValidOutcome(o, made[c])
          /\ found' = [found EXCEPT ![c] = o]
          /\ Goto(c, "complete")
     \/ /\ Goto(c, "fallback")
        /\ UNCHANGED found
  /\ UNCHANGED <<tables, bench, call, made, answer, started, world>>

FailureStatus(c) == IF Wanted(c).kind = "network" THEN "completed" ELSE "failed"

FailurePlain(c) == Ended(c, FailureStatus(c), 1)

\* A network review that failed is completed with the result "error", in the protocol of
\* the request; a recheck is stored as failed.
Failure(c) == Ended(c, FailureStatus(c), Wanted(c).version)

\* The failure is stamped on its own and not validated before it is stored.
FallBack(c) ==
  /\ pc[c] = "fallback"
  /\ found' = [found EXCEPT ![c] = Failure(c)]
  /\ Goto(c, "complete")
  /\ UNCHANGED <<tables, bench, call, made, answer, started, world>>

Complete(c) ==
  /\ pc[c] = "complete"
  /\ \/ /\ ValidOutcome(found[c], rows[Id(c)])
        /\ Goto(c, "commit")
        /\ UNCHANGED <<bench, answer>>
     \/ /\ ~ValidOutcome(found[c], rows[Id(c)])
        /\ Answer(c, "unavailable", None)
  /\ UNCHANGED <<tables, call, made, found, started, world>>

CommitOutcome(c) ==
  /\ outcomes' = [outcomes EXCEPT ![Id(c)] = found[c]]
  /\ audit' = [audit EXCEPT ![Id(c)] = @ + 1]
  /\ UNCHANGED rows

Finish(c) ==
  /\ pc[c] = "commit"
  /\ CommitOutcome(c)
  /\ Answer(c, "created", [row |-> made[c], outcome |-> found[c]])
  /\ UNCHANGED <<call, made, found, started, world>>

ReadBack(c) ==
  /\ pc[c] = "readback"
  /\ Replay(c)
  /\ UNCHANGED <<tables, call, made, found, started, world>>

Step(c) ==
  \/ Lookup(c) \/ TakeBench(c) \/ Prepare(c) \/ Reserve(c) \/ Insert(c) \/ Raced(c)
  \/ Execute(c) \/ RunEnds(c) \/ FallBack(c) \/ Complete(c) \/ Finish(c) \/ ReadBack(c)

-----------------------------------------------------------------------------
(* Faults and time *)

Fault(kind) ==
  /\ kind \in FaultKinds
  /\ faults < MaxFaults
  /\ faults' = faults + 1

\* A transaction fails.  The commit of one may be durable although it is not
\* acknowledged.
DatabaseError(c) ==
  /\ Fault("database")
  /\ pc[c] \in {"lookup", "prepare", "reserve", "insert", "raced", "complete", "commit",
                "readback"}
  /\ Answer(c, "unavailable", None)
  /\ \/ UNCHANGED tables
     \/ pc[c] = "insert" /\ IdUnused(c) /\ CommitRow(c)
     \/ pc[c] = "commit" /\ CommitOutcome(c)
  /\ UNCHANGED <<call, made, found, started, offered, clock>>

\* A process dies with its handlers and its lock, and is started again.
CrashRestart(q) ==
  /\ Fault("crash")
  /\ pc' = [c \in Caller |->
              IF site[c] = q /\ pc[c] \notin {"idle", "done"} THEN "dead" ELSE pc[c]]
  /\ bench' = [bench EXCEPT ![q] = None]
  /\ UNCHANGED <<tables, call, made, found, answer, started, offered, clock>>

ClockAdvances ==
  /\ clock < MaxClock
  /\ clock' = clock + 1
  /\ UNCHANGED <<tables, bench, pc, call, made, found, answer, started, offered,
                 faults>>

ClockSetBack ==
  /\ Fault("clock")
  /\ clock > 0
  /\ clock' = clock - 1
  /\ UNCHANGED <<tables, bench, pc, call, made, found, answer, started, offered>>

Roles(w) == IF w.kind \in {"decision", "risk"} THEN Role ELSE {None}

Next ==
  \/ \E c \in Caller, o \in offered : \E as \in Roles(o[2]) : Ask(c, o[1], o[2], as)
  \/ \E c \in Caller : Step(c)
  \/ \E c \in Caller : DatabaseError(c)
  \/ \E q \in Process : CrashRestart(q)
  \/ ClockAdvances
  \/ ClockSetBack

Spec == Init /\ [][Next]_vars

-----------------------------------------------------------------------------
(* Properties *)

Stage == {"idle", "lookup", "slot", "prepare", "reserve", "insert", "raced", "execute",
          "running", "fallback", "complete", "commit", "readback", "done", "dead"}

Code == {"created", "found", "conflict", "not_found", "consent_required", "disabled",
         "busy", "unavailable"}

\* Rows are of the kind and under the id they name, only attempts have outcomes, and
\* the engine lock is held only by handlers of network reviews on their way.
TypeOK ==
  /\ \A x \in Key : rows[x] # None =>
       Target(rows[x].wish) = x /\ rows[x].at \in Time /\ rows[x].role \in Role \union {None}
  /\ \A x \in Key : outcomes[x] # None =>
       /\ x[1] \in Attempt /\ rows[x] # None
       /\ outcomes[x].at \in Time /\ outcomes[x].status \in {"completed", "failed"}
  /\ audit \in [Key -> 0..2]
  /\ pc \in [Caller -> Stage]
  /\ \A c \in Caller : answer[c] # None => answer[c].code \in Code
  /\ \A q \in Process : bench[q] # None =>
       /\ site[bench[q]] = q
       /\ Wanted(bench[q]).kind = "network"
       /\ pc[bench[q]] \notin {"idle", "lookup", "slot", "done", "dead"}
  /\ clock \in Time
  /\ faults \in 0..MaxFaults

\* Every reader validates a record and all records below it again, against what is
\* stored then.  Whatever the service accepted stays readable: no later outcome, race,
\* fault or clock may make a stored report, decision or assessment unavailable.
EvidenceReadable == \A x \in Key : rows[x] # None => Readable(x)

Answered(c) == answer[c] # None /\ answer[c].code \in {"created", "found"}

\* Clients which were told that an id is theirs were shown one and the same stored
\* record, with the time and the role of its first insertion, and at most one of them
\* was told that it created it.
AnswersAgree ==
  /\ \A c \in Caller : Answered(c) =>
       /\ answer[c].view.row = rows[Id(c)]
       /\ answer[c].view.outcome \in {None, outcomes[Id(c)]}
       /\ Same(answer[c].view.row, c)
  /\ \A c, d \in Caller :
       Answered(c) /\ Answered(d) /\ Id(c) = Id(d) /\ c # d =>
         {answer[c].code, answer[d].code} # {"created"}

\* An engine or a model is started at most once for an id, and no outcome is stored of
\* a run that was not started.
RunOnce ==
  \A x \in Key : started[x] <= 1 /\ (outcomes[x] # None => started[x] = 1)

\* Steps of the caller that stored an attempt.
Executing == {"execute", "running", "fallback", "complete", "commit"}

\* Whatever an engine or a model does, fail, say too much or answer in another protocol,
\* the run that was started gets an outcome: as long as the database, the processes and
\* the clock work, no attempt is left open behind a handler that has answered.
RunsRecorded ==
  faults = 0 =>
    \A x \in Key : started[x] = 1 /\ outcomes[x] = None =>
      \E c \in Caller : pc[c] \in Executing /\ Id(c) = x

\* What clients were told agrees with what is stored and with what was started.
EvidenceAgrees == TypeOK /\ AnswersAgree /\ RunOnce /\ RunsRecorded

\* What a row says fits its key.
RowShape(x) == rows[x] # None => Target(rows[x].wish) = x /\ Requested(rows[x].wish)

\* What the tables are after every transaction, and must be before the first.
ChainInv ==
  /\ rows \in [Key -> Row \union {None}]
  /\ outcomes \in [Key -> Outcome \union {None}]
  /\ \A x \in Key : RowShape(x)
  /\ \A x \in Key : outcomes[x] # None => x[1] \in Attempt /\ rows[x] # None
  /\ EvidenceReadable

\* Each part of a record is audited once, and a run has been started before it ends.
Trail(x) ==
  /\ audit[x] = (IF rows[x] = None THEN 0 ELSE 1) + (IF outcomes[x] = None THEN 0 ELSE 1)
  /\ rows[x] = None => started[x] = 0
  /\ outcomes[x] # None => started[x] = 1

Trails == audit \in [Key -> 0..2] /\ started \in [Key -> 0..1] /\ \A x \in Key : Trail(x)

\* Steps after the preparation of a row.
Making == {"reserve", "insert", "raced", "readback"} \union Executing

Locals ==
  /\ bench \in [Process -> Caller \union {None}]
  /\ \A o \in offered : o[1] \in Process /\ o[2] \in Wish /\ Requested(o[2])
  /\ pc \in [Caller -> Stage]
  /\ site \in [Caller -> Process \union {None}]
  /\ wants \in [Caller -> Pinned \union {None}]
  /\ role \in [Caller -> Role \union {None}]
  /\ made \in [Caller -> Row \union {None}]
  /\ DOMAIN found = Caller
  /\ DOMAIN answer = Caller
  /\ clock \in Time
  /\ faults \in 0..MaxFaults

\* The engine lock is held by a handler between the step that took it and its answer.
BenchInv ==
  \A q \in Process : bench[q] # None =>
    /\ site[bench[q]] = q
    /\ Wanted(bench[q]).kind = "network"
    /\ pc[bench[q]] \in {"prepare"} \union Making

\* What a caller was told stays true of the stored record.
Told(c) ==
  /\ answer[c] # None => pc[c] = "done" /\ answer[c].code \in Code
  /\ Answered(c) =>
       /\ rows[Id(c)] # None /\ Same(rows[Id(c)], c)
       /\ answer[c].view.row = rows[Id(c)]
       /\ answer[c].view.outcome \in {None, outcomes[Id(c)]}

\* What a handler knows at each step.
CallInv(c) ==
  /\ pc[c] # "idle" => site[c] \in Process /\ wants[c] \in Pinned /\ Requested(Wanted(c))
  /\ pc[c] = "slot" => Wanted(c).kind = "network"
  /\ pc[c] \in Making => made[c] \in Row /\ Same(made[c], c)
  /\ pc[c] = "insert" => ValidRow(made[c])
  /\ pc[c] \in {"raced", "readback"} => rows[Id(c)] # None
  /\ pc[c] \in Executing =>
       /\ Wanted(c).kind \in Attempt
       /\ rows[Id(c)] = made[c] /\ outcomes[Id(c)] = None
       /\ started[Id(c)] = IF pc[c] = "execute" THEN 0 ELSE 1
  /\ pc[c] \in {"complete", "commit"} => found[c] \in Outcome
  /\ pc[c] = "commit" => ValidOutcome(found[c], made[c])
  /\ Told(c)

\* At most one caller stored, or was told to have created, the record of an id.
Owns(c) == pc[c] \in Executing \/ (answer[c] # None /\ answer[c].code = "created")

OneOwner == \A c, d \in Caller : Owns(c) /\ Owns(d) /\ Id(c) = Id(d) => c = d

\* The inductive invariant.
IInv ==
  /\ ChainInv
  /\ Trails
  /\ Locals
  /\ BenchInv
  /\ \A c \in Caller : CallInv(c)
  /\ OneOwner

\* While nothing has failed time does not go back, and what a run or its failure made is
\* valid when it is about to be stored.
Timely ==
  faults = 0 => \A c \in Caller : pc[c] \in Making => made[c].at <= clock

Passed ==
  faults = 0 => \A c \in Caller : pc[c] = "complete" => ValidOutcome(found[c], made[c])

RunsInv == Timely /\ Passed /\ RunsRecorded

\* The refinement: attempts are open until their outcome is stored, all other records
\* are final at once; a record rests on those which its request names.
Log == INSTANCE EvidenceLog WITH
  Node <- Key,
  state <- [x \in Key |-> CASE rows[x] = None -> "absent"
                            [] rows[x] # None /\ x[1] \in Attempt /\ outcomes[x] = None -> "open"
                            [] OTHER -> "final"],
  cites <- [x \in Key |-> IF rows[x] = None THEN {}
                          ELSE (rows[x].wish.cites \union {rows[x].wish.over}) \ {None}],
  text <- rows

\* The detailed handlers implement the append-only log: records only cite what is final.
LogSpec == Log!Spec

=============================================================================
