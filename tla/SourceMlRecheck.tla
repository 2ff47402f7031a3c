-------------------------- MODULE SourceMlRecheck --------------------------
(***************************************************************************)
(* The paired ML recheck of a saved draft: SourceMlWorkflow.run            *)
(* (backend/app/patching/source_ml.py) over SourceMlRecords                *)
(* (backend/app/db/source_ml_records.py).                                  *)
(*                                                                         *)
(* API processes share one database.  A call runs in a thread of one       *)
(* process, between whose database transactions every other call may step. *)
(* A transaction that writes is two steps: what it read and decided, and   *)
(* its commit, where the primary key is enforced.                          *)
(***************************************************************************)
EXTENDS Integers, FiniteSets

CONSTANTS
  Call,      \* POST handlers, each serving one request
  Process,   \* API processes (replicas), each with one ConfigurationModelRuntime
  Key,       \* recheck ids, chosen by clients
  Patch, Sha, Model,
  Offered,   \* the requests that clients send
  Draft,     \* Draft[p]: the saved draft of patch p, or None
  Pin,       \* Pin[q]: the model the operator of process q pinned, or None
  FaultKinds,\* the kinds of fault that may happen
  MaxFaults, \* bound on the number of faults
  MaxClock,  \* bound on the wall clock
  None

Time == 0 .. MaxClock

Request == [key: Key, patch: Patch, sha: Sha, model: Model, consent: BOOLEAN]

\* What "run" needs to know of a saved draft: its fingerprint, when its after
\* snapshot and the draft itself were saved, whether both originals are retained
\* with a complete parse, and whether the job and the intent fit their budgets.
SavedDraft == [sha: Sha, after_at: Time, created_at: Time,
               retained: BOOLEAN, fits: BOOLEAN]

ASSUME ConstantsAssumption ==
  /\ Offered \subseteq Request
  /\ Draft \in [Patch -> SavedDraft \union {None}]
  /\ \A p \in Patch : Draft[p] # None => Draft[p].after_at <= Draft[p].created_at
  /\ Pin \in [Process -> Model \union {None}]
  /\ FaultKinds \subseteq {"crash", "database", "clock"}
  /\ MaxFaults \in Nat
  /\ MaxClock \in Nat

ASSUME NoneAssumption ==
  None \notin Call \union Process \union Model \union Request

Intent == [request: Request, created_at: Time]

\* "of" stands for intent_sha256: the outcome carries the identity of its intent.
Outcome == [of: Intent, completed_at: Time, status: {"completed", "failed"}]

ASSUME NoneIsNoRecord == None \notin Intent \union Outcome \union SavedDraft

AuditAction == {"requested", "completed"}

View == [intent: Intent, outcome: Outcome \union {None}]

Code == {"created", "existing", "conflict", "consent_required", "disabled", "busy",
         "not_found", "too_large", "unavailable"}

Reply == [code: Code, view: View \union {None}]

ASSUME NoneIsNoReply == None \notin View \union Reply

\* Steps of run that hold the slot of the process.
Held == {"prepare", "reserve", "insert", "raced", "reload", "execute", "running",
         "fallback", "complete", "commit"}

\* Steps between the reservation by this call and the end of its completion.
Owning == {"execute", "running", "fallback", "complete", "commit"}

Step == {"idle", "lookup", "slot", "done", "dead"} \union Held

VARIABLES
  intent,   \* table patch_ml_recheck_intents, by primary key
  outcome,  \* table patch_ml_recheck_outcomes, by primary key
  audit,    \* audit[<<a, k>>]: how many audit rows of action a name key k
  slot,     \* slot[q]: the call that holds process q's worker slot
  pc, site, asked,   \* step, process and request of each call
  built,    \* built[c]: the intent call c prepared
  result,   \* result[c]: the outcome call c is about to save
  reply,    \* reply[c]: what call c answered
  clock,    \* the wall clock that datetime.now(UTC) reads
  faults,   \* how many faults happened
  ran       \* ran[k]: how often the worker was launched for key k

db == <<intent, outcome, audit>>
local == <<site, asked, built, result>>
vars == <<intent, outcome, audit, slot, pc, site, asked, built, result, reply, clock,
          faults, ran>>

Init ==
  /\ intent = [k \in Key |-> None]
  /\ outcome = [k \in Key |-> None]
  /\ audit = [row \in AuditAction \X Key |-> 0]
  /\ slot = [q \in Process |-> None]
  /\ pc = [c \in Call |-> "idle"]
  /\ site = [c \in Call |-> None]
  /\ asked = [c \in Call |-> None]
  /\ built = [c \in Call |-> None]
  /\ result = [c \in Call |-> None]
  /\ reply = [c \in Call |-> None]
  /\ clock \in {t \in Time : \A p \in Patch : Draft[p] # None => Draft[p].created_at <= t}
  /\ faults = 0
  /\ ran = [k \in Key |-> 0]

-----------------------------------------------------------------------------
(* Helpers *)

KeyOf(c) == asked[c].key

Stored(k) == [intent |-> intent[k], outcome |-> outcome[k]]

\* Leaving "with runtime.selected_worker()" releases the slot this call holds.
Released(c) == [q \in Process |-> IF slot[q] = c THEN None ELSE slot[q]]

Goto(c, s) == pc' = [pc EXCEPT ![c] = s]

\* The call returns or raises: its answer leaves, its slot is free again.
Answer(c, code, view) ==
  /\ Goto(c, "done")
  /\ reply' = [reply EXCEPT ![c] = [code |-> code, view |-> view]]
  /\ slot' = Released(c)

SameKeyOnly(old, request) == old.request.key = request.key

\* existing.patch_id == patch_id and existing.request == options.
Same(old, request) == old.request = request

\* What SourceMlRecords._intent demands of a row against its parent draft.
ReadableIntent(i) ==
  /\ Draft[i.request.patch] # None
  /\ Draft[i.request.patch].sha = i.request.sha
  /\ i.created_at >= Draft[i.request.patch].created_at

\* What SourceMlRecords._outcome and SourceMlRecheck.exact_records demand.
ReadableOutcome(o, i) ==
  /\ o.of = i
  /\ o.completed_at >= i.created_at

-----------------------------------------------------------------------------
(* The handler, one action per transaction or blocking call *)

\* A client sends request r to process q.
Arrive(c, q, r) ==
  /\ pc[c] = "idle"
  /\ Goto(c, "lookup")
  /\ site' = [site EXCEPT ![c] = q]
  /\ asked' = [asked EXCEPT ![c] = r]
  /\ UNCHANGED <<db, slot, built, result, reply, clock, faults, ran>>

\* The replay lookup, before consent, settings and slot are looked at.
Lookup(c) ==
  LET r == asked[c]
      old == intent[r.key]
  IN
  /\ pc[c] = "lookup"
  /\ \/ /\ old # None
        /\ Same(old, r)
        /\ Answer(c, "existing", Stored(r.key))
     \/ /\ old # None
        /\ ~Same(old, r)
        /\ Answer(c, "conflict", None)
     \/ /\ old = None
        /\ ~r.consent
        /\ Answer(c, "consent_required", None)
     \/ /\ old = None
        /\ r.consent
        /\ Pin[site[c]] = None
        /\ Answer(c, "disabled", None)
     \/ /\ old = None
        /\ r.consent
        /\ Pin[site[c]] \notin {None, r.model}
        /\ Answer(c, "conflict", None)
     \/ /\ old = None
        /\ r.consent
        /\ Pin[site[c]] = r.model
        /\ Goto(c, "slot")
        /\ UNCHANGED <<slot, reply>>
  /\ UNCHANGED <<db, local, clock, faults, ran>>

\* Lock.acquire(blocking=False).
SlotFree(q) == slot[q] = None

TakeSlot(c) ==
  /\ pc[c] = "slot"
  /\ \/ /\ SlotFree(site[c])
        /\ slot' = [slot EXCEPT ![site[c]] = c]
        /\ Goto(c, "prepare")
        /\ UNCHANGED reply
     \/ /\ ~SlotFree(site[c])
        /\ Answer(c, "busy", None)
  /\ UNCHANGED <<db, local, clock, faults, ran>>

\* The draft, its two snapshots and their retained originals are read, the job is
\* built, the intent is stamped and both are held against their budgets.
Prepare(c) ==
  LET r == asked[c]
      d == Draft[r.patch]
  IN
  /\ pc[c] = "prepare"
  /\ \/ /\ d = None
        /\ Answer(c, "not_found", None)
        /\ UNCHANGED built
     \/ /\ d # None
        /\ d.sha # r.sha \/ ~d.retained \/ clock < d.after_at
        /\ Answer(c, "conflict", None)
        /\ UNCHANGED built
     \/ /\ d # None
        /\ d.sha = r.sha /\ d.retained /\ clock >= d.after_at
        /\ ~d.fits
        /\ Answer(c, "too_large", None)
        /\ UNCHANGED built
     \/ /\ d # None
        /\ d.sha = r.sha /\ d.retained /\ clock >= d.after_at /\ d.fits
        /\ built' = [built EXCEPT ![c] = [request |-> r, created_at |-> clock]]
        /\ Goto(c, "reserve")
        /\ UNCHANGED <<slot, reply>>
  /\ UNCHANGED <<db, site, asked, result, clock, faults, ran>>

\* The reserving transaction reads the key and validates the row it would add.
ReserveRead(c) ==
  LET old == intent[KeyOf(c)] IN
  /\ pc[c] = "reserve"
  /\ \/ /\ old # None
        /\ Same(old, asked[c])
        /\ Goto(c, "reload")
        /\ UNCHANGED <<slot, reply>>
     \/ /\ old # None
        /\ ~Same(old, asked[c])
        /\ Answer(c, "conflict", None)
     \/ /\ old = None
        /\ ReadableIntent(built[c])
        /\ Goto(c, "insert")
        /\ UNCHANGED <<slot, reply>>
     \/ /\ old = None
        /\ ~ReadableIntent(built[c])
        /\ Answer(c, "unavailable", None)
  /\ UNCHANGED <<db, local, clock, faults, ran>>

\* The intent and its audit row become durable together.
CommitIntent(c) ==
  /\ intent' = [intent EXCEPT ![KeyOf(c)] = built[c]]
  /\ audit' = [audit EXCEPT ![<<"requested", KeyOf(c)>>] = @ + 1]
  /\ UNCHANGED outcome

KeyNeverChecked(table, k) == TRUE

\* The primary key rejects a second row.
KeyUnused(table, k) == table[k] = None

LoserRunsToo == "execute"

\* Where the loser of the insert race goes on: it reads the winner's row.
AfterLostRace == "raced"

ReserveCommit(c) ==
  /\ pc[c] = "insert"
  /\ \/ /\ KeyUnused(intent, KeyOf(c))
        /\ CommitIntent(c)
        /\ Goto(c, "execute")
     \/ /\ ~KeyUnused(intent, KeyOf(c))
        /\ Goto(c, AfterLostRace)
        /\ UNCHANGED db
  /\ UNCHANGED <<slot, local, reply, clock, faults, ran>>

Raced(c) ==
  /\ pc[c] = "raced"
  /\ \/ /\ Same(intent[KeyOf(c)], asked[c])
        /\ Goto(c, "reload")
        /\ UNCHANGED <<slot, reply>>
     \/ /\ ~Same(intent[KeyOf(c)], asked[c])
        /\ Answer(c, "conflict", None)
  /\ UNCHANGED <<db, local, clock, faults, ran>>

\* The loser answers with whatever the winner has saved so far.
Reload(c) ==
  /\ pc[c] = "reload"
  /\ Answer(c, "existing", Stored(KeyOf(c)))
  /\ UNCHANGED <<db, local, clock, faults, ran>>

Launch(c) ==
  /\ pc[c] = "execute"
  /\ ran' = [ran EXCEPT ![KeyOf(c)] = @ + 1]
  /\ Goto(c, "running")
  /\ UNCHANGED <<db, slot, local, reply, clock, faults>>

OutcomeNow(c, status) ==
  [of |-> built[c], completed_at |-> clock, status |-> status]

\* The worker process exits, or is killed at its deadline.  Everything it can do
\* wrong, and an outcome stamped before its own intent, lead to the fallback.
WorkerReturns(c, ok) ==
  /\ pc[c] = "running"
  /\ \/ /\ ok
        /\ ReadableOutcome(OutcomeNow(c, "completed"), built[c])
        /\ result' = [result EXCEPT ![c] = OutcomeNow(c, "completed")]
        /\ Goto(c, "complete")
     \/ /\ ~ok \/ ~ReadableOutcome(OutcomeNow(c, "completed"), built[c])
        /\ Goto(c, "fallback")
        /\ UNCHANGED result
  /\ UNCHANGED <<db, slot, site, asked, built, reply, clock, faults, ran>>

FallbackAsksAgain(c) ==
  /\ pc[c] = "fallback"
  /\ Goto(c, "running")
  /\ UNCHANGED <<db, slot, local, reply, clock, faults, ran>>

\* "except Exception": a failed outcome, stamped by a second reading of the clock.
Fallback(c) ==
  /\ pc[c] = "fallback"
  /\ result' = [result EXCEPT ![c] = OutcomeNow(c, "failed")]
  /\ Goto(c, "complete")
  /\ UNCHANGED <<db, slot, site, asked, built, reply, clock, faults, ran>>

AcceptedUnread(c) == TRUE

\* What complete tests before it adds the row.
Accepted(c) == ReadableOutcome(result[c], intent[KeyOf(c)])

\* The completing transaction reads the pair and validates the row it would add.
CompleteRead(c) ==
  LET old == outcome[KeyOf(c)] IN
  /\ pc[c] = "complete"
  /\ \/ /\ intent[KeyOf(c)] = None
        /\ Answer(c, "unavailable", None)
     \/ /\ intent[KeyOf(c)] # None
        /\ old # None /\ old # result[c]
        /\ Answer(c, "conflict", None)
     \/ /\ intent[KeyOf(c)] # None
        /\ old # None /\ old = result[c]
        /\ Answer(c, "created", [intent |-> built[c], outcome |-> result[c]])
     \/ /\ intent[KeyOf(c)] # None
        /\ old = None
        /\ Accepted(c)
        /\ Goto(c, "commit")
        /\ UNCHANGED <<slot, reply>>
     \/ /\ intent[KeyOf(c)] # None
        /\ old = None
        /\ ~Accepted(c)
        /\ Answer(c, "unavailable", None)
  /\ UNCHANGED <<db, local, clock, faults, ran>>

\* The outcome and its audit row become durable together.
CommitOutcome(c) ==
  /\ outcome' = [outcome EXCEPT ![KeyOf(c)] = result[c]]
  /\ audit' = [audit EXCEPT ![<<"completed", KeyOf(c)>>] = @ + 1]
  /\ UNCHANGED intent

CompleteCommit(c) ==
  /\ pc[c] = "commit"
  /\ \/ /\ KeyUnused(outcome, KeyOf(c))
        /\ CommitOutcome(c)
        /\ Answer(c, "created", [intent |-> built[c], outcome |-> result[c]])
     \/ /\ ~KeyUnused(outcome, KeyOf(c))
        /\ Answer(c, "unavailable", None)
        /\ UNCHANGED db
  /\ UNCHANGED <<local, clock, faults, ran>>

-----------------------------------------------------------------------------
(* Faults *)

FaultLeft(kind) == kind \in FaultKinds /\ faults < MaxFaults

\* A statement or a commit raises before it has any effect (no IntegrityError):
\* main.storage_error answers for it.
DatabaseError(c) ==
  /\ FaultLeft("database")
  /\ pc[c] \in {"lookup", "prepare", "reserve", "insert", "raced", "reload",
                "complete", "commit"}
  /\ faults' = faults + 1
  /\ Answer(c, "unavailable", None)
  /\ UNCHANGED <<db, local, clock, ran>>

\* The commit is durable, but its acknowledgement is lost: the call still raises.
LostCommit(c) ==
  /\ FaultLeft("database")
  /\ \/ /\ pc[c] = "insert" /\ KeyUnused(intent, KeyOf(c))
        /\ CommitIntent(c)
     \/ /\ pc[c] = "commit" /\ KeyUnused(outcome, KeyOf(c))
        /\ CommitOutcome(c)
  /\ faults' = faults + 1
  /\ Answer(c, "unavailable", None)
  /\ UNCHANGED <<local, clock, ran>>

\* Process q dies with its threads and comes back with a fresh runtime.
CrashRestart(q) ==
  /\ FaultLeft("crash")
  /\ faults' = faults + 1
  /\ pc' = [c \in Call |->
              IF site[c] = q /\ pc[c] \notin {"idle", "done"} THEN "dead" ELSE pc[c]]
  /\ slot' = [slot EXCEPT ![q] = None]
  /\ UNCHANGED <<db, local, reply, clock, ran>>

ClockAdvances ==
  /\ clock < MaxClock
  /\ clock' = clock + 1
  /\ UNCHANGED <<db, slot, pc, local, reply, faults, ran>>

\* datetime.now is not monotonic: the host's clock may be set back.
ClockSetBack ==
  /\ FaultLeft("clock")
  /\ faults' = faults + 1
  /\ clock' \in 0 .. (clock - 1)
  /\ UNCHANGED <<db, slot, pc, local, reply, ran>>

-----------------------------------------------------------------------------

CallStep(c) ==
  \/ Lookup(c) \/ TakeSlot(c) \/ Prepare(c)
  \/ ReserveRead(c) \/ ReserveCommit(c) \/ Raced(c) \/ Reload(c)
  \/ Launch(c) \/ \E ok \in BOOLEAN : WorkerReturns(c, ok)
  \/ Fallback(c) \/ CompleteRead(c) \/ CompleteCommit(c)

Next ==
  \/ \E c \in Call :
       \/ \E q \in Process, r \in Offered : Arrive(c, q, r)
       \/ CallStep(c)
       \/ DatabaseError(c)
       \/ LostCommit(c)
  \/ \E q \in Process : CrashRestart(q)
  \/ ClockAdvances
  \/ ClockSetBack

Spec == Init /\ [][Next]_vars

\* A started handler keeps running: no step of it waits for another call (the slot
\* is tried, not awaited) and the worker has a deadline.  Clients, faults and the
\* clock owe nothing.
Fairness == \A c \in Call : WF_vars(CallStep(c))

FairSpec == Spec /\ Fairness

-----------------------------------------------------------------------------
(* Properties *)

TypeOK ==
  /\ intent \in [Key -> Intent \union {None}]
  /\ outcome \in [Key -> Outcome \union {None}]
  /\ audit \in [AuditAction \X Key -> Nat]
  /\ slot \in [Process -> Call \union {None}]
  /\ pc \in [Call -> Step]
  /\ site \in [Call -> Process \union {None}]
  /\ asked \in [Call -> Request \union {None}]
  /\ built \in [Call -> Intent \union {None}]
  /\ result \in [Call -> Outcome \union {None}]
  /\ reply \in [Call -> Reply \union {None}]
  /\ clock \in Time
  /\ faults \in 0 .. MaxFaults
  /\ ran \in [Key -> Nat]

\* The worker is launched at most once per recheck id, whatever the replicas,
\* retries, lost races and restarts (reserve decides who may execute).
AtMostOneRun == \A k \in Key : ran[k] <= 1

\* Every row has exactly one audit row of its action and no audit row is without
\* its row: reserve and complete add both in one transaction.
AuditMatchesRows ==
  \A k \in Key :
    /\ audit[<<"requested", k>>] = (IF intent[k] = None THEN 0 ELSE 1)
    /\ audit[<<"completed", k>>] = (IF outcome[k] = None THEN 0 ELSE 1)

\* Two calls of one process never run their workers together, a slot is only held
\* by a live call inside selected_worker, and a running worker's call holds it.
SlotDiscipline ==
  /\ \A q \in Process :
       slot[q] # None => site[slot[q]] = q /\ pc[slot[q]] \in Held
  /\ \A c \in Call : pc[c] \in Held => slot[site[c]] = c

\* A stored row satisfies the validation every later read repeats, so no history
\* read can fail on it (_intent, _outcome).
RecordsReadable ==
  \A k \in Key :
    /\ intent[k] # None => intent[k].request.key = k /\ ReadableIntent(intent[k])
    /\ outcome[k] # None => intent[k] # None /\ ReadableOutcome(outcome[k], intent[k])

\* An answer that carries a recheck is about the request of its caller and about
\* the stored rows: all answers for one id agree, up to a pending one being older.
AnswersAgree ==
  \A c \in Call :
    LET k == KeyOf(c)
        view == reply[c].view
    IN
    reply[c] # None /\ view # None =>
      /\ view.intent = intent[k]
      /\ view.intent.request = asked[c]
      /\ view.outcome \in {None, outcome[k]}
      /\ reply[c].code = "created" => view.outcome # None

\* An attempt is abandoned as pending_unknown only if something went wrong: without
\* a fault some live call still owns every reserved attempt that has no outcome.
OrphanOnlyAfterFault ==
  \A k \in Key :
    intent[k] # None /\ outcome[k] = None =>
      \/ faults > 0
      \/ \E c \in Call : pc[c] \in Owning /\ KeyOf(c) = k

\* What clients were told, what is stored and what the audit trail counts agree, a
\* reserved attempt is only abandoned by a fault, and no slot outlives its call.
TrailAgrees == AuditMatchesRows /\ AnswersAgree /\ OrphanOnlyAfterFault /\ SlotDiscipline

\* A row, once written, is never changed or deleted by any step.
RecordsImmutable ==
  [][\A k \in Key :
       /\ intent[k] # None => intent'[k] = intent[k]
       /\ outcome[k] # None => outcome'[k] = outcome[k]]_vars

\* What a call knows at each step.
Prepared == {"reserve", "insert", "raced", "reload"} \union Owning

CallInv(c) ==
  /\ pc[c] # "idle" => site[c] \in Process /\ asked[c] \in Request
  /\ pc[c] \in Prepared => built[c] \in Intent /\ built[c].request = asked[c]
  /\ pc[c] \in {"insert"} \union Owning => ReadableIntent(built[c])
  /\ pc[c] \in {"raced", "reload"} => intent[KeyOf(c)] # None
  /\ pc[c] = "reload" => intent[KeyOf(c)].request = asked[c]
  /\ pc[c] \in Owning => intent[KeyOf(c)] = built[c] /\ outcome[KeyOf(c)] = None
  /\ pc[c] = "execute" => ran[KeyOf(c)] = 0
  /\ pc[c] \in Owning \ {"execute"} => ran[KeyOf(c)] = 1
  /\ pc[c] \in {"complete", "commit"} => result[c] \in Outcome
  /\ pc[c] = "commit" => ReadableOutcome(result[c], built[c])

RowInv(k) ==
  /\ intent[k] = None => outcome[k] = None /\ ran[k] = 0
  /\ ran[k] \in {0, 1}

\* At most one call owns an attempt.
OneOwner ==
  \A c, d \in Call :
    pc[c] \in Owning /\ pc[d] \in Owning /\ KeyOf(c) = KeyOf(d) => c = d

\* The inductive invariant: nobody but the call that inserted the intent may launch
\* the worker or add the outcome, and each stage of a call is about its own row.
IInv ==
  /\ TypeOK
  /\ RecordsReadable
  /\ OneOwner
  /\ \A c \in Call : CallInv(c)
  /\ \A k \in Key : RowInv(k)

\* While no fault happened, no call has seen the clock go back, so what it is about to
\* save passes the test of complete.
ClockInv(c) ==
  faults = 0 =>
    /\ pc[c] \in Prepared => built[c].created_at <= clock
    /\ pc[c] = "complete" => ReadableOutcome(result[c], built[c])

\* The inductive form of TrailAgrees, on top of IInv: an answer is the last thing a call
\* does, and a call that gives an attempt up without a fault has saved its outcome.
TrailInv ==
  /\ TrailAgrees
  /\ \A c \in Call : ClockInv(c) /\ (reply[c] # None => pc[c] = "done")

\* The workflow implements AttemptLedger.
AttemptState(k) ==
  IF intent[k] = None THEN "absent"
  ELSE IF outcome[k] = None THEN "pending" ELSE outcome[k].status

BoundRequest(k) == IF intent[k] = None THEN None ELSE intent[k].request

Ledger == INSTANCE AttemptLedger WITH
  NoRequest <- None,
  state <- [k \in Key |-> AttemptState(k)],
  bound <- [k \in Key |-> BoundRequest(k)],
  runs <- ran

LedgerSpec == Ledger!Spec

\* Every request is answered, or its process died.
EveryCallAnswered == \A c \in Call : pc[c] = "lookup" ~> pc[c] \in {"done", "dead"}

\* A launched worker's attempt ends with a stored outcome, "failed" if the worker
\* failed, as docs/source-ml-rechecks.md says of every failure of a side.
FailureIsRecorded == \A k \in Key : ran[k] = 1 ~> outcome[k] # None

=============================================================================
