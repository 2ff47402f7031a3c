-------------------------- MODULE ModelPatchDraft --------------------------
(***************************************************************************)
(* Saved local-model patch drafts: SavedModelPatchWorkflow.generate        *)
(* (backend/app/patching/saved_model.py) and its closed-fact twin          *)
(* SavedGroundedPatchWorkflow.generate (patching/saved_grounded.py) over   *)
(* ModelPatchRecords (db/model_patch_records.py).                          *)
(*                                                                         *)
(* Two endpoints write two protocols into one table of attempts and share  *)
(* the worker slot of their process.  Only a rejected answer becomes a     *)
(* "failed" outcome; whatever else goes wrong leaves the attempt           *)
(* generating.                                                             *)
(***************************************************************************)
EXTENDS Integers, FiniteSets

CONSTANTS
  Call,      \* POST handlers of both endpoints
  Process,   \* API processes, each with one LocalModelRuntime
  Patch,     \* patch ids, chosen by clients
  Finding,   \* findings that a client may select
  Offered,   \* the requests that clients send
  Target,    \* Target[f]: the facts selected by f, or None
  Allows,    \* Allows[q]: the protocols the operator of process q allows, or None
  FaultKinds, MaxFaults, MaxClock,
  None

Time == 0 .. MaxClock

Protocol == {"legacy", "grounded"}

\* The body of GenerateModelPatch; the endpoint chooses the protocol.
Request == [id: Patch, protocol: Protocol, finding: Finding, consent: BOOLEAN]

\* When the source and the analysis of a finding were saved, and whether the pins
\* match, the original is retained and the prompt can be built.
SelectedFacts == [source_at: Time, analysis_at: Time, usable: BOOLEAN]

ASSUME ConstantsAssumption ==
  /\ Offered \subseteq Request
  /\ Target \in [Finding -> SelectedFacts \union {None}]
  /\ \A f \in Finding : Target[f] # None => Target[f].source_at <= Target[f].analysis_at
  /\ Allows \in [Process -> (SUBSET Protocol) \union {None}]
  /\ FaultKinds \subseteq {"crash", "database", "clock"}
  /\ MaxFaults \in Nat
  /\ MaxClock \in Nat

Intent == [request: Request, created_at: Time]

Answered == {"draft", "declined", "failed"}

\* "of" stands for intent_sha256, and protocol for the version of the payload.
Outcome == [of: Intent, protocol: Protocol, completed_at: Time, status: Answered]

View == [intent: Intent, outcome: Outcome \union {None}]

Code == {"created", "existing", "conflict", "consent_required", "disabled", "busy",
         "not_found", "generation_failed", "unavailable", "error"}

Reply == [code: Code, view: View \union {None}]

ASSUME NoneAssumption ==
  None \notin Call \union Process \union Request \union Intent \union Outcome
              \union SelectedFacts \union View \union Reply

\* Steps inside "with runtime.patch_provider()".
Held == {"prepare", "reserve", "insert", "raced", "reload", "execute", "running",
         "complete", "commit"}

\* Steps between the reservation by this call and the end of its completion.
Owning == {"execute", "running", "complete", "commit"}

Step == {"idle", "lookup", "slot", "done", "dead"} \union Held

VARIABLES
  draft,     \* table model_patch_intents, by primary key
  drafted,   \* table model_patch_outcomes, by primary key
  slot,      \* slot[q]: the call that holds the lock of process q's runtime
  pc, site, asked, built, result, reply,  \* of each call
  clock, faults,
  asks       \* asks[p]: how often the provider was asked for patch p

draftTables == <<draft, drafted>>
local == <<site, asked, built, result>>
draftVars == <<draft, drafted, slot, pc, site, asked, built, result, reply, asks>>
vars == <<draftVars, clock, faults>>

Init ==
  /\ draft = [p \in Patch |-> None]
  /\ drafted = [p \in Patch |-> None]
  /\ slot = [q \in Process |-> None]
  /\ pc = [c \in Call |-> "idle"]
  /\ site = [c \in Call |-> None]
  /\ asked = [c \in Call |-> None]
  /\ built = [c \in Call |-> None]
  /\ result = [c \in Call |-> None]
  /\ reply = [c \in Call |-> None]
  /\ clock \in {t \in Time : \A f \in Finding : Target[f] # None => Target[f].analysis_at <= t}
  /\ faults = 0
  /\ asks = [p \in Patch |-> 0]

-----------------------------------------------------------------------------
(* Helpers *)

IdOf(c) == asked[c].id

Saved(p) == [intent |-> draft[p], outcome |-> drafted[p]]

Goto(c, step) == pc' = [pc EXCEPT ![c] = step]

ReleasedUnlessRaced(c) ==
  [q \in Process |-> IF slot[q] = c /\ pc[c] # "raced" THEN None ELSE slot[q]]

\* Leaving the context manager of the provider releases the lock.
Released(c) == [q \in Process |-> IF slot[q] = c THEN None ELSE slot[q]]

Answer(c, code, view) ==
  /\ Goto(c, "done")
  /\ reply' = [reply EXCEPT ![c] = [code |-> code, view |-> view]]
  /\ slot' = Released(c)

\* _same_intent, and the isinstance tests of generate: the protocol is part of an
\* attempt's identity.
SameIntent(old, r) == old.request = r

\* What _intent demands of a row against its analysis.  The validator of the intent
\* itself has compared it with the source.
ReadableDraft(i) ==
  /\ Target[i.request.finding] # None
  /\ i.created_at >= Target[i.request.finding].analysis_at

\* What ModelPatchRecords._outcome demands.
ReadableDrafted(o, i) ==
  /\ o.of = i
  /\ o.protocol = i.request.protocol
  /\ o.completed_at >= i.created_at

-----------------------------------------------------------------------------
(* generate *)

Arrive(c, q, r) ==
  /\ pc[c] = "idle"
  /\ Goto(c, "lookup")
  /\ site' = [site EXCEPT ![c] = q]
  /\ asked' = [asked EXCEPT ![c] = r]
  /\ UNCHANGED <<draftTables, slot, built, result, reply, clock, faults, asks>>

\* Consent comes before any read, an existing attempt before settings and slot.
Lookup(c) ==
  LET r == asked[c]
      old == draft[r.id]
  IN
  /\ pc[c] = "lookup"
  /\ \/ /\ ~r.consent
        /\ Answer(c, "consent_required", None)
     \/ /\ r.consent
        /\ old # None
        /\ SameIntent(old, r)
        /\ Answer(c, "existing", Saved(r.id))
     \/ /\ r.consent
        /\ old # None
        /\ ~SameIntent(old, r)
        /\ Answer(c, "conflict", None)
     \/ /\ r.consent
        /\ old = None
        /\ Allows[site[c]] = None
        /\ Answer(c, "disabled", None)
     \/ /\ r.consent
        /\ old = None
        /\ Allows[site[c]] # None
        /\ Goto(c, "slot")
        /\ UNCHANGED <<slot, reply>>
  /\ UNCHANGED <<draftTables, local, clock, faults, asks>>

\* Lock.acquire(blocking=False): both protocols share one lock.
LockFree(c) == slot[site[c]] = None

TakeSlot(c) ==
  /\ pc[c] = "slot"
  /\ \/ /\ asked[c].protocol \notin Allows[site[c]]
        /\ Answer(c, "disabled", None)
     \/ /\ asked[c].protocol \in Allows[site[c]]
        /\ ~LockFree(c)
        /\ Answer(c, "busy", None)
     \/ /\ asked[c].protocol \in Allows[site[c]]
        /\ LockFree(c)
        /\ slot' = [slot EXCEPT ![site[c]] = c]
        /\ Goto(c, "prepare")
        /\ UNCHANGED reply
  /\ UNCHANGED <<draftTables, local, clock, faults, asks>>

\* The selection is read, the prompt built and the intent stamped.  An intent older
\* than its source is an unhandled validation error.
Prepare(c) ==
  LET r == asked[c]
      t == Target[r.finding]
  IN
  /\ pc[c] = "prepare"
  /\ \/ /\ t = None
        /\ Answer(c, "not_found", None)
        /\ UNCHANGED built
     \/ /\ t # None
        /\ ~t.usable
        /\ Answer(c, "conflict", None)
        /\ UNCHANGED built
     \/ /\ t # None /\ t.usable
        /\ clock < t.source_at
        /\ Answer(c, "error", None)
        /\ UNCHANGED built
     \/ /\ t # None /\ t.usable
        /\ clock >= t.source_at
        /\ built' = [built EXCEPT ![c] = [request |-> r, created_at |-> clock]]
        /\ Goto(c, "reserve")
        /\ UNCHANGED <<slot, reply>>
  /\ UNCHANGED <<draftTables, site, asked, result, clock, faults, asks>>

ReserveRead(c) ==
  LET old == draft[IdOf(c)] IN
  /\ pc[c] = "reserve"
  /\ \/ /\ old # None
        /\ SameIntent(old, asked[c])
        /\ Goto(c, "reload")
        /\ UNCHANGED <<slot, reply>>
     \/ /\ old # None
        /\ ~SameIntent(old, asked[c])
        /\ Answer(c, "conflict", None)
     \/ /\ old = None
        /\ ReadableDraft(built[c])
        /\ Goto(c, "insert")
        /\ UNCHANGED <<slot, reply>>
     \/ /\ old = None
        /\ ~ReadableDraft(built[c])
        /\ Answer(c, "unavailable", None)
  /\ UNCHANGED <<draftTables, local, clock, faults, asks>>

CommitIntent(c) == draft' = [draft EXCEPT ![IdOf(c)] = built[c]]

KeyPerProtocol(table, c) ==
  \A i \in {draft[IdOf(c)]} \ {None} : i.request.protocol # asked[c].protocol

\* The primary key, which does not contain the protocol.
KeyUnused(table, c) == table[IdOf(c)] = None

\* The loser of the insert race reads the winner's row.
AfterLostRace == "raced"

ReserveCommit(c) ==
  /\ pc[c] = "insert"
  /\ \/ /\ KeyUnused(draft, c)
        /\ CommitIntent(c)
        /\ Goto(c, "execute")
     \/ /\ ~KeyUnused(draft, c)
        /\ Goto(c, AfterLostRace)
        /\ UNCHANGED draft
  /\ UNCHANGED <<drafted, slot, local, reply, clock, faults, asks>>

Raced(c) ==
  /\ pc[c] = "raced"
  /\ \/ /\ SameIntent(draft[IdOf(c)], asked[c])
        /\ Goto(c, "reload")
        /\ UNCHANGED <<slot, reply>>
     \/ /\ ~SameIntent(draft[IdOf(c)], asked[c])
        /\ Answer(c, "conflict", None)
  /\ UNCHANGED <<draftTables, local, clock, faults, asks>>

ReloadWaits(c) ==
  /\ pc[c] = "reload"
  /\ drafted[IdOf(c)] # None
  /\ Answer(c, "existing", Saved(IdOf(c)))
  /\ UNCHANGED <<draftTables, local, clock, faults, asks>>

Reload(c) ==
  /\ pc[c] = "reload"
  /\ Answer(c, "existing", Saved(IdOf(c)))
  /\ UNCHANGED <<draftTables, local, clock, faults, asks>>

Ask(c) ==
  /\ pc[c] = "execute"
  /\ asks' = [asks EXCEPT ![IdOf(c)] = @ + 1]
  /\ Goto(c, "running")
  /\ UNCHANGED <<draftTables, slot, local, reply, clock, faults>>

\* completed_at=datetime.now(UTC), a second reading of the clock.
Stamped(c) == clock

\* The provider answers with edits or declines, or it fails, is killed at its
\* deadline or answers something that validation rejects: "failed".
ProviderReturns(c, status) ==
  /\ pc[c] = "running"
  /\ result' = [result EXCEPT ![c] =
       [of |-> built[c], protocol |-> asked[c].protocol,
        completed_at |-> Stamped(c), status |-> status]]
  /\ Goto(c, "complete")
  /\ UNCHANGED <<draftTables, slot, site, asked, built, reply, clock, faults, asks>>

\* complete returned: generate raises for a failed attempt and answers otherwise.
Finish(c) ==
  IF result[c].status = "failed"
  THEN Answer(c, "generation_failed", None)
  ELSE Answer(c, "created", [intent |-> built[c], outcome |-> result[c]])

\* What complete tests before it adds the row.
Accepted(c) == ReadableDrafted(result[c], draft[IdOf(c)])

CompleteRead(c) ==
  LET i == draft[IdOf(c)]
      old == drafted[IdOf(c)]
  IN
  /\ pc[c] = "complete"
  /\ \/ /\ i = None
        /\ Answer(c, "unavailable", None)
     \/ /\ i # None
        /\ old # None /\ old # result[c]
        /\ Answer(c, "conflict", None)
     \/ /\ i # None
        /\ old # None /\ old = result[c]
        /\ Finish(c)
     \/ /\ i # None
        /\ old = None
        /\ ~Accepted(c)
        /\ Answer(c, "unavailable", None)
     \/ /\ i # None
        /\ old = None
        /\ Accepted(c)
        /\ Goto(c, "commit")
        /\ UNCHANGED <<slot, reply>>
  /\ UNCHANGED <<draftTables, local, clock, faults, asks>>

CommitOutcome(c) == drafted' = [drafted EXCEPT ![IdOf(c)] = result[c]]

CompleteCommit(c) ==
  /\ pc[c] = "commit"
  /\ \/ /\ KeyUnused(drafted, c)
        /\ CommitOutcome(c)
        /\ Finish(c)
     \/ /\ ~KeyUnused(drafted, c)
        /\ Answer(c, "unavailable", None)
        /\ UNCHANGED drafted
  /\ UNCHANGED <<draft, local, clock, faults, asks>>

-----------------------------------------------------------------------------
(* Faults and the clock *)

Fault(kind) ==
  /\ kind \in FaultKinds
  /\ faults < MaxFaults
  /\ faults' = faults + 1

\* A statement or a commit raises: it had no effect, or the commit is durable and
\* only its acknowledgement is lost.
DatabaseError(c) ==
  /\ Fault("database")
  /\ pc[c] \in {"lookup", "prepare", "reserve", "insert", "raced", "reload",
                "complete", "commit"}
  /\ \/ UNCHANGED draftTables
     \/ pc[c] = "insert" /\ KeyUnused(draft, c) /\ CommitIntent(c) /\ UNCHANGED drafted
     \/ pc[c] = "commit" /\ KeyUnused(drafted, c) /\ CommitOutcome(c) /\ UNCHANGED draft
  /\ Answer(c, "unavailable", None)
  /\ UNCHANGED <<local, clock, asks>>

\* The calls of process q die with it and its lock is a new one.
Die(q) ==
  /\ pc' = [c \in Call |->
              IF site[c] = q /\ pc[c] \notin {"idle", "done"} THEN "dead" ELSE pc[c]]
  /\ slot' = [slot EXCEPT ![q] = None]
  /\ UNCHANGED <<draftTables, local, reply, asks>>

CrashRestart(q) ==
  /\ Fault("crash")
  /\ Die(q)
  /\ UNCHANGED clock

ClockAdvances ==
  /\ clock < MaxClock
  /\ clock' = clock + 1
  /\ UNCHANGED <<draftVars, faults>>

ClockSetBack ==
  /\ Fault("clock")
  /\ clock' \in 0 .. (clock - 1)
  /\ UNCHANGED draftVars

-----------------------------------------------------------------------------

CallStep(c) ==
  \/ Lookup(c) \/ TakeSlot(c) \/ Prepare(c)
  \/ ReserveRead(c) \/ ReserveCommit(c) \/ Raced(c) \/ Reload(c)
  \/ Ask(c) \/ \E status \in Answered : ProviderReturns(c, status)
  \/ CompleteRead(c) \/ CompleteCommit(c)

Next ==
  \/ \E c \in Call :
       \/ \E q \in Process, r \in Offered : Arrive(c, q, r)
       \/ CallStep(c)
       \/ DatabaseError(c)
  \/ \E q \in Process : CrashRestart(q)
  \/ ClockAdvances
  \/ ClockSetBack

Spec == Init /\ [][Next]_vars

\* A started handler runs on: the lock is tried, not awaited, and the provider's
\* worker is killed at its deadline.
Fairness == \A c \in Call : WF_vars(CallStep(c))

FairSpec == Spec /\ Fairness

-----------------------------------------------------------------------------
(* Properties *)

TypeOK ==
  /\ draft \in [Patch -> Intent \union {None}]
  /\ drafted \in [Patch -> Outcome \union {None}]
  /\ slot \in [Process -> Call \union {None}]
  /\ pc \in [Call -> Step]
  /\ site \in [Call -> Process \union {None}]
  /\ asked \in [Call -> Request \union {None}]
  /\ built \in [Call -> Intent \union {None}]
  /\ result \in [Call -> Outcome \union {None}]
  /\ reply \in [Call -> Reply \union {None}]
  /\ clock \in Time
  /\ faults \in 0 .. MaxFaults
  /\ asks \in [Patch -> Nat]

\* An id is never answered under the other protocol or for another selection, and
\* all answers for it show the same attempt, possibly an earlier state of it.
AnswersAgree ==
  \A c \in Call :
    LET view == reply[c].view IN
    reply[c] # None /\ view # None =>
      /\ view.intent.request = asked[c]
      /\ view.intent = draft[IdOf(c)]
      /\ view.outcome \in {None, drafted[IdOf(c)]}
      /\ reply[c].code = "created" => view.outcome # None

\* Whatever was stored passes the validation of every later read.
DraftsReadable ==
  \A p \in Patch :
    /\ draft[p] # None => draft[p].request.id = p /\ ReadableDraft(draft[p])
    /\ drafted[p] # None => draft[p] # None /\ ReadableDrafted(drafted[p], draft[p])

\* Both protocols together run at most one provider call per process.
OneProviderCall ==
  \A c, d \in Call :
    pc[c] = "running" /\ pc[d] = "running" /\ site[c] = site[d] => c = d

\* "generation failed" is only said of an attempt that is stored as failed: such a
\* caller may look the attempt up.
FailureIsStored ==
  \A c \in Call :
    reply[c] # None /\ reply[c].code = "generation_failed" =>
      drafted[IdOf(c)] # None /\ drafted[IdOf(c)].status = "failed"

\* The lock of a process is held by a call that is still under way in that process: no
\* refusal, lost race, error or crash leaves it locked, which would answer "busy" for ever.
LockComesBack ==
  \A q \in Process :
    slot[q] # None => site[slot[q]] = q /\ pc[slot[q]] \in Held

\* What clients were told and what is stored agree and can be read again, and the model
\* of a process works for one of them at a time and is given back by each.
DraftsAgree ==
  /\ TypeOK
  /\ AnswersAgree
  /\ DraftsReadable
  /\ FailureIsStored
  /\ OneProviderCall
  /\ LockComesBack

\* What a call knows at each step: its own request and intent, whether it may ask the
\* provider, and that the slot of its process is its own.
Prepared == {"reserve", "insert", "raced", "reload"} \union Owning

\* What it told its client stays true of the stored attempt.
Told(c) ==
  reply[c] # None =>
    /\ pc[c] = "done"
    /\ reply[c].view # None =>
         /\ reply[c].view.intent = draft[IdOf(c)]
         /\ reply[c].view.intent.request = asked[c]
         /\ reply[c].view.outcome \in {None, drafted[IdOf(c)]}
         /\ reply[c].code = "created" => reply[c].view.outcome # None
    /\ reply[c].code = "generation_failed" =>
         drafted[IdOf(c)] # None /\ drafted[IdOf(c)].status = "failed"

CallInv(c) ==
  /\ pc[c] # "idle" => site[c] \in Process /\ asked[c] \in Request
  /\ pc[c] \in Prepared => built[c] \in Intent /\ built[c].request = asked[c]
  /\ pc[c] \in {"insert"} \union Owning => ReadableDraft(built[c])
  /\ pc[c] \in {"raced", "reload"} => draft[IdOf(c)] # None
  /\ pc[c] = "reload" => draft[IdOf(c)].request = asked[c]
  /\ pc[c] \in Owning => draft[IdOf(c)] = built[c] /\ drafted[IdOf(c)] = None
  /\ pc[c] = "execute" => asks[IdOf(c)] = 0
  /\ pc[c] \in Owning \ {"execute"} => asks[IdOf(c)] = 1
  /\ pc[c] \in {"complete", "commit"} => result[c] \in Outcome
  /\ pc[c] = "commit" => ReadableDrafted(result[c], built[c])
  /\ pc[c] \in Held => slot[site[c]] = c
  /\ Told(c)

RowInv(p) ==
  /\ draft[p] = None => drafted[p] = None /\ asks[p] = 0
  /\ drafted[p] # None => asks[p] = 1
  /\ asks[p] \in {0, 1}

\* At most one call owns an attempt, under whichever protocol.
OneOwner ==
  \A c, d \in Call :
    pc[c] \in Owning /\ pc[d] \in Owning /\ IdOf(c) = IdOf(d) => c = d

\* The inductive invariant.
IInv ==
  /\ TypeOK
  /\ DraftsReadable
  /\ OneOwner
  /\ LockComesBack
  /\ \A c \in Call : CallInv(c)
  /\ \A p \in Patch : RowInv(p)

\* The workflow implements AttemptLedger.  "declined" is a completed attempt.
AttemptState(p) ==
  IF draft[p] = None THEN "absent"
  ELSE IF drafted[p] = None THEN "pending"
  ELSE IF drafted[p].status = "failed" THEN "failed" ELSE "completed"

Ledger == INSTANCE AttemptLedger WITH
  Key <- Patch,
  NoRequest <- None,
  state <- [p \in Patch |-> AttemptState(p)],
  bound <- [p \in Patch |-> IF draft[p] = None THEN None ELSE draft[p].request],
  runs <- asks

LedgerSpec == Ledger!Spec

\* Every request is answered, or its process died.
EveryCallAnswered == \A c \in Call : pc[c] = "lookup" ~> pc[c] \in {"done", "dead"}

=============================================================================
