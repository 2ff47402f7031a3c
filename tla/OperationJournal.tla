-------------------------- MODULE OperationJournal --------------------------
(***************************************************************************)
(* The operation journal around every /api/v1 and /api/v2 request:         *)
(* journal_response (backend/app/audit/http.py), OperationJournal          *)
(* (audit/journal.py), the role checks it records (api/access.py) and the  *)
(* domain transaction of the endpoint, which the journal cannot see.       *)
(*                                                                         *)
(* A request is a coroutine that awaits threads.  Cancellation takes hold  *)
(* where an await returns, so the thread that is running at the time still *)
(* finishes.  The operation id is a fresh uuid4: it is the request.        *)
(***************************************************************************)
EXTENDS Integers

CONSTANTS
  Req,        \* requests, and their operation ids
  Role, Permission,
  Grants,     \* Grants[role]: ROLE_PERMISSIONS
  Offered,    \* what clients ask for
  FaultKinds, \* the kinds of fault that may happen
  MaxFaults,  \* bound on the number of faults
  MaxClock,   \* bound on the wall clock
  None

Time == 0 .. MaxClock

\* The role of the bearer key (None: no valid key), the permission of the endpoint
\* (None: no endpoint matches) and the one it asks for itself, if it does.
Operation == [role: Role \union {None},
              first: Permission \union {None}, extra: Permission \union {None}]

ASSUME ConstantsAssumption ==
  /\ Offered \subseteq Operation
  /\ Grants \in [Role -> SUBSET Permission]
  /\ FaultKinds \subseteq {"crash", "cancel", "database", "clock"}
  /\ MaxFaults \in Nat
  /\ MaxClock \in Nat
  /\ None \notin Role \union Permission \union Operation

Receipt == [started_at: Time, role: Role \union {None}]

Decision == [permission: Permission, granted: BOOLEAN]

Status == {200, 400, 401, 403, 404, 500, 503}

\* "of" stands for receipt_sha256.
Completion == [of: Receipt, completed_at: Time, status: Status,
               permissions: SUBSET Decision]

Body == {"response", "not_run", "unconfirmed"}

Reply == [status: Status, body: Body]

ASSUME NoneAssumption == None \notin Receipt \union Completion \union Reply \union Status

\* Steps of a request; those of InHandler are one thread, InAccess is another.
InAccess == {"authorize", "store"}
InHandler == {"handle", "act", "acted"}
InFlight == {"check", "start", "complete"} \union InAccess \union InHandler
Step == {"idle", "done", "gone", "dead"} \union InFlight

VARIABLES
  receipt,    \* table operation_receipts
  completion, \* table operation_completions
  effect,     \* effect[r]: the endpoint's domain transaction is committed
  schema,     \* the database has the schema revision of the program
  pc, asked,
  flagged,    \* request.state.operation_journal_unavailable
  issued,     \* issued[r]: the receipt object in request.state
  decisions,  \* request.state.operation_permissions
  response,   \* response[r]: the status the endpoint answered with
  reply,      \* reply[r]: what left the process
  cancelled,  \* the coroutine was cancelled and its thread not yet done
  clock, faults,
  failed      \* failed[r]: a journal write of r or its process failed, or r was cancelled

journal == <<receipt, completion>>
state == <<flagged, issued, decisions, response>>
budget == <<faults, failed>>
vars == <<receipt, completion, effect, schema, pc, asked, flagged, issued, decisions,
          response, reply, cancelled, clock, faults, failed>>

Init ==
  /\ receipt = [r \in Req |-> None]
  /\ completion = [r \in Req |-> None]
  /\ effect = [r \in Req |-> FALSE]
  /\ schema \in BOOLEAN
  /\ pc = [r \in Req |-> "idle"]
  /\ asked = [r \in Req |-> None]
  /\ flagged = [r \in Req |-> FALSE]
  /\ issued = [r \in Req |-> None]
  /\ decisions = [r \in Req |-> {}]
  /\ response = [r \in Req |-> None]
  /\ reply = [r \in Req |-> None]
  /\ cancelled = [r \in Req |-> FALSE]
  /\ clock \in Time
  /\ faults = 0
  /\ failed = [r \in Req |-> FALSE]

-----------------------------------------------------------------------------
(* Helpers *)

\* An await returns: the coroutine goes on, unless it was cancelled meanwhile.
Resume(r, step) == pc' = [pc EXCEPT ![r] = IF cancelled[r] THEN "gone" ELSE step]

\* The same thread goes on, cancelled or not.
Proceed(r, step) == pc' = [pc EXCEPT ![r] = step]

\* journal_response returns, unless it was cancelled in its last await.
Leave(r, status, body) ==
  /\ Resume(r, "done")
  /\ reply' = [reply EXCEPT ![r] =
                 IF cancelled[r] THEN @ ELSE [status |-> status, body |-> body]]

\* The endpoint, or a check before it, answers the journal's call_next.  A request
\* without a receipt is answered at once, any other one is completed first.
Respond(r, status) ==
  \/ /\ flagged[r]
     /\ Leave(r, status, "response")
     /\ UNCHANGED response
  \/ /\ ~flagged[r]
     /\ response' = [response EXCEPT ![r] = status]
     /\ Resume(r, "complete")
     /\ UNCHANGED reply

Granted(role, p) == role # None /\ p \in Grants[role]

\* decisions[permission] = PermissionDecision(...), a dictionary assignment.
Decide(r, p, granted) ==
  decisions' = [decisions EXCEPT ![r] =
    {d \in @ : d.permission # p} \union {[permission |-> p, granted |-> granted]}]

NotClamped(started_at) == clock

\* max(datetime.now(UTC), receipt.started_at)
CompletedAt(started_at) == IF clock < started_at THEN started_at ELSE clock

NewCompletion(r) ==
  [of |-> issued[r], completed_at |-> CompletedAt(issued[r].started_at),
   status |-> response[r], permissions |-> decisions[r]]

\* What OperationRecord.combine demands of a receipt and its completion.
Combines(old, new) ==
  /\ new.of = old
  /\ new.completed_at >= old.started_at
  /\ \A d \in new.permissions : d.granted = Granted(old.role, d.permission)

-----------------------------------------------------------------------------
(* The request *)

Arrive(r, op) ==
  /\ pc[r] = "idle"
  /\ Proceed(r, "check")
  /\ asked' = [asked EXCEPT ![r] = op]
  /\ UNCHANGED <<journal, effect, schema, state, reply, cancelled, clock, budget>>

\* journal.ready in a thread.  Without the current schema the request goes on
\* unreceipted, for its authentication only.
Check(r) ==
  /\ pc[r] = "check"
  /\ \/ /\ schema
        /\ issued' = [issued EXCEPT ![r] = [started_at |-> clock, role |-> asked[r].role]]
        /\ Resume(r, "start")
        /\ UNCHANGED flagged
     \/ /\ ~schema
        /\ flagged' = [flagged EXCEPT ![r] = TRUE]
        /\ Resume(r, "authorize")
        /\ UNCHANGED issued
  /\ UNCHANGED <<journal, effect, schema, asked, decisions, response, reply, cancelled,
                 clock, budget>>

\* journal.start commits the receipt.
Start(r) ==
  /\ pc[r] = "start"
  /\ receipt' = [receipt EXCEPT ![r] = issued[r]]
  /\ Resume(r, "authorize")
  /\ UNCHANGED <<completion, effect, schema, asked, state, reply, cancelled, clock, budget>>

FlagForgotten(r) == FALSE

\* The unavailable journal forbids the endpoint, whatever the database says by now.
JournalUnavailable(r) == flagged[r]

\* require_access: authentication, the role, then the flag of the journal.
Authorize(r) ==
  LET op == asked[r] IN
  /\ pc[r] = "authorize"
  /\ \/ /\ op.first = None
        /\ Respond(r, 404)
        /\ UNCHANGED decisions
     \/ /\ op.first # None
        /\ op.role = None
        /\ Decide(r, op.first, FALSE)
        /\ Respond(r, 401)
     \/ /\ op.first # None
        /\ op.role # None
        /\ ~Granted(op.role, op.first)
        /\ Decide(r, op.first, FALSE)
        /\ Respond(r, 403)
     \/ /\ op.first # None
        /\ Granted(op.role, op.first)
        /\ Decide(r, op.first, TRUE)
        /\ JournalUnavailable(r)
        /\ Respond(r, 503)
     \/ /\ op.first # None
        /\ Granted(op.role, op.first)
        /\ Decide(r, op.first, TRUE)
        /\ ~JournalUnavailable(r)
        /\ Proceed(r, "store")
        /\ UNCHANGED <<response, reply>>
  /\ UNCHANGED <<journal, effect, schema, asked, flagged, issued, cancelled, clock, budget>>

\* service.store.ready(), the end of require_access.
StoreReady(r) ==
  /\ pc[r] = "store"
  /\ \/ /\ schema
        /\ Resume(r, "handle")
        /\ UNCHANGED <<response, reply>>
     \/ /\ ~schema
        /\ Respond(r, 503)
  /\ UNCHANGED <<journal, effect, schema, asked, flagged, issued, decisions, cancelled,
                 clock, budget>>

ExtraNotAsked(r) ==
  /\ pc[r] = "handle"
  /\ Proceed(r, "act")
  /\ UNCHANGED <<journal, effect, schema, asked, state, reply, cancelled, clock, budget>>

ExtraAskedLate(r) ==
  LET op == asked[r] IN
  /\ pc[r] = "handle"
  /\ \/ /\ op.extra = None \/ Granted(op.role, op.extra)
        /\ Proceed(r, "act")
        /\ UNCHANGED <<effect, response, reply>>
     \/ /\ op.extra # None /\ ~Granted(op.role, op.extra)
        /\ effect' = [effect EXCEPT ![r] = TRUE]
        /\ Respond(r, 403)
  /\ UNCHANGED <<journal, schema, asked, flagged, issued, decisions, cancelled, clock, budget>>

\* The endpoint asks for the permission that its request needs besides.
AuthorizeExtra(r) ==
  LET op == asked[r] IN
  /\ pc[r] = "handle"
  /\ \/ /\ op.extra = None
        /\ Proceed(r, "act")
        /\ UNCHANGED <<decisions, response, reply>>
     \/ /\ op.extra # None
        /\ Granted(op.role, op.extra)
        /\ Decide(r, op.extra, TRUE)
        /\ Proceed(r, "act")
        /\ UNCHANGED <<response, reply>>
     \/ /\ op.extra # None
        /\ ~Granted(op.role, op.extra)
        /\ Decide(r, op.extra, FALSE)
        /\ Respond(r, 403)
  /\ UNCHANGED <<journal, effect, schema, asked, flagged, issued, cancelled, clock, budget>>

\* The endpoint rejects the request, only reads, or commits its transaction.
Act(r) ==
  /\ pc[r] = "act"
  /\ \/ /\ Respond(r, 400)
        /\ UNCHANGED effect
     \/ /\ effect' \in {effect, [effect EXCEPT ![r] = TRUE]}
        /\ Proceed(r, "acted")
        /\ UNCHANGED <<response, reply>>
  /\ UNCHANGED <<journal, schema, asked, flagged, issued, decisions, cancelled, clock, budget>>

\* It returns, or an exception nobody handles becomes a generic 500.
Acted(r) ==
  /\ pc[r] = "acted"
  /\ \E status \in {200, 500} : Respond(r, status)
  /\ UNCHANGED <<journal, effect, schema, asked, flagged, issued, decisions, cancelled,
                 clock, budget>>

\* The row of journal.complete.
CommitCompletion(r) == completion' = [completion EXCEPT ![r] = NewCompletion(r)]

\* What journal.complete demands: its own receipt in the database, no completion yet,
\* and a pair that combines into a record.
MayComplete(r) ==
  /\ receipt[r] = issued[r]
  /\ completion[r] = None
  /\ Combines(issued[r], NewCompletion(r))

\* journal.complete.  Only the coroutine of r can write r's completion, so that what
\* the transaction reads cannot change before its commit.
Complete(r) ==
  /\ pc[r] = "complete"
  /\ \/ /\ MayComplete(r)
        /\ CommitCompletion(r)
        /\ Leave(r, response[r], "response")
     \/ /\ ~MayComplete(r)
        /\ Leave(r, 503, "unconfirmed")
        /\ UNCHANGED completion
  /\ UNCHANGED <<receipt, effect, schema, asked, state, cancelled, clock, budget>>

-----------------------------------------------------------------------------
(* Faults, the operator and the clock *)

Fault(kind) ==
  /\ kind \in FaultKinds
  /\ faults < MaxFaults
  /\ faults' = faults + 1

\* The fault hits what the journal needs to tell how r ended.
Fails(r) == failed' = [failed EXCEPT ![r] = TRUE]

\* schema_ready turns every database error into "not ready".
ReadinessError(r) ==
  /\ Fault("database")
  /\ \/ /\ pc[r] = "check"
        /\ flagged' = [flagged EXCEPT ![r] = TRUE]
        /\ Resume(r, "authorize")
        /\ UNCHANGED <<response, reply>>
     \/ /\ pc[r] = "store"
        /\ Respond(r, 503)
        /\ UNCHANGED flagged
  /\ UNCHANGED <<journal, effect, schema, asked, issued, decisions, cancelled, clock, failed>>

\* "except Exception" around journal.start.
StartFailed(r) == Leave(r, 503, "not_run")

\* The receipt is not acknowledged: it is not saved, or it is and its
\* acknowledgement is lost.
StartError(r) ==
  /\ Fault("database")
  /\ pc[r] = "start"
  /\ receipt' \in {receipt, [receipt EXCEPT ![r] = issued[r]]}
  /\ StartFailed(r)
  /\ Fails(r)
  /\ UNCHANGED <<completion, effect, schema, asked, state, cancelled, clock>>

\* The same for the domain transaction; main.storage_error answers.
DomainError(r) ==
  /\ Fault("database")
  /\ pc[r] = "act"
  /\ effect' \in {effect, [effect EXCEPT ![r] = TRUE]}
  /\ Respond(r, 503)
  /\ UNCHANGED <<journal, schema, asked, flagged, issued, decisions, cancelled, clock, failed>>

OutcomeAssumed(r) == Leave(r, response[r], "response")

OutcomeRetried(r) == Resume(r, "handle") /\ UNCHANGED reply

\* "except Exception" around journal.complete.
OutcomeUnconfirmed(r) == Leave(r, 503, "unconfirmed")

\* The same for the completion.
CompleteError(r) ==
  /\ Fault("database")
  /\ pc[r] = "complete"
  /\ \/ UNCHANGED completion
     \/ MayComplete(r) /\ CommitCompletion(r)
  /\ OutcomeUnconfirmed(r)
  /\ Fails(r)
  /\ UNCHANGED <<receipt, effect, schema, asked, state, cancelled, clock>>

\* The server cancels the coroutine; the thread it awaits goes on.
Cancel(r) ==
  /\ Fault("cancel")
  /\ pc[r] \in InFlight
  /\ ~cancelled[r]
  /\ cancelled' = [cancelled EXCEPT ![r] = TRUE]
  /\ Fails(r)
  /\ UNCHANGED <<journal, effect, schema, pc, asked, state, reply, clock>>

\* The process that serves r dies.
Crash(r) ==
  /\ Fault("crash")
  /\ pc[r] \in InFlight
  /\ Proceed(r, "dead")
  /\ Fails(r)
  /\ UNCHANGED <<journal, effect, schema, asked, state, reply, cancelled, clock>>

\* The operator migrates the database while the program serves requests.
Migrate ==
  /\ ~schema
  /\ schema' = TRUE
  /\ UNCHANGED <<journal, effect, pc, asked, state, reply, cancelled, clock, budget>>

ClockAdvances ==
  /\ clock < MaxClock
  /\ clock' = clock + 1
  /\ UNCHANGED <<journal, effect, schema, pc, asked, state, reply, cancelled, budget>>

\* datetime.now is not monotonic.
ClockSetBack ==
  /\ Fault("clock")
  /\ clock' \in 0 .. (clock - 1)
  /\ UNCHANGED <<journal, effect, schema, pc, asked, state, reply, cancelled, failed>>

-----------------------------------------------------------------------------

RequestStep(r) ==
  \/ Check(r) \/ Start(r) \/ Authorize(r) \/ StoreReady(r)
  \/ AuthorizeExtra(r) \/ Act(r) \/ Acted(r) \/ Complete(r)

FaultStep(r) ==
  \/ ReadinessError(r) \/ StartError(r) \/ DomainError(r) \/ CompleteError(r)
  \/ Cancel(r) \/ Crash(r)

Next ==
  \/ \E r \in Req :
       \/ \E op \in Offered : Arrive(r, op)
       \/ RequestStep(r)
       \/ FaultStep(r)
  \/ Migrate
  \/ ClockAdvances
  \/ ClockSetBack

Spec == Init /\ [][Next]_vars

-----------------------------------------------------------------------------
(* Properties *)

TypeOK ==
  /\ receipt \in [Req -> Receipt \union {None}]
  /\ completion \in [Req -> Completion \union {None}]
  /\ effect \in [Req -> BOOLEAN]
  /\ schema \in BOOLEAN
  /\ pc \in [Req -> Step]
  /\ asked \in [Req -> Operation \union {None}]
  /\ flagged \in [Req -> BOOLEAN]
  /\ issued \in [Req -> Receipt \union {None}]
  /\ decisions \in [Req -> SUBSET Decision]
  /\ response \in [Req -> Status \union {None}]
  /\ reply \in [Req -> Reply \union {None}]
  /\ cancelled \in [Req -> BOOLEAN]
  /\ clock \in Time
  /\ faults \in 0 .. MaxFaults
  /\ failed \in [Req -> BOOLEAN]

\* No domain write is ever committed without a durable receipt, even if the
\* database was migrated, or came back, after the journal found it unusable.
ReceiptBeforeEffect == \A r \in Req : effect[r] => receipt[r] # None

\* "request was not run" and the refusals of require_access are promises about the
\* future too: nothing of such a request is committed, before or after the answer.
RefusedNeverActs ==
  \A r \in Req :
    /\ reply[r] # None
    /\ reply[r].body = "not_run" \/ reply[r].status \in {401, 403, 404}
    => ~effect[r]

\* Whoever acted had every permission the request needs, and its record says so.
EffectsAuthorized ==
  \A r \in Req : effect[r] =>
    /\ Granted(asked[r].role, asked[r].first)
    /\ asked[r].extra # None => Granted(asked[r].role, asked[r].extra)
    /\ completion[r] # None =>
         completion[r].permissions =
           {[permission |-> p, granted |-> TRUE] :
              p \in {asked[r].first, asked[r].extra} \ {None}}

\* An answer of the endpoint leaves only with its outcome durable in the journal,
\* under the same status; unreceipted requests get refusals only.
AnswersAreRecorded ==
  \A r \in Req : reply[r] # None /\ reply[r].body = "response" =>
    \/ flagged[r] /\ receipt[r] = None /\ reply[r].status \in {401, 403, 404, 503}
    \/ completion[r] # None /\ completion[r].status = reply[r].status

\* "outcome is unconfirmed" and a receipt left pending mean that a journal write of this
\* very request or its process failed, or that it was cancelled.  A clock set back between
\* receipt and completion, decisions and receipt that take the role from different places,
\* a migration, an error of the domain transaction or a failure of another request must
\* never be enough: the pair has to combine whenever the database takes it.
OutcomeLostOnlyByFailure ==
  \A r \in Req : ~failed[r] =>
    /\ reply[r] # None => reply[r].body # "unconfirmed"
    /\ receipt[r] # None /\ completion[r] = None => pc[r] \in InFlight

\* A domain write of a cancelled request may still commit, but no domain write
\* commits after the outcome of its request was recorded or answered.
NoEffectAfterOutcome ==
  [][\A r \in Req :
       completion[r] # None \/ reply[r] # None => effect'[r] = effect[r]]_vars

-----------------------------------------------------------------------------
(* The inductive invariant: what a request knows at each of its steps. *)

\* Where an operation stands: before its first decision, before its transaction.
Undecided == {"idle", "check", "start", "authorize"}
Unanswered == Undecided \union {"store"} \union InHandler

\* A request runs under its own durable receipt or, flagged, without any.
ReceiptInv(r) ==
  /\ pc[r] # "idle" => asked[r] \in Operation
  /\ issued[r] # None => pc[r] # "idle" /\ issued[r].role = asked[r].role
  /\ receipt[r] # None => receipt[r] = issued[r]
  /\ pc[r] \in {"idle", "check", "start"} => receipt[r] = None /\ ~flagged[r]
  /\ pc[r] \in {"idle", "check"} => issued[r] = None
  /\ pc[r] = "start" => issued[r] # None
  /\ flagged[r] => issued[r] = None /\ pc[r] \in {"authorize", "done", "gone", "dead"}
  /\ pc[r] \in InAccess \union InHandler \union {"complete"} /\ ~flagged[r] => receipt[r] # None

Needed(op) == {op.first, op.extra} \ {None}

AllGranted(permissions) == {[permission |-> p, granted |-> TRUE] : p \in permissions}

\* Decisions follow the role, and who is past a check has passed it.
DecisionInv(r) ==
  /\ pc[r] \in Undecided => decisions[r] = {}
  /\ \A d \in decisions[r] : d.granted = Granted(asked[r].role, d.permission)
  /\ pc[r] \in {"store", "handle"} =>
       /\ Granted(asked[r].role, asked[r].first) /\ asked[r].first # None
       /\ decisions[r] = AllGranted({asked[r].first})
  /\ pc[r] \in {"act", "acted"} \/ effect[r] =>
       /\ \A p \in Needed(asked[r]) : Granted(asked[r].role, p)
       /\ asked[r].first # None
       /\ decisions[r] = AllGranted(Needed(asked[r]))

\* A transaction belongs to a receipted request that was not refused.
EffectInv(r) ==
  /\ pc[r] \in Unanswered => response[r] = None
  /\ effect[r] => /\ receipt[r] # None
                  /\ pc[r] \in {"acted", "complete", "done", "gone", "dead"}
                  /\ response[r] \notin {401, 403, 404}
  /\ pc[r] = "complete" => response[r] # None

\* A completion is about this receipt and this response; without a failure it exists
\* as soon as the request is answered.
OutcomeInv(r) ==
  /\ completion[r] # None =>
       /\ pc[r] \in {"done", "gone"} /\ receipt[r] # None /\ response[r] # None
       /\ Combines(issued[r], completion[r])
       /\ completion[r].status = response[r]
       /\ completion[r].permissions = decisions[r]
  /\ reply[r] # None =>
       /\ pc[r] = "done"
       /\ \/ /\ reply[r].body = "response"
             /\ \/ flagged[r] /\ reply[r].status \in {401, 403, 404, 503}
                \/ completion[r] # None /\ completion[r].status = reply[r].status
          \/ reply[r].body = "not_run" /\ ~effect[r] /\ failed[r] /\ reply[r].status = 503
          \/ reply[r].body = "unconfirmed" /\ failed[r] /\ reply[r].status = 503
  /\ cancelled[r] \/ pc[r] \in {"gone", "dead"} => failed[r]
  /\ ~failed[r] /\ pc[r] = "done" => flagged[r] \/ completion[r] # None

IInv ==
  /\ TypeOK
  /\ \A r \in Req : ReceiptInv(r) /\ DecisionInv(r) /\ EffectInv(r) /\ OutcomeInv(r)

=============================================================================
