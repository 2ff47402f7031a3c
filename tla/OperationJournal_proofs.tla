----------------------- MODULE OperationJournal_proofs -----------------------
(***************************************************************************)
(* Safety of the operation journal for any number of requests, roles,      *)
(* permissions and faults.                                                 *)
(***************************************************************************)
EXTENDS OperationJournal, TLAPS

\* What one request knows.
RequestInv(r) == ReceiptInv(r) /\ DecisionInv(r) /\ EffectInv(r) /\ OutcomeInv(r)

\* A step of another request leaves this one alone.
Same(r) ==
  /\ receipt'[r] = receipt[r] /\ completion'[r] = completion[r] /\ effect'[r] = effect[r]
  /\ pc'[r] = pc[r] /\ asked'[r] = asked[r] /\ flagged'[r] = flagged[r]
  /\ issued'[r] = issued[r] /\ decisions'[r] = decisions[r] /\ response'[r] = response[r]
  /\ reply'[r] = reply[r] /\ cancelled'[r] = cancelled[r] /\ failed'[r] = failed[r]

\* None is told apart from whatever a request stores.
LEMMA NoneIsNothing ==
  /\ \A x \in Receipt : x # None
  /\ \A x \in Completion : x # None
  /\ \A x \in Reply : x # None
  /\ \A x \in Status : x # None
BY NoneAssumption

\* The initial state satisfies the inductive invariant.
LEMMA InitIInv == Init => IInv
<1> SUFFICES ASSUME Init PROVE IInv
  OBVIOUS
<1>1. TypeOK
  <2>1. decisions \in [Req -> SUBSET Decision]
    BY DEF Init
  <2>2. faults \in 0 .. MaxFaults
    BY ConstantsAssumption DEF Init
  <2>3. QED
    BY <2>1, <2>2 DEF Init, TypeOK, Step
<1>2. ASSUME NEW r \in Req
      PROVE  ReceiptInv(r) /\ DecisionInv(r) /\ EffectInv(r) /\ OutcomeInv(r)
  BY <1>2 DEF Init, ReceiptInv, DecisionInv, EffectInv, OutcomeInv, InAccess, InHandler,
              Undecided, Unanswered
<1>3. QED
  BY <1>1, <1>2 DEF IInv

\* What is left alone keeps what it knows.
LEMMA SameKeeps ==
  ASSUME NEW r \in Req, RequestInv(r), Same(r)
  PROVE  RequestInv(r)'
<1>1. ReceiptInv(r)' /\ DecisionInv(r)' /\ EffectInv(r)'
  BY DEF RequestInv, Same, ReceiptInv, DecisionInv, EffectInv
<1>2. OutcomeInv(r)'
  BY DEF RequestInv, Same, OutcomeInv
<1>3. QED
  BY <1>1, <1>2 DEF RequestInv

\* A step of one request preserves the invariant if it does so for that request.
LEMMA OneRequest ==
  ASSUME IInv, TypeOK', NEW r \in Req, RequestInv(r)',
         \A s \in Req \ {r} : Same(s)
  PROVE  IInv'
<1>1. \A s \in Req \ {r} : RequestInv(s)'
  BY SameKeeps DEF IInv, RequestInv, TypeOK
<1>2. QED
  BY <1>1 DEF IInv, RequestInv

\* A step of no request preserves the invariant.
LEMMA NoRequestStep ==
  ASSUME IInv, TypeOK', \A s \in Req : Same(s)
  PROVE  IInv'
<1>1. \A s \in Req : RequestInv(s)'
  BY SameKeeps DEF IInv, RequestInv, TypeOK
<1>2. QED
  BY <1>1 DEF IInv, RequestInv

\* What an answering step leaves: the response or the reply of r, and its next step.
LEMMA RespondEffect ==
  ASSUME TypeOK, NEW r \in Req, NEW status \in Status, Respond(r, status)
  PROVE  /\ pc' \in [Req -> Step]
         /\ response' \in [Req -> Status \union {None}]
         /\ reply' \in [Req -> Reply \union {None}]
         /\ \A s \in Req \ {r} :
              pc'[s] = pc[s] /\ response'[s] = response[s] /\ reply'[s] = reply[s]
         /\ \/ /\ flagged[r] /\ cancelled[r] /\ pc'[r] = "gone"
               /\ response'[r] = response[r] /\ reply'[r] = reply[r]
            \/ /\ flagged[r] /\ ~cancelled[r] /\ pc'[r] = "done" /\ response'[r] = response[r]
               /\ reply'[r] = [status |-> status, body |-> "response"]
            \/ /\ ~flagged[r] /\ response'[r] = status /\ reply'[r] = reply[r]
               /\ pc'[r] = IF cancelled[r] THEN "gone" ELSE "complete"
BY DEF Respond, Leave, Resume, TypeOK, Step, InFlight, Reply, Body

\* What leaving does.
LEMMA LeaveEffect ==
  ASSUME TypeOK, NEW r \in Req, NEW status \in Status, NEW body \in Body,
         Leave(r, status, body)
  PROVE  /\ pc' \in [Req -> Step]
         /\ reply' \in [Req -> Reply \union {None}]
         /\ \A s \in Req \ {r} : pc'[s] = pc[s] /\ reply'[s] = reply[s]
         /\ \/ cancelled[r] /\ pc'[r] = "gone" /\ reply'[r] = reply[r]
            \/ /\ ~cancelled[r] /\ pc'[r] = "done"
               /\ reply'[r] = [status |-> status, body |-> body]
BY DEF Leave, Resume, TypeOK, Step, InFlight, Reply, Body

\* What going on does.
LEMMA ResumeEffect ==
  ASSUME TypeOK, NEW r \in Req, NEW step \in Step, Resume(r, step)
  PROVE  /\ pc' \in [Req -> Step]
         /\ \A s \in Req \ {r} : pc'[s] = pc[s]
         /\ pc'[r] = IF cancelled[r] THEN "gone" ELSE step
BY DEF Resume, TypeOK, Step, InFlight

\* The decision of one permission is added to those of r.
LEMMA DecideEffect ==
  ASSUME TypeOK, NEW r \in Req, NEW p \in Permission, NEW granted \in BOOLEAN,
         Decide(r, p, granted)
  PROVE  /\ decisions' \in [Req -> SUBSET Decision]
         /\ \A s \in Req \ {r} : decisions'[s] = decisions[s]
         /\ decisions'[r] = {d \in decisions[r] : d.permission # p}
                              \union {[permission |-> p, granted |-> granted]}
<1>1. [permission |-> p, granted |-> granted] \in Decision
  BY DEF Decision
<1>2. QED
  BY <1>1 DEF Decide, TypeOK

\* A request arrives.
LEMMA ArriveStep ==
  ASSUME IInv, NEW r \in Req, NEW op \in Offered, Arrive(r, op)
  PROVE  IInv'
<1> USE DEF Arrive, Proceed, journal, state, budget
<1>1. op \in Operation
  BY ConstantsAssumption
<1>2. TypeOK'
  BY <1>1 DEF IInv, TypeOK, Step, InFlight
<1>3. RequestInv(r)'
  <2>1. pc'[r] = "check" /\ asked'[r] = op
    BY DEF IInv, TypeOK
  <2>2. ReceiptInv(r)' /\ EffectInv(r)'
    BY <1>1, <2>1 DEF IInv, ReceiptInv, EffectInv, InAccess, InHandler, Unanswered, Undecided
  <2>3. DecisionInv(r)'
    <3>1. decisions'[r] = {} /\ ~effect'[r]
      <4>1. DecisionInv(r) /\ EffectInv(r)
        BY DEF IInv
      <4>2. decisions[r] = {}
        BY <4>1 DEF DecisionInv, Undecided
      <4>3. ~effect[r]
        BY <4>1 DEF EffectInv
      <4>4. QED
        BY <4>2, <4>3
    <3>2. QED
      BY <2>1, <3>1 DEF DecisionInv
  <2>4. OutcomeInv(r)'
    BY <2>1 DEF IInv, OutcomeInv
  <2>5. QED
    BY <2>2, <2>3, <2>4 DEF RequestInv
<1>4. \A s \in Req \ {r} : Same(s)
  BY DEF IInv, TypeOK, Same
<1>5. QED
  BY <1>2, <1>3, <1>4, OneRequest

\* The journal finds the schema usable or not.
LEMMA CheckStep ==
  ASSUME IInv, NEW r \in Req, Check(r)
  PROVE  IInv'
<1> USE DEF Check, journal, budget
<1>1. TypeOK /\ asked[r] \in Operation
  BY DEF IInv, ReceiptInv
<1>2. [started_at |-> clock, role |-> asked[r].role] \in Receipt
  BY <1>1 DEF TypeOK, Operation, Receipt
<1>3. pc' \in [Req -> Step] /\ (\A s \in Req \ {r} : pc'[s] = pc[s])
      /\ pc'[r] = IF cancelled[r] THEN "gone" ELSE IF schema THEN "start" ELSE "authorize"
  BY <1>1, ResumeEffect DEF Step, InFlight, InAccess
<1>4. TypeOK'
  BY <1>1, <1>2, <1>3 DEF TypeOK
<1>5. RequestInv(r)'
  <2>1. ReceiptInv(r)' /\ EffectInv(r)'
    BY <1>1, <1>2, <1>3, NoneIsNothing
       DEF IInv, TypeOK, ReceiptInv, EffectInv, InAccess, InHandler, Unanswered, Undecided
  <2>2. DecisionInv(r)'
    <3>1. decisions'[r] = {} /\ ~effect'[r]
      <4>1. DecisionInv(r) /\ EffectInv(r)
        BY DEF IInv
      <4>2. decisions[r] = {}
        BY <4>1 DEF DecisionInv, Undecided
      <4>3. ~effect[r]
        BY <4>1 DEF EffectInv
      <4>4. QED
        BY <4>2, <4>3
    <3>2. QED
      BY <1>3, <3>1 DEF DecisionInv
  <2>3. OutcomeInv(r)'
    BY <1>3 DEF IInv, OutcomeInv
  <2>4. QED
    BY <2>1, <2>2, <2>3 DEF RequestInv
<1>6. \A s \in Req \ {r} : Same(s)
  BY <1>1, <1>3 DEF TypeOK, Same
<1>7. QED
  BY <1>4, <1>5, <1>6, OneRequest

\* Decisions survive a step that makes none and passes no check.
LEMMA DecisionsKept ==
  ASSUME NEW r \in Req, DecisionInv(r),
         decisions'[r] = decisions[r], asked'[r] = asked[r],
         pc'[r] \notin Undecided \/ decisions[r] = {},
         pc'[r] \in {"store", "handle"} => pc[r] \in {"store", "handle"},
         pc'[r] \in {"act", "acted"} \/ effect'[r] => pc[r] \in {"act", "acted"} \/ effect[r]
  PROVE  DecisionInv(r)'
BY DEF DecisionInv

\* A flagged request is refused, and a refused one has no effect.
MayAnswer(r, status) ==
  /\ pc[r] \in InAccess \union InHandler
  /\ flagged[r] => status \in {401, 403, 404, 503}
  /\ effect'[r] => receipt[r] # None /\ status \notin {401, 403, 404}

\* An endpoint, or a check before it, may answer in every way the code lets it.
LEMMA RespondKeeps ==
  ASSUME IInv, NEW r \in Req, NEW status \in Status, Respond(r, status),
         MayAnswer(r, status),
         asked'[r] = asked[r], issued'[r] = issued[r], flagged'[r] = flagged[r],
         receipt'[r] = receipt[r], completion'[r] = completion[r],
         cancelled'[r] = cancelled[r], failed'[r] = failed[r]
  PROVE  ReceiptInv(r)' /\ EffectInv(r)' /\ OutcomeInv(r)'
<1>0. TypeOK /\ ReceiptInv(r) /\ EffectInv(r) /\ OutcomeInv(r)
  BY DEF IInv
<1>1. pc[r] \in {"authorize", "store", "handle", "act", "acted"}
  BY DEF MayAnswer, InAccess, InHandler
<1>2. completion[r] = None /\ reply[r] = None /\ response[r] = None
  BY <1>0, <1>1 DEF OutcomeInv, EffectInv, Unanswered, Undecided, InHandler
<1>3. status # None
  BY NoneIsNothing
<1>4. \/ flagged[r] /\ pc'[r] = "gone" /\ cancelled[r] /\ response'[r] = None /\ reply'[r] = None
      \/ /\ flagged[r] /\ pc'[r] = "done" /\ response'[r] = None
         /\ reply'[r] = [status |-> status, body |-> "response"]
      \/ /\ ~flagged[r] /\ response'[r] = status /\ reply'[r] = None
         /\ pc'[r] = IF cancelled[r] THEN "gone" ELSE "complete"
  BY <1>0, <1>2, RespondEffect
<1>5. ReceiptInv(r)'
  BY <1>0, <1>1, <1>4 DEF ReceiptInv, InAccess, InHandler
<1>6. EffectInv(r)'
  <2>1. pc'[r] \in {"gone", "done", "complete"}
    BY <1>4
  <2>2. flagged[r] => ~effect'[r]
    BY <1>0, NoneIsNothing DEF ReceiptInv, MayAnswer
  <2>3. QED
    BY <1>3, <1>4, <2>1, <2>2 DEF EffectInv, Unanswered, Undecided, InHandler, MayAnswer
<1>7. OutcomeInv(r)'
  BY <1>0, <1>2, <1>4 DEF OutcomeInv, MayAnswer
<1>8. QED
  BY <1>5, <1>6, <1>7

\* A fault uses the budget.
LEMMA FaultEffect ==
  ASSUME TypeOK, NEW kind, Fault(kind)
  PROVE  faults' \in 0 .. MaxFaults
BY ConstantsAssumption DEF Fault, TypeOK

\* A fault that hits the journal of r fails r and no other request.
LEMMA FailsEffect ==
  ASSUME TypeOK, NEW r \in Req, Fails(r)
  PROVE  /\ failed' \in [Req -> BOOLEAN]
         /\ \A s \in Req \ {r} : failed'[s] = failed[s]
         /\ failed'[r]
BY DEF Fails, TypeOK

\* The receipt is committed.
LEMMA StartStep ==
  ASSUME IInv, NEW r \in Req, Start(r)
  PROVE  IInv'
<1> USE DEF Start, state, budget
<1>1. TypeOK /\ ReceiptInv(r) /\ DecisionInv(r) /\ EffectInv(r) /\ OutcomeInv(r)
  BY DEF IInv
<1>2. pc' \in [Req -> Step] /\ (\A s \in Req \ {r} : pc'[s] = pc[s])
      /\ pc'[r] = IF cancelled[r] THEN "gone" ELSE "authorize"
  BY <1>1, ResumeEffect DEF Step, InFlight, InAccess
<1>3. TypeOK'
  BY <1>1, <1>2 DEF TypeOK
<1>4. receipt'[r] = issued[r] /\ receipt'[r] # None
  BY <1>1 DEF TypeOK, ReceiptInv
<1>5. decisions[r] = {} /\ ~effect[r] /\ ~flagged[r] /\ completion[r] = None /\ reply[r] = None
  BY <1>1 DEF DecisionInv, EffectInv, ReceiptInv, OutcomeInv, Undecided
<1>6. RequestInv(r)'
  <2>1. ReceiptInv(r)'
    BY <1>1, <1>2, <1>4, <1>5 DEF ReceiptInv, InAccess, InHandler
  <2>2. DecisionInv(r)'
    BY <1>1, <1>2, <1>5, DecisionsKept
  <2>3. EffectInv(r)'
    BY <1>1, <1>2, <1>5 DEF EffectInv, Unanswered, Undecided, InHandler
  <2>4. OutcomeInv(r)'
    BY <1>1, <1>2, <1>5 DEF OutcomeInv
  <2>5. QED
    BY <2>1, <2>2, <2>3, <2>4 DEF RequestInv
<1>7. \A s \in Req \ {r} : Same(s)
  BY <1>1, <1>2 DEF TypeOK, Same
<1>8. QED
  BY <1>3, <1>6, <1>7, OneRequest

\* A refusal or an answer of one request preserves the invariant, if the decisions
\* made with it are right.
LEMMA AnswerStep ==
  ASSUME IInv, NEW r \in Req, NEW status \in Status, Respond(r, status),
         MayAnswer(r, status),
         effect' \in [Req -> BOOLEAN], \A s \in Req \ {r} : effect'[s] = effect[s],
         decisions' \in [Req -> SUBSET Decision],
         \A s \in Req \ {r} : decisions'[s] = decisions[s],
         DecisionInv(r)',
         UNCHANGED <<journal, schema, asked, flagged, issued, cancelled, clock>>,
         faults' \in 0 .. MaxFaults, failed' = failed
  PROVE  IInv'
<1>1. TypeOK
  BY DEF IInv
<1>2. /\ pc' \in [Req -> Step]
      /\ response' \in [Req -> Status \union {None}]
      /\ reply' \in [Req -> Reply \union {None}]
      /\ \A s \in Req \ {r} :
           pc'[s] = pc[s] /\ response'[s] = response[s] /\ reply'[s] = reply[s]
  BY <1>1, RespondEffect
<1> USE DEF journal
<1>3. TypeOK'
  BY <1>1, <1>2 DEF TypeOK
<1>4. RequestInv(r)'
  BY RespondKeeps DEF RequestInv
<1>5. \A s \in Req \ {r} : Same(s)
  BY <1>2 DEF Same
<1>6. QED
  BY <1>3, <1>4, <1>5, OneRequest

\* A receipted request that has not acted passes a check.
MayGoOn(r) ==
  /\ pc[r] \in InAccess \union InHandler
  /\ pc'[r] \in {"store", "handle", "act"} \/ (pc'[r] = "gone" /\ cancelled[r])
  /\ ~flagged[r] /\ ~effect[r] /\ response[r] = None

\* A request goes on in its thread, with the decisions it has made.
LEMMA GoOnStep ==
  ASSUME IInv, NEW r \in Req, MayGoOn(r),
         pc' \in [Req -> Step], \A s \in Req \ {r} : pc'[s] = pc[s],
         decisions' \in [Req -> SUBSET Decision],
         \A s \in Req \ {r} : decisions'[s] = decisions[s],
         DecisionInv(r)',
         UNCHANGED <<journal, effect, schema, asked, flagged, issued, response, reply,
                     cancelled, clock, budget>>
  PROVE  IInv'
<1> USE DEF journal, budget
<1>1. TypeOK /\ ReceiptInv(r) /\ EffectInv(r) /\ OutcomeInv(r)
  BY DEF IInv
<1>2. TypeOK'
  BY <1>1 DEF TypeOK
<1>3. ReceiptInv(r)'
  BY <1>1 DEF ReceiptInv, InAccess, InHandler, MayGoOn
<1>4. EffectInv(r)'
  BY <1>1 DEF EffectInv, MayGoOn
<1>5. OutcomeInv(r)'
  <2>1. completion[r] = None /\ reply[r] = None
    BY <1>1 DEF OutcomeInv, InAccess, InHandler, MayGoOn
  <2>2. QED
    BY <1>1, <2>1 DEF OutcomeInv, MayGoOn
<1>6. \A s \in Req \ {r} : Same(s)
  BY DEF Same
<1>7. QED
  BY <1>2, <1>3, <1>4, <1>5, <1>6, OneRequest DEF RequestInv

\* One decision that follows the role, made by a request that had none.
LEMMA FirstDecision ==
  ASSUME IInv, NEW r \in Req, pc[r] = "authorize", NEW p \in Permission,
         Decide(r, p, Granted(asked[r].role, p))
  PROVE  /\ decisions' \in [Req -> SUBSET Decision]
         /\ \A s \in Req \ {r} : decisions'[s] = decisions[s]
         /\ decisions'[r] = {[permission |-> p, granted |-> Granted(asked[r].role, p)]}
<1>1. TypeOK /\ DecisionInv(r)
  BY DEF IInv
<1>2. decisions[r] = {}
  BY <1>1 DEF DecisionInv, Undecided
<1>3. Granted(asked[r].role, p) \in BOOLEAN
  BY DEF Granted
<1>4. {d \in decisions[r] : d.permission # p} = {}
  BY <1>2
<1>5. QED
  BY <1>1, <1>3, <1>4, DecideEffect

\* Authentication, the role and the flag of the journal.
LEMMA AuthorizeStep ==
  ASSUME IInv, NEW r \in Req, Authorize(r)
  PROVE  IInv'
<1> DEFINE op == asked[r]
<1>1. /\ TypeOK /\ ReceiptInv(r) /\ DecisionInv(r) /\ EffectInv(r)
      /\ pc[r] = "authorize"
      /\ UNCHANGED <<journal, effect, schema, asked, flagged, issued, cancelled, clock, budget>>
  BY DEF IInv, Authorize
<1>2. /\ op \in Operation /\ op.first \in Permission \union {None}
      /\ ~effect[r] /\ response[r] = None /\ decisions[r] = {}
  BY <1>1 DEF ReceiptInv, EffectInv, DecisionInv, Operation, Unanswered, Undecided
<1>3. pc[r] \in InAccess \union InHandler
  BY <1>1 DEF InAccess
<1>4. /\ effect' \in [Req -> BOOLEAN] /\ (\A s \in Req \ {r} : effect'[s] = effect[s])
      /\ ~effect'[r] /\ asked'[r] = asked[r]
      /\ faults' \in 0 .. MaxFaults /\ failed' = failed
  BY <1>1, <1>2 DEF TypeOK, budget
<1>5. ASSUME NEW status \in {401, 403, 404, 503}, Respond(r, status),
             decisions' \in [Req -> SUBSET Decision],
             \A s \in Req \ {r} : decisions'[s] = decisions[s],
             \A d \in decisions'[r] : d.granted = Granted(op.role, d.permission)
      PROVE  IInv'
  <2>1. pc'[r] \in {"gone", "done", "complete"}
    BY <1>1, <1>5, RespondEffect DEF Status
  <2>2. DecisionInv(r)'
    BY <1>4, <1>5, <2>1 DEF DecisionInv, Undecided
  <2>3. status \in Status
    BY DEF Status
  <2>4. MayAnswer(r, status)
    BY <1>3, <1>4 DEF MayAnswer
  <2>5. QED
    BY <1>1, <1>4, <1>5, <2>2, <2>3, <2>4, AnswerStep
<1>6. CASE op.first = None /\ Respond(r, 404) /\ UNCHANGED decisions
  BY <1>1, <1>2, <1>5, <1>6 DEF TypeOK
<1>7. ASSUME op.first # None, Decide(r, op.first, Granted(op.role, op.first)),
             NEW status \in {401, 403, 503}, Respond(r, status)
      PROVE  IInv'
  <2>1. /\ decisions' \in [Req -> SUBSET Decision]
        /\ \A s \in Req \ {r} : decisions'[s] = decisions[s]
        /\ decisions'[r] = {[permission |-> op.first, granted |-> Granted(op.role, op.first)]}
    BY <1>1, <1>2, <1>7, FirstDecision
  <2>2. \A d \in decisions'[r] : d.granted = Granted(op.role, d.permission)
    BY <2>1
  <2>3. QED
    BY <1>5, <1>7, <2>1, <2>2
<1>8. CASE /\ op.first # None /\ Granted(op.role, op.first)
           /\ Decide(r, op.first, TRUE) /\ ~JournalUnavailable(r)
           /\ Proceed(r, "store") /\ UNCHANGED <<response, reply>>
  <2>1. Decide(r, op.first, Granted(op.role, op.first))
    <3>1. Granted(op.role, op.first) = TRUE
      BY <1>8 DEF Granted
    <3>2. QED
      BY <1>8, <3>1
  <2>2. /\ decisions' \in [Req -> SUBSET Decision]
        /\ \A s \in Req \ {r} : decisions'[s] = decisions[s]
        /\ decisions'[r] = {[permission |-> op.first, granted |-> Granted(op.role, op.first)]}
    BY <1>1, <1>2, <1>8, <2>1, FirstDecision
  <2>3. decisions'[r] = AllGranted({op.first})
    <3>1. Granted(op.role, op.first) = TRUE
      BY <1>8 DEF Granted
    <3>2. QED
      BY <2>2, <3>1 DEF AllGranted
  <2>4. pc' \in [Req -> Step] /\ (\A s \in Req \ {r} : pc'[s] = pc[s]) /\ pc'[r] = "store"
    BY <1>1, <1>8 DEF TypeOK, Proceed, Step, InFlight, InAccess
  <2>5. DecisionInv(r)'
    <3>1. \A d \in decisions'[r] : d.granted = Granted(op.role, d.permission)
      BY <2>2
    <3>2. QED
      BY <1>4, <1>8, <2>3, <2>4, <3>1 DEF DecisionInv, Undecided
  <2>6. ~flagged[r]
    BY <1>8 DEF JournalUnavailable
  <2>7. UNCHANGED <<journal, effect, schema, asked, flagged, issued, response, reply,
                    cancelled, clock, budget>>
    BY <1>1, <1>8
  <2>8. MayGoOn(r)
    BY <1>2, <1>3, <2>4, <2>6 DEF MayGoOn
  <2>9. QED
    BY <2>2, <2>4, <2>5, <2>7, <2>8, GoOnStep
<1>9. CASE op.first # None /\ op.role = None /\ Decide(r, op.first, FALSE) /\ Respond(r, 401)
  <2>1. Granted(op.role, op.first) = FALSE
    BY <1>9 DEF Granted
  <2>2. QED
    BY <1>7, <1>9, <2>1
<1>10. CASE /\ op.first # None /\ ~Granted(op.role, op.first)
            /\ Decide(r, op.first, FALSE) /\ Respond(r, 403)
  <2>1. Granted(op.role, op.first) = FALSE
    BY <1>10 DEF Granted
  <2>2. QED
    BY <1>7, <1>10, <2>1
<1>11. CASE /\ op.first # None /\ Granted(op.role, op.first)
            /\ Decide(r, op.first, TRUE) /\ Respond(r, 503)
  <2>1. Granted(op.role, op.first) = TRUE
    BY <1>11 DEF Granted
  <2>2. QED
    BY <1>7, <1>11, <2>1
<1>12. QED
  BY <1>6, <1>8, <1>9, <1>10, <1>11, Zenon DEF Authorize

\* Past the role check a request is receipted and, before its transaction, unanswered.
LEMMA PastTheRole ==
  ASSUME IInv, NEW r \in Req, pc[r] \in {"store"} \union InHandler
  PROVE  /\ TypeOK /\ DecisionInv(r)
         /\ pc[r] \in InAccess \union InHandler
         /\ ~flagged[r] /\ receipt[r] # None /\ response[r] = None
         /\ asked[r] \in Operation
         /\ pc[r] # "acted" => ~effect[r]
<1>1. TypeOK /\ ReceiptInv(r) /\ DecisionInv(r) /\ EffectInv(r)
  BY DEF IInv
<1>2. pc[r] \in {"store", "handle", "act", "acted"}
  BY DEF InHandler
<1>3. ~flagged[r]
  BY <1>1, <1>2 DEF ReceiptInv
<1>4. receipt[r] # None /\ asked[r] \in Operation
  BY <1>1, <1>2, <1>3 DEF ReceiptInv, InAccess, InHandler
<1>5. response[r] = None /\ (pc[r] # "acted" => ~effect[r])
  BY <1>1, <1>2 DEF EffectInv, Unanswered, InHandler
<1>6. QED
  BY <1>1, <1>2, <1>3, <1>4, <1>5 DEF InAccess, InHandler

\* An answer without a new decision.
LEMMA PlainAnswer ==
  ASSUME IInv, NEW r \in Req, NEW status \in Status \ {401, 403, 404}, Respond(r, status),
         pc[r] \in {"store"} \union InHandler,
         effect'[r] => pc[r] \in {"act", "acted"},
         effect' \in [Req -> BOOLEAN], \A s \in Req \ {r} : effect'[s] = effect[s],
         UNCHANGED <<journal, schema, asked, flagged, issued, decisions, cancelled, clock>>,
         faults' \in 0 .. MaxFaults, failed' = failed
  PROVE  IInv'
<1>1. /\ TypeOK /\ DecisionInv(r) /\ pc[r] \in InAccess \union InHandler
      /\ ~flagged[r] /\ receipt[r] # None
  BY PastTheRole
<1>2. status \in Status
  OBVIOUS
<1>3. pc'[r] \in {"gone", "complete"}
  BY <1>1, <1>2, RespondEffect
<1>4. DecisionInv(r)'
  <2>1. asked'[r] = asked[r] /\ decisions'[r] = decisions[r]
    OBVIOUS
  <2>2. QED
    BY <1>1, <1>3, <2>1, DecisionsKept DEF Undecided
<1>5. MayAnswer(r, status)
  BY <1>1 DEF MayAnswer
<1>6. /\ decisions' \in [Req -> SUBSET Decision]
      /\ \A s \in Req \ {r} : decisions'[s] = decisions[s]
  BY <1>1 DEF TypeOK
<1>7. UNCHANGED <<journal, schema, asked, flagged, issued, cancelled, clock>>
  OBVIOUS
<1>8. QED
  BY <1>2, <1>4, <1>5, <1>6, <1>7, AnswerStep

\* The second readiness check.
LEMMA StoreReadyStep ==
  ASSUME IInv, NEW r \in Req, StoreReady(r)
  PROVE  IInv'
<1>1. /\ pc[r] = "store"
      /\ UNCHANGED <<journal, effect, schema, asked, flagged, issued, decisions, cancelled,
                     clock, budget>>
  BY DEF StoreReady
<1>2. /\ TypeOK /\ DecisionInv(r) /\ pc[r] \in InAccess \union InHandler
      /\ ~flagged[r] /\ response[r] = None /\ ~effect[r]
  BY <1>1, PastTheRole
<1>3. /\ effect' \in [Req -> BOOLEAN] /\ (\A s \in Req \ {r} : effect'[s] = effect[s])
      /\ decisions' \in [Req -> SUBSET Decision]
      /\ \A s \in Req \ {r} : decisions'[s] = decisions[s]
      /\ faults' \in 0 .. MaxFaults /\ failed' = failed
  BY <1>1, <1>2 DEF TypeOK, budget
<1>4. CASE Resume(r, "handle") /\ UNCHANGED <<response, reply>>
  <2>1. /\ pc' \in [Req -> Step] /\ (\A s \in Req \ {r} : pc'[s] = pc[s])
        /\ pc'[r] = IF cancelled[r] THEN "gone" ELSE "handle"
    BY <1>2, <1>4, ResumeEffect DEF Step, InFlight, InHandler
  <2>2. DecisionInv(r)'
    BY <1>1, <1>2, <2>1, DecisionsKept DEF Undecided
  <2>3. MayGoOn(r)
    BY <1>2, <2>1 DEF MayGoOn
  <2>4. UNCHANGED <<journal, effect, schema, asked, flagged, issued, response, reply,
                    cancelled, clock, budget>>
    BY <1>1, <1>4
  <2>5. QED
    BY <1>3, <2>1, <2>2, <2>3, <2>4, GoOnStep
<1>5. CASE Respond(r, 503)
  <2>1. 503 \in Status \ {401, 403, 404} /\ ~effect'[r]
    BY <1>1, <1>2 DEF Status
  <2>2. UNCHANGED <<journal, schema, asked, flagged, issued, decisions, cancelled, clock>>
    BY <1>1
  <2>3. QED
    BY <1>1, <1>3, <1>5, <2>1, <2>2, PlainAnswer
<1>6. QED
  BY <1>4, <1>5 DEF StoreReady

\* The extra permission: its decision is added to the first one.
LEMMA ExtraDecision ==
  ASSUME IInv, NEW r \in Req, pc[r] = "handle", asked[r].extra # None,
         NEW granted \in BOOLEAN, granted = Granted(asked[r].role, asked[r].extra),
         Decide(r, asked[r].extra, granted)
  PROVE  /\ decisions' \in [Req -> SUBSET Decision]
         /\ \A s \in Req \ {r} : decisions'[s] = decisions[s]
         /\ \A d \in decisions'[r] : d.granted = Granted(asked[r].role, d.permission)
         /\ granted => /\ decisions'[r] = AllGranted(Needed(asked[r]))
                       /\ \A p \in Needed(asked[r]) : Granted(asked[r].role, p)
<1> DEFINE op == asked[r]
<1>1. TypeOK /\ DecisionInv(r) /\ op \in Operation
  BY PastTheRole DEF InHandler
<1>2. op.extra \in Permission /\ op.first \in Permission \union {None}
  BY <1>1 DEF Operation
<1>3. /\ decisions[r] = AllGranted({op.first}) /\ op.first # None
      /\ Granted(op.role, op.first)
  BY <1>1 DEF DecisionInv
<1>4. /\ decisions' \in [Req -> SUBSET Decision]
      /\ \A s \in Req \ {r} : decisions'[s] = decisions[s]
      /\ decisions'[r] = {d \in decisions[r] : d.permission # op.extra}
                           \union {[permission |-> op.extra, granted |-> granted]}
  BY <1>1, <1>2, DecideEffect
<1>5. \A d \in decisions'[r] : d.granted = Granted(op.role, d.permission)
  BY <1>1, <1>4 DEF DecisionInv
<1>6. Needed(op) = {op.first, op.extra}
  BY <1>3 DEF Needed
<1>7. ASSUME granted PROVE decisions'[r] = AllGranted(Needed(op))
  <2>1. AllGranted({op.first}) = {[permission |-> op.first, granted |-> TRUE]}
    BY DEF AllGranted
  <2>2. AllGranted({op.first, op.extra}) =
          {[permission |-> op.first, granted |-> TRUE],
           [permission |-> op.extra, granted |-> TRUE]}
    BY DEF AllGranted
  <2>3. granted = TRUE
    BY <1>7
  <2>4. CASE op.first = op.extra
    BY <1>3, <1>4, <1>6, <2>1, <2>2, <2>3, <2>4
  <2>5. CASE op.first # op.extra
    <3>1. {d \in decisions[r] : d.permission # op.extra} = {[permission |-> op.first, granted |-> TRUE]}
      BY <1>3, <2>1, <2>5
    <3>2. QED
      BY <1>4, <1>6, <2>2, <2>3, <3>1
  <2>6. QED
    BY <2>4, <2>5
<1>8. granted => \A p \in Needed(op) : Granted(op.role, p)
  BY <1>3, <1>6
<1>9. QED
  BY <1>4, <1>5, <1>7, <1>8

\* The endpoint's own check.
LEMMA AuthorizeExtraStep ==
  ASSUME IInv, NEW r \in Req, AuthorizeExtra(r)
  PROVE  IInv'
<1> DEFINE op == asked[r]
<1>1. /\ pc[r] = "handle"
      /\ UNCHANGED <<journal, effect, schema, asked, flagged, issued, cancelled, clock, budget>>
  BY DEF AuthorizeExtra
<1>2. /\ TypeOK /\ DecisionInv(r) /\ pc[r] \in InAccess \union InHandler
      /\ ~flagged[r] /\ response[r] = None /\ ~effect[r]
  BY <1>1, PastTheRole DEF InHandler
<1>3. /\ op.first # None /\ Granted(op.role, op.first)
      /\ decisions[r] = AllGranted({op.first})
  BY <1>1, <1>2 DEF DecisionInv
<1>4. ASSUME Proceed(r, "act"), UNCHANGED <<response, reply>>,
             decisions' \in [Req -> SUBSET Decision],
             \A s \in Req \ {r} : decisions'[s] = decisions[s],
             \A d \in decisions'[r] : d.granted = Granted(op.role, d.permission),
             decisions'[r] = AllGranted(Needed(op)),
             \A p \in Needed(op) : Granted(op.role, p)
      PROVE  IInv'
  <2>1. pc' \in [Req -> Step] /\ (\A s \in Req \ {r} : pc'[s] = pc[s]) /\ pc'[r] = "act"
    BY <1>2, <1>4 DEF TypeOK, Proceed, Step, InFlight, InHandler
  <2>2. DecisionInv(r)'
    <3>1. asked'[r] = op
      BY <1>1
    <3>2. QED
      BY <1>3, <1>4, <2>1, <3>1 DEF DecisionInv, Undecided
  <2>3. MayGoOn(r)
    BY <1>2, <2>1 DEF MayGoOn
  <2>4. UNCHANGED <<journal, effect, schema, asked, flagged, issued, response, reply,
                    cancelled, clock, budget>>
    BY <1>1, <1>4
  <2>5. QED
    BY <1>4, <2>1, <2>2, <2>3, <2>4, GoOnStep
<1>5. CASE op.extra = None /\ Proceed(r, "act") /\ UNCHANGED <<decisions, response, reply>>
  <2>1. Needed(op) = {op.first}
    BY <1>3, <1>5 DEF Needed
  <2>2. /\ decisions' \in [Req -> SUBSET Decision]
        /\ \A s \in Req \ {r} : decisions'[s] = decisions[s]
    BY <1>2, <1>5 DEF TypeOK
  <2>3. decisions'[r] = AllGranted(Needed(op)) /\ \A p \in Needed(op) : Granted(op.role, p)
    BY <1>3, <1>5, <2>1
  <2>4. \A d \in decisions'[r] : d.granted = Granted(op.role, d.permission)
    BY <1>2, <1>5 DEF DecisionInv
  <2>5. QED
    BY <1>4, <1>5, <2>2, <2>3, <2>4
<1>6. CASE /\ op.extra # None /\ Granted(op.role, op.extra) /\ Decide(r, op.extra, TRUE)
           /\ Proceed(r, "act") /\ UNCHANGED <<response, reply>>
  <2>1. TRUE = Granted(op.role, op.extra)
    BY <1>6 DEF Granted
  <2>2. /\ decisions' \in [Req -> SUBSET Decision]
        /\ \A s \in Req \ {r} : decisions'[s] = decisions[s]
        /\ \A d \in decisions'[r] : d.granted = Granted(op.role, d.permission)
        /\ decisions'[r] = AllGranted(Needed(op))
        /\ \A p \in Needed(op) : Granted(op.role, p)
    BY <1>1, <1>6, <2>1, ExtraDecision
  <2>3. QED
    BY <1>4, <1>6, <2>2
<1>7. CASE /\ op.extra # None /\ ~Granted(op.role, op.extra) /\ Decide(r, op.extra, FALSE)
           /\ Respond(r, 403)
  <2>1. FALSE = Granted(op.role, op.extra)
    BY <1>7 DEF Granted
  <2>2. /\ decisions' \in [Req -> SUBSET Decision]
        /\ \A s \in Req \ {r} : decisions'[s] = decisions[s]
        /\ \A d \in decisions'[r] : d.granted = Granted(op.role, d.permission)
    BY <1>1, <1>7, <2>1, ExtraDecision
  <2>3. 403 \in Status
    BY DEF Status
  <2>4. pc'[r] \in {"gone", "complete"}
    BY <1>2, <1>7, <2>3, RespondEffect
  <2>5. /\ effect' \in [Req -> BOOLEAN] /\ (\A s \in Req \ {r} : effect'[s] = effect[s])
        /\ ~effect'[r] /\ asked'[r] = asked[r]
        /\ faults' \in 0 .. MaxFaults /\ failed' = failed
    BY <1>1, <1>2 DEF TypeOK, budget
  <2>6. DecisionInv(r)'
    BY <2>2, <2>4, <2>5 DEF DecisionInv, Undecided
  <2>7. MayAnswer(r, 403)
    BY <1>2, <2>5 DEF MayAnswer
  <2>8. UNCHANGED <<journal, schema, asked, flagged, issued, cancelled, clock>>
    BY <1>1
  <2>9. QED
    BY <1>7, <2>2, <2>3, <2>5, <2>6, <2>7, <2>8, AnswerStep
<1>8. QED
  BY <1>5, <1>6, <1>7 DEF AuthorizeExtra

\* The endpoint rejects, only reads, or commits.
LEMMA ActStep ==
  ASSUME IInv, NEW r \in Req, Act(r)
  PROVE  IInv'
<1>1. /\ pc[r] = "act"
      /\ UNCHANGED <<journal, schema, asked, flagged, issued, decisions, cancelled, clock, budget>>
  BY DEF Act
<1>2. /\ TypeOK /\ DecisionInv(r) /\ ~flagged[r] /\ receipt[r] # None
      /\ response[r] = None /\ ~effect[r]
  BY <1>1, PastTheRole DEF InHandler
<1>3. faults' \in 0 .. MaxFaults /\ failed' = failed
  BY <1>1, <1>2 DEF TypeOK, budget
<1>4. CASE Respond(r, 400) /\ UNCHANGED effect
  <2>1. /\ effect' \in [Req -> BOOLEAN] /\ (\A s \in Req \ {r} : effect'[s] = effect[s])
        /\ 400 \in Status \ {401, 403, 404} /\ ~effect'[r]
    BY <1>2, <1>4 DEF TypeOK, Status
  <2>2. UNCHANGED <<journal, schema, asked, flagged, issued, decisions, cancelled, clock>>
    BY <1>1
  <2>3. pc[r] \in {"store"} \union InHandler
    BY <1>1 DEF InHandler
  <2>4. QED
    BY <1>3, <1>4, <2>1, <2>2, <2>3, PlainAnswer
<1>5. CASE /\ effect' \in {effect, [effect EXCEPT ![r] = TRUE]}
           /\ Proceed(r, "acted") /\ UNCHANGED <<response, reply>>
  <2>1. /\ pc' \in [Req -> Step] /\ (\A s \in Req \ {r} : pc'[s] = pc[s]) /\ pc'[r] = "acted"
    BY <1>2, <1>5 DEF TypeOK, Proceed, Step, InFlight, InHandler
  <2>2. effect' \in [Req -> BOOLEAN] /\ (\A s \in Req \ {r} : effect'[s] = effect[s])
    BY <1>2, <1>5 DEF TypeOK
  <2>3. TypeOK'
    BY <1>1, <1>2, <1>3, <1>5, <2>1, <2>2 DEF TypeOK, journal
  <2>4. /\ ReceiptInv(r) /\ OutcomeInv(r) /\ journal' = journal
        /\ asked'[r] = asked[r] /\ flagged'[r] = flagged[r] /\ issued'[r] = issued[r]
        /\ decisions'[r] = decisions[r] /\ response'[r] = response[r]
        /\ reply'[r] = reply[r] /\ cancelled'[r] = cancelled[r]
    BY <1>1, <1>5 DEF IInv
  <2>5. ReceiptInv(r)'
    BY <1>1, <1>2, <2>1, <2>4 DEF ReceiptInv, journal, InAccess, InHandler
  <2>6. DecisionInv(r)'
    BY <1>1, <1>2, <2>1, <2>4, DecisionsKept DEF Undecided
  <2>7. EffectInv(r)'
    BY <1>2, <2>1, <2>4, NoneIsNothing DEF EffectInv, journal, Status
  <2>8. OutcomeInv(r)'
    BY <1>1, <1>3, <2>1, <2>4 DEF OutcomeInv, journal
  <2>9. \A s \in Req \ {r} : Same(s)
    BY <1>1, <1>3, <1>5, <2>1, <2>2 DEF Same, journal
  <2>10. QED
    BY <1>3, <2>3, <2>5, <2>6, <2>7, <2>8, <2>9, OneRequest DEF RequestInv
<1>6. QED
  BY <1>4, <1>5 DEF Act

\* The endpoint returns, or raises.
LEMMA ActedStep ==
  ASSUME IInv, NEW r \in Req, Acted(r)
  PROVE  IInv'
<1>1. /\ pc[r] = "acted"
      /\ UNCHANGED <<journal, effect, schema, asked, flagged, issued, decisions, cancelled,
                     clock, budget>>
  BY DEF Acted
<1>2. PICK status \in {200, 500} : Respond(r, status)
  BY DEF Acted
<1>3. status \in Status \ {401, 403, 404}
  BY DEF Status
<1>4. TypeOK
  BY DEF IInv
<1>5. /\ effect' \in [Req -> BOOLEAN] /\ (\A s \in Req \ {r} : effect'[s] = effect[s])
      /\ faults' \in 0 .. MaxFaults /\ failed' = failed
  BY <1>1, <1>4 DEF TypeOK, budget
<1>6. UNCHANGED <<journal, schema, asked, flagged, issued, decisions, cancelled, clock>>
  BY <1>1
<1>7. pc[r] \in {"store"} \union InHandler /\ pc[r] \in {"act", "acted"}
  BY <1>1 DEF InHandler
<1>8. QED
  BY <1>2, <1>3, <1>5, <1>6, <1>7, PlainAnswer

\* The domain transaction fails, whether its commit is durable or not.
LEMMA DomainErrorStep ==
  ASSUME IInv, NEW r \in Req, DomainError(r)
  PROVE  IInv'
<1>1. /\ pc[r] = "act" /\ Fault("database") /\ Respond(r, 503)
      /\ effect' \in {effect, [effect EXCEPT ![r] = TRUE]}
      /\ UNCHANGED <<journal, schema, asked, flagged, issued, decisions, cancelled, clock,
                     failed>>
  BY DEF DomainError
<1>2. TypeOK
  BY DEF IInv
<1>3. faults' \in 0 .. MaxFaults /\ failed' = failed
  BY <1>1, <1>2, FaultEffect
<1>4. effect' \in [Req -> BOOLEAN] /\ (\A s \in Req \ {r} : effect'[s] = effect[s])
  BY <1>1, <1>2 DEF TypeOK
<1>5. pc[r] \in {"store"} \union InHandler /\ pc[r] \in {"act", "acted"}
  BY <1>1 DEF InHandler
<1>6. 503 \in Status \ {401, 403, 404}
  BY DEF Status
<1>7. QED
  BY <1>1, <1>3, <1>4, <1>5, <1>6, PlainAnswer

\* What the coroutine completes always combines with its receipt: the clamp of
\* completed_at and the decisions' source leave journal.complete nothing to refuse.
LEMMA AlwaysCompletes ==
  ASSUME IInv, NEW r \in Req, pc[r] = "complete"
  PROVE  /\ MayComplete(r)
         /\ NewCompletion(r) \in Completion
         /\ ~flagged[r] /\ receipt[r] # None /\ response[r] # None /\ reply[r] = None
<1>1. TypeOK /\ ReceiptInv(r) /\ DecisionInv(r) /\ EffectInv(r) /\ OutcomeInv(r)
  BY DEF IInv
<1>2. ~flagged[r]
  BY <1>1 DEF ReceiptInv
<1>3. receipt[r] # None /\ receipt[r] = issued[r] /\ issued[r].role = asked[r].role
  BY <1>1, <1>2 DEF ReceiptInv
<1>4. issued[r] \in Receipt
  BY <1>1, <1>3 DEF TypeOK
<1>5. response[r] # None /\ response[r] \in Status
  BY <1>1 DEF EffectInv, TypeOK
<1>6. completion[r] = None /\ reply[r] = None
  BY <1>1 DEF OutcomeInv
<1>7. issued[r].started_at \in Time /\ clock \in Time
  BY <1>1, <1>4 DEF Receipt, TypeOK
<1>8. /\ CompletedAt(issued[r].started_at) \in Time
      /\ CompletedAt(issued[r].started_at) >= issued[r].started_at
  BY <1>7, ConstantsAssumption DEF CompletedAt, Time
<1>9. NewCompletion(r) \in Completion
  BY <1>1, <1>4, <1>5, <1>8 DEF NewCompletion, Completion, TypeOK
<1>10. Combines(issued[r], NewCompletion(r))
  BY <1>1, <1>3, <1>8 DEF Combines, NewCompletion, DecisionInv
<1>11. QED
  BY <1>2, <1>3, <1>5, <1>6, <1>9, <1>10 DEF MayComplete

\* journal_response leaves after the endpoint: the completion is stored, or a failure
\* is admitted.
LEMMA LeaveAfterResponse ==
  ASSUME IInv, NEW r \in Req, pc[r] = "complete",
         NEW status \in Status, NEW body \in Body, Leave(r, status, body),
         completion' = completion \/ CommitCompletion(r),
         \/ body = "response" /\ status = response[r] /\ CommitCompletion(r)
         \/ body = "unconfirmed" /\ status = 503 /\ failed'[r],
         faults' \in 0 .. MaxFaults, failed' \in [Req -> BOOLEAN],
         failed[r] => failed'[r], \A s \in Req \ {r} : failed'[s] = failed[s],
         UNCHANGED <<receipt, effect, schema, asked, state, cancelled, clock>>
  PROVE  IInv'
<1> USE DEF state
<1>1. TypeOK /\ ReceiptInv(r) /\ DecisionInv(r) /\ EffectInv(r) /\ OutcomeInv(r)
  BY DEF IInv
<1>2. /\ MayComplete(r) /\ NewCompletion(r) \in Completion
      /\ ~flagged[r] /\ receipt[r] # None /\ response[r] # None /\ reply[r] = None
  BY AlwaysCompletes
<1>3. /\ pc' \in [Req -> Step] /\ reply' \in [Req -> Reply \union {None}]
      /\ \A s \in Req \ {r} : pc'[s] = pc[s] /\ reply'[s] = reply[s]
      /\ \/ cancelled[r] /\ pc'[r] = "gone" /\ reply'[r] = reply[r]
         \/ /\ ~cancelled[r] /\ pc'[r] = "done"
            /\ reply'[r] = [status |-> status, body |-> body]
  BY <1>1, LeaveEffect
<1>4. /\ completion' \in [Req -> Completion \union {None}]
      /\ \A s \in Req \ {r} : completion'[s] = completion[s]
      /\ CommitCompletion(r) => completion'[r] = NewCompletion(r)
      /\ completion'[r] # None => completion'[r] = NewCompletion(r)
  BY <1>1, <1>2 DEF CommitCompletion, TypeOK, MayComplete
<1>5. TypeOK'
  BY <1>1, <1>3, <1>4 DEF TypeOK
<1>6. ReceiptInv(r)'
  BY <1>1, <1>2, <1>3 DEF ReceiptInv, InAccess, InHandler
<1>7. DecisionInv(r)'
  BY <1>1, <1>3, DecisionsKept DEF Undecided
<1>8. EffectInv(r)'
  BY <1>1, <1>3 DEF EffectInv, Unanswered, Undecided, InHandler
<1>9. OutcomeInv(r)'
  <2>1. Combines(issued[r], NewCompletion(r))
    BY <1>2 DEF MayComplete
  <2>2. NewCompletion(r).status = response[r] /\ NewCompletion(r).permissions = decisions[r]
    BY DEF NewCompletion
  <2>3. cancelled[r] => failed[r]
    BY <1>1 DEF OutcomeInv
  <2>4. completion'[r] # None =>
          /\ pc'[r] \in {"done", "gone"} /\ receipt'[r] # None /\ response'[r] # None
          /\ Combines(issued'[r], completion'[r])
          /\ completion'[r].status = response'[r]
          /\ completion'[r].permissions = decisions'[r]
    BY <1>2, <1>3, <1>4, <2>1, <2>2
  <2>5. NewCompletion(r) # None
    BY <1>2, NoneIsNothing
  <2>6. reply'[r] # None =>
          /\ pc'[r] = "done"
          /\ \/ reply'[r].body = "response" /\ completion'[r] # None
                /\ completion'[r].status = reply'[r].status
             \/ reply'[r].body = "unconfirmed" /\ failed'[r] /\ reply'[r].status = 503
    BY <1>2, <1>3, <1>4, <2>2, <2>5
  <2>7. cancelled'[r] \/ pc'[r] \in {"gone", "dead"} => failed'[r]
    BY <1>3, <2>3
  <2>8. ~failed'[r] /\ pc'[r] = "done" => completion'[r] # None
    BY <1>4, <2>5
  <2>9. QED
    BY <2>4, <2>6, <2>7, <2>8 DEF OutcomeInv, Combines, Granted
<1>10. \A s \in Req \ {r} : Same(s)
  BY <1>3, <1>4 DEF Same
<1>11. QED
  BY <1>5, <1>6, <1>7, <1>8, <1>9, <1>10, OneRequest DEF RequestInv

\* The outcome is recorded.
LEMMA CompleteStep ==
  ASSUME IInv, NEW r \in Req, Complete(r)
  PROVE  IInv'
<1>1. /\ pc[r] = "complete"
      /\ UNCHANGED <<receipt, effect, schema, asked, state, cancelled, clock, budget>>
  BY DEF Complete
<1>2. MayComplete(r) /\ response[r] # None /\ TypeOK
  BY <1>1, AlwaysCompletes DEF IInv
<1>3. CommitCompletion(r) /\ Leave(r, response[r], "response")
  BY <1>2 DEF Complete
<1>4. response[r] \in Status /\ "response" \in Body
  BY <1>2 DEF TypeOK, Body
<1>5. faults' \in 0 .. MaxFaults /\ failed' = failed /\ failed' \in [Req -> BOOLEAN]
  BY <1>1, <1>2 DEF TypeOK, budget
<1>6. UNCHANGED <<receipt, effect, schema, asked, state, cancelled, clock>>
  BY <1>1
<1>7. QED
  BY <1>1, <1>3, <1>4, <1>5, <1>6, LeaveAfterResponse

\* Its commit fails, whether it is durable or not.
LEMMA CompleteErrorStep ==
  ASSUME IInv, NEW r \in Req, CompleteError(r)
  PROVE  IInv'
<1>1. /\ pc[r] = "complete" /\ Fault("database") /\ Leave(r, 503, "unconfirmed") /\ Fails(r)
      /\ completion' = completion \/ CommitCompletion(r)
      /\ UNCHANGED <<receipt, effect, schema, asked, state, cancelled, clock>>
  BY DEF CompleteError, OutcomeUnconfirmed
<1>2. TypeOK
  BY DEF IInv
<1>3. faults' \in 0 .. MaxFaults /\ failed' \in [Req -> BOOLEAN] /\ failed'[r]
      /\ \A s \in Req \ {r} : failed'[s] = failed[s]
  BY <1>1, <1>2, FaultEffect, FailsEffect
<1>4. 503 \in Status /\ "unconfirmed" \in Body
  BY DEF Status, Body
<1>5. QED
  BY <1>1, <1>3, <1>4, LeaveAfterResponse

\* The schema cannot be read, by the journal or by require_access.
LEMMA ReadinessErrorStep ==
  ASSUME IInv, NEW r \in Req, ReadinessError(r)
  PROVE  IInv'
<1>1. /\ Fault("database")
      /\ UNCHANGED <<journal, effect, schema, asked, issued, decisions, cancelled, clock,
                     failed>>
  BY DEF ReadinessError
<1>2. TypeOK /\ ReceiptInv(r) /\ DecisionInv(r) /\ EffectInv(r) /\ OutcomeInv(r)
  BY DEF IInv
<1>3. faults' \in 0 .. MaxFaults /\ failed' = failed
  BY <1>1, <1>2, FaultEffect
<1>4. CASE /\ pc[r] = "check" /\ flagged' = [flagged EXCEPT ![r] = TRUE]
           /\ Resume(r, "authorize") /\ UNCHANGED <<response, reply>>
  <2>1. /\ pc' \in [Req -> Step] /\ (\A s \in Req \ {r} : pc'[s] = pc[s])
        /\ pc'[r] = IF cancelled[r] THEN "gone" ELSE "authorize"
    BY <1>2, <1>4, ResumeEffect DEF Step, InFlight, InAccess
  <2>2. /\ flagged' \in [Req -> BOOLEAN] /\ (\A s \in Req \ {r} : flagged'[s] = flagged[s])
        /\ flagged'[r]
    BY <1>2, <1>4 DEF TypeOK
  <2>3. TypeOK'
    BY <1>1, <1>2, <1>3, <1>4, <2>1, <2>2 DEF TypeOK, journal
  <2>4. /\ receipt[r] = None /\ issued[r] = None /\ decisions[r] = {} /\ ~effect[r]
        /\ completion[r] = None /\ reply[r] = None
    <3>1. receipt[r] = None /\ issued[r] = None
      BY <1>2, <1>4 DEF ReceiptInv
    <3>2. decisions[r] = {}
      BY <1>2, <1>4 DEF DecisionInv, Undecided
    <3>3. ~effect[r]
      BY <1>2, <1>4 DEF EffectInv
    <3>4. completion[r] = None /\ reply[r] = None
      BY <1>2, <1>4 DEF OutcomeInv
    <3>5. QED
      BY <3>1, <3>2, <3>3, <3>4
  <2>5. /\ receipt'[r] = receipt[r] /\ completion'[r] = completion[r]
        /\ effect'[r] = effect[r] /\ asked'[r] = asked[r] /\ issued'[r] = issued[r]
        /\ decisions'[r] = decisions[r] /\ response'[r] = response[r]
        /\ reply'[r] = reply[r] /\ cancelled'[r] = cancelled[r]
    BY <1>1, <1>4 DEF journal
  <2>6. ReceiptInv(r)'
    BY <1>2, <1>4, <2>1, <2>2, <2>4, <2>5 DEF ReceiptInv
  <2>7. DecisionInv(r)'
    BY <1>2, <2>1, <2>4, <2>5, DecisionsKept
  <2>8. EffectInv(r)'
    BY <1>2, <1>4, <2>1, <2>4, <2>5 DEF EffectInv, Unanswered, Undecided, InHandler
  <2>9. OutcomeInv(r)'
    BY <1>2, <1>3, <2>1, <2>2, <2>4, <2>5 DEF OutcomeInv
  <2>10. \A s \in Req \ {r} : Same(s)
    BY <1>1, <1>4, <2>1, <2>2 DEF Same, journal
  <2>11. QED
    BY <1>3, <2>3, <2>6, <2>7, <2>8, <2>9, <2>10, OneRequest DEF RequestInv
<1>5. CASE pc[r] = "store" /\ Respond(r, 503) /\ UNCHANGED flagged
  <2>1. ~effect[r]
    BY <1>5, PastTheRole
  <2>2. /\ effect' \in [Req -> BOOLEAN] /\ (\A s \in Req \ {r} : effect'[s] = effect[s])
        /\ ~effect'[r]
    BY <1>1, <1>2, <2>1 DEF TypeOK
  <2>3. 503 \in Status \ {401, 403, 404}
    BY DEF Status
  <2>4. UNCHANGED <<journal, schema, asked, flagged, issued, decisions, cancelled, clock>>
    BY <1>1, <1>5
  <2>5. QED
    BY <1>3, <1>5, <2>2, <2>3, <2>4, PlainAnswer
<1>6. QED
  BY <1>4, <1>5 DEF ReadinessError

\* The receipt is not acknowledged.
LEMMA StartErrorStep ==
  ASSUME IInv, NEW r \in Req, StartError(r)
  PROVE  IInv'
<1>1. /\ Fault("database") /\ pc[r] = "start" /\ Leave(r, 503, "not_run")
      /\ Fails(r)
      /\ receipt' \in {receipt, [receipt EXCEPT ![r] = issued[r]]}
      /\ UNCHANGED <<completion, effect, schema, asked, state, cancelled, clock>>
  BY DEF StartError, StartFailed
<1>2. TypeOK /\ ReceiptInv(r) /\ DecisionInv(r) /\ EffectInv(r) /\ OutcomeInv(r)
  BY DEF IInv
<1>3. faults' \in 0 .. MaxFaults /\ failed' \in [Req -> BOOLEAN] /\ failed'[r]
      /\ \A s \in Req \ {r} : failed'[s] = failed[s]
  BY <1>1, <1>2, FaultEffect, FailsEffect
<1>4. 503 \in Status /\ "not_run" \in Body
  BY DEF Status, Body
<1>5. /\ pc' \in [Req -> Step] /\ reply' \in [Req -> Reply \union {None}]
      /\ \A s \in Req \ {r} : pc'[s] = pc[s] /\ reply'[s] = reply[s]
      /\ \/ cancelled[r] /\ pc'[r] = "gone" /\ reply'[r] = reply[r]
         \/ /\ ~cancelled[r] /\ pc'[r] = "done"
            /\ reply'[r] = [status |-> 503, body |-> "not_run"]
  BY <1>1, <1>2, <1>4, LeaveEffect
<1>6. /\ receipt' \in [Req -> Receipt \union {None}]
      /\ \A s \in Req \ {r} : receipt'[s] = receipt[s]
      /\ receipt'[r] # None => receipt'[r] = issued[r]
  BY <1>1, <1>2 DEF TypeOK, ReceiptInv
<1>7. TypeOK'
  BY <1>1, <1>2, <1>3, <1>5, <1>6 DEF TypeOK, state
<1>8. /\ ~effect[r] /\ ~flagged[r] /\ decisions[r] = {}
      /\ completion[r] = None /\ reply[r] = None
  <2>1. ~effect[r]
    BY <1>1, <1>2 DEF EffectInv
  <2>2. decisions[r] = {}
    BY <1>1, <1>2 DEF DecisionInv, Undecided
  <2>3. ~flagged[r]
    BY <1>1, <1>2 DEF ReceiptInv
  <2>4. completion[r] = None /\ reply[r] = None
    BY <1>1, <1>2 DEF OutcomeInv
  <2>5. QED
    BY <2>1, <2>2, <2>3, <2>4
<1>9. /\ completion'[r] = completion[r] /\ flagged'[r] = flagged[r]
      /\ effect'[r] = effect[r] /\ asked'[r] = asked[r] /\ issued'[r] = issued[r]
      /\ decisions'[r] = decisions[r] /\ response'[r] = response[r]
      /\ cancelled'[r] = cancelled[r]
  BY <1>1 DEF state
<1>10. ReceiptInv(r)'
  BY <1>1, <1>2, <1>5, <1>6, <1>8, <1>9 DEF ReceiptInv, InAccess, InHandler
<1>11. DecisionInv(r)'
  BY <1>2, <1>5, <1>8, <1>9, DecisionsKept
<1>12. EffectInv(r)'
  BY <1>5, <1>8, <1>9 DEF EffectInv, Unanswered, Undecided, InHandler
<1>13. OutcomeInv(r)'
  BY <1>3, <1>5, <1>8, <1>9 DEF OutcomeInv
<1>14. \A s \in Req \ {r} : Same(s)
  BY <1>1, <1>3, <1>5, <1>6 DEF Same, state
<1>15. QED
  BY <1>3, <1>7, <1>10, <1>11, <1>12, <1>13, <1>14, OneRequest DEF RequestInv

\* The coroutine is cancelled, or its process dies: a failure, and nothing else.
LEMMA InterruptedStep ==
  ASSUME IInv, NEW r \in Req, Cancel(r) \/ Crash(r)
  PROVE  IInv'
<1>1. /\ pc[r] \in InFlight
      /\ UNCHANGED <<journal, effect, schema, asked, state, reply, clock>>
  BY DEF Cancel, Crash
<1>2. TypeOK /\ ReceiptInv(r) /\ DecisionInv(r) /\ EffectInv(r) /\ OutcomeInv(r)
  BY DEF IInv
<1>3. faults' \in 0 .. MaxFaults /\ failed' \in [Req -> BOOLEAN] /\ failed'[r]
      /\ \A s \in Req \ {r} : failed'[s] = failed[s]
  BY <1>2, FaultEffect, FailsEffect DEF Cancel, Crash
<1>4. /\ pc' \in [Req -> Step] /\ cancelled' \in [Req -> BOOLEAN]
      /\ \A s \in Req \ {r} : pc'[s] = pc[s] /\ cancelled'[s] = cancelled[s]
      /\ pc'[r] \in {pc[r], "dead"}
  BY <1>2 DEF TypeOK, Cancel, Crash, Proceed, Step
<1>5. TypeOK'
  BY <1>1, <1>2, <1>3, <1>4 DEF TypeOK, journal, state
<1>6. /\ receipt'[r] = receipt[r] /\ completion'[r] = completion[r]
      /\ flagged'[r] = flagged[r] /\ effect'[r] = effect[r] /\ asked'[r] = asked[r]
      /\ issued'[r] = issued[r] /\ decisions'[r] = decisions[r]
      /\ response'[r] = response[r] /\ reply'[r] = reply[r]
  BY <1>1 DEF journal, state
<1>7. pc[r] \notin {"idle", "done", "gone", "dead"}
  BY <1>1 DEF InFlight, InAccess, InHandler
<1>8. ReceiptInv(r)'
  BY <1>2, <1>4, <1>6, <1>7 DEF ReceiptInv, InAccess, InHandler
<1>9. DecisionInv(r)'
  <2>1. pc'[r] \notin Undecided \/ decisions[r] = {}
    BY <1>2, <1>4 DEF DecisionInv, Undecided
  <2>2. QED
    BY <1>2, <1>4, <1>6, <2>1, DecisionsKept
<1>10. EffectInv(r)'
  BY <1>2, <1>4, <1>6 DEF EffectInv, Unanswered, Undecided, InHandler
<1>11. OutcomeInv(r)'
  <2>1. completion[r] = None /\ reply[r] = None
    BY <1>2, <1>7 DEF OutcomeInv
  <2>2. QED
    BY <1>3, <1>6, <2>1 DEF OutcomeInv
<1>12. \A s \in Req \ {r} : Same(s)
  BY <1>1, <1>3, <1>4 DEF Same, journal, state
<1>13. QED
  BY <1>3, <1>5, <1>8, <1>9, <1>10, <1>11, <1>12, OneRequest DEF RequestInv

\* The operator and the clock touch no request.
LEMMA WorldStep ==
  ASSUME IInv, Migrate \/ ClockAdvances \/ ClockSetBack
  PROVE  IInv'
<1>1. /\ TypeOK
      /\ UNCHANGED <<journal, effect, pc, asked, state, reply, cancelled, failed>>
  BY DEF IInv, Migrate, ClockAdvances, ClockSetBack, budget
<1>2. faults' \in 0 .. MaxFaults /\ failed' = failed
  <2>1. CASE ClockSetBack
    BY <1>1, <2>1, FaultEffect DEF ClockSetBack
  <2>2. CASE Migrate \/ ClockAdvances
    BY <1>1, <2>2 DEF Migrate, ClockAdvances, TypeOK, budget
  <2>3. QED
    BY <2>1, <2>2
<1>3. clock' \in Time /\ schema' \in BOOLEAN
  <2>1. clock \in 0 .. MaxClock /\ schema \in BOOLEAN /\ MaxClock \in Nat
    BY <1>1, ConstantsAssumption DEF TypeOK, Time
  <2>2. CASE Migrate
    BY <2>1, <2>2 DEF Migrate, Time
  <2>3. CASE ClockAdvances
    BY <2>1, <2>3 DEF ClockAdvances, Time
  <2>4. CASE ClockSetBack
    BY <2>1, <2>4 DEF ClockSetBack, Time
  <2>5. QED
    BY <2>2, <2>3, <2>4
<1>4. TypeOK'
  BY <1>1, <1>2, <1>3 DEF TypeOK, journal, state
<1>5. \A s \in Req : Same(s)
  BY <1>1 DEF Same, journal, state
<1>6. QED
  BY <1>2, <1>4, <1>5, NoRequestStep

\* Every step preserves the inductive invariant.
LEMMA NextIInv == IInv /\ [Next]_vars => IInv'
<1> SUFFICES ASSUME IInv, [Next]_vars PROVE IInv'
  OBVIOUS
<1>1. ASSUME NEW r \in Req, NEW op \in Offered, Arrive(r, op) PROVE IInv'
  BY <1>1, ArriveStep
<1>2. ASSUME NEW r \in Req, RequestStep(r) PROVE IInv'
  BY <1>2, CheckStep, StartStep, AuthorizeStep, StoreReadyStep, AuthorizeExtraStep,
     ActStep, ActedStep, CompleteStep DEF RequestStep
<1>3. ASSUME NEW r \in Req, FaultStep(r) PROVE IInv'
  BY <1>3, ReadinessErrorStep, StartErrorStep, DomainErrorStep, CompleteErrorStep,
     InterruptedStep DEF FaultStep
<1>4. CASE Migrate \/ ClockAdvances \/ ClockSetBack
  BY <1>4, WorldStep
<1>5. CASE UNCHANGED vars
  <2>1. TypeOK'
    BY <1>5 DEF vars, IInv, TypeOK
  <2>2. \A s \in Req : Same(s)
    BY <1>5 DEF vars, Same
  <2>3. QED
    BY <2>1, <2>2, NoRequestStep
<1>6. QED
  BY <1>1, <1>2, <1>3, <1>4, <1>5 DEF Next

-----------------------------------------------------------------------------
(* The theorems *)

\* The inductive invariant holds in every reachable state.
THEOREM Invariance == Spec => []IInv
BY InitIInv, NextIInv, PTL DEF Spec

\* Receipts, completions, answers and the coroutine's data have their types.
THEOREM TypeCorrect == Spec => []TypeOK
<1>1. IInv => TypeOK
  BY DEF IInv
<1>2. QED
  BY <1>1, Invariance, PTL

\* No domain write is committed without a durable receipt (audit/http.py:63-68).
THEOREM ReceiptFirst == Spec => []ReceiptBeforeEffect
<1>1. IInv => ReceiptBeforeEffect
  BY DEF IInv, EffectInv, ReceiptBeforeEffect
<1>2. QED
  BY <1>1, Invariance, PTL

\* Refused requests, and those answered "not run", have no effect.
THEOREM RefusalsAreFinal == Spec => []RefusedNeverActs
<1>1. ASSUME IInv, NEW r \in Req, reply[r] # None,
             reply[r].body = "not_run" \/ reply[r].status \in {401, 403, 404}
      PROVE  ~effect[r]
  <2>1. TypeOK /\ ReceiptInv(r) /\ EffectInv(r) /\ OutcomeInv(r)
    BY <1>1 DEF IInv
  <2>2. effect[r] => receipt[r] # None /\ response[r] \notin {401, 403, 404}
    BY <2>1 DEF EffectInv
  <2>3. flagged[r] => receipt[r] = None
    BY <2>1 DEF ReceiptInv
  <2>4. completion[r] # None => completion[r].status = response[r]
    BY <2>1 DEF OutcomeInv
  <2>5. \/ flagged[r]
        \/ completion[r] # None /\ completion[r].status = reply[r].status
           /\ reply[r].body = "response"
        \/ ~effect[r]
        \/ reply[r].body = "unconfirmed" /\ reply[r].status = 503
    BY <1>1, <2>1 DEF OutcomeInv
  <2>6. QED
    BY <1>1, <2>2, <2>3, <2>4, <2>5
<1>2. IInv => RefusedNeverActs
  BY <1>1 DEF RefusedNeverActs
<1>3. QED
  BY <1>2, Invariance, PTL

\* Whoever acted had every permission, and the record lists exactly those.
THEOREM Authorized == Spec => []EffectsAuthorized
<1>1. ASSUME IInv, NEW r \in Req, effect[r]
      PROVE  /\ Granted(asked[r].role, asked[r].first)
             /\ asked[r].extra # None => Granted(asked[r].role, asked[r].extra)
             /\ completion[r] # None =>
                  completion[r].permissions =
                    {[permission |-> p, granted |-> TRUE] :
                       p \in {asked[r].first, asked[r].extra} \ {None}}
  <2>1. DecisionInv(r) /\ OutcomeInv(r)
    BY <1>1 DEF IInv
  <2>2. /\ \A p \in Needed(asked[r]) : Granted(asked[r].role, p)
        /\ asked[r].first # None
        /\ decisions[r] = AllGranted(Needed(asked[r]))
    BY <1>1, <2>1 DEF DecisionInv
  <2>3. /\ Granted(asked[r].role, asked[r].first)
        /\ asked[r].extra # None => Granted(asked[r].role, asked[r].extra)
    BY <2>2 DEF Needed
  <2>4. completion[r] # None => completion[r].permissions = decisions[r]
    BY <2>1 DEF OutcomeInv
  <2>5. AllGranted(Needed(asked[r])) = {[permission |-> p, granted |-> TRUE] :
                       p \in {asked[r].first, asked[r].extra} \ {None}}
    BY DEF AllGranted, Needed
  <2>6. QED
    BY <2>2, <2>3, <2>4, <2>5
<1>2. IInv => EffectsAuthorized
  BY <1>1 DEF EffectsAuthorized
<1>3. QED
  BY <1>2, Invariance, PTL

\* An endpoint's answer leaves only with its outcome stored (audit/http.py:103-118).
THEOREM Recorded == Spec => []AnswersAreRecorded
<1>1. ASSUME IInv, NEW r \in Req, reply[r] # None, reply[r].body = "response"
      PROVE  \/ /\ flagged[r] /\ receipt[r] = None
                /\ reply[r].status \in {401, 403, 404, 503}
             \/ completion[r] # None /\ completion[r].status = reply[r].status
  <2>1. ReceiptInv(r) /\ OutcomeInv(r)
    BY <1>1 DEF IInv
  <2>2. flagged[r] => receipt[r] = None
    BY <2>1 DEF ReceiptInv
  <2>3. QED
    BY <1>1, <2>1, <2>2 DEF OutcomeInv
<1>2. IInv => AnswersAreRecorded
  BY <1>1 DEF AnswersAreRecorded
<1>3. QED
  BY <1>2, Invariance, PTL

\* No outcome is lost or left unconfirmed unless a journal write of that request or its
\* process failed, or it was cancelled: receipt and completion combine whatever the clock,
\* the role checks, a migration and the other requests do (audit/http.py:107, access.py:25).
THEOREM NothingLost == Spec => []OutcomeLostOnlyByFailure
<1>1. ASSUME IInv, NEW r \in Req, ~failed[r]
      PROVE  /\ reply[r] # None => reply[r].body # "unconfirmed"
             /\ receipt[r] # None /\ completion[r] = None => pc[r] \in InFlight
  <2>1. TypeOK /\ ReceiptInv(r) /\ OutcomeInv(r)
    BY <1>1 DEF IInv
  <2>2. reply[r] # None => reply[r].body # "unconfirmed"
    BY <1>1, <2>1 DEF OutcomeInv
  <2>3. receipt[r] # None => pc[r] # "idle" /\ ~flagged[r]
    BY <2>1 DEF ReceiptInv
  <2>4. pc[r] \notin {"gone", "dead"}
    BY <1>1, <2>1 DEF OutcomeInv
  <2>5. pc[r] = "done" => flagged[r] \/ completion[r] # None
    BY <1>1, <2>1 DEF OutcomeInv
  <2>6. pc[r] \in {"idle", "done", "gone", "dead"} \union InFlight
    BY <2>1 DEF TypeOK, Step
  <2>7. QED
    BY <2>2, <2>3, <2>4, <2>5, <2>6
<1>2. IInv => OutcomeLostOnlyByFailure
  BY <1>1 DEF OutcomeLostOnlyByFailure
<1>3. QED
  BY <1>2, Invariance, PTL

\* Only a request that has neither outcome nor answer may commit.
LEMMA OnlyActingCommits ==
  ASSUME IInv, [Next]_vars, NEW r \in Req, completion[r] # None \/ reply[r] # None
  PROVE  effect'[r] = effect[r]
<1>1. TypeOK /\ OutcomeInv(r)
  BY DEF IInv
<1>2. pc[r] \in {"done", "gone"}
  BY <1>1 DEF OutcomeInv
<1>3. ASSUME NEW q \in Req, Act(q) \/ DomainError(q)
      PROVE  effect'[r] = effect[r]
  <2>1. pc[q] = "act" /\ effect' \in {effect, [effect EXCEPT ![q] = TRUE]}
    BY <1>3 DEF Act, DomainError
  <2>2. q # r
    BY <1>2, <2>1
  <2>3. QED
    BY <1>1, <2>1, <2>2 DEF TypeOK
<1>4. ASSUME NEW q \in Req,
             \/ Check(q) \/ Start(q) \/ Authorize(q) \/ StoreReady(q)
             \/ AuthorizeExtra(q) \/ Acted(q) \/ Complete(q)
             \/ ReadinessError(q) \/ StartError(q) \/ CompleteError(q)
             \/ Cancel(q) \/ Crash(q)
      PROVE  effect' = effect
  BY <1>4 DEF Check, Start, Authorize, StoreReady, AuthorizeExtra, Acted, Complete,
              ReadinessError, StartError, CompleteError, Cancel, Crash
<1>5. ASSUME NEW q \in Req, NEW op \in Offered, Arrive(q, op)
      PROVE  effect' = effect
  BY <1>5 DEF Arrive
<1>6. Migrate \/ ClockAdvances \/ ClockSetBack \/ UNCHANGED vars => effect' = effect
  BY DEF Migrate, ClockAdvances, ClockSetBack, vars
<1>7. QED
  BY <1>3, <1>4, <1>5, <1>6 DEF Next, RequestStep, FaultStep

\* No domain write commits after the outcome of its request was recorded or answered.
THEOREM OutcomeIsLast == Spec => NoEffectAfterOutcome
<1>1. IInv /\ [Next]_vars =>
        [\A r \in Req :
           completion[r] # None \/ reply[r] # None => effect'[r] = effect[r]]_vars
  BY OnlyActingCommits
<1>2. QED
  BY <1>1, Invariance, PTL DEF Spec, NoEffectAfterOutcome
=============================================================================
