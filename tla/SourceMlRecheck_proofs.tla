----------------------- MODULE SourceMlRecheck_proofs -----------------------
(***************************************************************************)
(* Safety of the paired ML recheck for any number of calls, processes,     *)
(* keys and faults: type correctness, at most one run per id, immutable    *)
(* and readable records, and the implementation of AttemptLedger.          *)
(***************************************************************************)
EXTENDS SourceMlRecheck, TLAPS

\* The initial state satisfies the inductive invariant.
LEMMA InitIInv == Init => IInv
<1> SUFFICES ASSUME Init PROVE IInv
  OBVIOUS
<1>1. TypeOK
  BY ConstantsAssumption, NoneAssumption DEF Init, TypeOK, Step, Time
<1>2. RecordsReadable /\ OneOwner
  BY DEF Init, RecordsReadable, OneOwner, Owning
<1>3. \A c \in Call : CallInv(c)
  BY DEF Init, CallInv, Prepared, Owning
<1>4. \A k \in Key : RowInv(k)
  BY DEF Init, RowInv
<1>5. QED
  BY <1>1, <1>2, <1>3, <1>4 DEF IInv

\* Answering keeps the types of the step, the slots and the answers.
LEMMA AnswerTypes ==
  ASSUME TypeOK, NEW c \in Call, NEW code \in Code, NEW view \in View \union {None},
         Answer(c, code, view)
  PROVE  /\ slot' \in [Process -> Call \union {None}]
         /\ pc' \in [Call -> Step]
         /\ reply' \in [Call -> Reply \union {None}]
BY DEF TypeOK, Answer, Goto, Released, Step, Reply

\* So does moving on to another step.
LEMMA GotoTypes ==
  ASSUME TypeOK, NEW c \in Call, NEW s \in Step, Goto(c, s)
  PROVE  pc' \in [Call -> Step]
BY DEF TypeOK, Goto

\* A call beyond its arrival has a key, a process and a request.
LEMMA StartedCall ==
  ASSUME IInv, NEW c \in Call, pc[c] # "idle"
  PROVE  KeyOf(c) \in Key /\ asked[c] \in Request /\ site[c] \in Process
BY DEF IInv, CallInv, KeyOf, Request

\* Every step of a call keeps the types, given what the invariant says of it.
LEMMA CallStepTypes ==
  ASSUME IInv, NEW c \in Call, CallStep(c)
  PROVE  TypeOK'
<1> USE DEF Step, Held, Code, Owning
<1>0. TypeOK /\ CallInv(c)
  BY DEF IInv
<1>1. pc[c] # "idle"
  BY DEF CallStep, Lookup, TakeSlot, Prepare, ReserveRead, ReserveCommit, Raced,
         Reload, Launch, WorkerReturns, Fallback, CompleteRead, CompleteCommit
<1>2. KeyOf(c) \in Key /\ asked[c] \in Request /\ site[c] \in Process
  BY <1>1, StartedCall
<1>3. CASE Lookup(c)
  <2>1. intent[asked[c].key] # None => Stored(asked[c].key) \in View
    BY <1>0, <1>2 DEF TypeOK, Stored, View, KeyOf
  <2>2. /\ slot' \in [Process -> Call \union {None}]
        /\ pc' \in [Call -> Step]
        /\ reply' \in [Call -> Reply \union {None}]
    BY <1>0, <1>3, <2>1, AnswerTypes, GotoTypes DEF Lookup, TypeOK
  <2>3. QED
    BY <1>0, <1>3, <2>2 DEF Lookup, TypeOK, db, local
<1>4. CASE TakeSlot(c)
  <2>1. /\ slot' \in [Process -> Call \union {None}]
        /\ pc' \in [Call -> Step]
        /\ reply' \in [Call -> Reply \union {None}]
    BY <1>0, <1>4, AnswerTypes, GotoTypes DEF TakeSlot, TypeOK
  <2>2. QED
    BY <1>0, <1>4, <2>1 DEF TakeSlot, TypeOK, db, local
<1>5. CASE Prepare(c)
  <2>1. /\ slot' \in [Process -> Call \union {None}]
        /\ pc' \in [Call -> Step]
        /\ reply' \in [Call -> Reply \union {None}]
    BY <1>0, <1>5, AnswerTypes, GotoTypes DEF Prepare, TypeOK
  <2>2. built' \in [Call -> Intent \union {None}]
    BY <1>0, <1>2, <1>5 DEF Prepare, TypeOK, Intent
  <2>3. QED
    BY <1>0, <1>5, <2>1, <2>2 DEF Prepare, TypeOK, db
<1>6. CASE ReserveRead(c)
  <2>1. /\ slot' \in [Process -> Call \union {None}]
        /\ pc' \in [Call -> Step]
        /\ reply' \in [Call -> Reply \union {None}]
    BY <1>0, <1>6, AnswerTypes, GotoTypes DEF ReserveRead, TypeOK
  <2>2. QED
    BY <1>0, <1>6, <2>1 DEF ReserveRead, TypeOK, db, local
<1>7. CASE ReserveCommit(c)
  <2>1. built[c] \in Intent
    BY <1>0, <1>7 DEF ReserveCommit, CallInv, Prepared
  <2>2. pc' \in [Call -> Step]
    BY <1>0, <1>7, GotoTypes DEF ReserveCommit, AfterLostRace
  <2>3. /\ intent' \in [Key -> Intent \union {None}]
        /\ outcome' = outcome
        /\ audit' \in [AuditAction \X Key -> Nat]
    BY <1>0, <1>2, <1>7, <2>1 DEF ReserveCommit, CommitIntent, TypeOK, AuditAction, db
  <2>4. QED
    BY <1>0, <1>7, <2>2, <2>3 DEF ReserveCommit, TypeOK, local
<1>8. CASE Raced(c)
  <2>1. /\ slot' \in [Process -> Call \union {None}]
        /\ pc' \in [Call -> Step]
        /\ reply' \in [Call -> Reply \union {None}]
    BY <1>0, <1>8, AnswerTypes, GotoTypes DEF Raced, TypeOK
  <2>2. QED
    BY <1>0, <1>8, <2>1 DEF Raced, TypeOK, db, local
<1>9. CASE Reload(c)
  <2>1. Stored(KeyOf(c)) \in View
    BY <1>0, <1>2, <1>9 DEF Reload, CallInv, TypeOK, Stored, View
  <2>2. /\ slot' \in [Process -> Call \union {None}]
        /\ pc' \in [Call -> Step]
        /\ reply' \in [Call -> Reply \union {None}]
    BY <1>0, <1>9, <2>1, AnswerTypes DEF Reload
  <2>3. QED
    BY <1>0, <1>9, <2>2 DEF Reload, TypeOK, db, local
<1>10. CASE Launch(c)
  <2>1. pc' \in [Call -> Step]
    BY <1>0, <1>10, GotoTypes DEF Launch
  <2>2. QED
    BY <1>0, <1>2, <1>10, <2>1 DEF Launch, TypeOK, db, local
<1>11. ASSUME NEW ok \in BOOLEAN, WorkerReturns(c, ok)
       PROVE  TypeOK'
  <2>1. pc' \in [Call -> Step]
    BY <1>0, <1>11, GotoTypes DEF WorkerReturns
  <2>2. built[c] \in Intent
    BY <1>0, <1>11 DEF WorkerReturns, CallInv, Prepared
  <2>3. result' \in [Call -> Outcome \union {None}]
    BY <1>0, <1>11, <2>2 DEF WorkerReturns, OutcomeNow, Outcome, TypeOK
  <2>4. QED
    BY <1>0, <1>11, <2>1, <2>3 DEF WorkerReturns, TypeOK, db
<1>12. CASE Fallback(c)
  <2>1. pc' \in [Call -> Step]
    BY <1>0, <1>12, GotoTypes DEF Fallback
  <2>2. built[c] \in Intent
    BY <1>0, <1>12 DEF Fallback, CallInv, Prepared
  <2>3. result' \in [Call -> Outcome \union {None}]
    BY <1>0, <1>12, <2>2 DEF Fallback, OutcomeNow, Outcome, TypeOK
  <2>4. QED
    BY <1>0, <1>12, <2>1, <2>3 DEF Fallback, TypeOK, db
<1>13. CASE CompleteRead(c)
  <2>1. [intent |-> built[c], outcome |-> result[c]] \in View
    BY <1>0, <1>13 DEF CompleteRead, CallInv, Prepared, View
  <2>2. /\ slot' \in [Process -> Call \union {None}]
        /\ pc' \in [Call -> Step]
        /\ reply' \in [Call -> Reply \union {None}]
    BY <1>0, <1>13, <2>1, AnswerTypes, GotoTypes DEF CompleteRead, TypeOK
  <2>3. QED
    BY <1>0, <1>13, <2>2 DEF CompleteRead, TypeOK, db, local
<1>14. CASE CompleteCommit(c)
  <2>1. /\ [intent |-> built[c], outcome |-> result[c]] \in View
        /\ result[c] \in Outcome
    BY <1>0, <1>14 DEF CompleteCommit, CallInv, Prepared, View
  <2>2. /\ slot' \in [Process -> Call \union {None}]
        /\ pc' \in [Call -> Step]
        /\ reply' \in [Call -> Reply \union {None}]
    BY <1>0, <1>14, <2>1, AnswerTypes DEF CompleteCommit
  <2>3. /\ outcome' \in [Key -> Outcome \union {None}]
        /\ intent' = intent
        /\ audit' \in [AuditAction \X Key -> Nat]
    <3>1. CommitOutcome(c) \/ UNCHANGED db
      BY <1>14, Zenon DEF CompleteCommit
    <3>2. QED
      BY <1>0, <1>2, <2>1, <3>1 DEF CommitOutcome, TypeOK, AuditAction, db
  <2>4. QED
    BY <1>0, <1>14, <2>2, <2>3 DEF CompleteCommit, TypeOK, local
<1>15. QED
  BY <1>3, <1>4, <1>5, <1>6, <1>7, <1>8, <1>9, <1>10, <1>11, <1>12, <1>13, <1>14
     DEF CallStep

\* A step that changes no row, no launch count and no stage but that of one call keeps
\* the invariant, if it keeps the invariant of that call and makes it no new owner.
LEMMA QuietStep ==
  ASSUME IInv, TypeOK', NEW c \in Call,
         UNCHANGED <<intent, outcome, ran>>,
         \A d \in Call \ {c} : /\ pc'[d] = pc[d] /\ site'[d] = site[d]
                               /\ asked'[d] = asked[d] /\ built'[d] = built[d]
                               /\ result'[d] = result[d],
         CallInv(c)',
         pc'[c] \in Owning => pc[c] \in Owning /\ asked'[c] = asked[c]
  PROVE  IInv'
<1>1. RecordsReadable'
  BY DEF IInv, RecordsReadable, ReadableIntent, ReadableOutcome
<1>2. OneOwner'
  BY DEF IInv, OneOwner, KeyOf
<1>3. ASSUME NEW d \in Call
      PROVE  CallInv(d)'
  <2>1. CASE d = c
    BY <2>1
  <2>2. CASE d # c
    BY <2>2 DEF IInv, CallInv, KeyOf, ReadableIntent, ReadableOutcome
  <2>3. QED
    BY <2>1, <2>2
<1>4. \A k \in Key : RowInv(k)'
  BY DEF IInv, RowInv
<1>5. QED
  BY <1>1, <1>2, <1>3, <1>4 DEF IInv

\* A call that has answered satisfies its invariant whatever else it knows.
LEMMA AnsweredCall ==
  ASSUME IInv, NEW c \in Call, NEW code, NEW view, Answer(c, code, view),
         pc[c] # "idle", UNCHANGED <<site, asked>>
  PROVE  /\ CallInv(c)'
         /\ pc'[c] = "done"
         /\ \A d \in Call \ {c} : pc'[d] = pc[d]
BY DEF IInv, TypeOK, Answer, Goto, CallInv, Prepared, Owning

\* Arrival.
LEMMA ArriveInv ==
  ASSUME IInv, NEW c \in Call, NEW q \in Process, NEW r \in Offered, Arrive(c, q, r)
  PROVE  IInv'
<1>1. TypeOK'
  BY ConstantsAssumption DEF IInv, TypeOK, Arrive, Goto, Step, Held, db
<1>2. CallInv(c)'
  BY ConstantsAssumption
     DEF IInv, TypeOK, Arrive, Goto, CallInv, Prepared, Owning
<1>3. QED
  BY <1>1, <1>2, QuietStep DEF IInv, TypeOK, Arrive, Goto, db, Owning

\* Inserting the intent: the id was unused, so no call owns it yet.
LEMMA InsertInv ==
  ASSUME IInv, TypeOK', NEW c \in Call, pc[c] = "insert", KeyUnused(intent, KeyOf(c)),
         CommitIntent(c), UNCHANGED <<local, ran>>,
         \A d \in Call \ {c} : pc'[d] = pc[d],
         pc'[c] \in {"execute", "done"}
  PROVE  IInv'
<1> DEFINE k == KeyOf(c)
<1> USE DEF IInv, TypeOK, local
<1>1. k \in Key /\ intent[k] = None /\ outcome[k] = None /\ ran[k] = 0
  BY StartedCall DEF KeyUnused, RowInv
<1>2. /\ built[c] \in Intent /\ built[c] # None /\ ReadableIntent(built[c])
      /\ built[c].request = asked[c]
  BY NoneIsNoRecord DEF CallInv, Prepared, Owning
<1>3. /\ intent'[k] = built[c] /\ outcome' = outcome
      /\ \A j \in Key \ {k} : intent'[j] = intent[j]
  BY <1>1 DEF CommitIntent
<1>4. RecordsReadable'
  BY <1>1, <1>2, <1>3 DEF RecordsReadable, ReadableIntent, ReadableOutcome, KeyOf
<1>5. ASSUME NEW d \in Call, d # c, pc[d] \in Owning
      PROVE  KeyOf(d) # k
  BY <1>1, <1>5, NoneIsNoRecord DEF CallInv, Prepared, Owning
<1>6. OneOwner'
  BY <1>5 DEF OneOwner, KeyOf
<1>7. ASSUME NEW d \in Call
      PROVE  CallInv(d)'
  <2>1. CASE d = c
    BY <1>1, <1>2, <1>3, <2>1
       DEF CallInv, Prepared, Owning, KeyOf, ReadableIntent
  <2>2. CASE d # c /\ pc[d] # "idle"
    <3>1. KeyOf(d) \in Key
      BY <2>2, StartedCall
    <3>2. QED
      BY <1>1, <1>2, <1>3, <1>5, <2>2, <3>1
         DEF CallInv, KeyOf, ReadableIntent, ReadableOutcome
  <2>3. CASE d # c /\ pc[d] = "idle"
    BY <2>3 DEF CallInv, Prepared, Owning
  <2>4. QED
    BY <2>1, <2>2, <2>3
<1>8. \A j \in Key : RowInv(j)'
  BY <1>1, <1>2, <1>3 DEF RowInv
<1>9. QED
  BY <1>4, <1>6, <1>7, <1>8

\* Launching the worker: only the owner of the id does so, and only once.
LEMMA LaunchInv ==
  ASSUME IInv, TypeOK', NEW c \in Call, Launch(c)
  PROVE  IInv'
<1> DEFINE k == KeyOf(c)
<1> USE DEF IInv, TypeOK, local, db, Launch, Goto
<1>1. k \in Key /\ ran[k] = 0 /\ intent[k] # None
  BY StartedCall, NoneIsNoRecord DEF CallInv, Prepared, Owning
<1>2. ran'[k] = 1 /\ \A j \in Key \ {k} : ran'[j] = ran[j]
  BY <1>1
<1>3. RecordsReadable'
  BY DEF RecordsReadable, ReadableIntent, ReadableOutcome
<1>4. OneOwner'
  BY DEF OneOwner, KeyOf, Owning
<1>5. ASSUME NEW d \in Call
      PROVE  CallInv(d)'
  <2>1. CASE d = c
    BY <1>1, <1>2, <2>1 DEF CallInv, Prepared, Owning, KeyOf, ReadableIntent
  <2>2. CASE d # c
    <3>1. pc[d] \in Owning => KeyOf(d) # k /\ KeyOf(d) \in Key
      BY <2>2, StartedCall DEF OneOwner, Owning
    <3>2. QED
      BY <1>2, <2>2, <3>1
         DEF CallInv, KeyOf, Owning, ReadableIntent, ReadableOutcome
  <2>3. QED
    BY <2>1, <2>2
<1>6. \A j \in Key : RowInv(j)'
  BY <1>1, <1>2 DEF RowInv
<1>7. QED
  BY <1>3, <1>4, <1>5, <1>6

\* Adding the outcome: the call owns the id and then gives it up.
LEMMA SettleInv ==
  ASSUME IInv, TypeOK', NEW c \in Call, pc[c] = "commit", CommitOutcome(c),
         UNCHANGED <<local, ran>>,
         \A d \in Call \ {c} : pc'[d] = pc[d],
         pc'[c] = "done"
  PROVE  IInv'
<1> DEFINE k == KeyOf(c)
<1> USE DEF IInv, TypeOK, local
<1>1. /\ k \in Key /\ intent[k] = built[c] /\ intent[k] # None
      /\ result[c] \in Outcome /\ ReadableOutcome(result[c], built[c])
  BY StartedCall, NoneIsNoRecord DEF CallInv, Prepared, Owning
<1>2. /\ outcome'[k] = result[c] /\ intent' = intent
      /\ \A j \in Key \ {k} : outcome'[j] = outcome[j]
  BY <1>1 DEF CommitOutcome
<1>3. RecordsReadable'
  BY <1>1, <1>2 DEF RecordsReadable, ReadableIntent, ReadableOutcome
<1>4. OneOwner'
  BY DEF OneOwner, KeyOf, Owning
<1>5. ASSUME NEW d \in Call
      PROVE  CallInv(d)'
  <2>1. CASE d = c
    BY <1>1, <1>2, <2>1 DEF CallInv, Prepared, Owning
  <2>2. CASE d # c
    <3>1. pc[d] \in Owning => KeyOf(d) # k /\ KeyOf(d) \in Key
      BY <2>2, StartedCall DEF OneOwner, Owning
    <3>2. QED
      BY <1>2, <2>2, <3>1
         DEF CallInv, KeyOf, Owning, ReadableIntent, ReadableOutcome
  <2>3. QED
    BY <2>1, <2>2
<1>6. \A j \in Key : RowInv(j)'
  BY <1>1, <1>2 DEF RowInv
<1>7. QED
  BY <1>3, <1>4, <1>5, <1>6

\* Each step of a handler preserves the inductive invariant.
LEMMA CallStepInv ==
  ASSUME IInv, NEW c \in Call, CallStep(c)
  PROVE  IInv'
<1>1. TypeOK'
  BY CallStepTypes
<1>2. TypeOK /\ CallInv(c)
  BY DEF IInv
<1>3. ASSUME pc[c] # "idle",
             NEW code \in Code, NEW view \in View \union {None}, Answer(c, code, view),
             UNCHANGED <<intent, outcome, ran, site, asked, built, result>>
      PROVE  IInv'
  BY <1>1, <1>3, AnsweredCall, QuietStep DEF Owning
<1>4. ASSUME NEW s \in Step, Goto(c, s), CallInv(c)', s \in Owning => pc[c] \in Owning,
             UNCHANGED <<intent, outcome, ran, site, asked>>,
             \A d \in Call \ {c} : built'[d] = built[d] /\ result'[d] = result[d]
      PROVE  IInv'
  BY <1>1, <1>2, <1>4, QuietStep DEF Goto, TypeOK
<1>5. CASE Lookup(c)
  <2>1. intent[asked[c].key] # None => Stored(asked[c].key) \in View
    BY <1>2, <1>5, StartedCall DEF Lookup, TypeOK, Stored, View, KeyOf
  <2>2. CASE Goto(c, "slot") /\ UNCHANGED <<slot, reply>>
    <3>1. CallInv(c)'
      BY <1>2, <1>5, <2>2
         DEF Lookup, Goto, TypeOK, CallInv, Prepared, Owning, local, db
    <3>2. QED
      BY <1>4, <1>5, <2>2, <3>1 DEF Lookup, Step, Owning, local, db
  <2>3. QED
    BY <1>3, <1>5, <2>1, <2>2 DEF Lookup, Code, local, db
<1>6. CASE TakeSlot(c)
  <2>1. CASE Goto(c, "prepare")
    <3>1. CallInv(c)'
      BY <1>2, <1>6, <2>1
         DEF TakeSlot, Goto, TypeOK, CallInv, Prepared, Owning, local, db
    <3>2. QED
      BY <1>4, <1>6, <2>1, <3>1 DEF TakeSlot, Step, Held, Owning, local, db
  <2>2. QED
    BY <1>3, <1>6, <2>1 DEF TakeSlot, Code, local, db
<1>7. CASE Prepare(c)
  <2>1. CASE Goto(c, "reserve")
    <3>1. built'[c] = [request |-> asked[c], created_at |-> clock] /\ asked[c] \in Request
      BY <1>2, <1>7, <2>1, StartedCall DEF Prepare, TypeOK, Goto, Answer
    <3>2. CallInv(c)'
      BY <1>2, <1>7, <2>1, <3>1
         DEF Prepare, Goto, TypeOK, CallInv, Prepared, Owning, Intent, db
    <3>3. QED
      BY <1>2, <1>4, <1>7, <2>1, <3>2 DEF Prepare, TypeOK, Step, Held, Owning, db
  <2>2. QED
    BY <1>3, <1>7, <2>1 DEF Prepare, Code, db
<1>8. CASE ReserveRead(c)
  <2>1. CASE Goto(c, "reload") /\ intent[KeyOf(c)] # None /\ Same(intent[KeyOf(c)], asked[c])
    <3>1. CallInv(c)'
      BY <1>2, <1>8, <2>1
         DEF ReserveRead, Goto, TypeOK, CallInv, Prepared, Owning, Same, KeyOf, local, db
    <3>2. QED
      BY <1>4, <1>8, <2>1, <3>1 DEF ReserveRead, Step, Held, Owning, local, db
  <2>2. CASE Goto(c, "insert") /\ ReadableIntent(built[c])
    <3>1. CallInv(c)'
      BY <1>2, <1>8, <2>2
         DEF ReserveRead, Goto, TypeOK, CallInv, Prepared, Owning, ReadableIntent,
             local, db
    <3>2. QED
      BY <1>4, <1>8, <2>2, <3>1 DEF ReserveRead, Step, Held, Owning, local, db
  <2>3. QED
    BY <1>3, <1>8, <2>1, <2>2 DEF ReserveRead, Code, local, db
<1>9. CASE ReserveCommit(c)
  <2>1. CASE KeyUnused(intent, KeyOf(c))
    BY <1>1, <1>2, <1>9, <2>1, InsertInv DEF ReserveCommit, Goto, TypeOK, local
  <2>2. CASE ~KeyUnused(intent, KeyOf(c))
    <3>1. CallInv(c)'
      BY <1>2, <1>9, <2>2
         DEF ReserveCommit, AfterLostRace, KeyUnused, Goto, TypeOK, CallInv, Prepared,
             Owning, KeyOf, local, db
    <3>2. QED
      BY <1>4, <1>9, <2>2, <3>1
         DEF ReserveCommit, AfterLostRace, Step, Held, Owning, local, db
  <2>3. QED
    BY <2>1, <2>2
<1>10. CASE Raced(c)
  <2>1. CASE Goto(c, "reload") /\ Same(intent[KeyOf(c)], asked[c])
    <3>1. CallInv(c)'
      BY <1>2, <1>10, <2>1
         DEF Raced, Goto, TypeOK, CallInv, Prepared, Owning, Same, KeyOf, local, db
    <3>2. QED
      BY <1>4, <1>10, <2>1, <3>1 DEF Raced, Step, Held, Owning, local, db
  <2>2. QED
    BY <1>3, <1>10, <2>1 DEF Raced, Code, local, db
<1>11. CASE Reload(c)
  <2>1. Stored(KeyOf(c)) \in View
    BY <1>2, <1>11, StartedCall DEF Reload, CallInv, TypeOK, Stored, View
  <2>2. QED
    BY <1>3, <1>11, <2>1 DEF Reload, Code, local, db
<1>12. CASE Launch(c)
  BY <1>1, <1>12, LaunchInv
<1>13. ASSUME NEW ok \in BOOLEAN, WorkerReturns(c, ok)
       PROVE  IInv'
  <2>1. built[c] \in Intent
    BY <1>2, <1>13 DEF WorkerReturns, CallInv, Prepared, Owning
  <2>2. \E s \in {"complete", "fallback"} : Goto(c, s)
    BY <1>13 DEF WorkerReturns
  <2>3. CallInv(c)'
    BY <1>2, <1>13, <2>1
       DEF WorkerReturns, OutcomeNow, Outcome, Goto, TypeOK, CallInv, Prepared, Owning,
           KeyOf, ReadableIntent, db
  <2>4. QED
    BY <1>2, <1>4, <1>13, <2>2, <2>3 DEF WorkerReturns, TypeOK, Step, Held, Owning, db
<1>14. CASE Fallback(c)
  <2>1. built[c] \in Intent
    BY <1>2, <1>14 DEF Fallback, CallInv, Prepared, Owning
  <2>2. CallInv(c)'
    BY <1>2, <1>14, <2>1
       DEF Fallback, OutcomeNow, Outcome, Goto, TypeOK, CallInv, Prepared, Owning,
           KeyOf, ReadableIntent, db
  <2>3. QED
    BY <1>2, <1>4, <1>14, <2>2 DEF Fallback, TypeOK, Step, Held, Owning, db
<1>15. CASE CompleteRead(c)
  <2>1. [intent |-> built[c], outcome |-> result[c]] \in View
    BY <1>2, <1>15 DEF CompleteRead, CallInv, Prepared, Owning, View
  <2>2. CASE Goto(c, "commit") /\ Accepted(c)
    <3>1. CallInv(c)'
      BY <1>2, <1>15, <2>2
         DEF CompleteRead, Accepted, Goto, TypeOK, CallInv, Prepared, Owning, KeyOf,
             ReadableIntent, ReadableOutcome, local, db
    <3>2. QED
      BY <1>4, <1>15, <2>2, <3>1 DEF CompleteRead, Step, Held, Owning, local, db
  <2>3. QED
    BY <1>3, <1>15, <2>1, <2>2 DEF CompleteRead, Code, local, db
<1>16. CASE CompleteCommit(c)
  <2>1. [intent |-> built[c], outcome |-> result[c]] \in View
    BY <1>2, <1>16 DEF CompleteCommit, CallInv, Prepared, Owning, View
  <2>2. CASE CommitOutcome(c) /\ Answer(c, "created", [intent |-> built[c], outcome |-> result[c]])
    BY <1>1, <1>2, <1>16, <2>1, <2>2, AnsweredCall, SettleInv
       DEF CompleteCommit, Code, local
  <2>3. QED
    BY <1>3, <1>16, <2>1, <2>2 DEF CompleteCommit, Code, local, db
<1>17. QED
  BY <1>5, <1>6, <1>7, <1>8, <1>9, <1>10, <1>11, <1>12, <1>13, <1>14, <1>15, <1>16
     DEF CallStep

\* A fault preserves the invariant: rows stay, the calls it ends own nothing more.
LEMMA FaultInv ==
  ASSUME IInv,
         \/ \E c \in Call : DatabaseError(c) \/ LostCommit(c)
         \/ \E q \in Process : CrashRestart(q)
         \/ ClockAdvances
         \/ ClockSetBack
  PROVE  IInv'
<1>1. TypeOK /\ MaxFaults \in Nat /\ MaxClock \in Nat
  BY ConstantsAssumption DEF IInv
<1>2. ASSUME NEW c \in Call, DatabaseError(c)
      PROVE  IInv'
  <2>1. TypeOK'
    BY <1>1, <1>2, AnswerTypes DEF DatabaseError, FaultLeft, TypeOK, Code, db, local
  <2>2. QED
    BY <1>2, <2>1, AnsweredCall, QuietStep DEF DatabaseError, Code, Owning, db, local
<1>3. ASSUME NEW c \in Call, LostCommit(c)
      PROVE  IInv'
  <2>1. /\ CallInv(c) /\ KeyOf(c) \in Key
        /\ slot' \in [Process -> Call \union {None}]
        /\ pc' \in [Call -> Step]
        /\ reply' \in [Call -> Reply \union {None}]
    BY <1>1, <1>3, AnswerTypes, StartedCall DEF LostCommit, Code, IInv
  <2>2. CASE pc[c] = "insert" /\ KeyUnused(intent, KeyOf(c)) /\ CommitIntent(c)
    <3>1. TypeOK'
      BY <1>1, <1>3, <2>1, <2>2
         DEF LostCommit, FaultLeft, CommitIntent, TypeOK, AuditAction, CallInv, Prepared, local
    <3>2. QED
      BY <1>1, <1>3, <2>2, <3>1, InsertInv DEF LostCommit, Answer, Goto, TypeOK, local
  <2>3. CASE pc[c] = "commit" /\ CommitOutcome(c)
    <3>1. TypeOK'
      BY <1>1, <1>3, <2>1, <2>3
         DEF LostCommit, FaultLeft, CommitOutcome, TypeOK, AuditAction, CallInv, local
    <3>2. QED
      BY <1>1, <1>3, <2>3, <3>1, SettleInv DEF LostCommit, Answer, Goto, TypeOK, local
  <2>4. QED
    BY <1>3, <2>2, <2>3 DEF LostCommit
<1>4. ASSUME NEW q \in Process, CrashRestart(q)
      PROVE  IInv'
  <2>1. TypeOK'
    BY <1>1, <1>4 DEF CrashRestart, FaultLeft, TypeOK, Step, db, local
  <2>2. ASSUME NEW d \in Call
        PROVE  \/ pc'[d] = pc[d]
               \/ pc'[d] = "dead" /\ pc[d] # "idle"
    BY <1>1, <1>4 DEF CrashRestart
  <2>3. RecordsReadable'
    BY <1>4 DEF CrashRestart, IInv, RecordsReadable, ReadableIntent, ReadableOutcome, db
  <2>4. OneOwner'
    BY <1>4, <2>2 DEF CrashRestart, IInv, OneOwner, KeyOf, Owning, local
  <2>5. \A d \in Call : CallInv(d)'
    BY <1>4, <2>2
       DEF CrashRestart, IInv, CallInv, KeyOf, Prepared, Owning, ReadableIntent,
           ReadableOutcome, db, local
  <2>6. \A k \in Key : RowInv(k)'
    BY <1>4 DEF CrashRestart, IInv, RowInv, db
  <2>7. QED
    BY <2>1, <2>3, <2>4, <2>5, <2>6 DEF IInv
<1>5. CASE ClockAdvances \/ ClockSetBack
  <2>1. /\ TypeOK'
        /\ UNCHANGED <<intent, outcome, ran, pc, site, asked, built, result>>
    BY <1>1, <1>5
       DEF ClockAdvances, ClockSetBack, FaultLeft, TypeOK, Time, db, local
  <2>2. RecordsReadable' /\ OneOwner' /\ \A k \in Key : RowInv(k)'
    BY <2>1
       DEF IInv, RecordsReadable, ReadableIntent, ReadableOutcome, OneOwner, KeyOf, RowInv
  <2>3. \A d \in Call : CallInv(d)'
    BY <2>1 DEF IInv, CallInv, KeyOf, ReadableIntent, ReadableOutcome
  <2>4. QED
    BY <2>1, <2>2, <2>3 DEF IInv
<1>6. QED
  BY <1>2, <1>3, <1>4, <1>5

\* The invariant is inductive.
LEMMA NextIInv == IInv /\ [Next]_vars => IInv'
<1> SUFFICES ASSUME IInv, [Next]_vars PROVE IInv'
  OBVIOUS
<1>1. CASE Next
  BY <1>1, ArriveInv, CallStepInv, FaultInv DEF Next
<1>2. CASE UNCHANGED vars
  <2>1. TypeOK' /\ RecordsReadable' /\ OneOwner' /\ \A k \in Key : RowInv(k)'
    BY <1>2
       DEF IInv, TypeOK, RecordsReadable, ReadableIntent, ReadableOutcome, OneOwner, KeyOf,
           RowInv, vars
  <2>2. \A d \in Call : CallInv(d)'
    BY <1>2 DEF IInv, CallInv, KeyOf, ReadableIntent, ReadableOutcome, vars
  <2>3. QED
    BY <2>1, <2>2 DEF IInv
<1>3. QED
  BY <1>1, <1>2

\* The invariant holds in every reachable state.
THEOREM Invariance == Spec => []IInv
BY InitIInv, NextIInv, PTL DEF Spec

\* Type correctness of the recheck protocol.
THEOREM TypeCorrect == Spec => []TypeOK
<1>1. IInv => TypeOK
  BY DEF IInv
<1>2. QED
  BY <1>1, Invariance, PTL

\* The worker of one recheck id is launched at most once, for any number of replicas,
\* calls, crashes and lost acknowledgements.
THEOREM AtMostOnce == Spec => []AtMostOneRun
<1>1. IInv => AtMostOneRun
  BY DEF IInv, RowInv, AtMostOneRun
<1>2. QED
  BY <1>1, Invariance, PTL

\* Every stored row passes the validation of every later read.
THEOREM AlwaysReadable == Spec => []RecordsReadable
<1>1. IInv => RecordsReadable
  BY DEF IInv
<1>2. QED
  BY <1>1, Invariance, PTL

\* What any step does to the durable rows and the launch counts.
LEMMA DurableEffect ==
  ASSUME IInv, [Next]_vars
  PROVE  \/ UNCHANGED <<intent, outcome, audit, ran>>
         \/ \E c \in Call : /\ pc[c] = "insert" /\ KeyUnused(intent, KeyOf(c))
                             /\ CommitIntent(c) /\ UNCHANGED ran
         \/ \E c \in Call : Launch(c)
         \/ \E c \in Call : /\ pc[c] = "commit" /\ KeyUnused(outcome, KeyOf(c))
                             /\ CommitOutcome(c) /\ UNCHANGED ran
<1>1. ASSUME NEW c \in Call, CallStep(c)
      PROVE  \/ UNCHANGED <<intent, outcome, audit, ran>>
             \/ /\ pc[c] = "insert" /\ KeyUnused(intent, KeyOf(c))
                /\ CommitIntent(c) /\ UNCHANGED ran
             \/ Launch(c)
             \/ /\ pc[c] = "commit" /\ KeyUnused(outcome, KeyOf(c))
                /\ CommitOutcome(c) /\ UNCHANGED ran
  <2>1. CASE Lookup(c) \/ TakeSlot(c) \/ Prepare(c) \/ ReserveRead(c) \/ Raced(c)
              \/ Reload(c) \/ Launch(c)
    BY <2>1 DEF Lookup, TakeSlot, Prepare, ReserveRead, Raced, Reload, db
  <2>2. CASE Fallback(c) \/ CompleteRead(c) \/ \E ok \in BOOLEAN : WorkerReturns(c, ok)
    BY <2>2 DEF Fallback, CompleteRead, WorkerReturns, db
  <2>3. CASE ReserveCommit(c)
    BY <2>3 DEF ReserveCommit, db
  <2>4. CASE CompleteCommit(c)
    BY <2>4, Zenon DEF CompleteCommit, db
  <2>5. QED
    BY <1>1, <2>1, <2>2, <2>3, <2>4 DEF CallStep
<1>2. ASSUME NEW c \in Call, NEW q \in Process, NEW r \in Offered, Arrive(c, q, r)
      PROVE  UNCHANGED <<intent, outcome, audit, ran>>
  BY <1>2 DEF Arrive, db
<1>3. ASSUME NEW c \in Call, DatabaseError(c)
      PROVE  UNCHANGED <<intent, outcome, audit, ran>>
  BY <1>3 DEF DatabaseError, db
<1>4. ASSUME NEW c \in Call, LostCommit(c)
      PROVE  \/ /\ pc[c] = "insert" /\ KeyUnused(intent, KeyOf(c))
                /\ CommitIntent(c) /\ UNCHANGED ran
             \/ /\ pc[c] = "commit" /\ KeyUnused(outcome, KeyOf(c))
                /\ CommitOutcome(c) /\ UNCHANGED ran
  BY <1>4 DEF LostCommit
<1>5. CASE (\E q \in Process : CrashRestart(q)) \/ ClockAdvances \/ ClockSetBack
            \/ UNCHANGED vars
  BY <1>5 DEF CrashRestart, ClockAdvances, ClockSetBack, vars, db
<1>6. QED
  BY <1>1, <1>2, <1>3, <1>4, <1>5 DEF Next

\* The key at which a durable step acts, and what the invariant says of it.
LEMMA DurableKey ==
  ASSUME IInv, NEW c \in Call, pc[c] \in {"insert", "execute", "commit"}
  PROVE  /\ KeyOf(c) \in Key /\ asked[c] \in Request
         /\ built[c] \in Intent /\ built[c].request = asked[c]
         /\ pc[c] = "execute" => ran[KeyOf(c)] = 0
         /\ pc[c] = "commit" => ran[KeyOf(c)] = 1 /\ result[c] \in Outcome
         /\ pc[c] # "insert" => intent[KeyOf(c)] # None /\ outcome[KeyOf(c)] = None
BY StartedCall, NoneIsNoRecord DEF IInv, CallInv, Prepared, Owning

\* No step of a handler or fault changes a stored row.
LEMMA RowsStay ==
  ASSUME IInv, [Next]_vars
  PROVE  \A k \in Key : /\ intent[k] # None => intent'[k] = intent[k]
                        /\ outcome[k] # None => outcome'[k] = outcome[k]
<1>1. CASE UNCHANGED <<intent, outcome, audit, ran>>
  BY <1>1
<1>2. ASSUME NEW c \in Call, pc[c] = "insert", KeyUnused(intent, KeyOf(c)), CommitIntent(c)
      PROVE  \A k \in Key : /\ intent[k] # None => intent'[k] = intent[k]
                            /\ outcome[k] # None => outcome'[k] = outcome[k]
  BY <1>2 DEF KeyUnused, CommitIntent, IInv, TypeOK
<1>3. ASSUME NEW c \in Call, Launch(c)
      PROVE  \A k \in Key : /\ intent[k] # None => intent'[k] = intent[k]
                            /\ outcome[k] # None => outcome'[k] = outcome[k]
  BY <1>3 DEF Launch, db
<1>4. ASSUME NEW c \in Call, pc[c] = "commit", KeyUnused(outcome, KeyOf(c)), CommitOutcome(c)
      PROVE  \A k \in Key : /\ intent[k] # None => intent'[k] = intent[k]
                            /\ outcome[k] # None => outcome'[k] = outcome[k]
  BY <1>4 DEF KeyUnused, CommitOutcome, IInv, TypeOK
<1>5. QED
  BY <1>1, <1>2, <1>3, <1>4, DurableEffect

\* A stored intent or outcome is never changed, by any handler or fault.
THEOREM Immutable == Spec => RecordsImmutable
<1>1. ASSUME IInv, [Next]_vars
      PROVE  \A k \in Key : /\ intent[k] # None => intent'[k] = intent[k]
                            /\ outcome[k] # None => outcome'[k] = outcome[k]
  BY <1>1, RowsStay
<1>2. QED
  BY <1>1, Invariance, PTL DEF Spec, RecordsImmutable

\* The workflow implements AttemptLedger: it reserves a name once, runs it at most
\* once and settles it at most once, after the run.
THEOREM Refinement == Spec => LedgerSpec
<1>1. Init => Ledger!Init
  BY DEF Init, Ledger!Init, AttemptState, BoundRequest
<1>2. ASSUME IInv, [Next]_vars
      PROVE  [Ledger!Next]_(Ledger!ledgerVars)
  <2>1. CASE UNCHANGED <<intent, outcome, audit, ran>>
    BY <2>1 DEF Ledger!ledgerVars, AttemptState, BoundRequest
  <2>2. ASSUME NEW c \in Call, pc[c] = "insert", KeyUnused(intent, KeyOf(c)),
               CommitIntent(c), UNCHANGED ran
        PROVE  Ledger!Next
    <3>1. /\ KeyOf(c) \in Key /\ asked[c] \in Request
          /\ built[c] # None /\ built[c].request = asked[c]
          /\ outcome[KeyOf(c)] = None
      BY <1>2, <2>2, DurableKey, NoneIsNoRecord DEF IInv, RowInv, KeyUnused
    <3>2. Ledger!Reserve(KeyOf(c), asked[c])
      BY <1>2, <2>2, <3>1
         DEF Ledger!Reserve, KeyUnused, CommitIntent, IInv, TypeOK, AttemptState, BoundRequest
    <3>3. QED
      BY <3>1, <3>2 DEF Ledger!Next, Ledger!Reserve
  <2>3. ASSUME NEW c \in Call, Launch(c)
        PROVE  Ledger!Next
    <3>1. /\ KeyOf(c) \in Key /\ ran[KeyOf(c)] = 0
          /\ intent[KeyOf(c)] # None /\ outcome[KeyOf(c)] = None
      BY <1>2, <2>3, DurableKey DEF Launch
    <3>2. Ledger!Run(KeyOf(c))
      BY <1>2, <2>3, <3>1
         DEF Ledger!Run, Launch, db, IInv, TypeOK, AttemptState, BoundRequest
    <3>3. QED
      BY <3>1, <3>2 DEF Ledger!Next
  <2>4. ASSUME NEW c \in Call, pc[c] = "commit", KeyUnused(outcome, KeyOf(c)),
               CommitOutcome(c), UNCHANGED ran
        PROVE  Ledger!Next
    <3>1. /\ KeyOf(c) \in Key /\ ran[KeyOf(c)] = 1
          /\ intent[KeyOf(c)] # None /\ outcome[KeyOf(c)] = None
          /\ result[c] # None /\ result[c].status \in {"completed", "failed"}
      BY <1>2, <2>4, DurableKey, NoneIsNoRecord DEF Outcome
    <3>2. Ledger!Settle(KeyOf(c), result[c].status)
      BY <1>2, <2>4, <3>1
         DEF Ledger!Settle, CommitOutcome, IInv, TypeOK, AttemptState, BoundRequest
    <3>3. QED
      BY <3>1, <3>2 DEF Ledger!Next, Ledger!Settle
  <2>5. QED
    BY <1>2, <2>1, <2>2, <2>3, <2>4, DurableEffect
<1>3. QED
  BY <1>1, <1>2, Invariance, PTL DEF Spec, LedgerSpec, Ledger!Spec

-----------------------------------------------------------------------------
(* What was answered, stored, audited and locked agrees *)

\* What an answer may show of the attempt of its caller.
Shows(c, code, view) ==
  /\ view.intent = intent[KeyOf(c)]
  /\ view.intent.request = asked[c]
  /\ view.outcome \in {None, outcome[KeyOf(c)]}
  /\ code = "created" => view.outcome # None

\* Nothing is answered, held, audited or reserved at first.
LEMMA InitTrail == Init => TrailInv
<1> SUFFICES ASSUME Init PROVE TrailInv
  OBVIOUS
<1>1. AuditMatchesRows
  BY DEF Init, AuditMatchesRows, AuditAction
<1>2. AnswersAgree /\ OrphanOnlyAfterFault /\ SlotDiscipline
  BY DEF Init, AnswersAgree, OrphanOnlyAfterFault, SlotDiscipline, Held
<1>3. \A c \in Call : ClockInv(c) /\ (reply[c] # None => pc[c] = "done")
  BY DEF Init, ClockInv, Prepared, Owning
<1>4. QED
  BY <1>1, <1>2, <1>3 DEF TrailInv, TrailAgrees

\* Each row that a step adds comes with its audit row.
LEMMA AuditStep ==
  ASSUME IInv, AuditMatchesRows, [Next]_vars
  PROVE  AuditMatchesRows'
<1> USE DEF AuditMatchesRows, AuditAction
<1>1. CASE UNCHANGED <<intent, outcome, audit, ran>>
  BY <1>1
<1>2. ASSUME NEW c \in Call, pc[c] = "insert", KeyUnused(intent, KeyOf(c)), CommitIntent(c)
      PROVE  AuditMatchesRows'
  <2>1. KeyOf(c) \in Key /\ built[c] # None
    BY <1>2, DurableKey, NoneIsNoRecord
  <2>2. QED
    <3>1. /\ audit'[<<"requested", KeyOf(c)>>] = 1
          /\ \A a \in AuditAction, k \in Key :
               a # "requested" \/ k # KeyOf(c) => audit'[<<a, k>>] = audit[<<a, k>>]
      <4> DEFINE added == <<"requested", KeyOf(c)>>
      <4>1. added \in AuditAction \X Key /\ audit[added] = 0
        BY <1>2, <2>1 DEF KeyUnused
      <4>2. \A row \in AuditAction \X Key :
              audit'[row] = IF row = added THEN audit[row] + 1 ELSE audit[row]
        BY <1>2 DEF CommitIntent, IInv, TypeOK
      <4>3. QED
        BY <4>1, <4>2
    <3>2. ASSUME NEW k \in Key
          PROVE  /\ audit'[<<"requested", k>>] = (IF intent'[k] = None THEN 0 ELSE 1)
                 /\ audit'[<<"completed", k>>] = (IF outcome'[k] = None THEN 0 ELSE 1)
      BY <1>2, <2>1, <3>1 DEF CommitIntent, IInv, TypeOK
    <3>3. QED
      BY <3>2
<1>3. ASSUME NEW c \in Call, Launch(c)
      PROVE  AuditMatchesRows'
  BY <1>3 DEF Launch, db
<1>4. ASSUME NEW c \in Call, pc[c] = "commit", KeyUnused(outcome, KeyOf(c)), CommitOutcome(c)
      PROVE  AuditMatchesRows'
  <2>1. KeyOf(c) \in Key /\ result[c] # None
    BY <1>4, DurableKey, NoneIsNoRecord
  <2>2. QED
    <3>1. /\ audit'[<<"completed", KeyOf(c)>>] = 1
          /\ \A a \in AuditAction, k \in Key :
               a # "completed" \/ k # KeyOf(c) => audit'[<<a, k>>] = audit[<<a, k>>]
      <4> DEFINE added == <<"completed", KeyOf(c)>>
      <4>1. added \in AuditAction \X Key /\ audit[added] = 0
        BY <1>4, <2>1 DEF KeyUnused
      <4>2. \A row \in AuditAction \X Key :
              audit'[row] = IF row = added THEN audit[row] + 1 ELSE audit[row]
        BY <1>4 DEF CommitOutcome, IInv, TypeOK
      <4>3. QED
        BY <4>1, <4>2
    <3>2. ASSUME NEW k \in Key
          PROVE  /\ audit'[<<"requested", k>>] = (IF intent'[k] = None THEN 0 ELSE 1)
                 /\ audit'[<<"completed", k>>] = (IF outcome'[k] = None THEN 0 ELSE 1)
      BY <1>4, <2>1, <3>1 DEF CommitOutcome, IInv, TypeOK
    <3>3. QED
      BY <3>2
<1>5. QED
  BY <1>1, <1>2, <1>3, <1>4, DurableEffect

\* Answering keeps the trail if the answer shows the stored attempt and, unless a fault
\* happened, gives no attempt up.
LEMMA TrailAnswer ==
  ASSUME IInv, IInv', TrailInv, [Next]_vars,
         NEW c \in Call, NEW code \in Code, NEW view \in View \union {None},
         pc[c] # "idle", Answer(c, code, view),
         UNCHANGED <<site, asked, built, result, clock>>,
         faults' \in {faults, faults + 1},
         view # None => Shows(c, code, view)',
         faults' = 0 => /\ pc[c] \in Owning => outcome'[KeyOf(c)] # None
                        /\ intent' = intent
  PROVE  TrailInv'
<1> USE DEF TrailInv, TrailAgrees
<1>1. /\ TypeOK /\ faults \in Nat
      /\ pc' = [pc EXCEPT ![c] = "done"]
      /\ reply' = [reply EXCEPT ![c] = [code |-> code, view |-> view]]
      /\ slot' = [q \in Process |-> IF slot[q] = c THEN None ELSE slot[q]]
  BY ConstantsAssumption DEF IInv, TypeOK, Answer, Goto, Released
<1>2. AuditMatchesRows'
  BY AuditStep
<1>3. AnswersAgree'
  <2> SUFFICES ASSUME NEW d \in Call, reply'[d] # None, reply'[d].view # None
               PROVE  Shows(d, reply[d].code, reply[d].view)'
    BY DEF AnswersAgree, Shows, KeyOf
  <2>1. CASE d = c
    BY <1>1, <2>1 DEF TypeOK, Shows, KeyOf
  <2>2. CASE d # c
    <3>1. /\ reply'[d] = reply[d] /\ pc[d] = "done"
          /\ Shows(d, reply[d].code, reply[d].view)
      BY <1>1, <2>2 DEF TypeOK, AnswersAgree, Shows
    <3>2. KeyOf(d) \in Key /\ intent[KeyOf(d)] # None
      BY <1>1, <2>2, <3>1, StartedCall, NoneIsNoRecord DEF TypeOK, Reply, View, Shows
    <3>3. QED
      BY <3>1, <3>2, RowsStay DEF Shows, KeyOf
  <2>3. QED
    BY <2>1, <2>2
<1>4. OrphanOnlyAfterFault'
  <2> SUFFICES ASSUME NEW k \in Key, intent'[k] # None, outcome'[k] = None, faults' = 0
               PROVE  \E d \in Call : pc'[d] \in Owning /\ KeyOf(d)' = k
    BY <1>1 DEF OrphanOnlyAfterFault
  <2>1. intent[k] # None /\ outcome[k] = None /\ faults = 0
    BY <1>1, RowsStay
  <2>2. PICK d \in Call : pc[d] \in Owning /\ KeyOf(d) = k
    BY <2>1 DEF OrphanOnlyAfterFault
  <2>3. d # c
    BY <2>2
  <2>4. QED
    BY <1>1, <2>2, <2>3 DEF TypeOK, KeyOf
<1>5. SlotDiscipline'
  <2>1. ASSUME NEW q \in Process, slot'[q] # None
        PROVE  site'[slot'[q]] = q /\ pc'[slot'[q]] \in Held
    BY <1>1, <2>1, NoneAssumption DEF SlotDiscipline, TypeOK
  <2>2. ASSUME NEW d \in Call, pc'[d] \in Held
        PROVE  slot'[site'[d]] = d
    BY <1>1, <2>2, StartedCall, NoneAssumption DEF SlotDiscipline, TypeOK, Held
  <2>3. QED
    BY <2>1, <2>2 DEF SlotDiscipline
<1>6. ASSUME NEW d \in Call
      PROVE  ClockInv(d)' /\ (reply'[d] # None => pc'[d] = "done")
  BY <1>1 DEF TypeOK, ClockInv, Prepared, Owning, ReadableOutcome
<1>7. QED
  BY <1>2, <1>3, <1>4, <1>5, <1>6

\* So does moving on, if an owner stays one, whoever inserts becomes one, and the slot
\* is taken by a free process's call only.
LEMMA TrailGoto ==
  ASSUME IInv, IInv', TrailInv, [Next]_vars,
         NEW c \in Call, NEW s \in Held \union {"slot"}, Goto(c, s), pc[c] # "idle",
         UNCHANGED <<reply, site, asked, clock, faults>>,
         \A d \in Call \ {c} : built'[d] = built[d] /\ result'[d] = result[d],
         ClockInv(c)',
         pc[c] \in Owning => s \in Owning,
         intent' = intent \/ (s \in Owning /\ intent' = [intent EXCEPT ![KeyOf(c)] = built[c]]),
         \/ slot' = slot /\ (s \in Held <=> pc[c] \in Held) /\ pc[c] # "done"
         \/ s \in Held /\ SlotFree(site[c]) /\ slot' = [slot EXCEPT ![site[c]] = c]
            /\ pc[c] # "done"
  PROVE  TrailInv'
<1> USE DEF TrailInv, TrailAgrees
<1>1. /\ TypeOK /\ pc' = [pc EXCEPT ![c] = s] /\ site[c] \in Process /\ KeyOf(c) \in Key
  BY StartedCall DEF IInv, Goto
<1>2. AuditMatchesRows'
  BY AuditStep
<1>3. AnswersAgree'
  <2> SUFFICES ASSUME NEW d \in Call, reply'[d] # None, reply'[d].view # None
               PROVE  Shows(d, reply[d].code, reply[d].view)'
    BY DEF AnswersAgree, Shows, KeyOf
  <2>1. /\ pc[d] = "done" /\ Shows(d, reply[d].code, reply[d].view)
    BY DEF AnswersAgree, Shows
  <2>2. KeyOf(d) \in Key /\ intent[KeyOf(d)] # None
    BY <1>1, <2>1, StartedCall, NoneIsNoRecord DEF TypeOK, Reply, View, Shows
  <2>3. QED
    BY <2>1, <2>2, RowsStay DEF Shows, KeyOf
<1>4. OrphanOnlyAfterFault'
  <2> SUFFICES ASSUME NEW k \in Key, intent'[k] # None, outcome'[k] = None, faults = 0
               PROVE  \E d \in Call : pc'[d] \in Owning /\ KeyOf(d)' = k
    BY <1>1, ConstantsAssumption DEF OrphanOnlyAfterFault, TypeOK
  <2>1. CASE intent[k] = None
    BY <1>1, <2>1 DEF TypeOK, KeyOf
  <2>2. CASE intent[k] # None
    <3>1. PICK d \in Call : pc[d] \in Owning /\ KeyOf(d) = k
      BY <2>2, RowsStay DEF OrphanOnlyAfterFault
    <3>2. pc'[d] \in Owning /\ KeyOf(d)' = k
      BY <1>1, <3>1 DEF TypeOK, KeyOf
    <3>3. QED
      BY <3>2
  <2>3. QED
    BY <2>1, <2>2
<1>5. SlotDiscipline'
  <2>1. ASSUME NEW q \in Process, slot'[q] # None
        PROVE  site'[slot'[q]] = q /\ pc'[slot'[q]] \in Held
    BY <1>1, <2>1, NoneAssumption DEF SlotDiscipline, SlotFree, TypeOK
  <2>2. ASSUME NEW d \in Call, pc'[d] \in Held
        PROVE  slot'[site'[d]] = d
    BY <1>1, <2>2, StartedCall, NoneAssumption DEF SlotDiscipline, SlotFree, TypeOK, Held
  <2>3. QED
    BY <2>1, <2>2 DEF SlotDiscipline
<1>6. ASSUME NEW d \in Call
      PROVE  ClockInv(d)' /\ (reply'[d] # None => pc'[d] = "done")
  <2>1. CASE d = c
    BY <1>1, <2>1
  <2>2. CASE d # c
    BY <1>1, <2>2 DEF TypeOK, ClockInv, ReadableOutcome
  <2>3. QED
    BY <2>1, <2>2
<1>7. QED
  BY <1>2, <1>3, <1>4, <1>5, <1>6

\* Each step of a handler keeps the trail.
LEMMA TrailCallStep ==
  ASSUME IInv, IInv', TrailInv, [Next]_vars, NEW c \in Call, CallStep(c)
  PROVE  TrailInv'
<1> USE DEF Owning, Held
<1>1. /\ TypeOK /\ TypeOK' /\ CallInv(c) /\ CallInv(c)' /\ ClockInv(c)
      /\ faults' = faults
  BY DEF IInv, TrailInv, CallStep, Lookup, TakeSlot, Prepare, ReserveRead, ReserveCommit,
         Raced, Reload, Launch, WorkerReturns, Fallback, CompleteRead, CompleteCommit
<1>2. ASSUME pc[c] # "idle", pc[c] \notin Owning,
             NEW code \in Code, NEW view \in View \union {None}, Answer(c, code, view),
             view # None => Shows(c, code, view)',
             UNCHANGED <<intent, site, asked, built, result, clock>>
      PROVE  TrailInv'
  BY <1>1, <1>2, TrailAnswer
<1>3. ASSUME NEW s \in Held \union {"slot"}, Goto(c, s),
             pc[c] \notin {"idle", "done"}, s \in Held <=> pc[c] \in Held,
             pc[c] \in Owning => s \in Owning,
             ClockInv(c)', UNCHANGED <<intent, slot, reply, site, asked, clock>>,
             \A d \in Call \ {c} : built'[d] = built[d] /\ result'[d] = result[d]
      PROVE  TrailInv'
  BY <1>1, <1>3, TrailGoto
<1>4. CASE Lookup(c)
  <2>1. /\ asked[c] \in Request /\ KeyOf(c) \in Key
        /\ intent[KeyOf(c)] # None => Stored(KeyOf(c)) \in View
    BY <1>1, <1>4, StartedCall DEF Lookup, TypeOK, Stored, View
  <2>2. CASE Goto(c, "slot") /\ UNCHANGED <<slot, reply>>
    <3>1. ClockInv(c)'
      BY <1>1, <1>4, <2>2 DEF Lookup, Goto, TypeOK, ClockInv, Prepared
    <3>2. QED
      BY <1>3, <1>4, <2>2, <3>1 DEF Lookup, local, db
  <2>3. CASE \E code \in Code : Answer(c, code, None)
    BY <1>2, <1>4, <2>3 DEF Lookup, local, db
  <2>4. CASE /\ intent[KeyOf(c)] # None /\ Same(intent[KeyOf(c)], asked[c])
             /\ Answer(c, "existing", Stored(KeyOf(c)))
    <3>1. Shows(c, "existing", Stored(KeyOf(c)))'
      BY <1>1, <1>4, <2>4 DEF Lookup, Shows, Same, Stored, KeyOf, local, db
    <3>2. Stored(KeyOf(c))' = Stored(KeyOf(c))
      BY <1>4 DEF Lookup, Stored, KeyOf, local, db
    <3>3. QED
      BY <1>2, <1>4, <2>1, <2>4, <3>1, <3>2 DEF Lookup, Code, local, db
  <2>5. QED
    BY <1>4, <2>2, <2>3, <2>4 DEF Lookup, Code, KeyOf
<1>5. CASE TakeSlot(c)
  <2>1. CASE SlotFree(site[c]) /\ slot' = [slot EXCEPT ![site[c]] = c] /\ Goto(c, "prepare")
             /\ UNCHANGED reply
    <3>1. ClockInv(c)'
      BY <1>1, <1>5, <2>1 DEF TakeSlot, Goto, TypeOK, ClockInv, Prepared
    <3>2. QED
      BY <1>1, <1>5, <2>1, <3>1, TrailGoto DEF TakeSlot, local, db
  <2>2. CASE Answer(c, "busy", None)
    BY <1>2, <1>5, <2>2 DEF TakeSlot, Code, local, db
  <2>3. QED
    BY <1>5, <2>1, <2>2 DEF TakeSlot
<1>6. CASE Prepare(c)
  <2>1. CASE Goto(c, "reserve") /\ UNCHANGED <<slot, reply>>
             /\ built' = [built EXCEPT ![c] = [request |-> asked[c], created_at |-> clock]]
    <3>1. ClockInv(c)'
      BY <1>1, <1>6, <2>1 DEF Prepare, Goto, TypeOK, ClockInv, Prepared, Time
    <3>2. QED
      BY <1>1, <1>3, <1>6, <2>1, <3>1 DEF Prepare, TypeOK, db
  <2>2. CASE (\E code \in Code : Answer(c, code, None)) /\ UNCHANGED built
    BY <1>2, <1>6, <2>2 DEF Prepare, db
  <2>3. QED
    BY <1>6, <2>1, <2>2 DEF Prepare, Code
<1>7. CASE ReserveRead(c)
  <2>1. CASE (Goto(c, "reload") \/ Goto(c, "insert")) /\ UNCHANGED <<slot, reply>>
    <3>1. ClockInv(c)'
      BY <1>1, <1>7, <2>1 DEF ReserveRead, Goto, TypeOK, ClockInv, Prepared, local, db
    <3>2. QED
      BY <1>3, <1>7, <2>1, <3>1 DEF ReserveRead, local, db
  <2>2. CASE \E code \in Code : Answer(c, code, None)
    BY <1>2, <1>7, <2>2 DEF ReserveRead, local, db
  <2>3. QED
    BY <1>7, <2>1, <2>2 DEF ReserveRead, Code
<1>8. CASE ReserveCommit(c)
  <2>1. ClockInv(c)' /\ UNCHANGED <<slot, reply, site, asked, built, result, clock>>
    BY <1>1, <1>8
       DEF ReserveCommit, AfterLostRace, Goto, TypeOK, ClockInv, Prepared, local
  <2>2. CASE CommitIntent(c) /\ Goto(c, "execute")
    BY <1>1, <1>8, <2>1, <2>2, TrailGoto DEF ReserveCommit, CommitIntent
  <2>3. CASE Goto(c, "raced") /\ UNCHANGED db
    BY <1>3, <1>8, <2>1, <2>3 DEF ReserveCommit, db
  <2>4. QED
    BY <1>8, <2>2, <2>3 DEF ReserveCommit, AfterLostRace
<1>9. CASE Raced(c)
  <2>1. CASE Goto(c, "reload") /\ UNCHANGED <<slot, reply>>
    <3>1. ClockInv(c)'
      BY <1>1, <1>9, <2>1 DEF Raced, Goto, TypeOK, ClockInv, Prepared, local, db
    <3>2. QED
      BY <1>3, <1>9, <2>1, <3>1 DEF Raced, local, db
  <2>2. CASE Answer(c, "conflict", None)
    BY <1>2, <1>9, <2>2 DEF Raced, Code, local, db
  <2>3. QED
    BY <1>9, <2>1, <2>2 DEF Raced
<1>10. CASE Reload(c)
  <2>1. /\ Stored(KeyOf(c)) \in View
        /\ Stored(KeyOf(c))' = Stored(KeyOf(c))
        /\ Shows(c, "existing", Stored(KeyOf(c)))'
    BY <1>1, <1>10, StartedCall
       DEF Reload, CallInv, TypeOK, Stored, View, Shows, KeyOf, local, db
  <2>2. QED
    BY <1>2, <1>10, <2>1 DEF Reload, Code, local, db
<1>11. CASE Launch(c)
  <2>1. ClockInv(c)'
    BY <1>1, <1>11 DEF Launch, Goto, TypeOK, ClockInv, Prepared, local, db
  <2>2. QED
    BY <1>3, <1>11, <2>1 DEF Launch, local, db
<1>12. ASSUME NEW ok \in BOOLEAN, WorkerReturns(c, ok)
       PROVE  TrailInv'
  <2>1. ClockInv(c)'
    BY <1>1, <1>12
       DEF WorkerReturns, Goto, TypeOK, ClockInv, Prepared, db
  <2>2. \E s \in {"complete", "fallback"} : Goto(c, s)
    BY <1>12 DEF WorkerReturns
  <2>3. QED
    BY <1>1, <1>3, <1>12, <2>1, <2>2 DEF WorkerReturns, TypeOK, db
<1>13. CASE Fallback(c)
  <2>1. ClockInv(c)'
    BY <1>1, <1>13
       DEF Fallback, OutcomeNow, ReadableOutcome, Goto, TypeOK, ClockInv, CallInv, Prepared,
           Intent, Time, db
  <2>2. QED
    BY <1>1, <1>3, <1>13, <2>1 DEF Fallback, TypeOK, db
<1>14. CASE CompleteRead(c)
  <2>1. /\ intent[KeyOf(c)] = built[c] /\ intent[KeyOf(c)] # None
        /\ outcome[KeyOf(c)] = None /\ result[c] # None
        /\ faults = 0 => Accepted(c)
    BY <1>1, <1>14, NoneIsNoRecord
       DEF CompleteRead, CallInv, Prepared, ClockInv, Accepted
  <2>2. CASE Goto(c, "commit") /\ UNCHANGED <<slot, reply>>
    <3>1. ClockInv(c)'
      BY <1>1, <1>14, <2>2 DEF CompleteRead, Goto, TypeOK, ClockInv, Prepared, local, db
    <3>2. QED
      BY <1>3, <1>14, <2>2, <3>1 DEF CompleteRead, local, db
  <2>3. CASE ~Accepted(c) /\ Answer(c, "unavailable", None)
    <3>1. faults' # 0
      BY <1>1, <2>1, <2>3
    <3>2. QED
      BY <1>1, <1>14, <2>3, <3>1, TrailAnswer DEF CompleteRead, Code, local, db
  <2>4. QED
    BY <1>14, <2>1, <2>2, <2>3 DEF CompleteRead
<1>15. CASE CompleteCommit(c)
  <2> DEFINE view == [intent |-> built[c], outcome |-> result[c]]
  <2>1. /\ intent[KeyOf(c)] = built[c] /\ outcome[KeyOf(c)] = None /\ KeyOf(c) \in Key
        /\ built[c].request = asked[c]
        /\ result[c] # None /\ view \in View
    BY <1>1, <1>15, StartedCall, NoneIsNoRecord DEF CompleteCommit, CallInv, Prepared, View
  <2>2. CommitOutcome(c) /\ Answer(c, "created", view)
    BY <1>15, <2>1 DEF CompleteCommit, KeyUnused
  <2>3. /\ outcome'[KeyOf(c)] = result[c] /\ intent' = intent
        /\ UNCHANGED <<site, asked, built, result, clock>>
    BY <1>1, <1>15, <2>1, <2>2 DEF CompleteCommit, CommitOutcome, TypeOK, local
  <2>4. Shows(c, "created", view)'
    BY <2>1, <2>3 DEF Shows, KeyOf
  <2>5. view' = view
    BY <2>3
  <2>6. QED
    <3> HIDE DEF view
    <3>1. QED
      BY <1>1, <1>15, <2>1, <2>2, <2>3, <2>4, <2>5, TrailAnswer DEF CompleteCommit, Code
<1>16. QED
  BY <1>4, <1>5, <1>6, <1>7, <1>8, <1>9, <1>10, <1>11, <1>12, <1>13, <1>14, <1>15
     DEF CallStep

\* Every other step keeps it: a client arrives, a fault happens or the clock moves.
LEMMA TrailNext == IInv /\ IInv' /\ TrailInv /\ [Next]_vars => TrailInv'
<1> SUFFICES ASSUME IInv, IInv', TrailInv, [Next]_vars PROVE TrailInv'
  OBVIOUS
<1> USE DEF TrailAgrees
<1>1. TypeOK /\ TypeOK' /\ faults \in Nat /\ faults' \in Nat /\ AuditMatchesRows'
  BY ConstantsAssumption, AuditStep DEF IInv, TrailInv, TypeOK
<1>2. ASSUME NEW c \in Call, NEW q \in Process, NEW r \in Offered, Arrive(c, q, r)
      PROVE  TrailInv'
  <2>1. /\ UNCHANGED <<intent, outcome, audit, slot, built, result, reply, clock, faults>>
        /\ pc' = [pc EXCEPT ![c] = "lookup"] /\ pc[c] = "idle" /\ reply[c] = None
        /\ \A d \in Call \ {c} : asked'[d] = asked[d] /\ site'[d] = site[d]
    BY <1>1, <1>2 DEF Arrive, Goto, TrailInv, TypeOK, db
  <2>2. AnswersAgree'
    BY <1>1, <2>1 DEF TrailInv, AnswersAgree, KeyOf, TypeOK
  <2>3. OrphanOnlyAfterFault'
    BY <1>1, <2>1 DEF TrailInv, OrphanOnlyAfterFault, KeyOf, TypeOK, Owning
  <2>4. SlotDiscipline'
    BY <1>1, <2>1, NoneAssumption DEF TrailInv, SlotDiscipline, TypeOK, Held
  <2>5. \A d \in Call : ClockInv(d)' /\ (reply'[d] # None => pc'[d] = "done")
    BY <1>1, <2>1 DEF TrailInv, ClockInv, Prepared, Owning, ReadableOutcome, TypeOK
  <2>6. QED
    BY <1>1, <2>2, <2>3, <2>4, <2>5 DEF TrailInv
<1>3. ASSUME NEW c \in Call, DatabaseError(c) \/ LostCommit(c)
      PROVE  TrailInv'
  <2>1. /\ pc[c] # "idle" /\ Answer(c, "unavailable", None)
        /\ faults' = faults + 1
        /\ UNCHANGED <<site, asked, built, result, clock>>
    BY <1>3 DEF DatabaseError, LostCommit, local
  <2>2. QED
    BY <1>1, <2>1, TrailAnswer DEF Code
<1>4. ASSUME NEW q \in Process, CrashRestart(q)
      PROVE  TrailInv'
  <2>1. /\ UNCHANGED <<intent, outcome, audit, site, asked, built, result, reply, clock>>
        /\ faults' = faults + 1
        /\ slot' = [slot EXCEPT ![q] = None]
        /\ pc' = [c \in Call |->
              IF site[c] = q /\ pc[c] \notin {"idle", "done"} THEN "dead" ELSE pc[c]]
    BY <1>4 DEF CrashRestart, local, db
  <2>2. AnswersAgree'
    BY <2>1 DEF TrailInv, AnswersAgree, KeyOf
  <2>3. OrphanOnlyAfterFault'
    BY <1>1, <2>1 DEF OrphanOnlyAfterFault
  <2>4. SlotDiscipline'
    BY <1>1, <2>1, NoneAssumption DEF TrailInv, SlotDiscipline, TypeOK, Held
  <2>5. \A d \in Call : ClockInv(d)' /\ (reply'[d] # None => pc'[d] = "done")
    BY <1>1, <2>1 DEF TrailInv, ClockInv, TypeOK
  <2>6. QED
    BY <1>1, <2>2, <2>3, <2>4, <2>5 DEF TrailInv
<1>5. CASE ClockAdvances \/ ClockSetBack \/ UNCHANGED vars
  <2>1. /\ UNCHANGED <<intent, outcome, slot, pc, site, asked, built, result, reply>>
        /\ faults' = 0 => faults = 0 /\ clock' >= clock
    BY <1>1, <1>5 DEF ClockAdvances, ClockSetBack, TypeOK, Time, local, db, vars
  <2>2. AnswersAgree' /\ SlotDiscipline'
    BY <2>1 DEF TrailInv, AnswersAgree, SlotDiscipline, KeyOf
  <2>3. OrphanOnlyAfterFault'
    BY <1>1, <2>1 DEF TrailInv, OrphanOnlyAfterFault, KeyOf
  <2>4. ASSUME NEW d \in Call
        PROVE  ClockInv(d)' /\ (reply'[d] # None => pc'[d] = "done")
    <3>1. pc[d] \in Prepared => built[d].created_at \in Int
      BY <1>1 DEF IInv, CallInv, Intent, Time
    <3>2. QED
      BY <1>1, <2>1, <3>1 DEF TrailInv, ClockInv, ReadableOutcome, TypeOK, Time
  <2>5. QED
    BY <1>1, <2>2, <2>3, <2>4 DEF TrailInv
<1>6. QED
  BY <1>2, <1>3, <1>4, <1>5, TrailCallStep DEF Next

\* The audit trail counts exactly the stored rows, every answer shows the stored attempt
\* of its caller, an attempt is abandoned only by a fault, and a worker slot is held by
\* exactly the call that is inside selected_worker.
THEOREM TrailCorrect == Spec => []TrailAgrees
<1>1. TrailInv => TrailAgrees
  BY DEF TrailInv
<1>2. QED
  BY <1>1, InitTrail, TrailNext, Invariance, PTL DEF Spec

=============================================================================
