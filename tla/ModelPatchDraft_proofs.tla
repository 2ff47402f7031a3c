----------------------- MODULE ModelPatchDraft_proofs -----------------------
(***************************************************************************)
(* Safety of the saved local-model drafts for any number of calls,         *)
(* processes, ids and faults: what was told and stored agrees under both   *)
(* protocols, a process asks its model for one call at a time, and the     *)
(* workflow implements AttemptLedger.                                      *)
(***************************************************************************)
EXTENDS ModelPatchDraft, TLAPS

\* The initial state satisfies the inductive invariant.
LEMMA InitIInv == Init => IInv
<1> SUFFICES ASSUME Init PROVE IInv
  OBVIOUS
<1>1. TypeOK
  BY ConstantsAssumption DEF Init, TypeOK, Step, Time
<1>2. DraftsReadable /\ OneOwner /\ LockComesBack
  BY DEF Init, DraftsReadable, OneOwner, Owning, LockComesBack
<1>3. \A c \in Call : CallInv(c)
  BY DEF Init, CallInv, Told, Prepared, Owning, Held
<1>4. \A p \in Patch : RowInv(p)
  BY DEF Init, RowInv
<1>5. QED
  BY <1>1, <1>2, <1>3, <1>4 DEF IInv

\* A call beyond its arrival has an id, a process and a request.
LEMMA StartedCall ==
  ASSUME IInv, NEW c \in Call, pc[c] # "idle"
  PROVE  /\ TypeOK /\ CallInv(c)
         /\ IdOf(c) \in Patch /\ asked[c] \in Request /\ site[c] \in Process
BY DEF IInv, CallInv, IdOf, Request

\* Answering keeps the types of the step, the slots and the answers.
LEMMA AnswerTypes ==
  ASSUME TypeOK, NEW c \in Call, NEW code \in Code, NEW view \in View \union {None},
         Answer(c, code, view)
  PROVE  /\ slot' \in [Process -> Call \union {None}]
         /\ pc' \in [Call -> Step]
         /\ reply' \in [Call -> Reply \union {None}]
BY DEF TypeOK, Answer, Goto, Released, Step, Reply

\* So does moving on to another step.
LEMMA GotoTypes ==
  ASSUME TypeOK, NEW c \in Call, NEW s \in Step, Goto(c, s)
  PROVE  pc' \in [Call -> Step]
BY DEF TypeOK, Goto

\* A call that answers gives its lock back, if it has one, and takes no other.
LEMMA AnswerGivesBack ==
  ASSUME IInv, NEW c \in Call, \E code, view : Answer(c, code, view), site' = site
  PROVE  LockComesBack'
<1>1. TypeOK /\ LockComesBack
  BY DEF IInv
<1>2. ASSUME NEW q \in Process, slot'[q] # None
      PROVE  /\ slot'[q] = slot[q] /\ slot[q] # None /\ slot[q] # c
             /\ pc'[slot[q]] = pc[slot[q]]
  BY <1>1, <1>2 DEF Answer, Goto, Released, TypeOK
<1>3. QED
  BY <1>1, <1>2 DEF LockComesBack

\* A call that goes on keeps its lock until it answers.
LEMMA GotoKeepsLock ==
  ASSUME IInv, NEW c \in Call, NEW s \in Step, Goto(c, s), UNCHANGED <<slot, site>>,
         pc[c] \in Held => s \in Held
  PROVE  LockComesBack'
BY DEF IInv, LockComesBack, Goto, TypeOK

\* A step that writes no row keeps the invariant if it keeps that of its call, makes it
\* no new owner and leaves the slots of the other calls alone.
LEMMA QuietStep ==
  ASSUME IInv, TypeOK', NEW c \in Call,
         UNCHANGED <<draft, drafted, asks>>,
         \A d \in Call \ {c} :
           /\ pc'[d] = pc[d] /\ site'[d] = site[d] /\ asked'[d] = asked[d]
           /\ built'[d] = built[d] /\ result'[d] = result[d] /\ reply'[d] = reply[d]
           /\ pc[d] \in Held => slot'[site[d]] = slot[site[d]],
         CallInv(c)', LockComesBack',
         pc'[c] \in Owning => pc[c] \in Owning /\ asked'[c] = asked[c]
  PROVE  IInv'
<1>1. DraftsReadable'
  BY DEF IInv, DraftsReadable, ReadableDraft, ReadableDrafted
<1>2. OneOwner'
  BY DEF IInv, OneOwner, IdOf
<1>3. ASSUME NEW d \in Call
      PROVE  CallInv(d)'
  <2>1. CASE d = c
    BY <2>1
  <2>2. CASE d # c
    BY <2>2 DEF IInv, CallInv, Told, IdOf, ReadableDraft, ReadableDrafted
  <2>3. QED
    BY <2>1, <2>2
<1>4. \A p \in Patch : RowInv(p)'
  BY DEF IInv, RowInv
<1>5. QED
  BY <1>1, <1>2, <1>3, <1>4 DEF IInv

\* Answering from the stored rows.
LEMMA QuietAnswer ==
  ASSUME IInv, NEW c \in Call, pc[c] # "idle",
         NEW code \in Code, NEW view \in View \union {None}, Answer(c, code, view),
         UNCHANGED <<draft, drafted, asks, local>>,
         clock' \in Time, faults' \in 0 .. MaxFaults,
         view # None => /\ view.intent = draft[IdOf(c)]
                        /\ view.intent.request = asked[c]
                        /\ view.outcome \in {None, drafted[IdOf(c)]}
                        /\ code = "created" => view.outcome # None,
         code = "generation_failed" =>
           drafted[IdOf(c)] # None /\ drafted[IdOf(c)].status = "failed"
  PROVE  IInv'
<1>1. TypeOK /\ CallInv(c) /\ asked[c] \in Request /\ site[c] \in Process
  BY StartedCall
<1>2. TypeOK'
  BY <1>1, AnswerTypes DEF TypeOK, local
<1>3. /\ pc' = [pc EXCEPT ![c] = "done"]
      /\ reply' = [reply EXCEPT ![c] = [code |-> code, view |-> view]]
      /\ slot' = [q \in Process |-> IF slot[q] = c THEN None ELSE slot[q]]
  BY DEF Answer, Goto, Released
<1>4. CallInv(c)'
  BY <1>1, <1>3 DEF TypeOK, CallInv, Told, IdOf, Prepared, Owning, Held, local
<1>5. ASSUME NEW d \in Call \ {c}
      PROVE  /\ pc'[d] = pc[d] /\ reply'[d] = reply[d]
             /\ pc[d] \in Held => slot'[site[d]] = slot[site[d]]
  BY <1>1, <1>3 DEF IInv, CallInv, TypeOK, Held
<1>6. pc'[c] = "done"
  BY <1>1, <1>3 DEF TypeOK
<1>7. LockComesBack'
  BY AnswerGivesBack DEF local
<1>8. QED
  BY <1>2, <1>4, <1>5, <1>6, <1>7, QuietStep DEF Owning, local

\* Moving on without writing.
LEMMA QuietGoto ==
  ASSUME IInv, NEW c \in Call, pc[c] \notin {"idle", "done"}, NEW s \in Step, Goto(c, s),
         UNCHANGED <<draft, drafted, asks, site, asked, reply, clock, faults>>,
         built' \in [Call -> Intent \union {None}],
         result' \in [Call -> Outcome \union {None}],
         \A d \in Call \ {c} : built'[d] = built[d] /\ result'[d] = result[d],
         \/ slot' = slot /\ (pc[c] \in Held => s \in Held)
         \/ /\ slot[site[c]] = None /\ slot' = [slot EXCEPT ![site[c]] = c]
            /\ pc[c] \notin Held /\ s \in Held,
         CallInv(c)',
         s \in Owning => pc[c] \in Owning
  PROVE  IInv'
<1>1. TypeOK /\ CallInv(c) /\ asked[c] \in Request /\ site[c] \in Process
  BY StartedCall
<1>2. TypeOK'
  BY <1>1, GotoTypes DEF TypeOK
<1>3. ASSUME NEW d \in Call \ {c}
      PROVE  /\ pc'[d] = pc[d]
             /\ pc[d] \in Held => slot'[site[d]] = slot[site[d]]
  <2>1. pc[d] \in Held => slot[site[d]] = d /\ site[d] \in Process
    BY DEF IInv, CallInv, Held, Owning
  <2>2. QED
    BY <1>1, <2>1, NoneAssumption DEF Goto, TypeOK
<1>4. pc'[c] = s
  BY <1>1 DEF Goto, TypeOK
<1>5. LockComesBack'
  <2>1. CASE slot' = slot /\ (pc[c] \in Held => s \in Held)
    BY <2>1, GotoKeepsLock
  <2>2. CASE /\ slot' = [slot EXCEPT ![site[c]] = c]
             /\ pc[c] \notin Held /\ s \in Held
    BY <1>1, <1>4, <2>2 DEF IInv, LockComesBack, Goto, TypeOK
  <2>3. QED
    BY <2>1, <2>2
<1>6. QED
  BY <1>2, <1>3, <1>4, <1>5, QuietStep

\* Arrival.
LEMMA ArriveInv ==
  ASSUME IInv, NEW c \in Call, NEW q \in Process, NEW r \in Offered, Arrive(c, q, r)
  PROVE  IInv'
<1>1. TypeOK'
  BY ConstantsAssumption DEF IInv, TypeOK, Arrive, Goto, Step, Held, draftTables
<1>2. CallInv(c)'
  BY ConstantsAssumption, NoneAssumption
     DEF IInv, TypeOK, Arrive, Goto, CallInv, Told, Prepared, Owning, Held, draftTables
<1>3. LockComesBack'
  <2>1. \A p \in Process : slot[p] # None => slot[p] # c
    BY DEF IInv, LockComesBack, Arrive, Held, Owning
  <2>2. QED
    BY <2>1 DEF IInv, TypeOK, LockComesBack, Arrive, Goto
<1>4. QED
  BY <1>1, <1>2, <1>3, QuietStep DEF IInv, TypeOK, Arrive, Goto, draftTables, Owning

\* Whatever call c does, another call keeps what it knows if its rows and its slot stay.
LEMMA OtherCall ==
  ASSUME IInv, NEW c \in Call, NEW d \in Call \ {c},
         UNCHANGED local, pc'[d] = pc[d], reply'[d] = reply[d],
         pc[d] \in Held => slot'[site[d]] = slot[site[d]],
         pc[d] # "idle" => /\ draft[IdOf(d)] # None => draft'[IdOf(d)] = draft[IdOf(d)]
                           /\ drafted[IdOf(d)] # None =>
                                drafted'[IdOf(d)] = drafted[IdOf(d)]
                           /\ pc[d] \in Owning =>
                                /\ drafted'[IdOf(d)] = drafted[IdOf(d)]
                                /\ asks'[IdOf(d)] = asks[IdOf(d)]
  PROVE  CallInv(d)'
<1>1. CASE pc[d] = "idle"
  BY <1>1 DEF IInv, CallInv, Told, Prepared, Owning, Held, local
<1>2. CASE pc[d] # "idle"
  <2>1. /\ IdOf(d) \in Patch /\ CallInv(d)
        /\ draft[IdOf(d)] = None => drafted[IdOf(d)] = None
    BY <1>2, StartedCall DEF IInv, RowInv
  <2>2. reply[d] # None /\ reply[d].view # None => reply[d].view.intent # None
    BY NoneAssumption DEF IInv, TypeOK, Reply, View
  <2>3. built[d] \in Intent => built[d] # None
    BY NoneAssumption
  <2>4. Told(d)'
    BY <1>2, <2>1, <2>2 DEF CallInv, Told, IdOf, local
  <2>5. QED
    BY <1>2, <2>1, <2>3, <2>4
       DEF CallInv, Prepared, Owning, IdOf, ReadableDraft, ReadableDrafted, local
<1>3. QED
  BY <1>1, <1>2

\* What call c does to its step and its slot leaves the others alone.
LEMMA OthersStay ==
  ASSUME IInv, NEW c \in Call, NEW d \in Call \ {c},
         \/ \E code, view : Answer(c, code, view)
         \/ \E s : Goto(c, s) /\ UNCHANGED <<slot, reply>>
  PROVE  /\ pc'[d] = pc[d] /\ reply'[d] = reply[d]
         /\ pc[d] \in Held => slot'[site[d]] = slot[site[d]]
<1>1. TypeOK /\ (pc[d] \in Held => slot[site[d]] = d /\ site[d] \in Process)
  BY DEF IInv, CallInv, Held, Owning
<1>2. QED
  BY <1>1 DEF Answer, Goto, Released, TypeOK

\* Inserting the intent: the id was unused under both protocols, so nobody owns it yet.
LEMMA InsertInv ==
  ASSUME IInv, TypeOK', NEW c \in Call, pc[c] = "insert", KeyUnused(draft, c),
         CommitIntent(c), UNCHANGED <<drafted, local, asks>>,
         \/ Goto(c, "execute") /\ UNCHANGED <<slot, reply>>
         \/ Answer(c, "unavailable", None)
  PROVE  IInv'
<1> DEFINE p == IdOf(c)
<1>1. /\ TypeOK /\ CallInv(c) /\ p \in Patch /\ asked[c] \in Request /\ asked[c].id = p
      /\ site[c] \in Process
      /\ draft[p] = None /\ drafted[p] = None /\ asks[p] = 0
  BY StartedCall DEF IInv, RowInv, KeyUnused, IdOf
<1>2. /\ built[c] \in Intent /\ built[c] # None /\ ReadableDraft(built[c])
      /\ built[c].request = asked[c]
  BY <1>1, NoneAssumption DEF CallInv, Prepared
<1>3. draft'[p] = built[c] /\ \A j \in Patch \ {p} : draft'[j] = draft[j]
  BY <1>1 DEF CommitIntent, TypeOK
<1>4. DraftsReadable'
  BY <1>1, <1>2, <1>3 DEF IInv, DraftsReadable, ReadableDraft, ReadableDrafted
<1>5. ASSUME NEW d \in Call, d # c, pc[d] \in Owning
      PROVE  IdOf(d) # p
  BY <1>1, <1>5, NoneAssumption DEF IInv, CallInv, Prepared, Owning
<1>6. pc' = [pc EXCEPT ![c] = pc'[c]] /\ pc'[c] \in {"execute", "done"}
  BY <1>1 DEF Answer, Goto, TypeOK
<1>7. OneOwner'
  BY <1>1, <1>5, <1>6 DEF IInv, OneOwner, IdOf, Owning, TypeOK, local
<1>8. ASSUME NEW d \in Call
      PROVE  CallInv(d)'
  <2>1. CASE d = c
    <3>1. CASE Answer(c, "unavailable", None)
      BY <1>1, <2>1, <3>1
         DEF Answer, Goto, CallInv, Told, Prepared, Owning, Held, TypeOK, local
    <3>2. CASE Goto(c, "execute") /\ UNCHANGED <<slot, reply>>
      BY <1>1, <1>2, <1>3, <2>1, <3>2
         DEF Goto, CallInv, Told, Prepared, Owning, Held, IdOf, ReadableDraft, TypeOK, local
    <3>3. QED
      BY <3>1, <3>2
  <2>2. CASE d # c
    <3>1. pc[d] # "idle" => IdOf(d) \in Patch
      BY StartedCall
    <3>2. QED
      BY <1>1, <1>3, <2>2, <3>1, OtherCall, OthersStay
  <2>3. QED
    BY <2>1, <2>2
<1>9. \A j \in Patch : RowInv(j)'
  BY <1>1, <1>2, <1>3 DEF IInv, RowInv
<1>10. LockComesBack'
  BY AnswerGivesBack, GotoKeepsLock DEF Held, Owning, Step, local
<1>11. QED
  BY <1>4, <1>7, <1>8, <1>9, <1>10 DEF IInv

\* Asking the provider: only the owner of the id does so, and only once.
LEMMA AskInv ==
  ASSUME IInv, TypeOK', NEW c \in Call, Ask(c)
  PROVE  IInv'
<1> DEFINE p == IdOf(c)
<1> USE DEF Ask
<1>1. /\ TypeOK /\ CallInv(c) /\ p \in Patch /\ asks[p] = 0 /\ draft[p] # None
      /\ UNCHANGED <<draft, drafted, slot, site, asked, built, result, reply>>
      /\ pc' = [pc EXCEPT ![c] = "running"]
  BY StartedCall, NoneAssumption DEF CallInv, Prepared, Owning, Goto, draftTables, local
<1>2. asks'[p] = 1 /\ \A j \in Patch \ {p} : asks'[j] = asks[j]
  BY <1>1 DEF TypeOK
<1>3. DraftsReadable'
  BY <1>1 DEF IInv, DraftsReadable, ReadableDraft, ReadableDrafted
<1>4. OneOwner'
  BY <1>1 DEF IInv, OneOwner, IdOf, Owning, TypeOK
<1>5. ASSUME NEW d \in Call
      PROVE  CallInv(d)'
  <2>1. CASE d = c
    BY <1>1, <1>2, <2>1
       DEF CallInv, Told, Prepared, Owning, Held, IdOf, ReadableDraft, TypeOK
  <2>2. CASE d # c
    <3>1. pc[d] \in Owning => IdOf(d) # p /\ IdOf(d) \in Patch
      BY <2>2, StartedCall DEF IInv, OneOwner, Owning
    <3>2. QED
      BY <1>1, <1>2, <2>2, <3>1, OtherCall DEF TypeOK, local
  <2>3. QED
    BY <2>1, <2>2
<1>6. \A j \in Patch : RowInv(j)'
  BY <1>1, <1>2 DEF IInv, RowInv
<1>7. LockComesBack'
  BY <1>1, GotoKeepsLock DEF Held, Owning, Step
<1>8. QED
  BY <1>3, <1>4, <1>5, <1>6, <1>7 DEF IInv

\* Adding the outcome: the call owns the id, gives it up and tells its client so.
LEMMA SettleInv ==
  ASSUME IInv, TypeOK', NEW c \in Call, pc[c] = "commit", CommitOutcome(c),
         UNCHANGED <<draft, local, asks>>,
         Finish(c) \/ Answer(c, "unavailable", None)
  PROVE  IInv'
<1> DEFINE p == IdOf(c)
<1>1. /\ TypeOK /\ CallInv(c) /\ p \in Patch /\ draft[p] = built[c] /\ draft[p] # None
      /\ built[c].request = asked[c] /\ asked[c] \in Request /\ site[c] \in Process
      /\ result[c] \in Outcome /\ result[c] # None /\ ReadableDrafted(result[c], built[c])
      /\ asks[p] = 1
  BY StartedCall, NoneAssumption DEF CallInv, Prepared, Owning
<1>2. drafted'[p] = result[c] /\ \A j \in Patch \ {p} : drafted'[j] = drafted[j]
  BY <1>1 DEF CommitOutcome, TypeOK
<1>3. DraftsReadable'
  BY <1>1, <1>2 DEF IInv, DraftsReadable, ReadableDraft, ReadableDrafted
<1>4. \E code, view : Answer(c, code, view)
  BY DEF Finish
<1>5. pc' = [pc EXCEPT ![c] = "done"]
  BY <1>4 DEF Answer, Goto
<1>6. OneOwner'
  BY <1>1, <1>5 DEF IInv, OneOwner, IdOf, Owning, TypeOK, local
<1>7. ASSUME NEW d \in Call
      PROVE  CallInv(d)'
  <2>1. CASE d = c
    <3>1. reply'[c] # None => Told(c)'
      BY <1>1, <1>2, <1>5 DEF Finish, Answer, Told, IdOf, TypeOK, local
    <3>2. QED
      BY <1>1, <1>5, <2>1, <3>1 DEF CallInv, Told, Prepared, Owning, Held, TypeOK, local
  <2>2. CASE d # c
    <3>1. /\ pc[d] # "idle" => IdOf(d) \in Patch
          /\ pc[d] \in Owning => IdOf(d) # p
      BY <2>2, StartedCall DEF IInv, OneOwner, Owning
    <3>2. pc[d] # "idle" /\ IdOf(d) = p => drafted[IdOf(d)] = None
      BY DEF IInv, CallInv, Owning
    <3>3. QED
      BY <1>1, <1>2, <1>4, <2>2, <3>1, <3>2, OtherCall, OthersStay
  <2>3. QED
    BY <2>1, <2>2
<1>8. \A j \in Patch : RowInv(j)'
  BY <1>1, <1>2 DEF IInv, RowInv
<1>9. LockComesBack'
  BY <1>4, AnswerGivesBack DEF local
<1>10. QED
  BY <1>3, <1>6, <1>7, <1>8, <1>9 DEF IInv

\* Each step of a handler preserves the inductive invariant.
LEMMA CallStepInv ==
  ASSUME IInv, NEW c \in Call, CallStep(c)
  PROVE  IInv'
<1> USE DEF Step, Held, Owning
<1>1. pc[c] \notin {"idle", "done"}
  BY DEF CallStep, Lookup, TakeSlot, Prepare, ReserveRead, ReserveCommit, Raced, Reload,
         Ask, ProviderReturns, CompleteRead, CompleteCommit
<1>2. /\ TypeOK /\ CallInv(c) /\ asked[c] \in Request /\ site[c] \in Process
      /\ IdOf(c) \in Patch /\ reply[c] = None
  BY <1>1, StartedCall DEF CallInv, Told
<1>3. ASSUME NEW code \in Code \ {"generation_failed"}, Answer(c, code, None),
             UNCHANGED <<draft, drafted, asks, local, clock, faults>>
      PROVE  IInv'
  BY <1>1, <1>2, <1>3, QuietAnswer DEF TypeOK
<1>4. ASSUME draft[IdOf(c)] # None, draft[IdOf(c)].request = asked[c],
             Answer(c, "existing", Saved(IdOf(c))),
             UNCHANGED <<draft, drafted, asks, local, clock, faults>>
      PROVE  IInv'
  <2>1. /\ Saved(IdOf(c)) \in View
        /\ Saved(IdOf(c)).intent = draft[IdOf(c)]
        /\ Saved(IdOf(c)).outcome = drafted[IdOf(c)]
    BY <1>2, <1>4 DEF TypeOK, Saved, View
  <2>2. QED
    BY <1>1, <1>2, <1>4, <2>1, QuietAnswer DEF TypeOK, Code
<1>5. ASSUME NEW s \in Step \ {"idle", "done", "dead"}, Goto(c, s),
             UNCHANGED <<draft, drafted, asks, slot, site, asked, reply, clock, faults>>,
             built' \in [Call -> Intent \union {None}],
             result' \in [Call -> Outcome \union {None}],
             \A d \in Call \ {c} : built'[d] = built[d] /\ result'[d] = result[d],
             CallInv(c)',
             s \in Owning => pc[c] \in Owning, pc[c] \in Held => s \in Held
      PROVE  IInv'
  BY <1>1, <1>5, QuietGoto
<1>6. CASE Lookup(c)
  <2>1. CASE Goto(c, "slot") /\ UNCHANGED <<slot, reply>>
    <3>1. CallInv(c)'
      BY <1>2, <1>6, <2>1
         DEF Lookup, Goto, TypeOK, CallInv, Told, Prepared, local, draftTables
    <3>2. QED
      BY <1>2, <1>5, <1>6, <2>1, <3>1 DEF Lookup, TypeOK, local, draftTables
  <2>2. CASE \E code \in Code \ {"generation_failed"} : Answer(c, code, None)
    BY <1>3, <1>6, <2>2 DEF Lookup, draftTables
  <2>3. CASE /\ draft[IdOf(c)] # None /\ SameIntent(draft[IdOf(c)], asked[c])
             /\ Answer(c, "existing", Saved(IdOf(c)))
    BY <1>4, <1>6, <2>3 DEF Lookup, SameIntent, draftTables
  <2>4. QED
    BY <1>6, <2>1, <2>2, <2>3 DEF Lookup, Code, IdOf
<1>7. CASE TakeSlot(c)
  <2>1. CASE LockFree(c) /\ slot' = [slot EXCEPT ![site[c]] = c] /\ Goto(c, "prepare")
             /\ UNCHANGED reply
    <3>1. CallInv(c)'
      BY <1>2, <1>7, <2>1
         DEF TakeSlot, Goto, TypeOK, CallInv, Told, Prepared, local, draftTables
    <3>2. QED
      BY <1>1, <1>2, <1>7, <2>1, <3>1, QuietGoto
         DEF TakeSlot, LockFree, TypeOK, local, draftTables
  <2>2. CASE \E code \in Code \ {"generation_failed"} : Answer(c, code, None)
    BY <1>3, <1>7, <2>2 DEF TakeSlot, draftTables
  <2>3. QED
    BY <1>7, <2>1, <2>2 DEF TakeSlot, Code
<1>8. CASE Prepare(c)
  <2>1. CASE /\ Goto(c, "reserve") /\ UNCHANGED <<slot, reply>>
             /\ built' = [built EXCEPT ![c] = [request |-> asked[c], created_at |-> clock]]
    <3>1. [request |-> asked[c], created_at |-> clock] \in Intent
      BY <1>2 DEF TypeOK, Intent
    <3>2. CallInv(c)'
      BY <1>2, <1>8, <2>1, <3>1
         DEF Prepare, Goto, TypeOK, CallInv, Told, Prepared, IdOf, draftTables
    <3>3. QED
      BY <1>2, <1>5, <1>8, <2>1, <3>1, <3>2 DEF Prepare, TypeOK, draftTables
  <2>2. CASE UNCHANGED built /\ \E code \in Code \ {"generation_failed"} :
                                    Answer(c, code, None)
    BY <1>3, <1>8, <2>2 DEF Prepare, local, draftTables
  <2>3. QED
    BY <1>8, <2>1, <2>2 DEF Prepare, Code
<1>9. CASE ReserveRead(c)
  <2>1. CASE /\ draft[IdOf(c)] # None /\ SameIntent(draft[IdOf(c)], asked[c])
             /\ Goto(c, "reload") /\ UNCHANGED <<slot, reply>>
    <3>1. CallInv(c)'
      BY <1>2, <1>9, <2>1
         DEF ReserveRead, SameIntent, Goto, TypeOK, CallInv, Told, Prepared, IdOf, local,
             draftTables
    <3>2. QED
      BY <1>2, <1>5, <1>9, <2>1, <3>1 DEF ReserveRead, TypeOK, local, draftTables
  <2>2. CASE ReadableDraft(built[c]) /\ Goto(c, "insert") /\ UNCHANGED <<slot, reply>>
    <3>1. CallInv(c)'
      BY <1>2, <1>9, <2>2
         DEF ReserveRead, Goto, TypeOK, CallInv, Told, Prepared, IdOf, ReadableDraft,
             local, draftTables
    <3>2. QED
      BY <1>2, <1>5, <1>9, <2>2, <3>1 DEF ReserveRead, TypeOK, local, draftTables
  <2>3. CASE \E code \in Code \ {"generation_failed"} : Answer(c, code, None)
    BY <1>3, <1>9, <2>3 DEF ReserveRead, draftTables
  <2>4. QED
    BY <1>9, <2>1, <2>2, <2>3 DEF ReserveRead, Code
<1>10. CASE ReserveCommit(c)
  <2>1. CASE KeyUnused(draft, c) /\ CommitIntent(c) /\ Goto(c, "execute")
    <3>1. built[c] \in Intent
      BY <1>2, <1>10 DEF ReserveCommit, CallInv, Prepared
    <3>2. TypeOK'
      BY <1>2, <1>10, <2>1, <3>1, GotoTypes DEF ReserveCommit, CommitIntent, TypeOK, local
    <3>3. QED
      BY <1>10, <2>1, <3>2, InsertInv DEF ReserveCommit
  <2>2. CASE ~KeyUnused(draft, c) /\ Goto(c, "raced") /\ UNCHANGED draft
    <3>1. CallInv(c)'
      BY <1>2, <1>10, <2>2
         DEF ReserveCommit, KeyUnused, Goto, TypeOK, CallInv, Told, Prepared, IdOf, local
    <3>2. QED
      BY <1>2, <1>5, <1>10, <2>2, <3>1 DEF ReserveCommit, TypeOK, local
  <2>3. QED
    BY <1>10, <2>1, <2>2 DEF ReserveCommit, AfterLostRace
<1>11. CASE Raced(c)
  <2>1. CASE /\ SameIntent(draft[IdOf(c)], asked[c])
             /\ Goto(c, "reload") /\ UNCHANGED <<slot, reply>>
    <3>1. CallInv(c)'
      BY <1>2, <1>11, <2>1
         DEF Raced, SameIntent, Goto, TypeOK, CallInv, Told, Prepared, IdOf, local,
             draftTables
    <3>2. QED
      BY <1>2, <1>5, <1>11, <2>1, <3>1 DEF Raced, TypeOK, local, draftTables
  <2>2. CASE Answer(c, "conflict", None)
    BY <1>3, <1>11, <2>2 DEF Raced, Code, draftTables
  <2>3. QED
    BY <1>11, <2>1, <2>2 DEF Raced
<1>12. CASE Reload(c)
  <2>1. draft[IdOf(c)] # None /\ draft[IdOf(c)].request = asked[c]
    BY <1>2, <1>12 DEF Reload, CallInv
  <2>2. QED
    BY <1>4, <1>12, <2>1 DEF Reload, draftTables
<1>13. CASE Ask(c)
  <2>1. TypeOK'
    BY <1>2, <1>13, GotoTypes DEF Ask, TypeOK, local, draftTables
  <2>2. QED
    BY <1>13, <2>1, AskInv
<1>14. ASSUME NEW status \in Answered, ProviderReturns(c, status)
       PROVE  IInv'
  <2> DEFINE o == [of |-> built[c], protocol |-> asked[c].protocol,
                   completed_at |-> clock, status |-> status]
  <2>1. o \in Outcome
    BY <1>2, <1>14 DEF ProviderReturns, CallInv, Prepared, Outcome, Request, TypeOK
  <2>2. result' = [result EXCEPT ![c] = o] /\ Goto(c, "complete")
    BY <1>14 DEF ProviderReturns, Stamped
  <2> HIDE DEF o
  <2>3. result'[c] \in Outcome
    BY <1>2, <2>1, <2>2 DEF TypeOK
  <2>4. CallInv(c)'
    BY <1>2, <1>14, <2>2, <2>3
       DEF ProviderReturns, Goto, TypeOK, CallInv, Told, Prepared, IdOf, ReadableDraft,
           draftTables
  <2>5. QED
    BY <1>2, <1>5, <1>14, <2>1, <2>2, <2>4 DEF ProviderReturns, TypeOK, draftTables
<1>15. CASE CompleteRead(c)
  <2>1. draft[IdOf(c)] # None /\ drafted[IdOf(c)] = None /\ draft[IdOf(c)] = built[c]
    BY <1>2, <1>15, NoneAssumption DEF CompleteRead, CallInv, Prepared
  <2>2. CASE Accepted(c) /\ Goto(c, "commit") /\ UNCHANGED <<slot, reply>>
    <3>1. CallInv(c)'
      BY <1>2, <1>15, <2>1, <2>2
         DEF CompleteRead, Accepted, Goto, TypeOK, CallInv, Told, Prepared, IdOf,
             ReadableDraft, ReadableDrafted, local, draftTables
    <3>2. QED
      BY <1>2, <1>5, <1>15, <2>2, <3>1 DEF CompleteRead, TypeOK, local, draftTables
  <2>3. CASE Answer(c, "unavailable", None)
    BY <1>3, <1>15, <2>3 DEF CompleteRead, Code, draftTables
  <2>4. QED
    BY <1>15, <2>1, <2>2, <2>3 DEF CompleteRead
<1>16. CASE CompleteCommit(c)
  <2>1. drafted[IdOf(c)] = None /\ result[c] \in Outcome /\ built[c] \in Intent
    BY <1>2, <1>16 DEF CompleteCommit, CallInv, Prepared
  <2>2. CommitOutcome(c) /\ Finish(c)
    BY <1>16, <2>1 DEF CompleteCommit, KeyUnused
  <2>3. \E code \in Code, view \in View \union {None} : Answer(c, code, view)
    BY <2>1, <2>2 DEF Finish, Code, View
  <2>4. TypeOK'
    BY <1>2, <1>16, <2>1, <2>2, <2>3, AnswerTypes
       DEF CompleteCommit, CommitOutcome, TypeOK, local
  <2>5. QED
    BY <1>16, <2>2, <2>4, SettleInv DEF CompleteCommit
<1>17. QED
  BY <1>6, <1>7, <1>8, <1>9, <1>10, <1>11, <1>12, <1>13, <1>14, <1>15, <1>16 DEF CallStep

\* While no call and no row changes, the clock and the count of the faults do not matter.
LEMMA QuietWorld ==
  ASSUME IInv, UNCHANGED draftVars, clock' \in Time, faults' \in 0 .. MaxFaults
  PROVE  IInv'
<1>1. TypeOK'
  BY DEF IInv, TypeOK, draftVars
<1>2. DraftsReadable' /\ OneOwner' /\ LockComesBack' /\ \A p \in Patch : RowInv(p)'
  BY DEF IInv, DraftsReadable, ReadableDraft, ReadableDrafted, OneOwner, IdOf, RowInv,
         LockComesBack, draftVars
<1>3. \A d \in Call : CallInv(d)'
  BY DEF IInv, CallInv, Told, IdOf, ReadableDraft, ReadableDrafted, draftVars
<1>4. QED
  BY <1>1, <1>2, <1>3 DEF IInv

\* So does a fault, and the clock.
LEMMA FaultInv ==
  ASSUME IInv,
         \/ \E c \in Call : DatabaseError(c)
         \/ \E q \in Process : CrashRestart(q)
         \/ ClockAdvances
         \/ ClockSetBack
  PROVE  IInv'
<1>1. TypeOK /\ MaxFaults \in Nat /\ MaxClock \in Nat
  BY ConstantsAssumption DEF IInv
<1>2. ASSUME NEW c \in Call, DatabaseError(c)
      PROVE  IInv'
  <2>1. /\ pc[c] # "idle" /\ CallInv(c) /\ IdOf(c) \in Patch
        /\ Answer(c, "unavailable", None) /\ faults' \in 0 .. MaxFaults
        /\ UNCHANGED <<site, asked, built, result, clock, asks>>
    BY <1>1, <1>2, StartedCall DEF DatabaseError, Fault, TypeOK, local
  <2>2. CASE UNCHANGED draftTables
    BY <1>1, <2>1, <2>2, QuietAnswer DEF TypeOK, Code, local, draftTables
  <2>3. CASE pc[c] = "insert" /\ KeyUnused(draft, c) /\ CommitIntent(c) /\ UNCHANGED drafted
    <3>1. built[c] \in Intent
      BY <2>1, <2>3 DEF CallInv, Prepared
    <3>2. TypeOK'
      BY <1>1, <2>1, <2>3, <3>1, AnswerTypes DEF CommitIntent, TypeOK, Code
    <3>3. QED
      BY <2>1, <2>3, <3>2, InsertInv DEF local
  <2>4. CASE pc[c] = "commit" /\ CommitOutcome(c) /\ UNCHANGED draft
    <3>1. result[c] \in Outcome
      BY <2>1, <2>4 DEF CallInv
    <3>2. TypeOK'
      BY <1>1, <2>1, <2>4, <3>1, AnswerTypes DEF CommitOutcome, TypeOK, Code
    <3>3. QED
      BY <2>1, <2>4, <3>2, SettleInv DEF local
  <2>5. QED
    BY <1>2, <2>2, <2>3, <2>4 DEF DatabaseError
<1>3. ASSUME NEW q \in Process, CrashRestart(q)
      PROVE  IInv'
  <2>1. /\ UNCHANGED <<draft, drafted, asks, site, asked, built, result, reply, clock>>
        /\ slot' = [slot EXCEPT ![q] = None] /\ faults' \in 0 .. MaxFaults
        /\ pc' = [c \in Call |->
              IF site[c] = q /\ pc[c] \notin {"idle", "done"} THEN "dead" ELSE pc[c]]
    BY <1>1, <1>3 DEF CrashRestart, Die, Fault, TypeOK, draftTables, local
  <2>2. TypeOK'
    BY <1>1, <2>1 DEF TypeOK, Step
  <2>3. DraftsReadable'
    BY <2>1 DEF IInv, DraftsReadable, ReadableDraft, ReadableDrafted
  <2>4. OneOwner'
    BY <2>1 DEF IInv, OneOwner, IdOf, Owning
  <2>5. ASSUME NEW d \in Call
        PROVE  CallInv(d)'
    <3>1. CASE pc'[d] = pc[d] /\ (pc[d] \in Held => site[d] # q)
      <4>1. pc[d] \in Held => slot'[site[d]] = slot[site[d]]
        BY <1>1, <2>1, <3>1 DEF TypeOK
      <4>2. QED
        BY <2>1, <3>1, <4>1
           DEF IInv, CallInv, Told, IdOf, ReadableDraft, ReadableDrafted
    <3>2. CASE pc'[d] = "dead" /\ pc[d] \notin {"idle", "done"}
      BY <1>1, <2>1, <3>2 DEF IInv, CallInv, Told, Prepared, Owning, Held
    <3>3. QED
      BY <2>1, <3>1, <3>2 DEF Held
  <2>6. \A p \in Patch : RowInv(p)'
    BY <2>1 DEF IInv, RowInv
  <2>7. LockComesBack'
    BY <1>1, <2>1 DEF IInv, LockComesBack, TypeOK
  <2>8. QED
    BY <2>2, <2>3, <2>4, <2>5, <2>6, <2>7 DEF IInv
<1>4. CASE ClockAdvances \/ ClockSetBack
  <2>1. UNCHANGED draftVars /\ clock' \in Time /\ faults' \in 0 .. MaxFaults
    BY <1>1, <1>4 DEF ClockAdvances, ClockSetBack, Fault, TypeOK, Time
  <2>2. QED
    BY <2>1, QuietWorld
<1>5. QED
  BY <1>2, <1>3, <1>4

\* The invariant is inductive.
LEMMA NextIInv == IInv /\ [Next]_vars => IInv'
<1> SUFFICES ASSUME IInv, [Next]_vars PROVE IInv'
  OBVIOUS
<1>1. CASE Next
  BY <1>1, ArriveInv, CallStepInv, FaultInv DEF Next
<1>2. CASE UNCHANGED vars
  BY <1>2, QuietWorld DEF IInv, TypeOK, vars
<1>3. QED
  BY <1>1, <1>2

\* The invariant holds in every reachable state.
THEOREM Invariance == Spec => []IInv
BY InitIInv, NextIInv, PTL DEF Spec

\* Nobody is told of another protocol's or selection's attempt, all answers for an id show
\* what is stored, a reported failure is stored as one, every row stays readable, and the
\* local model of a process works for one call of either protocol at a time, which gives
\* it back on every path (local_model.py:107).
THEOREM Agreement == Spec => []DraftsAgree
<1>1. ASSUME IInv PROVE DraftsAgree
  <2>1. AnswersAgree /\ FailureIsStored
    BY <1>1 DEF IInv, CallInv, Told, AnswersAgree, FailureIsStored
  <2>2. OneProviderCall
    BY <1>1 DEF IInv, CallInv, Held, OneProviderCall
  <2>3. QED
    BY <1>1, <2>1, <2>2 DEF IInv, DraftsAgree
<1>2. QED
  BY <1>1, Invariance, PTL

\* What any step does to the rows and to the count of the provider's calls.
LEMMA DurableEffect ==
  ASSUME IInv, [Next]_vars
  PROVE  \/ UNCHANGED <<draft, drafted, asks>>
         \/ \E c \in Call : /\ pc[c] = "insert" /\ KeyUnused(draft, c) /\ CommitIntent(c)
                             /\ UNCHANGED <<drafted, asks>>
         \/ \E c \in Call : Ask(c)
         \/ \E c \in Call : /\ pc[c] = "commit" /\ CommitOutcome(c)
                             /\ UNCHANGED <<draft, asks>>
<1>1. ASSUME NEW c \in Call, CallStep(c)
      PROVE  \/ UNCHANGED <<draft, drafted, asks>>
             \/ /\ pc[c] = "insert" /\ KeyUnused(draft, c) /\ CommitIntent(c)
                /\ UNCHANGED <<drafted, asks>>
             \/ Ask(c)
             \/ pc[c] = "commit" /\ CommitOutcome(c) /\ UNCHANGED <<draft, asks>>
  <2>1. CASE Lookup(c) \/ TakeSlot(c) \/ Prepare(c) \/ ReserveRead(c) \/ Raced(c)
              \/ Reload(c) \/ Ask(c)
    BY <2>1 DEF Lookup, TakeSlot, Prepare, ReserveRead, Raced, Reload, draftTables
  <2>2. CASE CompleteRead(c) \/ \E status \in Answered : ProviderReturns(c, status)
    BY <2>2 DEF CompleteRead, ProviderReturns, draftTables
  <2>3. CASE ReserveCommit(c)
    BY <2>3 DEF ReserveCommit
  <2>4. CASE CompleteCommit(c)
    BY <2>4, Zenon DEF CompleteCommit
  <2>5. QED
    BY <1>1, <2>1, <2>2, <2>3, <2>4 DEF CallStep
<1>2. ASSUME NEW c \in Call, DatabaseError(c)
      PROVE  \/ UNCHANGED <<draft, drafted, asks>>
             \/ /\ pc[c] = "insert" /\ KeyUnused(draft, c) /\ CommitIntent(c)
                /\ UNCHANGED <<drafted, asks>>
             \/ pc[c] = "commit" /\ CommitOutcome(c) /\ UNCHANGED <<draft, asks>>
  BY <1>2 DEF DatabaseError, draftTables
<1>3. ASSUME NEW c \in Call, NEW q \in Process, NEW r \in Offered, Arrive(c, q, r)
      PROVE  UNCHANGED <<draft, drafted, asks>>
  BY <1>3 DEF Arrive, draftTables
<1>4. CASE (\E q \in Process : CrashRestart(q)) \/ ClockAdvances \/ ClockSetBack
            \/ UNCHANGED vars
  BY <1>4 DEF CrashRestart, Die, ClockAdvances, ClockSetBack, vars, draftVars, draftTables
<1>5. QED
  BY <1>1, <1>2, <1>3, <1>4 DEF Next

\* A row that is there is never touched again.
LEMMA RowsStay ==
  ASSUME IInv, [Next]_vars, NEW p \in Patch
  PROVE  /\ draft[p] # None => draft'[p] = draft[p]
         /\ drafted[p] # None => drafted'[p] = drafted[p]
<1>1. ASSUME NEW c \in Call, pc[c] = "insert", KeyUnused(draft, c), CommitIntent(c)
      PROVE  draft[p] # None => draft'[p] = draft[p]
  BY <1>1 DEF IInv, TypeOK, KeyUnused, CommitIntent
<1>2. ASSUME NEW c \in Call, pc[c] = "commit", CommitOutcome(c)
      PROVE  drafted[p] # None => drafted'[p] = drafted[p]
  BY <1>2 DEF IInv, TypeOK, CallInv, Owning, CommitOutcome
<1>3. ASSUME NEW c \in Call, Ask(c)
      PROVE  UNCHANGED draftTables
  BY <1>3 DEF Ask
<1>4. QED
  BY <1>1, <1>2, <1>3, DurableEffect DEF draftTables

\* The workflow implements AttemptLedger: over both protocols an id is bound once, asked
\* for at most once and settled at most once, afterwards.
THEOREM Refinement == Spec => LedgerSpec
<1>1. Init => Ledger!Init
  BY DEF Init, Ledger!Init, AttemptState
<1>2. ASSUME IInv, [Next]_vars
      PROVE  [Ledger!Next]_(Ledger!ledgerVars)
  <2>1. CASE UNCHANGED <<draft, drafted, asks>>
    BY <2>1 DEF Ledger!ledgerVars, AttemptState
  <2>2. ASSUME NEW c \in Call, pc[c] = "insert", KeyUnused(draft, c), CommitIntent(c),
               UNCHANGED <<drafted, asks>>
        PROVE  Ledger!Next
    <3>1. /\ IdOf(c) \in Patch /\ asked[c] \in Request /\ draft[IdOf(c)] = None
          /\ built[c] # None /\ built[c].request = asked[c]
          /\ drafted[IdOf(c)] = None
      BY <1>2, <2>2, StartedCall, NoneAssumption DEF IInv, RowInv, CallInv, Prepared, KeyUnused
    <3>2. Ledger!Reserve(IdOf(c), asked[c])
      BY <1>2, <2>2, <3>1 DEF Ledger!Reserve, CommitIntent, IInv, TypeOK, AttemptState
    <3>3. QED
      BY <3>1, <3>2 DEF Ledger!Next, Ledger!Reserve
  <2>3. ASSUME NEW c \in Call, Ask(c)
        PROVE  Ledger!Next
    <3>1. /\ IdOf(c) \in Patch /\ asks[IdOf(c)] = 0
          /\ draft[IdOf(c)] # None /\ drafted[IdOf(c)] = None
      BY <1>2, <2>3, StartedCall, NoneAssumption DEF Ask, CallInv, Prepared, Owning
    <3>2. Ledger!Run(IdOf(c))
      BY <1>2, <2>3, <3>1 DEF Ledger!Run, Ask, draftTables, IInv, TypeOK, AttemptState
    <3>3. QED
      BY <3>1, <3>2 DEF Ledger!Next
  <2>4. ASSUME NEW c \in Call, pc[c] = "commit", CommitOutcome(c), UNCHANGED <<draft, asks>>
        PROVE  Ledger!Next
    <3> DEFINE s == IF result[c].status = "failed" THEN "failed" ELSE "completed"
    <3>1. /\ IdOf(c) \in Patch /\ asks[IdOf(c)] = 1
          /\ draft[IdOf(c)] # None /\ drafted[IdOf(c)] = None
          /\ result[c] # None
      BY <1>2, <2>4, StartedCall, NoneAssumption DEF CallInv, Prepared, Owning
    <3>2. Ledger!Settle(IdOf(c), s)
      BY <1>2, <2>4, <3>1 DEF Ledger!Settle, CommitOutcome, IInv, TypeOK, AttemptState
    <3>3. QED
      BY <3>1, <3>2 DEF Ledger!Next, Ledger!Settle
  <2>5. QED
    BY <1>2, <2>1, <2>2, <2>3, <2>4, DurableEffect
<1>3. QED
  BY <1>1, <1>2, Invariance, PTL DEF Spec, LedgerSpec, Ledger!Spec

=============================================================================
