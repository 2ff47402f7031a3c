---------------------- MODULE ModelPatchReview_proofs ----------------------
(***************************************************************************)
(* Safety of the reviews of model patches and of the decisions about them, *)
(* for any number of calls, reviewers, engineers, processes and faults:    *)
(* the chain of records stays readable, an approval stays justified, and   *)
(* the reviews implement AttemptLedger.  What the drafts do meanwhile is   *)
(* taken from ModelPatchDraft_proofs.                                      *)
(***************************************************************************)
EXTENDS ModelPatchReview, TLAPS

DraftProofs == INSTANCE ModelPatchDraft_proofs

-----------------------------------------------------------------------------
(* The drafts *)

\* Both instances of ModelPatchDraft have the same variables and say the same.
LEMMA SameDrafts ==
  /\ Drafts!Init <=> DraftProofs!Init
  /\ Drafts!Next <=> DraftProofs!Next
  /\ Drafts!vars = DraftProofs!vars
  /\ Drafts!vars' = DraftProofs!vars'
  /\ Drafts!IInv <=> DraftProofs!IInv
  /\ Drafts!IInv' <=> DraftProofs!IInv'
BY DEF
  Drafts!Time, DraftProofs!Time, Drafts!Protocol, DraftProofs!Protocol,
  Drafts!Request, DraftProofs!Request, Drafts!SelectedFacts,
  DraftProofs!SelectedFacts, Drafts!Intent, DraftProofs!Intent, Drafts!Answered,
  DraftProofs!Answered, Drafts!Outcome, DraftProofs!Outcome, Drafts!View,
  DraftProofs!View, Drafts!Code, DraftProofs!Code, Drafts!Reply, DraftProofs!Reply,
  Drafts!Held, DraftProofs!Held, Drafts!Owning, DraftProofs!Owning, Drafts!Step,
  DraftProofs!Step, Drafts!draftTables, DraftProofs!draftTables, Drafts!local,
  DraftProofs!local, Drafts!draftVars, DraftProofs!draftVars, Drafts!vars,
  DraftProofs!vars, Drafts!Init, DraftProofs!Init, Drafts!IdOf, DraftProofs!IdOf,
  Drafts!Saved, DraftProofs!Saved, Drafts!Goto, DraftProofs!Goto, Drafts!Released,
  DraftProofs!Released, Drafts!Answer, DraftProofs!Answer, Drafts!SameIntent,
  DraftProofs!SameIntent, Drafts!ReadableDraft, DraftProofs!ReadableDraft,
  Drafts!ReadableDrafted, DraftProofs!ReadableDrafted, Drafts!Arrive,
  DraftProofs!Arrive, Drafts!Lookup, DraftProofs!Lookup, Drafts!LockFree,
  DraftProofs!LockFree, Drafts!TakeSlot, DraftProofs!TakeSlot, Drafts!Prepare,
  DraftProofs!Prepare, Drafts!ReserveRead, DraftProofs!ReserveRead,
  Drafts!CommitIntent, DraftProofs!CommitIntent, Drafts!KeyUnused,
  DraftProofs!KeyUnused, Drafts!AfterLostRace, DraftProofs!AfterLostRace,
  Drafts!ReserveCommit, DraftProofs!ReserveCommit, Drafts!Raced, DraftProofs!Raced,
  Drafts!Reload, DraftProofs!Reload, Drafts!Ask, DraftProofs!Ask, Drafts!Stamped,
  DraftProofs!Stamped, Drafts!ProviderReturns, DraftProofs!ProviderReturns,
  Drafts!Finish, DraftProofs!Finish, Drafts!Accepted, DraftProofs!Accepted,
  Drafts!CompleteRead, DraftProofs!CompleteRead, Drafts!CommitOutcome,
  DraftProofs!CommitOutcome, Drafts!CompleteCommit, DraftProofs!CompleteCommit,
  Drafts!Fault, DraftProofs!Fault, Drafts!DatabaseError, DraftProofs!DatabaseError,
  Drafts!Die, DraftProofs!Die, Drafts!CrashRestart, DraftProofs!CrashRestart,
  Drafts!ClockAdvances, DraftProofs!ClockAdvances, Drafts!ClockSetBack,
  DraftProofs!ClockSetBack, Drafts!CallStep, DraftProofs!CallStep, Drafts!Next,
  DraftProofs!Next, Drafts!TypeOK, DraftProofs!TypeOK, Drafts!DraftsReadable,
  DraftProofs!DraftsReadable, Drafts!Prepared, DraftProofs!Prepared, Drafts!Told,
  DraftProofs!Told, Drafts!CallInv, DraftProofs!CallInv, Drafts!RowInv,
  DraftProofs!RowInv, Drafts!OneOwner, DraftProofs!OneOwner,
  Drafts!LockComesBack, DraftProofs!LockComesBack, Drafts!IInv,
  DraftProofs!IInv


\* The assumptions of ModelPatchDraft, in the words of its other instance.
LEMMA DraftAssumptions ==
  /\ Offered \subseteq DraftProofs!Request
  /\ Target \in [Finding -> DraftProofs!SelectedFacts \union {None}]
  /\ \A f \in Finding : Target[f] # None => Target[f].source_at <= Target[f].analysis_at
  /\ Allows \in [Process -> (SUBSET DraftProofs!Protocol) \union {None}]
  /\ FaultKinds \subseteq {"crash", "database", "clock"}
  /\ MaxFaults \in Nat
  /\ MaxClock \in Nat
  /\ None \notin Call \union Process \union DraftProofs!Request \union DraftProofs!Intent
                 \union DraftProofs!Outcome \union DraftProofs!SelectedFacts
                 \union DraftProofs!View \union DraftProofs!Reply
BY DraftConstants DEF
  Drafts!Time, DraftProofs!Time, Drafts!Protocol, DraftProofs!Protocol,
  Drafts!Request, DraftProofs!Request, Drafts!SelectedFacts,
  DraftProofs!SelectedFacts, Drafts!Intent, DraftProofs!Intent, Drafts!Answered,
  DraftProofs!Answered, Drafts!Outcome, DraftProofs!Outcome, Drafts!View,
  DraftProofs!View, Drafts!Code, DraftProofs!Code, Drafts!Reply, DraftProofs!Reply

\* The invariant of the drafts holds initially and is inductive under their own steps.
LEMMA DraftsInit == Drafts!Init => Drafts!IInv
BY DraftAssumptions, SameDrafts, DraftProofs!InitIInv

LEMMA DraftsNext == Drafts!IInv /\ [Drafts!Next]_(Drafts!vars) => Drafts!IInv'
BY DraftAssumptions, SameDrafts, DraftProofs!NextIInv

\* No step of a draft touches a row that is there.
LEMMA DraftsStay ==
  ASSUME Drafts!IInv, [Drafts!Next]_(Drafts!vars), NEW p \in Patch
  PROVE  /\ draft[p] # None => draft'[p] = draft[p]
         /\ drafted[p] # None => drafted'[p] = drafted[p]
BY DraftAssumptions, SameDrafts, DraftProofs!RowsStay

\* Faults of the reviews leave the drafts as they are.
LEMMA DraftsQuiet ==
  ASSUME Drafts!IInv, UNCHANGED draftVars, clock' \in Time, faults' \in 0 .. MaxFaults
  PROVE  Drafts!IInv'
BY DraftAssumptions, SameDrafts, DraftProofs!QuietWorld
   DEF draftVars, DraftProofs!draftVars, Time, Drafts!Time, DraftProofs!Time

\* No step takes back or changes a row of a draft.
DraftRowsStay ==
  \A p \in Patch : /\ draft[p] # None => draft'[p] = draft[p]
                   /\ drafted[p] # None => drafted'[p] = drafted[p]

\* What the drafts do in any step of both workflows.
LEMMA DraftSide ==
  ASSUME IInv, [Next]_vars
  PROVE  Drafts!IInv' /\ DraftRowsStay
<1>1. Drafts!IInv /\ Drafts!TypeOK /\ MaxFaults \in Nat
  BY DraftConstants DEF IInv, TypeOK
<1>2. ASSUME [Drafts!Next]_(Drafts!vars)
      PROVE  Drafts!IInv' /\ DraftRowsStay
  BY <1>1, <1>2, DraftsNext, DraftsStay DEF DraftRowsStay
<1>3. ASSUME NEW v \in Caller, DatabaseError(v)
      PROVE  Drafts!IInv' /\ DraftRowsStay
  <2>1. /\ UNCHANGED draftVars /\ clock' = clock
        /\ faults < MaxFaults /\ faults' = faults + 1
    BY <1>3 DEF DatabaseError, Drafts!Fault
  <2>2. clock' \in Time /\ faults' \in 0 .. MaxFaults
    BY <1>1, <2>1 DEF Drafts!TypeOK, Time
  <2>3. Drafts!IInv'
    BY <1>1, <2>1, <2>2, DraftsQuiet
  <2>4. QED
    BY <2>1, <2>3 DEF DraftRowsStay, draftVars
<1>4. CASE UNCHANGED world
  BY <1>2, <1>4 DEF world, draftVars, Drafts!vars, Drafts!draftVars
<1>5. ASSUME NEW v \in Verifier, NEW q \in Process, NEW w \in OfferedReviews,
             AskReview(v, q, w)
      PROVE  UNCHANGED world
  BY <1>5 DEF AskReview
<1>6. ASSUME NEW v \in Verifier, VerifyStep(v)
      PROVE  UNCHANGED world
  BY <1>6 DEF VerifyStep, Lookup, TakeBench, Prepare, ReserveRead, ReserveCommit, Raced,
              Check, ChecksEnd, ChecksBreak, CompleteRead, CompleteCommit, ReadBack
<1>7. ASSUME NEW v \in Decider, NEW q \in Process, NEW w \in OfferedDecisions,
             AskDecision(v, q, w)
      PROVE  UNCHANGED world
  BY <1>7 DEF AskDecision
<1>8. ASSUME NEW v \in Decider, DecideStep(v)
      PROVE  UNCHANGED world
  BY <1>8 DEF DecideStep, ReadRun, DecideRead, DecideCommit
<1>9. ASSUME NEW q \in Process, CrashRestart(q)
      PROVE  Drafts!Next
  BY <1>9 DEF CrashRestart, Drafts!Next, Drafts!CrashRestart
<1>10. ASSUME NEW c \in Call, DraftStep(c)
       PROVE  Drafts!Next
  BY <1>10 DEF DraftStep, Drafts!Next
<1>11. CASE Drafts!ClockAdvances \/ Drafts!ClockSetBack
  BY <1>2, <1>11 DEF Drafts!Next
<1>12. CASE UNCHANGED vars
  BY <1>4, <1>12 DEF vars
<1>13. QED
  BY <1>2, <1>3, <1>4, <1>5, <1>6, <1>7, <1>8, <1>9, <1>10, <1>11, <1>12 DEF Next, Caller

-----------------------------------------------------------------------------
(* What handlers know of each other *)

\* No step takes back or changes a row of a review or a decision.
ReviewRowsStay ==
  \A k \in Review : /\ review[k] # None => review'[k] = review[k]
                    /\ reviewed[k] # None => reviewed'[k] = reviewed[k]

\* Handler d does nothing, and nobody takes the runtime that it holds.
Unmoved(d) ==
  /\ stage'[d] = stage[d] /\ host'[d] = host[d] /\ wants'[d] = wants[d]
  /\ made'[d] = made[d] /\ found'[d] = found[d] /\ answer'[d] = answer[d]
  /\ d \in Verifier /\ Holds(d) => bench'[host[d]] = bench[host[d]]

\* The initial state satisfies the inductive invariant.
LEMMA InitIInv == Init => IInv
<1> SUFFICES ASSUME Init PROVE IInv
  OBVIOUS
<1>1. Drafts!IInv /\ Drafts!TypeOK /\ Drafts!DraftsReadable
  BY DraftsInit DEF Init, Drafts!IInv
<1>2. TypeOK /\ Locals
  BY <1>1 DEF Init, TypeOK, Locals, Stage, Caller
<1>3. ChainReadable /\ OneReviewer
  BY <1>1, ReviewConstants DEF Init, ChainReadable, OneReviewer, Owning, Caller
<1>4. \A v \in Verifier : VerifierInv(v)
  BY DEF Init, VerifierInv, Holds, Prepared, Owning, Caller
<1>5. \A v \in Decider : DeciderInv(v)
  BY DEF Init, DeciderInv, Caller
<1>6. \A k \in Review : ReviewRowInv(k)
  BY DEF Init, ReviewRowInv
<1>7. QED
  BY <1>1, <1>2, <1>3, <1>4, <1>5, <1>6 DEF IInv

\* A readable review stands on a finished draft, whose rows stay.
LEMMA ReadableStays ==
  ASSUME IInv, DraftRowsStay, NEW i \in ReviewIntent, ReadableReview(i)
  PROVE  LET p == i.request.wish.patch IN
         /\ p \in Patch /\ draft[p] # None /\ drafted[p] # None
         /\ draft'[p] = draft[p] /\ drafted'[p] = drafted[p]
<1> DEFINE p == i.request.wish.patch
<1>1. p \in Patch
  BY DEF ReviewIntent, ReviewRequest, Wish
<1>2. drafted[p] # None /\ Drafts!RowInv(p)
  BY <1>1 DEF ReadableReview, Selected, IInv, Drafts!IInv
<1>3. QED
  BY <1>1, <1>2 DEF Drafts!RowInv, DraftRowsStay

\* A readable decision stands on a finished review, whose rows stay.
LEMMA DecidedStays ==
  ASSUME IInv, ReviewRowsStay, NEW d \in Decision, ReadableDecision(d)
  PROVE  LET k == d.request.verdict.review IN
         /\ k \in Review /\ review[k] # None /\ reviewed[k] # None
         /\ review'[k] = review[k] /\ reviewed'[k] = reviewed[k]
<1> DEFINE k == d.request.verdict.review
<1>1. k \in Review
  BY DEF Decision, DecisionRequest, Verdict
<1>2. review[k] # None /\ reviewed[k] # None
  BY <1>1 DEF ReadableDecision, Decidable, Saved
<1>3. QED
  BY <1>1, <1>2 DEF ReviewRowsStay

\* A verifier that does nothing keeps what it knows if nobody writes about its review.
LEMMA OtherVerifier ==
  ASSUME IInv, DraftRowsStay, ReviewRowsStay, NEW d \in Verifier, Unmoved(d),
         stage[d] \in Owning => /\ reviewed'[WishOf(d).id] = reviewed[WishOf(d).id]
                               /\ checked'[WishOf(d).id] = checked[WishOf(d).id]
  PROVE  VerifierInv(d)'
<1> USE DEF Unmoved
<1>1. VerifierInv(d)
  BY DEF IInv
<1>2. WishOf(d)' = WishOf(d)
  BY DEF WishOf
<1>3. (Holds(d) => bench[host[d]] = d)'
  BY <1>1, <1>2 DEF VerifierInv, Holds
<1>4. stage[d] \in {"insert"} \union Owning => ReadableReview(made[d])'
  <2>1. SUFFICES ASSUME stage[d] \in {"insert"} \union Owning
                 PROVE  ReadableReview(made[d])'
    OBVIOUS
  <2>2. made[d] \in ReviewIntent /\ ReadableReview(made[d])
    BY <1>1, <2>1 DEF VerifierInv, Prepared
  <2>3. QED
    BY <2>2, ReadableStays DEF ReadableReview, Selected, Drafts!Saved
<1>5. stage[d] \in Owning => review'[WishOf(d).id] = review[WishOf(d).id]
  <2>1. SUFFICES ASSUME stage[d] \in Owning
                 PROVE  review'[WishOf(d).id] = review[WishOf(d).id]
    OBVIOUS
  <2>2. /\ WishOf(d).id \in Review /\ made[d] \in ReviewIntent
        /\ review[WishOf(d).id] = made[d]
    BY <1>1, <2>1 DEF VerifierInv, WishOf, Prepared, Owning, ReviewRequest, Wish
  <2>3. QED
    BY <2>2, ReviewConstants DEF ReviewRowsStay
<1>6. QED
  BY <1>1, <1>2, <1>3, <1>4, <1>5 DEF VerifierInv, Prepared, ReadableReviewed

\* So does an engineer's handler, whose answer is a stored decision.
LEMMA OtherDecider ==
  ASSUME IInv, ReviewRowsStay, NEW d \in Decider, Unmoved(d),
         \A e \in DecisionId : decision[e] # None => decision'[e] = decision[e]
  PROVE  DeciderInv(d)'
<1> USE DEF Unmoved
<1>1. DeciderInv(d)
  BY DEF IInv
<1>2. VerdictOf(d)' = VerdictOf(d)
  BY DEF VerdictOf
<1>3. stage[d] = "record" => ReadableDecision(made[d])'
  <2>1. SUFFICES ASSUME stage[d] = "record"
                 PROVE  ReadableDecision(made[d])'
    OBVIOUS
  <2>2. made[d] \in Decision /\ ReadableDecision(made[d])
    BY <1>1, <2>1 DEF DeciderInv
  <2>3. QED
    BY <2>2, DecidedStays DEF ReadableDecision, Decidable, Saved
<1>4. answer[d] # None /\ answer[d].view # None =>
        decision'[VerdictOf(d).id] = decision[VerdictOf(d).id]
  BY <1>1 DEF DeciderInv, VerdictOf, DecisionRequest, Verdict
<1>5. QED
  BY <1>1, <1>2, <1>3, <1>4 DEF DeciderInv

\* The chain stays readable if every new row is, against the rows it stands on.
LEMMA ChainStays ==
  ASSUME IInv, Drafts!IInv', DraftRowsStay, TypeOK',
         \A k \in Review :
           /\ \/ review'[k] = review[k]
              \/ review[k] = None /\ ReadableReview(review'[k])
           /\ \/ reviewed'[k] = reviewed[k]
              \/ /\ review[k] # None /\ reviewed[k] = None
                 /\ ReadableReviewed(reviewed'[k], review[k]),
         \A e \in DecisionId : decision'[e] = decision[e] \/ ReadableDecision(decision'[e])
  PROVE  ChainReadable' /\ ReviewRowsStay
<1>1. ChainReadable /\ ReviewConstants /\ \A k \in Review : ReviewRowInv(k)
  BY ReviewConstants DEF IInv
<1>2. ReviewRowsStay
  BY <1>1 DEF ReviewRowsStay, ReviewRowInv
<1>3. Drafts!DraftsReadable'
  BY DEF Drafts!IInv
<1>4. ASSUME NEW k \in Review, review'[k] # None
      PROVE  ReadableReview(review[k])'
  <2>1. review'[k] \in ReviewIntent /\ ReadableReview(review'[k])
    BY <1>1, <1>4 DEF TypeOK, ChainReadable
  <2>2. QED
    BY <2>1, ReadableStays DEF ReadableReview, Selected, Drafts!Saved
<1>5. ASSUME NEW k \in Review, reviewed'[k] # None
      PROVE  review'[k] # None /\ ReadableReviewed(reviewed[k], review[k])'
  <2>1. review[k] # None /\ ReadableReviewed(reviewed'[k], review[k])
    BY <1>1, <1>5 DEF ChainReadable
  <2>2. review'[k] = review[k]
    BY <1>2, <2>1 DEF ReviewRowsStay
  <2>3. QED
    BY <2>1, <2>2 DEF ReadableReviewed
<1>6. ASSUME NEW e \in DecisionId, decision'[e] # None
      PROVE  ReadableDecision(decision[e])'
  <2>1. decision'[e] \in Decision /\ ReadableDecision(decision'[e])
    BY <1>1, <1>6 DEF TypeOK, ChainReadable
  <2>2. QED
    BY <1>2, <2>1, DecidedStays DEF ReadableDecision, Decidable, Saved
<1>7. QED
  BY <1>2, <1>3, <1>4, <1>5, <1>6 DEF ChainReadable

\* A step of handler u that writes no row keeps the invariant if it keeps what u knows
\* and makes it no new owner of a review.
LEMMA QuietStep ==
  ASSUME IInv, Drafts!IInv', DraftRowsStay, TypeOK', Locals', NEW u \in Caller,
         UNCHANGED <<review, reviewed, decision, checked>>,
         \A d \in Caller \ {u} : Unmoved(d),
         u \in Verifier => VerifierInv(u)',
         u \in Decider => DeciderInv(u)',
         u \in Verifier /\ stage'[u] \in Owning => stage[u] \in Owning /\ wants'[u] = wants[u]
  PROVE  IInv'
<1>1. ChainReadable' /\ ReviewRowsStay
  BY ChainStays
<1>2. OneReviewer'
  BY DEF IInv, OneReviewer, Unmoved, WishOf, Caller
<1>3. ASSUME NEW d \in Verifier
      PROVE  VerifierInv(d)'
  BY <1>1, OtherVerifier DEF Caller
<1>4. ASSUME NEW d \in Decider
      PROVE  DeciderInv(d)'
  BY <1>1, OtherDecider DEF Caller
<1>5. \A k \in Review : ReviewRowInv(k)'
  BY DEF IInv, ReviewRowInv
<1>6. QED
  BY <1>1, <1>2, <1>3, <1>4, <1>5 DEF IInv

\* Answering moves no other handler.
LEMMA OthersStay ==
  ASSUME IInv, NEW u \in Caller, NEW d \in Caller \ {u},
         UNCHANGED <<ask, made, found>>,
         \/ \E code, view : Answer(u, code, view)
         \/ \E s : Goto(u, s) /\ UNCHANGED <<bench, answer>>
  PROVE  Unmoved(d)
<1>1. TypeOK /\ Locals /\ (d \in Verifier => VerifierInv(d))
  BY DEF IInv
<1>2. d \in Verifier /\ Holds(d) => bench[host[d]] = d /\ host[d] \in Process
  BY <1>1 DEF VerifierInv, Holds, Prepared, Owning
<1>3. stage'[d] = stage[d] /\ answer'[d] = answer[d]
  BY <1>1 DEF Answer, Goto, TypeOK, Locals
<1>4. d \in Verifier /\ Holds(d) => bench'[host[d]] = bench[host[d]]
  BY <1>1, <1>2 DEF Answer, TypeOK
<1>5. QED
  BY <1>3, <1>4 DEF Unmoved, ask

\* Answering keeps the types of what it changes.
LEMMA AnswerTypes ==
  ASSUME TypeOK, Locals, NEW u \in Caller, NEW code, NEW view, Answer(u, code, view)
  PROVE  /\ stage' \in [Caller -> Stage]
         /\ stage'[u] = "done"
         /\ bench' \in [Process -> Verifier \union {None}]
         /\ DOMAIN answer' = Caller
         /\ answer'[u] = [code |-> code, view |-> view]
BY DEF TypeOK, Locals, Answer, Goto, Stage

\* A verifier may always answer: it owns nothing any more.
LEMMA VerifierAnswers ==
  ASSUME IInv, Drafts!IInv', DraftRowsStay, NEW v \in Verifier, stage[v] # "idle",
         NEW code, NEW view, Answer(v, code, view),
         UNCHANGED <<review, reviewed, decision, checked, ask, made, found>>
  PROVE  IInv'
<1>1. TypeOK /\ Locals /\ VerifierInv(v) /\ v \in Caller
  BY DEF IInv, Caller
<1>2. /\ stage' \in [Caller -> Stage] /\ stage'[v] = "done" /\ DOMAIN answer' = Caller
      /\ bench' \in [Process -> Verifier \union {None}]
  BY <1>1, AnswerTypes
<1>3. TypeOK' /\ Locals'
  BY <1>1, <1>2 DEF TypeOK, Locals, Drafts!IInv, ask
<1>4. VerifierInv(v)'
  BY <1>1, <1>2 DEF VerifierInv, Holds, Prepared, Owning, ask
<1>5. QED
  BY <1>1, <1>2, <1>3, <1>4, OthersStay, QuietStep, ReviewConstants DEF Owning

-----------------------------------------------------------------------------
(* verify *)

\* A verifier beyond its arrival has an id, a process and a request.
LEMMA StartedVerifier ==
  ASSUME IInv, NEW v \in Verifier, stage[v] # "idle"
  PROVE  /\ TypeOK /\ Locals /\ VerifierInv(v) /\ v \in Caller /\ v \notin Decider
         /\ wants[v] \in ReviewRequest /\ WishOf(v).id \in Review /\ host[v] \in Process
BY ReviewConstants DEF IInv, VerifierInv, Caller, WishOf, ReviewRequest, Wish

\* A verifier moves on without writing a row, and may take a free runtime.
LEMMA VerifierGoes ==
  ASSUME IInv, Drafts!IInv', DraftRowsStay, NEW v \in Verifier, stage[v] # "idle",
         NEW s \in Stage, Goto(v, s),
         UNCHANGED <<review, reviewed, decision, checked, ask, answer>>,
         UNCHANGED made \/ \E i \in ReviewIntent : made' = [made EXCEPT ![v] = i],
         UNCHANGED found \/ \E o \in ReviewOutcome : found' = [found EXCEPT ![v] = o],
         \/ UNCHANGED bench
         \/ bench[host[v]] = None /\ bench' = [bench EXCEPT ![host[v]] = v],
         VerifierInv(v)', s \in Owning => stage[v] \in Owning
  PROVE  IInv'
<1>1. /\ TypeOK /\ Locals /\ VerifierInv(v) /\ v \in Caller /\ v \notin Decider
      /\ host[v] \in Process
  BY StartedVerifier
<1>2. stage'[v] = s /\ \A d \in Caller \ {v} : stage'[d] = stage[d]
  BY <1>1 DEF Goto, TypeOK
<1>3. /\ made'[v] \in ReviewIntent \union {None} /\ found'[v] \in ReviewOutcome \union {None}
      /\ \A d \in Caller \ {v} : made'[d] = made[d] /\ found'[d] = found[d]
  BY <1>1 DEF Locals, TypeOK
<1>4. Locals'
  BY <1>1 DEF Locals, ask
<1>5. TypeOK'
  BY <1>1, <1>3 DEF TypeOK, Goto, Drafts!IInv, ask, Caller
<1>6. ASSUME NEW d \in Caller \ {v}
      PROVE  Unmoved(d)
  <2>1. d \in Verifier /\ Holds(d) => bench[host[d]] # None /\ host[d] \in Process
    BY ReviewConstants DEF IInv, VerifierInv, Holds, Prepared, Owning, Caller
  <2>2. QED
    BY <1>1, <1>2, <1>3, <2>1 DEF Unmoved, TypeOK, ask
<1>7. QED
  BY <1>1, <1>2, <1>4, <1>5, <1>6, QuietStep DEF ask

\* Inserting the intent: the id was unused, so nobody owns the review yet.
LEMMA InsertInv ==
  ASSUME IInv, Drafts!IInv', DraftRowsStay, NEW v \in Verifier, stage[v] = "insert",
         ReviewUnused(v), CommitReview(v), UNCHANGED <<checked, ask, made, found>>,
         \/ Goto(v, "execute") /\ UNCHANGED <<bench, answer>>
         \/ Answer(v, "unavailable", None)
  PROVE  IInv'
<1> DEFINE k == WishOf(v).id
<1>1. /\ TypeOK /\ Locals /\ VerifierInv(v) /\ v \in Caller /\ v \notin Decider
      /\ k \in Review /\ review[k] = None /\ reviewed[k] = None /\ checked[k] = 0
  BY StartedVerifier DEF IInv, ReviewRowInv, ReviewUnused
<1>2. made[v] \in ReviewIntent /\ ReadableReview(made[v]) /\ made[v].request = wants[v]
  BY <1>1 DEF VerifierInv, Prepared
<1>3. /\ review'[k] = made[v] /\ \A j \in Review \ {k} : review'[j] = review[j]
      /\ UNCHANGED <<reviewed, decision>>
  BY <1>1 DEF CommitReview, TypeOK
<1>4. /\ \A d \in Caller \ {v} : Unmoved(d) /\ stage'[d] = stage[d]
      /\ stage'[v] \in {"execute", "done"}
  <2>1. \A d \in Caller \ {v} : Unmoved(d)
    BY <1>1, OthersStay
  <2>2. stage'[v] \in {"execute", "done"}
    BY <1>1, AnswerTypes DEF Goto, TypeOK
  <2>3. QED
    BY <2>1, <2>2 DEF Unmoved
<1>5. TypeOK' /\ Locals'
  <2>1. /\ stage' \in [Caller -> Stage] /\ bench' \in [Process -> Verifier \union {None}]
        /\ DOMAIN answer' = Caller
    BY <1>1, AnswerTypes DEF Goto, Stage, TypeOK, Locals
  <2>2. review' \in [Review -> ReviewIntent \union {None}]
    BY <1>1, <1>2 DEF CommitReview, TypeOK
  <2>3. QED
    BY <1>1, <1>3, <2>1, <2>2 DEF TypeOK, Locals, Drafts!IInv, ask
<1>6. ChainReadable' /\ ReviewRowsStay
  BY <1>1, <1>2, <1>3, <1>5, ChainStays
<1>7. ASSUME NEW d \in Verifier, d # v, stage[d] \in Owning
      PROVE  WishOf(d).id # k
  BY <1>1, <1>7, ReviewConstants DEF IInv, VerifierInv, Prepared
<1>8. OneReviewer'
  BY <1>1, <1>4, <1>7 DEF IInv, OneReviewer, WishOf, Caller, ask
<1>9. VerifierInv(v)'
  <2>1. ReadableReview(made[v])'
    BY <1>2, ReadableStays DEF ReadableReview, Selected, Drafts!Saved
  <2>2. WishOf(v)' = WishOf(v)
    BY DEF WishOf, ask
  <2>3. CASE stage'[v] = "done"
    BY <1>1, <2>3 DEF VerifierInv, Holds, Prepared, Owning, ask
  <2>4. CASE Goto(v, "execute") /\ UNCHANGED <<bench, answer>>
    <3>1. stage'[v] = "execute"
      BY <1>1, <2>4 DEF Goto, TypeOK
    <3>2. (Holds(v) => bench[host[v]] = v)'
      BY <1>1, <2>2, <2>4 DEF VerifierInv, Holds, Prepared, Owning, ask
    <3>3. QED
      BY <1>1, <1>2, <1>3, <2>1, <2>2, <3>1, <3>2 DEF VerifierInv, Prepared, Owning, ask
  <2>5. QED
    BY <1>1, <2>3, <2>4, AnswerTypes
<1>10. ASSUME NEW d \in Verifier
       PROVE  VerifierInv(d)'
  BY <1>3, <1>4, <1>6, <1>9, OtherVerifier DEF Caller
<1>11. ASSUME NEW d \in Decider
       PROVE  DeciderInv(d)'
  BY <1>1, <1>3, <1>4, <1>6, OtherDecider DEF Caller
<1>12. \A j \in Review : ReviewRowInv(j)'
  BY <1>1, <1>2, <1>3, ReviewConstants DEF IInv, ReviewRowInv
<1>13. QED
  BY <1>5, <1>6, <1>8, <1>10, <1>11, <1>12 DEF IInv

\* Starting the checks: only the owner of the review does so, and only once.
LEMMA CheckInv ==
  ASSUME IInv, Drafts!IInv', DraftRowsStay, NEW v \in Verifier, Check(v)
  PROVE  IInv'
<1> DEFINE k == WishOf(v).id
<1>1. /\ stage[v] = "execute" /\ Goto(v, "checking")
      /\ checked' = [checked EXCEPT ![k] = @ + 1]
      /\ UNCHANGED <<review, reviewed, decision, bench, ask, made, found, answer>>
  BY DEF Check, reviewTables
<1>2. /\ TypeOK /\ Locals /\ VerifierInv(v) /\ v \in Caller /\ v \notin Decider
      /\ k \in Review /\ review[k] = made[v] /\ made[v] \in ReviewIntent
      /\ ReadableReview(made[v]) /\ reviewed[k] = None /\ checked[k] = 0
  BY <1>1, StartedVerifier DEF VerifierInv, Prepared, Owning
<1>3. checked'[k] = 1 /\ \A j \in Review \ {k} : checked'[j] = checked[j]
  BY <1>1, <1>2 DEF TypeOK
<1>4. /\ \A d \in Caller \ {v} : Unmoved(d) /\ stage'[d] = stage[d]
      /\ stage'[v] = "checking"
  BY <1>1, <1>2, OthersStay DEF Goto, TypeOK
<1>5. TypeOK' /\ Locals'
  <2>1. stage' \in [Caller -> Stage] /\ checked' \in [Review -> Nat]
    BY <1>1, <1>2 DEF Goto, Stage, TypeOK
  <2>2. QED
    BY <1>1, <1>2, <2>1 DEF TypeOK, Locals, Drafts!IInv, ask
<1>6. ChainReadable' /\ ReviewRowsStay
  BY <1>1, <1>5, ChainStays
<1>7. OneReviewer'
  BY <1>1, <1>4 DEF IInv, OneReviewer, WishOf, Owning, Caller, ask
<1>8. VerifierInv(v)'
  <2>1. ReadableReview(made[v])'
    BY <1>1, <1>2, ReadableStays DEF ReadableReview, Selected, Drafts!Saved
  <2>2. WishOf(v)' = WishOf(v)
    BY <1>1 DEF WishOf, ask
  <2>3. (Holds(v) => bench[host[v]] = v)'
    BY <1>1, <1>2, <2>2 DEF VerifierInv, Holds, Prepared, Owning, ask
  <2>4. QED
    BY <1>1, <1>2, <1>3, <1>4, <2>1, <2>2, <2>3 DEF VerifierInv, Prepared, Owning, ask
<1>9. ASSUME NEW d \in Verifier
      PROVE  VerifierInv(d)'
  <2>1. CASE d # v
    <3>1. stage[d] \in Owning => WishOf(d).id # k /\ WishOf(d).id \in Review
      BY <1>1, <2>1, StartedVerifier DEF IInv, OneReviewer, Owning
    <3>2. QED
      BY <1>1, <1>3, <1>4, <1>6, <2>1, <3>1, OtherVerifier DEF Caller
  <2>2. QED
    BY <1>8, <2>1
<1>10. ASSUME NEW d \in Decider
       PROVE  DeciderInv(d)'
  BY <1>1, <1>2, <1>4, <1>6, OtherDecider DEF Caller
<1>11. \A j \in Review : ReviewRowInv(j)'
  BY <1>1, <1>2, <1>3, ReviewConstants DEF IInv, ReviewRowInv
<1>12. QED
  BY <1>5, <1>6, <1>7, <1>9, <1>10, <1>11 DEF IInv

\* Adding the outcome: the verifier owns the review and gives it up.
LEMMA SettleInv ==
  ASSUME IInv, Drafts!IInv', DraftRowsStay, NEW v \in Verifier, stage[v] = "commit",
         CommitReviewed(v), UNCHANGED <<checked, ask, made, found>>,
         Finish(v) \/ Answer(v, "unavailable", None)
  PROVE  IInv'
<1> DEFINE k == WishOf(v).id
<1>1. /\ TypeOK /\ Locals /\ VerifierInv(v) /\ v \in Caller /\ v \notin Decider
      /\ wants[v] \in ReviewRequest /\ host[v] \in Process
      /\ k \in Review /\ review[k] = made[v] /\ made[v] \in ReviewIntent
      /\ made[v].request = wants[v] /\ reviewed[k] = None /\ checked[k] = 1
  BY StartedVerifier DEF VerifierInv, Prepared, Owning
<1>2. /\ found[v] \in ReviewOutcome /\ ReadableReviewed(found[v], made[v])
      /\ found[v].clean => found[v].status = "completed" /\ WishOf(v).checks = "all"
  BY <1>1 DEF VerifierInv
<1>3. /\ reviewed'[k] = found[v] /\ \A j \in Review \ {k} : reviewed'[j] = reviewed[j]
      /\ UNCHANGED <<review, decision>>
  BY <1>1 DEF CommitReviewed, TypeOK
<1>4. /\ \A d \in Caller \ {v} : Unmoved(d) /\ stage'[d] = stage[d]
      /\ stage'[v] \in {"readback", "done"}
  <2>1. \A d \in Caller \ {v} : Unmoved(d)
    BY <1>1, OthersStay DEF Finish
  <2>2. stage'[v] \in {"readback", "done"}
    BY <1>1, AnswerTypes DEF Finish, Goto, TypeOK
  <2>3. QED
    BY <2>1, <2>2 DEF Unmoved
<1>5. TypeOK' /\ Locals'
  <2>1. /\ stage' \in [Caller -> Stage] /\ bench' \in [Process -> Verifier \union {None}]
        /\ DOMAIN answer' = Caller
    BY <1>1, AnswerTypes DEF Finish, Goto, Stage, TypeOK, Locals
  <2>2. reviewed' \in [Review -> ReviewOutcome \union {None}]
    BY <1>1, <1>2 DEF CommitReviewed, TypeOK
  <2>3. QED
    BY <1>1, <1>3, <2>1, <2>2 DEF TypeOK, Locals, Drafts!IInv, ask
<1>6. ChainReadable' /\ ReviewRowsStay
  BY <1>1, <1>2, <1>3, <1>5, ChainStays, ReviewConstants
<1>7. OneReviewer'
  BY <1>1, <1>4 DEF IInv, OneReviewer, WishOf, Owning, Caller, ask
<1>8. VerifierInv(v)'
  BY <1>1, <1>4 DEF VerifierInv, Holds, Prepared, Owning, ask
<1>9. ASSUME NEW d \in Verifier
      PROVE  VerifierInv(d)'
  <2>1. CASE d # v
    <3>1. stage[d] \in Owning => WishOf(d).id # k /\ WishOf(d).id \in Review
      BY <2>1, StartedVerifier DEF IInv, OneReviewer, Owning
    <3>2. QED
      BY <1>3, <1>4, <1>6, <2>1, <3>1, OtherVerifier DEF Caller
  <2>2. QED
    BY <1>8, <2>1
<1>10. ASSUME NEW d \in Decider
       PROVE  DeciderInv(d)'
  BY <1>1, <1>3, <1>4, <1>6, OtherDecider DEF Caller
<1>11. \A j \in Review : ReviewRowInv(j)'
  BY <1>1, <1>2, <1>3, ReviewConstants DEF IInv, ReviewRowInv, WishOf
<1>12. QED
  BY <1>5, <1>6, <1>7, <1>9, <1>10, <1>11 DEF IInv

\* Arrival of a request for a review.
LEMMA AskReviewInv ==
  ASSUME IInv, Drafts!IInv', DraftRowsStay, NEW v \in Verifier, NEW q \in Process,
         NEW w \in OfferedReviews, AskReview(v, q, w)
  PROVE  IInv'
<1> DEFINE r == [wish |-> w, pin |-> Drafts!Saved(w.patch)]
<1>1. /\ TypeOK /\ Drafts!TypeOK /\ Locals /\ VerifierInv(v) /\ v \in Caller /\ v \notin Decider
  BY ReviewConstants DEF IInv, TypeOK, Caller
<1>2. r \in ReviewRequest
  <2>1. w \in Wish /\ w.patch \in Patch
    BY ReviewConstants DEF Wish
  <2>2. Drafts!Saved(w.patch) \in Proposal
    BY <1>1, <2>1 DEF Drafts!Saved, Proposal, Drafts!TypeOK
  <2>3. QED
    BY <2>1, <2>2 DEF ReviewRequest
<1>3. /\ Goto(v, "lookup") /\ stage[v] = "idle"
      /\ host' = [host EXCEPT ![v] = q] /\ wants' = [wants EXCEPT ![v] = r]
      /\ UNCHANGED <<review, reviewed, decision, bench, made, found, answer, checked>>
  BY DEF AskReview, reviewTables
<1> HIDE DEF r
<1>4. TypeOK' /\ Locals'
  BY <1>1, <1>2, <1>3 DEF TypeOK, Locals, Goto, Stage, Drafts!IInv, Caller
<1>5. stage'[v] = "lookup" /\ host'[v] = q /\ wants'[v] = r
  BY <1>1, <1>3 DEF TypeOK, Locals, Goto
<1>6. VerifierInv(v)'
  BY <1>2, <1>5 DEF VerifierInv, Holds, Prepared, Owning
<1>7. \A d \in Caller \ {v} : Unmoved(d)
  BY <1>1, <1>3 DEF Unmoved, Goto, TypeOK, Locals
<1>8. QED
  BY <1>1, <1>3, <1>4, <1>5, <1>6, <1>7, QuietStep DEF Owning

\* Each step of a verifier preserves the inductive invariant.
LEMMA VerifyStepInv ==
  ASSUME IInv, Drafts!IInv', DraftRowsStay, NEW v \in Verifier, VerifyStep(v)
  PROVE  IInv'
<1> USE DEF Owning
<1>1. stage[v] \notin {"idle", "done"}
  BY DEF VerifyStep, Lookup, TakeBench, Prepare, ReserveRead, ReserveCommit, Raced, Check,
         ChecksEnd, ChecksBreak, CompleteRead, CompleteCommit, ReadBack
<1>2. /\ TypeOK /\ Locals /\ VerifierInv(v) /\ v \in Caller
      /\ wants[v] \in ReviewRequest /\ WishOf(v).id \in Review /\ host[v] \in Process
  BY <1>1, StartedVerifier
<1>3. ASSUME NEW code, NEW view, Answer(v, code, view),
             UNCHANGED <<review, reviewed, decision, checked, ask, made, found>>
      PROVE  IInv'
  BY <1>1, <1>3, VerifierAnswers
<1>4. ASSUME NEW s \in {"slot", "prepare", "reserve", "insert", "raced", "readback"},
             Goto(v, s), UNCHANGED <<review, reviewed, decision, checked, ask, made, found,
                                     bench, answer>>,
             s = "prepare" => WishOf(v).checks = "local",
             s = "insert" => stage[v] = "reserve" /\ ReadableReview(made[v]),
             s # "reserve"
      PROVE  IInv'
  <2>1. stage'[v] = s /\ WishOf(v)' = WishOf(v)
    BY <1>2, <1>4 DEF Goto, TypeOK, WishOf, ask
  <2>2. (Holds(v) => bench[host[v]] = v)'
    BY <1>2, <1>4, <2>1 DEF VerifierInv, Holds, Prepared, ask
  <2>3. s = "insert" => ReadableReview(made[v])'
    <3>1. s = "insert" => made[v] \in ReviewIntent
      BY <1>2, <1>4 DEF VerifierInv, Prepared
    <3>2. QED
      BY <1>4, <3>1, ReadableStays DEF ReadableReview, Selected, Drafts!Saved
  <2>4. VerifierInv(v)'
    BY <1>2, <1>4, <2>1, <2>2, <2>3 DEF VerifierInv, Prepared, ask
  <2>5. s \in Stage
    BY DEF Stage
  <2>6. QED
    BY <1>1, <1>4, <2>4, <2>5, VerifierGoes
<1>5. CASE Lookup(v)
  BY <1>3, <1>4, <1>5 DEF Lookup, reviewTables
<1>6. CASE TakeBench(v)
  <2>1. CASE /\ bench[host[v]] = None /\ bench' = [bench EXCEPT ![host[v]] = v]
             /\ Goto(v, "prepare") /\ UNCHANGED answer
    <3>1. stage'[v] = "prepare" /\ bench'[host[v]] = v /\ UNCHANGED <<ask, found, made>>
      BY <1>2, <1>6, <2>1 DEF TakeBench, Goto, TypeOK
    <3>2. VerifierInv(v)'
      BY <1>2, <3>1 DEF VerifierInv, Prepared, ask
    <3>3. QED
      BY <1>1, <1>6, <2>1, <3>2, VerifierGoes DEF TakeBench, Stage, reviewTables
  <2>2. QED
    BY <1>3, <1>6, <2>1 DEF TakeBench, BenchFree, reviewTables
<1>7. CASE Prepare(v)
  <2> DEFINE i == [request |-> wants[v], created_at |-> clock]
  <2>1. CASE Goto(v, "reserve") /\ made' = [made EXCEPT ![v] = i] /\ UNCHANGED <<bench, answer>>
    <3>1. i \in ReviewIntent
      BY <1>2 DEF ReviewIntent, TypeOK, Drafts!TypeOK, Time
    <3>2. stage[v] = "prepare" /\ UNCHANGED <<review, reviewed, decision, checked, ask, found>>
      BY <1>7 DEF Prepare, reviewTables
    <3>3. stage'[v] = "reserve" /\ made'[v] = i /\ WishOf(v)' = WishOf(v)
      BY <1>2, <2>1, <3>2 DEF Goto, TypeOK, Locals, WishOf, ask
    <3>4. (Holds(v) => bench[host[v]] = v)'
      BY <1>2, <2>1, <3>2, <3>3 DEF VerifierInv, Holds, Prepared, ask
    <3>5. VerifierInv(v)'
      BY <1>2, <3>1, <3>2, <3>3, <3>4 DEF VerifierInv, Prepared, ask
    <3>6. QED
      BY <1>1, <2>1, <3>1, <3>2, <3>5, VerifierGoes DEF Stage
  <2>2. CASE UNCHANGED made /\ \E code : Answer(v, code, None)
    BY <1>3, <1>7, <2>2 DEF Prepare, reviewTables
  <2>3. QED
    BY <1>7, <2>1, <2>2 DEF Prepare
<1>8. CASE ReserveRead(v)
  BY <1>3, <1>4, <1>8 DEF ReserveRead, reviewTables
<1>9. CASE ReserveCommit(v)
  <2>1. CASE ReviewUnused(v) /\ CommitReview(v) /\ Goto(v, "execute")
    BY <1>9, <2>1, InsertInv DEF ReserveCommit
  <2>2. CASE Goto(v, "raced") /\ UNCHANGED reviewTables
    BY <1>4, <1>9, <2>2 DEF ReserveCommit, reviewTables
  <2>3. QED
    BY <1>9, <2>1, <2>2 DEF ReserveCommit
<1>10. CASE Raced(v)
  BY <1>3, <1>4, <1>10 DEF Raced, AfterLostRace, reviewTables
<1>11. CASE Check(v)
  BY <1>11, CheckInv
<1>12. CASE ChecksEnd(v)
  <2>1. /\ stage[v] = "checking" /\ Goto(v, "complete")
        /\ UNCHANGED <<review, reviewed, decision, checked, ask, made, bench, answer>>
    BY <1>12 DEF ChecksEnd, reviewTables
  <2>2. PICK o \in {Outcome(v, "completed", FALSE), Outcome(v, "failed", FALSE)}
             \union (IF WishOf(v).checks = "all"
                     THEN {Outcome(v, "completed", TRUE)} ELSE {}) :
          found' = [found EXCEPT ![v] = o]
    BY <1>12 DEF ChecksEnd
  <2>3. made[v] \in ReviewIntent /\ ReadableReview(made[v])
    BY <1>2, <2>1 DEF VerifierInv, Prepared
  <2>4. /\ o \in ReviewOutcome
        /\ o.clean => o.status = "completed" /\ WishOf(v).checks = "all"
    <3>1. clock \in Time
      BY <1>2 DEF TypeOK, Drafts!TypeOK, Time
    <3>2. PICK status \in {"completed", "failed"}, clean \in BOOLEAN :
            /\ o = Outcome(v, status, clean)
            /\ clean => status = "completed" /\ WishOf(v).checks = "all"
      BY <2>2
    <3>3. QED
      BY <2>3, <3>1, <3>2 DEF Outcome, ReviewOutcome
  <2>5. stage'[v] = "complete" /\ found'[v] = o /\ WishOf(v)' = WishOf(v)
    BY <1>2, <2>1, <2>2 DEF Goto, TypeOK, Locals, WishOf, ask
  <2>6. ReadableReview(made[v])'
    BY <2>1, <2>3, ReadableStays DEF ReadableReview, Selected, Drafts!Saved
  <2>7. (Holds(v) => bench[host[v]] = v)'
    BY <1>2, <2>1, <2>5 DEF VerifierInv, Holds, Prepared, ask
  <2>8. VerifierInv(v)'
    BY <1>2, <2>1, <2>4, <2>5, <2>6, <2>7 DEF VerifierInv, Prepared, ask
  <2>9. QED
    BY <1>1, <2>1, <2>2, <2>4, <2>8, VerifierGoes DEF Stage
<1>13. CASE ChecksBreak(v)
  BY <1>3, <1>13 DEF ChecksBreak, reviewTables
<1>14. CASE CompleteRead(v)
  <2>1. /\ stage[v] = "complete" /\ review[WishOf(v).id] = made[v]
        /\ made[v] \in ReviewIntent /\ ReadableReview(made[v]) /\ reviewed[WishOf(v).id] = None
    BY <1>2, <1>14 DEF CompleteRead, VerifierInv, Prepared
  <2>2. CASE Accepted(v) /\ Goto(v, "commit") /\ UNCHANGED <<bench, answer>>
    <3>1. stage'[v] = "commit" /\ WishOf(v)' = WishOf(v)
      BY <1>2, <1>14, <2>2 DEF CompleteRead, Goto, TypeOK, WishOf, ask
    <3>2. UNCHANGED <<review, reviewed, decision, checked, ask, made, found>>
      BY <1>14 DEF CompleteRead, reviewTables
    <3>3. ReadableReview(made[v])'
      BY <2>1, <3>2, ReadableStays DEF ReadableReview, Selected, Drafts!Saved
    <3>4. (Holds(v) => bench[host[v]] = v)'
      BY <1>2, <2>1, <2>2, <3>1, <3>2 DEF VerifierInv, Holds, Prepared, ask
    <3>5. VerifierInv(v)'
      BY <1>2, <2>1, <2>2, <3>1, <3>2, <3>3, <3>4
         DEF VerifierInv, Prepared, Accepted, ReadableReviewed, ask
    <3>6. QED
      BY <1>1, <2>1, <2>2, <3>2, <3>5, VerifierGoes DEF Stage
  <2>3. CASE Answer(v, "unavailable", None)
    BY <1>3, <1>14, <2>3 DEF CompleteRead, reviewTables
  <2>4. QED
    BY <1>14, <2>1, <2>2, <2>3, ReviewConstants DEF CompleteRead
<1>15. CASE CompleteCommit(v)
  <2>1. reviewed[WishOf(v).id] = None /\ stage[v] = "commit"
    BY <1>2, <1>15 DEF CompleteCommit, VerifierInv
  <2>2. QED
    BY <1>15, <2>1, SettleInv DEF CompleteCommit
<1>16. CASE ReadBack(v)
  BY <1>3, <1>16 DEF ReadBack, reviewTables
<1>17. QED
  BY <1>5, <1>6, <1>7, <1>8, <1>9, <1>10, <1>11, <1>12, <1>13, <1>14, <1>15, <1>16
     DEF VerifyStep

-----------------------------------------------------------------------------
(* decide *)

\* An engineer's handler beyond its arrival has an id, a process and a request.
LEMMA StartedDecider ==
  ASSUME IInv, NEW v \in Decider, stage[v] # "idle"
  PROVE  /\ TypeOK /\ Locals /\ DeciderInv(v) /\ v \in Caller /\ v \notin Verifier
         /\ wants[v] \in DecisionRequest /\ VerdictOf(v).id \in DecisionId
         /\ VerdictOf(v).review \in Review
BY ReviewConstants DEF IInv, DeciderInv, Caller, VerdictOf, DecisionRequest, Verdict

\* An engineer is answered with an error or with the stored decision.
LEMMA DeciderAnswers ==
  ASSUME IInv, Drafts!IInv', DraftRowsStay, NEW v \in Decider, stage[v] # "idle",
         NEW code, NEW view, Answer(v, code, view),
         UNCHANGED <<review, reviewed, decision, checked, ask, made, found>>,
         view # None => view = decision[VerdictOf(v).id] /\ view.request = wants[v]
  PROVE  IInv'
<1>1. TypeOK /\ Locals /\ DeciderInv(v) /\ v \in Caller /\ v \notin Verifier
  BY StartedDecider
<1>2. /\ stage' \in [Caller -> Stage] /\ stage'[v] = "done" /\ DOMAIN answer' = Caller
      /\ bench' \in [Process -> Verifier \union {None}]
      /\ answer'[v] = [code |-> code, view |-> view]
  BY <1>1, AnswerTypes
<1>3. TypeOK' /\ Locals'
  BY <1>1, <1>2 DEF TypeOK, Locals, Drafts!IInv, ask
<1>4. DeciderInv(v)'
  BY <1>1, <1>2 DEF DeciderInv, VerdictOf, ask
<1>5. QED
  BY <1>1, <1>2, <1>3, <1>4, OthersStay, QuietStep

\* Arrival of a decision.
LEMMA AskDecisionInv ==
  ASSUME IInv, Drafts!IInv', DraftRowsStay, NEW v \in Decider, NEW q \in Process,
         NEW w \in OfferedDecisions, AskDecision(v, q, w)
  PROVE  IInv'
<1> DEFINE r == [verdict |-> w, seen |-> Saved(w.review)]
<1>1. TypeOK /\ Locals /\ DeciderInv(v) /\ v \in Caller /\ v \notin Verifier
  BY ReviewConstants DEF IInv, Caller
<1>2. r \in DecisionRequest
  <2>1. w \in Verdict /\ w.review \in Review
    BY ReviewConstants DEF Verdict
  <2>2. Saved(w.review) \in Run
    BY <1>1, <2>1 DEF Saved, Run, TypeOK
  <2>3. QED
    BY <2>1, <2>2 DEF DecisionRequest
<1>3. /\ Goto(v, "read") /\ stage[v] = "idle"
      /\ host' = [host EXCEPT ![v] = q] /\ wants' = [wants EXCEPT ![v] = r]
      /\ UNCHANGED <<review, reviewed, decision, bench, made, found, answer, checked>>
  BY DEF AskDecision, reviewTables
<1> HIDE DEF r
<1>4. TypeOK' /\ Locals'
  BY <1>1, <1>2, <1>3 DEF TypeOK, Locals, Goto, Stage, Drafts!IInv, Caller
<1>5. stage'[v] = "read" /\ host'[v] = q /\ wants'[v] = r
  BY <1>1, <1>3 DEF TypeOK, Locals, Goto
<1>6. DeciderInv(v)'
  BY <1>1, <1>2, <1>3, <1>5 DEF DeciderInv
<1>7. \A d \in Caller \ {v} : Unmoved(d)
  BY <1>1, <1>3 DEF Unmoved, Goto, TypeOK, Locals
<1>8. QED
  BY <1>1, <1>3, <1>4, <1>5, <1>6, <1>7, QuietStep

\* Recording a decision under an unused id.
LEMMA DecideInv ==
  ASSUME IInv, Drafts!IInv', DraftRowsStay, NEW v \in Decider, stage[v] = "record",
         DecisionUnused(v), CommitDecision(v), UNCHANGED <<checked, ask, made, found>>,
         \/ Answer(v, "created", made[v])
         \/ Answer(v, "unavailable", None)
  PROVE  IInv'
<1> DEFINE e == VerdictOf(v).id
<1>1. /\ TypeOK /\ Locals /\ DeciderInv(v) /\ v \in Caller /\ v \notin Verifier
      /\ e \in DecisionId /\ decision[e] = None
      /\ made[v] \in Decision /\ made[v].request = wants[v] /\ ReadableDecision(made[v])
  BY StartedDecider DEF DeciderInv, DecisionUnused
<1>2. /\ decision'[e] = made[v] /\ \A f \in DecisionId \ {e} : decision'[f] = decision[f]
      /\ UNCHANGED <<review, reviewed>>
  BY <1>1 DEF CommitDecision, TypeOK
<1>3. \A d \in Caller \ {v} : Unmoved(d)
  BY <1>1, OthersStay
<1>4. /\ stage' \in [Caller -> Stage] /\ stage'[v] = "done" /\ DOMAIN answer' = Caller
      /\ bench' \in [Process -> Verifier \union {None}]
      /\ answer'[v].view \in {made[v], None}
  <2>1. ASSUME NEW code, NEW view, Answer(v, code, view)
        PROVE  /\ stage' \in [Caller -> Stage] /\ stage'[v] = "done"
               /\ DOMAIN answer' = Caller
               /\ bench' \in [Process -> Verifier \union {None}]
               /\ answer'[v].view = view
    <3>1. answer'[v] = [code |-> code, view |-> view]
      BY <1>1, <2>1, AnswerTypes
    <3>2. QED
      BY <1>1, <2>1, <3>1, AnswerTypes
  <2>2. QED
    BY <2>1
<1>5. TypeOK' /\ Locals'
  <2>1. decision' \in [DecisionId -> Decision \union {None}]
    BY <1>1 DEF CommitDecision, TypeOK
  <2>2. QED
    BY <1>1, <1>2, <1>4, <2>1 DEF TypeOK, Locals, Drafts!IInv, ask
<1>6. ChainReadable' /\ ReviewRowsStay
  BY <1>1, <1>2, <1>5, ChainStays
<1>7. OneReviewer'
  BY <1>1, <1>3 DEF IInv, OneReviewer, Unmoved, WishOf, Caller
<1>8. ASSUME NEW d \in Verifier
      PROVE  VerifierInv(d)'
  BY <1>1, <1>2, <1>3, <1>6, OtherVerifier DEF Caller
<1>9. DeciderInv(v)'
  BY <1>1, <1>2, <1>4 DEF DeciderInv, VerdictOf, ask
<1>10. ASSUME NEW d \in Decider
       PROVE  DeciderInv(d)'
  BY <1>1, <1>2, <1>3, <1>6, <1>9, OtherDecider DEF Caller
<1>11. \A k \in Review : ReviewRowInv(k)'
  BY <1>2 DEF IInv, ReviewRowInv
<1>12. QED
  BY <1>5, <1>6, <1>7, <1>8, <1>10, <1>11 DEF IInv

\* Each step of an engineer's handler preserves the inductive invariant.
LEMMA DecideStepInv ==
  ASSUME IInv, Drafts!IInv', DraftRowsStay, NEW v \in Decider, DecideStep(v)
  PROVE  IInv'
<1>1. stage[v] # "idle"
  BY DEF DecideStep, ReadRun, DecideRead, DecideCommit
<1>2. /\ TypeOK /\ Locals /\ DeciderInv(v) /\ v \in Caller /\ v \notin Verifier
      /\ wants[v] \in DecisionRequest
  BY <1>1, StartedDecider
<1>3. ASSUME NEW code, Answer(v, code, None),
             UNCHANGED <<review, reviewed, decision, checked, ask, made, found>>
      PROVE  IInv'
  BY <1>1, <1>3, DeciderAnswers
<1>4. ASSUME AnswerStored(v), made[v].request = wants[v],
             UNCHANGED <<review, reviewed, decision, checked, ask, made, found>>
      PROVE  IInv'
  <2>1. CASE SameDecision(decision[VerdictOf(v).id], made[v]) /\
             Answer(v, "existing", decision[VerdictOf(v).id])
    BY <1>1, <1>4, <2>1, DeciderAnswers DEF SameDecision
  <2>2. CASE Answer(v, "conflict", None)
    BY <1>3, <1>4, <2>2
  <2>3. QED
    BY <1>4, <2>1, <2>2 DEF AnswerStored, Replayed
<1>5. ASSUME NEW s \in Stage, Goto(v, s), \A d \in Caller \ {v} : made'[d] = made[d],
             UNCHANGED <<review, reviewed, decision, checked, ask, found, bench, answer>>,
             made' \in [Caller -> ReviewIntent \union Decision \union {None}],
             made'[v] \in Decision, DeciderInv(v)'
      PROVE  IInv'
  <2>1. TypeOK' /\ Locals'
    BY <1>2, <1>5 DEF TypeOK, Locals, Goto, Drafts!IInv, ask, Caller
  <2>2. \A d \in Caller \ {v} : Unmoved(d)
    BY <1>2, <1>5 DEF Unmoved, Goto, TypeOK, ask
  <2>3. QED
    BY <1>2, <1>5, <2>1, <2>2, QuietStep
<1>6. ASSUME NEW role \in Role, ReadRun(v, role)
      PROVE  IInv'
  <2> DEFINE new == [request |-> wants[v], created_at |-> clock, role |-> role]
  <2>1. CASE Goto(v, "decide") /\ made' = [made EXCEPT ![v] = new] /\ UNCHANGED <<bench, answer>>
    <3>1. new \in Decision
      BY <1>2 DEF Decision, TypeOK, Drafts!TypeOK, Time
    <3>2. stage[v] = "read" /\ UNCHANGED <<review, reviewed, decision, checked, ask, found>>
      BY <1>6 DEF ReadRun, reviewTables
    <3>3. stage'[v] = "decide" /\ made'[v] = new /\ new.request = wants[v]
      BY <1>2, <2>1 DEF Goto, TypeOK, Locals
    <3>4. /\ made' \in [Caller -> ReviewIntent \union Decision \union {None}]
          /\ \A d \in Caller \ {v} : made'[d] = made[d]
      BY <1>2, <2>1, <3>1 DEF Locals
    <3>5. DeciderInv(v)'
      BY <1>2, <2>1, <3>1, <3>2, <3>3 DEF DeciderInv, ask
    <3>6. QED
      BY <1>5, <2>1, <3>1, <3>2, <3>3, <3>4, <3>5 DEF Stage
  <2>2. CASE UNCHANGED made /\ \E code : Answer(v, code, None)
    BY <1>3, <1>6, <2>2 DEF ReadRun, reviewTables
  <2>3. QED
    BY <1>6, <2>1, <2>2 DEF ReadRun
<1>7. CASE DecideRead(v)
  <2>1. /\ stage[v] = "decide" /\ made[v] \in Decision /\ made[v].request = wants[v]
        /\ UNCHANGED <<review, reviewed, decision, checked, ask, made, found>>
    BY <1>2, <1>7 DEF DecideRead, DeciderInv, reviewTables
  <2>2. CASE ReadableDecision(made[v]) /\ Goto(v, "record") /\ UNCHANGED <<bench, answer>>
    <3>1. ReadableDecision(made[v])'
      BY <2>1, <2>2 DEF ReadableDecision, Decidable, Saved
    <3>2. DeciderInv(v)'
      BY <1>2, <2>1, <2>2, <3>1 DEF DeciderInv, Goto, TypeOK, ask
    <3>3. QED
      BY <1>2, <1>5, <2>1, <2>2, <3>2 DEF Stage, Locals
  <2>3. CASE AnswerStored(v)
    BY <1>4, <2>1, <2>3
  <2>4. CASE Answer(v, "unavailable", None)
    BY <1>3, <2>1, <2>4
  <2>5. QED
    BY <1>7, <2>2, <2>3, <2>4 DEF DecideRead
<1>8. CASE DecideCommit(v)
  <2>1. stage[v] = "record" /\ made[v].request = wants[v] /\ UNCHANGED <<checked, ask, made, found>>
    BY <1>2, <1>8 DEF DecideCommit, DeciderInv
  <2>2. CASE DecisionUnused(v) /\ CommitDecision(v) /\ Answer(v, "created", made[v])
    BY <2>1, <2>2, DecideInv
  <2>3. CASE AnswerStored(v) /\ UNCHANGED reviewTables
    BY <1>4, <2>1, <2>3 DEF reviewTables
  <2>4. QED
    BY <1>8, <2>2, <2>3 DEF DecideCommit
<1>9. QED
  BY <1>6, <1>7, <1>8 DEF DecideStep

-----------------------------------------------------------------------------
(* Faults, the drafts, and the specification *)

\* A step of the drafts, or a fault that kills no handler, leaves the handlers alone.
LEMMA WorldInv ==
  ASSUME IInv, Drafts!IInv', DraftRowsStay, UNCHANGED reviewVars
  PROVE  IInv'
<1>1. TypeOK' /\ Locals'
  BY DEF IInv, TypeOK, Locals, Drafts!IInv, reviewVars
<1>2. ChainReadable' /\ ReviewRowsStay
  BY <1>1, ChainStays DEF reviewVars
<1>3. \A d \in Caller : Unmoved(d)
  BY DEF Unmoved, reviewVars
<1>4. OneReviewer' /\ \A k \in Review : ReviewRowInv(k)'
  BY DEF IInv, OneReviewer, WishOf, ReviewRowInv, reviewVars
<1>5. ASSUME NEW d \in Verifier
      PROVE  VerifierInv(d)'
  BY <1>2, <1>3, OtherVerifier DEF Caller, reviewVars
<1>6. ASSUME NEW d \in Decider
      PROVE  DeciderInv(d)'
  BY <1>2, <1>3, OtherDecider DEF Caller, reviewVars
<1>7. QED
  BY <1>1, <1>2, <1>4, <1>5, <1>6 DEF IInv

\* A database error has the effect of the commit that it hides, or none.
LEMMA DatabaseErrorInv ==
  ASSUME IInv, Drafts!IInv', DraftRowsStay, NEW v \in Caller, DatabaseError(v)
  PROVE  IInv'
<1>1. /\ stage[v] # "idle" /\ Answer(v, "unavailable", None)
      /\ UNCHANGED <<ask, made, found, checked>>
  BY DEF DatabaseError
<1>2. /\ v \in Verifier => VerifierInv(v)
      /\ v \in Decider => DeciderInv(v)
      /\ v \in Verifier \/ v \in Decider
  BY DEF IInv, Caller
<1>3. CASE UNCHANGED reviewTables
  BY <1>1, <1>2, <1>3, VerifierAnswers, DeciderAnswers DEF reviewTables
<1>4. CASE stage[v] = "insert" /\ ReviewUnused(v) /\ CommitReview(v)
  BY <1>1, <1>2, <1>4, InsertInv DEF DeciderInv
<1>5. CASE stage[v] = "commit" /\ CommitReviewed(v)
  BY <1>1, <1>2, <1>5, SettleInv DEF DeciderInv
<1>6. CASE stage[v] = "record" /\ DecisionUnused(v) /\ CommitDecision(v)
  BY <1>1, <1>2, <1>6, DecideInv DEF VerifierInv
<1>7. QED
  BY <1>3, <1>4, <1>5, <1>6 DEF DatabaseError

\* A crash ends the handlers of its process and releases the runtime that they held.
LEMMA CrashInv ==
  ASSUME IInv, Drafts!IInv', DraftRowsStay, NEW q \in Process, CrashRestart(q)
  PROVE  IInv'
<1>1. /\ UNCHANGED <<review, reviewed, decision, host, wants, made, found, answer, checked>>
      /\ stage' = [v \in Caller |->
           IF host[v] = q /\ stage[v] \notin {"idle", "done"} THEN "dead" ELSE stage[v]]
      /\ bench' = [bench EXCEPT ![q] = None]
  BY DEF CrashRestart, reviewTables, ask
<1>2. TypeOK /\ Locals
  BY DEF IInv
<1>3. TypeOK' /\ Locals'
  BY <1>1, <1>2 DEF TypeOK, Locals, Stage, Drafts!IInv
<1>4. ChainReadable' /\ ReviewRowsStay
  BY <1>1, <1>3, ChainStays
<1>5. OneReviewer' /\ \A k \in Review : ReviewRowInv(k)'
  BY <1>1 DEF IInv, OneReviewer, WishOf, Owning, ReviewRowInv, Caller
<1>6. ASSUME NEW d \in Verifier
      PROVE  VerifierInv(d)'
  <2>1. VerifierInv(d) /\ d \in Caller
    BY DEF IInv, Caller
  <2>2. CASE stage'[d] = "dead"
    BY <1>1, <2>1, <2>2 DEF VerifierInv, Holds, Prepared, Owning
  <2>3. CASE stage'[d] = stage[d] /\ ~(Holds(d) /\ host[d] = q)
    <3>1. Unmoved(d)
      BY <1>1, <1>2, <2>1, <2>3 DEF Unmoved, TypeOK, VerifierInv
    <3>2. QED
      BY <1>1, <1>4, <3>1, OtherVerifier
  <2>4. QED
    BY <1>1, <2>1, <2>2, <2>3 DEF Holds, Prepared, Owning
<1>7. ASSUME NEW d \in Decider
      PROVE  DeciderInv(d)'
  <2>1. DeciderInv(d) /\ d \in Caller /\ d \notin Verifier
    BY ReviewConstants DEF IInv, Caller
  <2>2. CASE stage'[d] = "dead" /\ stage[d] # "done"
    BY <1>1, <2>1, <2>2 DEF DeciderInv
  <2>3. CASE stage'[d] = stage[d]
    BY <1>1, <1>4, <2>1, <2>3, OtherDecider DEF Unmoved
  <2>4. QED
    BY <1>1, <2>1, <2>2, <2>3
<1>8. QED
  BY <1>3, <1>4, <1>5, <1>6, <1>7 DEF IInv

\* The invariant is inductive.
LEMMA NextIInv == IInv /\ [Next]_vars => IInv'
<1> SUFFICES ASSUME IInv, [Next]_vars PROVE IInv'
  OBVIOUS
<1>1. Drafts!IInv' /\ DraftRowsStay
  BY DraftSide
<1>2. ASSUME NEW v \in Verifier,
             \/ \E q \in Process, w \in OfferedReviews : AskReview(v, q, w)
             \/ VerifyStep(v)
             \/ DatabaseError(v)
      PROVE  IInv'
  BY <1>1, <1>2, AskReviewInv, VerifyStepInv, DatabaseErrorInv DEF Caller
<1>3. ASSUME NEW v \in Decider,
             \/ \E q \in Process, w \in OfferedDecisions : AskDecision(v, q, w)
             \/ DecideStep(v)
             \/ DatabaseError(v)
      PROVE  IInv'
  BY <1>1, <1>3, AskDecisionInv, DecideStepInv, DatabaseErrorInv DEF Caller
<1>4. ASSUME NEW q \in Process, CrashRestart(q)
      PROVE  IInv'
  BY <1>1, <1>4, CrashInv
<1>5. CASE UNCHANGED reviewVars
  BY <1>1, <1>5, WorldInv
<1>6. QED
  BY <1>2, <1>3, <1>4, <1>5 DEF Next, DraftStep, vars

\* The invariant holds in every reachable state.
THEOREM Invariance == Spec => []IInv
BY InitIInv, NextIInv, PTL DEF Spec

\* A handler that answers gives the runtime back, if it has it.
LEMMA AnswerGivesBack ==
  ASSUME IInv, BenchComesBack, NEW v \in Caller, \E code, view : Answer(v, code, view),
         host' = host
  PROVE  BenchComesBack'
<1>1. TypeOK
  BY DEF IInv
<1>2. ASSUME NEW q \in Process, bench'[q] # None
      PROVE  /\ bench'[q] = bench[q] /\ bench[q] # None /\ bench[q] # v
             /\ stage'[bench[q]] = stage[bench[q]]
  BY <1>1, <1>2 DEF Answer, Goto, TypeOK
<1>3. QED
  BY <1>2 DEF BenchComesBack

\* A handler that goes on keeps the runtime until it answers.
LEMMA GotoKeepsBench ==
  ASSUME IInv, BenchComesBack, NEW v \in Caller, NEW s \in Stage, Goto(v, s),
         UNCHANGED <<bench, host>>, stage[v] \in InWorker => s \in InWorker
  PROVE  BenchComesBack'
<1>1. TypeOK
  BY DEF IInv
<1>2. QED
  BY <1>1 DEF BenchComesBack, Goto, TypeOK

\* Every step of a handler gives the runtime back or keeps it until it does.
LEMMA CallerBench ==
  ASSUME IInv, BenchComesBack, NEW v \in Caller,
         VerifyStep(v) \/ DecideStep(v) \/ DatabaseError(v)
  PROVE  BenchComesBack'
<1> USE DEF ask
<1>1. CASE TakeBench(v)
  <2>1. TypeOK
    BY DEF IInv
  <2>2. CASE ~BenchFree(host[v])
    BY <1>1, <2>2, AnswerGivesBack DEF TakeBench
  <2>3. CASE BenchFree(host[v])
    <3>1. /\ stage[v] = "slot" /\ stage' = [stage EXCEPT ![v] = "prepare"]
          /\ bench' = [bench EXCEPT ![host[v]] = v] /\ host' = host
      BY <1>1, <2>3 DEF TakeBench, Goto
    <3>2. ASSUME NEW q \in Process, bench'[q] # None
          PROVE  host'[bench'[q]] = q /\ stage'[bench'[q]] \in InWorker
      <4>1. CASE q = host[v]
        BY <2>1, <3>1, <4>1 DEF TypeOK, InWorker
      <4>2. CASE q # host[v]
        <5>1. bench'[q] = bench[q] /\ bench[q] # None
          BY <2>1, <3>1, <3>2, <4>2 DEF TypeOK
        <5>2. host[bench[q]] = q /\ stage[bench[q]] \in InWorker
          BY <5>1 DEF BenchComesBack
        <5>3. bench[q] # v
          BY <3>1, <5>2 DEF InWorker
        <5>4. QED
          BY <2>1, <3>1, <5>1, <5>2, <5>3 DEF TypeOK
      <4>3. QED
        BY <4>1, <4>2
    <3>3. QED
      BY <3>2 DEF BenchComesBack
  <2>4. QED
    BY <2>2, <2>3
<1>2. CASE \/ \E code, view : Answer(v, code, view) /\ UNCHANGED host
           \/ \E s \in Stage : /\ Goto(v, s) /\ UNCHANGED <<bench, host>>
                               /\ stage[v] \in InWorker => s \in InWorker
  BY <1>2, AnswerGivesBack, GotoKeepsBench
<1>3. CASE Lookup(v)
  BY <1>2, <1>3 DEF Lookup, Stage, InWorker
<1>4. CASE Prepare(v)
  BY <1>2, <1>4 DEF Prepare, Stage, InWorker
<1>5. CASE ReserveRead(v)
  BY <1>2, <1>5 DEF ReserveRead, Stage, InWorker
<1>6. CASE ReserveCommit(v)
  BY <1>2, <1>6 DEF ReserveCommit, Stage, InWorker
<1>7. CASE Raced(v)
  BY <1>2, <1>7 DEF Raced, AfterLostRace, Stage, InWorker
<1>8. CASE Check(v) \/ ChecksEnd(v) \/ ChecksBreak(v)
  BY <1>2, <1>8 DEF Check, ChecksEnd, ChecksBreak, Stage, InWorker
<1>9. CASE CompleteRead(v)
  BY <1>2, <1>9 DEF CompleteRead, Finish, Stage, InWorker
<1>10. CASE CompleteCommit(v)
  BY <1>2, <1>10 DEF CompleteCommit, Finish, Stage, InWorker
<1>11. CASE ReadBack(v)
  BY <1>2, <1>11 DEF ReadBack
<1>12. CASE \E role \in Role : ReadRun(v, role)
  BY <1>2, <1>12 DEF ReadRun, Stage, InWorker
<1>13. CASE DecideRead(v)
  BY <1>2, <1>13 DEF DecideRead, AnswerStored, Stage, InWorker
<1>14. CASE DecideCommit(v)
  BY <1>2, <1>14 DEF DecideCommit, AnswerStored
<1>15. CASE DatabaseError(v)
  BY <1>2, <1>15 DEF DatabaseError
<1>16. QED
  BY <1>1, <1>3, <1>4, <1>5, <1>6, <1>7, <1>8, <1>9, <1>10, <1>11, <1>12, <1>13, <1>14,
     <1>15 DEF VerifyStep, DecideStep

\* So does every other step: who has just arrived holds nothing, and a process that dies
\* takes its handlers and its lock with it.
LEMMA NextBench == IInv /\ BenchComesBack /\ [Next]_vars => BenchComesBack'
<1> SUFFICES ASSUME IInv, BenchComesBack, [Next]_vars PROVE BenchComesBack'
  OBVIOUS
<1>1. TypeOK
  BY DEF IInv
<1>2. ASSUME NEW v \in Caller, VerifyStep(v) \/ DecideStep(v) \/ DatabaseError(v)
      PROVE  BenchComesBack'
  BY <1>2, CallerBench
<1>3. ASSUME NEW v \in Caller, stage[v] = "idle",
             \E s \in Stage : Goto(v, s), bench' = bench,
             \E q \in Process : host' = [host EXCEPT ![v] = q]
      PROVE  BenchComesBack'
  <2>1. \A q \in Process : bench[q] # None => bench[q] # v
    BY <1>3 DEF BenchComesBack, InWorker
  <2>2. QED
    BY <1>1, <1>3, <2>1 DEF BenchComesBack, Goto, TypeOK
<1>4. ASSUME NEW v \in Caller, NEW q \in Process, NEW w,
             AskReview(v, q, w) \/ AskDecision(v, q, w)
      PROVE  BenchComesBack'
  BY <1>3, <1>4 DEF AskReview, AskDecision, Stage
<1>5. ASSUME NEW q \in Process, CrashRestart(q)
      PROVE  BenchComesBack'
  <2>1. /\ stage' = [v \in Caller |->
              IF host[v] = q /\ stage[v] \notin {"idle", "done"} THEN "dead" ELSE stage[v]]
        /\ bench' = [bench EXCEPT ![q] = None] /\ host' = host
    BY <1>5 DEF CrashRestart, ask
  <2>2. QED
    BY <1>1, <2>1 DEF BenchComesBack, TypeOK, Caller
<1>6. CASE UNCHANGED reviewVars
  BY <1>6 DEF BenchComesBack, reviewVars
<1>7. QED
  BY <1>2, <1>4, <1>5, <1>6 DEF Next, DraftStep, vars, Caller

\* Every stored review, outcome and decision passes the validation of every later read
\* together with the records below it, the external checks of a process never run twice
\* at the same time, and every verifier gives the runtime back (patch_runtime.py:39).
THEOREM Chain == Spec => []ReviewsAgree
<1>0. Init => BenchComesBack
  BY DEF Init, BenchComesBack
<1>1. ASSUME IInv, BenchComesBack PROVE ReviewsAgree
  <2>1. OneSelectedWorker
    BY <1>1 DEF IInv, VerifierInv, Holds, Prepared, Owning, OneSelectedWorker
  <2>2. QED
    BY <1>1, <2>1 DEF IInv, ReviewsAgree
<1>2. QED
  BY <1>0, <1>1, NextBench, Invariance, PTL DEF Spec

\* An approval stands on a finished review without blockers whose external checks ran
\* once, and that one on a draft that the provider was asked for once; each of them was
\* recorded before the next began.
THEOREM Approvals == Spec => []ApprovalsJustified
<1>1. ASSUME IInv PROVE ApprovalsJustified
  <2> SUFFICES ASSUME NEW e \in DecisionId, decision[e] # None,
                      decision[e].request.verdict.verdict = "approved"
               PROVE  LET d == decision[e]
                          k == d.request.verdict.review
                          p == d.request.verdict.patch
                      IN /\ d.request.verdict.attested
                         /\ reviewed[k] # None /\ reviewed[k].status = "completed"
                         /\ reviewed[k].clean
                         /\ review[k].request.wish.checks = "all" /\ checked[k] = 1
                         /\ drafted[p] # None /\ drafted[p].status = "draft"
                         /\ asks[p] = 1
                         /\ draft[p].created_at <= drafted[p].completed_at
                         /\ drafted[p].completed_at <= review[k].created_at
                         /\ review[k].created_at <= reviewed[k].completed_at
                         /\ reviewed[k].completed_at <= d.created_at
    BY DEF ApprovalsJustified
  <2> DEFINE d == decision[e]
             k == d.request.verdict.review
             p == d.request.verdict.patch
  <2>1. TypeOK /\ ChainReadable /\ Drafts!TypeOK
    BY <1>1 DEF IInv, TypeOK
  <2>2. d \in Decision /\ ReadableDecision(d) /\ k \in Review /\ p \in Patch
    BY <2>1 DEF TypeOK, ChainReadable, Decision, DecisionRequest, Verdict
  <2>3. /\ review[k] # None /\ reviewed[k] # None
        /\ review[k].request.wish.patch = p
        /\ reviewed[k].clean /\ d.request.verdict.attested
        /\ d.created_at >= reviewed[k].completed_at
    BY <2>2 DEF ReadableDecision, Decidable, Saved
  <2>4. /\ review[k] \in ReviewIntent /\ reviewed[k] \in ReviewOutcome
        /\ ReadableReview(review[k]) /\ ReadableReviewed(reviewed[k], review[k])
        /\ ReviewRowInv(k)
    BY <1>1, <2>1, <2>2, <2>3 DEF TypeOK, ChainReadable, IInv
  <2>5. /\ drafted[p] # None /\ drafted[p].status = "draft"
        /\ review[k].created_at >= drafted[p].completed_at
    BY <2>3, <2>4 DEF ReadableReview, Selected
  <2>6. /\ asks[p] = 1 /\ drafted[p].completed_at >= draft[p].created_at
        /\ draft[p] \in Drafts!Intent /\ drafted[p] \in Drafts!Outcome
    BY <1>1, <2>1, <2>2, <2>5
       DEF IInv, Drafts!IInv, Drafts!RowInv, Drafts!DraftsReadable, Drafts!ReadableDrafted,
           Drafts!TypeOK
  <2>7. /\ d.created_at \in Time /\ review[k].created_at \in Time
        /\ reviewed[k].completed_at \in Time /\ draft[p].created_at \in Time
        /\ drafted[p].completed_at \in Time
    BY <2>2, <2>4, <2>6
       DEF Decision, ReviewIntent, ReviewOutcome, Drafts!Intent, Drafts!Outcome, Time
  <2>8. Time \subseteq Nat
    BY DraftConstants DEF Time, Drafts!Time
  <2>9. review[k].created_at <= reviewed[k].completed_at
    BY <2>4, <2>7, <2>8 DEF ReadableReviewed
  <2>10. QED
    BY <2>3, <2>4, <2>5, <2>6, <2>7, <2>8, <2>9 DEF ReviewRowInv
<1>2. QED
  BY <1>1, Invariance, PTL

\* Every answered decision is the stored one, of the request that was answered.
THEOREM DecisionAnswers == Spec => []DecisionAnswersAgree
<1>1. ASSUME IInv PROVE DecisionAnswersAgree
  BY <1>1 DEF IInv, DeciderInv, DecisionAnswersAgree
<1>2. QED
  BY <1>1, Invariance, PTL

-----------------------------------------------------------------------------
(* The refinement *)

\* Adding the intent of a verifier's review, and adding its outcome.
Inserts(v) ==
  /\ stage[v] = "insert" /\ ReviewUnused(v) /\ CommitReview(v) /\ UNCHANGED checked

Settles(v) ==
  /\ stage[v] = "commit" /\ CommitReviewed(v) /\ UNCHANGED checked

\* What any step does to the reviews and to the count of their checks.
LEMMA DurableEffect ==
  ASSUME IInv, [Next]_vars
  PROVE  \/ UNCHANGED <<review, reviewed, checked>>
         \/ \E v \in Verifier : Inserts(v) \/ Check(v) \/ Settles(v)
<1>1. ASSUME NEW v \in Verifier, VerifyStep(v)
      PROVE  UNCHANGED <<review, reviewed, checked>> \/ Inserts(v) \/ Check(v) \/ Settles(v)
  <2>1. CASE \/ Lookup(v) \/ TakeBench(v) \/ Prepare(v) \/ ReserveRead(v) \/ Raced(v)
             \/ Check(v) \/ ChecksEnd(v) \/ ChecksBreak(v) \/ CompleteRead(v) \/ ReadBack(v)
    BY <2>1 DEF Lookup, TakeBench, Prepare, ReserveRead, Raced, ChecksEnd, ChecksBreak,
                CompleteRead, ReadBack, reviewTables
  <2>2. CASE ReserveCommit(v)
    BY <2>2 DEF ReserveCommit, Inserts, reviewTables
  <2>3. CASE CompleteCommit(v)
    BY <2>3 DEF CompleteCommit, Settles, reviewTables
  <2>4. QED
    BY <1>1, <2>1, <2>2, <2>3 DEF VerifyStep
<1>2. ASSUME NEW v \in Decider, DecideStep(v)
      PROVE  UNCHANGED <<review, reviewed, checked>>
  BY <1>2 DEF DecideStep, ReadRun, DecideRead, DecideCommit, CommitDecision, reviewTables
<1>3. ASSUME NEW v \in Caller, DatabaseError(v)
      PROVE  \/ UNCHANGED <<review, reviewed, checked>>
             \/ v \in Verifier /\ (Inserts(v) \/ Settles(v))
  <2>1. stage[v] \in {"insert", "commit"} => v \in Verifier
    BY DEF IInv, DeciderInv, Caller
  <2>2. QED
    BY <1>3, <2>1
       DEF DatabaseError, Inserts, Settles, CommitDecision, reviewTables
<1>4. ASSUME NEW v \in Caller, NEW q \in Process, NEW w,
             AskReview(v, q, w) \/ AskDecision(v, q, w)
      PROVE  UNCHANGED <<review, reviewed, checked>>
  BY <1>4 DEF AskReview, AskDecision, reviewTables
<1>5. ASSUME NEW q \in Process, CrashRestart(q)
      PROVE  UNCHANGED <<review, reviewed, checked>>
  BY <1>5 DEF CrashRestart, reviewTables
<1>6. CASE UNCHANGED reviewVars
  BY <1>6 DEF reviewVars
<1>7. QED
  BY <1>1, <1>2, <1>3, <1>4, <1>5, <1>6 DEF Next, DraftStep, Caller, vars

\* The reviews implement AttemptLedger: an id is bound to one request for one proposal,
\* its checks are started at most once, and it is settled at most once, afterwards.
THEOREM Refinement == Spec => LedgerSpec
<1>1. Init => Ledger!Init
  BY DEF Init, Ledger!Init, ReviewState
<1>2. ASSUME IInv, [Next]_vars
      PROVE  [Ledger!Next]_(Ledger!ledgerVars)
  <2> USE DEF Owning
  <2>1. CASE UNCHANGED <<review, reviewed, checked>>
    BY <2>1 DEF Ledger!ledgerVars, ReviewState
  <2>2. ASSUME NEW v \in Verifier, Inserts(v)
        PROVE  Ledger!Next
    <3> DEFINE k == WishOf(v).id
    <3>1. /\ k \in Review /\ wants[v] \in ReviewRequest /\ review[k] = None
          /\ made[v] # None /\ made[v].request = wants[v] /\ reviewed[k] = None
          /\ TypeOK /\ review' = [review EXCEPT ![k] = made[v]] /\ UNCHANGED <<reviewed, checked>>
      BY <1>2, <2>2, StartedVerifier, ReviewConstants
         DEF IInv, ReviewRowInv, VerifierInv, Prepared, Inserts, ReviewUnused, CommitReview
    <3>2. Ledger!Reserve(k, wants[v])
      BY <3>1 DEF Ledger!Reserve, TypeOK, ReviewState
    <3>3. review'[k] = made[v]
      BY <3>1 DEF TypeOK
    <3>4. QED
      BY <3>1, <3>2, <3>3 DEF Ledger!Next, Ledger!Reserve
  <2>3. ASSUME NEW v \in Verifier, Check(v)
        PROVE  Ledger!Next
    <3> DEFINE k == WishOf(v).id
    <3>1. /\ k \in Review /\ checked[k] = 0 /\ review[k] # None /\ reviewed[k] = None
          /\ TypeOK /\ UNCHANGED <<review, reviewed>> /\ checked' = [checked EXCEPT ![k] = @ + 1]
      BY <1>2, <2>3, StartedVerifier, ReviewConstants
         DEF Check, VerifierInv, Prepared, reviewTables
    <3>2. Ledger!Run(k)
      BY <3>1 DEF Ledger!Run, TypeOK, ReviewState
    <3>3. QED
      BY <3>1, <3>2 DEF Ledger!Next
  <2>4. ASSUME NEW v \in Verifier, Settles(v)
        PROVE  Ledger!Next
    <3> DEFINE k == WishOf(v).id
    <3>1. /\ k \in Review /\ checked[k] = 1 /\ review[k] # None /\ reviewed[k] = None
          /\ found[v] # None /\ found[v].status \in {"completed", "failed"}
          /\ TypeOK /\ UNCHANGED <<review, checked>>
          /\ reviewed' = [reviewed EXCEPT ![k] = found[v]]
      BY <1>2, <2>4, StartedVerifier, ReviewConstants
         DEF Settles, CommitReviewed, VerifierInv, Prepared, ReviewOutcome
    <3>2. Ledger!Settle(k, found[v].status)
      BY <3>1 DEF Ledger!Settle, TypeOK, ReviewState
    <3>3. QED
      BY <3>1, <3>2 DEF Ledger!Next
  <2>5. QED
    BY <1>2, <2>1, <2>2, <2>3, <2>4, DurableEffect
<1>3. QED
  BY <1>1, <1>2, Invariance, PTL DEF Spec, LedgerSpec, Ledger!Spec

=============================================================================
