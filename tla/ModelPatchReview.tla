-------------------------- MODULE ModelPatchReview --------------------------
(***************************************************************************)
(* The review of a saved model patch and the engineers' decisions about    *)
(* it: SavedPatchReviewWorkflow.verify, get and decide                     *)
(* (backend/app/patching/saved_review.py) over ModelPatchReviewRecords     *)
(* (db/model_patch_review_records.py), composed with the generation of the *)
(* drafts (ModelPatchDraft), whose tables, processes and clock they share. *)
(*                                                                         *)
(* A decision pins a review by hash, the review pins a proposal, and every *)
(* read of one of them validates all records below it again.               *)
(***************************************************************************)
EXTENDS Integers, FiniteSets

CONSTANTS
  Call, Process, Patch, Finding, Offered, Target, Allows, \* of ModelPatchDraft
  FaultKinds, MaxFaults, MaxClock, None,
  Verifier,         \* POST .../verify handlers
  Decider,          \* POST .../decisions handlers
  Review,           \* verification ids, chosen by clients
  DecisionId,       \* decision ids, chosen by clients
  OfferedReviews,   \* what clients ask verifiers for
  OfferedDecisions, \* what engineers decide
  Engine            \* the processes whose operator allows the external checks

VARIABLES draft, drafted, slot, pc, site, asked, built, result, reply, clock, faults,
          asks

Drafts == INSTANCE ModelPatchDraft

Time == Drafts!Time

Caller == Verifier \union Decider

\* A selection of retained originals: when the youngest was saved, and whether they
\* are complete and contain the repaired device.
Network == [at: Time, usable: BOOLEAN]

\* "all" selects the engine and the model, "local" neither of them.
Wish == [id: Review, patch: Patch, network: Network, checks: {"local", "all"}]

\* The pin stands for proposal_sha256: the proposal that the client looked at.
Proposal == [intent: Drafts!Intent \union {None}, outcome: Drafts!Outcome \union {None}]

ReviewRequest == [wish: Wish, pin: Proposal]

ReviewIntent == [request: ReviewRequest, created_at: Time]

\* "clean" means that approval_blockers finds nothing.
ReviewOutcome ==
  [of: ReviewIntent, completed_at: Time, status: {"completed", "failed"}, clean: BOOLEAN]

Run == [intent: ReviewIntent \union {None}, outcome: ReviewOutcome \union {None}]

\* "attested": exactly the missing checks acknowledged, and all three attestations.
Verdict == [id: DecisionId, review: Review, patch: Patch,
            verdict: {"approved", "rejected"}, attested: BOOLEAN]

\* "seen" stands for review_sha256: the run that the engineer looked at.
DecisionRequest == [verdict: Verdict, seen: Run]

Role == {"engineer", "admin"}

Decision == [request: DecisionRequest, created_at: Time, role: Role]

\* The assumptions of ModelPatchDraft about the constants that both share.
ASSUME DraftConstants ==
  /\ Offered \subseteq Drafts!Request
  /\ Target \in [Finding -> Drafts!SelectedFacts \union {None}]
  /\ \A f \in Finding : Target[f] # None => Target[f].source_at <= Target[f].analysis_at
  /\ Allows \in [Process -> (SUBSET Drafts!Protocol) \union {None}]
  /\ FaultKinds \subseteq {"crash", "database", "clock"}
  /\ MaxFaults \in Nat
  /\ MaxClock \in Nat
  /\ None \notin Call \union Process \union Drafts!Request \union Drafts!Intent
                 \union Drafts!Outcome \union Drafts!SelectedFacts \union Drafts!View
                 \union Drafts!Reply

ASSUME ReviewConstants ==
  /\ OfferedReviews \subseteq Wish
  /\ OfferedDecisions \subseteq Verdict
  /\ Engine \subseteq Process
  /\ Verifier \intersect Decider = {}
  /\ None \notin Caller \union ReviewIntent \union ReviewOutcome \union Decision

VARIABLES
  review,    \* table model_patch_review_intents, by primary key
  reviewed,  \* table model_patch_review_outcomes, by primary key
  decision,  \* table model_patch_decisions, by primary key
  bench,     \* bench[q]: the verifier that holds process q's PatchVerificationRuntime
  stage, host, wants, made, found, answer,  \* of each caller
  checked    \* checked[k]: how often the checks of review k were started

reviewTables == <<review, reviewed, decision>>
ask == <<host, wants>>
reviewVars == <<review, reviewed, decision, bench, stage, host, wants, made, found,
                answer, checked>>
draftVars == <<draft, drafted, slot, pc, site, asked, built, result, reply, asks>>
world == <<draftVars, clock, faults>>
vars == <<world, reviewVars>>

Init ==
  /\ Drafts!Init
  /\ review = [k \in Review |-> None]
  /\ reviewed = [k \in Review |-> None]
  /\ decision = [e \in DecisionId |-> None]
  /\ bench = [q \in Process |-> None]
  /\ stage = [v \in Caller |-> "idle"]
  /\ host = [v \in Caller |-> None]
  /\ wants = [v \in Caller |-> None]
  /\ made = [v \in Caller |-> None]
  /\ found = [v \in Caller |-> None]
  /\ answer = [v \in Caller |-> None]
  /\ checked = [k \in Review |-> 0]

-----------------------------------------------------------------------------
(* Helpers *)

Saved(k) == [intent |-> review[k], outcome |-> reviewed[k]]

Goto(v, s) == stage' = [stage EXCEPT ![v] = s]

Answer(v, code, view) ==
  /\ Goto(v, "done")
  /\ answer' = [answer EXCEPT ![v] = [code |-> code, view |-> view]]
  /\ bench' = [q \in Process |-> IF bench[q] = v THEN None ELSE bench[q]]

\* _same, and the test at the beginning of verify.
SameReview(old, r) == old.request = r

\* The draft a review selects: finished with edits, and the one the client saw.
Selected(r) ==
  LET p == r.wish.patch IN
  /\ drafted[p] # None
  /\ drafted[p].status = "draft"
  /\ Drafts!Saved(p) = r.pin

\* The network a review selects was retained before the draft was asked for, and is
\* not younger than the intent that _prepare stamps, at every read as well.
NetworkUsable(r) ==
  /\ r.wish.network.usable
  /\ r.wish.network.at <= draft[r.wish.patch].created_at
  /\ r.wish.network.at <= clock

\* What ModelPatchReviewRecords._intent demands.
ReadableReview(i) ==
  /\ Selected(i.request)
  /\ i.created_at >= drafted[i.request.wish.patch].completed_at
  /\ i.request.wish.network.at <= draft[i.request.wish.patch].created_at

\* What ModelPatchReviewRecords._outcome demands.
ReadableReviewed(o, i) == o.of = i /\ o.completed_at >= i.created_at

BlockersIgnored(d, run) ==
  /\ d.request.verdict.patch = run.intent.request.wish.patch
  /\ d.request.seen = run
  /\ run.outcome # None
  /\ d.created_at >= run.outcome.completed_at
  /\ d.request.verdict.verdict = "approved" => d.request.verdict.attested

\* validate_decision.
Decidable(d, run) ==
  /\ d.request.verdict.patch = run.intent.request.wish.patch
  /\ d.request.seen = run
  /\ run.outcome # None
  /\ d.created_at >= run.outcome.completed_at
  /\ d.request.verdict.verdict = "approved" =>
       run.outcome.clean /\ d.request.verdict.attested

\* What ModelPatchReviewRecords._decision demands.
ReadableDecision(d) ==
  LET k == d.request.verdict.review IN
  /\ review[k] # None
  /\ Decidable(d, Saved(k))

-----------------------------------------------------------------------------
(* verify *)

WishOf(v) == wants[v].wish

AskReview(v, q, w) ==
  /\ stage[v] = "idle"
  /\ Goto(v, "lookup")
  /\ host' = [host EXCEPT ![v] = q]
  /\ wants' = [wants EXCEPT ![v] = [wish |-> w, pin |-> Drafts!Saved(w.patch)]]
  /\ UNCHANGED <<world, reviewTables, bench, made, found, answer, checked>>

Lookup(v) ==
  LET old == review[WishOf(v).id] IN
  /\ stage[v] = "lookup"
  /\ \/ /\ old # None
        /\ SameReview(old, wants[v])
        /\ Goto(v, "readback")
        /\ UNCHANGED <<bench, answer>>
     \/ /\ old # None
        /\ ~SameReview(old, wants[v])
        /\ Answer(v, "conflict", None)
     \/ /\ old = None
        /\ WishOf(v).checks = "all" /\ host[v] \notin Engine
        /\ Answer(v, "disabled", None)
     \/ /\ old = None
        /\ WishOf(v).checks = "all" /\ host[v] \in Engine
        /\ Goto(v, "slot")
        /\ UNCHANGED <<bench, answer>>
     \/ /\ old = None
        /\ WishOf(v).checks = "local"
        /\ Goto(v, "prepare")
        /\ UNCHANGED <<bench, answer>>
  /\ UNCHANGED <<world, reviewTables, ask, made, found, checked>>

\* Lock.acquire(blocking=False).
BenchFree(q) == bench[q] = None

TakeBench(v) ==
  /\ stage[v] = "slot"
  /\ \/ /\ BenchFree(host[v])
        /\ bench' = [bench EXCEPT ![host[v]] = v]
        /\ Goto(v, "prepare")
        /\ UNCHANGED answer
     \/ /\ ~BenchFree(host[v])
        /\ Answer(v, "busy", None)
  /\ UNCHANGED <<world, reviewTables, ask, made, found, checked>>

PrepareWaits(v) ==
  LET r == wants[v] IN
  /\ stage[v] = "prepare"
  /\ draft[r.wish.patch] # None /\ Selected(r) /\ NetworkUsable(r)
  /\ made' = [made EXCEPT ![v] = [request |-> r, created_at |-> clock]]
  /\ Goto(v, "reserve")
  /\ UNCHANGED <<world, reviewTables, bench, ask, found, answer, checked>>

\* _prepare: the draft is replayed, the originals are read, the intent is stamped.
Prepare(v) ==
  LET r == wants[v] IN
  /\ stage[v] = "prepare"
  /\ \/ /\ draft[r.wish.patch] = None
        /\ Answer(v, "not_found", None)
        /\ UNCHANGED made
     \/ /\ draft[r.wish.patch] # None
        /\ ~Selected(r) \/ ~NetworkUsable(r)
        /\ Answer(v, "conflict", None)
        /\ UNCHANGED made
     \/ /\ draft[r.wish.patch] # None
        /\ Selected(r) /\ NetworkUsable(r)
        /\ made' = [made EXCEPT ![v] = [request |-> r, created_at |-> clock]]
        /\ Goto(v, "reserve")
        /\ UNCHANGED <<bench, answer>>
  /\ UNCHANGED <<world, reviewTables, ask, found, checked>>

ReserveRead(v) ==
  LET old == review[WishOf(v).id] IN
  /\ stage[v] = "reserve"
  /\ \/ /\ old # None
        /\ SameReview(old, wants[v])
        /\ Goto(v, "readback")
        /\ UNCHANGED <<bench, answer>>
     \/ /\ old # None
        /\ ~SameReview(old, wants[v])
        /\ Answer(v, "conflict", None)
     \/ /\ old = None
        /\ ReadableReview(made[v])
        /\ Goto(v, "insert")
        /\ UNCHANGED <<bench, answer>>
     \/ /\ old = None
        /\ ~ReadableReview(made[v])
        /\ Answer(v, "unavailable", None)
  /\ UNCHANGED <<world, reviewTables, ask, made, found, checked>>

CommitReview(v) ==
  /\ review' = [review EXCEPT ![WishOf(v).id] = made[v]]
  /\ UNCHANGED <<reviewed, decision>>

NeverChecked(v) == TRUE

\* The primary key of the reviews.
ReviewUnused(v) == review[WishOf(v).id] = None

ReserveCommit(v) ==
  /\ stage[v] = "insert"
  /\ \/ /\ ReviewUnused(v)
        /\ CommitReview(v)
        /\ Goto(v, "execute")
     \/ /\ ~ReviewUnused(v)
        /\ Goto(v, "raced")
        /\ UNCHANGED reviewTables
  /\ UNCHANGED <<world, bench, ask, made, found, answer, checked>>

\* Where the loser of the insert race goes on once it has read the winner's row.
AfterLostRace == "readback"

Raced(v) ==
  /\ stage[v] = "raced"
  /\ \/ /\ SameReview(review[WishOf(v).id], wants[v])
        /\ Goto(v, AfterLostRace)
        /\ UNCHANGED <<bench, answer>>
     \/ /\ ~SameReview(review[WishOf(v).id], wants[v])
        /\ Answer(v, "conflict", None)
  /\ UNCHANGED <<world, reviewTables, ask, made, found, checked>>

Check(v) ==
  /\ stage[v] = "execute"
  /\ checked' = [checked EXCEPT ![WishOf(v).id] = @ + 1]
  /\ Goto(v, "checking")
  /\ UNCHANGED <<world, reviewTables, bench, ask, made, found, answer>>

Outcome(v, status, clean) ==
  [of |-> made[v], completed_at |-> clock, status |-> status, clean |-> clean]

\* The checks end: with a report (clean only if both external checks were selected
\* and passed), or with an error that is saved as "failed".
ChecksEnd(v) ==
  /\ stage[v] = "checking"
  /\ \E o \in {Outcome(v, "completed", FALSE), Outcome(v, "failed", FALSE)}
            \union (IF WishOf(v).checks = "all"
                    THEN {Outcome(v, "completed", TRUE)} ELSE {}) :
       found' = [found EXCEPT ![v] = o]
  /\ Goto(v, "complete")
  /\ UNCHANGED <<world, reviewTables, bench, ask, made, answer, checked>>

\* _statistical finds an artifact that no longer reproduces its scores: that error is
\* not among those which become a failed outcome, and the review stays running.
ChecksBreak(v) ==
  /\ stage[v] = "checking"
  /\ Answer(v, "unavailable", None)
  /\ UNCHANGED <<world, reviewTables, ask, made, found, checked>>

\* complete returned: verify raises for a failed review and reads any other back.
Finish(v) ==
  \/ /\ found[v].status = "failed"
     /\ Answer(v, "review_failed", None)
  \/ /\ found[v].status = "completed"
     /\ Goto(v, "readback")
     /\ UNCHANGED <<bench, answer>>

AcceptedUnread(v) == TRUE

\* What complete tests before it adds the row.
Accepted(v) == ReadableReviewed(found[v], review[WishOf(v).id])

CompleteRead(v) ==
  LET old == reviewed[WishOf(v).id] IN
  /\ stage[v] = "complete"
  /\ \/ /\ review[WishOf(v).id] = None
        /\ Answer(v, "unavailable", None)
     \/ /\ review[WishOf(v).id] # None
        /\ old # None /\ old # found[v]
        /\ Answer(v, "conflict", None)
     \/ /\ review[WishOf(v).id] # None
        /\ old # None /\ old = found[v]
        /\ Finish(v)
     \/ /\ review[WishOf(v).id] # None
        /\ old = None
        /\ ~Accepted(v)
        /\ Answer(v, "unavailable", None)
     \/ /\ review[WishOf(v).id] # None
        /\ old = None
        /\ Accepted(v)
        /\ Goto(v, "commit")
        /\ UNCHANGED <<bench, answer>>
  /\ UNCHANGED <<world, reviewTables, ask, made, found, checked>>

CommitReviewed(v) ==
  /\ reviewed' = [reviewed EXCEPT ![WishOf(v).id] = found[v]]
  /\ UNCHANGED <<review, decision>>

CompleteCommit(v) ==
  /\ stage[v] = "commit"
  /\ \/ /\ reviewed[WishOf(v).id] = None
        /\ CommitReviewed(v)
        /\ Finish(v)
     \/ /\ reviewed[WishOf(v).id] # None
        /\ Answer(v, "unavailable", None)
        /\ UNCHANGED reviewTables
  /\ UNCHANGED <<world, ask, made, found, checked>>

\* get(patch_id, verification_id), the last call of every successful verify: it
\* prepares the review once more, with a new reading of the clock.
ReadBack(v) ==
  LET k == WishOf(v).id
      code == IF found[v] = None THEN "existing" ELSE "created"
  IN
  /\ stage[v] = "readback"
  /\ \/ /\ NetworkUsable(wants[v])
        /\ Answer(v, code, Saved(k))
     \/ /\ ~NetworkUsable(wants[v])
        /\ Answer(v, "unavailable", None)
  /\ UNCHANGED <<world, reviewTables, ask, made, found, checked>>

-----------------------------------------------------------------------------
(* decide *)

VerdictOf(v) == wants[v].verdict

AskDecision(v, q, w) ==
  /\ stage[v] = "idle"
  /\ Goto(v, "read")
  /\ host' = [host EXCEPT ![v] = q]
  /\ wants' = [wants EXCEPT ![v] = [verdict |-> w, seen |-> Saved(w.review)]]
  /\ UNCHANGED <<world, reviewTables, bench, made, found, answer, checked>>

\* get, then validate_decision on a decision stamped now, under the caller's role.
ReadRun(v, role) ==
  LET k == VerdictOf(v).review
      new == [request |-> wants[v], created_at |-> clock, role |-> role]
      known == review[k] # None /\ review[k].request.wish.patch = VerdictOf(v).patch
  IN
  /\ stage[v] = "read"
  /\ \/ /\ ~known
        /\ Answer(v, "not_found", None)
        /\ UNCHANGED made
     \/ /\ known
        /\ ~NetworkUsable(review[k].request)
        /\ Answer(v, "unavailable", None)
        /\ UNCHANGED made
     \/ /\ known
        /\ NetworkUsable(review[k].request)
        /\ ~Decidable(new, Saved(k))
        /\ Answer(v, "conflict", None)
        /\ UNCHANGED made
     \/ /\ known
        /\ NetworkUsable(review[k].request)
        /\ Decidable(new, Saved(k))
        /\ made' = [made EXCEPT ![v] = new]
        /\ Goto(v, "decide")
        /\ UNCHANGED <<bench, answer>>
  /\ UNCHANGED <<world, reviewTables, ask, found, checked>>

\* stored.request == decision.request; neither role nor time is compared.
SameDecision(old, new) == old.request = new.request

AnswerNew(v, old) == made[v]

\* A replay is answered with the stored decision, never with the new one.
Replayed(v, old) == old

\* The stored decision wins, here and after a lost insert race.
AnswerStored(v) ==
  LET old == decision[VerdictOf(v).id] IN
  \/ /\ SameDecision(old, made[v])
     /\ Answer(v, "existing", Replayed(v, old))
  \/ /\ ~SameDecision(old, made[v])
     /\ Answer(v, "conflict", None)

DecideRead(v) ==
  LET old == decision[VerdictOf(v).id] IN
  /\ stage[v] = "decide"
  /\ \/ /\ old # None
        /\ AnswerStored(v)
     \/ /\ old = None
        /\ ReadableDecision(made[v])
        /\ Goto(v, "record")
        /\ UNCHANGED <<bench, answer>>
     \/ /\ old = None
        /\ ~ReadableDecision(made[v])
        /\ Answer(v, "unavailable", None)
  /\ UNCHANGED <<world, reviewTables, ask, made, found, checked>>

CommitDecision(v) ==
  /\ decision' = [decision EXCEPT ![VerdictOf(v).id] = made[v]]
  /\ UNCHANGED <<review, reviewed>>

\* The primary key of the decisions.
DecisionUnused(v) == decision[VerdictOf(v).id] = None

DecideCommit(v) ==
  /\ stage[v] = "record"
  /\ \/ /\ DecisionUnused(v)
        /\ CommitDecision(v)
        /\ Answer(v, "created", made[v])
     \/ /\ ~DecisionUnused(v)
        /\ AnswerStored(v)
        /\ UNCHANGED reviewTables
  /\ UNCHANGED <<world, ask, made, found, checked>>

-----------------------------------------------------------------------------
(* Faults *)

\* A statement or a commit raises; a commit may be durable all the same.
DatabaseError(v) ==
  /\ Drafts!Fault("database")
  /\ stage[v] \in {"lookup", "prepare", "reserve", "insert", "raced", "complete",
                   "commit", "readback", "read", "decide", "record"}
  /\ \/ UNCHANGED reviewTables
     \/ stage[v] = "insert" /\ ReviewUnused(v) /\ CommitReview(v)
     \/ stage[v] = "commit" /\ reviewed[WishOf(v).id] = None /\ CommitReviewed(v)
     \/ stage[v] = "record" /\ DecisionUnused(v) /\ CommitDecision(v)
  /\ Answer(v, "unavailable", None)
  /\ UNCHANGED <<draftVars, clock, ask, made, found, checked>>

\* Process q dies with the calls of both workflows.
CrashRestart(q) ==
  /\ Drafts!Fault("crash")
  /\ Drafts!Die(q)
  /\ stage' = [v \in Caller |->
       IF host[v] = q /\ stage[v] \notin {"idle", "done"} THEN "dead" ELSE stage[v]]
  /\ bench' = [bench EXCEPT ![q] = None]
  /\ UNCHANGED <<clock, reviewTables, ask, made, found, answer, checked>>

-----------------------------------------------------------------------------

VerifyStep(v) ==
  \/ Lookup(v) \/ TakeBench(v) \/ Prepare(v)
  \/ ReserveRead(v) \/ ReserveCommit(v) \/ Raced(v)
  \/ Check(v) \/ ChecksEnd(v) \/ ChecksBreak(v)
  \/ CompleteRead(v) \/ CompleteCommit(v) \/ ReadBack(v)

DecideStep(v) ==
  \/ \E role \in Role : ReadRun(v, role)
  \/ DecideRead(v)
  \/ DecideCommit(v)

\* The generation of the drafts goes on as ModelPatchDraft describes it.
DraftStep(c) ==
  /\ \/ \E q \in Process, r \in Offered : Drafts!Arrive(c, q, r)
     \/ Drafts!CallStep(c)
     \/ Drafts!DatabaseError(c)
  /\ UNCHANGED reviewVars

Next ==
  \/ \E c \in Call : DraftStep(c)
  \/ \E v \in Verifier :
       \/ \E q \in Process, w \in OfferedReviews : AskReview(v, q, w)
       \/ VerifyStep(v)
       \/ DatabaseError(v)
  \/ \E v \in Decider :
       \/ \E q \in Process, w \in OfferedDecisions : AskDecision(v, q, w)
       \/ DecideStep(v)
       \/ DatabaseError(v)
  \/ \E q \in Process : CrashRestart(q)
  \/ Drafts!ClockAdvances /\ UNCHANGED reviewVars
  \/ Drafts!ClockSetBack /\ UNCHANGED reviewVars

Spec == Init /\ [][Next]_vars

\* Started handlers run on: the slot is tried, the engine and the model have
\* deadlines, and no transaction waits for another one's handler.
Fairness ==
  /\ \A v \in Verifier : WF_vars(VerifyStep(v))
  /\ \A v \in Decider : WF_vars(DecideStep(v))

FairSpec == Spec /\ Fairness

-----------------------------------------------------------------------------
(* Properties *)

Stage == {"idle", "lookup", "slot", "prepare", "reserve", "insert", "raced", "execute",
          "checking", "complete", "commit", "readback", "read", "decide", "record",
          "done", "dead"}

TypeOK ==
  /\ Drafts!TypeOK
  /\ review \in [Review -> ReviewIntent \union {None}]
  /\ reviewed \in [Review -> ReviewOutcome \union {None}]
  /\ decision \in [DecisionId -> Decision \union {None}]
  /\ bench \in [Process -> Verifier \union {None}]
  /\ stage \in [Caller -> Stage]
  /\ host \in [Caller -> Process \union {None}]
  /\ \A v \in Verifier :
       /\ wants[v] \in ReviewRequest \union {None}
       /\ made[v] \in ReviewIntent \union {None}
       /\ found[v] \in ReviewOutcome \union {None}
  /\ \A v \in Decider :
       /\ wants[v] \in DecisionRequest \union {None}
       /\ made[v] \in Decision \union {None}
       /\ found[v] = None
  /\ checked \in [Review -> Nat]

\* The external checks of one process never run at the same time.
OneSelectedWorker ==
  \A v, w \in Verifier :
    /\ stage[v] = "checking" /\ stage[w] = "checking" /\ host[v] = host[w]
    /\ WishOf(v).checks = "all" /\ WishOf(w).checks = "all"
    => v = w

\* Stages inside "with runtime.selected_worker()".
InWorker == {"prepare", "reserve", "insert", "raced", "execute", "checking", "complete",
             "commit", "readback"}

\* The runtime of a process is held by a verifier that is still under way in that process:
\* no refusal, lost race, error or crash of a long check leaves it locked.
BenchComesBack ==
  \A q \in Process :
    bench[q] # None => host[bench[q]] = q /\ stage[bench[q]] \in InWorker

\* Every stored record passes the validation of later reads, and with it everything
\* below it: a decision stays readable because its review and its draft do.
ChainReadable ==
  /\ Drafts!DraftsReadable
  /\ \A k \in Review :
       /\ review[k] # None => ReadableReview(review[k])
       /\ reviewed[k] # None =>
            review[k] # None /\ ReadableReviewed(reviewed[k], review[k])
  /\ \A e \in DecisionId : decision[e] # None => ReadableDecision(decision[e])

\* The chain and the handlers that build it: their types, what is stored, and the lock.
ReviewsAgree == TypeOK /\ ChainReadable /\ OneSelectedWorker /\ BenchComesBack

\* An approval stands on a finished review without blockers, whose external checks
\* were really started, and on a draft that the provider was asked for once; each of
\* them was recorded before the next began.
ApprovalsJustified ==
  \A e \in DecisionId :
    LET d == decision[e]
        k == d.request.verdict.review
        p == d.request.verdict.patch
    IN
    d # None /\ d.request.verdict.verdict = "approved" =>
      /\ d.request.verdict.attested
      /\ reviewed[k] # None /\ reviewed[k].status = "completed" /\ reviewed[k].clean
      /\ review[k].request.wish.checks = "all" /\ checked[k] = 1
      /\ drafted[p] # None /\ drafted[p].status = "draft" /\ asks[p] = 1
      /\ draft[p].created_at <= drafted[p].completed_at
      /\ drafted[p].completed_at <= review[k].created_at
      /\ review[k].created_at <= reviewed[k].completed_at
      /\ reviewed[k].completed_at <= d.created_at

\* Whoever is answered with a decision is answered with the stored one, whose first
\* role and time survive every replay.
DecisionAnswersAgree ==
  \A v \in Decider :
    answer[v] # None /\ answer[v].view # None =>
      /\ answer[v].view = decision[VerdictOf(v).id]
      /\ answer[v].view.request = wants[v]

\* Stages between the reservation of a review and the end of its completion.
Owning == {"execute", "checking", "complete", "commit"}

Prepared == {"reserve", "insert"} \union Owning

\* Stages at which a verifier of the external checks holds its process's runtime.
Holds(v) == stage[v] \in {"prepare"} \union Prepared /\ WishOf(v).checks = "all"

\* What a verifier knows at each stage.
VerifierInv(v) ==
  /\ stage[v] \notin {"read", "decide", "record"}
  /\ stage[v] # "idle" => host[v] \in Process /\ wants[v] \in ReviewRequest
  /\ stage[v] \in Prepared => made[v] \in ReviewIntent /\ made[v].request = wants[v]
  /\ stage[v] \in {"insert"} \union Owning => ReadableReview(made[v])
  /\ stage[v] \in Owning =>
       /\ review[WishOf(v).id] = made[v] /\ reviewed[WishOf(v).id] = None
       /\ checked[WishOf(v).id] = IF stage[v] = "execute" THEN 0 ELSE 1
  /\ stage[v] \in {"complete", "commit"} =>
       /\ found[v] \in ReviewOutcome
       /\ found[v].clean => found[v].status = "completed" /\ WishOf(v).checks = "all"
  /\ stage[v] = "commit" => ReadableReviewed(found[v], made[v])
  /\ Holds(v) => bench[host[v]] = v

\* What an engineer's handler knows, and that its answer stays the stored decision.
DeciderInv(v) ==
  /\ stage[v] \in {"idle", "read", "decide", "record", "done", "dead"}
  /\ stage[v] # "idle" => host[v] \in Process /\ wants[v] \in DecisionRequest
  /\ stage[v] \in {"decide", "record"} => made[v] \in Decision /\ made[v].request = wants[v]
  /\ stage[v] = "record" => ReadableDecision(made[v])
  /\ answer[v] # None => stage[v] = "done"
  /\ answer[v] # None /\ answer[v].view # None =>
       /\ answer[v].view = decision[VerdictOf(v).id]
       /\ answer[v].view.request = wants[v]

\* A clean outcome belongs to a completed review whose external checks were started.
ReviewRowInv(k) ==
  /\ review[k] = None => reviewed[k] = None /\ checked[k] = 0
  /\ checked[k] \in {0, 1}
  /\ reviewed[k] # None =>
       /\ checked[k] = 1
       /\ reviewed[k].clean => /\ reviewed[k].status = "completed"
                              /\ review[k].request.wish.checks = "all"

\* At most one verifier owns a review.
OneReviewer ==
  \A v, w \in Verifier :
    stage[v] \in Owning /\ stage[w] \in Owning /\ WishOf(v).id = WishOf(w).id => v = w

\* The variables of the handlers are functions of all callers.
Locals ==
  /\ wants \in [Caller -> ReviewRequest \union DecisionRequest \union {None}]
  /\ made \in [Caller -> ReviewIntent \union Decision \union {None}]
  /\ found \in [Caller -> ReviewOutcome \union {None}]
  /\ DOMAIN answer = Caller

\* The inductive invariant, on top of that of the drafts.
IInv ==
  /\ Drafts!IInv
  /\ TypeOK
  /\ Locals
  /\ ChainReadable
  /\ OneReviewer
  /\ \A v \in Verifier : VerifierInv(v)
  /\ \A v \in Decider : DeciderInv(v)
  /\ \A k \in Review : ReviewRowInv(k)

\* Repeating a stored decision is not a conflict, whoever repeats it.
RepeatedDecisionAccepted ==
  [][\A v \in Decider :
       LET old == decision[VerdictOf(v).id] IN
       stage[v] # "idle" /\ old # None =>
         (old.request = wants[v] /\ stage[v] # stage'[v] /\ stage'[v] = "done" =>
            answer'[v].code # "conflict")]_vars

\* A review is an attempt of the ledger.
ReviewState(k) ==
  IF review[k] = None THEN "absent"
  ELSE IF reviewed[k] = None THEN "pending" ELSE reviewed[k].status

Ledger == INSTANCE AttemptLedger WITH
  Key <- Review,
  Request <- ReviewRequest,
  NoRequest <- None,
  state <- [k \in Review |-> ReviewState(k)],
  bound <- [k \in Review |-> IF review[k] = None THEN None ELSE review[k].request],
  runs <- checked

LedgerSpec == Ledger!Spec

\* Every reviewer and every engineer is answered, or their process died.
EveryCallerAnswered ==
  \A v \in Caller : stage[v] \in {"lookup", "read"} ~> stage[v] \in {"done", "dead"}

=============================================================================
