------------------------- MODULE EvidenceChain_proofs -------------------------
(***************************************************************************)
(* Safety of the evidence chain for any number of handlers, processes,     *)
(* records, versions and faults, from any database that its own            *)
(* transactions could have left: evidence stays readable, clients, tables  *)
(* and runs agree, and the chain implements EvidenceLog.                   *)
(***************************************************************************)
EXTENDS EvidenceChain, TLAPS

\* Whatever is stored stays as it is, and only attempts get outcomes.
TablesGrow ==
  \A x \in Key : /\ rows[x] # None => rows'[x] = rows[x]
                 /\ outcomes[x] # None => outcomes'[x] = outcomes[x]
                 /\ outcomes'[x] # None => x[1] \in Attempt

-----------------------------------------------------------------------------
(* Valid records stay valid *)

LEMMA Keys ==
  /\ {"draft"} \X Name \subseteq Key /\ {"report"} \X Name \subseteq Key
  /\ Attempt \X Name \subseteq Key
  /\ None \notin Key
  /\ \A w \in Wish : Target(w) \in Key /\ Target(w)[1] = w.kind
BY ChainConstants DEF Key, Kind, Attempt, Composed, Wish, Target

\* A record that can get no outcome any more is seen as it was.
LEMMA SeenStays ==
  ASSUME ChainInv, TablesGrow, NEW x \in Key, rows[x] # None,
         x[1] \notin Attempt \/ outcomes[x] # None
  PROVE  rows'[x] = rows[x] /\ outcomes'[x] = outcomes[x] /\ Digest(x)' = Digest(x)
<1>1. rows'[x] = rows[x] /\ outcomes'[x] = outcomes[x]
  BY DEF TablesGrow, ChainInv
<1>2. QED
  BY <1>1 DEF Digest, Sha

LEMMA DraftStays ==
  ASSUME ChainInv, TablesGrow, NEW r, r.wish.over \in {"draft"} \X Name, PinsDraft(r)
  PROVE  /\ PinsDraft(r)' /\ r.wish.over \in Key /\ rows[r.wish.over] # None
         /\ rows'[r.wish.over] = rows[r.wish.over]
<1>1. r.wish.over \in Key /\ rows[r.wish.over] # None /\ r.wish.over[1] \notin Attempt
  BY Keys DEF PinsDraft, Attempt
<1>2. /\ rows'[r.wish.over] = rows[r.wish.over]
      /\ Digest(r.wish.over)' = Digest(r.wish.over)
  BY <1>1, SeenStays
<1>3. QED
  BY <1>1, <1>2 DEF PinsDraft

LEMMA IntentStays ==
  ASSUME ChainInv, TablesGrow, NEW r, r.wish.kind \in Attempt, Requested(r.wish), ValidIntent(r)
  PROVE  ValidIntent(r)'
<1>1. r.wish.over \in {"draft"} \X Name /\ PinsDraft(r)
  BY DEF Requested, ValidIntent, Selected
<1>2. PinsDraft(r)' /\ rows'[r.wish.over] = rows[r.wish.over]
  BY <1>1, DraftStays
<1>3. /\ ParsedBy(r.wish.over)' = ParsedBy(r.wish.over)
      /\ NotBefore(r, r.wish.over)' = NotBefore(r, r.wish.over)
      /\ SelectsAnalysis(r)' = SelectsAnalysis(r)
  BY <1>2 DEF ParsedBy, NotBefore, SelectsAnalysis
<1>4. QED
  BY <1>2, <1>3 DEF ValidIntent, Selected, NetworkIntent, NetworkIntentV1, NetworkIntentV2,
     NetworkIntentV3, NetworkIntentV4, ForestIntent, CompleteIntent, PartialIntent

\* An attempt that a report cites has ended.
LEMMA EndedStays ==
  ASSUME ChainInv, TablesGrow, NEW r, NEW x \in Attempt \X Name, ValidAttempt(x), Bound(x, r)
  PROVE  /\ rows'[x] = rows[x] /\ outcomes'[x] = outcomes[x]
         /\ ValidAttempt(x)' /\ Bound(x, r)'
<1>1. x \in Key /\ rows[x] # None /\ outcomes[x] # None /\ x[1] \in Attempt
  BY Keys DEF ValidAttempt, Bound
<1>2. rows'[x] = rows[x] /\ outcomes'[x] = outcomes[x] /\ Digest(x)' = Digest(x)
  BY <1>1, SeenStays
<1>3. rows[x].wish.kind \in Attempt /\ Requested(rows[x].wish)
  BY <1>1 DEF ChainInv, RowShape, Target
<1>4. ValidIntent(rows[x]) /\ ValidOutcome(outcomes[x], rows[x])
  BY <1>1 DEF ValidAttempt
<1>5. ValidIntent(rows[x])'
  BY <1>2, <1>3, <1>4, IntentStays
<1>6. ValidOutcome(outcomes[x], rows[x])'
  BY <1>2, <1>4 DEF ValidOutcome, NetworkOutcome, NetworkOutcomeV1, NetworkOutcomeV2,
     NetworkOutcomeV3, NetworkOutcomeV4, ForestOutcome, CompleteOutcome, PartialOutcome,
     OutcomeOf, Sha
<1>7. QED
  BY <1>1, <1>2, <1>5, <1>6 DEF ValidAttempt, Bound

LEMMA ReportStays ==
  ASSUME ChainInv, TablesGrow, NEW r, r.wish.kind = "report", Requested(r.wish), ValidReport(r)
  PROVE  ValidReport(r)'
<1>1. /\ r.wish.over \in Key /\ rows[r.wish.over] # None
      /\ r.wish.cites \subseteq Attempt \X Name
      /\ \A x \in r.wish.cites : ValidAttempt(x) /\ Bound(x, r)
  BY Keys DEF Requested, ValidReport
<1>2. rows'[r.wish.over] # None
  BY <1>1 DEF TablesGrow
<1>3. \A x \in r.wish.cites : /\ rows'[x] = rows[x]
                              /\ ValidAttempt(x)' /\ Bound(x, r)'
  BY <1>1, EndedStays
<1>4. \A kind : Of(kind, r) \subseteq r.wish.cites /\ Of(kind, r)' = Of(kind, r)
  BY DEF Of
<1>5. CompleteEvidence(r)' = CompleteEvidence(r)
  BY <1>3, <1>4 DEF CompleteEvidence
<1>6. \A v : NetworkUpTo(v, r)' = NetworkUpTo(v, r)
  BY <1>3, <1>4 DEF NetworkUpTo
<1>7. (ReportV1(r) \/ ReportV2(r) \/ ReportV3(r) \/ ReportV4(r) \/ ReportV5(r))'
  BY <1>3, <1>4, <1>5, <1>6 DEF ValidReport, ReportV1, ReportV2, ReportV3, ReportV4, ReportV5
<1>8. QED
  BY <1>1, <1>2, <1>3, <1>7 DEF ValidReport

LEMMA AboutStays ==
  ASSUME ChainInv, TablesGrow, NEW r, r.wish.kind \in {"decision", "risk"}, Requested(r.wish),
         AboutReport(r), ValidReport(rows[r.wish.over])
  PROVE  /\ AboutReport(r)' /\ ValidReport(rows[r.wish.over])'
         /\ rows'[r.wish.over] = rows[r.wish.over]
<1>1. /\ r.wish.over \in Key /\ rows[r.wish.over] # None /\ r.wish.over[1] = "report"
  BY Keys DEF Requested, AboutReport
<1>2. /\ rows'[r.wish.over] = rows[r.wish.over]
      /\ Digest(r.wish.over)' = Digest(r.wish.over)
  BY <1>1, SeenStays DEF Attempt
<1>3. rows[r.wish.over].wish.kind = "report" /\ Requested(rows[r.wish.over].wish)
  BY <1>1 DEF ChainInv, RowShape, Target
<1>4. ValidReport(rows[r.wish.over])'
  BY <1>2, <1>3, ReportStays
<1>5. QED
  BY <1>1, <1>2, <1>4 DEF AboutReport, NotBefore

\* What a reader accepts is accepted after every transaction that only adds.
LEMMA ValidStays ==
  ASSUME ChainInv, TablesGrow, NEW r, Requested(r.wish), ValidRow(r)
  PROVE  ValidRow(r)'
<1>1. r.wish.kind = "draft" => ValidDraft(r)'
  BY DEF ValidRow, ValidDraft
<1>2. r.wish.kind = "preflight" => ValidPreflight(r)'
  <2>1. SUFFICES ASSUME r.wish.kind = "preflight" PROVE ValidPreflight(r)'
    OBVIOUS
  <2>2. r.wish.over \in {"draft"} \X Name /\ ValidPreflight(r)
    BY <2>1 DEF Requested, ValidRow
  <2>3. PinsDraft(r)' /\ rows'[r.wish.over] = rows[r.wish.over]
    BY <2>2, DraftStays DEF ValidPreflight
  <2>4. QED
    BY <2>2, <2>3 DEF ValidPreflight, NotBefore
<1>3. r.wish.kind \in Attempt => ValidIntent(r)'
  BY IntentStays DEF ValidRow
<1>4. r.wish.kind = "report" => ValidReport(r)'
  BY ReportStays DEF ValidRow
<1>5. r.wish.kind = "decision" => ValidDecision(r)'
  <2>1. SUFFICES ASSUME r.wish.kind = "decision" PROVE ValidDecision(r)'
    OBVIOUS
  <2>2. ValidDecision(r)
    BY <2>1 DEF ValidRow
  <2>3. /\ AboutReport(r)' /\ ValidReport(rows[r.wish.over])'
        /\ rows'[r.wish.over] = rows[r.wish.over]
    BY <2>1, <2>2, AboutStays DEF ValidDecision
  <2>4. QED
    BY <2>2, <2>3 DEF ValidDecision, DecisionV1, DecisionV2, DecisionV3, DecisionV4,
       DecisionV5, DecisionOn
<1>6. r.wish.kind = "risk" => ValidRisk(r)'
  <2>1. SUFFICES ASSUME r.wish.kind = "risk" PROVE ValidRisk(r)'
    OBVIOUS
  <2>2. ValidRisk(r)
    BY <2>1 DEF ValidRow
  <2>3. /\ AboutReport(r)' /\ ValidReport(rows[r.wish.over])'
        /\ rows'[r.wish.over] = rows[r.wish.over]
    BY <2>1, <2>2, AboutStays DEF ValidRisk
  <2>4. QED
    BY <2>2, <2>3 DEF ValidRisk, RiskV1, RiskV2, RiskV3, RiskOn
<1>7. QED
  BY <1>1, <1>2, <1>3, <1>4, <1>5, <1>6 DEF ValidRow

\* Outcomes are judged by the two rows alone.
LEMMA OutcomeStays ==
  ASSUME NEW o, NEW r, ValidOutcome(o, r)
  PROVE  ValidOutcome(o, r)'
BY DEF ValidOutcome, NetworkOutcome, NetworkOutcomeV1, NetworkOutcomeV2, NetworkOutcomeV3,
   NetworkOutcomeV4, ForestOutcome, CompleteOutcome, PartialOutcome, OutcomeOf, Sha

\* What a transaction has to leave behind: rows and outcomes are added, and are valid.
LEMMA ChainGrows ==
  ASSUME ChainInv, TablesGrow,
         rows' \in [Key -> Row \union {None}], outcomes' \in [Key -> Outcome \union {None}],
         \A x \in Key : rows[x] = None /\ rows'[x] # None => RowShape(x)' /\ ValidRow(rows[x])',
         \A x \in Key : outcomes[x] = None /\ outcomes'[x] # None =>
           rows'[x] # None /\ ValidOutcome(outcomes'[x], rows'[x])
  PROVE  ChainInv'
<1>1. ASSUME NEW x \in Key, rows'[x] # None
      PROVE  RowShape(x)' /\ ValidRow(rows[x])'
  <2>1. CASE rows[x] # None
    <3>1. rows'[x] = rows[x] /\ RowShape(x) /\ Requested(rows[x].wish) /\ ValidRow(rows[x])
      BY <2>1 DEF TablesGrow, ChainInv, RowShape, EvidenceReadable, Readable
    <3>2. ValidRow(rows[x])'
      BY <3>1, ValidStays
    <3>3. QED
      BY <3>1, <3>2 DEF RowShape, Requested
  <2>2. QED
    BY <1>1, <2>1
<1>2. \A x \in Key : RowShape(x)'
  BY <1>1 DEF RowShape
<1>3. \A x \in Key : outcomes'[x] # None => x[1] \in Attempt /\ rows'[x] # None
  BY DEF TablesGrow, ChainInv
<1>4. ASSUME NEW x \in Key, rows'[x] # None
      PROVE  Readable(x)'
  <2>1. ValidRow(rows[x])' /\ Target(rows'[x].wish) = x
    BY <1>1, <1>4 DEF RowShape, Target
  <2>2. ASSUME x[1] \in Attempt
        PROVE  ValidAttempt(x)'
    <3>1. rows'[x].wish.kind \in Attempt
      BY <2>1, <2>2 DEF Target
    <3>2. ValidIntent(rows[x])'
      BY <2>1, <3>1 DEF ValidRow
    <3>3. ASSUME outcomes'[x] # None
          PROVE  ValidOutcome(outcomes[x], rows[x])'
      <4>1. CASE outcomes[x] = None
        <5>1. ValidOutcome(outcomes'[x], rows'[x])
          BY <3>3, <4>1
        <5>2. QED
          BY <5>1 DEF ValidOutcome, NetworkOutcome, NetworkOutcomeV1, NetworkOutcomeV2,
             NetworkOutcomeV3, NetworkOutcomeV4, ForestOutcome, CompleteOutcome,
             PartialOutcome, OutcomeOf, Sha
      <4>2. CASE outcomes[x] # None
        <5>1. outcomes'[x] = outcomes[x] /\ rows[x] # None /\ rows'[x] = rows[x]
          BY <4>2 DEF TablesGrow, ChainInv
        <5>2. ValidOutcome(outcomes[x], rows[x])
          BY <2>2, <4>2, <5>1 DEF ChainInv, EvidenceReadable, Readable, ValidAttempt
        <5>3. QED
          BY <5>1, <5>2, OutcomeStays
      <4>3. QED
        BY <4>1, <4>2
    <3>4. QED
      BY <1>4, <3>2, <3>3 DEF ValidAttempt
  <2>3. QED
    BY <2>1, <2>2 DEF Readable
<1>5. EvidenceReadable'
  BY <1>4 DEF EvidenceReadable
<1>6. QED
  BY <1>2, <1>3, <1>5 DEF ChainInv

-----------------------------------------------------------------------------
(* What the transactions store *)

Inserts(c) == pc[c] = "insert" /\ IdUnused(c) /\ CommitRow(c) /\ UNCHANGED started
Concludes(c) == pc[c] = "commit" /\ CommitOutcome(c) /\ UNCHANGED started
Begins(c) ==
  pc[c] = "execute" /\ started' = [started EXCEPT ![Id(c)] = @ + 1] /\ UNCHANGED tables
Quiet == UNCHANGED <<tables, started>>
Effect(c) == Quiet \/ Inserts(c) \/ Concludes(c) \/ Begins(c)

\* The tables change in two places only, and runs start in one.
LEMMA DurableStep ==
  ASSUME NEW c \in Caller, Step(c) \/ DatabaseError(c)
  PROVE  Effect(c)
<1>1. CASE Insert(c)
  BY <1>1 DEF Insert, Effect, Inserts, Quiet
<1>2. CASE Finish(c)
  BY <1>2 DEF Finish, Effect, Concludes
<1>3. CASE Execute(c)
  BY <1>3 DEF Execute, Effect, Begins
<1>4. CASE \/ Lookup(c) \/ TakeBench(c) \/ Prepare(c) \/ Reserve(c) \/ Raced(c)
           \/ RunEnds(c) \/ FallBack(c) \/ Complete(c) \/ ReadBack(c)
  BY <1>4 DEF Lookup, TakeBench, Prepare, Reserve, Raced, RunEnds, FallBack, Complete,
     ReadBack, Effect, Quiet
<1>5. CASE DatabaseError(c)
  BY <1>5 DEF DatabaseError, Effect, Inserts, Concludes, Quiet
<1>6. QED
  BY <1>1, <1>2, <1>3, <1>4, <1>5 DEF Step

LEMMA IdKey ==
  ASSUME NEW c \in Caller, wants[c] \in Pinned
  PROVE  /\ Wanted(c) \in Wish /\ wants[c].pins \in Pins
         /\ Id(c) \in Key /\ Id(c)[1] = Wanted(c).kind
<1>1. Wanted(c) \in Wish /\ wants[c].pins \in Pins
  BY DEF Pinned, Wanted
<1>2. QED
  BY <1>1, Keys DEF Id

LEMMA QuietSound ==
  ASSUME ChainInv, Trails, Quiet
  PROVE  ChainInv' /\ Trails' /\ TablesGrow
<1>1. rows' = rows /\ outcomes' = outcomes /\ audit' = audit /\ started' = started
  BY DEF Quiet, tables
<1>2. TablesGrow
  BY <1>1 DEF TablesGrow, ChainInv
<1>3. ChainInv'
  BY <1>1, <1>2, ChainGrows DEF ChainInv
<1>4. Trails'
  BY <1>1 DEF Trails, Trail
<1>5. QED
  BY <1>2, <1>3, <1>4

\* A row is added where there was none, and passes its reader's validation.
LEMMA InsertSound ==
  ASSUME IInv, NEW c \in Caller, Inserts(c), NEW x, x = Id(c), NEW r, r = made[c]
  PROVE  /\ ChainInv' /\ Trails' /\ TablesGrow
         /\ x \in Key /\ r \in Row /\ rows[x] = None /\ rows'[x] = r /\ Same(r, c)
         /\ \A y \in Key \ {x} : rows'[y] = rows[y]
         /\ outcomes' = outcomes /\ outcomes[x] = None
         /\ started' = started /\ started[x] = 0
<1>1. pc[c] = "insert" /\ CallInv(c) /\ ChainInv /\ Trails
  BY DEF Inserts, IInv
<1>2. /\ wants[c] \in Pinned /\ Requested(Wanted(c))
      /\ r \in Row /\ Same(r, c) /\ ValidRow(r) /\ r.wish = Wanted(c)
  BY <1>1 DEF CallInv, Making, Same
<1>3. x \in Key /\ Target(r.wish) = x /\ Requested(r.wish)
  BY <1>2, IdKey DEF Id
<1>4. rows[x] = None /\ outcomes[x] = None /\ r # None
  BY <1>1, <1>2, <1>3, ChainConstants DEF Inserts, IdUnused, Stored, ChainInv
<1>5. /\ rows' = [rows EXCEPT ![x] = r] /\ audit' = [audit EXCEPT ![x] = @ + 1]
      /\ outcomes' = outcomes /\ started' = started
  BY DEF Inserts, CommitRow
<1>6. /\ rows \in [Key -> Row \union {None}] /\ outcomes \in [Key -> Outcome \union {None}]
      /\ audit \in [Key -> 0..2] /\ started \in [Key -> 0..1] /\ \A y \in Key : Trail(y)
  BY <1>1 DEF ChainInv, Trails
<1>7. /\ rows' \in [Key -> Row \union {None}] /\ rows'[x] = r
      /\ \A y \in Key \ {x} : rows'[y] = rows[y]
  BY <1>2, <1>3, <1>5, <1>6
<1>8. TablesGrow
  BY <1>1, <1>4, <1>5, <1>7 DEF TablesGrow, ChainInv
<1>9. ValidRow(r)'
  BY <1>1, <1>2, <1>3, <1>8, ValidStays
<1>10. RowShape(x)' /\ ValidRow(rows[x])'
  BY <1>3, <1>7, <1>9 DEF RowShape, Requested
<1>11. ChainInv'
  <2>1. \A y \in Key : rows[y] = None /\ rows'[y] # None => RowShape(y)' /\ ValidRow(rows[y])'
    BY <1>7, <1>10
  <2>2. \A y \in Key : outcomes[y] = None /\ outcomes'[y] # None =>
          rows'[y] # None /\ ValidOutcome(outcomes'[y], rows'[y])
    BY <1>5
  <2>3. QED
    BY <1>1, <1>5, <1>6, <1>7, <1>8, <2>1, <2>2, ChainGrows
<1>12. started[x] = 0 /\ audit[x] = 0
  BY <1>3, <1>4, <1>6 DEF Trail
<1>13. Trails'
  <2>1. /\ audit' \in [Key -> 0..2] /\ audit'[x] = 1
        /\ \A y \in Key \ {x} : audit'[y] = audit[y]
    BY <1>3, <1>5, <1>6, <1>12
  <2>2. ASSUME NEW y \in Key
        PROVE  Trail(y)'
    <3>1. CASE y = x
      BY <1>4, <1>5, <1>7, <1>12, <2>1, <3>1 DEF Trail
    <3>2. CASE y # x
      BY <1>5, <1>6, <1>7, <2>1, <3>2 DEF Trail
    <3>3. QED
      BY <3>1, <3>2
  <2>3. QED
    BY <1>5, <1>6, <2>1, <2>2 DEF Trails
<1>14. QED
  BY <1>2, <1>3, <1>4, <1>5, <1>7, <1>8, <1>11, <1>12, <1>13

\* An outcome is added to an attempt of c's own, which had none.
LEMMA OutcomeSound ==
  ASSUME IInv, NEW c \in Caller, Concludes(c), NEW x, x = Id(c), NEW o, o = found[c]
  PROVE  /\ ChainInv' /\ Trails' /\ TablesGrow
         /\ x \in Key /\ rows' = rows /\ rows[x] = made[c]
         /\ outcomes[x] = None /\ outcomes'[x] = o
         /\ \A y \in Key \ {x} : outcomes'[y] = outcomes[y]
         /\ started' = started
<1>1. pc[c] = "commit" /\ CallInv(c) /\ ChainInv /\ Trails
  BY DEF Concludes, IInv
<1>2. /\ wants[c] \in Pinned /\ Wanted(c).kind \in Attempt
      /\ made[c] \in Row /\ rows[x] = made[c] /\ outcomes[x] = None /\ started[x] = 1
      /\ o \in Outcome /\ ValidOutcome(o, made[c])
  BY <1>1 DEF CallInv, Making, Executing
<1>3. x \in Key /\ x[1] \in Attempt /\ rows[x] # None /\ o # None
  BY <1>2, IdKey, ChainConstants
<1>4. /\ outcomes' = [outcomes EXCEPT ![x] = o] /\ audit' = [audit EXCEPT ![x] = @ + 1]
      /\ rows' = rows /\ started' = started
  BY DEF Concludes, CommitOutcome
<1>5. /\ rows \in [Key -> Row \union {None}] /\ outcomes \in [Key -> Outcome \union {None}]
      /\ audit \in [Key -> 0..2] /\ started \in [Key -> 0..1] /\ \A y \in Key : Trail(y)
  BY <1>1 DEF ChainInv, Trails
<1>6. /\ outcomes' \in [Key -> Outcome \union {None}] /\ outcomes'[x] = o
      /\ \A y \in Key \ {x} : outcomes'[y] = outcomes[y]
  BY <1>2, <1>3, <1>4, <1>5
<1>7. TablesGrow
  BY <1>1, <1>2, <1>3, <1>4, <1>6 DEF TablesGrow, ChainInv
<1>8. ChainInv'
  <2>1. \A y \in Key : outcomes[y] = None /\ outcomes'[y] # None =>
          rows'[y] # None /\ ValidOutcome(outcomes'[y], rows'[y])
    BY <1>2, <1>3, <1>4, <1>6
  <2>2. \A y \in Key : rows[y] = None /\ rows'[y] # None => RowShape(y)' /\ ValidRow(rows[y])'
    BY <1>4
  <2>3. QED
    BY <1>1, <1>4, <1>5, <1>6, <1>7, <2>1, <2>2, ChainGrows
<1>9. Trails'
  <2>1. /\ audit' \in [Key -> 0..2] /\ audit'[x] = audit[x] + 1 /\ audit[x] = 1
        /\ \A y \in Key \ {x} : audit'[y] = audit[y]
    BY <1>2, <1>3, <1>4, <1>5 DEF Trail
  <2>2. ASSUME NEW y \in Key
        PROVE  Trail(y)'
    <3>1. CASE y = x
      BY <1>2, <1>3, <1>4, <1>6, <2>1, <3>1 DEF Trail
    <3>2. CASE y # x
      BY <1>4, <1>5, <1>6, <2>1, <3>2 DEF Trail
    <3>3. QED
      BY <3>1, <3>2
  <2>3. QED
    BY <1>4, <1>5, <2>1, <2>2 DEF Trails
<1>10. QED
  BY <1>2, <1>3, <1>4, <1>6, <1>7, <1>8, <1>9

\* A run is started of an attempt of c's own, for the first time.
LEMMA BeginSound ==
  ASSUME IInv, NEW c \in Caller, Begins(c), NEW x, x = Id(c)
  PROVE  /\ ChainInv' /\ Trails' /\ TablesGrow
         /\ x \in Key /\ rows' = rows /\ outcomes' = outcomes
         /\ started'[x] = 1 /\ \A y \in Key \ {x} : started'[y] = started[y]
<1>1. pc[c] = "execute" /\ CallInv(c) /\ ChainInv /\ Trails
  BY DEF Begins, IInv
<1>2. /\ wants[c] \in Pinned /\ made[c] \in Row
      /\ rows[x] = made[c] /\ outcomes[x] = None /\ started[x] = 0
  BY <1>1 DEF CallInv, Making, Executing
<1>3. x \in Key /\ rows[x] # None
  BY <1>2, IdKey, ChainConstants
<1>4. /\ started' = [started EXCEPT ![x] = @ + 1]
      /\ rows' = rows /\ outcomes' = outcomes /\ audit' = audit
  BY DEF Begins, tables
<1>5. started \in [Key -> 0..1] /\ \A y \in Key : Trail(y)
  BY <1>1 DEF Trails
<1>6. /\ started' \in [Key -> 0..1] /\ started'[x] = 1
      /\ \A y \in Key \ {x} : started'[y] = started[y]
  BY <1>2, <1>3, <1>4, <1>5
<1>7. TablesGrow
  BY <1>1, <1>4 DEF TablesGrow, ChainInv
<1>8. ChainInv'
  BY <1>1, <1>4, <1>7, ChainGrows DEF ChainInv
<1>9. Trails'
  <2>1. ASSUME NEW y \in Key
        PROVE  Trail(y)'
    BY <1>2, <1>3, <1>4, <1>5, <1>6 DEF Trail
  <2>2. QED
    BY <1>1, <1>4, <1>6, <2>1 DEF Trails
<1>10. QED
  BY <1>3, <1>4, <1>6, <1>7, <1>8, <1>9

-----------------------------------------------------------------------------
(* What a handler knows stays true *)

LEMMA ToldStays ==
  ASSUME TablesGrow, NEW c \in Caller, CallInv(c),
         wants'[c] = wants[c], answer'[c] = answer[c],
         pc'[c] = pc[c] \/ pc[c] # "done"
  PROVE  Told(c)'
<1>1. Told(c) /\ (pc[c] # "idle" => wants[c] \in Pinned)
  BY DEF CallInv
<1>2. CASE answer[c] = None
  BY <1>2 DEF Told, Answered
<1>3. CASE answer[c] # None
  <2>1. pc[c] = "done" /\ pc'[c] = "done" /\ answer[c].code \in Code
    BY <1>1, <1>3 DEF Told
  <2>2. PICK x \in Key : x = Id(c)
    BY <1>1, <2>1, IdKey
  <2>3. Id(c)' = x
    BY <2>2 DEF Id, Wanted
  <2>4. ASSUME Answered(c)
        PROVE  /\ rows'[x] = rows[x] /\ rows[x] # None /\ Same(rows[x], c)
               /\ answer[c].view.row = rows[x]
               /\ answer[c].view.outcome \in {None, outcomes'[x]}
    <3>1. /\ rows[x] # None /\ Same(rows[x], c) /\ answer[c].view.row = rows[x]
          /\ answer[c].view.outcome \in {None, outcomes[x]}
      BY <1>1, <2>2, <2>4 DEF Told
    <3>2. rows'[x] = rows[x] /\ (outcomes[x] # None => outcomes'[x] = outcomes[x])
      BY <3>1 DEF TablesGrow
    <3>3. QED
      BY <3>1, <3>2
  <2>5. QED
    BY <2>1, <2>3, <2>4 DEF Told, Answered, Same, Wanted
<1>4. QED
  BY <1>2, <1>3

\* What the caller's own fields say is the same.
Frozen(c) ==
  /\ pc'[c] = pc[c] /\ site'[c] = site[c] /\ wants'[c] = wants[c] /\ role'[c] = role[c]
  /\ made'[c] = made[c] /\ found'[c] = found[c] /\ answer'[c] = answer[c]

LEMMA OtherStays ==
  ASSUME IInv, TablesGrow, NEW c \in Caller, Frozen(c),
         pc[c] \in Executing =>
           outcomes'[Id(c)] = outcomes[Id(c)] /\ started'[Id(c)] = started[Id(c)]
  PROVE  CallInv(c)'
<1>1. CallInv(c) /\ ChainInv
  BY DEF IInv
<1>2. PICK x, r, f : x = Id(c) /\ r = made[c] /\ f = found[c]
  OBVIOUS
<1>3. /\ pc'[c] = pc[c] /\ site'[c] = site[c] /\ wants'[c] = wants[c]
      /\ made'[c] = r /\ found'[c] = f /\ Id(c)' = x /\ Wanted(c)' = Wanted(c)
  BY <1>2 DEF Frozen, Id, Wanted
<1>4. pc[c] # "idle" => /\ site[c] \in Process /\ wants[c] \in Pinned /\ Requested(Wanted(c))
                        /\ x \in Key
  BY <1>1, <1>2, IdKey DEF CallInv
<1>5. pc[c] \in Making => r \in Row /\ Same(r, c) /\ r.wish = Wanted(c) /\ pc[c] # "idle"
  BY <1>1, <1>2 DEF CallInv, Same, Making, Executing
<1>6. pc'[c] \in Making => made'[c] \in Row /\ Same(made[c], c)'
  BY <1>3, <1>5 DEF Same, Wanted
<1>7. pc'[c] = "insert" => ValidRow(made[c])'
  <2>1. SUFFICES ASSUME pc[c] = "insert" PROVE ValidRow(r)'
    BY <1>3
  <2>2. ValidRow(r) /\ Requested(r.wish)
    BY <1>1, <1>2, <1>4, <1>5, <2>1 DEF CallInv, Making
  <2>3. QED
    BY <1>1, <2>2, ValidStays
<1>8. pc'[c] \in {"raced", "readback"} => rows'[x] # None
  BY <1>1, <1>2, <1>3, <1>4 DEF CallInv, TablesGrow
<1>9. pc'[c] \in Executing =>
        /\ Wanted(c).kind \in Attempt
        /\ rows'[x] = r /\ outcomes'[x] = None
        /\ started'[x] = IF pc'[c] = "execute" THEN 0 ELSE 1
  <2>1. SUFFICES ASSUME pc[c] \in Executing
                 PROVE  /\ Wanted(c).kind \in Attempt
                        /\ rows'[x] = r /\ outcomes'[x] = None
                        /\ started'[x] = IF pc[c] = "execute" THEN 0 ELSE 1
    BY <1>3
  <2>2. /\ Wanted(c).kind \in Attempt /\ rows[x] = r /\ outcomes[x] = None
        /\ started[x] = IF pc[c] = "execute" THEN 0 ELSE 1
        /\ outcomes'[x] = outcomes[x] /\ started'[x] = started[x]
    BY <1>1, <1>2, <2>1 DEF CallInv
  <2>3. x \in Key /\ r # None
    BY <1>4, <1>5, <2>1, ChainConstants DEF Making, Executing
  <2>4. QED
    BY <2>2, <2>3 DEF TablesGrow
<1>10. pc'[c] \in {"complete", "commit"} => found'[c] \in Outcome
  BY <1>1, <1>2, <1>3 DEF CallInv
<1>11. pc'[c] = "commit" => ValidOutcome(found[c], made[c])'
  <2>1. SUFFICES ASSUME pc[c] = "commit" PROVE ValidOutcome(f, r)'
    BY <1>3
  <2>2. ValidOutcome(f, r)
    BY <1>1, <1>2, <2>1 DEF CallInv
  <2>3. QED
    BY <2>2, OutcomeStays
<1>12. Told(c)'
  BY <1>1, ToldStays DEF Frozen
<1>13. pc'[c] = "slot" => Wanted(c)'.kind = "network"
  BY <1>1, <1>3 DEF CallInv
<1>14. pc'[c] # "idle" => site'[c] \in Process /\ wants'[c] \in Pinned /\ Requested(Wanted(c))'
  BY <1>3, <1>4 DEF Requested
<1>15. QED
  BY <1>2, <1>3, <1>6, <1>7, <1>8, <1>9, <1>10, <1>11, <1>12, <1>13, <1>14 DEF CallInv

\* What c stores leaves the tables sound and disturbs no other handler.
LEMMA EffectSound ==
  ASSUME IInv, NEW c \in Caller, Effect(c)
  PROVE  /\ ChainInv' /\ Trails' /\ TablesGrow
         /\ \A d \in Caller \ {c} : Frozen(d) => CallInv(d)'
<1>1. PICK x : x = Id(c)
  OBVIOUS
<1>2. ASSUME NEW d \in Caller \ {c}, pc[d] \in Executing, pc[c] \in Executing
      PROVE  Id(d) \in Key /\ Id(d) # x
  <2>1. Owns(c) /\ Owns(d)
    BY <1>2 DEF Owns
  <2>2. Id(d) \in Key
    BY <1>2, IdKey DEF IInv, CallInv, Executing
  <2>3. QED
    BY <1>1, <2>1, <2>2 DEF IInv, OneOwner
<1>3. CASE Quiet
  <2>1. ChainInv' /\ Trails' /\ TablesGrow
    BY <1>3, QuietSound DEF IInv
  <2>2. outcomes' = outcomes /\ started' = started
    BY <1>3 DEF Quiet, tables
  <2>3. QED
    BY <2>1, <2>2, OtherStays
<1>4. CASE Inserts(c)
  <2>1. ChainInv' /\ Trails' /\ TablesGrow /\ outcomes' = outcomes /\ started' = started
    BY <1>4, InsertSound
  <2>2. QED
    BY <2>1, OtherStays
<1>5. CASE Concludes(c)
  <2>1. /\ ChainInv' /\ Trails' /\ TablesGrow /\ started' = started
        /\ \A y \in Key \ {x} : outcomes'[y] = outcomes[y]
    BY <1>1, <1>5, OutcomeSound
  <2>2. pc[c] \in Executing
    BY <1>5 DEF Concludes, Executing
  <2>3. \A d \in Caller \ {c} : pc[d] \in Executing =>
          outcomes'[Id(d)] = outcomes[Id(d)] /\ started'[Id(d)] = started[Id(d)]
    BY <1>2, <2>1, <2>2
  <2>4. QED
    BY <2>1, <2>3, OtherStays
<1>6. CASE Begins(c)
  <2>1. /\ ChainInv' /\ Trails' /\ TablesGrow /\ outcomes' = outcomes
        /\ \A y \in Key \ {x} : started'[y] = started[y]
    BY <1>1, <1>6, BeginSound
  <2>2. pc[c] \in Executing
    BY <1>6 DEF Begins, Executing
  <2>3. \A d \in Caller \ {c} : pc[d] \in Executing =>
          outcomes'[Id(d)] = outcomes[Id(d)] /\ started'[Id(d)] = started[Id(d)]
    BY <1>2, <2>1, <2>2
  <2>4. QED
    BY <2>1, <2>3, OtherStays
<1>7. QED
  BY <1>3, <1>4, <1>5, <1>6 DEF Effect

-----------------------------------------------------------------------------
(* The steps of a handler *)

\* What is shown of every step of c's own.
Holding == {"prepare"} \union Making

Good(c) ==
  /\ Locals'
  /\ BenchInv'
  /\ CallInv(c)'
  /\ Owns(c)' => Owns(c) \/ rows[Id(c)] = None
  /\ wants'[c] = wants[c] \/ ~Owns(c)'
  /\ \A d \in Caller \ {c} : Frozen(d)

\* An answer releases the bench if c holds it, and no other.
LEMMA AnswerKeeps ==
  ASSUME Locals, BenchInv, NEW c \in Caller, NEW code, NEW view,
         Answer(c, code, view), UNCHANGED <<call, made, found>>
  PROVE  /\ bench' \in [Process -> Caller \union {None}]
         /\ pc' \in [Caller -> Stage] /\ pc'[c] = "done"
         /\ answer'[c] = [code |-> code, view |-> view] /\ DOMAIN answer' = Caller
         /\ \A d \in Caller \ {c} : Frozen(d)
         /\ BenchInv'
<1>1. bench \in [Process -> Caller \union {None}] /\ pc \in [Caller -> Stage] /\ DOMAIN answer = Caller
  BY DEF Locals
<1>2. /\ pc' = [pc EXCEPT ![c] = "done"]
      /\ answer' = [answer EXCEPT ![c] = [code |-> code, view |-> view]]
      /\ bench' = [q \in Process |-> IF bench[q] = c THEN None ELSE bench[q]]
      /\ site' = site /\ wants' = wants /\ role' = role /\ made' = made /\ found' = found
  BY DEF Answer, Goto, call
<1>3. bench' \in [Process -> Caller \union {None}]
  BY <1>1, <1>2
<1>4. BenchInv'
  <2>1. SUFFICES ASSUME NEW q \in Process, NEW d, d = bench'[q], d # None
                 PROVE  /\ site[d] = q /\ wants[d].wish.kind = "network"
                        /\ pc'[d] \in Holding
    BY <1>2 DEF BenchInv, Holding, Wanted
  <2>2. d = bench[q] /\ d # c /\ d \in Caller
    BY <1>1, <1>2, <2>1
  <2>3. QED
    BY <1>1, <1>2, <2>1, <2>2 DEF BenchInv, Holding, Wanted
<1>5. pc' \in [Caller -> Stage]
  BY <1>1, <1>2 DEF Stage
<1>6. QED
  BY <1>1, <1>2, <1>3, <1>4, <1>5 DEF Frozen

\* A step from a stage in which c may hold the bench leads to another such stage.
LEMMA GoKeeps ==
  ASSUME Locals, BenchInv, NEW c \in Caller, NEW s \in Stage, Goto(c, s),
         UNCHANGED <<bench, answer, call>>,
         \A d \in Caller \ {c} : made'[d] = made[d] /\ found'[d] = found[d],
         s \in Holding \/ pc[c] \notin Holding
  PROVE  /\ pc' \in [Caller -> Stage] /\ pc'[c] = s
         /\ \A d \in Caller \ {c} : Frozen(d)
         /\ BenchInv'
<1>1. bench \in [Process -> Caller \union {None}] /\ pc \in [Caller -> Stage]
  BY DEF Locals
<1>2. /\ pc' = [pc EXCEPT ![c] = s] /\ bench' = bench /\ answer' = answer
      /\ site' = site /\ wants' = wants /\ role' = role
  BY DEF Goto, call
<1>3. BenchInv'
  <2>1. SUFFICES ASSUME NEW q \in Process, NEW d, d = bench[q], d # None
                 PROVE  /\ site[d] = q /\ wants[d].wish.kind = "network"
                        /\ pc'[d] \in Holding
    BY <1>2 DEF BenchInv, Holding, Wanted
  <2>2. /\ d \in Caller /\ site[d] = q /\ wants[d].wish.kind = "network" /\ pc[d] \in Holding
    BY <1>1, <2>1 DEF BenchInv, Holding, Wanted
  <2>3. pc'[d] \in Holding
    BY <1>1, <1>2, <2>2
  <2>4. QED
    BY <2>2, <2>3
<1>4. pc' \in [Caller -> Stage]
  BY <1>1, <1>2
<1>5. QED
  BY <1>1, <1>2, <1>3, <1>4 DEF Frozen

\* A step that answers is good when what it tells is true.
LEMMA AnswerGood ==
  ASSUME IInv, NEW c \in Caller, NEW code, NEW view, Answer(c, code, view),
         UNCHANGED <<call, made, found, offered>>, clock' \in Time, faults' \in 0..MaxFaults,
         pc[c] # "idle", Told(c)',
         code = "created" => Owns(c) \/ rows[Id(c)] = None
  PROVE  Good(c)
<1>1. Locals /\ BenchInv /\ CallInv(c)
  BY DEF IInv
<1>2. /\ bench' \in [Process -> Caller \union {None}]
      /\ pc' \in [Caller -> Stage] /\ pc'[c] = "done"
      /\ answer'[c] = [code |-> code, view |-> view] /\ DOMAIN answer' = Caller
      /\ \A d \in Caller \ {c} : Frozen(d)
      /\ BenchInv'
  BY <1>1, AnswerKeeps
<1>3. site' = site /\ wants' = wants /\ role' = role /\ made' = made /\ found' = found
  BY DEF call
<1>4. Locals'
  BY <1>1, <1>2, <1>3 DEF Locals
<1>5. CallInv(c)'
  BY <1>1, <1>2, <1>3 DEF CallInv, Making, Executing, Requested, Wanted
<1>6. Owns(c)' => Owns(c) \/ rows[Id(c)] = None
  BY <1>2 DEF Owns, Executing
<1>7. QED
  BY <1>2, <1>3, <1>4, <1>5, <1>6 DEF Good

\* So is one that tells nothing of a record.
LEMMA Refused ==
  ASSUME IInv, NEW c \in Caller, NEW code, NEW view, Answer(c, code, view),
         UNCHANGED <<call, made, found, offered>>, clock' \in Time, faults' \in 0..MaxFaults,
         pc[c] # "idle", code \in Code \ {"created", "found"}
  PROVE  Good(c)
<1>1. pc'[c] = "done" /\ answer'[c] = [code |-> code, view |-> view]
  BY AnswerKeeps DEF IInv
<1>2. Told(c)'
  BY <1>1 DEF Told, Answered
<1>3. QED
  BY <1>2, AnswerGood

\* A step that goes on is good when c then knows what it has to.
LEMMA GoGood ==
  ASSUME IInv, NEW c \in Caller, NEW s \in Stage, Goto(c, s),
         UNCHANGED <<bench, answer, call, world>>,
         \A d \in Caller \ {c} : made'[d] = made[d] /\ found'[d] = found[d],
         made' \in [Caller -> Row \union {None}], DOMAIN found' = Caller,
         s \in Holding \/ pc[c] \notin Holding,
         CallInv(c)', pc[c] # "done",
         s \in Executing => Owns(c) \/ rows[Id(c)] = None
  PROVE  Good(c)
<1>1. Locals /\ BenchInv /\ CallInv(c)
  BY DEF IInv
<1>2. /\ pc' \in [Caller -> Stage] /\ pc'[c] = s
      /\ \A d \in Caller \ {c} : Frozen(d)
      /\ BenchInv'
  BY <1>1, GoKeeps
<1>3. /\ site' = site /\ wants' = wants /\ role' = role /\ bench' = bench /\ answer' = answer
      /\ offered' = offered /\ clock' = clock /\ faults' = faults
  BY DEF call, world
<1>4. Locals'
  BY <1>1, <1>2, <1>3 DEF Locals
<1>5. answer[c] = None
  BY <1>1 DEF CallInv, Told
<1>6. Owns(c)' => Owns(c) \/ rows[Id(c)] = None
  BY <1>2, <1>3, <1>5 DEF Owns
<1>7. QED
  BY <1>2, <1>3, <1>4, <1>6 DEF Good

LEMMA ShaHash ==
  ASSUME NEW r \in Row
  PROVE  Sha(r) \in Hash
<1>1. /\ r # None /\ r.wish \in Wish /\ r.at \in Time /\ r.role \in Role \union {None}
  BY ChainConstants DEF Row
<1>2. r.wish.version \in 1..5 /\ r.wish.choice \in Choice
  BY <1>1 DEF Wish
<1>3. QED
  BY <1>1, <1>2 DEF Sha, Hash

LEMMA SeenPins ==
  ASSUME ChainInv, NEW w \in Wish
  PROVE  Seen(w) \in Pins
<1>1. ASSUME NEW x \in Key
      PROVE  Digest(x) \in (Hash \union {None}) \X (Outcome \union {None})
  <2>1. rows[x] \in Row \union {None} /\ outcomes[x] \in Outcome \union {None}
    BY DEF ChainInv
  <2>2. Sha(rows[x]) \in Hash \union {None}
    BY <2>1, ShaHash DEF Sha
  <2>3. QED
    BY <2>1, <2>2 DEF Digest
<1>2. QED
  BY <1>1 DEF Seen, Pins

LEMMA AskGood ==
  ASSUME IInv, NEW c \in Caller, NEW o \in offered, NEW as \in Roles(o[2]),
         Ask(c, o[1], o[2], as)
  PROVE  Good(c)
<1>1. Locals /\ BenchInv /\ CallInv(c) /\ ChainInv
  BY DEF IInv
<1>2. PICK w, q, p : w = o[2] /\ q = o[1] /\ p = [wish |-> o[2], pins |-> Seen(o[2])]
  OBVIOUS
<1>3. w \in Wish /\ Requested(w) /\ q \in Process
  BY <1>1, <1>2 DEF Locals
<1>4. p \in Pinned /\ p.wish = w
  BY <1>1, <1>2, <1>3, SeenPins DEF Pinned
<1>5. /\ pc[c] = "idle" /\ pc' = [pc EXCEPT ![c] = "lookup"] /\ site' = [site EXCEPT ![c] = q]
      /\ wants' = [wants EXCEPT ![c] = p] /\ role' = [role EXCEPT ![c] = as]
      /\ bench' = bench /\ made' = made /\ found' = found /\ answer' = answer
      /\ offered' = offered /\ clock' = clock /\ faults' = faults
  BY <1>2 DEF Ask, Goto, world
<1>6. as \in Role \union {None}
  BY DEF Roles
<1>7. answer[c] = None
  BY <1>1, <1>5 DEF CallInv, Told
<1>8. Locals'
  BY <1>1, <1>3, <1>4, <1>5, <1>6 DEF Locals, Stage
<1>9. BenchInv'
  <2>1. SUFFICES ASSUME NEW r \in Process, NEW d, d = bench[r], d # None
                 PROVE  /\ site'[d] = r /\ wants'[d].wish.kind = "network"
                        /\ pc'[d] \in Holding
    BY <1>5 DEF BenchInv, Holding, Wanted
  <2>2. /\ d \in Caller /\ site[d] = r /\ wants[d].wish.kind = "network" /\ pc[d] \in Holding
    BY <1>1, <2>1 DEF BenchInv, Locals, Holding, Wanted
  <2>3. d # c
    BY <1>5, <2>2 DEF Holding, Making, Executing
  <2>4. QED
    BY <1>1, <1>5, <2>2, <2>3 DEF Locals
<1>10. pc'[c] = "lookup" /\ site'[c] = q /\ wants'[c] = p
  BY <1>1, <1>5 DEF Locals
<1>11. Requested(Wanted(c))'
  BY <1>3, <1>4, <1>10 DEF Requested, Wanted
<1>12. CallInv(c)'
  BY <1>3, <1>4, <1>5, <1>7, <1>10, <1>11 DEF CallInv, Told, Answered, Making, Executing
<1>13. ~Owns(c)'
  BY <1>5, <1>7, <1>10 DEF Owns, Executing
<1>14. \A d \in Caller \ {c} : Frozen(d)
  BY <1>1, <1>5 DEF Locals, Frozen
<1>15. QED
  BY <1>8, <1>9, <1>12, <1>13, <1>14 DEF Good

\* Until a row is prepared, c knows no more than its request.
LEMMA EarlyGood ==
  ASSUME IInv, NEW c \in Caller, NEW s \in {"slot", "prepare"}, Goto(c, s),
         UNCHANGED <<bench, answer, call, made, found, world>>,
         pc[c] = "lookup", s = "slot" => Wanted(c).kind = "network"
  PROVE  Good(c)
<1>1. Locals /\ CallInv(c) /\ BenchInv
  BY DEF IInv
<1>2. s \in Stage /\ pc[c] \notin Holding /\ s \notin Executing /\ s \notin Making
  BY DEF Stage, Holding, Making, Executing
<1>3. pc'[c] = s
  BY <1>1, <1>2, GoKeeps
<1>4. answer[c] = None
  BY <1>1 DEF CallInv, Told
<1>5. CallInv(c)'
  BY <1>1, <1>2, <1>3, <1>4
     DEF CallInv, Told, Answered, Making, Executing, Wanted, Requested, call
<1>6. made' \in [Caller -> Row \union {None}] /\ DOMAIN found' = Caller
  BY <1>1 DEF Locals
<1>7. QED
  BY <1>2, <1>5, <1>6, GoGood

\* A stored record is shown as it is.
LEMMA ReplayGood ==
  ASSUME IInv, NEW c \in Caller, pc[c] # "idle", Stored(c), Replay(c),
         UNCHANGED <<tables, call, made, found, world>>
  PROVE  Good(c)
<1>1. PICK x, code, view :
        /\ x = Id(c) /\ code = ReplayCode(c)
        /\ view = IF ReplayCode(c) = "found" THEN View(Id(c)) ELSE None
  OBVIOUS
<1>2. Answer(c, code, view) /\ rows[x] # None
  BY <1>1 DEF Replay, Stored
<1>3. Locals /\ BenchInv
  BY DEF IInv
<1>4. pc'[c] = "done" /\ answer'[c] = [code |-> code, view |-> view]
  BY <1>2, <1>3, AnswerKeeps
<1>5. /\ rows' = rows /\ outcomes' = outcomes /\ wants' = wants /\ Id(c)' = x
  BY <1>1 DEF tables, call, Id, Wanted
<1>6. code \in {"unavailable", "found", "conflict"}
  BY <1>1 DEF ReplayCode
<1>7. code = "found" => /\ Same(rows[x], c)
                        /\ view.row = rows[x] /\ view.outcome = outcomes[x]
  BY <1>1 DEF ReplayCode, View
<1>8. Told(c)'
  <2>1. Answered(c)' => code = "found"
    BY <1>4, <1>6 DEF Answered
  <2>2. answer'[c].code \in Code
    BY <1>4, <1>6 DEF Code
  <2>3. code = "found" => Same(rows[x], c)'
    BY <1>5, <1>7 DEF Same, Wanted
  <2>4. QED
    BY <1>2, <1>4, <1>5, <1>7, <2>1, <2>2, <2>3 DEF Told
<1>9. clock' \in Time /\ faults' \in 0..MaxFaults /\ offered' = offered
  BY <1>3 DEF Locals, world
<1>10. QED
  BY <1>2, <1>6, <1>8, <1>9, AnswerGood

LEMMA LookupGood ==
  ASSUME IInv, NEW c \in Caller, Lookup(c)
  PROVE  Good(c)
<1>1. pc[c] = "lookup" /\ UNCHANGED <<tables, call, made, found, world>>
  BY DEF Lookup
<1>2. clock' \in Time /\ faults' \in 0..MaxFaults /\ offered' = offered /\ pc[c] # "idle"
  BY <1>1 DEF IInv, Locals, world
<1>3. ASSUME NEW code \in {"not_found", "conflict", "consent_required", "disabled"},
             Answer(c, code, None)
      PROVE  Good(c)
  BY <1>1, <1>2, <1>3, Refused DEF Code
<1>4. CASE Answer(c, IF rows[Wanted(c).over] = None THEN "not_found" ELSE "conflict", None)
  BY <1>3, <1>4
<1>5. CASE Answer(c, "consent_required", None) \/ Answer(c, "disabled", None)
  BY <1>3, <1>5
<1>6. CASE Stored(c) /\ Replay(c)
  BY <1>1, <1>6, ReplayGood
<1>7. CASE Wanted(c).kind = "network" /\ Goto(c, "slot") /\ UNCHANGED <<bench, answer>>
  BY <1>1, <1>7, EarlyGood
<1>8. CASE Goto(c, "prepare") /\ UNCHANGED <<bench, answer>>
  BY <1>1, <1>8, EarlyGood
<1>9. QED
  BY <1>4, <1>5, <1>6, <1>7, <1>8 DEF Lookup

LEMMA TakeBenchGood ==
  ASSUME IInv, NEW c \in Caller, TakeBench(c)
  PROVE  Good(c)
<1>1. /\ pc[c] = "slot" /\ UNCHANGED <<tables, call, made, found, started, world>>
      /\ Locals /\ BenchInv /\ CallInv(c)
  BY DEF TakeBench, IInv
<1>2. CASE Answer(c, "busy", None)
  <2>1. clock' \in Time /\ faults' \in 0..MaxFaults /\ offered' = offered /\ pc[c] # "idle"
    BY <1>1 DEF Locals, world
  <2>2. QED
    BY <1>1, <1>2, <2>1, Refused DEF Code
<1>3. CASE /\ BenchFree(site[c])
           /\ bench' = [bench EXCEPT ![site[c]] = c]
           /\ Goto(c, "prepare")
           /\ UNCHANGED answer
  <2>1. PICK q : q = site[c]
    OBVIOUS
  <2>2. /\ q \in Process /\ Wanted(c).kind = "network" /\ answer[c] = None
        /\ wants[c] \in Pinned /\ Requested(Wanted(c))
    BY <1>1, <2>1 DEF CallInv, Told
  <2>3. /\ bench \in [Process -> Caller \union {None}] /\ pc \in [Caller -> Stage]
        /\ bench' = [bench EXCEPT ![q] = c] /\ pc' = [pc EXCEPT ![c] = "prepare"]
        /\ site' = site /\ wants' = wants /\ role' = role /\ answer' = answer
        /\ made' = made /\ found' = found
        /\ offered' = offered /\ clock' = clock /\ faults' = faults
    BY <1>1, <1>3, <2>1 DEF Goto, call, world, Locals
  <2>4. Locals'
    BY <1>1, <2>2, <2>3 DEF Locals, Stage
  <2>5. BenchInv'
    <3>1. SUFFICES ASSUME NEW p \in Process, NEW d, d = bench'[p], d # None
                   PROVE  /\ site[d] = p /\ wants[d].wish.kind = "network"
                          /\ pc'[d] \in Holding
      BY <2>3 DEF BenchInv, Holding, Wanted
    <3>2. CASE p = q
      <4>1. d = c /\ pc'[c] = "prepare"
        BY <2>2, <2>3, <3>1, <3>2
      <4>2. QED
        BY <2>1, <2>2, <3>2, <4>1 DEF Holding, Wanted
    <3>3. CASE p # q
      <4>1. d = bench[p] /\ d \in Caller
        BY <2>3, <3>1, <3>3
      <4>2. /\ site[d] = p /\ wants[d].wish.kind = "network" /\ pc[d] \in Holding
        BY <1>1, <3>1, <4>1 DEF BenchInv, Holding, Wanted
      <4>3. pc'[d] \in Holding
        BY <2>3, <4>1, <4>2 DEF Holding
      <4>4. QED
        BY <4>2, <4>3
    <3>4. QED
      BY <3>2, <3>3
  <2>6. pc'[c] = "prepare"
    BY <2>3
  <2>7. CallInv(c)'
    BY <2>1, <2>2, <2>3, <2>6
       DEF CallInv, Told, Answered, Making, Executing, Wanted, Requested
  <2>8. ~Owns(c)'
    BY <2>2, <2>3, <2>6 DEF Owns, Executing
  <2>9. \A d \in Caller \ {c} : Frozen(d)
    BY <2>3 DEF Frozen
  <2>10. QED
    BY <2>4, <2>5, <2>7, <2>8, <2>9 DEF Good
<1>4. QED
  BY <1>2, <1>3 DEF TakeBench

\* What a handler with a prepared row knows when it takes a step that changes no table.
LEMMA StillMaking ==
  ASSUME IInv, NEW c \in Caller, pc[c] \in Making
  PROVE  /\ Locals /\ BenchInv /\ CallInv(c) /\ ChainInv /\ Trails
         /\ wants[c] \in Pinned /\ Requested(Wanted(c)) /\ site[c] \in Process
         /\ made[c] \in Row /\ Same(made[c], c) /\ made[c].wish = Wanted(c)
         /\ Id(c) \in Key /\ answer[c] = None
         /\ pc[c] \notin {"idle", "done", "dead"} /\ pc[c] \in Holding
<1>1. Locals /\ BenchInv /\ CallInv(c) /\ ChainInv /\ Trails /\ pc[c] \in Holding
  BY DEF IInv, Holding
<1>2. pc[c] \notin {"idle", "done", "dead"}
  BY DEF Making, Executing
<1>3. QED
  BY <1>1, <1>2, IdKey DEF CallInv, Told, Same

\* Steps before the row is stored, or of one that found it stored by another.
LEMMA MakingGood ==
  ASSUME IInv, NEW c \in Caller, NEW s \in {"reserve", "insert", "raced", "readback"},
         Goto(c, s), UNCHANGED <<bench, answer, call, found, world>>, Quiet,
         pc[c] \in {"prepare"} \union Making,
         made' \in [Caller -> Row \union {None}],
         \A d \in Caller \ {c} : made'[d] = made[d],
         NEW r \in Row, made'[c] = r, Same(r, c),
         s = "insert" => ValidRow(r),
         s \in {"raced", "readback"} => rows[Id(c)] # None
  PROVE  Good(c)
<1>1. /\ Locals /\ BenchInv /\ CallInv(c) /\ ChainInv /\ TablesGrow
      /\ pc[c] \notin {"idle", "done", "dead"}
  BY QuietSound DEF IInv, Making, Executing
<1>2. s \in Stage /\ s \in Holding /\ s \notin Executing
  BY DEF Stage, Holding, Making, Executing
<1>3. pc'[c] = s
  BY <1>1, <1>2, GoKeeps
<1>4. /\ site' = site /\ wants' = wants /\ answer' = answer /\ found' = found
      /\ rows' = rows /\ Id(c)' = Id(c)
  BY DEF call, Quiet, tables, Id, Wanted
<1>5. answer[c] = None /\ site[c] \in Process /\ wants[c] \in Pinned /\ Requested(Wanted(c))
  BY <1>1 DEF CallInv, Told
<1>6. Same(r, c)' /\ Requested(Wanted(c))' /\ r.wish = Wanted(c)
  BY <1>4, <1>5 DEF Same, Wanted, Requested
<1>7. s = "insert" => ValidRow(r)'
  BY <1>1, <1>5, <1>6, ValidStays
<1>8. pc'[c] = "insert" => ValidRow(made[c])'
  BY <1>3, <1>7
<1>9. Same(made[c], c)'
  BY <1>6 DEF Same
<1>10. Told(c)'
  BY <1>4, <1>5 DEF Told, Answered
<1>11. CallInv(c)'
  BY <1>2, <1>3, <1>4, <1>5, <1>6, <1>8, <1>9, <1>10 DEF CallInv, Executing
<1>12. DOMAIN found' = Caller
  BY <1>1, <1>4 DEF Locals
<1>13. QED
  BY <1>1, <1>2, <1>11, <1>12, GoGood

LEMMA PrepareGood ==
  ASSUME IInv, NEW c \in Caller, Prepare(c)
  PROVE  Good(c)
<1>1. /\ pc[c] = "prepare" /\ UNCHANGED <<tables, call, found, started, world>>
      /\ Locals /\ CallInv(c)
  BY DEF Prepare, IInv
<1>2. clock' \in Time /\ faults' \in 0..MaxFaults /\ offered' = offered /\ pc[c] # "idle"
  BY <1>1 DEF Locals, world
<1>3. CASE UNCHANGED made /\ (Answer(c, "not_found", None) \/ Answer(c, "conflict", None))
  BY <1>1, <1>2, <1>3, Refused DEF Code
<1>4. CASE /\ made' = [made EXCEPT ![c] = Candidate(c)]
           /\ Goto(c, "reserve")
           /\ UNCHANGED <<bench, answer>>
  <2>1. PICK r : r = Candidate(c)
    OBVIOUS
  <2>2. wants[c] \in Pinned /\ Wanted(c) \in Wish /\ wants[c].pins \in Pins
    BY <1>1, IdKey DEF CallInv
  <2>3. /\ clock \in Time /\ role[c] \in Role \union {None}
        /\ made \in [Caller -> Row \union {None}]
    BY <1>1 DEF Locals
  <2>4. r \in Row /\ Same(r, c)
    BY <2>1, <2>2, <2>3 DEF Candidate, Row, Same
  <2>5. /\ made' \in [Caller -> Row \union {None}] /\ made'[c] = r
        /\ \A d \in Caller \ {c} : made'[d] = made[d]
    BY <1>4, <2>1, <2>3, <2>4
  <2>6. QED
    BY <1>1, <1>4, <2>4, <2>5, MakingGood DEF Quiet
<1>5. QED
  BY <1>3, <1>4 DEF Prepare

\* The reservation of an attempt found its id taken.
LEMMA ReplayLaterGood ==
  ASSUME IInv, NEW c \in Caller, pc[c] \in Making, Stored(c), ReplayLater(c),
         UNCHANGED <<tables, call, made, found, started, world>>
  PROVE  Good(c)
<1>1. PICK r : r = made[c]
  OBVIOUS
<1>2. Locals /\ r \in Row /\ Same(r, c) /\ pc[c] # "idle"
  BY <1>1, StillMaking
<1>3. CASE Goto(c, "readback") /\ UNCHANGED <<bench, answer>>
  <2>1. rows[Id(c)] # None
    BY DEF Stored
  <2>2. /\ made' \in [Caller -> Row \union {None}] /\ made'[c] = r
        /\ \A d \in Caller \ {c} : made'[d] = made[d]
    BY <1>1, <1>2 DEF Locals
  <2>3. QED
    BY <1>2, <1>3, <2>1, <2>2, MakingGood DEF Quiet
<1>4. CASE Answer(c, "conflict", None)
  <2>1. clock' \in Time /\ faults' \in 0..MaxFaults /\ offered' = offered
    BY <1>2 DEF Locals, world
  <2>2. QED
    BY <1>2, <1>4, <2>1, Refused DEF Code
<1>5. QED
  BY <1>3, <1>4 DEF ReplayLater

LEMMA ReserveGood ==
  ASSUME IInv, NEW c \in Caller, Reserve(c)
  PROVE  Good(c)
<1>1. pc[c] \in Making /\ UNCHANGED <<tables, call, made, found, started, world>>
  BY DEF Reserve, Making
<1>2. PICK r : r = made[c]
  OBVIOUS
<1>3. Locals /\ r \in Row /\ Same(r, c) /\ pc[c] # "idle"
  BY <1>1, <1>2, StillMaking
<1>4. CASE Stored(c) /\ Replay(c)
  BY <1>1, <1>3, <1>4, ReplayGood
<1>5. CASE Stored(c) /\ ReplayLater(c)
  BY <1>1, <1>5, ReplayLaterGood
<1>6. CASE Answer(c, Refusal(c), None)
  <2>1. clock' \in Time /\ faults' \in 0..MaxFaults /\ offered' = offered
    BY <1>1, <1>3 DEF Locals, world
  <2>2. QED
    BY <1>1, <1>3, <1>6, <2>1, Refused DEF Refusal, Code
<1>7. CASE ValidRow(made[c]) /\ Goto(c, "insert") /\ UNCHANGED <<bench, answer>>
  <2>1. /\ made' \in [Caller -> Row \union {None}] /\ made'[c] = r
        /\ \A d \in Caller \ {c} : made'[d] = made[d]
    BY <1>1, <1>2, <1>3 DEF Locals
  <2>2. ValidRow(r)
    BY <1>2, <1>7
  <2>3. QED
    BY <1>1, <1>3, <1>7, <2>1, <2>2, MakingGood DEF Quiet
<1>8. QED
  BY <1>4, <1>5, <1>6, <1>7 DEF Reserve

LEMMA RacedGood ==
  ASSUME IInv, NEW c \in Caller, Raced(c)
  PROVE  Good(c)
<1>1. /\ pc[c] = "raced" /\ pc[c] \in Making
      /\ UNCHANGED <<tables, call, made, found, started, world>>
  BY DEF Raced, Making
<1>2. Stored(c) /\ pc[c] # "idle"
  BY <1>1 DEF IInv, CallInv, Stored
<1>3. QED
  BY <1>1, <1>2, ReplayGood, ReplayLaterGood DEF Raced

LEMMA ReadBackGood ==
  ASSUME IInv, NEW c \in Caller, ReadBack(c)
  PROVE  Good(c)
<1>1. pc[c] = "readback" /\ UNCHANGED <<tables, call, made, found, started, world>> /\ Replay(c)
  BY DEF ReadBack
<1>2. Stored(c) /\ pc[c] # "idle"
  BY <1>1 DEF IInv, CallInv, Stored
<1>3. QED
  BY <1>1, <1>2, ReplayGood

\* The steps of a handler which executes the attempt that it stored.
LEMMA RunGood ==
  ASSUME IInv, NEW c \in Caller, pc[c] \in {"insert"} \union Executing,
         NEW s \in Executing, Goto(c, s), UNCHANGED <<bench, answer, call, made, world>>,
         DOMAIN found' = Caller, \A d \in Caller \ {c} : found'[d] = found[d],
         NEW x, x = Id(c), NEW r, r = made[c], NEW f, f = found'[c],
         Wanted(c).kind \in Attempt, rows'[x] = r, outcomes'[x] = None,
         started'[x] = IF s = "execute" THEN 0 ELSE 1,
         s \in {"complete", "commit"} => f \in Outcome,
         s = "commit" => ValidOutcome(f, r),
         Owns(c) \/ rows[x] = None
  PROVE  Good(c)
<1>1. /\ Locals /\ BenchInv /\ wants[c] \in Pinned /\ Requested(Wanted(c))
      /\ site[c] \in Process /\ r \in Row /\ Same(r, c) /\ answer[c] = None
      /\ pc[c] \notin {"idle", "done", "dead"}
  BY StillMaking DEF Making
<1>2. s \in Stage /\ s \in Holding /\ s \in Making /\ s \notin {"idle", "slot", "insert", "raced", "readback"}
  BY DEF Stage, Holding, Making, Executing
<1>3. pc'[c] = s
  BY <1>1, <1>2, GoKeeps
<1>4. /\ site' = site /\ wants' = wants /\ answer' = answer /\ made' = made
      /\ Id(c)' = x /\ Wanted(c)' = Wanted(c)
  BY DEF call, Id, Wanted
<1>5. Requested(Wanted(c))' /\ Same(made[c], c)'
  BY <1>1, <1>4 DEF Requested, Same, Wanted
<1>6. Told(c)'
  BY <1>1, <1>4 DEF Told, Answered
<1>7. s = "commit" => ValidOutcome(f, r)'
  BY OutcomeStays
<1>8. pc'[c] = "commit" => ValidOutcome(found[c], made[c])'
  BY <1>3, <1>4, <1>7
<1>9. CallInv(c)'
  BY <1>1, <1>2, <1>3, <1>4, <1>5, <1>6, <1>8 DEF CallInv
<1>10. made' \in [Caller -> Row \union {None}]
  BY <1>1, <1>4 DEF Locals
<1>11. QED
  BY <1>1, <1>2, <1>4, <1>9, <1>10, GoGood

LEMMA InsertGood ==
  ASSUME IInv, NEW c \in Caller, Insert(c)
  PROVE  Good(c)
<1>1. /\ pc[c] = "insert" /\ UNCHANGED <<call, made, found, started, world>>
      /\ pc[c] \in Making /\ pc[c] # "idle"
  BY DEF Insert, Making
<1>2. /\ Locals /\ wants[c] \in Pinned /\ made[c] \in Row /\ Same(made[c], c)
  BY <1>1, StillMaking
<1>3. clock' \in Time /\ faults' \in 0..MaxFaults /\ offered' = offered
  BY <1>1, <1>2 DEF Locals, world
<1>4. PICK x, r : x = Id(c) /\ r = made[c]
  OBVIOUS
<1>5. CASE /\ IdUnused(c) /\ Wanted(c).kind \in Attempt
           /\ CommitRow(c)
           /\ Goto(c, "execute")
           /\ UNCHANGED <<bench, answer>>
  <2>1. Inserts(c)
    BY <1>1, <1>5 DEF Inserts
  <2>2. /\ rows[x] = None /\ rows'[x] = r /\ outcomes'[x] = None /\ started'[x] = 0
    BY <1>4, <2>1, InsertSound
  <2>3. DOMAIN found' = Caller /\ \A d \in Caller \ {c} : found'[d] = found[d]
    BY <1>1, <1>2 DEF Locals
  <2>4. PICK f : f = found'[c]
    OBVIOUS
  <2>5. "execute" \in Executing
    BY DEF Executing
  <2>6. QED
    BY <1>1, <1>4, <1>5, <2>2, <2>3, <2>4, <2>5, RunGood
<1>6. CASE /\ IdUnused(c)
           /\ CommitRow(c)
           /\ Answer(c, "created", [row |-> made[c], outcome |-> None])
  <2>1. Inserts(c)
    BY <1>1, <1>6 DEF Inserts
  <2>2. rows[x] = None /\ rows'[x] = r /\ r \in Row /\ Same(r, c)
    BY <1>4, <2>1, InsertSound
  <2>3. PICK view : view = [row |-> r, outcome |-> None]
    OBVIOUS
  <2>4. Answer(c, "created", view)
    BY <1>4, <1>6, <2>3
  <2>5. pc'[c] = "done" /\ answer'[c] = [code |-> "created", view |-> view]
    BY <1>1, <2>4, AnswerKeeps DEF IInv
  <2>6. Id(c)' = x /\ Same(r, c)' /\ r # None
    BY <1>1, <1>4, <2>2, ChainConstants DEF call, Id, Wanted, Same
  <2>7. Told(c)'
    BY <2>2, <2>3, <2>5, <2>6 DEF Told, Answered, Code
  <2>8. QED
    BY <1>1, <1>3, <1>4, <2>2, <2>4, <2>7, AnswerGood
<1>7. CASE ~IdUnused(c) /\ Goto(c, "raced") /\ UNCHANGED <<tables, bench, answer>>
  <2>1. rows[Id(c)] # None
    BY <1>7 DEF IdUnused, Stored
  <2>2. /\ made' \in [Caller -> Row \union {None}] /\ made'[c] = r
        /\ \A d \in Caller \ {c} : made'[d] = made[d]
    BY <1>1, <1>2, <1>4 DEF Locals
  <2>3. r \in Row /\ Same(r, c)
    BY <1>2, <1>4
  <2>4. QED
    BY <1>1, <1>7, <2>1, <2>2, <2>3, MakingGood DEF Quiet
<1>8. QED
  BY <1>5, <1>6, <1>7 DEF Insert

\* What an executing handler knows of its attempt.
LEMMA Running ==
  ASSUME IInv, NEW c \in Caller, pc[c] \in Executing
  PROVE  /\ pc[c] \in Making /\ Owns(c) /\ Wanted(c).kind \in Attempt
         /\ rows[Id(c)] = made[c] /\ outcomes[Id(c)] = None
         /\ started[Id(c)] = IF pc[c] = "execute" THEN 0 ELSE 1
         /\ DOMAIN found = Caller
BY DEF IInv, CallInv, Making, Owns, Locals

LEMMA ExecuteGood ==
  ASSUME IInv, NEW c \in Caller, Execute(c)
  PROVE  Good(c)
<1>1. /\ pc[c] = "execute" /\ pc[c] \in Executing /\ "running" \in Executing
      /\ UNCHANGED <<tables, bench, call, made, found, answer, world>> /\ Goto(c, "running")
      /\ Begins(c)
  BY DEF Execute, Executing, Begins
<1>2. PICK x, r, f : x = Id(c) /\ r = made[c] /\ f = found'[c]
  OBVIOUS
<1>3. /\ Owns(c) /\ Wanted(c).kind \in Attempt /\ rows'[x] = r /\ outcomes'[x] = None
      /\ DOMAIN found' = Caller
  BY <1>1, <1>2, Running DEF tables
<1>4. started'[x] = 1
  BY <1>1, <1>2, BeginSound
<1>5. QED
  BY <1>1, <1>2, <1>3, <1>4, RunGood

LEMMA EndedOutcome ==
  ASSUME IInv, NEW c \in Caller, pc[c] \in Executing,
         NEW t \in {"completed", "failed"}, NEW p \in 1..5
  PROVE  Ended(c, t, p) \in Outcome
<1>1. made[c] \in Row /\ clock \in Time
  BY Running, StillMaking DEF Locals
<1>2. QED
  BY <1>1, ShaHash DEF Ended, Outcome

LEMMA ResultsOutcome ==
  ASSUME IInv, NEW c \in Caller, pc[c] \in Executing
  PROVE  Results(c) \subseteq Outcome /\ Failure(c) \in Outcome
<1>1. Wanted(c).version \in 1..5
  BY Running, StillMaking, IdKey DEF Wish
<1>2. QED
  BY <1>1, EndedOutcome DEF Results, Failure, FailureStatus

\* A run hands over a valid result, or falls back.
LEMMA RunEndsGood ==
  ASSUME IInv, NEW c \in Caller, RunEnds(c)
  PROVE  Good(c)
<1>1. /\ pc[c] = "running" /\ pc[c] \in Executing
      /\ "complete" \in Executing /\ "fallback" \in Executing
      /\ UNCHANGED <<tables, bench, call, made, answer, started, world>>
  BY DEF RunEnds, Executing
<1>2. PICK x, r : x = Id(c) /\ r = made[c]
  OBVIOUS
<1>3. /\ Owns(c) /\ Wanted(c).kind \in Attempt /\ rows'[x] = r /\ outcomes'[x] = None
      /\ started'[x] = 1 /\ DOMAIN found = Caller
  BY <1>1, <1>2, Running DEF tables
<1>4. CASE Goto(c, "fallback") /\ UNCHANGED found
  BY <1>1, <1>2, <1>3, <1>4, RunGood
<1>5. CASE \E o \in Results(c) : found' = [found EXCEPT ![c] = o] /\ Goto(c, "complete")
  <2>1. PICK o \in Results(c) : found' = [found EXCEPT ![c] = o] /\ Goto(c, "complete")
    BY <1>5
  <2>2. o \in Outcome
    BY <1>1, <2>1, ResultsOutcome
  <2>3. /\ found'[c] = o /\ DOMAIN found' = Caller
        /\ \A d \in Caller \ {c} : found'[d] = found[d]
    BY <1>3, <2>1
  <2>4. QED
    BY <1>1, <1>2, <1>3, <2>1, <2>2, <2>3, RunGood
<1>6. QED
  BY <1>4, <1>5 DEF RunEnds

LEMMA FallBackGood ==
  ASSUME IInv, NEW c \in Caller, FallBack(c)
  PROVE  Good(c)
<1>1. /\ pc[c] = "fallback" /\ pc[c] \in Executing /\ "complete" \in Executing
      /\ UNCHANGED <<tables, bench, call, made, answer, started, world>>
      /\ Goto(c, "complete") /\ found' = [found EXCEPT ![c] = Failure(c)]
  BY DEF FallBack, Executing
<1>2. PICK x, r, o : x = Id(c) /\ r = made[c] /\ o = Failure(c)
  OBVIOUS
<1>3. /\ Owns(c) /\ Wanted(c).kind \in Attempt /\ rows'[x] = r /\ outcomes'[x] = None
      /\ started'[x] = 1 /\ DOMAIN found = Caller
  BY <1>1, <1>2, Running DEF tables
<1>4. /\ o \in Outcome /\ found'[c] = o /\ DOMAIN found' = Caller
      /\ \A d \in Caller \ {c} : found'[d] = found[d]
  BY <1>1, <1>2, <1>3, ResultsOutcome
<1>5. QED
  BY <1>1, <1>2, <1>3, <1>4, RunGood

LEMMA CompleteGood ==
  ASSUME IInv, NEW c \in Caller, Complete(c)
  PROVE  Good(c)
<1>1. /\ pc[c] = "complete" /\ pc[c] \in Executing /\ "commit" \in Executing
      /\ UNCHANGED <<tables, call, made, found, started, world>>
  BY DEF Complete, Executing
<1>2. PICK x, r, f : x = Id(c) /\ r = made[c] /\ f = found'[c]
  OBVIOUS
<1>3. /\ Owns(c) /\ Wanted(c).kind \in Attempt /\ rows[x] = r /\ rows'[x] = r
      /\ outcomes'[x] = None /\ started'[x] = 1 /\ DOMAIN found' = Caller
      /\ f = found[c] /\ f \in Outcome
  BY <1>1, <1>2, Running DEF tables, IInv, CallInv
<1>4. CASE /\ ValidOutcome(found[c], rows[Id(c)]) /\ Goto(c, "commit")
           /\ UNCHANGED <<bench, answer>>
  <2>1. ValidOutcome(f, r)
    BY <1>2, <1>3, <1>4
  <2>2. QED
    BY <1>1, <1>2, <1>3, <1>4, <2>1, RunGood
<1>5. CASE Answer(c, "unavailable", None)
  <2>1. clock' \in Time /\ faults' \in 0..MaxFaults /\ offered' = offered /\ pc[c] # "idle"
    BY <1>1 DEF IInv, Locals, world
  <2>2. QED
    BY <1>1, <1>5, <2>1, Refused DEF Code
<1>6. QED
  BY <1>4, <1>5 DEF Complete

LEMMA FinishGood ==
  ASSUME IInv, NEW c \in Caller, Finish(c)
  PROVE  Good(c)
<1>1. /\ pc[c] = "commit" /\ pc[c] \in Executing /\ pc[c] # "idle"
      /\ UNCHANGED <<call, made, found, started, world>> /\ Concludes(c)
  BY DEF Finish, Executing, Concludes
<1>2. clock' \in Time /\ faults' \in 0..MaxFaults /\ offered' = offered
  BY <1>1 DEF IInv, Locals, world
<1>3. PICK x, r, o, view : /\ x = Id(c) /\ r = made[c] /\ o = found[c]
                           /\ view = [row |-> r, outcome |-> o]
  OBVIOUS
<1>4. Answer(c, "created", view)
  BY <1>3 DEF Finish
<1>5. pc'[c] = "done" /\ answer'[c] = [code |-> "created", view |-> view]
  BY <1>1, <1>4, AnswerKeeps DEF IInv
<1>6. Owns(c) /\ r \in Row /\ Same(r, c)
  BY <1>1, <1>3, Running, StillMaking
<1>7. rows'[x] = r /\ outcomes'[x] = o
  BY <1>1, <1>3, OutcomeSound
<1>8. Id(c)' = x /\ Same(r, c)' /\ r # None
  BY <1>1, <1>3, <1>6, ChainConstants DEF call, Id, Wanted, Same
<1>9. Told(c)'
  BY <1>3, <1>5, <1>7, <1>8 DEF Told, Answered, Code
<1>10. QED
  BY <1>1, <1>2, <1>4, <1>6, <1>9, AnswerGood

LEMMA DatabaseErrorGood ==
  ASSUME IInv, NEW c \in Caller, DatabaseError(c)
  PROVE  Good(c)
<1>1. /\ UNCHANGED <<call, made, found, started, offered, clock>> /\ faults' = faults + 1
      /\ faults < MaxFaults /\ pc[c] # "idle" /\ Answer(c, "unavailable", None)
  BY DEF DatabaseError, Fault
<1>2. clock' \in Time /\ faults' \in 0..MaxFaults
  BY <1>1, ChainConstants DEF IInv, Locals
<1>3. QED
  BY <1>1, <1>2, Refused DEF Code

-----------------------------------------------------------------------------
(* All together *)

LEMMA StepGood ==
  ASSUME IInv, NEW c \in Caller, Step(c) \/ DatabaseError(c)
  PROVE  Good(c)
BY LookupGood, TakeBenchGood, PrepareGood, ReserveGood, InsertGood, RacedGood, ExecuteGood,
   RunEndsGood, FallBackGood, CompleteGood, FinishGood, ReadBackGood, DatabaseErrorGood DEF Step

\* Whoever owns an id has stored its record.
LEMMA OwnedStored ==
  ASSUME IInv, NEW c \in Caller, Owns(c)
  PROVE  rows[Id(c)] # None
<1>1. CASE pc[c] \in Executing
  BY <1>1, Running, StillMaking, ChainConstants
<1>2. CASE answer[c] # None /\ answer[c].code = "created"
  BY <1>2 DEF IInv, CallInv, Told, Answered
<1>3. QED
  BY <1>1, <1>2 DEF Owns

LEMMA GoodSound ==
  ASSUME IInv, NEW c \in Caller, Good(c), Effect(c)
  PROVE  IInv'
<1>1. ChainInv' /\ Trails' /\ \A d \in Caller \ {c} : Frozen(d) => CallInv(d)'
  BY EffectSound
<1>2. \A d \in Caller : CallInv(d)'
  BY <1>1 DEF Good
<1>3. OneOwner'
  <2>1. \A d \in Caller \ {c} : Owns(d)' = Owns(d) /\ Id(d)' = Id(d)
    BY DEF Good, Frozen, Owns, Id, Wanted
  <2>2. Owns(c)' => Id(c)' = Id(c) /\ (Owns(c) \/ rows[Id(c)] = None)
    BY DEF Good, Id, Wanted
  <2>3. ASSUME NEW d \in Caller \ {c}, Owns(c)', Owns(d)'
        PROVE  Id(c)' # Id(d)'
    <3>1. Owns(d) /\ Id(d)' = Id(d) /\ Id(c)' = Id(c) /\ (Owns(c) \/ rows[Id(c)] = None)
      BY <2>1, <2>2, <2>3
    <3>2. rows[Id(d)] # None
      BY <3>1, OwnedStored
    <3>3. CASE Owns(c)
      BY <3>1, <3>3 DEF IInv, OneOwner
    <3>4. CASE rows[Id(c)] = None
      BY <3>1, <3>2, <3>4
    <3>5. QED
      BY <3>1, <3>3, <3>4
  <2>4. ASSUME NEW d \in Caller \ {c}, NEW e \in Caller \ {c}, Owns(d)', Owns(e)',
               Id(d)' = Id(e)'
        PROVE  d = e
    BY <2>1, <2>4 DEF IInv, OneOwner
  <2>5. QED
    BY <2>3, <2>4 DEF OneOwner
<1>4. QED
  BY <1>1, <1>2, <1>3 DEF IInv, Good

\* A crash ends the handlers of a process and frees its bench.
LEMMA CrashSound ==
  ASSUME IInv, NEW q \in Process, CrashRestart(q)
  PROVE  IInv'
<1>1. Locals /\ BenchInv /\ ChainInv /\ Trails
  BY DEF IInv
<1>2. /\ pc' = [c \in Caller |->
              IF site[c] = q /\ pc[c] \notin {"idle", "done"} THEN "dead" ELSE pc[c]]
      /\ bench' = [bench EXCEPT ![q] = None]
      /\ site' = site /\ wants' = wants /\ role' = role /\ made' = made /\ found' = found
      /\ answer' = answer /\ offered' = offered /\ clock' = clock
      /\ faults' = faults + 1 /\ faults < MaxFaults
      /\ Quiet /\ outcomes' = outcomes /\ started' = started
  BY DEF CrashRestart, Fault, call, tables, Quiet
<1>3. bench \in [Process -> Caller \union {None}] /\ pc \in [Caller -> Stage]
  BY <1>1 DEF Locals
<1>4. ChainInv' /\ Trails' /\ TablesGrow
  BY <1>1, <1>2, QuietSound
<1>5. Locals'
  <2>1. pc' \in [Caller -> Stage] /\ bench' \in [Process -> Caller \union {None}]
    BY <1>2, <1>3 DEF Stage
  <2>2. faults' \in 0..MaxFaults
    BY <1>1, <1>2, ChainConstants DEF Locals
  <2>3. QED
    BY <1>1, <1>2, <2>1, <2>2 DEF Locals
<1>6. BenchInv'
  <2>1. SUFFICES ASSUME NEW p \in Process, NEW d, d = bench'[p], d # None
                 PROVE  /\ site[d] = p /\ wants[d].wish.kind = "network"
                        /\ pc'[d] \in Holding
    BY <1>2 DEF BenchInv, Holding, Wanted
  <2>2. p # q /\ d = bench[p] /\ d \in Caller
    BY <1>2, <1>3, <2>1
  <2>3. /\ site[d] = p /\ wants[d].wish.kind = "network" /\ pc[d] \in Holding
    BY <1>1, <2>1, <2>2 DEF BenchInv, Holding, Wanted
  <2>4. QED
    BY <1>2, <2>2, <2>3
<1>7. \A c \in Caller : CallInv(c)'
  <2>1. SUFFICES ASSUME NEW c \in Caller PROVE CallInv(c)'
    OBVIOUS
  <2>2. CASE pc'[c] = pc[c]
    BY <1>2, <1>4, <2>2, OtherStays DEF Frozen
  <2>3. CASE pc'[c] = "dead" /\ pc[c] \notin {"idle", "done"}
    <3>1. CallInv(c)
      BY DEF IInv
    <3>2. answer[c] = None
      BY <2>3, <3>1 DEF CallInv, Told
    <3>3. QED
      BY <1>2, <2>3, <3>1, <3>2
         DEF CallInv, Told, Answered, Making, Executing, Wanted, Requested
  <2>4. QED
    BY <1>2, <2>2, <2>3
<1>8. OneOwner'
  <2>1. \A c \in Caller : (Owns(c)' => Owns(c)) /\ Id(c)' = Id(c)
    BY <1>2, <1>3 DEF Owns, Executing, Id, Wanted
  <2>2. QED
    BY <2>1 DEF IInv, OneOwner
<1>9. QED
  BY <1>4, <1>5, <1>6, <1>7, <1>8 DEF IInv

\* Time and stuttering change nothing that anybody knows.
LEMMA TimeSound ==
  ASSUME IInv, ClockAdvances \/ ClockSetBack \/ UNCHANGED vars
  PROVE  IInv'
<1>1. Locals /\ BenchInv /\ ChainInv /\ Trails
  BY DEF IInv
<1>2. /\ Quiet /\ outcomes' = outcomes /\ started' = started /\ bench' = bench
      /\ pc' = pc /\ site' = site /\ wants' = wants /\ role' = role /\ made' = made
      /\ found' = found /\ answer' = answer /\ offered' = offered
  BY DEF ClockAdvances, ClockSetBack, vars, tables, call, Quiet
<1>3. clock' \in Time /\ faults' \in 0..MaxFaults
  BY <1>1, ChainConstants DEF ClockAdvances, ClockSetBack, Fault, vars, Locals, Time
<1>4. ChainInv' /\ Trails' /\ TablesGrow
  BY <1>1, <1>2, QuietSound
<1>5. \A c \in Caller : CallInv(c)'
  BY <1>2, <1>4, OtherStays DEF Frozen
<1>6. Locals'
  BY <1>1, <1>2, <1>3 DEF Locals
<1>7. BenchInv'
  BY <1>1, <1>2 DEF BenchInv, Wanted
<1>8. OneOwner'
  BY <1>2 DEF IInv, OneOwner, Owns, Id, Wanted
<1>9. QED
  BY <1>4, <1>5, <1>6, <1>7, <1>8 DEF IInv

LEMMA Step_IInv ==
  ASSUME IInv, [Next]_vars
  PROVE  IInv'
<1>1. CASE \E c \in Caller, o \in offered : \E as \in Roles(o[2]) : Ask(c, o[1], o[2], as)
  <2>1. PICK c \in Caller, o \in offered : \E as \in Roles(o[2]) : Ask(c, o[1], o[2], as)
    BY <1>1
  <2>2. Good(c) /\ Effect(c)
    BY <2>1, AskGood DEF Ask, Effect, Quiet
  <2>3. QED
    BY <2>2, GoodSound
<1>2. CASE \E c \in Caller : Step(c) \/ DatabaseError(c)
  BY <1>2, StepGood, DurableStep, GoodSound
<1>3. CASE \E q \in Process : CrashRestart(q)
  BY <1>3, CrashSound
<1>4. CASE ClockAdvances \/ ClockSetBack \/ UNCHANGED vars
  BY <1>4, TimeSound
<1>5. QED
  BY <1>1, <1>2, <1>3, <1>4 DEF Next

\* The tables only grow, in every step.
LEMMA Step_Grows ==
  ASSUME IInv, [Next]_vars
  PROVE  TablesGrow
<1>1. CASE \E c \in Caller : Step(c) \/ DatabaseError(c)
  BY <1>1, DurableStep, EffectSound
<1>2. CASE ~ \E c \in Caller : Step(c) \/ DatabaseError(c)
  <2>1. Quiet
    BY <1>2 DEF Next, Ask, CrashRestart, ClockAdvances, ClockSetBack, vars, tables, Quiet
  <2>2. QED
    BY <2>1, QuietSound DEF IInv
<1>3. QED
  BY <1>1, <1>2

LEMMA Init_IInv ==
  ASSUME Init, ChainInv
  PROVE  IInv
<1>1. PICK db \in Restored :
        /\ rows = db.rows /\ outcomes = db.outcomes /\ offered = db.offered
        /\ audit = [x \in Key |-> (IF rows[x] = None THEN 0 ELSE 1)
                                  + (IF outcomes[x] = None THEN 0 ELSE 1)]
        /\ started = [x \in Key |-> IF outcomes[x] = None THEN 0 ELSE 1]
  BY DEF Init
<1>2. \A o \in offered : o[1] \in Process /\ o[2] \in Wish /\ Requested(o[2])
  BY <1>1, ChainConstants
<1>3. /\ bench = [q \in Process |-> None]
      /\ pc = [c \in Caller |-> "idle"] /\ site = [c \in Caller |-> None]
      /\ wants = [c \in Caller |-> None] /\ role = [c \in Caller |-> None]
      /\ made = [c \in Caller |-> None] /\ found = [c \in Caller |-> None]
      /\ answer = [c \in Caller |-> None] /\ clock = 0 /\ faults = 0
  BY DEF Init
<1>4. Locals
  BY <1>2, <1>3, ChainConstants DEF Locals, Time, Stage
<1>5. Trails
  <2>1. audit \in [Key -> 0..2] /\ started \in [Key -> 0..1]
    BY <1>1
  <2>2. \A x \in Key : Trail(x)
    BY <1>1 DEF Trail, ChainInv
  <2>3. QED
    BY <2>1, <2>2 DEF Trails
<1>6. BenchInv
  BY <1>3 DEF BenchInv
<1>7. \A c \in Caller : CallInv(c)
  BY <1>3 DEF CallInv, Told, Answered, Making, Executing
<1>8. OneOwner
  BY <1>3 DEF OneOwner, Owns, Executing
<1>9. QED
  BY <1>4, <1>5, <1>6, <1>7, <1>8 DEF IInv

-----------------------------------------------------------------------------
(* Theorems *)

\* A restored database that is empty is sound, so what follows holds of every service that
\* was started on a new database, and after each restart of one.
THEOREM EmptyIsSound ==
  ASSUME Init, rows = [x \in Key |-> None], outcomes = [x \in Key |-> None]
  PROVE  ChainInv
BY DEF ChainInv, RowShape, EvidenceReadable

\* The inductive invariant holds from every sound database on.
THEOREM Invariance == Spec /\ ChainInv => []IInv
<1>1. Init /\ ChainInv => IInv
  BY Init_IInv
<1>2. IInv /\ [Next]_vars => IInv'
  BY Step_IInv
<1>3. QED
  BY <1>1, <1>2, PTL DEF Spec

\* No later outcome, race, fault or clock makes a stored record of any kind unreadable: its
\* reader, who validates it and all that it rests on again, accepts it for ever.
THEOREM Readability == Spec /\ ChainInv => []EvidenceReadable
<1>1. IInv => EvidenceReadable
  BY DEF IInv, ChainInv
<1>2. QED
  BY <1>1, Invariance, PTL

-----------------------------------------------------------------------------
(* What is added while nothing fails: time goes on, so that a failure is valid when it *)
(* replaces a result that is not, and each run that was started gets its outcome.     *)

\* The failure is of the protocol asked for and not older than its intent.
LEMMA FailureValid ==
  ASSUME IInv, Timely, faults = 0, NEW c \in Caller, pc[c] = "fallback"
  PROVE  ValidOutcome(Failure(c), made[c])
<1>1. PICK r, x : r = made[c] /\ x = Id(c)
  OBVIOUS
<1>2. /\ pc[c] \in Making /\ pc[c] \in Executing
  BY DEF Making, Executing
<1>3. /\ r \in Row /\ r.wish = Wanted(c) /\ r.wish.kind \in Attempt /\ x \in Key
      /\ rows[x] = r /\ r # None
  BY <1>1, <1>2, Running, StillMaking, ChainConstants
<1>4. Selected(r)
  BY <1>3 DEF IInv, ChainInv, EvidenceReadable, Readable, ValidRow, ValidIntent
<1>5. OutcomeOf(Failure(c), r) /\ Failure(c).protocol = r.wish.version
  BY <1>1, <1>2, <1>3 DEF Timely, OutcomeOf, Failure, Ended
<1>6. r.wish.kind = "network" => NetworkOutcome(Failure(c), r)
  BY <1>3, <1>4, <1>5 DEF Selected, NetworkIntent, NetworkIntentV1, NetworkIntentV2,
     NetworkIntentV3, NetworkIntentV4, NetworkOutcome, NetworkOutcomeV1, NetworkOutcomeV2,
     NetworkOutcomeV3, NetworkOutcomeV4, Failure, FailureStatus, Ended
<1>7. r.wish.kind = "deterministic" => CompleteOutcome(Failure(c), r) \/ PartialOutcome(Failure(c), r)
  BY <1>4, <1>5 DEF Selected, CompleteIntent, PartialIntent, CompleteOutcome, PartialOutcome
<1>8. QED
  BY <1>1, <1>5, <1>6, <1>7 DEF ValidOutcome, ForestOutcome

\* Where a step of a handler leads, as far as its row and the result of its run go.
LEMMA Moves ==
  ASSUME IInv, RunsInv, faults = 0, NEW c \in Caller, Step(c)
  PROVE  /\ pc'[c] \in Making =>
              (pc[c] \in Making /\ made'[c] = made[c]) \/ made'[c].at = clock
         /\ pc'[c] = "complete" => ValidOutcome(found'[c], made'[c])
         /\ pc[c] \in Executing => pc'[c] \in Executing \/ outcomes'[Id(c)] # None
         /\ UNCHANGED <<wants, world>>
<1>1. pc \in [Caller -> Stage] /\ DOMAIN found = Caller /\ made \in [Caller -> Row \union {None}]
  BY DEF IInv, Locals
<1>2. CASE Prepare(c)
  <2>1. /\ pc[c] = "prepare" /\ pc[c] \notin Executing /\ UNCHANGED <<wants, world>>
        /\ \/ pc'[c] = "done"
           \/ pc'[c] = "reserve" /\ made'[c] = Candidate(c)
    BY <1>1, <1>2 DEF Prepare, Answer, Goto, call, Executing
  <2>2. QED
    BY <2>1 DEF Candidate, Making, Executing
<1>3. CASE RunEnds(c)
  <2>1. /\ pc[c] = "running" /\ made' = made /\ UNCHANGED <<wants, world>>
    BY <1>3 DEF RunEnds, call
  <2>2. \/ pc'[c] = "fallback"
        \/ pc'[c] = "complete" /\ \E o \in Results(c) : found'[c] = o /\ ValidOutcome(o, made[c])
    BY <1>1, <1>3 DEF RunEnds, Goto
  <2>3. ValidOutcome(found'[c], made[c]) = ValidOutcome(found'[c], made'[c])
    BY <2>1
  <2>4. QED
    BY <2>1, <2>2, <2>3 DEF Making, Executing
<1>4. CASE FallBack(c)
  <2>1. /\ pc[c] = "fallback" /\ made' = made /\ UNCHANGED <<wants, world>>
        /\ pc'[c] = "complete" /\ found'[c] = Failure(c)
    BY <1>1, <1>4 DEF FallBack, Goto, call
  <2>2. ValidOutcome(Failure(c), made[c])
    BY <2>1, FailureValid DEF RunsInv
  <2>3. ValidOutcome(found'[c], made'[c])
    BY <2>1, <2>2
  <2>4. QED
    BY <2>1, <2>3 DEF Making, Executing
<1>5. CASE Complete(c)
  <2>1. /\ pc[c] = "complete" /\ made' = made /\ UNCHANGED <<wants, world>>
        /\ pc[c] \in Making /\ pc[c] \in Executing
    BY <1>5 DEF Complete, call, Making, Executing
  <2>2. ValidOutcome(found[c], rows[Id(c)])
    BY <2>1, Running DEF RunsInv, Passed
  <2>3. pc'[c] = "commit"
    BY <1>1, <1>5, <2>2 DEF Complete, Goto
  <2>4. QED
    BY <2>1, <2>3 DEF Making, Executing
<1>6. CASE Finish(c)
  <2>1. /\ pc[c] = "commit" /\ pc'[c] = "done" /\ UNCHANGED <<wants, world>>
        /\ outcomes' = [outcomes EXCEPT ![Id(c)] = found[c]]
    BY <1>1, <1>6 DEF Finish, CommitOutcome, Answer, Goto, call
  <2>2. /\ found[c] \in Outcome /\ Id(c) \in Key /\ outcomes \in [Key -> Outcome \union {None}]
    BY <2>1, StillMaking DEF IInv, CallInv, ChainInv, Making, Executing
  <2>3. outcomes'[Id(c)] # None
    BY <2>1, <2>2, ChainConstants
  <2>4. QED
    BY <2>1, <2>3 DEF Making, Executing
<1>7. CASE Lookup(c) \/ TakeBench(c)
  <2>1. /\ pc[c] \notin Executing /\ pc'[c] \in {"done", "slot", "prepare"}
        /\ UNCHANGED <<wants, world>>
    BY <1>1, <1>7 DEF Lookup, TakeBench, Replay, Answer, Goto, call, Executing
  <2>2. QED
    BY <2>1 DEF Making, Executing
<1>8. CASE Reserve(c) \/ Insert(c) \/ Raced(c) \/ ReadBack(c)
  <2>1. /\ pc[c] \in Making /\ pc[c] \notin Executing /\ made' = made
        /\ pc'[c] \in {"done", "readback", "insert", "execute", "raced"}
        /\ UNCHANGED <<wants, world>>
    BY <1>1, <1>8 DEF Reserve, Insert, Raced, ReadBack, Replay, ReplayLater, Answer, Goto,
       call, Making, Executing
  <2>2. QED
    BY <2>1
<1>9. CASE Execute(c)
  <2>1. pc[c] \in Making /\ made' = made /\ pc'[c] = "running" /\ UNCHANGED <<wants, world>>
    BY <1>1, <1>9 DEF Execute, Goto, call, Making, Executing
  <2>2. QED
    BY <2>1 DEF Executing
<1>10. QED
  BY <1>2, <1>3, <1>4, <1>5, <1>6, <1>7, <1>8, <1>9 DEF Step

LEMMA StepRuns ==
  ASSUME IInv, RunsInv, faults = 0, NEW c \in Caller, Step(c)
  PROVE  RunsInv'
<1>1. /\ pc'[c] \in Making =>
           (pc[c] \in Making /\ made'[c] = made[c]) \/ made'[c].at = clock
      /\ pc'[c] = "complete" => ValidOutcome(found'[c], made'[c])
      /\ pc[c] \in Executing => pc'[c] \in Executing \/ outcomes'[Id(c)] # None
      /\ UNCHANGED <<wants, world>>
  BY Moves
<1>2. /\ Good(c) /\ Effect(c) /\ clock' = clock /\ faults' = faults /\ clock \in Nat
  BY <1>1, StepGood, DurableStep DEF world, IInv, Locals, Time
<1>3. \A d \in Caller \ {c} : pc'[d] = pc[d] /\ made'[d] = made[d] /\ found'[d] = found[d]
  BY <1>2 DEF Good, Frozen
<1>4. Timely'
  <2>1. SUFFICES ASSUME NEW d \in Caller, pc'[d] \in Making PROVE made'[d].at <= clock
    BY <1>2 DEF Timely, Making, Executing
  <2>2. CASE made'[d] = made[d] /\ pc[d] \in Making
    BY <2>2 DEF RunsInv, Timely
  <2>3. QED
    BY <1>1, <1>2, <1>3, <2>1, <2>2
<1>5. Passed'
  <2>1. SUFFICES ASSUME NEW d \in Caller, pc'[d] = "complete"
                 PROVE  ValidOutcome(found'[d], made'[d])
    BY DEF Passed
  <2>2. CASE d # c
    <3>1. ValidOutcome(found[d], made[d])
      BY <1>3, <2>1, <2>2 DEF RunsInv, Passed
    <3>2. QED
      BY <1>3, <2>2, <3>1
  <2>3. QED
    BY <1>1, <2>1, <2>2
<1>6. RunsRecorded'
  <2>1. SUFFICES ASSUME NEW x \in Key, started'[x] = 1, outcomes'[x] = None
                 PROVE  \E d \in Caller : pc'[d] \in Executing /\ Id(d) = x
    BY <1>1 DEF RunsRecorded, Executing, Id, Wanted
  <2>2. CASE started[x] = 1
    <3>1. TablesGrow
      BY <1>2, EffectSound
    <3>2. outcomes[x] = None
      BY <2>1, <3>1 DEF TablesGrow
    <3>3. PICK d \in Caller : pc[d] \in Executing /\ Id(d) = x
      BY <2>2, <3>2 DEF RunsInv, RunsRecorded
    <3>4. pc'[d] \in Executing
      BY <1>1, <1>3, <2>1, <3>3
    <3>5. QED
      BY <3>3, <3>4
  <2>3. CASE started[x] # 1
    <3>1. Begins(c)
      BY <1>2, <2>1, <2>3 DEF Effect, Quiet, Inserts, Concludes
    <3>2. Id(c) = x /\ pc[c] = "execute"
      BY <2>1, <2>3, <3>1 DEF Begins, IInv, Trails
    <3>3. outcomes'[x] = None /\ pc[c] \in Executing
      BY <2>1, <3>2 DEF Executing
    <3>4. QED
      BY <1>1, <3>2, <3>3
  <2>4. QED
    BY <2>2, <2>3
<1>7. QED
  BY <1>4, <1>5, <1>6 DEF RunsInv

LEMMA Step_Runs ==
  ASSUME IInv, RunsInv, [Next]_vars
  PROVE  RunsInv'
<1>1. CASE faults' # 0
  BY <1>1 DEF RunsInv, Timely, Passed, RunsRecorded
<1>2. CASE faults' = 0
  <2>1. faults = 0 /\ ~ (\E c \in Caller : DatabaseError(c))
        /\ ~ (\E q \in Process : CrashRestart(q)) /\ ~ ClockSetBack
    <3>1. faults \in Nat
      BY DEF IInv, Locals
    <3>2. ~ (faults' = faults + 1)
      BY <1>2, <3>1
    <3>3. ~ (\E c \in Caller : DatabaseError(c)) /\ ~ (\E q \in Process : CrashRestart(q))
          /\ ~ ClockSetBack
      BY <3>2 DEF DatabaseError, CrashRestart, ClockSetBack, Fault
    <3>4. ASSUME NEW c \in Caller, Step(c) PROVE faults' = faults
      <4>1. CASE \/ Lookup(c) \/ TakeBench(c) \/ Prepare(c) \/ Reserve(c) \/ Insert(c)
                 \/ Raced(c) \/ ReadBack(c)
        BY <4>1 DEF Lookup, TakeBench, Prepare, Reserve, Insert, Raced, ReadBack, world
      <4>2. CASE Execute(c) \/ RunEnds(c) \/ FallBack(c) \/ Complete(c) \/ Finish(c)
        BY <4>2 DEF Execute, RunEnds, FallBack, Complete, Finish, world
      <4>3. QED
        BY <3>4, <4>1, <4>2 DEF Step
    <3>5. QED
      BY <1>2, <3>3, <3>4 DEF Next, Ask, ClockAdvances, vars, world
  <2>2. CASE \E c \in Caller : Step(c)
    BY <2>1, <2>2, StepRuns
  <2>3. CASE \E c \in Caller, o \in offered : \E as \in Roles(o[2]) : Ask(c, o[1], o[2], as)
    <3>1. PICK c \in Caller, o \in offered : \E as \in Roles(o[2]) : Ask(c, o[1], o[2], as)
      BY <2>3
    <3>2. /\ pc[c] = "idle" /\ pc' = [pc EXCEPT ![c] = "lookup"] /\ pc \in [Caller -> Stage]
          /\ UNCHANGED <<tables, made, found, started, world>>
      BY <3>1 DEF Ask, Goto, IInv, Locals
    <3>3. /\ outcomes' = outcomes /\ clock' = clock
      BY <3>2 DEF tables, world
    <3>4. \A d \in Caller : /\ pc'[d] \in Making => pc'[d] = pc[d]
                            /\ pc'[d] = "complete" => pc[d] = "complete"
      BY <3>2 DEF Making, Executing
    <3>5. \A d \in Caller : pc[d] \in Executing => d # c /\ pc'[d] = pc[d]
      BY <3>2 DEF Executing
    <3>6. \A d \in Caller : pc[d] \in Executing => Id(d)' = Id(d)
      <4>1. SUFFICES ASSUME NEW d \in Caller, pc[d] \in Executing PROVE wants'[d] = wants[d]
        BY DEF Id, Wanted
      <4>2. PICK v : wants' = [wants EXCEPT ![c] = v]
        BY <3>1 DEF Ask
      <4>3. QED
        BY <3>5, <4>1, <4>2 DEF IInv, Locals
    <3>7. Timely' /\ Passed'
      BY <2>1, <3>2, <3>3, <3>4 DEF RunsInv, Timely, Passed
    <3>8. RunsRecorded'
      BY <2>1, <3>2, <3>3, <3>5, <3>6 DEF RunsInv, RunsRecorded
    <3>9. QED
      BY <3>7, <3>8 DEF RunsInv
  <2>4. CASE ClockAdvances \/ UNCHANGED vars
    <3>1. /\ UNCHANGED <<pc, made, found, wants, started, outcomes>>
          /\ clock' = clock \/ clock' = clock + 1
      BY <2>4 DEF ClockAdvances, vars, tables, call
    <3>2. \A c \in Caller : pc[c] \in Making => made[c].at <= clock'
      <4>1. SUFFICES ASSUME NEW c \in Caller, pc[c] \in Making PROVE made[c].at <= clock'
        OBVIOUS
      <4>2. made[c].at \in Nat /\ clock \in Nat /\ made[c].at <= clock
        BY <2>1, <4>1, StillMaking DEF RunsInv, Timely, Locals, Row, Time
      <4>3. QED
        BY <3>1, <4>2
    <3>3. Timely' /\ Passed'
      BY <2>1, <3>1, <3>2 DEF RunsInv, Timely, Passed
    <3>4. RunsRecorded'
      BY <2>1, <3>1 DEF RunsInv, RunsRecorded, Id, Wanted
    <3>5. QED
      BY <3>3, <3>4 DEF RunsInv
  <2>5. QED
    BY <2>1, <2>2, <2>3, <2>4 DEF Next
<1>3. QED
  BY <1>1, <1>2

\* While the database, the processes and the clock work, every run that was started gets an
\* outcome, whatever the engine or the model does (patching/source_review.py:281).
THEOREM Attended == Spec /\ ChainInv => []RunsRecorded
<1>1. Init /\ ChainInv => RunsInv
  <2>1. SUFFICES ASSUME Init, ChainInv PROVE RunsInv
    OBVIOUS
  <2>2. pc = [c \in Caller |-> "idle"]
        /\ started = [x \in Key |-> IF outcomes[x] = None THEN 0 ELSE 1]
    BY <2>1 DEF Init
  <2>3. QED
    BY <2>2 DEF RunsInv, Timely, Passed, RunsRecorded, Making, Executing
<1>2. IInv /\ RunsInv /\ [Next]_vars => RunsInv'
  BY Step_Runs
<1>3. RunsInv => RunsRecorded
  BY DEF RunsInv
<1>4. QED
  BY <1>1, <1>2, <1>3, Invariance, PTL DEF Spec

\* Clients were told what is stored, one of them at most that it created it, and costly
\* runs were started at most once for an id, before their outcome was stored, and are not
\* left open behind a handler that has answered while nothing but the run itself fails.
THEOREM Agreement == Spec /\ ChainInv => []EvidenceAgrees
<1>1. IInv => TypeOK
  <2>1. SUFFICES ASSUME IInv PROVE TypeOK
    OBVIOUS
  <2>2. ChainInv /\ Trails /\ Locals /\ BenchInv /\ \A c \in Caller : Told(c)
    BY <2>1 DEF IInv, CallInv
  <2>3. \A x \in Key : rows[x] # None =>
          Target(rows[x].wish) = x /\ rows[x].at \in Time /\ rows[x].role \in Role \union {None}
    BY <2>2 DEF ChainInv, RowShape, Row
  <2>4. \A x \in Key : outcomes[x] # None =>
          /\ x[1] \in Attempt /\ rows[x] # None
          /\ outcomes[x].at \in Time /\ outcomes[x].status \in {"completed", "failed"}
    BY <2>2 DEF ChainInv, Outcome
  <2>5. audit \in [Key -> 0..2] /\ pc \in [Caller -> Stage] /\ clock \in Time
        /\ faults \in 0..MaxFaults
    BY <2>2 DEF Trails, Locals
  <2>6. \A c \in Caller : answer[c] # None => answer[c].code \in Code
    BY <2>2 DEF Told
  <2>7. \A q \in Process : bench[q] # None =>
          /\ site[bench[q]] = q
          /\ Wanted(bench[q]).kind = "network"
          /\ pc[bench[q]] \notin {"idle", "lookup", "slot", "done", "dead"}
    BY <2>2 DEF BenchInv, Making, Executing
  <2>8. QED
    BY <2>3, <2>4, <2>5, <2>6, <2>7 DEF TypeOK
<1>2. IInv => AnswersAgree
  <2>1. SUFFICES ASSUME IInv PROVE AnswersAgree
    OBVIOUS
  <2>2. \A c \in Caller : Told(c)
    BY <2>1 DEF IInv, CallInv
  <2>3. ASSUME NEW c \in Caller, NEW d \in Caller, Answered(c), Answered(d),
               Id(c) = Id(d), c # d
        PROVE  {answer[c].code, answer[d].code} # {"created"}
    <3>1. ~(answer[c].code = "created" /\ answer[d].code = "created")
      BY <2>1, <2>3 DEF IInv, OneOwner, Owns, Answered
    <3>2. QED
      BY <3>1
  <2>4. QED
    BY <2>2, <2>3 DEF AnswersAgree, Told
<1>3. IInv => RunOnce
  BY DEF IInv, Trails, Trail, RunOnce
<1>4. IInv /\ RunsRecorded => EvidenceAgrees
  BY <1>1, <1>2, <1>3 DEF EvidenceAgrees
<1>5. QED
  BY <1>4, Invariance, Attended, PTL

LogState ==
  [x \in Key |-> CASE rows[x] = None -> "absent"
                   [] rows[x] # None /\ x[1] \in Attempt /\ outcomes[x] = None -> "open"
                   [] OTHER -> "final"]

LogCites ==
  [x \in Key |-> IF rows[x] = None THEN {}
                 ELSE (rows[x].wish.cites \union {rows[x].wish.over}) \ {None}]

LEMMA LogStateOf ==
  ASSUME NEW x \in Key
  PROVE  /\ LogState[x] = "absent" <=> rows[x] = None
         /\ LogState[x] = "open" <=> rows[x] # None /\ x[1] \in Attempt /\ outcomes[x] = None
         /\ LogState[x] \in {"absent", "open", "final"}
BY DEF LogState

\* A valid record rests on stored records that can get no outcome any more.
LEMMA CitedFinal ==
  ASSUME ChainInv, NEW n \in Key, rows[n] # None,
         NEW m \in (rows[n].wish.cites \union {rows[n].wish.over}) \ {None}
  PROVE  m \in Key /\ rows[m] # None /\ (m[1] \notin Attempt \/ outcomes[m] # None)
<1>1. PICK r : r = rows[n]
  OBVIOUS
<1>2. Requested(r.wish) /\ ValidRow(r) /\ r.wish.kind \in Kind
  BY <1>1 DEF ChainInv, RowShape, EvidenceReadable, Readable, Row, Wish
<1>3. CASE r.wish.kind = "draft"
  BY <1>1, <1>2, <1>3 DEF Requested
<1>4. CASE r.wish.kind \in {"preflight"} \union Attempt
  <2>1. m \in {"draft"} \X Name /\ m = r.wish.over
    BY <1>1, <1>2, <1>4 DEF Requested, Attempt
  <2>2. rows[m] # None
    BY <1>2, <1>4, <2>1 DEF ValidRow, ValidPreflight, ValidIntent, Selected, PinsDraft
  <2>3. QED
    BY <2>1, <2>2, Keys DEF Attempt
<1>5. CASE r.wish.kind = "report"
  <2>1. /\ r.wish.over \in {"draft"} \X Name /\ r.wish.cites \subseteq Attempt \X Name
        /\ ValidReport(r)
    BY <1>2, <1>5 DEF Requested, ValidRow
  <2>2. CASE m = r.wish.over
    BY <2>1, <2>2, Keys DEF ValidReport, Attempt
  <2>3. CASE m \in r.wish.cites
    BY <2>1, <2>3, Keys DEF ValidReport, ValidAttempt, Bound
  <2>4. QED
    BY <1>1, <2>2, <2>3
<1>6. CASE r.wish.kind \in {"decision", "risk"}
  <2>1. m \in {"report"} \X Name /\ m = r.wish.over
    BY <1>1, <1>2, <1>6 DEF Requested
  <2>2. rows[m] # None
    BY <1>2, <1>6, <2>1 DEF ValidRow, ValidDecision, ValidRisk, AboutReport
  <2>3. QED
    BY <2>1, <2>2, Keys DEF Attempt
<1>7. QED
  BY <1>2, <1>3, <1>4, <1>5, <1>6 DEF Kind, Composed

LEMMA LogSound ==
  ASSUME ChainInv
  PROVE  Log!Sound
<1>1. LogState \in [Key -> {"absent", "open", "final"}]
  BY LogStateOf DEF LogState
<1>2. ASSUME NEW n \in Key, NEW m \in LogCites[n]
      PROVE  LogState[n] # "absent" /\ LogState[m] = "final"
  <2>1. rows[n] # None /\ m \in (rows[n].wish.cites \union {rows[n].wish.over}) \ {None}
    BY <1>2 DEF LogCites
  <2>2. m \in Key /\ rows[m] # None /\ (m[1] \notin Attempt \/ outcomes[m] # None)
    BY <2>1, CitedFinal
  <2>3. QED
    BY <2>1, <2>2, LogStateOf
<1>3. QED
  BY <1>1, <1>2 DEF Log!Sound, LogState, LogCites

\* The chain implements the append-only log: nothing that was stored changes, but for the
\* one outcome of an attempt, and a record rests on final ones.
THEOREM Refinement == Spec /\ ChainInv => LogSpec
<1>1. IInv => Log!Init
  BY LogSound DEF IInv, Log!Init
<1>2. IInv /\ IInv' /\ [Next]_vars => Log!Next
  <2>1. SUFFICES ASSUME IInv, IInv', [Next]_vars PROVE Log!Next
    OBVIOUS
  <2>2. (ChainInv => Log!Sound)'
    BY LogSound, PTL
  <2>3. Log!Sound'
    BY <2>1, <2>2 DEF IInv
  <2>4. TablesGrow
    BY <2>1, Step_Grows
  <2>5. ASSUME NEW n \in Key
        PROVE  Log!Added(n) \/ Log!Finished(n) \/ (LogState'[n] = LogState[n] /\ Log!Kept(n))
    <3>1. CASE rows[n] = None /\ rows'[n] = None
      <4>1. LogState[n] = "absent" /\ LogState'[n] = "absent"
        BY <3>1 DEF LogState
      <4>2. Log!Kept(n)
        BY <3>1 DEF Log!Kept
      <4>3. QED
        BY <4>1, <4>2
    <3>2. CASE rows[n] = None /\ rows'[n] # None
      <4>1. LogState[n] = "absent" /\ LogState'[n] # "absent"
        BY <3>2 DEF LogState
      <4>2. QED
        BY <4>1 DEF Log!Added, LogState
    <3>3. CASE rows[n] # None
      <4>1. rows'[n] = rows[n] /\ (outcomes[n] # None => outcomes'[n] = outcomes[n])
        BY <2>4, <3>3 DEF TablesGrow
      <4>2. Log!Kept(n)
        BY <4>1 DEF Log!Kept
      <4>3. \/ LogState'[n] = LogState[n]
            \/ LogState[n] = "open" /\ LogState'[n] = "final"
        BY <3>3, <4>1 DEF LogState
      <4>4. QED
        BY <4>2, <4>3 DEF Log!Finished, LogState
    <3>4. QED
      BY <3>1, <3>2, <3>3
  <2>6. QED
    BY <2>3, <2>5 DEF Log!Next, LogState
<1>3. QED
  BY <1>1, <1>2, Invariance, PTL DEF LogSpec, Log!Spec, Spec

=============================================================================
