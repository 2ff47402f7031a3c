---------------------------- MODULE SourcePriority ----------------------------
(***************************************************************************)
(* The two scores of the service: the priority composed from the saved     *)
(* evidence about a patch (detection/fusion/source_priority.py, its        *)
(* ingress-scope copy source_scope_priority.py, and the policy-only        *)
(* source_partial_priority.py), and the risk fused from the findings about *)
(* a device (detection/fusion/engine.py).                                  *)
(*                                                                         *)
(* Numbers are floating point with the rounding of the code's binary64 but *)
(* Bits bits of precision: a number is a multiple of 1/Unit, written as    *)
(* that multiple.  The order of operations and the kind of summation are   *)
(* those of the code, because the results are compared with == there.      *)
(***************************************************************************)
EXTENDS Integers, Sequences, FiniteSets, SequencesExt

CONSTANTS
  Bits,  \* bits of precision of a number
  Unit,  \* numbers are multiples of 1/Unit, a power of two
  None   \* an absent value

-----------------------------------------------------------------------------
(* Floating point, rounding half to even.                                   *)

Magnitude(x) == IF x < 0 THEN -x ELSE x

\* The integer nearest to q + r / step.
HalfToEven(q, r, step) ==
  IF 2 * r > step \/ (2 * r = step /\ q % 2 = 1) THEN q + 1 ELSE q

\* The distance of the representable numbers around q.
Spacing(q) ==
  2 ^ CHOOSE e \in 0 .. 31 : q < 2 ^ (Bits + e) /\ (e > 0 => q >= 2 ^ (Bits + e - 1))

\* The representable number nearest to n/d, for n >= 0.
AtSpacing(n, step, spacing) == HalfToEven(n \div step, n % step, step) * spacing
Nearest(n, d) == AtSpacing(n, d * Spacing(n \div d), Spacing(n \div d))

Signed(z) == (IF z < 0 THEN -1 ELSE 1) * Nearest(Magnitude(z), 1)
Plus(x, y) == Signed(x + y)
Minus(x, y) == Plus(x, -y)
Times(x, y) == Nearest(x * y, Unit)
Over(x, y) == Nearest(x * Unit, y)
Hundredths(n) == Nearest(n * Unit, 100)
Least(x, y) == IF x < y THEN x ELSE y
Greatest(x, y) == IF x < y THEN y ELSE x

\* The loop `total += x`.
NaiveSum(xs) == FoldLeft(Plus, 0, xs)

\* The built-in sum(): since Python 3.12, the version the project requires, it
\* carries the rounding error of every addition and adds it at the end.
Lost(larger, smaller, sum) == Plus(Minus(larger, sum), smaller)
Compensated(acc, x, sum) ==
  [sum |-> sum,
   lost |-> Plus(acc.lost, IF Magnitude(acc.sum) >= Magnitude(x)
                           THEN Lost(acc.sum, x, sum) ELSE Lost(x, acc.sum, sum))]
Corrected(acc) == Plus(acc.sum, acc.lost)
BuiltinSum(xs) ==
  Corrected(FoldLeft(LAMBDA acc, x : Compensated(acc, x, Plus(acc.sum, x)),
                     [sum |-> 0, lost |-> 0], xs))

-----------------------------------------------------------------------------
(* What both scores are made from.                                          *)

Sources == <<"policy", "peer_group", "statistical", "transformer", "verification">>

Weight(source) ==
  Hundredths([policy |-> 35, peer_group |-> 15, statistical |-> 10,
              transformer |-> 10, verification |-> 30][source])

Severity(s) ==
  Hundredths([info |-> 10, low |-> 25, medium |-> 50, high |-> 75, critical |-> 100][s])

\* A finding: its severity, anomaly score and confidence.
FindingScore(f) == Times(Greatest(Severity(f.severity), f.anomaly), f.confidence)

\* The score of a set of findings is that of the strongest, and 0 when there is none.
Strongest(findings) ==
  FoldSet(LAMBDA f, s : Greatest(FindingScore(f), s), 0, findings)

StrongestIsCritical(findings) ==
  \E f \in findings : f.severity = "critical" /\ FindingScore(f) = Strongest(findings)
CriticalPresent(findings) == \E f \in findings : f.severity = "critical"

Band(score) ==
  IF score >= Hundredths(80) THEN "critical"
  ELSE IF score >= Hundredths(50) THEN "high"
  ELSE IF score >= Hundredths(25) THEN "medium"
  ELSE "low"

-----------------------------------------------------------------------------
(* The priority of a patch.  The evidence e is that of one report: its      *)
(* version, the findings of the deterministic recheck (peer is None without *)
(* a peer context), and the optional forest, neural and network children.   *)

Normalized(raw, lo, hi) ==
  IF hi <= lo
  THEN IF raw > hi THEN Unit ELSE Nearest(Unit, 2)
  ELSE Least(Unit, Greatest(0, IF raw < lo THEN 0 ELSE Over(Minus(raw, lo), Minus(hi, lo))))

\* A forest that predicts an inlier adds a true zero; an outlier is at least one half,
\* less what the parser left out and what a small training set is trusted for.
ForestScore(f, confidence) ==
  IF f.raw <= f.offset
  THEN 0
  ELSE Times(Greatest(Nearest(Unit, 2), Normalized(f.raw, f.min, f.max)),
             Least(Least(confidence, Over(f.samples, 50)), Unit))

NeuralScore(n) == IF n.anomaly_head THEN n.anomaly ELSE None

\* An observed loss counts when the engine was cleaned up after it; what was executed is
\* kept by protocol 3 only (source_priority.py) or by 3 and 4 (source_scope_priority.py,
\* the composition of report 4).
Loss(n) == n.cleanup /\ n.state = "observed" /\ n.direction \in {"loss_found", "loss_and_gain_found"}
ScopedLossV1(n) == n.protocol = 3 /\ Loss(n)
ScopedLossV2(n) == n.protocol \in {3, 4} /\ Loss(n)
ScopedLoss(report, n) ==
  n # None /\ IF report = 4 THEN ScopedLossV2(n) ELSE ScopedLossV1(n)

\* The raw score of a source, or None where the source says nothing.
ComponentValue(source, e) ==
  CASE source = "policy" -> Strongest(e.policy)
    [] source = "peer_group" -> IF e.peer = None THEN None ELSE Strongest(e.peer)
    [] source = "statistical" ->
         IF e.forest = None THEN None ELSE ForestScore(e.forest, e.confidence)
    [] source = "transformer" -> IF e.neural = None THEN None ELSE NeuralScore(e.neural)
    [] source = "verification" -> IF ScopedLoss(e.report, e.network) THEN Unit ELSE None

Available(e) == SelectSeq(Sources, LAMBDA s : ComponentValue(s, e) # None)

Guardrails(e) ==
  {g \in {"critical_policy", "observed_scoped_loss"} :
     IF g = "critical_policy" THEN CriticalPresent(e.policy)
     ELSE ScopedLoss(e.report, e.network)}

Floor(g) == Hundredths(IF g = "critical_policy" THEN 90 ELSE 95)

Raised(sum, guardrails) ==
  Least(Unit, CHOOSE m \in {sum} \cup {Floor(g) : g \in guardrails} :
                \A g \in guardrails : m >= Greatest(sum, Floor(g)))

WeightOf(sources) == BuiltinSum([i \in DOMAIN sources |-> Weight(sources[i])])

\* Mutants: every source has its weight, silent or not; the strongest finding decides
\* whether a policy finding is critical.
EveryWeight(e) == WeightOf(Sources)

TotalWeight(e) == WeightOf(Available(e))

Weighted(source, raw, weight) ==
  [source |-> source, raw |-> raw, weight |-> IF weight = None THEN 0 ELSE weight,
   contribution |-> IF weight = None THEN None ELSE Times(raw, weight)]

Component(source, e, raw) ==
  Weighted(source, raw, IF e.coverage = "supported_complete" /\ raw # None
                        THEN Over(Weight(source), TotalWeight(e)) ELSE None)

Components(e) ==
  [i \in DOMAIN Sources |-> Component(Sources[i], e, ComponentValue(Sources[i], e))]

Contributions(components) ==
  LET counted == SelectSeq(components, LAMBDA c : c.contribution # None)
  IN [i \in DOMAIN counted |-> counted[i].contribution]

Score(contributions, e) == Raised(BuiltinSum(contributions), Guardrails(e))

\* compose_source_priority
Composition(components, score, e) ==
  IF e.coverage = "supported_complete"
  THEN [components |-> components, score |-> score, band |-> Band(score),
        applicable |-> Guardrails(e), applied |-> Guardrails(e)]
  ELSE [components |-> components, score |-> None, band |-> None,
        applicable |-> Guardrails(e), applied |-> {}]
Composed(components, e) ==
  Composition(components, Score(Contributions(components), e), e)
Compose(e) == Composed(Components(e), e)

\* The model validator of SourcePriorityComposition recomputes all of it, with a loop.
Recomputed(components, e) ==
  Composition(components,
              Raised(NaiveSum(Contributions(components)), Guardrails(e)), e)
Accepts(p, e) ==
  /\ p = Recomputed(Components(e), e)
  /\ p.score # None => e.confidence = Unit

\* compose_partial_source_priority: only the policy findings are observed, and they
\* never become a score.
PartialComponent(source, e) ==
  [source |-> source, raw |-> IF source = "policy" THEN Strongest(e.policy) ELSE None,
   weight |-> 0, contribution |-> None]

ComposePartial(e) ==
  [components |-> [i \in DOMAIN Sources |-> PartialComponent(Sources[i], e)],
   score |-> None, band |-> None,
   applicable |-> IF CriticalPresent(e.policy) THEN {"critical_policy"} ELSE {},
   applied |-> {}]

-----------------------------------------------------------------------------
(* The risk of a device: r.completed says which detectors ran, r.findings   *)
(* gives each detector's findings, r.impact the outcome of verification.    *)

ImpactScore(impact) ==
  Hundredths([no_adverse_impact |-> 0, policy_regression |-> 75,
              loss_of_reachability |-> 100][impact])

\* Findings of a detector that did not complete are refused, and so is an assessment
\* that rests on nothing.
RiskRefused(r) ==
  \/ \E source \in DOMAIN r.findings : r.findings[source] # {} /\ source \notin r.completed
  \/ r.completed = {} /\ r.impact = "not_run"

RiskSources(r) ==
  r.completed \cup (IF r.impact = "not_run" THEN {} ELSE {"verification"})

RiskScore(source, r) ==
  IF source = "verification" THEN ImpactScore(r.impact) ELSE Strongest(r.findings[source])

RiskParts(available, total, r) ==
  [i \in DOMAIN available |->
     Times(RiskScore(available[i], r), Over(Weight(available[i]), total))]

RiskFloors(r) ==
  (IF CriticalPresent(r.findings["policy"]) THEN {"critical_policy"} ELSE {})
  \cup (IF r.impact = "loss_of_reachability" THEN {"observed_scoped_loss"} ELSE {})

Risk(score, r) ==
  [score |-> score, level |-> Band(score), guardrails |-> RiskFloors(r),
   missing |-> ToSet(Sources) \ RiskSources(r)]

\* fuse_risk.  It adds the weights in the order of a set; here it is that of Sources.
FuseRisk(r) ==
  LET available == SelectSeq(Sources, LAMBDA s : s \in RiskSources(r)) IN
  Risk(Raised(BuiltinSum(RiskParts(available, WeightOf(available), r)), RiskFloors(r)), r)

-----------------------------------------------------------------------------
(* Properties of one body of evidence e, or one assessment r.               *)

\* A priority that was composed from sound evidence is accepted by the record that is to
\* hold it: the score the workflow computes is the score the record recomputes.
ComposedIsAccepted(e, answer) == Accepts(answer, e)

\* A source that says nothing is not a healthy source: leaving it out of the report gives
\* the same score, band and guardrails, and a complete score lies between the weakest and
\* the strongest source that speaks, up to rounding, unless a guardrail raises it; on
\* partial coverage there is no score to misread.
Slack == Unit \div 2 ^ (Bits - 3)
Without(e, source) ==
  CASE source = "peer_group" -> [e EXCEPT !.peer = None]
    [] source = "statistical" -> [e EXCEPT !.forest = None]
    [] source = "transformer" -> [e EXCEPT !.neural = None]
    [] source = "verification" -> [e EXCEPT !.network = None]
    [] source = "policy" -> e

SilentIsNotHealthy(e, answer) ==
  LET heard == {c \in ToSet(answer.components) : c.raw # None} IN
  /\ answer.score = None <=> e.coverage # "supported_complete"
  /\ answer.score # None =>
       /\ \E c \in heard : answer.score + Slack >= c.raw
       /\ answer.applied = {} => \E c \in heard : answer.score <= c.raw + Slack
  /\ \A i \in DOMAIN Sources :
       answer.components[i].raw = None =>
         [Compose(Without(e, Sources[i])) EXCEPT !.components = <<>>]
           = [answer EXCEPT !.components = <<>>]

\* A critical policy finding keeps a complete priority and a risk critical, however weak its
\* confidence and however many healthy sources dilute it, also when another finding is
\* stronger; without a score it stays visible as an applicable guardrail.
CriticalPriorityStands(e, answer) ==
  (\E f \in e.policy : f.severity = "critical") =>
    /\ answer.band \in {"critical", None}
    /\ "critical_policy" \in answer.applicable \cap ComposePartial(e).applicable

CriticalRiskStands(r, answer) ==
  (\E f \in r.findings["policy"] : f.severity = "critical") => answer.level = "critical"

=============================================================================
