SPECIFICATION Spec
CONSTANTS
  c1 = c1  q1 = q1  q2 = q2  p1 = p1  f1 = f1
  v1 = v1  v2 = v2  e1 = e1  e2 = e2  k1 = k1  k2 = k2  x1 = x1
  None = None
  Call = {c1}
  Process = {q1, q2}
  Patch = {p1}
  Finding = {f1}
  Offered <- OneDraft
  Target <- OneTarget
  Allows <- MCAllows
  Verifier = {v1}
  Decider = {e1, e2}
  Review = {k1}
  DecisionId = {x1}
  OfferedReviews <- OneReview
  OfferedDecisions <- EveryVerdict
  Engine = {q1}
  FaultKinds = {"database"}
  MaxFaults = 1
  MaxClock = 1
CHECK_DEADLOCK FALSE
SYMMETRY SymmetricDeciders
INVARIANTS ApprovalsJustified DecisionAnswersAgree
