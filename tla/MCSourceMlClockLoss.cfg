SPECIFICATION FairSpec
CONSTANTS
  c1 = c1  c2 = c2  c3 = c3
  q1 = q1  q2 = q2  q3 = q3
  k1 = k1
  d1 = d1  d2 = d2  d3 = d3  d4 = d4
  s1 = s1  s2 = s2
  m1 = m1  m2 = m2
  None = None
  Call = {c1}
  Process = {q1, q2}
  Key = {k1}
  Patch = {d1}
  Sha = {s1, s2}
  Model = {m1, m2}
  Offered <- OneRequest
  Draft <- OneDraft
  Pin <- SamePin
  FaultKinds = {"clock"}
  MaxFaults = 1
  MaxClock = 1
CHECK_DEADLOCK FALSE
PROPERTIES FailureIsRecorded
