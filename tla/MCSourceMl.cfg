SPECIFICATION FairSpec
CONSTANTS
  c1 = c1  c2 = c2  c3 = c3
  q1 = q1  q2 = q2  q3 = q3
  k1 = k1
  d1 = d1  d2 = d2  d3 = d3  d4 = d4
  s1 = s1  s2 = s2
  m1 = m1  m2 = m2
  None = None
  Call = {c1, c2}
  Process = {q1, q2, q3}
  Key = {k1}
  Patch = {d1, d2, d3, d4}
  Sha = {s1, s2}
  Model = {m1, m2}
  Offered <- RefusalRequests
  Draft <- RefusalDraft
  Pin <- MixedPin
  FaultKinds = {"crash", "database", "clock"}
  MaxFaults = 1
  MaxClock = 3
CHECK_DEADLOCK FALSE
INVARIANTS AtMostOneRun TrailAgrees RecordsReadable
PROPERTIES LedgerSpec EveryCallAnswered
