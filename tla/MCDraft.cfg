SPECIFICATION FairSpec
CONSTANTS
  c1 = c1  c2 = c2  c3 = c3
  q1 = q1  q2 = q2  q3 = q3
  p1 = p1  p2 = p2
  f1 = f1  f2 = f2  f3 = f3  f4 = f4
  None = None
  Call = {c1, c2}
  Process = {q1, q2, q3}
  Patch = {p1}
  Finding = {f1, f2, f3, f4}
  Offered <- EveryRefusal
  Target <- MCTarget
  Allows <- MixedAllowed
  FaultKinds = {"crash", "database", "clock"}
  MaxFaults = 1
  MaxClock = 3
CHECK_DEADLOCK FALSE
INVARIANTS DraftsAgree
PROPERTIES LedgerSpec EveryCallAnswered
