SPECIFICATION Spec
CONSTANTS
  c1 = c1  c2 = c2  q1 = q1  q2 = q2  n1 = n1
  whole = whole  partial = partial  same = same  gone = gone  a1 = a1  a2 = a2  a3 = a3
  None = None
  Caller = {c1, c2}
  Process = {q1, q2}
  Name = {n1}
  Pair = {whole, partial, same, gone}
  Analysis = {a1, a2, a3}
  Parsed <- MCParsed
  Baseline <- MCBaseline
  Restored <- MCRestored
  Engine = {q1}
  FaultKinds = {"crash", "database", "clock"}
  MaxFaults = 1
  MaxClock = 1
CHECK_DEADLOCK FALSE
INVARIANTS EvidenceReadable EvidenceAgrees
PROPERTIES LogSpec
