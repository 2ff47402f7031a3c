SPECIFICATION FairSpec
CONSTANTS
  c1 = c1  c2 = c2  q1 = q1  q2 = q2  n1 = n1  n2 = n2  n3 = n3  n4 = n4
  d1 = d1  d2 = d2  d3 = d3  h1 = h1  h2 = h2  h3 = h3  lab = lab
  open = open  closed = closed  part = part  other = other  third = third  bad = bad
  None = None
  Caller = {c1, c2}
  Process = {q1, q2}
  Name = {n1, n2, n3, n4}
  Device = {d1, d2, d3}
  Label = {lab}
  Text = {open, closed, part, other, third, bad}
  Parsed <- MCParsed
  Repaired <- MCRepaired
  Configured = {q1}
  Restored <- MCRestored
  FaultKinds = {"crash", "database", "clock"}
  MaxFaults = 1
  MaxClock = 1
CHECK_DEADLOCK FALSE
INVARIANTS SlotsFreeAgain RecordsReadable DeviceKeepsIdentity StoreAgrees
PROPERTIES LogSpec EveryCallAnswered
