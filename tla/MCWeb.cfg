SPECIFICATION WebSpec
CONSTANTS
  None = None
  Sessions <- TwoSessions
  Snapshots = {s1, s2}
  MaxAsks = 4
  Kinds <- EveryKind
  Ids <- TwoAttempts
  MaxMounts = 2
INVARIANTS OneAttemptAtATime SessionIsSound
PROPERTY ForgetsOnlySettled
CHECK_DEADLOCK FALSE
