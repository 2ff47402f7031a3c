SPECIFICATION Spec
CONSTANTS
  r1 = r1
  reader = reader  engineer = engineer
  read = read  draft = draft  modelUse = modelUse
  None = None
  Req = {r1}
  Role = {reader, engineer}
  Permission = {read, draft, modelUse}
  Grants <- MCGrants
  Offered <- EveryOperation
  FaultKinds = {"crash", "cancel", "database", "clock"}
  MaxFaults = 3
  MaxClock = 2
CHECK_DEADLOCK FALSE
INVARIANTS ReceiptBeforeEffect RefusedNeverActs EffectsAuthorized AnswersAreRecorded OutcomeLostOnlyByFailure
PROPERTIES NoEffectAfterOutcome
