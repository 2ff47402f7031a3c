SPECIFICATION AlgorithmSpec
CONSTANTS
  None = None
  Refused = Refused
  Every = Every
  Pins = {"model", "foundation", "artifact"}
  Kind <- KindOfPin
  Writers = {1, 2}
  MaxEntries = 1
  MaxLosses = 1
  Idle = None
  Id = {1}
  MaxTime = 0
  MaxLimit = 1
  Scenes = {"priority"}
CHECK_DEADLOCK FALSE
INVARIANTS ComposedIsAccepted
