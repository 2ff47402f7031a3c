SPECIFICATION AlgorithmSpec
CONSTANTS
  None = None
  Refused = Refused
  Every = Every
  Pins = {"model", "foundation", "artifact"}
  Kind <- KindOfPin
  Writers = {1, 2}
  MaxEntries = 1
  MaxLosses = 1
  Idle = None
  Id = {1, 2, 3, 4, 5, 6}
  MaxTime = 1
  MaxLimit = 2
  Scenes = {"pages", "priority", "risk", "dataset", "cut", "store", "compare", "peers", "recheck", "cisco", "junos"}
CHECK_DEADLOCK FALSE
INVARIANTS NothingSkipped SilentIsNotHealthy CriticalStands DatasetsAreSound PublishedIsWhole ComparisonsAgree DeviationsAreJustified EveryLineAccounted SettingsStandWhereWritten
