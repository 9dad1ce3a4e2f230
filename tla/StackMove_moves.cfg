SPECIFICATION Spec
CONSTANTS
  Host = {a, b}
  Home = a
  HubMachine = b
  PublishesPorts = FALSE
  MaxMoves = 3
  MaxWrites = 1
  MaxFaults = 1
  MaxCancels = 1
  Cancelable = {"move"}
  Breakable = {"pack", "copy", "unpack", "raise"}
  a = a
  b = b
INVARIANTS TypeOK ServedWhenIdle OneCopyRuns NothingLeftBehind NewestKept
PROPERTIES MoveEnds
CHECK_DEADLOCK FALSE
