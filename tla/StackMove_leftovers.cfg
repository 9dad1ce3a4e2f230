SPECIFICATION Spec
CONSTANTS
  Host = {a, b}
  Home = a
  HubMachine = a
  PublishesPorts = FALSE
  MaxMoves = 3
  MaxWrites = 0
  MaxFaults = 0
  MaxCancels = 0
  Cancelable = {}
  Breakable = {}
  a = a
  b = b
INVARIANT CleansLeftovers
CHECK_DEADLOCK FALSE
