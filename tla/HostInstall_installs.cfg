SPECIFICATION Spec
CONSTANTS
  Host = {h1, h2}
  Request = {r1}
  Slots = 1
  MaxJobs = 2
  MaxCancels = 1
  MaxAborts = 1
  MaxRestarts = 1
  h1 = h1
  h2 = h2
  r1 = r1
INVARIANTS TypeOK SlotsRight 
PROPERTIES InstallsEnd
CHECK_DEADLOCK FALSE
