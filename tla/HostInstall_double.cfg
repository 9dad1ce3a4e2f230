SPECIFICATION Spec
CONSTANTS
  Host = {h1}
  Request = {r1, r2}
  Slots = 1
  MaxJobs = 2
  MaxCancels = 0
  MaxAborts = 0
  MaxRestarts = 0
  h1 = h1
  r1 = r1
  r2 = r2
INVARIANT SecondStartsNothing
CHECK_DEADLOCK FALSE
