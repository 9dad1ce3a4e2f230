\* Two edits at a time, no failures: a rejected file stays.
CONSTANTS
  r1 = r1
  r2 = r2
  a = a
  x = x
  d = d
  torn = torn
  absent = absent
  Request = {r1, r2}
  Content = {a, x, d}
  Torn = torn
  Absent = absent
  Initial = {a}
  Rejected = {x, torn}
  Deaf = {}
  Edits <- MCEdits
  Probed = FALSE
  MaxRequests = 2
  MaxFaults = 0
SPECIFICATION Spec
SYMMETRY Symmetry
INVARIANTS
  NeverLeftRejected
CHECK_DEADLOCK FALSE
