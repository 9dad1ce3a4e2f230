\* Two requests at a time for the same file of sshd.
CONSTANTS
  r1 = r1
  r2 = r2
  a = a
  x = x
  d = d
  torn = torn
  absent = absent
  Request = {r1, r2}
  Content = {a, x, d}
  Torn = torn
  Absent = absent
  Initial = {a, absent}
  Rejected = {x, torn}
  Deaf = {d}
  Edits <- MCEdits
  Probed = TRUE
  MaxRequests = 3
  MaxFaults = 1
SPECIFICATION Spec
SYMMETRY Symmetry
INVARIANTS
  TypeOK
  FirstContentKept
  VersionsReadable
  RefusedIsUndone
  DiskIsInHistory
PROPERTIES
  SshdComesBack
  StaleIsRefused
CHECK_DEADLOCK FALSE
