\* Two jobs on two queue keys, without failures: every job ends, across two
\* stops or crashes, and is continued once at most.
CONSTANTS
  q1 = q1
  q2 = q2
  c1 = c1
  MaxJobs = 2
  Queue = {q1, q2}
  Canceler = {c1}
  MaxResumes = 1
  MaxBoots = 3
  DBMayFail = FALSE
  ClientMayLeave = FALSE
SPECIFICATION FairSpec
INVARIANTS
  IInv
  NothingLost
  ContinuedBoundedly
  LeftToRecover
PROPERTIES
  EveryJobEnds
CHECK_DEADLOCK FALSE
