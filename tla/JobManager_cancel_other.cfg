\* Cancel of one job stops another of its queue.
CONSTANTS
  q1 = q1
  q2 = q2
  c1 = c1
  MaxJobs = 2
  Queue = {q1}
  Canceler = {c1}
  MaxResumes = 1
  MaxBoots = 1
  DBMayFail = FALSE
  ClientMayLeave = FALSE
SPECIFICATION Spec
INVARIANTS
  StoppedOnlyIfAsked
CHECK_DEADLOCK FALSE
