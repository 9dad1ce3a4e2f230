\* Three jobs on one queue key, one stop or crash; database calls fail and
\* clients leave.
CONSTANTS
  q1 = q1
  q2 = q2
  c1 = c1
  MaxJobs = 3
  Queue = {q1}
  Canceler = {c1}
  MaxResumes = 1
  MaxBoots = 1
  DBMayFail = TRUE
  ClientMayLeave = TRUE
SPECIFICATION Spec
INVARIANTS
  TypeOK
  QueueExclusive
  NoStalledQueue
  
PROPERTIES
  OutcomeIsFinal
  
CHECK_DEADLOCK FALSE
