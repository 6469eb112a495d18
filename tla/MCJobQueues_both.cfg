\* Both queues, two jobs, two concurrent syncStates of each, one fault.
SPECIFICATION Spec
CONSTANTS
  c1 = c1
  c2 = c2
  r1 = r1
  r2 = r2
  None = None
  Job = {1, 2}
  Chain = {c1, c2}
  Runner = {r1, r2}
  JOB_QUEUES <- S3ThenGraphile
  MaxFaults = 1
INVARIANTS
  AcceptedIsKept
  RunsOnce
  ConsumersOK
CHECK_DEADLOCK FALSE
