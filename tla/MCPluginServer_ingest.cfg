SPECIFICATION Spec
CONSTANTS
  LogEnd = 2
  Snapshots <- FirstIsSnapshot
  GroupSize = 1
  NumPlugins = 1
  MaxRounds = 2
  MaxFaults = 1
INVARIANTS
  ServerOK
  CommittedIsHandled
  DuplicateHasCause
  ShutdownIsComplete
PROPERTIES
  DestroyLosesNoBatch
CHECK_DEADLOCK FALSE
