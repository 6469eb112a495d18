\* One configuration, one edit, the shutdown, three concurrent executions of
\* setupPlugins and loadSchedule, one failing query.
SPECIFICATION Spec
CONSTANTS
  Config = {p1}
  MaxVMs = 2
  Setup = {s1, s2, s3}
  None = None
  MAX_SETUP_RETRIES = 2
  MaxEdits = 1
  MaxFaults = 1
SYMMETRY Symmetry
INVARIANTS
  VMsOK
  NoTornVMInUse
  NoStrayVM
  ScheduleAgrees
CHECK_DEADLOCK FALSE
