\* Exports of two ranges, one after the other.
SPECIFICATION Spec
CONSTANTS
  JobThread = {h1, h2}
  Events = {e1, e2, e3, e4, e5, e6}
  e1 = e1
  e2 = e2
  e3 = e3
  e4 = e4
  e5 = e5
  e6 = e6
  timestamp <- Times
  orderKey <- Keys
  Precision = 2
  Interval = 2
  EventsPerRun = 1
  Ranges <- Both
  MaxRetries = 2
  MaxActs = 2
INVARIANTS
  ThreadsInSync
CHECK_DEADLOCK FALSE
