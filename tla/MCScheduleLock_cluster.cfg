\* Two servers: stops, crashes, reloads and two faults. All may end stopped.
SPECIFICATION FairSpec
CONSTANTS
  s1 = s1
  s2 = s2
  NoServer = NoServer
  Server = {s1, s2}
  Config = {c1}
  MaxFaults = 2
INVARIANTS
  OneActiveServer
PROPERTIES
  SomeServerSchedules
  StopEnds
CHECK_DEADLOCK FALSE
