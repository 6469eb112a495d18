\* A lock that could not be extended.
SPECIFICATION Spec
CONSTANTS
  s1 = s1
  s2 = s2
  NoServer = NoServer
  Server = {s1, s2}
  Config = {c1}
  MaxFaults = 1
PROPERTIES
  StartsWithLock
CHECK_DEADLOCK FALSE
