\* Paused again while an earlier loop polls.
SPECIFICATION Spec
CONSTANTS
  l1 = l1
  l2 = l2
  l3 = l3
  m1 = m1
  m2 = m2
  m3 = m3
  Message = {m1, m2, m3}
  Bad = {}
  Loop = {l1, l2, l3}
  FirstLoop = l1
  MaxErrors = 0
PROPERTIES
  PausedTakesNothing
CHECK_DEADLOCK FALSE
