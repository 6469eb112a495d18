\* Pauses, resumes, a bad message and a failure. A stopped queue stops.
SPECIFICATION FairSpec
CONSTANTS
  l1 = l1
  l2 = l2
  l3 = l3
  m1 = m1
  m2 = m2
  m3 = m3
  Message = {m1, m2, m3}
  Bad = {m3}
  Loop = {l1, l2, l3}
  FirstLoop = l1
  MaxErrors = 1
INVARIANTS
  LoopsOK
PROPERTIES
  MessagesAreTaken
  StopReturns
CHECK_DEADLOCK FALSE
