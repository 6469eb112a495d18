\* Every input of the matcher; one thread and action, two versions; two tasks, three events.
SPECIFICATION FairSpec
CONSTANTS
  p = p
  q = q
  k1 = k1
  k2 = k2
  k3 = k3
  h1 = h1
  h2 = h2
  g1 = g1
  g2 = g2
  g3 = g3
  ElementLists <- MCElementLists
  Selectors <- MCSelectors
  Values <- MCValues
  Events <- MCEvents
  Persons <- MCPersons
  Steps <- MCSteps
  Thread = {h1}
  Action = {a1}
  MaxVersion = 2
  MaxTasks = 2
  MaxLosses = 1
  Handler = {k1, k2, k3}
  Worker = {h1, h2}
  ThreadOf <- ThreadEach
  Definition <- MCDefinition
  GroupType = {g1, g2, g3}
  MAX_GROUP_TYPES_PER_TEAM = 2
  Captured <- MCCaptured
  MaxEvents = 3
  MaxFailures = 1
INVARIANTS
  MatcherAgrees
  ActionsOK
  DefinitionsOK
  ColumnsAgree
PROPERTIES
  EventuallyAgrees
CHECK_DEADLOCK FALSE
