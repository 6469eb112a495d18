\* Two tasks of two threads, any two aliases, nothing failing.
SPECIFICATION Spec
CONSTANTS
  t1 = t1
  t2 = t2
  t3 = t3
  h1 = h1
  h2 = h2
  d1 = d1
  d2 = d2
  d3 = d3
  p1 = p1
  p2 = p2
  p3 = p3
  Task = {t1, t2}
  Thread = {h1, h2}
  ThreadOf <- ThreadEach
  DistinctId = {d1, d2, d3}
  PersonId = {p1, p2, p3}
  NoPerson = NoPerson
  NoId = NoId
  IllegalId = {}
  Calls <- Aliases
  Databases <- AnyDatabase
  CacheForgets = TRUE
  PoolSize = 4
  MAX_FAILED_PERSON_MERGE_ATTEMPTS = 3
  MaxCalls = 2
  MaxFaults = 0
PROPERTIES
  RaceErrorIsRetried
