\* Two tasks of one thread with a spare pool client, aliasing two distinct IDs.
SPECIFICATION FairSpec
CONSTANTS
  t1 = t1
  t2 = t2
  t3 = t3
  h1 = h1
  h2 = h2
  d1 = d1
  d2 = d2
  d3 = d3
  p1 = p1
  p2 = p2
  p3 = p3
  Task = {t1, t2}
  Thread = {h1}
  ThreadOf <- OneThread
  DistinctId = {d1, d2}
  PersonId = {p1, p2}
  NoPerson = NoPerson
  NoId = NoId
  IllegalId = {}
  Calls <- MergePair
  Databases <- AnyDatabase
  CacheForgets = FALSE
  PoolSize = 3
  MAX_FAILED_PERSON_MERGE_ATTEMPTS = 3
  MaxCalls = 3
  MaxFaults = 0
PROPERTIES
  EventsAreHandled
