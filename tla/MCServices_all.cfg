\* Messages of each size, one too large; three entries, two metrics; two servers. All may end idle.
SPECIFICATION ServicesSpec
CONSTANTS
  m1 = m1
  m2 = m2
  m3 = m3
  m4 = m4
  x1 = x1
  x2 = x2
  x3 = x3
  Message = {m1, m2, m3, m4}
  Size <- Sizes
  maxBatchSize = 3
  maxQueueSize = 3
  MaxFailures = 2
  Entry = {e1, e2, e3}
  PluginConfig = {c1, c2}
  MaxUpdates = 2
  MaxRejected = 1
  OnEvent = {x1, x2, x3}
  ExportsToIgnore = {x3}
  MAXIMUM_RETRIES = 2
  MaxMishaps = 1
  Host = {s1, s2}
  Slot = {1, 2}
  MaxChecks = 2
  MaxAges = 1
  MaxTroubles = 1
INVARIANTS
  ProducerOK
  BufferOK
  MetricsOK
  DownloadsOK
PROPERTIES
  ServicesEnd
  AttachmentIsKept
CHECK_DEADLOCK FALSE
