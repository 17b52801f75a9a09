CONSTANTS
  s1 = s1
  v1 = v1
  v2 = v2
  None = None
  Sources <- OneSource
  Versions <- OneVersion
  MaxJobs = 3
  NumEpisodes = 1
  QueueCap = 2
  ExpiryLimit = 2
  Lease = 0
  MaxAttempt = 1
  MaxFaults = 2
  MaxLate = 0
SPECIFICATION FairSpec
PROPERTY JobsSettle
