CONSTANTS
  s1 = s1
  v1 = v1
  v2 = v2
  None = None
  Sources <- OneSource
  Versions <- TwoVersions
  MaxJobs = 2
  NumEpisodes = 2
  QueueCap = 2
  ExpiryLimit = 2
  Lease = 0
  MaxAttempt = 2
  MaxFaults = 1
  MaxLate = 1
SPECIFICATION SystemSpec
SYMMETRY Symmetry
INVARIANTS
  ImportedIsComplete
  AcknowledgedIsCommitted
PROPERTY KeepsPromise
