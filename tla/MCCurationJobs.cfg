CONSTANTS
  s1 = s1
  s2 = s2
  v1 = v1
  v2 = v2
  None = None
  Sources <- TwoSources
  Versions <- TwoVersions
  MaxJobs = 3
  NumEpisodes = 1
  QueueCap = 2
  ExpiryLimit = 2
  Lease = 0
  MaxAttempt = 3
SPECIFICATION Spec
SYMMETRY Symmetry
INVARIANTS
  OneRunning
  SnapshotIsApprovedPlan
  EvidenceIsApproved
  PreflightDecides
PROPERTY Durable
CHECK_DEADLOCK FALSE
