CONSTANTS
  a1 = a1
  a2 = a2
  Apis <- TwoApis
  Nobody = Nobody
  Serial = TRUE
  MaxRestarts = 2
SPECIFICATION FairHostSpec
INVARIANTS OwnerHasLock LockCoversWorker BoundedRestarts
PROPERTIES StopsCleanly WorkerComesBack
CHECK_DEADLOCK FALSE
