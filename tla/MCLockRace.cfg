CONSTANTS
  a1 = a1
  a2 = a2
  a3 = a3
  Apis <- ThreeApis
  Nobody = Nobody
  Serial = FALSE
SPECIFICATION LockSpec
INVARIANT OneOwner
CHECK_DEADLOCK FALSE
