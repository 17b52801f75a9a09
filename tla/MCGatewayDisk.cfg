CONSTANTS
  r1 = r1
  l1 = l1
  l2 = l2
  t1 = t1
  Repairs <- MCRepairs
  Calls <- MCCalls
  Writes <- MCWrites
  Reserve = 2
  Costs <- MCCosts
  Limit = 4
  Size <- MCSize
  MaxRecords = 2
  MaxBytes = 3
  SyncsDirectories = TRUE
  MaxFaults = 1
SYMMETRY Symmetry
SPECIFICATION Spec
INVARIANTS
  SpendingCovered
  NoReserveLost
  VisibleIsWhole
  ChargesAreOnRecord
PROPERTIES
  KeepsBook
CHECK_DEADLOCK FALSE
