CONSTANTS
  None = None
  Idle = Idle
  Asked = Asked
  MaxWorlds = 2
  MaxRepairs = 1
  MaxSources = 2
  MaxTurns = 2
  MaxFaults = 1
SPECIFICATION FairSpec
INVARIANT HeldOutIsOfShown
PROPERTY RepairSettles
