CONSTANTS
  None = None
  Idle = Idle
  Asked = Asked
  Failed = Failed
  MaxWorlds = 3
  MaxFaults = 1
SPECIFICATION FairSpec
INVARIANT ModelOfShown
PROPERTIES
  AnswersNeverSetBack
  CatchesUp
  ShowsLiveWorlds
