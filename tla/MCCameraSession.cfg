CONSTANTS
  None = None
  Phones = {phone}
  Viewers = {viewer1, viewer2}
  MaxEvents = 4
SPECIFICATION FairSpec
INVARIANT ReplacementStays
PROPERTY PairConnects
CHECK_DEADLOCK FALSE
