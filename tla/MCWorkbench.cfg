CONSTANTS
  h1 = h1
  h2 = h2
  o = o
  s1 = s1
  s2 = s2
  Operator = Operator
  None = None
  Handlers <- TwoHandlers
  Clients <- AllClients
  Scenes <- AllScenes
  DefaultScene <- InitialScene
  MaxCheckpoints = 1
  MaxBranches = 1
  MaxSlots = 1
  OperatorRequests <- Meddling
  Floors <- OneFloor
  Obstacles <- OneObstacle
  Seeds <- TwoSeeds
  DefaultFloor = 1
  DefaultSeed = 0
  Sources <- TwoSources
  MaxTurns = 2
  MaxTests = 1
  MaxTrials = 2
  MaxSteps = 1
  MaxRequests = 4
  MaxMishaps = 1
SPECIFICATION Spec
INVARIANTS SlotsAreRunning NoStaleCapture
  PromotedWasMeasured ReplayOfOrigin HeldOutOnOrigin NoLeakedBranch
PROPERTY AnswersAreCurrent
CHECK_DEADLOCK FALSE
SYMMETRY Symmetric
