SPECIFICATION N2Spec
CONSTANTS
  n1 = n1
  n2 = n2
  Nodes = {n1, n2}
  NLayers = 2
  Cap <- UnevenCap
  MaxConn = 2
  MaxGen = 2
  MaxInflight = 1
  MaxFaults = 2
  StartFiles <- AllFiles
  KeepsFiles = {n1, n2}
  Linger = FALSE
  RejoinMidSwitch = FALSE
  LateAnswers = FALSE
  OtherFrames = {}
INVARIANT TypeOK
INVARIANT RoutedHoldsRange
INVARIANT CommittedTiles
PROPERTY ImplementsService
CHECK_DEADLOCK FALSE
