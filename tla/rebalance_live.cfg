SPECIFICATION JoinSpec
CONSTANTS
  n1 = n1
  n2 = n2
  Nodes = {n1, n2}
  NLayers = 2
  Cap <- UnevenCap
  MaxConn = 2
  MaxGen = 2
  MaxInflight = 0
  MaxFaults = 1
  StartFiles <- AllFiles
  KeepsFiles = {n1}
  Linger = FALSE
  RejoinMidSwitch = TRUE
  LateAnswers = TRUE
  OtherFrames = {}
INVARIANT WrongBeliefIsTransient
PROPERTY ApplyEnds
PROPERTY Heals
PROPERTY JoinersSettle
CHECK_DEADLOCK FALSE
