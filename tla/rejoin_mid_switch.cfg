SPECIFICATION SettledSpec
CONSTANTS
  n1 = n1
  n2 = n2
  Nodes = {n1, n2}
  NLayers = 2
  Cap <- SmallCap
  MaxConn = 2
  MaxGen = 2
  MaxInflight = 0
  MaxFaults = 2
  StartFiles <- AllFiles
  KeepsFiles = {n1, n2}
  Linger = FALSE
  RejoinMidSwitch = TRUE
  LateAnswers = TRUE
  OtherFrames = {}
INVARIANT RoutedWhileOpen
CHECK_DEADLOCK FALSE
