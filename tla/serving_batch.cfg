SPECIFICATION SettledServing
CONSTANTS
  n1 = n1
  n2 = n2
  r1 = r1
  r2 = r2
  Nodes = {n1, n2}
  NLayers = 2
  Cap <- SmallCap
  MaxConn = 1
  MaxGen = 1
  MaxInflight = 2
  MaxFaults = 1
  StartFiles <- AllFiles
  KeepsFiles = {n1, n2}
  Linger = FALSE
  RejoinMidSwitch = FALSE
  LateAnswers = FALSE
  OtherFrames <- Traffic
  Reqs = {r1, r2}
  MaxPass = 2
  MaxBatch = 2
  Batched = TRUE
  Cancels = TRUE
INVARIANT InflightCounts
INVARIANT SameGenerationWholeCaches
CHECK_DEADLOCK FALSE
