SPECIFICATION SettledServing
CONSTANTS
  n1 = n1
  n2 = n2
  r1 = r1
  r2 = r2
  Nodes = {n1, n2}
  NLayers = 2
  Cap <- SmallCap
  MaxConn = 2
  MaxGen = 2
  MaxInflight = 1
  MaxFaults = 1
  StartFiles <- AllFiles
  KeepsFiles = {n1, n2}
  Linger = FALSE
  RejoinMidSwitch = FALSE
  LateAnswers = FALSE
  OtherFrames <- Traffic
  Reqs = {r1}
  MaxPass = 2
  MaxBatch = 2
  Batched = FALSE
  Cancels = TRUE
INVARIANT SameGenerationSameLayout
 
PROPERTY AnswersThisPass
CHECK_DEADLOCK FALSE
