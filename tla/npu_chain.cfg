SPECIFICATION Spec
CONSTANTS
  NLayers = 2
  Engines = {"npu"}
  Reqs = {"r1"}
  MaxConn = 2
  MaxGen = 2
  MaxPass = 2
  MaxFaults = 1
INVARIANT AnswersRight
CHECK_DEADLOCK FALSE
