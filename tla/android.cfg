SPECIFICATION FairSpec
CONSTANTS
  NLayers = 2
  Engines = {"cpu", "npu"}
  Reqs = {"r1"}
  MaxConn = 2
  MaxGen = 2
  MaxPass = 2
  MaxFaults = 1
 
INVARIANT OnlyLiveFrames
 
INVARIANT HeartbeatKept
PROPERTY AssignAnswered
CHECK_DEADLOCK FALSE
