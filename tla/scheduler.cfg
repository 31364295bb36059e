SPECIFICATION FairSchedSpec
CONSTANTS
  Node = {"n1", "n2"}
  LeaveGrace = 3
  JoinDebounce = 2
  RetryDelay = 2
  AbsentTtl = 4
  Periodic = 5
  WatchEvery = 2
  Overrides = {TRUE, FALSE}
  ReplanDelay = 0
INVARIANT PromiseKept
 
PROPERTY NewsIsPlanned
