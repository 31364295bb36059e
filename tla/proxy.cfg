SPECIFICATION FairProxySpec
CONSTANTS
  Batch = {"b1"}
  Contents <- Contained
  MaxTries = 3
  CacheTtl = 2
  MaxTime = 2
  MaxFaults = 1
  MaxCrashes = 1
INVARIANT SuccessIsDelivery
 
INVARIANT CountedPerAttempt
INVARIANT ReadingsFresh
PROPERTY Arrives
CHECK_DEADLOCK FALSE
