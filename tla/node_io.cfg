SPECIFICATION FairIOSpec
CONSTANTS
  Layer = {0, 1}
  Asked = {{0, 1}, {1}}
  Programs = {TRUE, FALSE}
  MaxConn = 2
  MaxTasks = 3
  MaxFaults = 2
INVARIANT IOTypeOK
INVARIANT FilesWhole
INVARIANT FailuresHaveCause
INVARIANT NewestWins
INVARIANT ServedStaysOnDisk
PROPERTY TasksEnd
CHECK_DEADLOCK FALSE
