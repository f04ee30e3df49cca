SPECIFICATION FairSpec
CONSTANTS
  MINIMUM = 4
  QUIET = 3
  DEADLINE = 7
  INTERVAL = 2
  MaxSize = 3
  MaxStalls = 1
CHECK_DEADLOCK FALSE
INVARIANT StableUpToStalls
INVARIANT DoneByDeadline
PROPERTY Returns
