SPECIFICATION FairSpec
CONSTANTS
  DEADLINE = 5
  CALL = 3
  LEAST = 2
  LAUNCH = 4
  INTERVAL = 1
  MaxPolls = 2
  MaxPending = 3
CHECK_DEADLOCK FALSE
INVARIANTS
  TypeOK
  VerifiedTunIsLocked
  RefusalIsOld
  OverrunIsOneAttempt
PROPERTY Ends
