SPECIFICATION Spec
CONSTANTS
  Signed <- OneSigned
  MaxChanges = 2
CHECK_DEADLOCK FALSE
INVARIANTS
  TypeOK
  Ipv6NotLater
  SuccessNeedsData
  RaceIsGated
  ControlsLeft
  LossIsReal
