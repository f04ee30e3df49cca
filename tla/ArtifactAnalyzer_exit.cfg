SPECIFICATION Spec
CONSTANTS
  Values <- MCValues
  SplitNames = {"a", "b"}
  MaxSplits = 2
  None = None
CHECK_DEADLOCK FALSE
INVARIANTS
  ExitOneMeansInvalid
