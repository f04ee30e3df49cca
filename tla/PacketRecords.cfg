SPECIFICATION BudgetSpec
CONSTANTS
  CONTROLLED_LIMIT = 1
  BACKGROUND_LIMIT = 2
  MaxSeen = 3
  Packets <- MCPackets
CHECK_DEADLOCK FALSE
INVARIANTS
  RecordsBounded
  EvidenceNotStarved
