SPECIFICATION FairSpec
CONSTANTS
  NCases = 2
  Operations <- MCOperations
  Repeats = {}
  MaxPolls = 2
CHECK_DEADLOCK FALSE
INVARIANTS
  TypeOK
  EvidenceIsOwn
  
  RowsExact
PROPERTY Ends
