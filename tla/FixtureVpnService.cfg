SPECIFICATION FairSpec
CONSTANTS
  MaxInstances = 2
  MaxTuns = 2
  MaxCommands = 3
  MaxReplacements = 1
CHECK_DEADLOCK FALSE
INVARIANTS
  TypeOK
  CurrentObserverOwnsTun
  NoOrphanDescriptor
  ForeignPacketOnlyWhenStale
  StopLeavesNoTun
  EstablishedMeansTun
PROPERTIES
  ImplementsSessions
  RevokeTakesEffect
