SPECIFICATION Spec
CONSTANTS
  Lengths = {19, 20, 23, 24, 27, 28, 39, 40, 43, 44, 60}
  Ports = {46151, 46152, 46153, 46154, 53, 80, 443}
  Sizes = {0, 60, 128, 129, 262144, 262145}
  Files <- MCFiles
CHECK_DEADLOCK FALSE
INVARIANTS
  RowsAreTheCapture
  RaisesOnlyIfDamaged
  DataMeansPayload
  DecodersAgree
  UnknownRevealsNothing
