SPECIFICATION Spec
CONSTANTS
  NCases = 2
  Operations <- MCOperations
  Repeats = {"JAVA_TCP4"}
  MaxPolls = 2
CHECK_DEADLOCK FALSE
INVARIANT OtherCaseCannotSubstitute
