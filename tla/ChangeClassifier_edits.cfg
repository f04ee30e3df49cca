SPECIFICATION Spec
CONSTANT MaxFiles = 2
CHECK_DEADLOCK FALSE
INVARIANTS
  EditsRun
  DocsOnlyRunNothing
