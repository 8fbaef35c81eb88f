SPECIFICATION Spec
CONSTANTS
  Tests = 2
  Commands = 2
  PipeSize = 2
  Stale = TRUE
INVARIANTS PassedOnOwnServer
CHECK_DEADLOCK FALSE
