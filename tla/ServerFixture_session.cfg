SPECIFICATION Spec
CONSTANTS
  Tests = 3
  Commands = 2
  PipeSize = 1
  Stale = FALSE
INVARIANTS TypeOK PassedOnOwnServer StoppedOrDying
PROPERTIES SessionEnds ToldToStopIsGone
CHECK_DEADLOCK FALSE
