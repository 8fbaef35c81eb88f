SPECIFICATION Spec
CONSTANTS
  Suite <- PytestSuite
  Clients = {"A", "B", "C", "D"}
  Channels = {"#1", "#2"}
  Tests <- AllTests
  Overlooked <- KnownOverlooked
  Slow <- Unhurried
  PingTimeout = 1
  PongTimeout = 2
INVARIANTS TypeOK NoFalseAlarm FaultsFound WaitsAnswerLastSend
PROPERTIES Finishes
CHECK_DEADLOCK FALSE
