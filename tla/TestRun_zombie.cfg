SPECIFICATION Spec
CONSTANTS
  Suite <- PytestSuite
  Clients = {"A", "B", "C", "D"}
  Channels = {"#1", "#2"}
  Tests <- NoPong
  Overlooked <- NoneOverlooked
  Slow = {}
  PingTimeout = 2
  PongTimeout = 2
INVARIANTS FaultsFound
CHECK_DEADLOCK FALSE
