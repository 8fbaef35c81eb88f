SPECIFICATION Spec
CONSTANTS
  Suite <- PytestSuite
  Clients = {"A", "B", "C", "D"}
  Channels = {"#1", "#2"}
  Tests <- InviteErrors
  Overlooked <- NoneOverlooked
  Slow <- InviteErrors
  PingTimeout = 2
  PongTimeout = 2
INVARIANTS InviterIsOperatorAgain
CHECK_DEADLOCK FALSE
