SPECIFICATION Spec
CONSTANTS
  Clients = {"client1", "client2", "client3", "client4"}
  Channels = {"#chan1", "#chan2", "#chan3", "#new", "#test"}
  Suite <- UnitSuite
  Tests <- PartTests
  Faults <- NoFaults
  Overlooked <- NoneOverlooked
  Dangling <- NoTests
  Ticking <- NoTests
  MaxClock = 1
INVARIANTS NoWildAccess
CHECK_DEADLOCK FALSE
