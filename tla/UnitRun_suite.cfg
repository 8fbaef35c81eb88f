SPECIFICATION Spec
CONSTANTS
  Clients = {"client1", "client2", "client3", "client4"}
  Channels = {"#chan1", "#chan2", "#chan3", "#new", "#test"}
  Suite <- UnitSuite
  Tests <- AllTests
  Faults <- AllFaults
  Overlooked <- KnownOverlooked
  Dangling <- PartTests
  Ticking <- ClockTests
  MaxClock = 1
INVARIANTS TypeOK NoFalseAlarm FaultsFound NoWildAccess MembershipAgrees
PROPERTIES FixtureRefinement
CHECK_DEADLOCK FALSE
