----------------------------- MODULE MCUnitRun ------------------------------
(* The unit tests, and sets of them for the model checker. *)
EXTENDS UnitGuards, UnitChannelScripts

AllTests   == DOMAIN UnitSuite
AllFaults  == UNION {UnitSuite[t].finds : t \in AllTests}
NoTests    == {}
NoFaults   == {}

\* These read the clock.
ClockTests == {"ExecutePongCommandUpdatesActivityTime", "Whois_Success"}

\* JoinPrivmsgPartTest.cpp:207 and 226 use channels that the PART deleted.
PartTests  == {"Part_MultipleChannels", "Join_ZeroPartsAllChannels"}

\* The others are guarded, and all make both records of who is in a channel, which
\* UnitAccess_proofs takes for granted.
ASSUME GuardedAssumption == Dangling = PartTests => GuardedSuite
ASSUME AgreeingAssumption == AgreeingSuite

\* ListCommandTest.cpp:43 finds its "1" in "#chan1".
KnownOverlooked == {<<"List_WithChannels", "list_counts_none">>}
NoneOverlooked == {}
=============================================================================
