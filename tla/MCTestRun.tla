----------------------------- MODULE MCTestRun ------------------------------
(* Sets of integration tests for the model checker. *)
EXTENDS TestWaits, ConnectionScripts

AllTests == DOMAIN PytestSuite
NoTests  == {}

\* The others hang on a time-out of 0.1 s to 0.5 s for their verdict.
Unhurried == AllTests \ {"notice_to_nonexistent_target", "mode_topic_protection",
                         "invite_success", "invite_errors", "names_multiple",
                         "names_no_parameters", "list_command", "who_command"}
NoticeToChannel == {"notice_to_channel"}
InviteErrors == {"invite_errors"}
NoPong == {"no_pong_disconnect"}

\* What TestRun_proofs takes for granted of the scripts in order that no wait is met
\* by the answer to an older command.
ASSUME SeparationAssumption == SeparatedSuite

\* test_05_notice.py:55 looks at one message, and that one is a JOIN; for
\* test_04_ping_pong.py:91 a server that stays silent has closed the connection;
\* test_11_list.py:70 looks at the first channel listed; test_12_who.py:85 throws
\* away an error that comes first.
KnownOverlooked == {<<"notice_to_channel", "notice_echoed">>,
                    <<"no_pong_disconnect", "zombie_kept">>,
                    <<"list_command", "list_unfiltered">>,
                    <<"who_command", "who_error_first">>}
NoneOverlooked == {}
=============================================================================
