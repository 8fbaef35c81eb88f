--------------------------- MODULE ServerFixture ----------------------------
(***************************************************************************)
(* integration_tests/conftest.py: the irc_server fixture starts one server  *)
(* process per test and stops it in its teardown, and a pytest hook records *)
(* each phase's report. The server processes are the environment.           *)
(***************************************************************************)
EXTENDS Integers

CONSTANTS Tests,     \* the session runs tests 1..Tests, one after the other
          Commands,  \* commands a test may send; each costs the server a log line
          PipeSize,  \* log lines the stdout pipe holds: nobody reads it
          Stale      \* may a server of an earlier session still own the port?

ASSUME FixtureAssumption ==
  /\ Tests \in Nat \ {0} /\ Commands \in Nat /\ PipeSize \in Nat
  /\ Stale \in BOOLEAN

\* Process 0 is the stale server, process t the one of test t.
Processes == 0..Tests

VARIABLES proc,     \* "none", "starting", "listening" or "exited"
          signal,   \* strongest signal sent to it: "none", "term" or "kill"
          pipe,     \* lines in its stdout pipe
          test,     \* the test that pytest runs
          phase,    \* where the fixture is, "between" tests, or "over"
          handled,  \* commands of this test that were answered
          servedBy, \* processes that answered them
          rep_call, \* item.rep_call: "unset", "passed" or "failed"
          cut       \* the phase in which the last Ctrl-C struck, or "no"

Phases == {"between", "sleep", "body", "terminate", "wait", "log", "over"}

session == <<test, handled, servedBy, rep_call>>
vars == <<proc, signal, pipe, phase, cut, session>>

Init ==
  /\ \E stale \in {"none"} \cup (IF Stale THEN {"listening"} ELSE {}) :
       proc = [p \in Processes |-> IF p = 0 THEN stale ELSE "none"]
  /\ signal = [p \in Processes |-> "none"]
  /\ pipe = [p \in Processes |-> 0]
  /\ test = 1 /\ phase = "between" /\ cut = "no"
  /\ handled = 0 /\ servedBy = {} /\ rep_call = "unset"

Alive(p) == proc[p] \in {"starting", "listening"}

-----------------------------------------------------------------------------
(* The server processes *)

\* It binds the port, or exits because another process still holds it.
Start(p) ==
  /\ proc[p] = "starting" /\ signal[p] # "kill"
  /\ proc' = [proc EXCEPT ![p] = IF \E q \in Processes : proc[q] = "listening"
                                   THEN "exited" ELSE "listening"]
  /\ UNCHANGED <<signal, pipe, phase, cut, session>>

\* It may crash at any time; SIGTERM and the Ctrl-C of an interrupt may end it,
\* SIGKILL does.
Exit(p) ==
  /\ Alive(p)
  /\ proc' = [proc EXCEPT ![p] = "exited"]
  /\ UNCHANGED <<signal, pipe, phase, cut, session>>

\* It answers a command of the test's clients unless its log pipe is full.
Serves(p) == proc[p] = "listening" /\ signal[p] # "kill"

\* Variant: one line too many.
PipeAtLimit(p) == pipe[p] <= PipeSize

PipeHasRoom(p) == pipe[p] < PipeSize

Answer(p) ==
  /\ phase = "body" /\ Serves(p) /\ PipeHasRoom(p)
  /\ handled < Commands
  /\ handled' = handled + 1
  /\ servedBy' = servedBy \cup {p}
  /\ pipe' = [pipe EXCEPT ![p] = @ + 1]
  /\ UNCHANGED <<proc, signal, phase, cut, test, rep_call>>

-----------------------------------------------------------------------------
(* The fixture and the pytest runner *)

Popen ==
  /\ phase = "between" /\ test <= Tests
  /\ proc' = [proc EXCEPT ![test] = "starting"]
  /\ phase' = "sleep"
  /\ handled' = 0 /\ servedBy' = {} /\ rep_call' = "unset"
  /\ UNCHANGED <<signal, pipe, cut, test>>

NextTest == test' = test + 1 /\ phase' = "between"

\* After 0.3 s: poll; a server that has exited is a setup error, no teardown.
Poll ==
  /\ phase = "sleep"
  /\ IF proc[test] = "exited" THEN NextTest
                              ELSE phase' = "body" /\ UNCHANGED test
  /\ UNCHANGED <<proc, signal, pipe, cut, handled, servedBy, rep_call>>

\* The body ends: with the answers to all it sent, or by an assertion, a
\* time-out or an exception, and pytest_runtest_makereport sets rep_call.
EndBody ==
  /\ phase = "body"
  /\ rep_call' \in {"passed", "failed"}
  /\ phase' = "terminate"
  /\ UNCHANGED <<proc, signal, pipe, cut, test, handled, servedBy>>

\* Ctrl-C in the body, before or after its report is made: pytest leaves the
\* test loop, and runs the teardown on its way out.
InterruptBody ==
  /\ phase = "body"
  /\ rep_call' \in {"unset", "passed", "failed"}
  /\ phase' = "terminate" /\ cut' = "body"
  /\ UNCHANGED <<proc, signal, pipe, test, handled, servedBy>>

\* Ctrl-C anywhere else ends the session. Before the yield the generator dies
\* with a server running; in wait it is no TimeoutExpired, so kill is skipped;
\* and pytest resumes no generator that a KeyboardInterrupt has left.
Interrupt ==
  /\ phase \in {"between", "sleep", "terminate", "wait", "log"}
  /\ phase' = "over" /\ cut' = phase
  /\ UNCHANGED <<proc, signal, pipe, session>>

Terminate ==
  /\ phase = "terminate"
  /\ signal' = [signal EXCEPT ![test] = IF Alive(test) THEN "term" ELSE @]
  /\ phase' = "wait"
  /\ UNCHANGED <<proc, pipe, cut, session>>

\* Variant: the timeout of wait is only reported.
OnlyReport == UNCHANGED signal

Kill == signal' = [signal EXCEPT ![test] = "kill"]

\* wait(timeout=1.0), and kill when it expires; kill is not waited for.
Wait ==
  /\ phase = "wait"
  /\ IF Alive(test) THEN Kill ELSE UNCHANGED signal
  /\ phase' = "log"
  /\ UNCHANGED <<proc, pipe, cut, session>>

\* rep_call of a failed test: read both pipes to their end, which comes when
\* the process is gone. Without a rep_call: AttributeError. After an interrupt
\* in the body, this is the end of the session.
Log ==
  /\ phase = "log"
  /\ rep_call = "failed" => ~Alive(test)
  /\ IF cut = "body" THEN phase' = "over" /\ UNCHANGED test ELSE NextTest
  /\ pipe' = IF rep_call = "failed" THEN [pipe EXCEPT ![test] = 0] ELSE pipe
  /\ UNCHANGED <<proc, signal, cut, handled, servedBy, rep_call>>

EndSession ==
  /\ phase = "between" /\ test > Tests
  /\ phase' = "over"
  /\ UNCHANGED <<proc, signal, pipe, cut, session>>

Runner ==
  \/ Popen \/ Poll \/ EndBody \/ Terminate \/ Wait \/ Log \/ EndSession

Next ==
  \/ Runner \/ Interrupt \/ InterruptBody
  \/ \E p \in Processes : Start(p) \/ Exit(p) \/ Answer(p)

\* Every call of the runner has a timeout or ends with the process it waits
\* for, and the kernel delivers SIGKILL.
Fairness ==
  /\ WF_vars(Runner)
  /\ \A p \in Processes : WF_vars(signal[p] = "kill" /\ Exit(p))

Spec == Init /\ [][Next]_vars /\ Fairness

-----------------------------------------------------------------------------
(* Properties *)

TypeOK ==
  /\ proc \in [Processes -> {"none", "starting", "listening", "exited"}]
  /\ signal \in [Processes -> {"none", "term", "kill"}]
  /\ pipe \in [Processes -> 0..PipeSize]
  /\ test \in 1..Tests + 1
  /\ phase \in Phases
  /\ handled \in 0..Commands
  /\ servedBy \subseteq Processes
  /\ rep_call \in {"unset", "passed", "failed"}
  /\ cut \in {"no"} \cup Phases

\* A body that passed was answered by the server of its own test, although
\* the server of the test before may still be dying on the same port.
PassedOnOwnServer ==
  phase \in {"terminate", "wait", "log"} /\ rep_call = "passed" =>
    servedBy \subseteq {test}

\* A server that runs after its test was killed, however the test ended. Only a
\* Ctrl-C inside the fixture leaves one behind: before terminate untouched, in
\* wait with the SIGTERM it was sent.
StoppedOrDying ==
  \A p \in 1..Tests : Alive(p) =>
    \/ p = test /\ phase \in {"sleep", "body", "terminate", "wait"}
    \/ signal[p] = "kill"
    \/ p = test /\ phase = "over" /\ cut \in {"sleep", "terminate"}
    \/ p = test /\ phase = "over" /\ cut = "wait" /\ signal[p] = "term"

\* The session ends even if servers ignore SIGTERM or block on a full pipe.
SessionEnds == <>(phase = "over")

\* conftest.py:41 "when the test has ended, stop the server process": a server that
\* was told to stop is gone in the end, whether or not it obeys SIGTERM; unless a
\* Ctrl-C struck while the teardown waited for it (kill is skipped, line 48).
ToldToStopIsGone ==
  \A p \in 1..Tests :
    signal[p] = "term" ~> ~Alive(p) \/ (p = test /\ cut = "wait")
=============================================================================
