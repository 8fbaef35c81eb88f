------------------------ MODULE ServerFixture_proofs -------------------------
(***************************************************************************)
(* The fixture stops every server it started, and, where no server of an    *)
(* earlier session is left, a test that passes was answered by its own.     *)
(***************************************************************************)
EXTENDS ServerFixture, TLAPS

\* A server exists only from its Popen on.
NotYetStarted ==
  \A p \in 1..Tests : p > test \/ (p = test /\ phase = "between") =>
    proc[p] = "none"

\* The fixture is at work on a test of the session.
AtWork == {"sleep", "body", "terminate", "wait", "log"}
TestExists == phase \in AtWork => test \in 1..Tests

\* The server that wait waits for has been told to stop.
ToldToStop == phase = "wait" /\ Alive(test) => signal[test] = "term"

FixtureInv ==
  TypeOK /\ StoppedOrDying /\ NotYetStarted /\ TestExists /\ ToldToStop

-----------------------------------------------------------------------------
\* The fixture's invariant holds at the start and is kept by every step: what
\* StoppedOrDying needs beyond itself is that a process is never started twice
\* and that whoever is waited for was sent SIGTERM, which is what a Ctrl-C in
\* wait leaves it with.
LEMMA FixtureInductive == Spec => []FixtureInv
<1>. USE FixtureAssumption
<1>1. Init => FixtureInv
  <2>. SUFFICES ASSUME Init PROVE FixtureInv
    OBVIOUS
  <2>1. /\ proc \in [Processes -> {"none", "listening"}]
        /\ \A p \in 1..Tests : proc[p] = "none"
    <3>1. PICK stale \in {"none", "listening"} :
            proc = [p \in Processes |-> IF p = 0 THEN stale ELSE "none"]
      <4>1. PICK stale \in {"none"} \cup (IF Stale THEN {"listening"} ELSE {}) :
              proc = [p \in Processes |-> IF p = 0 THEN stale ELSE "none"]
        BY DEF Init
      <4>2. stale \in {"none", "listening"}
        OBVIOUS
      <4>. QED
        BY <4>1, <4>2
    <3>2. \A p \in Processes : proc[p] \in {"none", "listening"}
      BY <3>1
    <3>3. \A p \in 1..Tests : p \in Processes /\ p # 0
      BY DEF Processes
    <3>. QED
      BY <3>1, <3>2, <3>3
  <2>2. TypeOK
    <3>1. pipe \in [Processes -> 0..PipeSize]
      BY DEF Init
    <3>2. test \in 1..Tests + 1 /\ handled \in 0..Commands
      BY DEF Init
    <3>4. phase \in Phases /\ cut = "no"
      BY DEF Init, Phases
    <3>3. signal \in [Processes -> {"none", "term", "kill"}]
      BY DEF Init
    <3>. QED
      BY <2>1, <3>1, <3>2, <3>3, <3>4 DEF Init, TypeOK
  <2>3. StoppedOrDying /\ NotYetStarted
    BY <2>1 DEF StoppedOrDying, NotYetStarted, Alive
  <2>4. TestExists /\ ToldToStop
    BY DEF Init, TestExists, ToldToStop, AtWork
  <2>. QED
    BY <2>2, <2>3, <2>4 DEF FixtureInv
<1>2. FixtureInv /\ [Next]_vars => FixtureInv'
  <2>. SUFFICES ASSUME FixtureInv, [Next]_vars PROVE FixtureInv'
    OBVIOUS
  <2>. USE DEF FixtureInv, TypeOK, StoppedOrDying, NotYetStarted, TestExists,
               ToldToStop, AtWork, Alive, Processes, Phases, session
  <2>1. ASSUME NEW p \in Processes, Start(p) PROVE FixtureInv'
    BY <2>1 DEF Start
  <2>2. ASSUME NEW p \in Processes, Exit(p) PROVE FixtureInv'
    BY <2>2 DEF Exit
  <2>3. ASSUME NEW p \in Processes, Answer(p) PROVE FixtureInv'
    BY <2>3 DEF Answer, Serves, PipeHasRoom
  <2>4. CASE Popen
    BY <2>4 DEF Popen
  <2>5. CASE Poll
    BY <2>5 DEF Poll, NextTest
  <2>6. CASE Interrupt
    <3>1. /\ phase' = "over" /\ cut' = phase
          /\ UNCHANGED <<proc, signal, pipe, test, handled, servedBy, rep_call>>
          /\ phase \in {"between", "sleep", "terminate", "wait", "log"}
      BY <2>6 DEF Interrupt
    <3>2. TypeOK' /\ NotYetStarted' /\ TestExists' /\ ToldToStop'
      BY <3>1
    <3>3. StoppedOrDying'
      BY <3>1
    <3>. QED
      BY <3>2, <3>3
  <2>7. CASE EndBody \/ InterruptBody
    <3>1. /\ phase = "body" /\ phase' = "terminate"
          /\ UNCHANGED <<proc, signal, pipe, test, handled, servedBy>>
          /\ cut' \in {cut, "body"}
      BY <2>7 DEF EndBody, InterruptBody
    <3>2. rep_call' \in {"unset", "passed", "failed"}
      BY <2>7 DEF EndBody, InterruptBody
    <3>. QED
      BY <3>1, <3>2
  <2>8. CASE Terminate
    BY <2>8 DEF Terminate
  <2>9. CASE Wait
    BY <2>9 DEF Wait, Kill
  <2>10. CASE Log
    BY <2>10 DEF Log, NextTest
  <2>11. CASE EndSession
    BY <2>11 DEF EndSession
  <2>12. CASE UNCHANGED vars
    BY <2>12 DEF vars
  <2>. QED
    BY <2>1, <2>2, <2>3, <2>4, <2>5, <2>6, <2>7, <2>8, <2>9, <2>10, <2>11, <2>12
    DEF Next, Runner
<1>. QED
  BY <1>1, <1>2, PTL DEF Spec

\* Every variable keeps its type; the pipes never hold more than their size.
THEOREM FixtureTypes == Spec => []TypeOK
  BY FixtureInductive, PTL DEF FixtureInv

\* However a test ends, and whenever an interrupt strikes, a server that outlives
\* its test has been killed, unless the fixture itself was interrupted.
THEOREM Stops == Spec => []StoppedOrDying
  BY FixtureInductive, PTL DEF FixtureInv

-----------------------------------------------------------------------------
(* Whose answers a test gets *)

\* There is no server of an earlier session, and those of earlier tests can
\* answer no more: only the test's own server does.
OwnServer ==
  /\ proc[0] = "none"
  /\ phase \in AtWork => servedBy \subseteq {test}

\* Only the process of the running test is alive without having been killed.
LEMMA OnlyOwnServes ==
  ASSUME FixtureInv, OwnServer, phase = "body", NEW p \in Processes, Serves(p)
  PROVE  p = test
  BY FixtureAssumption
  DEF FixtureInv, StoppedOrDying, ToldToStop, OwnServer, Serves, Alive, Processes

\* Without a stale server, a test that passed was answered by its own server.
THEOREM OwnAnswers == ASSUME Stale = FALSE PROVE Spec => []PassedOnOwnServer
<1>. USE FixtureAssumption
<1>1. Init => OwnServer
  BY DEF Init, OwnServer, AtWork, Processes
<1>2. FixtureInv /\ OwnServer /\ [Next]_vars => OwnServer'
  <2>. SUFFICES ASSUME FixtureInv, OwnServer, [Next]_vars PROVE OwnServer'
    OBVIOUS
  <2>. USE DEF OwnServer, AtWork, session
  <2>0. Tests \in Nat \ {0} /\ proc \in [Processes -> {"none", "starting", "listening", "exited"}]
        /\ test \in Nat \ {0}
    BY DEF FixtureInv, TypeOK
  <2>1. ASSUME NEW p \in Processes, Start(p) PROVE OwnServer'
    BY <2>0, <2>1 DEF Start
  <2>2. ASSUME NEW p \in Processes, Exit(p) PROVE OwnServer'
    BY <2>0, <2>2 DEF Exit, Alive
  <2>3. ASSUME NEW p \in Processes, Answer(p) PROVE OwnServer'
    <3>1. p = test
      BY <2>3, OnlyOwnServes DEF Answer
    <3>. QED
      BY <2>3, <3>1 DEF Answer
  <2>4. CASE Popen
    BY <2>0, <2>4 DEF Popen, Processes
  <2>5. CASE Poll
    BY <2>5 DEF Poll, NextTest
  <2>6. CASE Interrupt \/ EndBody \/ InterruptBody
    BY <2>6 DEF Interrupt, EndBody, InterruptBody
  <2>7. CASE Terminate \/ Wait
    BY <2>7 DEF Terminate, Wait
  <2>8. CASE Log
    BY <2>8 DEF Log, NextTest
  <2>9. CASE EndSession
    BY <2>9 DEF EndSession
  <2>10. CASE UNCHANGED vars
    BY <2>10 DEF vars
  <2>. QED
    BY <2>1, <2>2, <2>3, <2>4, <2>5, <2>6, <2>7, <2>8, <2>9, <2>10
    DEF Next, Runner
<1>3. OwnServer => PassedOnOwnServer
  BY DEF OwnServer, PassedOnOwnServer, AtWork
<1>. QED
  BY <1>1, <1>2, <1>3, FixtureInductive, PTL DEF Spec
=============================================================================
