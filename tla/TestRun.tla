------------------------------ MODULE TestRun -------------------------------
(***************************************************************************)
(* One pytest function against one server: the test's thread works through  *)
(* its script while the server answers the clients' connections in an order *)
(* of its own. A client is what IRCClient implements, a channel that hands  *)
(* out each message once and in order (MessageChannel). Time-outs of 1 s    *)
(* and more are long enough for the server to answer everything it was sent *)
(* and for the answers to arrive; those of 0.1 s to 0.5 s may be too short. *)
(* Time is counted in the seconds a test sleeps.                            *)
(***************************************************************************)
EXTENDS IRCServer, TestScripts

CONSTANTS Suite,       \* the tests there are, by name
          Tests,       \* the names of those to run
          Overlooked,  \* pairs of a test and a fault that are left out
          Slow         \* tests whose short time-outs may expire too early

ASSUME RunAssumption == Tests \subseteq DOMAIN Suite /\ Slow \subseteq Tests

VARIABLES test,     \* the pytest function that runs
          at,       \* the step it is about to take
          slept,    \* seconds it has slept in this step
          verdict,  \* "running", "passed" or "failed"
          kept,     \* messages kept for a later assertion
          answered  \* history: step -> cause of the message a wait returned

runVars == <<test, at, slept, verdict, kept, answered>>
vars == <<serverVars, runVars>>

Script == Suite[test].script
Quiet  == Suite[test].quiet
Hurried == test \in Slow

-----------------------------------------------------------------------------
Init ==
  /\ test \in Tests
  /\ fault \in {"none"} \cup {f \in Suite[test].finds : <<test, f>> \notin Overlooked}
  /\ at = 1 /\ slept = 0 /\ verdict = "running" /\ kept = {} /\ answered = <<>>
  /\ chan = [ch \in Channels |-> NoChannel]
  /\ toServer = [c \in Clients |-> <<>>] /\ inbox = [c \in Clients |-> <<>>]
  /\ login = [c \in Clients |-> IF c \in Suite[test].fresh THEN Connected
                                                           ELSE Registered(c)]
  /\ gone = Clients \ Suite[test].clients
  /\ clock = 0 /\ timer = [c \in Clients |-> Active]

\* The step the test is about to take, if it is one of these.
Doing(kinds) ==
  {step \in {Script[i] : i \in {at} \cap DOMAIN Script} :
     verdict = "running" /\ step.do \in kinds}

\* Variant: a step is skipped.
SkipNext == at' = at + 2 /\ UNCHANGED verdict

Advance == at' = at + 1 /\ UNCHANGED verdict
Fail    == verdict' = "failed" /\ UNCHANGED at

Meets(msg, spec) ==
  /\ \A f \in DOMAIN spec.fields : msg[f] = spec.fields[f]
  /\ spec.has \subseteq msg.names
  /\ spec.about \subseteq {entry[2] : entry \in msg.names}
  /\ spec.lacks \cap msg.names = {}

\* The message this step got.
Remembers(msg) ==
  answered' = [i \in DOMAIN answered \cup {at} |-> IF i = at THEN msg.cause ELSE answered[i]]

\* To a connection the server has closed, a send may fail, which ends the test.
SendStep ==
  \E now \in Doing({"send", "sendOn"}) :
  /\ \/ /\ toServer' = [toServer EXCEPT ![now.who] =
                          Append(@, [cmd |-> now.cmd, cause |-> at])]
        /\ Advance
     \/ now.who \in gone /\ Fail /\ UNCHANGED toServer
  /\ UNCHANGED <<chan, inbox, fault, login, gone, clock, timer>>
  /\ UNCHANGED <<test, slept, kept, answered>>

\* Variant: the message that ended the wait is left in the inbox.
TakeButLast(c, n) ==
  /\ inbox' = [inbox EXCEPT ![c] = SubSeq(@, IF n > 1 THEN n ELSE 1, Len(@))]
  /\ UNCHANGED <<toServer, chan, fault, login, gone, clock, timer>>

\* Variant: what came in the same read is lost.
TakeAll(c, n) ==
  /\ inbox' = [inbox EXCEPT ![c] = <<>>]
  /\ UNCHANGED <<toServer, chan, fault, login, gone, clock, timer>>

\* The client takes its first n messages, and answers the PINGs among them.
TakeOff(c, n) ==
  LET pings == SelectSeq(SubSeq(inbox[c], 1, n), LAMBDA m : m.cmd = "PING")
      pong  == [cmd |-> Word("PONG", "token"), cause |-> 0]
  IN  /\ inbox' = [inbox EXCEPT ![c] = SubSeq(@, n + 1, Len(@))]
      /\ toServer' = IF c \in Quiet THEN toServer
                     ELSE [toServer EXCEPT ![c] = @ \o [i \in DOMAIN pings |-> pong]]
      /\ UNCHANGED <<chan, fault, login, gone, clock, timer>>

\* The first matching message in the inbox.
FirstMatch(step) == SelectInSeq(inbox[step.who], LAMBDA m : m.cmd = step.reply)

Waits == {"wait", "briefWait", "expect", "keep"}

\* wait_for_command finds its message, those before it are thrown away, and the
\* assertions on it hold or not.
WaitFinds ==
  \E now \in Doing(Waits) :
  /\ FirstMatch(now) # 0
  /\ LET msg == inbox[now.who][FirstMatch(now)] IN
       /\ IF now.do # "expect" \/ Meets(msg, now) THEN Advance ELSE Fail
       /\ kept' = IF now.do = "keep" THEN kept \cup {msg} ELSE kept
       /\ Remembers(msg)
  /\ TakeOff(now.who, FirstMatch(now))
  /\ UNCHANGED <<test, slept>>

\* Variant: a wait without a time-out.
WaitForever == FALSE

\* It returns None: a failure if the test looks at the result.
WaitTimesOut ==
  \E now \in Doing(Waits) :
  /\ FirstMatch(now) = 0
  /\ Settled \/ (Hurried /\ now.do = "briefWait")
  /\ IF now.do \in {"wait", "briefWait"} THEN Advance ELSE Fail
  /\ TakeOff(now.who, Len(inbox[now.who]))
  /\ UNCHANGED <<test, slept, kept, answered>>

\* get_message, asserted not None.
TakeStep ==
  \E now \in Doing({"take"}) :
  /\ IF inbox[now.who] # <<>>
       THEN /\ Advance
            /\ kept' = kept \cup {Head(inbox[now.who])}
            /\ Remembers(Head(inbox[now.who]))
            /\ TakeOff(now.who, 1)
       ELSE Settled /\ Fail /\ UNCHANGED <<serverVars, kept, answered>>
  /\ UNCHANGED <<test, slept>>

\* get_message until this reply comes; None in between fails the test.
CollectStep ==
  \E now \in Doing({"collect"}) :
  /\ IF FirstMatch(now) # 0
       THEN /\ Advance
            /\ kept' = kept \cup {inbox[now.who][i] : i \in 1..FirstMatch(now)}
            /\ TakeOff(now.who, FirstMatch(now))
       ELSE Settled /\ Fail /\ UNCHANGED <<serverVars, kept>>
  /\ UNCHANGED <<test, slept, answered>>

\* get_message until it returns None.
DrainStep ==
  \E now \in Doing({"drain"}) :
  /\ \E n \in 0..Len(inbox[now.who]) :
       /\ Hurried \/ (Settled /\ n = Len(inbox[now.who]))
       /\ TakeOff(now.who, n)
  /\ Advance
  /\ UNCHANGED <<test, slept, kept, answered>>

\* A get_message asserted to be None, or None or not this reply.
GetMessageStep ==
  \E now \in Doing({"silent", "not"}) :
  /\ \/ /\ Hurried \/ (Settled /\ inbox[now.who] = <<>>)
        /\ Advance /\ UNCHANGED serverVars
     \/ /\ inbox[now.who] # <<>>
        /\ IF now.do = "not" /\ Head(inbox[now.who]).cmd # now.reply
             THEN Advance ELSE Fail
        /\ TakeOff(now.who, 1)
  /\ UNCHANGED <<test, slept, kept, answered>>

CoversStep ==
  \E now \in Doing({"covers"}) :
  /\ IF \A spec \in now.all : \E m \in kept : Meets(m, spec) THEN Advance ELSE Fail
  /\ UNCHANGED <<serverVars, test, slept, kept, answered>>

\* A sleep of less than a second; one of some seconds, at the end of each of
\* which the server has done what was due.
PauseStep ==
  /\ Doing({"pause"}) # {}
  /\ Hurried \/ Settled
  /\ Advance
  /\ UNCHANGED <<serverVars, test, slept, kept, answered>>

SleepStep ==
  \E now \in Doing({"sleep"}) :
  /\ Settled
  /\ IF slept = now.n THEN Advance /\ slept' = 0 /\ UNCHANGED clock
     ELSE slept' = slept + 1 /\ clock' = clock + 1 /\ UNCHANGED <<at, verdict>>
  /\ UNCHANGED <<chan, toServer, inbox, fault, login, gone, timer>>
  /\ UNCHANGED <<test, kept, answered>>

\* The server ignores what the probe sends, or closed the connection before it.
ProbeStep ==
  \E now \in Doing({"probe"}) :
  /\ IF now.who \in gone THEN Advance ELSE Settled /\ Fail
  /\ UNCHANGED <<serverVars, test, slept, kept, answered>>

EndTest ==
  /\ verdict = "running" /\ at > Len(Script)
  /\ verdict' = "passed"
  /\ UNCHANGED <<serverVars, test, at, slept, kept, answered>>

TestThread ==
  \/ SendStep \/ WaitFinds \/ WaitTimesOut \/ TakeStep \/ CollectStep
  \/ DrainStep \/ GetMessageStep \/ CoversStep
  \/ PauseStep \/ SleepStep \/ ProbeStep \/ EndTest

Serve(c) == Handle(c) /\ UNCHANGED runVars
Idle(c)  == (AskIdle(c) \/ CloseIdle(c)) /\ UNCHANGED runVars

Server == \E c \in Clients : Serve(c) \/ Idle(c)

Next == TestThread \/ Server

\* The test's thread is scheduled, and the server reads every connection and
\* looks at its timers.
Fairness ==
  /\ WF_vars(TestThread)
  /\ \A c \in Clients : WF_vars(Serve(c)) /\ WF_vars(Idle(c))

Spec == Init /\ [][Next]_vars /\ Fairness
-----------------------------------------------------------------------------
(* What the theorems take for granted of the tests, and TLC finds in the suite: *)
(* a step is a client's, a command one the server has, and no test looks for a  *)
(* server that makes operators of strangers.                                    *)

Verbs == {"PASS", "NICK", "USER", "QUIT", "PING", "PONG", "WHO", "LIST", "WHOIS", "JOIN",
          "PART", "NAMES", "TOPIC", "KICK", "INVITE", "MODE", "PRIVMSG", "NOTICE"}

CommandShape(cmd) ==
  /\ {"verb", "chans", "nicks", "text"} \subseteq DOMAIN cmd /\ cmd.verb \in Verbs
  /\ IsList(cmd.chans) /\ IsList(cmd.nicks)

WellMade(step) ==
  step.who \in Clients /\ (step.do \in {"send", "sendOn"} => CommandShape(step.cmd))

WellFormed(t) ==
  /\ IsList(t.script) /\ \A i \in DOMAIN t.script : WellMade(t.script[i])
  /\ "outsider_opped" \notin t.finds

ASSUME SuiteAssumption == \A t \in Tests : WellFormed(Suite[t])

-----------------------------------------------------------------------------
(* Properties *)

\* Every variable has its type.
TypeOK ==
  /\ test \in Tests
  /\ at \in 1..Len(Script) + 1
  /\ slept \in Nat /\ clock \in Nat
  /\ verdict \in {"running", "passed", "failed"}
  /\ gone \subseteq Clients
  /\ \A m \in kept : m.cause \in 0..at
  /\ \A i \in DOMAIN answered : i \in 1..at /\ answered[i] \in 0..i
  /\ \A ch \in Channels :
       /\ chan[ch].members \subseteq Clients \ gone
       /\ chan[ch].ops \subseteq chan[ch].members
       /\ chan[ch].flags \subseteq {"i", "k", "l", "n", "t"}
  /\ \A c \in Clients :
       /\ timer[c].since \in 0..clock
       /\ \A i \in DOMAIN toServer[c] : toServer[c][i].cause < at
       /\ \A i \in DOMAIN inbox[c] : inbox[c][i].cause < at

\* test_13_whois.py:60 does not find "#chan2" in a list that has it first, marked "@".
ListedOtherwise ==
  test = "whois_command" /\ \E m \in kept : m.cmd = "319" /\ m.text = "#1"

\* test_04_ping_pong.py:51 sleeps as long as the server waits for silence and for
\* the PONG together: it may have closed the connection when the client answers.
PongTooLate ==
  test = "pong_keeps_alive" /\ gone \cap Suite[test].clients # {}

\* No conforming server fails a test, in whatever order it serves the clients,
\* answers and lists channels, but for the two reasons above.
NoFalseAlarm ==
  fault = "none" /\ verdict = "failed" => ListedOtherwise \/ PongTooLate

\* A test never passes on a server with a fault that it says it finds.
FaultsFound == fault # "none" => verdict # "passed"

\* Under a conforming server, the message a wait returns answers the last
\* command the test sent, or one of the burst it ends, and no earlier command
\* (0: the server sent it unasked). So the wait really separates that command
\* from the next. The exception is test_15_invite.py:90, of which
\* InviterIsOperatorAgain shows what follows.
LastSend(i) ==
  CHOOSE k \in 1..i : /\ Script[k].do = "send"
                      /\ \A j \in k + 1 .. i : Script[j].do # "send"
WaitsAnswerLastSend ==
  fault = "none" /\ test # "invite_errors" =>
    \A i \in DOMAIN answered : answered[i] # 0 => answered[i] >= LastSend(i)

\* Every test comes to a verdict.
Finishes == <>(verdict # "running")

\* test_15_invite.py:94 "the inviter creates the channel again and becomes its
\* operator", which the rest of the test relies on.
InviterIsOperatorAgain ==
  \A now \in Doing({"send"}) :
    fault = "none" /\ test = "invite_errors" /\ now.cmd = SetMode("#1", "+i")
    => chan["#1"].ops = {"A"}
=============================================================================
