------------------------------ MODULE UnitRun -------------------------------
(***************************************************************************)
(* The unit test program: RUN_ALL_TESTS runs the tests one after the other, *)
(* each in a fixture object of its own, on the one Server instance of the   *)
(* process. A test is SetUp, the body, which a fatal assertion ends, and    *)
(* TearDown. The order is left open (gtest can shuffle it), and so is how   *)
(* often a test runs (gtest can repeat it).                                 *)
(***************************************************************************)
EXTENDS UnitServer

CONSTANTS Suite,       \* the tests of the program: by name, what they do and find
          Tests,       \* the tests to run, by name
          Faults,      \* the faults a server may have
          Overlooked,  \* pairs of a test and a fault that are left out
          Dangling,    \* tests known to follow a pointer to a deleted object
          Ticking,     \* tests during which a second may end
          MaxClock     \* bound: seconds that end during one test

ASSUME RunAssumption == /\ Tests \subseteq DOMAIN Suite /\ Ticking \subseteq Tests
                        /\ "none" \notin Tests /\ MaxClock \in Nat

VARIABLES test,    \* the test that runs
          stage,   \* what of it runs, "idle" between tests, or "crashed"
          at,      \* the step it is about to take
          args,    \* the fixture's argument vector
          local,   \* the local variable of the body
          failed,  \* an assertion of this test has failed
          wild,    \* this test used a pointer to nothing or an index past the end
          twice    \* an object was deleted that was not there

memory  == <<live, freed, listed, instance>>
objects == <<chan, client, received, buffer>>
place   == <<test, stage, args, local, failed>>
vars == <<fault, clock, memory, objects, place, at, wild, twice>>

Init ==
  /\ fault \in {"none"} \cup Faults
  /\ chan = [ch \in Channels |-> NoChannel]
  /\ client = [c \in Clients |-> NewClient] /\ received = [c \in Clients |-> <<>>]
  /\ buffer = EmptyBuffer /\ clock = 0
  /\ live = {} /\ freed = {} /\ listed = {} /\ instance = FALSE
  /\ test = "none" /\ stage = "idle" /\ at = 1
  /\ args = <<>> /\ local = 0 /\ failed = FALSE /\ wild = FALSE /\ twice = FALSE

fixture == Suite[test].fixture
Stages(t) ==
  [SetUp |-> t.fixture.setup, body |-> t.body, TearDown |-> t.fixture.teardown]
Script == IF stage \in {"SetUp", "body", "TearDown"} THEN Stages(Suite[test])[stage] ELSE <<>>

AtStep == at <= Len(Script)
\* The step it is about to take, if there is one left.
Current == {Script[i] : i \in {at} \cap DOMAIN Script}

-----------------------------------------------------------------------------
(* What an assertion sees *)

View(see, of) ==
  CASE see = "last"       -> getLastMessage(of[1])
    [] see = "message"    -> received[of[1]][of[2]]
    [] see = "count"      -> Len(received[of[1]])
    [] see = "empty"      -> received[of[1]] = <<>>
    [] see = "atLeast"    -> Len(received[of[1]]) >= of[2]
    [] see = "found"      ->
         LET i == SelectLastInSeq(received[of[1]],
                                  LAMBDA m : m.cmd = of[2] /\ m.chan = of[3])
         IN  IF i = 0 THEN NoMessage ELSE received[of[1]][i]
    [] see = "channelsOf" -> {received[of[1]][i].chan : i \in {of[2], of[3]}}
    [] see = "digit"      ->
         LET m == received[of[1]][of[2]]
         IN  m.nick = of[3] \/ (m.chan = "#chan1" /\ of[3] = "1")
    [] see = "exists"     -> of[1] \in listed
    [] see = "member"     -> of[2] \in chan[of[1]].members
    [] see = "members"    -> Cardinality(chan[of[1]].members)
    [] see = "operator"   -> of[2] \in chan[of[1]].ops
    [] see = "invited"    -> of[2] \in chan[of[1]].invited
    [] see = "mode"       -> of[2] \in chan[of[1]].flags
    [] see = "modes"      -> chan[of[1]].flags
    [] see = "key"        -> chan[of[1]].key
    [] see = "check key"  -> chan[of[1]].key = of[2] \/ Has("key_ignored")
    [] see = "limit"      -> chan[of[1]].limit
    [] see = "topic"      -> chan[of[1]].topic
    [] see \in {"nick", "user", "auth", "reg", "marked", "quit"} -> client[of[1]][see]
    [] see = "channels"   -> Cardinality(client[of[1]].channels)
    [] see = "last activity"  -> client[of[1]].last
    [] see = "to send"        -> buffer.out
    [] see = "length to send" -> Len(buffer.out)
    [] see = "format"         -> Formatted(of[1], of[2])

\* find() of parts of a message's text.
Finds(m, step) ==
  LET about == {entry[2] : entry \in m.names}
  IN  /\ \A f \in DOMAIN step.fields : m[f] = step.fields[f]
      /\ step.has \subseteq m.names
      /\ step.about \subseteq about
      /\ step.lacks \cap about = {}

Looks == {"check", "find", "keep", "same", "later"}

Holds(step) ==
  CASE step.do = "check" -> (View(step.see, step.of) = step.is) = step.yes
    [] step.do = "find"  -> Finds(View(step.see, step.of), step)
    [] step.do = "same"  -> View(step.see, step.of) = local
    [] step.do = "later" -> View(step.see, step.of) > local
    [] step.do = "readLine" -> FirstLine(buffer.in).line = step.is

\* The objects an assertion looks at, those a step names, and those it follows a
\* pointer to.
LookedAt(step) ==
  CASE step.see \in {"exists", "format"}          -> {}
    [] step.see \in {"to send", "length to send"} -> {"client"}
    [] OTHER                                      -> {step.of[1]}

Named(step) ==
  CASE step.do \in {"client", "clear", "age", "execute", "parse", "link", "unlink",
                    "removeClient"} -> {step.c}
    [] step.do \in {"channel", "broadcast"} -> {step.ch}
    [] step.do \in {"append", "appendToSend", "removeSent", "readLine"} -> {"client"}
    [] step.do \in Looks     -> LookedAt(step)
    [] OTHER -> {}

Touched(step) ==
  Named(step) \cup IF step.do = "broadcast" THEN chan[step.ch].members ELSE {}

\* An index into receivedMessages that is past its end.
PastEnd(step) ==
  /\ step.do \in Looks
  /\ \/ step.see \in {"message", "digit"} /\ step.of[2] > Len(received[step.of[1]])
     \/ step.see = "channelsOf" /\ step.of[3] > Len(received[step.of[1]])

\* A deleted channel that the server made anew is another object: the test's
\* pointer does not lead to it.
Defined(step) == Touched(step) \subseteq live \ freed /\ ~PastEnd(step)

-----------------------------------------------------------------------------
(* The program *)

Doing(kinds) == {step \in Current : step.do \in kinds /\ Defined(step)}
\* Variant: every second step is skipped.
SkipNext == at' = at + 2
Advance == at' = at + 1

\* RUN_ALL_TESTS goes on to a test; its fixture object is new.
StartTest ==
  /\ stage = "idle"
  /\ test' \in Tests
  /\ stage' = "SetUp" /\ at' = 1
  /\ UNCHANGED <<fault, clock, memory, objects, args, local, failed, wild, twice>>

\* SetUp, body and TearDown follow each other, whatever failed.
EndStage ==
  /\ stage \in {"SetUp", "body"} /\ ~AtStep
  /\ stage' = IF stage = "SetUp" THEN "body" ELSE "TearDown"
  /\ at' = 1
  /\ UNCHANGED <<fault, clock, memory, objects, test, args, local, failed, wild, twice>>

\* The fixture object goes, and the test's pointers with it. Time is counted
\* from the start of each test.
EndTest ==
  /\ stage = "TearDown" /\ ~AtStep
  /\ stage' = "idle" /\ test' = "none" /\ at' = 1
  /\ args' = <<>> /\ local' = 0 /\ failed' = FALSE /\ wild' = FALSE
  /\ freed' = {} /\ clock' = 0
  /\ UNCHANGED <<fault, live, listed, instance, objects, twice>>

NewStep ==
  \E now \in Doing({"new"}) :
  /\ live' = live \cup now.objs /\ freed' = freed \ now.objs
  /\ client' = [c \in Clients |-> IF c \in now.objs THEN [NewClient EXCEPT !.last = clock]
                                                    ELSE client[c]]
  /\ received' = [c \in Clients |-> IF c \in now.objs THEN <<>> ELSE received[c]]
  /\ chan' = [ch \in Channels |-> IF ch \in now.objs THEN NoChannel ELSE chan[ch]]
  /\ buffer' = IF "client" \in now.objs THEN EmptyBuffer ELSE buffer
  /\ Advance
  /\ UNCHANGED <<fault, clock, listed, instance, place, wild, twice>>

AddStep ==
  \E now \in Doing({"add"}) :
  /\ listed' = listed \cup now.objs
  /\ Advance
  /\ UNCHANGED <<fault, clock, live, freed, instance, objects, place, wild, twice>>

\* delete: nothing stops a second one.
Deleted(S) ==
  /\ live' = live \ S
  /\ freed' = freed \cup S
  /\ twice' = (twice \/ ~(S \subseteq live))
  /\ chan' = [ch \in Channels |-> IF ch \in S THEN NoChannel ELSE chan[ch]]
  /\ client' = [c \in Clients |-> IF c \in S THEN NewClient ELSE client[c]]
  /\ received' = [c \in Clients |-> IF c \in S THEN <<>> ELSE received[c]]
  /\ buffer' = IF "client" \in S THEN EmptyBuffer ELSE buffer

\* Variant: TearDown deletes the clients, too, which are the server's.
DeleteClientsToo ==
  \E now \in Doing({"delete"}) :
  /\ Deleted(now.objs \cup (listed \cap Clients))
  /\ Advance
  /\ UNCHANGED <<fault, clock, listed, instance, place, wild>>

DeleteStep ==
  \E now \in Doing({"delete"}) :
  /\ Deleted(now.objs)
  /\ Advance
  /\ UNCHANGED <<fault, clock, listed, instance, place, wild>>

\* Server::resetInstance; the destructor deletes what is listed.
ResetStep ==
  \E now \in Doing({"reset"}) :
  /\ Deleted(listed)
  /\ listed' = {} /\ instance' = FALSE
  /\ Advance
  /\ UNCHANGED <<fault, clock, place, wild>>

GetInstanceStep ==
  \E now \in Doing({"getInstance"}) :
  /\ instance' = TRUE
  /\ Advance
  /\ UNCHANGED <<fault, clock, live, freed, listed, objects, place, wild, twice>>

ArgsStep ==
  \E now \in Doing({"clearArgs", "push"}) :
  /\ args' = IF now.do = "push" THEN args \o now.args ELSE <<>>
  /\ Advance
  /\ UNCHANGED <<fault, clock, memory, objects, test, stage, local, failed, wild, twice>>

ExecuteStep ==
  \E now \in Doing({"execute", "parse"}) :
  /\ IF now.do = "execute" THEN Execute(now.verb, now.c, args)
     ELSE Execute(Upper(now.verb), now.c, now.args)
  /\ Advance
  /\ UNCHANGED <<fault, clock, instance, buffer, place, wild, twice>>

RemoveClientStep ==
  \E now \in Doing({"removeClient"}) :
  /\ removeClient(now.c)
  /\ Advance
  /\ UNCHANGED <<fault, clock, instance, buffer, place, wild, twice>>

\* Setters and the like of Client and of the mock.
ClientStep ==
  \E now \in Doing({"client", "link", "unlink", "age", "clear"}) :
  /\ client' =
       CASE now.do = "client" -> [client EXCEPT ![now.c] = With(@, now.with)]
         [] now.do = "link"   -> [client EXCEPT ![now.c].channels = @ \cup {now.ch}]
         [] now.do = "unlink" -> [client EXCEPT ![now.c].channels = @ \ {now.ch}]
         [] now.do = "age"    -> [client EXCEPT ![now.c].last = clock - 10]
         [] OTHER             -> client
  /\ received' = IF now.do = "clear" THEN [received EXCEPT ![now.c] = <<>>] ELSE received
  /\ Advance
  /\ UNCHANGED <<fault, clock, memory, chan, buffer, place, wild, twice>>

ChannelStep ==
  \E now \in Doing({"channel", "broadcast"}) :
  /\ IF now.do = "channel"
       THEN /\ chan' = [chan EXCEPT ![now.ch] = Called(@, now.call, now.arg)]
            /\ UNCHANGED received
       ELSE BroadcastTo(now.ch, now.text, now.but) /\ UNCHANGED chan
  /\ Advance
  /\ UNCHANGED <<fault, clock, memory, client, buffer, place, wild, twice>>

BufferStep ==
  \E now \in Doing({"append", "appendToSend", "removeSent"}) :
  /\ buffer' =
       CASE now.do = "append"         -> [buffer EXCEPT !.in = @ \o now.words]
         [] now.do = "appendToSend" -> [buffer EXCEPT !.out = @ \o now.bytes]
         [] now.do = "removeSent"    -> [buffer EXCEPT !.out = Unsent(@, now.n)]
  /\ Advance
  /\ UNCHANGED <<fault, clock, memory, chan, client, received, place, wild, twice>>

KeepStep ==
  \E now \in Doing({"keep"}) :
  /\ local' = View(now.see, now.of)
  /\ Advance
  /\ UNCHANGED <<fault, clock, memory, objects, test, stage, args, failed, wild, twice>>

\* Variant: the body goes on after a fatal assertion that failed, as after EXPECT.
AssertOn ==
  \E now \in Doing({"check", "find", "same", "later", "readLine"}) :
  /\ failed' = (failed \/ ~Holds(now))
  /\ at' = at + 1
  /\ buffer' = IF now.do = "readLine" THEN [buffer EXCEPT !.in = FirstLine(@).rest]
                                       ELSE buffer
  /\ UNCHANGED <<fault, clock, memory, chan, client, received, test, stage, args, local,
                 wild, twice>>

\* An assertion: a fatal one that fails ends the body, reading a line takes it.
AssertStep ==
  \E now \in Doing({"check", "find", "same", "later", "readLine"}) :
  /\ failed' = (failed \/ ~Holds(now))
  /\ at' = IF ~Holds(now) /\ now.fatal THEN Len(Script) + 1 ELSE at + 1
  /\ buffer' = IF now.do = "readLine" THEN [buffer EXCEPT !.in = FirstLine(@).rest]
                                       ELSE buffer
  /\ UNCHANGED <<fault, clock, memory, chan, client, received, test, stage, args, local,
                 wild, twice>>

\* Undefined behaviour: it crashes, or it goes on with whatever was there.
WildStep ==
  \E now \in Current :
  /\ ~Defined(now)
  /\ wild' = TRUE
  /\ \/ stage' = "crashed" /\ at' = 1 /\ UNCHANGED failed
     \/ stage' = stage /\ Advance
        /\ failed' \in IF now.do \in Looks THEN {failed, TRUE} ELSE {failed}
  /\ UNCHANGED <<fault, clock, memory, objects, test, args, local, twice>>

\* A second ends.
Tick ==
  /\ stage = "body" /\ test \in Ticking /\ clock < MaxClock
  /\ clock' = clock + 1
  /\ UNCHANGED <<fault, memory, objects, place, at, wild, twice>>

Next ==
  \/ StartTest \/ EndStage \/ EndTest
  \/ NewStep \/ AddStep \/ DeleteStep \/ ResetStep \/ GetInstanceStep
  \/ ArgsStep \/ ExecuteStep \/ RemoveClientStep
  \/ ClientStep \/ ChannelStep \/ BufferStep \/ KeepStep \/ AssertStep
  \/ WildStep \/ Tick

Spec == Init /\ [][Next]_vars
-----------------------------------------------------------------------------
(* What the fixtures promise *)

Own   == IF stage = "idle" THEN {} ELSE fixture.own
Extra == IF stage = "idle" THEN {} ELSE fixture.extra

\* Where a test is in its fixture's life, by what it does next.
InSetUp ==
  CASE at = 1 -> "idle"
    [] at = 2 -> "instance"
    [] at = 3 -> "clients"
    [] at = 4 -> "add"
    [] at > 4 /\ ~(Own \subseteq live) -> "commands"
    [] at > 4 /\ Own \subseteq live /\ ~(Extra \subseteq live) -> "derived"
    [] OTHER  -> "body"

InTearDown ==
  CASE ~AtStep                  -> "idle"
    [] AtStep /\ Script[at].do = "reset" -> "reset"
    [] AtStep /\ Script[at].do # "reset" /\ Script[at].objs = Extra -> "deleteExtra"
    [] OTHER                    -> "delete"

Position ==
  CASE stage = "idle" \/ Own = {} -> "idle"
    [] stage = "SetUp" /\ Own # {}    -> InSetUp
    [] stage = "TearDown" /\ Own # {} -> InTearDown
    [] OTHER -> "body"

FixtureObjects == Clients \cup Channels \cup CommandObjects
                  \cup {"cmdManager", "whoCmd", "whoisCmd", "listCmd"}

AtRest == Position = "idle"

Owners == INSTANCE TestFixture WITH
  Commands <- CommandObjects \cup {"cmdManager"},
  Extras   <- {"whoCmd", "whoisCmd", "listCmd"},
  pc       <- Position,
  live     <- live \cap FixtureObjects,
  freed    <- IF AtRest THEN {} ELSE freed \cap FixtureObjects,
  own      <- IF AtRest THEN {} ELSE Own,
  extra    <- IF AtRest THEN {} ELSE Extra

ASSUME ObjectsAssumption ==
  Owners!KindsApart /\ Clients \cap Channels = {} /\ "client" \notin FixtureObjects

-----------------------------------------------------------------------------
(* What the theorems take for granted of the tests, and TLC finds in the suite: *)
(* a test is made of steps that name what they should, its fixture has one of   *)
(* the shapes TestFixture.hpp gives them, and it arranges before it acts.       *)

WellMade(step) ==
  /\ step.do = "new"    => step.objs \subseteq FixtureObjects \cup {"client"}
  /\ step.do = "add"    => step.objs \subseteq Clients \cup Channels
  /\ step.do \in {"execute", "parse", "removeClient"} => step.c \in Clients
  /\ step.do = "link"   => step.ch \in Channels
  /\ step.do = "client" => "channels" \notin DOMAIN step.with
  /\ step.do \in {"push", "parse"} =>
       IsList(step.args) /\ \A i \in DOMAIN step.args : IsList(step.args[i])
  /\ step.do = "channel" =>
       /\ step.call \in {"addMember", "addOperator", "addInvitedUser"} => step.arg \in Clients
       /\ step.call \in Calls

\* SetUp makes the server, its clients and the command objects; TearDown takes
\* them down in the other order. A derived class puts a command on top.
CommandShape(f) ==
  LET s == f.setup
      t == f.teardown
      e == IF f.extra = {} THEN 0 ELSE 1
  IN  /\ f.own \subseteq CommandObjects \cup {"cmdManager"}
      /\ f.extra \subseteq {"whoCmd", "whoisCmd", "listCmd"}
      /\ Len(s) >= 6 + e
      /\ s[1].do = "reset" /\ s[2].do = "getInstance"
      /\ s[3].do = "new" /\ s[3].objs \subseteq Clients
      /\ s[4].do = "add" /\ s[4].objs = s[3].objs
      /\ \E i \in {5, 6} : /\ s[i].do = "new" /\ s[i].objs = f.own
                           /\ s[11 - i].do = "clearArgs"
      /\ e = 1 => s[7].do = "new" /\ s[7].objs = f.extra /\ t[1].do = "delete"
                 /\ t[1].objs = f.extra
      /\ Len(t) = 2 + e
      /\ t[1 + e].do = "delete" /\ t[1 + e].objs = f.own /\ t[2 + e].do = "reset"

\* Nothing but a Client of its own, if that: no server.
PlainShape(f) ==
  /\ f.extra = {}
  /\ <<f.setup, f.teardown>> \in {<< <<>>, <<>> >>, <<New({"client"}), Delete({"client"})>>}

OnServer == {"execute", "parse", "removeClient"}
Memory   == {"new", "add", "delete", "reset", "getInstance"}

\* What the test makes is its own until it gives it to the server, and it does
\* nothing else in between than to call the new object's methods.
GivesAway(s, from) ==
  \A i \in from .. Len(s) :
    /\ s[i].do \in Memory => s[i].do \in {"new", "add"}
    /\ s[i].do = "new" =>
         /\ \E o \in Clients \cup Channels : s[i].objs = {o}
         /\ \E k \in i + 1 .. Len(s) :
              /\ s[k].do = "add" /\ s[k].objs = s[i].objs
              /\ \A j \in i + 1 .. k - 1 : s[j].do = "channel"
    /\ s[i].do = "add" =>
         \E k \in from .. i - 1 : /\ s[k].do = "new" /\ s[k].objs = s[i].objs
                                 /\ \A j \in k + 1 .. i - 1 : s[j].do = "channel"

\* No object is made twice by a test, and none after a command has run.
Precedes(a, b) ==
  b.do = "new" => a.do \notin OnServer /\ (a.do = "new" => a.objs \cap b.objs = {})

Arranges(t) ==
  LET s == t.fixture.setup
      b == t.body
  IN  /\ \A i, j \in DOMAIN s : i < j => Precedes(s[i], s[j])
      /\ \A i, j \in DOMAIN b : i < j => Precedes(b[i], b[j])
      /\ \A i \in DOMAIN s, j \in DOMAIN b : Precedes(s[i], b[j])

WellFormed(t) ==
  /\ \A s \in {t.fixture.setup, t.body, t.fixture.teardown} :
       IsList(s) /\ \A i \in DOMAIN s : WellMade(s[i])
  /\ \A i \in DOMAIN t.fixture.setup : t.fixture.setup[i].do \notin Looks \cup {"readLine"}
  /\ IF t.fixture.own = {}
       THEN PlainShape(t.fixture) /\ \A i \in DOMAIN t.body : t.body[i].do \notin Memory \cup OnServer \cup {"channel"}
       ELSE /\ CommandShape(t.fixture) /\ Arranges(t)
            /\ GivesAway(t.fixture.setup, IF t.fixture.extra = {} THEN 7 ELSE 8)
            /\ GivesAway(t.body, 1)

ASSUME SuiteAssumption == \A t \in Tests : WellFormed(Suite[t])

-----------------------------------------------------------------------------
(* Properties *)

\* Every variable has its type.
TypeOK ==
  /\ fault \in {"none"} \cup Faults
  /\ stage \in {"idle", "SetUp", "body", "TearDown", "crashed"}
  /\ test \in Tests \cup {"none"} /\ (test = "none") = (stage = "idle")
  /\ at \in 1 .. Len(Script) + 1
  /\ live \subseteq FixtureObjects \cup {"client"}
  /\ listed \subseteq Clients \cup Channels
  /\ clock \in 0 .. MaxClock
  /\ \A ch \in Channels :
       chan[ch].members \cup chan[ch].ops \cup chan[ch].invited \subseteq Clients
  /\ \A c \in Clients : client[c].channels \subseteq Channels

\* No conforming server fails a test, whatever ran before it; but Whois_Success
\* (WhoisCommandTest.cpp:48, 75) may fail when a second ends during it.
NoFalseAlarm ==
  fault = "none" /\ ~wild /\ failed => test = "Whois_Success" /\ clock > 0

\* A test never passes on a server with a fault that it says it finds.
FaultsFound ==
  stage = "TearDown" /\ fault \in Suite[test].finds /\ <<test, fault>> \notin Overlooked
  => failed

\* Whatever is wrong with the server, no test follows a pointer to an object that
\* is not there, or an index past the end of receivedMessages: an assertion that
\* ends the body stands before each such use.
NoWildAccess == wild => test \in Dangling

\* Who is in a channel is recorded twice, in the Channel and in the Client.
Agree(c, ch) == (c \in chan[ch].members) = (ch \in client[c].channels)

\* The steps that may look at either record, and of which the fixtures make both:
\* those of MODE, KICK, NOTICE and LIST make the first only.
LooksAtBoth(step) ==
  \/ step.do = "removeClient"
  \/ step.do = "execute" /\ step.verb \notin {"MODE", "KICK", "NOTICE", "LIST"}

\* Under a conforming server the two records agree whenever a command runs that may
\* look at either.
MembershipAgrees ==
  \A now \in Current :
    fault = "none" /\ stage = "body" /\ LooksAtBoth(now)
    => \A c \in Clients, ch \in Channels : Agree(c, ch)

\* Every fixture keeps the ownership discipline of TestFixture, so that, by its
\* theorems, no test deletes an object twice or leaves one behind.
FixtureRefinement == Owners!Spec
=============================================================================
