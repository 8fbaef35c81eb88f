------------------------------ MODULE UnitSteps ------------------------------
(***************************************************************************)
(* The vocabulary of the unit tests: the calls and assertions they are made *)
(* of, as steps, and the two fixtures of TestFixture.hpp. A script is a     *)
(* sequence of steps.                                                       *)
(***************************************************************************)
EXTENDS Sequences, TLC

c1 == "client1"
c2 == "client2"
c3 == "client3"   \* also targetClient
c4 == "client4"

-----------------------------------------------------------------------------
(* Messages. One names a client by its object, where the text has its nick,   *)
(* user and host; a numeric is addressed to the client's nick or to "*".      *)

Message(cmd, from, ch, nick, text, names, to) ==
  [cmd |-> cmd, from |-> from, chan |-> ch, nick |-> nick, text |-> text,
   names |-> names, to |-> to]

NoMessage == Message("", "", "", "", "", {}, "")

\* formatReply(serverName, nick, code, {ch, nick}).
Reply(code, ch, nick) == Message(code, "server", ch, nick, "", {}, "nick")

\* ":nick!user@host VERB ...".
From(c, verb, ch, nick, text) == Message(verb, c, ch, nick, text, {}, "")

-----------------------------------------------------------------------------
(* Calls *)

Reset          == <<[do |-> "reset"]>>
GetInstance    == <<[do |-> "getInstance"]>>
New(S)         == <<[do |-> "new", objs |-> S]>>
Add(S)         == <<[do |-> "add", objs |-> S]>>      \* addTestClient, addChannel
Delete(S)      == <<[do |-> "delete", objs |-> S]>>
NewCommands(S) == <<[do |-> "new", objs |-> S]>>

ClearArgs       == <<[do |-> "clearArgs"]>>
PushArgs(list)  == <<[do |-> "push", args |-> list]>>
Push(words)     == PushArgs([i \in DOMAIN words |-> <<words[i]>>])
PushList(names) == PushArgs(<<names>>)                \* "#chan1,#chan2"

Exec(verb, c) == <<[do |-> "execute", verb |-> verb, c |-> c]>>  \* execute(c, args)
Parse(c, verb, words) ==                              \* parseAndExecute(c, line)
  <<[do |-> "parse", verb |-> verb, c |-> c,
     args |-> [i \in DOMAIN words |-> <<words[i]>>]]>>

SetClient(c, with)  == <<[do |-> "client", c |-> c, with |-> with]>>
Call(ch, call, arg) == <<[do |-> "channel", ch |-> ch, call |-> call, arg |-> arg]>>
Link(c, ch)         == <<[do |-> "link", c |-> c, ch |-> ch]>>   \* c->addChannel
Unlink(c, ch)       == <<[do |-> "unlink", c |-> c, ch |-> ch]>>
Clear(c)            == <<[do |-> "clear", c |-> c]>>
Broadcast(ch, text, but) ==
  <<[do |-> "broadcast", ch |-> ch, text |-> text, but |-> but]>>
RemoveClient(c)     == <<[do |-> "removeClient", c |-> c]>>
Age(c)              == <<[do |-> "age", c |-> c]>>    \* setLastActivityTime(now - 10)

AppendBuffer(words) == <<[do |-> "append", words |-> words]>>
AppendToSend(bytes) == <<[do |-> "appendToSend", bytes |-> bytes]>>
RemoveSentData(n)   == <<[do |-> "removeSent", n |-> n]>>

\* A local variable takes the value of an observation.
Keep(see, of) == <<[do |-> "keep", see |-> see, of |-> of]>>

-----------------------------------------------------------------------------
(* Assertions. A fatal one, ASSERT, ends the body; the body goes on after an  *)
(* EXPECT that fails.                                                         *)

Check(fatal, see, of, is, yes) ==
  <<[do |-> "check", fatal |-> fatal, see |-> see, of |-> of, is |-> is, yes |-> yes]>>

AssertEq(see, of, is) == Check(TRUE, see, of, is, TRUE)
ExpectEq(see, of, is) == Check(FALSE, see, of, is, TRUE)
AssertNe(see, of, is) == Check(TRUE, see, of, is, FALSE)
ExpectNe(see, of, is) == Check(FALSE, see, of, is, FALSE)

AssertTrue(see, of)  == AssertEq(see, of, TRUE)
AssertFalse(see, of) == AssertEq(see, of, FALSE)
ExpectTrue(see, of)  == ExpectEq(see, of, TRUE)
ExpectFalse(see, of) == ExpectEq(see, of, FALSE)

AssertLast(c, msg) == AssertEq("last", <<c>>, msg)
ExpectLast(c, msg) == ExpectEq("last", <<c>>, msg)
AssertCount(c, n)  == AssertEq("count", <<c>>, n)

\* ASSERT_EQ(client->readLineFromBuffer(), line).
AssertLine(line) == <<[do |-> "readLine", fatal |-> TRUE, is |-> line]>>

\* EXPECT_EQ with a local variable, EXPECT_GT than one.
ExpectSame(see, of)  == <<[do |-> "same", fatal |-> FALSE, see |-> see, of |-> of]>>
AssertSame(see, of)  == <<[do |-> "same", fatal |-> TRUE, see |-> see, of |-> of]>>
ExpectLater(see, of) == <<[do |-> "later", fatal |-> FALSE, see |-> see, of |-> of]>>

\* find() of parts of a message's text: these fields; these entries of its
\* list, with their prefix; these whatever their prefix; and none of those.
Find(fatal, see, of, fields, has, about, lacks) ==
  <<[do |-> "find", fatal |-> fatal, see |-> see, of |-> of, fields |-> fields,
     has |-> has, about |-> about, lacks |-> lacks]>>

ExpectFind(see, of, fields)   == Find(FALSE, see, of, fields, {}, {}, {})
AssertFind(see, of, fields)   == Find(TRUE, see, of, fields, {}, {}, {})
ExpectLastFind(c, fields)     == ExpectFind("last", <<c>>, fields)
ExpectList(see, of, has, about, lacks) == Find(FALSE, see, of, <<>>, has, about, lacks)

Op(c) == <<"@", c>>

-----------------------------------------------------------------------------
(* TestFixture.hpp *)

CommandObjects ==
  {"passCmd", "nickCmd", "userCmd", "joinCmd", "privmsgCmd", "partCmd", "noticeCmd",
   "namesCmd", "topicCmd", "modeCmd", "kickCmd", "inviteCmd"}

CommandTest_SetUp ==
  Reset \o GetInstance \o New({c1, c2}) \o Add({c1, c2}) \o NewCommands(CommandObjects)
  \o ClearArgs

CommandTest_TearDown == Delete(CommandObjects) \o Reset

CommandManagerTest_SetUp ==
  Reset \o GetInstance \o New({c1, c2}) \o Add({c1, c2}) \o ClearArgs
  \o NewCommands({"cmdManager"})

CommandManagerTest_TearDown == Delete({"cmdManager"}) \o Reset

registerClient(c, nick) ==
  SetClient(c, [auth |-> TRUE, nick |-> nick, user |-> "user", reg |-> TRUE])

\* new Channel(ch), addChannel.
NewChannel(ch) == New({ch}) \o Add({ch})
NewClientIn(c) == New({c}) \o Add({c})

Fixture(setup, teardown, own, extra) ==
  [setup |-> setup, teardown |-> teardown, own |-> own, extra |-> extra]

CommandTest ==
  Fixture(CommandTest_SetUp, CommandTest_TearDown, CommandObjects, {})
CommandManagerTest ==
  Fixture(CommandManagerTest_SetUp, CommandManagerTest_TearDown, {"cmdManager"}, {})

\* A class derived from CommandTest, and one with a command of its own.
Derived(setup) == [CommandTest EXCEPT !.setup = CommandTest_SetUp \o setup]

DerivedWith(cmd, setup) ==
  Fixture(CommandTest_SetUp \o New({cmd}) \o setup, Delete({cmd}) \o CommandTest_TearDown,
          CommandObjects, {cmd})
=============================================================================
