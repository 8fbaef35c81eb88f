# A verification project for ft_irc_test

`ft_irc_test` is the test repository of an IRC server, `ft_irc`, which is
cloned around it and is not part of it. What this project verifies is therefore
the *test system*: the client every integration test drives, the fixture that
starts and stops the server, the integration tests themselves, as programs that
run concurrently with a server, and the unit tests with the fixtures that make
and delete their objects. A test must neither fail a server that is right nor
pass one that is wrong.

## 1. Inventory

| part | state | operations | interacts with |
|---|---|---|---|
| IRC client helper (`client_helper.py`) | socket, `buffer`, `message_queue`, `auto_pong` | `connect`, `send`, `get_message`, `wait_for_command`, `register`, `close`; inside: `_recv_raw`, `parse_message`, `_handle_ping` | the server over TCP; called by every test |
| server fixture and report hook (`conftest.py`) | the server process, its pipes, `item.rep_call` | start, poll, yield, terminate, wait, kill, log; `pytest_runtest_makereport` | the operating system, pytest, port 6668 |
| channel integration tests (`test_02, 05, 06, 08, 09, 10, 14, 15`) | local variables, two to four clients | sends, waits, drains, assertions | clients, fixture |
| connection, QUIT, bulk tests (`test_01, 03, 16`) | as above, with clients not registered yet | as above | clients, fixture |
| keep-alive tests (`test_04`) | sleeps against the server's `PING_TIMEOUT`, `PONG_TIMEOUT` | as above | clients, fixture, the server's clocks |
| query tests (`test_07, 11, 12, 13`) | reply lists | collect and compare replies | clients, fixture |
| paused client test (`test_17`) | none: every line is commented out | | |
| unit-test fixtures (`TestFixture.hpp`, `main.cpp`) | `server`, mock clients, the command objects, `args` | `SetUp`, `TearDown`, `registerClient` | the singleton `Server`, which owns clients and channels |
| unit tests (18 `.cpp` files that are built, 4 that are not) | pointers, arguments, recorded messages | calls and assertions | the fixtures, the classes of `ft_irc` |
| tmux scenarios (`nc_test.sh`, `irssi_test.sh`, `irssi_paused_client_flood.sh`) | tmux session, log and layout files, background job | set up, scenario in the background, attach, `cleanup` at exit | tmux, `nc`, irssi, the server |
| load test (`irc_load_test.py`) | 1000 threads | connect, register, join, sleep 300 s | the server |
| build files, Docker, documents | none | | |

What is hard about them:

* **the client**: TCP cuts the stream anywhere, also inside a character; two
  nested time-outs; a PONG in the middle of a loop that may raise; messages that
  one call throws away and another needed.
* **the fixture**: a fixed 0.3 s where it should wait for the server to listen;
  a port that passes from one process to the next; signals, a pipe nobody reads,
  a Ctrl-C at any step, also while the teardown waits.
* **the tests**: commands of two clients race on two connections; only the waits
  between them fix an order, and a wait may be met by a message that is older
  than the command it was meant for; silence is judged by a time-out.
* **the unit tests**: one `Server` for the whole program, objects owned by the
  server, by the fixture or by a derived fixture, channels the server deletes
  during a test, assertions that end a body half way, vectors indexed by number,
  two readings of the clock, and tests that set up half of a state.
* **the scripts**: a background job, a foreground attach, and an exit trap that
  kills what the job still uses.

What makes each part correct:

* client: each message of the stream is handed out once, in order, none before
  it arrived; each PING is answered once, in order; a wait returns the first
  match since it was called; `register` returns only if it saw the greeting;
  every call ends.
* fixture: a test passes only on its own server; no server is left running that was
  not told to stop, unless the session is interrupted inside the fixture; the session
  ends.
* unit tests: each object is deleted once and none is left; no statement follows a
  pointer to a deleted object or indexes past an end, whatever the server
  answers; no test depends on those before it.
* tests: no false alarm on a conforming server, in any order it serves the
  clients; no fault overlooked that the test says it finds; a verdict always.

`PROJECT.json` lists every component, and under `hazards` each hazard at its
line with the properties that watch it.

## 2. Modules

```
MessageChannel  <--implements--  IRCClient  <-- MCIRCClient (small streams)
                                            <-- IRCClient_proofs
ServerFixture   <-- ServerFixture_proofs

IRCCommands <-- IRCServer, TestScripts <-- TestRun <-- TestWaits <-- MCTestRun
TestScripts <-- ConnectionScripts                                <-- MCTestRun (sets of tests)

TestFixture <--implements--  UnitRun
            <-- TestFixture_proofs
IRCCommands, UnitSteps <-- UnitServer         <-- UnitRun  <-- MCUnitRun
UnitSteps <-- UnitScripts <-- UnitChannelScripts           <-- MCUnitRun
UnitRun   <-- UnitGuards                                   <-- MCUnitRun

IRCCommands_proofs <-- TestRun_proofs (of TestWaits)
                   <-- UnitRun_proofs <-- UnitMemory_proofs <-- UnitAccess_proofs
```

Both `TestRun` and `UnitRun` take the tests as a constant, `Suite`. The model checker
gives it the repository's (`PytestSuite`, `UnitSuite`); the proofs hold for every
suite that meets `SuiteAssumption`, which the model checker finds true of these.
`UnitGuarded`, `UnitAgreement` and `WaitsSeparated` hold for every suite that meets
`GuardedSuite`, `AgreeingSuite` or `SeparatedSuite` as well, which it finds true, too.

### MessageChannel
The abstract specification: a stream of lines, the bytes of it that arrived,
and the lines delivered to the test. `Deliver` hands out the next message after
the latest one, never skipping one and never before its last byte arrived.

### IRCClient
`client_helper.py`, one action per step between which the world can change. A
line is its number in the server's stream and its data only its command; a byte
is its offset; `LineEnd[i]` is the offset after line `i`, `Inside` the offsets
inside a multi-byte character. The correspondence:

| variable | code |
|---|---|
| `read`, `cut` | `self.buffer` holds the bytes from `LineEnd[cut]` to `read` |
| `message_queue`, `auto_pong` | the attributes |
| `op`, `pc` | the method the test called, and the place in `get_message` |
| `want`, `collected` | `expected_command`, `received_registration_messages` |
| `result` | the value returned: a line, `None` (0), or `Raised` (an exception) |
| `expired` | which of the two clocks (`get_message`'s own, its caller's) has run out |
| `stream`, `arrived`, `peer` | the server and the kernel: what it writes, what has come, FIN and RST |
| `taken`, `mark`, `ponged`, `torn` | history, for the properties |

| action | code (`client_helper.py`) |
|---|---|
| `Connect`, `Send`, `Close` | 23-26, 28-31, 149-152 |
| `CallGetMessage`, `CallWaitForCommand`, `CallRegister` | the beginnings of the three methods |
| `GetQueued`, `StartClock`, `LoopHead` | 57-59, 61, 62 |
| `SplitLine`, `HandlePing`, `AllSplit` | the loop of 64-70, `_handle_ping`, 73-77 |
| `RecvNothing`, `RecvChunk`, `RecvClosed` | `_recv_raw` with its three kinds of result, and 78-83 |
| `WaitForCommand`, `Register` | one turn of the loops of 92-98 and 123-139 |

`SplitLine` parses: a blank line gives no message, a line that is only a prefix
raises `IndexError` after it left the buffer, anything else is queued, and a
PING is then answered. Abstracted: the text of a line but its command, the
length of time (a running clock may expire at any moment), `print`.

### ServerFixture
`conftest.py` over a session of several tests. `phase` is where the generator
is; `Popen`, `Poll`, `Terminate`, `Wait` (with `Kill`), `Log` are its steps in
order, `EndBody` the end of a test body with the hook's report, and the two
`Interrupt` actions a Ctrl-C. `InterruptBody` is the one in the body, whose teardown
runs, and ends the session after it. `Interrupt` is the one in any other phase: it is no
`TimeoutExpired`, so that in `wait` it skips `kill`, and pytest does not resume the
generator; `cut` remembers where it struck. The servers (`Start`,
`Exit`, `Answer`) are the environment: a server binds the port or exits, answers
whichever client is connected to the port, writes one log line per command to
its pipe, blocks when that is full, and may crash at any moment. Process 0 is a server left over from an
earlier session (`Stale`).

### IRCCommands
`ft_irc` is not here: what it does is *external*, read off what the tests expect.
`IRCCommands` has the channel commands as functions from a state and a command to
the next state and the messages it sends; the integration tests and the unit
tests both run against it. `fault` names one way in which a server may be wrong:
a mode ignored, a broadcast not sent, a refused KICK carried out all the same, ...

### TestScripts, ConnectionScripts, IRCServer, TestRun
The two script modules have one definition for each test function or fixture: a
sequence of steps in the order of the code. A command is a record, a text one
word. Assertions that the code makes after several waits stand at their wait: the
verdict is the same. `PytestSuite` gives each test the faults its name, docstring or
comments say it would find, and the clients that are connected, not registered
yet (`fresh`) or have `auto_pong` off (`quiet`).

| step | code |
|---|---|
| `Send`, `SendOn` | `client.send`, the latter where the test does not wait afterwards |
| `Wait`, `WaitBriefly`, `Expect`, `Keep` | `wait_for_command`: result unused, unused and brief, asserted, kept for a later assertion |
| `Drain`, `Silent`, `Not`, `Take`, `Collect` | `get_message` until `None`, asserted `None`, asserted not this reply, asserted not `None`, until this reply |
| `Covers` | assertions on all replies that were kept |
| `Pause`, `Sleep` | `time.sleep` of 0.2 s and of seconds |
| `Probe` | the loop of `test_03_quit.py:21-32` that sends until a send fails |

`IRCServer` adds the connections: each step takes one command of any connection
that has one waiting. Here are registration, QUIT and the queries, and what a
server does unasked: `AskIdle` sends a PING to a client that was silent for
`PingTimeout`, `CloseIdle` drops one that did not answer within `PongTimeout`.

`TestRun` runs one test against one server. A client is there what
`MessageChannel` promises and `IRCClient` is shown to deliver: a sequence from
which messages are taken once and in order; what the client takes off, it answers
if it is a PING, unless it is `quiet`. A send to a connection the server has
closed may raise. The clock advances only in `SleepStep`, a second at a time, and
only when the server has nothing left to do in this second. `answered` remembers
which command caused the message each wait returned.

### TestWaits
How a reviewer of an integration test sees that a wait cannot be met by an old message,
as a predicate of the script alone. First, what a conforming server may write about a
command (`Announced` to members of a channel, `Codes` to the sender) and after which reply
nothing follows (`Ends`: the 366 of a JOIN of one channel, the 315 of a WHO, ...; `Single`
are the commands with one message for answer). From it, `Clears`: after which step of a
script no such reply to an older command is left for a client, or still to come,

| a step that clears | because |
|---|---|
| before anything else is sent, the client's wait for a message that `Ends` the answer | what came before it is thrown away, and nothing comes after it |
| before anything else is sent, anybody's wait, if the test fails without it, for another reply to a `Single` command | there is one message, and it was that one |
| before anything else is sent, anybody's wait for a message of the answer, if the client never sent a JOIN and the command is announced to members of a channel only | it was taken while the client was in no channel |
| a `Drain` of the client, unless its time-out is short | all came, and was thrown away |

`SeparatedTest`: at each wait, every reply that would end it and that an older command
may cause was cleared before. `SeparatedSuite` says so of every test but
`test_invite_errors`; it is an `ASSUME` of `MCTestRun`.

### TestFixture
Who owns what in a unit test, and nothing else: `SetUp` makes clients and lists
them with the server, makes the commands of the base fixture (`own`) and of the
derived one (`extra`); the body makes more and must list it, the server may drop
what is listed; `TearDown` deletes `extra`, `own`, and with `resetInstance` what is
listed. A second `delete` of one object is possible and recorded in `twice`.

### UnitSteps, UnitServer, UnitScripts, UnitChannelScripts, UnitRun
`UnitSteps` is the vocabulary of calls and assertions and the two fixtures of
`TestFixture.hpp`. The two script modules have one definition for each `TEST_F`
that is built. `UnitServer` has the objects the tests call: clients with their
recorded messages and buffers, channels, the server's lists, `formatReply`.
`UnitRun` runs the tests one after the other in any order on one process: a step
for each kind of statement, with

* `AssertStep`: a failed `ASSERT_*` ends the body, a failed `EXPECT_*` does not;
* `WildStep`: a statement whose object is not `live`, or whose index is past the
  end, is undefined behaviour: it crashes, or goes on with any outcome;
* `EndStage`: `TearDown` runs whatever failed before;
* `Tick`: a second ends between two statements.

`UnitRun` implements `TestFixture`: `Position` maps where a test is to the stage of
the ownership discipline.

### UnitGuards
What a reviewer of a unit test does with a finger on the text, as a predicate of the
script alone: at each step, is every object it names surely alive, and every index
surely below the number of messages? `Since(i, these, those)`: one of these steps came
before place `i` and none of those after it. From it,

| sure at a place | because of | unless since then |
|---|---|---|
| a client is alive | its `new` | `removeClient` or a delete |
| a channel is alive | its `new`, or an `ASSERT_TRUE` that the server has it (`Findings`) | a PART or KICK (JOIN, if the test ever says `JOIN 0`) that does not leave one of two sure members (`Spared`) |
| a client is in a channel | `addMember` | any such command, `removeMember`, `removeClient` |
| there are `n` messages | an `ASSERT` about their number (`Countings`) | `clear` |
| a client is not in a channel | `removeMember` | `addMember`, JOIN |

The module does the same for the two records of who is in a channel. Each step that
changes one of them (`Recordings`: `addMember`, `removeMember`, `link`, `unlink`) must be
followed by the one that makes the other say the same (`Completions`: a `link` of a sure
member, an `unlink` of one surely absent) before the test looks at both (`SureAgrees`).

`GuardedSuite` says the first of every test but the two in `Dangling`, `AgreeingSuite` the
second of every test; both are `ASSUME`s of `MCUnitRun`, so that the model checker
evaluates them on the repository's suite.

## 3. Runs

| run | shows | bounds |
|---|---|---|
| `IRCClient_traffic` | types, `OnceInOrder`, `PingsAnswered`, `NoneMeansDrained`, `EarlyNoneMeansLoss`, `WaitFindsFirst`, `ImplementsChannel` | all 64 streams of three lines over PING, message, blank, malformed; 7 bytes, first line with a two-byte character, 3 bytes a chunk |
| `IRCClient_calls` | how calls end: `RegisterSawGreeting`, `CallReturns` | all 27 streams of three lines over 001, 002, PING; single-byte characters |
| `ServerFixture_session` | types, `PassedOnOwnServer`, `StoppedOrDying`, `SessionEnds`, `ToldToStopIsGone` | three tests, up to two commands each, a pipe of one line (so that servers do block), a Ctrl-C at any step, no stale server |
| `TestRun_suite` | types, `NoFalseAlarm`, `FaultsFound`, `WaitsAnswerLastSend`, `Finishes` | all 51 tests, each with every fault of `PytestSuite`; 43 of them with short time-outs that may expire early; `PingTimeout` = 1 and `PongTimeout` = 2, as in `README.md:85-86`; 3 messages for the bulk test's 100; also evaluates `SeparatedSuite` on these tests |
| `UnitRun_suite` | types, `NoFalseAlarm`, `FaultsFound`, `NoWildAccess`, `MembershipAgrees`, `FixtureRefinement` | all built unit tests, each on a conforming server and on one with each of 84 faults; 4 clients, 5 channels; one second may end during each of the two tests that read the clock; also evaluates `GuardedSuite` and `AgreeingSuite` on these tests |

The other runs, which expect a violation, are below. `GivesUpOnlyIfClosed` is what
`client_helper.py:43` says, and false of characters of several bytes; what is true,
`EarlyNoneMeansLoss`, is checked on the same streams: on an open connection
`get_message` gives up early only in a line that has lost a character, which can no
longer come out whole.

Why the bounds are enough: what the client does with a line depends on the
lines before it only through the queue, so three lines give an older queued
message, the line in hand and one still to come; with three-byte chunks over
two-byte lines (the first has three) a chunk ends inside a character, inside a
line, between CR and LF, at a line's end, and spans two lines. Three tests give
a dying server of the last test, the current one, and one killed before both.
The scripts are finite, so the test runs cover them; clients and channels are the
ones the tests use. A bulk of 3 messages has a first, a last and one between. In
`UnitRun` a test may follow any other, and by `FixtureRefinement` it finds nothing of it; `MaxClock` bounds the seconds of one test.

`CHECK_DEADLOCK FALSE` everywhere, because everything here may come to rest: a
client that is closed, a session that is over, a test that has its verdict, a
unit test program that crashed.

What the test runs leave out is named in constants:

* `Slow`. Waits of 1 s and more are taken as long enough for a server to answer
  all it was sent; for the tests in `Slow` that need not go for the waits, drains,
  pauses and silences of 0.1 s to 0.5 s. The suite has `Slow <- Unhurried`, the
  tests that pass and fail rightly all the same. The others hang on a short
  time-out: `notice_to_nonexistent_target`, `invite_success` and `who_command` can
  overlook their fault (an error reply after it expired), and
  `mode_topic_protection`, `invite_success`, `invite_errors`, `names_multiple`,
  `names_no_parameters` and `list_command` can fail a conforming server (a message
  that comes after a drain loop ended, a LIST handled before the TOPIC). On a server in time all of them are checked like the
  others, their drains included: without the drain of `mode_topic_protection` or of
  `names_multiple` `NoFalseAlarm` fails.
* `Overlooked`. Pairs of a test and a fault it claims to find and does not:
  `notice_to_channel` (`TestRun_echo`), `no_pong_disconnect` (`TestRun_zombie`),
  `list_command` on a server that ignores LIST's parameter and lists `#chan2` first
  (only the first 322 is looked at), `who_command` on one that sends its error before the 315
  (thrown away by the wait), and `List_WithChannels`, which searches for the number of members as a
  digit in a reply that has it in the channel's name.
* `Dangling`. The two unit tests of `UnitRun_dangling`.
* `Ticking`. Where a second may end: in the two tests that read the clock.
* `WaitsAnswerLastSend` excepts `test_invite_errors`, whose wait at line 90 answers an
  earlier PART; `TestRun_rejoin` shows what follows. `SeparatedSuite` excepts it, too.

`NoFalseAlarm` leaves nothing out of the runs for what a conforming server may do to
three tests, and names the reason in the state instead:

* `ListedOtherwise`: `whois_command` fails when the server lists `#chan2` first, though
  `test_13_whois.py:58` says the order is not guaranteed. All other tests pass in
  either order.
* `PongTooLate`: with the 1 and 2 s of `README.md:85-86`, which `README.md:80` recommends,
  the server may close the connection at the very end of the sleep of 3 s of
  `test_04_ping_pong.py:51`, before the client answers. With 2 and 2, 2 and 3 or 3 and 2
  it may not.
* `Whois_Success` (`WhoisCommandTest.cpp:48`, `:75`) fails in the second that ends between
  its reading of the clock and the server's.

Where the tests themselves disagree, `ft_irc` is what the tests in hand expect. The
unit tests of WHO want the nick in the user and real name fields of a 352
(`WhoCommandTest.cpp:50`, `:56`), though their fixture sets the username `user`
(`TestFixture.hpp:140`), the 311 of WHOIS is to have the username
(`WhoisCommandTest.cpp:59`), and `test_12_who.py:59` calls the field the user. In `UnitRun`
a server that reports the username is a faulty one (`who_shows_username`), which four
tests find. The integration tests cannot tell: their clients have the nick for username.

Fairness. Client: weak fairness of each method's own steps (Python runs the
test's thread) and of the clocks (time passes); none of the server or network.
Fixture: of the runner, whose every call has a time-out or ends with the process,
and of the delivery of SIGKILL; none of a server that starts, answers or obeys
SIGTERM. Tests: of the test's thread and of the server's handling of each
connection and of its timers, which a `poll` loop with a time-out gives. Unit
tests: none, and no claim about their end.

### Disagreements with the repository's own words
Seven runs expect a violation, each of a statement the repository makes:

| run | statement | what happens |
|---|---|---|
| `IRCClient_wide` | `client_helper.py:43` `""` is a closed connection | a chunk with part of a character decodes to `""` |
| `IRCClient_drain` | `test_05_notice.py:42` the loop clears the buffer | `None` with a whole line in the buffer |
| `ServerFixture_stale` | `conftest.py:31` wait for the server to start | 0.3 s and a live process are taken for it; a stale server answers |
| `TestRun_echo` | `test_05_notice.py:53` the sender does not get its NOTICE | the assertion looks at a JOIN |
| `TestRun_zombie` | `test_04_ping_pong.py:72`, `:89` a zombie is disconnected, which a `None` shows | a `None` shows no more than a silent second |
| `UnitRun_dangling` | `JoinPrivmsgPartTest.cpp:173` the channel is deleted | `:207` and `:226` ask it for its members |
| `TestRun_rejoin` | `test_15_invite.py:94` the inviter is operator again | a wait is met by an older PART |

## 4. Proofs

`IRCClient_proofs` proves, for every number of lines, line lengths, positions of
multi-byte characters, chunk size and set of streams allowed by
`StreamAssumption` (line ends increase, no line end is inside a character):

* `TypeCorrect`, and `Delivery` (`OnceInOrder`), `Pings` (`PingsAnswered`);
* `Refinement`: the client implements `MessageChannel` (initial states map to
  initial states, each step to a step or a stutter);
* the action properties `Drained`, `Waits`, `Registers`;
* `GivesUp` (`EarlyNoneMeansLoss`), for characters of any width: the argument is that
  what was received can end inside a character only in a line that is in `torn`
  (`TornInv`), and that a chunk of which nothing can be decoded completes no line.

`OnceInOrder` is not inductive without types: the argument is that
`taken \o message_queue` only ever grows at its end by `cut + 1`, that handing
out moves the boundary and not the sequence, and that a lost line (blank or
malformed) is no message. `PingsAnswered` needs that in `pc = "pong"` exactly the
line `cut` is unanswered, so that an exception there is the only way to owe a
PONG, and a reset the only way to that exception. The refinement needs that what
is queued is complete, `LineEnd[cut] <= read <= arrived`. `Waits` and `Registers`
rest on an invariant about the call in progress: what it took since `mark` and
has not returned did not match, and `collected` holds exactly the greetings taken
since `mark`.

`ServerFixture_proofs` proves `FixtureTypes`, `Stops` (`StoppedOrDying`) and
`OwnAnswers` (`PassedOnOwnServer`, if no stale server is there at the start), for
any number of tests, commands and pipe size. Why `OwnAnswers` holds although the
fixture does not wait for a killed server: a killed server answers nobody, so at
most one process serves at a time, and it is the one of the current test. What a Ctrl-C
inside the fixture leaves behind does not matter to it, because that ends the session;
`Stops` says what that can be (`ToldToStop`: after `terminate`, SIGTERM was sent to it
or it had already exited). The inductive invariant
(`FixtureInductive`) says which processes may be alive in which phase, and that
the processes of later tests do not exist yet.

`TestFixture_proofs` proves of the ownership discipline, for any sets of clients,
channels and commands that do not overlap (`KindsApart`), that the server's lists
hold only live objects (`FixtureListsAreLive`), that no object is deleted twice
(`FixtureDeletesOnce`) and that nothing outlives a test (`FixtureLeavesNothing`). The
inductive invariant adds `Stage`: what is live at each stage of the fixture, and
that `own` and `extra` are made once and are never in the server's lists, so that the
deletes of `TearDown` and those of the destructor cannot meet.

`IRCCommands_proofs` is about the channel commands as functions, for any finite sets
of clients and channels, any list of targets and any fault. `ReactMoves`: JOIN brings
nobody but its sender into a channel and takes nobody out, PART takes nobody out but its
sender, KICK nobody but those it names, and no other command moves anybody; operators
stay members unless the fault is to make operators of
strangers. A command with several targets is a `FoldLeft`; `Induction` unfolds it
with the least index at which a claim fails, a set, so that no theorem with an operator
as parameter is needed. `UnitRun_proofs` carries this to `execute()`: no command both
makes a channel and empties one, and the commands that are no matter of
channels leave them alone (`ExecutedLeads`, `ExecutedObeys`). It is what the memory of
the unit tests rests on, because the server deletes what a command empties.

`UnitRun_proofs` and `UnitMemory_proofs` are about the unit test program, for every
suite of well-formed tests, in every order, with every fault, with every assertion that
ends a body half way and with every outcome of a wild access:

* `UnitTypes` (`TypeOK`);
* `UnitFixture` (`FixtureRefinement`): every step that makes, lists or deletes objects is
  one that `TestFixture` allows, so that the theorems about the abstract discipline hold
  of this program;
* `UnitNoDoubleFree`, `UnitNothingLeft`, `UnitListsAreLive`.

The inductive invariant `MemoryInv` goes by phases. In a test without a server (`Plain`)
nothing is listed and at most a `Client` is alive; while `SettingUp`, each step of the fixture has made exactly
what its number says; while `Acting`, every object is the server's or `Awaited`, which is
to say that the script still has to give it away; while `TakingDown`, what is left is the
list and the commands not yet deleted. `Awaited` is why the assumption is needed: a test
that ran a command between `new Channel` and `addChannel` could lose the channel.

`UnitAccess_proofs` proves `UnitGuarded`: if `GuardedSuite`, then `NoWildAccess`. No
statement of a guarded test follows a pointer to a deleted object, walks the members of
a channel over one, or reads past the end of `receivedMessages`, whatever the server
answers, in any order of the tests, and also after a test in `Dangling` that did. The
hypothesis is about the text of the tests, the conclusion about their executions. The
inductive invariant `AccessInv` is `MemoryInv`, `SureInv` (at every step of a test that
no fatal assertion has ended and that has not gone astray, what `UnitGuards` calls sure is
true), `Astray` (a test goes astray only at a step that is not guarded) and `Records`
(only a client that is alive records channels). It goes through because each thing that
is sure has its own reason to last (`AliveNext`, `MemberNext`, `CountNext`, `MembersNext`):

* an object dies only by a command that empties a channel, `removeClient` or a delete;
  an emptied channel had one member left, and of two a command takes one at most,
  because PART takes only its sender and a KICK with one target only that one;
* a channel found by name is the object the test means only if no channel of the name was
  deleted and made again: `FirstsNext`, from `UntakenNext`, that without a PART or KICK
  no channel was deleted at all;
* messages are only appended between two `clear`s.

`UnitAgreement` follows from the same invariant: if `AgreeingSuite`, then
`MembershipAgrees`. `AgreeTrue` says that on a conforming server the records of a client
and a channel agree wherever the script makes them sure to. It lasts because a command
writes both records, whoever it takes in or out (`Followed` in `UnitServer` gives
each client the channels it joined and takes those it left), and because
`removeClient` takes the client out of every channel and deletes its record with it:
what `Records` is for. The two tests in `Dangling` are no exception, since they look at
both records before they go astray.

`TestRun_proofs` proves `RunTypes` (`TypeOK`) for every suite of well-formed integration
tests, every order in which the server takes commands and every fault of a suite. The
invariant `TypeInv` adds what the queues hold: commands of the right shape, each with a
cause before `at`, and messages with a cause before `at`, which is what makes
`answered[i] <= i`; that members are not `gone`, which needs that QUIT and a time-out
take a client out of every channel before it goes (`LeaveObeys`) and that no JOIN of a
client that is gone is served; and that operators are members.

It also proves `WaitsSeparated`: if `SeparatedSuite`, then `WaitsAnswerLastSend`. The
hypothesis is about the text of the tests, the conclusion about every order in which the
server takes the commands of two to four connections. It rests on what the server writes
(`ServerOwes`): for every command, fault-free state, list of targets and order of channels,
its messages are ones that `TestWaits` allows, to members of a channel or the sender only,
and none comes after one that ends the answer. `DeliveredPicks` carries that to what each
client reads: its messages are those written, in the order written. `WaitsAnswerLastSend`
looks only at what waits returned, so that it says nothing of what is still on its way;
the inductive invariant `WaitInv` adds `Separating`:

* `CommandsSent`, `MessagesCaused`: a command is taken once, what waits in an inbox may
  have been written about its cause, and its cause is not on its way any more;
* `Ordered`, `Uniform`: after a message that ends an answer there is none of that answer,
  and a command with one message has the same for all who read it;
* `Outsiders`: who never sent a JOIN is in no channel, so that no broadcast reaches it;
* `Cleared`: where the script has taken a step that `Clears` replies to a command, none of
  them is in the client's inbox, and the command is taken, or never will be because its
  client is gone.

A wait takes messages off the front of one inbox (`TakesSeparates`) and finds one for which
`Cleared` leaves only the last command or a later one (`FoundAnswers`); what it found is
what makes its own step clear (`FoundClears`). The server's step moves the first command of
a queue (`ServeTakes`) and needs `Ordered` and `Outsiders` to keep what is cleared clear.

Assumptions about constants, all checked by the model checker on the suites:
`SuiteAssumption` of `TestRun` (steps are a client's, commands have lists of targets and
one of the 18 verbs, no test looks for a server that makes operators of strangers);
`SuiteAssumption` of `UnitRun` (steps name what they should; a fixture has one of the two
shapes of `TestFixture.hpp` or derives from them; a test gives the server what it makes before it acts, makes
nothing twice and nothing after a command; a `SetUp` asserts nothing); `GuardedSuite`,
`AgreeingSuite` and `SeparatedSuite`, hypotheses of `UnitGuarded`, `UnitAgreement` and
`WaitsSeparated` only; `RunAssumption`, `ObjectsAssumption` (the
objects' kinds do not overlap), `FinitelyMany`, `TimeoutAssumption`.

Only model-checked:

* liveness (`CallReturns`, `SessionEnds`, `ToldToStopIsGone`, `Finishes`), which is beyond the prover;
* `NoFalseAlarm`, `FaultsFound`: they compare what these scripts assert with what this
  server answers, so that the scripts, which are finite, are the whole statement.

## 5. Not modelled

* Python's and C++'s text formatting, the contents of lines beyond what a test
  compares, the server's own code.
* `test_17`, the second test of `test_16`, `ClientTest.cpp:1-31` and
  `UserCommandTest.cpp:1-93`: commented out.
* `ServerTest.cpp`, `PrivmsgCommandTest.cpp`, `PartCommandTest.cpp`,
  `JoinCommandTest.cpp`: `unit_tests/Makefile:74-77` leaves them out of the build.
  `JoinCommandTest.cpp:63` and `:125` also contradict what the built
  `Join_NewChannel` asserts (the last message of a JOIN is the 366).
* `DebugVector` (`TestFixture.hpp:197-232`), which nothing uses.
* A server that stops reading, so that sends fill the socket's buffer: the one case
  in which `test_03_quit.py:25` takes a time-out for a disconnection.
* The tmux scenarios: a person watches them, they assert nothing, and their state is
  tmux's. Their hazards are listed. The load test: 1000 threads that share nothing and
  have no verdict.
* Docker, make and configuration files: no state. Documents.

## 6. Plan

1. Done: the client and its abstract channel, the fixture, the channel tests, the
   connection, keep-alive and query tests, the unit tests and their fixtures.
2. `TmuxSession`: scenario in the background, attach in the foreground, `set -e`
   and the `EXIT` trap of the three scripts. Properties: setup starts from nothing
   whatever an earlier script left; no keys are sent to another script's panes.
3. Done: the proofs of section 4.
4. A server that stops reading, with bounded socket buffers, for `test_03` and the
   bulk test.
