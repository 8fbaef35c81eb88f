----------------------------- MODULE UnitScripts -----------------------------
(***************************************************************************)
(* The unit tests the Makefile builds, as sequences of steps: one           *)
(* definition for each TEST_F. ChannelTest and the tests of channel         *)
(* commands are in UnitChannelScripts.                                      *)
(***************************************************************************)
EXTENDS Integers, UnitSteps

Test(fixture, body, finds) == [fixture |-> fixture, body |-> body, finds |-> finds]

-----------------------------------------------------------------------------
(* PassCommandTest.cpp *)

Pass_CorrectPassword ==
  Push(<<"pass123">>) \o Exec("PASS", c1) \o AssertTrue("auth", <<c1>>)
  \o AssertTrue("empty", <<c1>>)

Pass_IncorrectPassword ==
  Push(<<"wrong">>) \o Exec("PASS", c1) \o AssertFalse("auth", <<c1>>)
  \o ExpectLast(c1, Reply("464", "", ""))

Pass_NoPassword ==
  Exec("PASS", c1) \o AssertFalse("auth", <<c1>>)
  \o ExpectLast(c1, Reply("461", "", "PASS"))

Pass_AlreadyRegistered ==
  registerClient(c1, "user1") \o Push(<<"pass123">>) \o Exec("PASS", c1)
  \o ExpectLast(c1, Reply("462", "", ""))

-----------------------------------------------------------------------------
(* NickCommandTest.cpp *)

Authenticated(c) == SetClient(c, [auth |-> TRUE])
Welcomed(c) ==
  AssertTrue("reg", <<c>>) \o AssertCount(c, 2)
  \o ExpectEq("message", <<c, 1>>, Reply("001", "", c))
  \o ExpectEq("message", <<c, 2>>, Reply("002", "", c))

Nick_Success_BeforeUser ==
  Authenticated(c1) \o Push(<<"NewNick">>) \o Exec("NICK", c1)
  \o AssertEq("nick", <<c1>>, "NewNick") \o AssertFalse("reg", <<c1>>)

Nick_Success_CompletesRegistration ==
  Authenticated(c1) \o SetClient(c1, [user |-> "user"])
  \o Push(<<"NewNick">>) \o Exec("NICK", c1)
  \o AssertEq("nick", <<c1>>, "NewNick") \o Welcomed(c1)

Nick_NotAuthenticated ==
  Push(<<"NewNick">>) \o Exec("NICK", c1) \o AssertEq("nick", <<c1>>, "")

Nick_NicknameInUse ==
  registerClient(c2, "TakenNick") \o Authenticated(c1) \o SetClient(c1, [nick |-> "user1"])
  \o Push(<<"TakenNick">>) \o Exec("NICK", c1) \o AssertNe("nick", <<c1>>, "TakenNick")
  \o ExpectLast(c1, [Reply("433", "", "TakenNick") EXCEPT !.to = "*"])

Nick_ErroneousNickname ==
  Authenticated(c1) \o SetClient(c1, [nick |-> "user1"])
  \o Push(<<"1InvalidNick">>) \o Exec("NICK", c1)
  \o ExpectLast(c1, [Reply("432", "", "1InvalidNick") EXCEPT !.to = "*"])

-----------------------------------------------------------------------------
(* UserCommandTest.cpp *)

FourArgs == Push(<<"user", "0", "*", "Real Name">>)

User_Success_CompletesRegistration ==
  Authenticated(c1) \o SetClient(c1, [nick |-> "NewNick"]) \o FourArgs
  \o Exec("USER", c1) \o AssertEq("user", <<c1>>, "user") \o Welcomed(c1)

User_NeedMoreParams ==
  Authenticated(c1) \o SetClient(c1, [nick |-> "user1"]) \o Push(<<"user">>)
  \o Exec("USER", c1) \o AssertFalse("reg", <<c1>>)
  \o ExpectLast(c1, Reply("461", "", "USER"))

User_AlreadyRegistered ==
  registerClient(c1, "user1") \o FourArgs \o Exec("USER", c1)
  \o ExpectLast(c1, Reply("462", "", ""))

-----------------------------------------------------------------------------
(* PingCommand_test.cpp *)

Ponged == From("", "PONG", "", "", "irc.example.com")

PingCommandRespondsWithPong ==
  registerClient(c1, "test_nick") \o Push(<<"irc.example.com">>) \o Exec("PING", c1)
  \o ExpectLast(c1, Ponged)

PingCommandWithMultipleParametersRespondsWithFirstParameter ==
  registerClient(c1, "test_nick") \o Push(<<"irc.example.com", "another.param">>)
  \o Exec("PING", c1) \o ExpectLast(c1, Ponged)

PingCommandWithoutParametersReturnsError ==
  registerClient(c1, "test_nick") \o Exec("PING", c1)
  \o ExpectLast(c1, Reply("409", "", ""))

-----------------------------------------------------------------------------
(* NoticeCommandTest.cpp *)

SenderAndReceiver == registerClient(c1, "sender") \o registerClient(c2, "receiver")

NoticeToUser ==
  SenderAndReceiver \o Push(<<"receiver", "Hello there!">>) \o Exec("NOTICE", c1)
  \o ExpectLast(c2, From(c1, "NOTICE", "", c2, "Hello there!"))

\* Variant: nobody looks at the sender.
NoticeToOthers ==
  SenderAndReceiver \o NewChannel("#test")
  \o Call("#test", "addMember", c1) \o Call("#test", "addMember", c2)
  \o Push(<<"#test", "Channel notice">>) \o Exec("NOTICE", c1)
  \o ExpectLast(c2, From(c1, "NOTICE", "#test", "", "Channel notice"))

NoticeToChannel ==
  SenderAndReceiver \o NewChannel("#test")
  \o Call("#test", "addMember", c1) \o Call("#test", "addMember", c2)
  \o Push(<<"#test", "Channel notice">>) \o Exec("NOTICE", c1)
  \o ExpectLast(c2, From(c1, "NOTICE", "#test", "", "Channel notice"))
  \o ExpectNe("last", <<c1>>, From(c1, "NOTICE", "#test", "", "Channel notice"))

\* The number of messages is the same before and after.
NoMessageFor(words) ==
  registerClient(c1, "sender") \o Keep("count", <<c1>>) \o Push(words)
  \o Exec("NOTICE", c1) \o ExpectSame("count", <<c1>>)

NoErrorForNonExistentNick ==
  NoMessageFor(<<"nonexistent", "This should not cause an error">>)
NoErrorForNonExistentChannel ==
  NoMessageFor(<<"#nonexistent", "This should not cause an error">>)
NoArgs == NoMessageFor(<<>>)
OneArg == NoMessageFor(<<"receiver">>)

-----------------------------------------------------------------------------
(* CommandManagerTest.cpp *)

Manages(verb, words) == registerClient(c1, "client1_nick") \o Parse(c1, verb, words)

ExecuteSimpleCommand ==
  Manages("NICK", <<"new_nick">>) \o ExpectEq("nick", <<c1>>, "new_nick")

ExecuteCommandWithTrailingArg ==
  registerClient(c1, "client1_nick") \o registerClient(c2, "client2")
  \o Parse(c1, "PRIVMSG", <<"client2", "Hello there!">>)
  \o ExpectLast(c2, From(c1, "PRIVMSG", "", c2, "Hello there!"))

ExecuteUnknownCommand ==
  Manages("UNKNOWNCMD", <<"some", "args">>) \o ExpectLast(c1, Reply("421", "", "UNKNOWNCMD"))

ExecuteCaseInsensitiveCommand ==
  Manages("nick", <<"case_nick">>) \o ExpectEq("nick", <<c1>>, "case_nick")

ExecuteEmptyCommand == Manages("", <<>>) \o ExpectLast(c1, NoMessage)

ExecuteCommandWithoutArgs == Manages("NICK", <<>>) \o ExpectLast(c1, Reply("431", "", ""))

ExecuteQuitCommandWithMessage ==
  Manages("QUIT", <<"Gone to lunch">>) \o ExpectTrue("marked", <<c1>>)
  \o ExpectEq("quit", <<c1>>, "Gone to lunch")

ExecuteQuitCommandWithoutMessage ==
  Manages("QUIT", <<>>) \o ExpectTrue("marked", <<c1>>) \o ExpectEq("quit", <<c1>>, "")

ExecutePongCommandUpdatesActivityTime ==
  registerClient(c1, "client1_nick") \o Age(c1) \o Keep("last activity", <<c1>>)
  \o AssertSame("last activity", <<c1>>)
  \o Parse(c1, "PONG", <<"some_token">>) \o ExpectLater("last activity", <<c1>>)

RemoveClientCleansUpChannels ==
  registerClient(c1, "client1_nick") \o registerClient(c2, "client2_nick")
  \o NewChannel("#test")
  \o Call("#test", "addMember", c1) \o Call("#test", "addMember", c2)
  \o Link(c1, "#test") \o Link(c2, "#test")
  \o AssertTrue("member", <<"#test", c1>>) \o AssertTrue("member", <<"#test", c2>>)
  \o AssertEq("members", <<"#test">>, 2)
  \o RemoveClient(c1)
  \o ExpectFalse("member", <<"#test", c1>>) \o ExpectTrue("member", <<"#test", c2>>)
  \o ExpectEq("members", <<"#test">>, 1)

-----------------------------------------------------------------------------
(* ClientTest.cpp: a Client of its own, and text as pieces between line ends, *)
(* or as numbered bytes where only their number matters                       *)

ClientBufferTest == Fixture(New({"client"}), Delete({"client"}), {}, {})

Cmd  == "CMD arg1 arg2"
CRLF == <<"CR", "LF">>
Bytes(from, to) == [i \in 1 .. to - from + 1 |-> from + i - 1]

ReadLine_SingleLineCRLF ==
  AppendBuffer(<<Cmd>> \o CRLF) \o AssertLine(<<Cmd>>) \o AssertLine(<<>>)

ReadLine_SingleLineLF ==
  AppendBuffer(<<Cmd, "LF">>) \o AssertLine(<<Cmd>>) \o AssertLine(<<>>)

ReadLine_MultipleLines ==
  AppendBuffer(<<"LINE1">> \o CRLF \o <<"LINE2">> \o CRLF \o <<"LINE3", "LF">>)
  \o AssertLine(<<"LINE1">>) \o AssertLine(<<"LINE2">>) \o AssertLine(<<"LINE3">>)
  \o AssertLine(<<>>)

ReadLine_PartialLine ==
  AppendBuffer(<<"LINE1">> \o CRLF \o <<"PARTIAL">>)
  \o AssertLine(<<"LINE1">>) \o AssertLine(<<>>)
  \o AppendBuffer(<<"_DATA", "LF">>)
  \o AssertLine(<<"PARTIAL", "_DATA">>) \o AssertLine(<<>>)

ReadLine_Empty == AssertLine(<<>>)

SendBuffer_AppendAndGet ==
  AssertEq("to send", <<>>, <<>>)
  \o AppendToSend(Bytes(1, 5)) \o AssertEq("to send", <<>>, Bytes(1, 5))
  \o AppendToSend(Bytes(6, 11)) \o AssertEq("to send", <<>>, Bytes(1, 11))

SendBuffer_RemoveSentData ==
  AppendToSend(Bytes(1, 20)) \o ExpectEq("length to send", <<>>, 20)
  \o RemoveSentData(5) \o AssertEq("to send", <<>>, Bytes(6, 20))
  \o AssertEq("length to send", <<>>, 15)
  \o RemoveSentData(15) \o AssertEq("to send", <<>>, <<>>)

SendBuffer_RemoveFromEmpty ==
  AssertEq("to send", <<>>, <<>>)
  \o RemoveSentData(0) \o AssertEq("to send", <<>>, <<>>)
  \o RemoveSentData(100) \o AssertEq("to send", <<>>, <<>>)

-----------------------------------------------------------------------------
(* RepliesTest.cpp: the wordings, each compared with a literal. A TEST without *)
(* a fixture.                                                                  *)

NoFixture == Fixture(<<>>, <<>>, {}, {})

Worded(code, params) ==
  ExpectEq("format", <<code, params>>, [code |-> code, params |-> params, wording |-> "RFC"])

WelcomeReply            == Worded("001", <<"prefix">>)
ErrNoSuchNickReply      == Worded("401", <<"nonexistent">>)
ErrNeedMoreParamsReply  == Worded("461", <<"JOIN">>)
ErrPasswdMismatchReply  == Worded("464", <<>>)
ErrNicknameInUseReply   == Worded("433", <<"used">>)
ErrAlreadyRegistredReply == Worded("462", <<>>)
ErrUnknownCommandReply  == Worded("421", <<"UNKNOWN">>)
ErrNoNicknameGivenReply == Worded("431", <<>>)
ErrErroneusNicknameReply == Worded("432", <<"erroneous">>)
ErrNoSuchChannelReply   == Worded("403", <<"#nonexistent">>)
ErrCannotSendToChanReply == Worded("404", <<"#channel">>)
ErrNotOnChannelReply    == Worded("442", <<"#channel">>)
ErrBadChannelKeyReply   == Worded("475", <<"#channel">>)
ErrInviteOnlyChanReply  == Worded("473", <<"#channel">>)
ErrChannelIsFullReply   == Worded("471", <<"#channel">>)
ErrNoTextToSendReply    == Worded("412", <<>>)
ErrUserOnChannelReply   == Worded("443", <<"target", "#channel">>)

-----------------------------------------------------------------------------
(* Each test with the faults that its name, assertions or comments say it      *)
(* finds: "mute_4" is a server without error replies, "mute_3" one without     *)
(* replies to queries, "mute_0" one without a welcome                          *)

InCommandTest(body, finds) == Test(CommandTest, body, finds)
InManagerTest(body, finds) == Test(CommandManagerTest, body, finds)
InBufferTest(body, finds)  == Test(ClientBufferTest, body, finds)
InRepliesTest(body, code)  == Test(NoFixture, body, {"format_" \o code})

CommandSuite == [
  Pass_CorrectPassword |-> InCommandTest(Pass_CorrectPassword, {"password_refused"}),
  Pass_IncorrectPassword |->
    InCommandTest(Pass_IncorrectPassword, {"password_unchecked", "mute_4"}),
  Pass_NoPassword |-> InCommandTest(Pass_NoPassword, {"mute_4"}),
  Pass_AlreadyRegistered |-> InCommandTest(Pass_AlreadyRegistered, {"pass_again"}),
  Nick_Success_BeforeUser |->
    InCommandTest(Nick_Success_BeforeUser, {"registers_early"}),
  Nick_Success_CompletesRegistration |->
    InCommandTest(Nick_Success_CompletesRegistration, {"never_registers", "mute_0"}),
  Nick_NotAuthenticated |-> InCommandTest(Nick_NotAuthenticated, {"pass_unneeded"}),
  Nick_NicknameInUse |-> InCommandTest(Nick_NicknameInUse, {"nick_clash", "mute_4"}),
  Nick_ErroneousNickname |->
    InCommandTest(Nick_ErroneousNickname, {"bad_nick_accepted", "mute_4"}),
  User_Success_CompletesRegistration |->
    InCommandTest(User_Success_CompletesRegistration, {"never_registers", "mute_0"}),
  User_NeedMoreParams |-> InCommandTest(User_NeedMoreParams, {"mute_4"}),
  User_AlreadyRegistered |-> InCommandTest(User_AlreadyRegistered, {"user_again"}),
  PingRespondsWithPong |-> InCommandTest(PingCommandRespondsWithPong, {}),
  PingWithMultipleParameters |->
    InCommandTest(PingCommandWithMultipleParametersRespondsWithFirstParameter,
                  {"pong_last"}),
  PingWithoutParameters |->
    InCommandTest(PingCommandWithoutParametersReturnsError, {"mute_4"}),
  NoticeToUser |-> InCommandTest(NoticeToUser, {"notice_lost"}),
  NoticeToChannel |-> InCommandTest(NoticeToChannel, {"notice_lost", "notice_echoed"}),
  NoErrorForNonExistentNick |->
    InCommandTest(NoErrorForNonExistentNick, {"notice_answered"}),
  NoErrorForNonExistentChannel |->
    InCommandTest(NoErrorForNonExistentChannel, {"notice_answered"}),
  NoArgs |-> InCommandTest(NoArgs, {"notice_answered"}),
  OneArg |-> InCommandTest(OneArg, {"notice_answered"}),
  ExecuteSimpleCommand |-> InManagerTest(ExecuteSimpleCommand, {}),
  ExecuteCommandWithTrailingArg |->
    InManagerTest(ExecuteCommandWithTrailingArg, {"privmsg_lost"}),
  ExecuteUnknownCommand |-> InManagerTest(ExecuteUnknownCommand, {"unknown_ignored"}),
  ExecuteCaseInsensitiveCommand |->
    InManagerTest(ExecuteCaseInsensitiveCommand, {"case_sensitive"}),
  ExecuteEmptyCommand |-> InManagerTest(ExecuteEmptyCommand, {"empty_unknown"}),
  ExecuteCommandWithoutArgs |-> InManagerTest(ExecuteCommandWithoutArgs, {"mute_4"}),
  ExecuteQuitCommandWithMessage |->
    InManagerTest(ExecuteQuitCommandWithMessage, {"quit_ignored", "quit_message_lost"}),
  ExecuteQuitCommandWithoutMessage |->
    InManagerTest(ExecuteQuitCommandWithoutMessage, {"quit_ignored"}),
  ExecutePongCommandUpdatesActivityTime |->
    InManagerTest(ExecutePongCommandUpdatesActivityTime, {"pong_ignored"}),
  RemoveClientCleansUpChannels |->
    InManagerTest(RemoveClientCleansUpChannels, {"removed_stays"}),
  ReadLine_SingleLineCRLF |-> InBufferTest(ReadLine_SingleLineCRLF, {"cr_kept"}),
  ReadLine_SingleLineLF |-> InBufferTest(ReadLine_SingleLineLF, {"lf_ignored"}),
  ReadLine_MultipleLines |->
    InBufferTest(ReadLine_MultipleLines, {"cr_kept", "lf_ignored"}),
  ReadLine_PartialLine |-> InBufferTest(ReadLine_PartialLine, {"partial_line_read"}),
  ReadLine_Empty |-> InBufferTest(ReadLine_Empty, {}),
  SendBuffer_AppendAndGet |-> InBufferTest(SendBuffer_AppendAndGet, {}),
  SendBuffer_RemoveSentData |-> InBufferTest(SendBuffer_RemoveSentData, {"sent_kept"}),
  SendBuffer_RemoveFromEmpty |-> InBufferTest(SendBuffer_RemoveFromEmpty, {}),
  WelcomeReply |-> InRepliesTest(WelcomeReply, "001"),
  ErrNoSuchNickReply |-> InRepliesTest(ErrNoSuchNickReply, "401"),
  ErrNeedMoreParamsReply |-> InRepliesTest(ErrNeedMoreParamsReply, "461"),
  ErrPasswdMismatchReply |-> InRepliesTest(ErrPasswdMismatchReply, "464"),
  ErrNicknameInUseReply |-> InRepliesTest(ErrNicknameInUseReply, "433"),
  ErrAlreadyRegistredReply |-> InRepliesTest(ErrAlreadyRegistredReply, "462"),
  ErrUnknownCommandReply |-> InRepliesTest(ErrUnknownCommandReply, "421"),
  ErrNoNicknameGivenReply |-> InRepliesTest(ErrNoNicknameGivenReply, "431"),
  ErrErroneusNicknameReply |-> InRepliesTest(ErrErroneusNicknameReply, "432"),
  ErrNoSuchChannelReply |-> InRepliesTest(ErrNoSuchChannelReply, "403"),
  ErrCannotSendToChanReply |-> InRepliesTest(ErrCannotSendToChanReply, "404"),
  ErrNotOnChannelReply |-> InRepliesTest(ErrNotOnChannelReply, "442"),
  ErrBadChannelKeyReply |-> InRepliesTest(ErrBadChannelKeyReply, "475"),
  ErrInviteOnlyChanReply |-> InRepliesTest(ErrInviteOnlyChanReply, "473"),
  ErrChannelIsFullReply |-> InRepliesTest(ErrChannelIsFullReply, "471"),
  ErrNoTextToSendReply |-> InRepliesTest(ErrNoTextToSendReply, "412"),
  ErrUserOnChannelReply |-> InRepliesTest(ErrUserOnChannelReply, "443") ]
=============================================================================
