-------------------------- MODULE UnitChannelScripts --------------------------
(***************************************************************************)
(* The unit tests of channels and of the commands that need them, as        *)
(* sequences of steps: one definition for each fixture and each TEST_F.     *)
(***************************************************************************)
EXTENDS UnitScripts

Members(ch, who) == Call(ch, "addMember", who)
ClearAll(a, b, c) == Clear(a) \o Clear(b) \o Clear(c)

-----------------------------------------------------------------------------
(* ChannelTest.cpp *)

ChannelTest ==
  Derived(NewChannel("#test") \o Members("#test", c1) \o Members("#test", c2))

Hello == From("", "", "", "", "Hello")

Broadcast_AllMembers ==
  Broadcast("#test", "Hello", "NULL") \o AssertLast(c1, Hello) \o AssertLast(c2, Hello)

Broadcast_ExcludeClient ==
  Broadcast("#test", "Hello", c1) \o AssertLast(c1, NoMessage) \o AssertLast(c2, Hello)

MemberManagement ==
  Call("#test", "removeMember", c1) \o Call("#test", "removeMember", c2)
  \o AssertEq("members", <<"#test">>, 0)
  \o SetClient(c1, [nick |-> "User1"]) \o SetClient(c2, [nick |-> "User2"])
  \o Members("#test", c1) \o AssertTrue("member", <<"#test", c1>>)
  \o AssertEq("members", <<"#test">>, 1)
  \o Members("#test", c2) \o AssertTrue("member", <<"#test", c2>>)
  \o AssertEq("members", <<"#test">>, 2)
  \o Call("#test", "removeMember", c1) \o AssertFalse("member", <<"#test", c1>>)
  \o AssertEq("members", <<"#test">>, 1)

TopicManagement ==
  AssertEq("topic", <<"#test">>, "")
  \o Call("#test", "setTopic", "a test topic") \o AssertEq("topic", <<"#test">>, "a test topic")
  \o Call("#test", "setTopic", "a new topic") \o AssertEq("topic", <<"#test">>, "a new topic")

OperatorManagement ==
  AssertFalse("operator", <<"#test", c1>>)
  \o Call("#test", "addOperator", c1) \o AssertTrue("operator", <<"#test", c1>>)
  \o AssertFalse("operator", <<"#test", c2>>)
  \o Call("#test", "removeOperator", c1) \o AssertFalse("operator", <<"#test", c1>>)

\* hasMode of each of these, and getModes.
ModesAre(asked, set) ==
  (IF "t" \in asked THEN AssertEq("mode", <<"#test", "t">>, "t" \in set) ELSE <<>>)
  \o (IF "n" \in asked THEN AssertEq("mode", <<"#test", "n">>, "n" \in set) ELSE <<>>)
  \o (IF "x" \in asked THEN AssertEq("mode", <<"#test", "x">>, "x" \in set) ELSE <<>>)
  \o AssertEq("modes", <<"#test">>, set)

ModeManagement ==
  ModesAre({"t", "n"}, {})
  \o Call("#test", "+mode", "t") \o ModesAre({"t", "n"}, {"t"})
  \o Call("#test", "+mode", "n") \o ModesAre({"t", "n"}, {"t", "n"})
  \o Call("#test", "-mode", "t") \o ModesAre({"t", "n"}, {"n"})
  \o Call("#test", "+mode", "x") \o ModesAre({"x"}, {"n"})

KeyManagement ==
  AssertEq("key", <<"#test">>, "")
  \o Call("#test", "setKey", "testkey") \o AssertEq("key", <<"#test">>, "testkey")
  \o AssertTrue("check key", <<"#test", "testkey">>)
  \o AssertFalse("check key", <<"#test", "wrongkey">>)

LimitManagement ==
  AssertEq("limit", <<"#test">>, 0)
  \o Call("#test", "setLimit", 5) \o AssertEq("limit", <<"#test">>, 5)

InvitedUserManagement ==
  AssertFalse("invited", <<"#test", c1>>)
  \o Call("#test", "addInvitedUser", c1) \o AssertTrue("invited", <<"#test", c1>>)
  \o AssertFalse("invited", <<"#test", c2>>)
  \o Call("#test", "removeInvitedUser", c1) \o AssertFalse("invited", <<"#test", c1>>)

-----------------------------------------------------------------------------
(* JoinPrivmsgPartTest.cpp *)

ChannelCommandsTest == Derived(registerClient(c1, "User1") \o registerClient(c2, "User2"))

Joins(c, ch) == Push(<<ch>>) \o Exec("JOIN", c)
BothJoin == Joins(c1, "#test") \o Exec("JOIN", c2)
\* Variant: args.clear() is forgotten.
SaysMore(c, target, text) == Push(<<target, text>>) \o Exec("PRIVMSG", c)
Says(c, target, text) == ClearArgs \o Push(<<target, text>>) \o Exec("PRIVMSG", c)

Join_NewChannel ==
  Joins(c1, "#new") \o AssertTrue("exists", <<"#new">>)
  \o AssertTrue("member", <<"#new", c1>>) \o AssertCount(c1, 4)
  \o ExpectEq("message", <<c1, 1>>, From(c1, "JOIN", "#new", "", ""))
  \o ExpectEq("message", <<c1, 2>>, Reply("331", "#new", ""))
  \o ExpectEq("message", <<c1, 3>>, [Reply("353", "#new", "") EXCEPT !.names = {Op(c1)}])
  \o ExpectEq("message", <<c1, 4>>, Reply("366", "#new", ""))

Join_ExistingChannel ==
  Joins(c2, "#test") \o Clear(c2) \o Exec("JOIN", c1)
  \o ExpectLast(c2, From(c1, "JOIN", "#test", "", ""))

Privmsg_ToChannel ==
  BothJoin \o Clear(c1) \o Clear(c2) \o Says(c1, "#test", "Hello Channel!")
  \o AssertTrue("empty", <<c1>>)
  \o AssertLast(c2, From(c1, "PRIVMSG", "#test", "", "Hello Channel!"))

Privmsg_ToUser ==
  Push(<<"User2", "Hello User2!">>) \o Exec("PRIVMSG", c1) \o AssertTrue("empty", <<c1>>)
  \o AssertLast(c2, From(c1, "PRIVMSG", "", c2, "Hello User2!"))

Privmsg_NotOnChannel ==
  Joins(c2, "#test") \o Clear(c1) \o Says(c1, "#test", "Am I here?")
  \o AssertLast(c2, From(c1, "PRIVMSG", "#test", "", "Am I here?"))
  \o AssertTrue("empty", <<c1>>)

Privmsg_NotOnChannel_WithNoExternalMessagesMode ==
  Joins(c2, "#test") \o ClearArgs \o Push(<<"#test", "+n">>) \o Exec("MODE", c2)
  \o Clear(c2) \o Clear(c1) \o Says(c1, "#test", "Am I here?")
  \o ExpectLast(c1, Reply("404", "#test", "")) \o AssertTrue("empty", <<c2>>)

Leaves(c) == ClearArgs \o Push(<<"#test">>) \o Exec("PART", c)
Parted == [cmd |-> "PART", from |-> c1, chan |-> "#test"]

Part_Success ==
  BothJoin \o Clear(c1) \o Clear(c2) \o Leaves(c1)
  \o AssertTrue("exists", <<"#test">>)
  \o AssertFalse("member", <<"#test", c1>>) \o AssertTrue("member", <<"#test", c2>>)
  \o AssertFind("last", <<c1>>, Parted) \o AssertFind("last", <<c2>>, Parted)

Part_LastMember ==
  Joins(c1, "#test") \o Leaves(c1) \o AssertFalse("exists", <<"#test">>)

Join_MultipleChannels ==
  PushList(<<"#chan1", "#chan2">>) \o Exec("JOIN", c1)
  \o AssertTrue("exists", <<"#chan1">>) \o AssertTrue("exists", <<"#chan2">>)
  \o ExpectTrue("member", <<"#chan1", c1>>) \o ExpectTrue("member", <<"#chan2", c1>>)
  \o ExpectEq("channels", <<c1>>, 2)

InTwoChannels ==
  NewChannel("#chan1") \o NewChannel("#chan2")
  \o Members("#chan1", c1) \o Link(c1, "#chan1")
  \o Members("#chan2", c1) \o Link(c1, "#chan2")
OutOfBoth ==
  ExpectFalse("member", <<"#chan1", c1>>) \o ExpectFalse("member", <<"#chan2", c1>>)
  \o ExpectEq("channels", <<c1>>, 0)

Part_MultipleChannels ==
  InTwoChannels \o PushList(<<"#chan1", "#chan2">>) \o Exec("PART", c1) \o OutOfBoth

Join_ZeroPartsAllChannels ==
  InTwoChannels \o Push(<<"0">>) \o Exec("JOIN", c1) \o OutOfBoth

-----------------------------------------------------------------------------
(* ModeCommandTest.cpp: client1 is the operator, client2 a member, client3 is  *)
(* outside                                                                     *)

ModeCommandTest ==
  Derived(registerClient(c1, "UserA") \o registerClient(c2, "UserB")
          \o NewClientIn(c3) \o registerClient(c3, "UserC") \o NewChannel("#test")
          \o Members("#test", c1) \o Members("#test", c2)
          \o Call("#test", "addOperator", c1) \o ClearAll(c1, c2, c3))

SetsMode(c, words) == Push(<<"#test">> \o words) \o Exec("MODE", c)
ModeSays(mode, of) == [cmd |-> "MODE", chan |-> "#test", text |-> mode, nick |-> of]
ModeSet(mode, of)  == From(c1, "MODE", "#test", of, mode)
Heard(c) == AssertFalse("empty", <<c>>)

Mode_AddOperator_Success ==
  SetsMode(c1, <<"+o", "UserB">>) \o ExpectTrue("operator", <<"#test", c2>>)
  \o Heard(c1) \o ExpectLastFind(c1, ModeSays("+o", c2))
  \o Heard(c2) \o ExpectLastFind(c2, ModeSays("+o", c2))

Mode_RemoveOperator_Success ==
  Call("#test", "addOperator", c2) \o AssertTrue("operator", <<"#test", c2>>)
  \o Clear(c1) \o Clear(c2)
  \o SetsMode(c1, <<"-o", "UserB">>) \o ExpectFalse("operator", <<"#test", c2>>)
  \o Heard(c1) \o ExpectLastFind(c1, ModeSays("-o", c2))

Mode_NotAnOperator ==
  SetsMode(c2, <<"+o", "UserC">>) \o ExpectFalse("operator", <<"#test", c3>>)
  \o Heard(c2) \o ExpectLast(c2, Reply("482", "#test", ""))

Mode_TargetUserNotInChannel ==
  SetsMode(c1, <<"+o", "UserC">>) \o ExpectFalse("operator", <<"#test", c3>>)
  \o Heard(c1) \o ExpectLast(c1, Reply("441", "#test", c3))

Mode_NeedMoreParams ==
  Exec("MODE", c1) \o Heard(c1) \o ExpectLast(c1, Reply("461", "", "MODE"))

Mode_UnknownMode ==
  SetsMode(c1, <<"+x", "UserB">>) \o Heard(c1) \o ExpectLast(c1, Reply("472", "#test", "x"))

\* +t, -t, +n and -n: the mode is set or not, and both members are told.
FlagTest(before, mode, letter, set) ==
  before \o SetsMode(c1, <<mode>>) \o ExpectEq("mode", <<"#test", letter>>, set)
  \o ExpectLast(c1, ModeSet(mode, "")) \o ExpectLast(c2, ModeSet(mode, ""))
Preset(letter) == Call("#test", "+mode", letter) \o Clear(c1)

Mode_SetTopicProtection        == FlagTest(<<>>, "+t", "t", TRUE)
Mode_UnsetTopicProtection      == FlagTest(Preset("t") \o Clear(c2), "-t", "t", FALSE)
Mode_SetNoExternalMessages     == FlagTest(<<>>, "+n", "n", TRUE)
Mode_UnsetNoExternalMessages   == FlagTest(Preset("n") \o Clear(c2), "-n", "n", FALSE)

Mode_SetKey ==
  SetsMode(c1, <<"+k", "channelkey">>) \o ExpectTrue("mode", <<"#test", "k">>)
  \o ExpectEq("key", <<"#test">>, "channelkey") \o ExpectLast(c1, ModeSet("+k", "channelkey"))

WithKey == Call("#test", "+mode", "k") \o Call("#test", "setKey", "channelkey") \o Clear(c1)

Mode_UnsetKey ==
  WithKey \o SetsMode(c1, <<"-k", "channelkey">>) \o ExpectFalse("mode", <<"#test", "k">>)
  \o ExpectEq("key", <<"#test">>, "") \o ExpectLast(c1, ModeSet("-k", ""))

Mode_UnsetKey_IncorrectKey ==
  WithKey \o SetsMode(c1, <<"-k", "wrongkey">>) \o ExpectTrue("mode", <<"#test", "k">>)
  \o ExpectEq("key", <<"#test">>, "channelkey") \o ExpectTrue("empty", <<c1>>)

Mode_SetLimit ==
  SetsMode(c1, <<"+l", "10">>) \o ExpectTrue("mode", <<"#test", "l">>)
  \o ExpectEq("limit", <<"#test">>, 10) \o ExpectLast(c1, ModeSet("+l", "10"))

Mode_UnsetLimit ==
  Call("#test", "+mode", "l") \o Call("#test", "setLimit", 5) \o Clear(c1)
  \o SetsMode(c1, <<"-l">>) \o ExpectFalse("mode", <<"#test", "l">>)
  \o ExpectEq("limit", <<"#test">>, 0) \o ExpectLast(c1, ModeSet("-l", ""))

Mode_SetInviteOnly ==
  SetsMode(c1, <<"+i">>) \o ExpectTrue("mode", <<"#test", "i">>)
  \o ExpectLast(c1, ModeSet("+i", ""))

Mode_UnsetInviteOnly ==
  Preset("i") \o SetsMode(c1, <<"-i">>) \o ExpectFalse("mode", <<"#test", "i">>)
  \o ExpectLast(c1, ModeSet("-i", ""))

-----------------------------------------------------------------------------
(* KickCommandTest.cpp: client1 is the operator, client2 a member, client3 the *)
(* target                                                                      *)

KickCommandTest ==
  Derived(registerClient(c1, "Operator") \o registerClient(c2, "Member")
          \o NewClientIn(c3) \o registerClient(c3, "Target") \o NewChannel("#test")
          \o Members("#test", c1) \o Members("#test", c2) \o Members("#test", c3)
          \o Call("#test", "addOperator", c1) \o ClearAll(c1, c2, c3))

Kicks(c, words) == Push(words) \o Exec("KICK", c)
Kicked == From(c1, "KICK", "#test", c3, "Optional reason")

Kick_Success ==
  Kicks(c1, <<"#test", "Target", "Optional reason">>)
  \o ExpectFalse("member", <<"#test", c3>>)
  \o ExpectLast(c1, Kicked) \o ExpectLast(c2, Kicked) \o ExpectLast(c3, Kicked)

Kick_NotAnOperator ==
  Kicks(c2, <<"#test", "Target">>) \o ExpectTrue("member", <<"#test", c3>>)
  \o ExpectLast(c2, Reply("482", "#test", ""))

Kick_TargetUserNotInChannel ==
  Call("#test", "removeMember", c3) \o Kicks(c1, <<"#test", "Target">>)
  \o ExpectLast(c1, Reply("441", "#test", c3))

Kick_NoSuchChannel ==
  Kicks(c1, <<"#nonexistent", "Target">>) \o ExpectLast(c1, Reply("403", "#nonexistent", ""))

Kick_NeedMoreParams == Kicks(c1, <<"#test">>) \o ExpectLast(c1, Reply("461", "", "KICK"))

Kick_NoSuchNick ==
  Kicks(c1, <<"#test", "NoSuchNick">>) \o ExpectLast(c1, Reply("401", "", "NoSuchNick"))

-----------------------------------------------------------------------------
(* InviteCommandTest.cpp: client1 invites, client2 is a member, client3 is     *)
(* invited                                                                     *)

InviteCommandTest ==
  Derived(registerClient(c1, "Inviter") \o registerClient(c2, "OtherMember")
          \o NewClientIn(c3) \o registerClient(c3, "Invitee") \o NewChannel("#test")
          \o Members("#test", c1) \o Members("#test", c2)
          \o Call("#test", "addOperator", c1)
          \o Link(c1, "#test") \o Link(c2, "#test") \o ClearAll(c1, c2, c3))

Invites(words) == Push(words) \o Exec("INVITE", c1)
InvitesToTest  == Invites(<<"Invitee", "#test">>)
Invited ==
  ExpectLast(c3, From(c1, "INVITE", "#test", c3, ""))
  \o ExpectTrue("invited", <<"#test", c3>>)

Invite_Success == InvitesToTest \o Invited \o ExpectTrue("empty", <<c1>>)

Invite_NeedMoreParams ==
  Invites(<<"Invitee">>) \o ExpectLast(c1, Reply("461", "", "INVITE"))

Invite_NoSuchNick ==
  Invites(<<"NonExistentNick", "#test">>)
  \o ExpectLast(c1, Reply("401", "", "NonExistentNick"))

Invite_NoSuchChannel ==
  Invites(<<"Invitee", "#nonexistent">>)
  \o ExpectLast(c1, Reply("403", "#nonexistent", ""))

Invite_NotOnChannel ==
  Call("#test", "removeMember", c1) \o Unlink(c1, "#test") \o InvitesToTest
  \o ExpectLast(c1, Reply("442", "#test", ""))

Invite_UserOnChannel ==
  Members("#test", c3) \o Link(c3, "#test") \o InvitesToTest
  \o ExpectLast(c1, Reply("443", "#test", c3))

Invite_InviteOnlyChannel_NotOperator ==
  Call("#test", "+mode", "i") \o Call("#test", "removeOperator", c1) \o InvitesToTest
  \o ExpectLast(c1, Reply("482", "#test", ""))

Invite_InviteOnlyChannel_AsOperator ==
  Call("#test", "+mode", "i") \o InvitesToTest \o Invited

-----------------------------------------------------------------------------
(* TopicCommandTest.cpp: client1 is the operator *)

TopicCommandTest ==
  Derived(registerClient(c1, "UserA") \o registerClient(c2, "UserB") \o NewChannel("#test")
          \o Members("#test", c1) \o Call("#test", "addOperator", c1)
          \o Link(c1, "#test") \o Clear(c1))

Topics(c, words) == Push(words) \o Exec("TOPIC", c)
TopicSays(text)  == [cmd |-> "TOPIC", chan |-> "#test", text |-> text]
Only(c, msg)     == AssertCount(c, 1) \o ExpectLast(c, msg)

Topic_SetTopic ==
  Topics(c1, <<"#test", "new">>) \o ExpectEq("topic", <<"#test">>, "new")
  \o Heard(c1) \o ExpectLastFind(c1, TopicSays("new"))

\* "TOPIC #test :" is in every announcement, whatever its text.
Topic_SetEmptyTopic ==
  Call("#test", "setTopic", "old") \o Clear(c1) \o Topics(c1, <<"#test", "">>)
  \o ExpectEq("topic", <<"#test">>, "") \o Heard(c1)
  \o ExpectLastFind(c1, [cmd |-> "TOPIC", chan |-> "#test"])

Topic_ViewTopic ==
  Call("#test", "setTopic", "readable") \o Clear(c1) \o Topics(c1, <<"#test">>)
  \o Only(c1, [Reply("332", "#test", "") EXCEPT !.text = "readable"])

Topic_NoTopicSet    == Topics(c1, <<"#test">>) \o Only(c1, Reply("331", "#test", ""))
Topic_NeedMoreParams == Topics(c1, <<>>) \o Only(c1, Reply("461", "", "TOPIC"))
Topic_NotOnChannel  == Topics(c2, <<"#test">>) \o Only(c2, Reply("442", "#test", ""))
Topic_NoSuchChannel ==
  Topics(c1, <<"#nonexistent">>) \o Only(c1, Reply("403", "#nonexistent", ""))

Topic_SetTopic_WithTopicProtection_AsOperator ==
  Preset("t") \o Topics(c1, <<"#test", "by operator">>)
  \o ExpectEq("topic", <<"#test">>, "by operator")
  \o ExpectLastFind(c1, TopicSays("by operator"))

Topic_SetTopic_WithTopicProtection_AsNonOperator ==
  Call("#test", "+mode", "t") \o Members("#test", c2) \o Link(c2, "#test") \o Clear(c2)
  \o Topics(c2, <<"#test", "by non-operator">>)
  \o ExpectEq("topic", <<"#test">>, "") \o Only(c2, Reply("482", "#test", ""))

-----------------------------------------------------------------------------
(* NamesCommandTest.cpp *)

UserAAndB == registerClient(c1, "UserA") \o registerClient(c2, "UserB")
OperatorIn(ch) == Members(ch, c1) \o Call(ch, "addOperator", c1)

\* "#chan1" with both, "#chan2" with client1 alone.
TwoNamedChannels ==
  UserAAndB
  \o NewChannel("#chan1") \o OperatorIn("#chan1") \o Members("#chan1", c2)
  \o Link(c1, "#chan1") \o Link(c2, "#chan1")
  \o NewChannel("#chan2") \o OperatorIn("#chan2") \o Link(c1, "#chan2") \o Clear(c1)

\* The replies are collected by channel and number, in whatever order they came.
Collected(code, ch) == <<c1, code, ch>>
BothListed ==
  AssertCount(c1, 4)
  \o ExpectNe("found", Collected("353", "#chan1"), NoMessage)
  \o ExpectList("found", Collected("353", "#chan1"), {Op(c1)}, {c2}, {})
  \o ExpectNe("found", Collected("366", "#chan1"), NoMessage)
  \o ExpectNe("found", Collected("353", "#chan2"), NoMessage)
  \o ExpectList("found", Collected("353", "#chan2"), {Op(c1)}, {}, {c2})
  \o ExpectNe("found", Collected("366", "#chan2"), NoMessage)

NamesCommandReturnsCorrectListForOneChannel ==
  UserAAndB \o NewChannel("#test") \o Members("#test", c1) \o Members("#test", c2)
  \o Call("#test", "addOperator", c1) \o Link(c1, "#test") \o Link(c2, "#test") \o Clear(c1)
  \o Push(<<"#test">>) \o Exec("NAMES", c1) \o AssertCount(c1, 2)
  \o ExpectFind("message", <<c1, 1>>, [cmd |-> "353", chan |-> "#test"])
  \o ExpectList("message", <<c1, 1>>, {Op(c1)}, {c2}, {})
  \o ExpectFind("message", <<c1, 2>>, [cmd |-> "366", chan |-> "#test"])

NamesCommandReturnsCorrectListForMultipleChannels ==
  TwoNamedChannels \o PushList(<<"#chan1", "#chan2">>) \o Exec("NAMES", c1) \o BothListed

NamesCommandForNonExistentChannel ==
  registerClient(c1, "UserA") \o Clear(c1) \o Push(<<"#nonexistent">>) \o Exec("NAMES", c1)
  \o AssertCount(c1, 1)
  \o ExpectFind("message", <<c1, 1>>, [cmd |-> "366", chan |-> "#nonexistent"])

NamesCommandWithoutParametersListsAllChannels ==
  TwoNamedChannels \o ClearArgs \o Exec("NAMES", c1) \o BothListed

-----------------------------------------------------------------------------
(* WhoCommandTest.cpp: client1 is the operator, client2 a member, client3 on   *)
(* the server only                                                             *)

WhoCommandTest ==
  DerivedWith("whoCmd",
    UserAAndB \o NewClientIn(c3) \o registerClient(c3, "UserC") \o NewChannel("#test")
    \o Members("#test", c1) \o Members("#test", c2) \o Call("#test", "addOperator", c1)
    \o Link(c1, "#test") \o Link(c2, "#test") \o ClearAll(c1, c2, c3))

Whos(words) == Push(words) \o Exec("WHO", c1)
\* The user and the real name are to be the nick, though registerClient sets the
\* username "user".
WhoIs(i, ch, c, nick, flags) ==
  ExpectEq("message", <<c1, i>>,
           [Reply("352", ch, c) EXCEPT !.text = flags, !.names = {<<nick, nick>>}])
WhoEnds(i, ch, nick) == ExpectEq("message", <<c1, i>>, Reply("315", ch, nick))

Who_ChannelMembers ==
  Whos(<<"#test">>) \o AssertCount(c1, 3)
  \o WhoIs(1, "#test", c1, "UserA", "H@") \o WhoIs(2, "#test", c2, "UserB", "H")
  \o WhoEnds(3, "#test", "")

Who_SpecificUserInChannel ==
  Whos(<<"UserB">>) \o AssertCount(c1, 2)
  \o WhoIs(1, "#test", c2, "UserB", "H") \o WhoEnds(2, "", c2)

Who_SpecificUserNotInChannelButOnServer ==
  Whos(<<"UserC">>) \o AssertCount(c1, 2)
  \o WhoIs(1, "*", c3, "UserC", "H") \o WhoEnds(2, "", c3)

Who_NonExistentTarget ==
  Whos(<<"NonExistentUser">>) \o AssertCount(c1, 1) \o WhoEnds(1, "", "NonExistentUser")

Who_NoArgs_ListsAllUsers ==
  NewClientIn(c4) \o registerClient(c4, "UserD") \o NewChannel("#chan2")
  \o Members("#chan2", c4) \o Link(c4, "#chan2")
  \o ClearArgs \o Exec("WHO", c1) \o AssertCount(c1, 5)
  \o WhoIs(1, "#test", c1, "UserA", "H@") \o WhoIs(2, "#test", c2, "UserB", "H")
  \o WhoIs(3, "*", c3, "UserC", "H") \o WhoIs(4, "#chan2", c4, "UserD", "H")
  \o WhoEnds(5, "", c1)

-----------------------------------------------------------------------------
(* WhoisCommandTest.cpp: client3 is targetClient *)

WhoisCommandTest ==
  DerivedWith("whoisCmd",
    registerClient(c1, "UserA") \o NewClientIn(c3) \o registerClient(c3, "UserB")
    \o SetClient(c3, [user |-> "userb_username"]) \o SetClient(c3, [real |-> "Test User"])
    \o NewChannel("#chan1") \o Members("#chan1", c3) \o Call("#chan1", "addOperator", c3)
    \o Link(c3, "#chan1")
    \o NewChannel("#chan2") \o Members("#chan2", c3) \o Link(c3, "#chan2") \o Clear(c1))

Whoises(words) == Push(words) \o Exec("WHOIS", c1)

Whois_Success ==
  Age(c3) \o Whoises(<<"UserB">>) \o Check(TRUE, "atLeast", <<c1, 4>>, TRUE, TRUE)
  \o ExpectFind("message", <<c1, 1>>, [cmd |-> "311", nick |-> c3, text |-> "Test User"])
  \o ExpectList("message", <<c1, 1>>, {}, {"userb_username"}, {})
  \o ExpectFind("message", <<c1, 2>>, [cmd |-> "319", nick |-> c3])
  \o ExpectList("message", <<c1, 2>>, {<<"@", "#chan1">>}, {"#chan2"}, {})
  \o ExpectFind("message", <<c1, 3>>, [cmd |-> "317", nick |-> c3])
  \o ExpectFind("message", <<c1, 3>>, [text |-> "10"])
  \o ExpectFind("message", <<c1, 4>>, [cmd |-> "318", nick |-> c3])

Whois_NoSuchNick ==
  Whoises(<<"NonExistentUser">>) \o Only(c1, Reply("401", "", "NonExistentUser"))

Whois_NoNicknameGiven == Exec("WHOIS", c1) \o Only(c1, Reply("431", "", ""))

-----------------------------------------------------------------------------
(* ListCommandTest.cpp. The reply to LIST has the number of members as nick. *)

ListCommandTest == DerivedWith("listCmd", registerClient(c1, "UserA"))

Lists == Exec("LIST", c1)
At(i, fields) == ExpectFind("message", <<c1, i>>, fields)
Start  == At(1, [cmd |-> "321"])
End(i) == At(i, [cmd |-> "323"])

\* A "1" is found in "#chan1" already, whatever the count.
List_WithChannels ==
  New({"#chan1"}) \o Members("#chan1", c1) \o Call("#chan1", "setTopic", "Topic for chan1")
  \o Add({"#chan1"}) \o NewChannel("#chan2") \o ClearArgs \o Lists
  \o AssertCount(c1, 4) \o Start
  \o At(2, [cmd |-> "322", chan |-> "#chan1", text |-> "Topic for chan1"])
  \o ExpectTrue("digit", <<c1, 2, "1">>)
  \o At(3, [cmd |-> "322", chan |-> "#chan2"]) \o ExpectTrue("digit", <<c1, 3, "0">>)
  \o End(4)

List_NoChannels == ClearArgs \o Lists \o AssertCount(c1, 2) \o Start \o End(2)

List_SpecificChannel ==
  New({"#chan1"}) \o Call("#chan1", "setTopic", "Topic for chan1") \o Add({"#chan1"})
  \o NewChannel("#chan2") \o Push(<<"#chan1">>) \o Lists \o AssertCount(c1, 3) \o Start
  \o At(2, [chan |-> "#chan1"]) \o End(3)

\* The two replies are searched as one text.
List_MultipleSpecificChannels ==
  NewChannel("#chan1") \o NewChannel("#chan2") \o NewChannel("#chan3")
  \o PushList(<<"#chan1", "#chan3">>) \o Lists \o AssertCount(c1, 4) \o Start
  \o ExpectEq("channelsOf", <<c1, 2, 3>>, {"#chan1", "#chan3"}) \o End(4)

List_NonExistentChannel ==
  Push(<<"#nonexistent">>) \o Lists \o AssertCount(c1, 2) \o Start \o End(2)

-----------------------------------------------------------------------------
(* Each test with the faults that it says it finds *)

InChannelTest(body, finds) == Test(ChannelTest, body, finds)
InChannelCommandsTest(body, finds) == Test(ChannelCommandsTest, body, finds)
InModeTest(body, finds)   == Test(ModeCommandTest, body, finds)
InKickTest(body, finds)   == Test(KickCommandTest, body, finds)
InInviteTest(body, finds) == Test(InviteCommandTest, body, finds)
InTopicTest(body, finds)  == Test(TopicCommandTest, body, finds)
InNamesTest(body, finds)  == Test(CommandTest, body, finds)
InWhoTest(body, finds)    == Test(WhoCommandTest, body, finds)
InWhoisTest(body, finds)  == Test(WhoisCommandTest, body, finds)
InListTest(body, finds)   == Test(ListCommandTest, body, finds)

ChannelSuite == [
  Broadcast_AllMembers |-> InChannelTest(Broadcast_AllMembers, {}),
  Broadcast_ExcludeClient |-> InChannelTest(Broadcast_ExcludeClient, {"exclude_ignored"}),
  MemberManagement |-> InChannelTest(MemberManagement, {}),
  TopicManagement |-> InChannelTest(TopicManagement, {}),
  OperatorManagement |-> InChannelTest(OperatorManagement, {"unset_ignored"}),
  ModeManagement |-> InChannelTest(ModeManagement, {"unset_ignored", "any_mode_kept"}),
  KeyManagement |-> InChannelTest(KeyManagement, {"key_ignored"}),
  LimitManagement |-> InChannelTest(LimitManagement, {}),
  InvitedUserManagement |-> InChannelTest(InvitedUserManagement, {"invitation_stays"}),
  Join_NewChannel |->
    InChannelCommandsTest(Join_NewChannel, {"creator_not_op", "ops_unmarked", "mute_3"}),
  Join_ExistingChannel |-> InChannelCommandsTest(Join_ExistingChannel, {"join_untold"}),
  Privmsg_ToChannel |->
    InChannelCommandsTest(Privmsg_ToChannel, {"privmsg_lost", "privmsg_echoed"}),
  Privmsg_ToUser |-> InChannelCommandsTest(Privmsg_ToUser, {"privmsg_lost"}),
  Privmsg_NotOnChannel |->
    InChannelCommandsTest(Privmsg_NotOnChannel, {"externals_refused"}),
  Privmsg_NotOnChannel_WithNoExternalMessagesMode |->
    InChannelCommandsTest(Privmsg_NotOnChannel_WithNoExternalMessagesMode,
                          {"externals_heard", "mute_4"}),
  Part_Success |-> InChannelCommandsTest(Part_Success, {"part_untold", "part_keeps"}),
  Part_LastMember |->
    InChannelCommandsTest(Part_LastMember, {"empty_channel_kept", "part_keeps"}),
  Join_MultipleChannels |->
    InChannelCommandsTest(Join_MultipleChannels, {"first_target_only"}),
  Part_MultipleChannels |->
    InChannelCommandsTest(Part_MultipleChannels, {"first_target_only", "part_keeps"}),
  Join_ZeroPartsAllChannels |->
    InChannelCommandsTest(Join_ZeroPartsAllChannels, {"first_target_only", "part_keeps"}),
  Mode_AddOperator_Success |->
    InModeTest(Mode_AddOperator_Success, {"op_ignored", "mode_untold"}),
  Mode_RemoveOperator_Success |-> InModeTest(Mode_RemoveOperator_Success, {"unset_ignored"}),
  Mode_NotAnOperator |-> InModeTest(Mode_NotAnOperator, {"anyone_is_op", "mute_4"}),
  Mode_TargetUserNotInChannel |->
    InModeTest(Mode_TargetUserNotInChannel, {"outsider_opped", "mute_4"}),
  Mode_NeedMoreParams |-> InModeTest(Mode_NeedMoreParams, {"mute_4"}),
  Mode_UnknownMode |-> InModeTest(Mode_UnknownMode, {"mute_4"}),
  Mode_SetTopicProtection |->
    InModeTest(Mode_SetTopicProtection, {"flag_ignored", "mode_untold"}),
  Mode_UnsetTopicProtection |->
    InModeTest(Mode_UnsetTopicProtection, {"unset_ignored", "mode_untold"}),
  Mode_SetNoExternalMessages |->
    InModeTest(Mode_SetNoExternalMessages, {"flag_ignored", "mode_untold"}),
  Mode_UnsetNoExternalMessages |->
    InModeTest(Mode_UnsetNoExternalMessages, {"unset_ignored", "mode_untold"}),
  Mode_SetKey |-> InModeTest(Mode_SetKey, {"flag_ignored"}),
  Mode_UnsetKey |-> InModeTest(Mode_UnsetKey, {"unset_ignored"}),
  Mode_UnsetKey_IncorrectKey |-> InModeTest(Mode_UnsetKey_IncorrectKey, {"wrong_key_unsets"}),
  Mode_SetLimit |-> InModeTest(Mode_SetLimit, {"flag_ignored"}),
  Mode_UnsetLimit |-> InModeTest(Mode_UnsetLimit, {"unset_ignored"}),
  Mode_SetInviteOnly |-> InModeTest(Mode_SetInviteOnly, {"flag_ignored"}),
  Mode_UnsetInviteOnly |-> InModeTest(Mode_UnsetInviteOnly, {"unset_ignored"}),
  Kick_Success |-> InKickTest(Kick_Success, {"kick_keeps", "kick_untold"}),
  Kick_NotAnOperator |->
    InKickTest(Kick_NotAnOperator, {"anyone_is_op", "kick_anyway", "mute_4"}),
  Kick_TargetUserNotInChannel |-> InKickTest(Kick_TargetUserNotInChannel, {"mute_4"}),
  Kick_NoSuchChannel |-> InKickTest(Kick_NoSuchChannel, {"mute_4"}),
  Kick_NeedMoreParams |-> InKickTest(Kick_NeedMoreParams, {"mute_4"}),
  Kick_NoSuchNick |-> InKickTest(Kick_NoSuchNick, {"mute_4"}),
  Invite_Success |-> InInviteTest(Invite_Success, {"invitation_void", "invite_confirmed"}),
  Invite_NeedMoreParams |-> InInviteTest(Invite_NeedMoreParams, {"mute_4"}),
  Invite_NoSuchNick |-> InInviteTest(Invite_NoSuchNick, {"mute_4"}),
  Invite_NoSuchChannel |-> InInviteTest(Invite_NoSuchChannel, {"mute_4"}),
  Invite_NotOnChannel |-> InInviteTest(Invite_NotOnChannel, {"outsider_invites", "mute_4"}),
  Invite_UserOnChannel |-> InInviteTest(Invite_UserOnChannel, {"mute_4"}),
  Invite_InviteOnlyChannel_NotOperator |->
    InInviteTest(Invite_InviteOnlyChannel_NotOperator, {"anyone_invites", "mute_4"}),
  Invite_InviteOnlyChannel_AsOperator |->
    InInviteTest(Invite_InviteOnlyChannel_AsOperator, {"invitation_void"}),
  Topic_SetTopic |-> InTopicTest(Topic_SetTopic, {"topic_not_kept"}),
  Topic_SetEmptyTopic |-> InTopicTest(Topic_SetEmptyTopic, {"topic_not_kept"}),
  Topic_ViewTopic |-> InTopicTest(Topic_ViewTopic, {}),
  Topic_NoTopicSet |-> InTopicTest(Topic_NoTopicSet, {}),
  Topic_NeedMoreParams |-> InTopicTest(Topic_NeedMoreParams, {"mute_4"}),
  Topic_NotOnChannel |-> InTopicTest(Topic_NotOnChannel, {"outsider_topic", "mute_4"}),
  Topic_NoSuchChannel |-> InTopicTest(Topic_NoSuchChannel, {"mute_4"}),
  Topic_SetTopic_AsOperator |->
    InTopicTest(Topic_SetTopic_WithTopicProtection_AsOperator, {"topic_not_kept"}),
  Topic_SetTopic_AsNonOperator |->
    InTopicTest(Topic_SetTopic_WithTopicProtection_AsNonOperator,
                {"topic_unprotected", "mute_4"}),
  Names_OneChannel |->
    InNamesTest(NamesCommandReturnsCorrectListForOneChannel, {"ops_unmarked", "mute_3"}),
  Names_MultipleChannels |->
    InNamesTest(NamesCommandReturnsCorrectListForMultipleChannels,
                {"first_target_only", "ops_unmarked", "mute_3"}),
  Names_NonExistentChannel |-> InNamesTest(NamesCommandForNonExistentChannel, {"mute_3"}),
  Names_WithoutParameters |->
    InNamesTest(NamesCommandWithoutParametersListsAllChannels,
                {"first_target_only", "ops_unmarked", "mute_3"}),
  Who_ChannelMembers |->
    InWhoTest(Who_ChannelMembers, {"who_hides_ops", "who_shows_username", "mute_3"}),
  Who_SpecificUserInChannel |->
    InWhoTest(Who_SpecificUserInChannel, {"who_shows_username", "mute_3"}),
  Who_SpecificUserNotInChannel |->
    InWhoTest(Who_SpecificUserNotInChannelButOnServer,
              {"who_channels_only", "who_shows_username", "mute_3"}),
  Who_NonExistentTarget |-> InWhoTest(Who_NonExistentTarget, {"mute_3"}),
  Who_NoArgs_ListsAllUsers |->
    InWhoTest(Who_NoArgs_ListsAllUsers,
              {"who_hides_ops", "who_channels_only", "who_shows_username", "mute_3"}),
  Whois_Success |->
    InWhoisTest(Whois_Success, {"whois_hides_channels", "idle_untold", "mute_3"}),
  Whois_NoSuchNick |-> InWhoisTest(Whois_NoSuchNick, {"mute_4"}),
  Whois_NoNicknameGiven |-> InWhoisTest(Whois_NoNicknameGiven, {"mute_4"}),
  List_WithChannels |->
    InListTest(List_WithChannels, {"list_counts_none", "list_counts_more", "mute_3"}),
  List_NoChannels |-> InListTest(List_NoChannels, {"mute_3"}),
  List_SpecificChannel |-> InListTest(List_SpecificChannel, {"list_unfiltered", "mute_3"}),
  List_MultipleSpecificChannels |->
    InListTest(List_MultipleSpecificChannels, {"list_unfiltered", "mute_3"}),
  List_NonExistentChannel |-> InListTest(List_NonExistentChannel, {"mute_3"}) ]

\* The tests the program is linked from.
UnitSuite == CommandSuite @@ ChannelSuite
=============================================================================
