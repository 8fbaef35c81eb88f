---------------------------- MODULE TestScripts -----------------------------
(***************************************************************************)
(* The steps integration tests are made of, and the tests of the channel    *)
(* commands, one definition for each pytest function or fixture. "A".."D"   *)
(* stand for the clients of the test in the order it creates them, already  *)
(* connected and registered.                                                *)
(***************************************************************************)
EXTENDS Sequences, TLC

-----------------------------------------------------------------------------
(* Commands: the strings given to client.send *)

NoArgs == [verb |-> "", chans |-> <<>>, nicks |-> <<>>, text |-> "", key |-> "",
           limit |-> 0]

Word(verb, text) == [NoArgs EXCEPT !.verb = verb, !.text = text]
To(verb, chans) == [NoArgs EXCEPT !.verb = verb, !.chans = chans]
Join(ch)        == To("JOIN", <<ch>>)
Part(ch)        == To("PART", <<ch>>)
JoinKey(ch, k)  == [Join(ch) EXCEPT !.key = k]
Say(verb, ch, text)  == [To(verb, <<ch>>) EXCEPT !.text = text]
Tell1(verb, nick, t) == [To(verb, <<>>) EXCEPT !.nicks = <<nick>>, !.text = t]
KickAll(ch, nicks, text) == [Say("KICK", ch, text) EXCEPT !.nicks = nicks]
InviteTo(nick, chans)    == [To("INVITE", chans) EXCEPT !.nicks = <<nick>>]
SetMode(ch, m)           == Say("MODE", ch, m)
ModeOn(ch, m, nick)      == [SetMode(ch, m) EXCEPT !.nicks = <<nick>>]
ModeKey(ch, m, k)        == [SetMode(ch, m) EXCEPT !.key = k]
ModeLimit(ch, m, n)      == [SetMode(ch, m) EXCEPT !.limit = n]

-----------------------------------------------------------------------------
(* Steps *)

Step(do, who) == [do |-> do, who |-> who]

Send(c, cmd) == <<Step("send", c) @@ [cmd |-> cmd]>>
\* A send after which the test does not wait, and the rest of its burst.
SendOn(c, cmd) == <<Step("sendOn", c) @@ [cmd |-> cmd]>>

\* wait_for_command whose result nobody looks at, for 2 s or for less.
Wait(c, reply) == <<Step("wait", c) @@ [reply |-> reply]>>
WaitBriefly(c, reply) == <<Step("briefWait", c) @@ [reply |-> reply]>>

\* wait_for_command, asserted not None, with these fields, and, for a NAMES
\* list, with and without these entries.
Anything == <<>>
Only(fields) == [fields |-> fields, has |-> {}, lacks |-> {}, about |-> {}]
ExpectNames(c, reply, fields, has, lacks) ==
  <<Step("expect", c) @@ [reply |-> reply, has |-> has, lacks |-> lacks] @@ Only(fields)>>
Expect(c, reply, fields) == ExpectNames(c, reply, fields, {}, {})

Drain(c)       == <<Step("drain", c)>>   \* while c.get_message(0.1): pass
Silent(c)      == <<Step("silent", c)>>  \* get_message() is None
Not(c, reply)  == <<Step("not", c) @@ [reply |-> reply]>>

\* wait_for_command or get_message, asserted not None, kept for a later assertion;
\* get_message until it returns this reply, all kept.
Keep(c, reply)    == <<Step("keep", c) @@ [reply |-> reply]>>
Take(c)           == <<Step("take", c)>>
Collect(c, reply) == <<Step("collect", c) @@ [reply |-> reply]>>

\* Every one of these is met by a message that was kept.
Covers(c, all) == <<Step("covers", c) @@ [all |-> all]>>

\* Two waits whose channels are asserted as a set.
ExpectBoth(c, reply, chans) ==
  Keep(c, reply) \o Keep(c, reply)
  \o Covers(c, {Only([chan |-> ch]) : ch \in chans})

Joins(c, ch) == Send(c, Join(ch)) \o Wait(c, "366")
Reply(c, code, ch) == Expect(c, code, [chan |-> ch])
ReplyNick(c, code, ch, nick) == Expect(c, code, [chan |-> ch, nick |-> nick])
Op(c) == <<"@", c>>
User(c) == <<"", c>>

-----------------------------------------------------------------------------
(* test_02_messaging.py *)

join_and_names ==
  Send("A", Join("#1")) \o Expect("A", "353", [chan |-> "#1", names |-> {Op("A")}])
  \o Reply("A", "366", "#1")

join_notification_and_privmsg ==
  Joins("A", "#1") \o Send("B", Join("#1"))
  \o Expect("A", "JOIN", [from |-> "B", chan |-> "#1"])
  \o Send("A", Say("PRIVMSG", "#1", "hello"))
  \o Expect("B", "PRIVMSG", [from |-> "A", chan |-> "#1", text |-> "hello"])

-----------------------------------------------------------------------------
(* test_05_notice.py *)

notice_to_user ==
  Send("A", Tell1("NOTICE", "B", "hello"))
  \o Expect("B", "NOTICE", [from |-> "A", nick |-> "B", text |-> "hello"])

notice_to_channel ==
  Joins("A", "#1") \o Joins("B", "#1") \o Drain("B")
  \o Send("A", Say("NOTICE", "#1", "hello"))
  \o Expect("B", "NOTICE", [from |-> "A", chan |-> "#1", text |-> "hello"])
  \o Not("A", "NOTICE")

notice_to_nonexistent_target_sends_no_error ==
  Send("A", Tell1("NOTICE", "Nobody", "hello"))
  \o Send("A", Say("NOTICE", "#2", "hello")) \o Silent("A")

-----------------------------------------------------------------------------
(* test_06_multi_channel_ops.py *)

Two == <<"#1", "#2">>
BothJoin ==
  Send("A", To("JOIN", Two)) \o Wait("A", "366") \o Wait("A", "366")
  \o Send("B", To("JOIN", Two)) \o Wait("B", "366") \o Wait("B", "366")
  \o Drain("B")

join_multiple_channels ==
  Send("A", To("JOIN", Two)) \o Reply("A", "JOIN", "#1") \o Reply("A", "366", "#1")
  \o Reply("A", "JOIN", "#2") \o Reply("A", "366", "#2")

part_multiple_channels ==
  BothJoin \o Send("A", To("PART", Two))
  \o Expect("B", "PART", [from |-> "A", chan |-> "#1"])
  \o Expect("B", "PART", [from |-> "A", chan |-> "#2"])

join_zero_parts_all_channels ==
  BothJoin \o Send("A", Join("0")) \o ExpectBoth("B", "PART", {"#1", "#2"})

-----------------------------------------------------------------------------
(* test_08_topic.py *)

clients_in_channel ==
  Joins("A", "#1") \o Joins("B", "#1") \o Drain("A") \o Drain("B")

topic_view_no_topic ==
  clients_in_channel \o Send("A", To("TOPIC", <<"#1">>)) \o Reply("A", "331", "#1")

topic_set_and_view ==
  clients_in_channel \o Send("A", Say("TOPIC", "#1", "cool"))
  \o Expect("B", "TOPIC", [from |-> "A", chan |-> "#1", text |-> "cool"])
  \o Send("A", To("TOPIC", <<"#1">>))
  \o Expect("A", "332", [chan |-> "#1", text |-> "cool"])

join_gets_topic ==
  Joins("A", "#1") \o Send("A", Say("TOPIC", "#1", "welcome")) \o Wait("A", "TOPIC")
  \o Send("B", Join("#1")) \o Expect("B", "332", [chan |-> "#1", text |-> "welcome"])

topic_errors ==
  Joins("A", "#1") \o Send("B", Say("TOPIC", "#1", "outside")) \o Reply("B", "442", "#1")
  \o Send("A", To("TOPIC", <<>>)) \o Expect("A", "461", Anything)

-----------------------------------------------------------------------------
(* test_09_mode.py *)

clients_for_mode_test ==
  Joins("A", "#1") \o Joins("B", "#1") \o Drain("A") \o Drain("B") \o Drain("C")

NamesShow(c, has, lacks) ==
  Send(c, To("NAMES", <<"#1">>)) \o ExpectNames(c, "353", Anything, has, lacks)

channel_creator_is_operator ==
  clients_for_mode_test \o NamesShow("A", {Op("A"), User("B")}, {})

\* Variant: the MODE message is believed, the NAMES list is not asked for.
op_announced ==
  clients_for_mode_test \o Send("A", ModeOn("#1", "+o", "B"))
  \o Expect("A", "MODE", [chan |-> "#1", text |-> "+o", nick |-> "B"])
  \o Expect("B", "MODE", [chan |-> "#1", text |-> "+o", nick |-> "B"])

op_can_op_another_user ==
  clients_for_mode_test \o Send("A", ModeOn("#1", "+o", "B"))
  \o Expect("A", "MODE", [chan |-> "#1", text |-> "+o", nick |-> "B"])
  \o Expect("B", "MODE", [chan |-> "#1", text |-> "+o", nick |-> "B"])
  \o NamesShow("A", {Op("A"), Op("B")}, {})

op_can_deop_another_user ==
  clients_for_mode_test \o Send("A", ModeOn("#1", "+o", "B")) \o Wait("B", "MODE")
  \o Send("A", ModeOn("#1", "-o", "B")) \o Wait("B", "MODE")
  \o NamesShow("A", {Op("A"), User("B")}, {Op("B")})

non_op_cannot_change_mode ==
  clients_for_mode_test \o Send("B", ModeOn("#1", "+o", "C")) \o Reply("B", "482", "#1")

mode_errors ==
  clients_for_mode_test
  \o Send("A", ModeOn("#1", "+o", "C")) \o ReplyNick("A", "441", "#1", "C")
  \o Send("A", ModeOn("#1", "+o", "Nobody")) \o Expect("A", "401", [nick |-> "Nobody"])
  \o Send("A", ModeOn("#1", "+z", "B")) \o Reply("A", "472", "#1")

mode_topic_protection ==
  clients_for_mode_test
  \o Send("A", SetMode("#1", "+t"))
  \o Expect("B", "MODE", [chan |-> "#1", text |-> "+t"])
  \o Send("B", Say("TOPIC", "#1", "by non-op")) \o Reply("B", "482", "#1")
  \o Send("A", Say("TOPIC", "#1", "by op"))
  \o Expect("B", "TOPIC", [chan |-> "#1", text |-> "by op"])
  \o Send("A", SetMode("#1", "-t")) \o Wait("B", "MODE")
  \o Drain("A") \o Send("B", Say("TOPIC", "#1", "final"))
  \o Expect("A", "TOPIC", [chan |-> "#1", text |-> "final"])

mode_no_external_messages ==
  clients_for_mode_test
  \o Send("A", SetMode("#1", "+n")) \o Wait("A", "MODE")
  \o Send("C", Say("PRIVMSG", "#1", "hello")) \o Reply("C", "404", "#1")
  \o Send("A", SetMode("#1", "-n")) \o Wait("A", "MODE")
  \o Send("C", Say("PRIVMSG", "#1", "again"))
  \o Expect("A", "PRIVMSG", [from |-> "C", chan |-> "#1", text |-> "again"])

mode_channel_key ==
  clients_for_mode_test
  \o Send("A", ModeKey("#1", "+k", "secret")) \o Wait("A", "MODE")
  \o Send("C", Join("#1")) \o Reply("C", "475", "#1")
  \o Send("C", JoinKey("#1", "wrong")) \o Expect("C", "475", Anything)
  \o Send("C", JoinKey("#1", "secret")) \o Reply("C", "JOIN", "#1") \o Wait("C", "366")
  \o Send("A", ModeKey("#1", "-k", "secret")) \o Wait("A", "MODE")
  \o Send("C", Part("#1")) \o Wait("C", "PART")
  \o Send("C", Join("#1")) \o Reply("C", "JOIN", "#1")

mode_user_limit ==
  clients_for_mode_test
  \o Send("A", ModeLimit("#1", "+l", 2)) \o Wait("A", "MODE")
  \o Send("C", Join("#1")) \o Reply("C", "471", "#1")
  \o Send("A", SetMode("#1", "-l")) \o Wait("A", "MODE")
  \o Send("C", Join("#1")) \o Reply("C", "JOIN", "#1")

mode_invite_only ==
  clients_for_mode_test
  \o Send("A", SetMode("#1", "+i")) \o Wait("A", "MODE")
  \o Send("C", Join("#1")) \o Reply("C", "473", "#1")
  \o Send("A", InviteTo("C", <<"#1">>)) \o Expect("C", "INVITE", Anything)
  \o Send("C", Join("#1")) \o Reply("C", "JOIN", "#1")

-----------------------------------------------------------------------------
(* test_10_kick.py: A is the operator, B the member, C the target *)

clients_for_kick_test ==
  Joins("A", "#1") \o Joins("B", "#1") \o Joins("C", "#1")
  \o Drain("A") \o Drain("B") \o Drain("C") \o Drain("D")
  \o Send("A", SetMode("#1", "+n"))
  \o Wait("A", "MODE") \o Wait("B", "MODE") \o Wait("C", "MODE")

Kicked(nick) == [chan |-> "#1", nick |-> nick, text |-> "reason"]

kick_success_with_reason ==
  clients_for_kick_test \o Send("A", KickAll("#1", <<"C">>, "reason"))
  \o Expect("A", "KICK", Kicked("C")) \o Expect("B", "KICK", Kicked("C"))
  \o Expect("C", "KICK", Kicked("C"))
  \o Send("C", To("NAMES", <<"#1">>))
  \o Send("C", Say("PRIVMSG", "#1", "hello")) \o Expect("C", "404", Anything)

kick_not_operator ==
  clients_for_kick_test \o Send("B", KickAll("#1", <<"C">>, ""))
  \o Reply("B", "482", "#1")
  \o Send("C", To("NAMES", <<"#1">>)) \o Expect("C", "353", Anything)

kick_errors ==
  clients_for_kick_test
  \o Send("A", KickAll("#1", <<"D">>, "")) \o ReplyNick("A", "441", "#1", "D")
  \o Send("A", KickAll("#1", <<"Nobody">>, "")) \o Expect("A", "401", [nick |-> "Nobody"])
  \o Send("A", KickAll("#2", <<"C">>, "")) \o Reply("A", "403", "#2")
  \o Send("A", KickAll("#1", <<>>, "")) \o Expect("A", "461", Anything)

kick_multiple_users ==
  clients_for_kick_test \o Send("A", KickAll("#1", <<"B", "C">>, "reason"))
  \o Expect("A", "KICK", Kicked("B")) \o Expect("A", "KICK", Kicked("C"))
  \o Send("B", Say("PRIVMSG", "#1", "hello")) \o Expect("B", "404", Anything)
  \o Send("C", Say("PRIVMSG", "#1", "hello")) \o Expect("C", "404", Anything)

-----------------------------------------------------------------------------
(* test_14_join.py *)

Restricted(cmd) == Joins("A", "#1") \o Send("A", cmd) \o Wait("A", "MODE")

join_password_protected_channel_correct_key ==
  Restricted(ModeKey("#1", "+k", "key"))
  \o Send("B", JoinKey("#1", "key")) \o Reply("B", "JOIN", "#1")

join_password_protected_channel_incorrect_key ==
  Restricted(ModeKey("#1", "+k", "key"))
  \o Send("B", JoinKey("#1", "wrong")) \o Reply("B", "475", "#1")

join_password_protected_channel_no_key ==
  Restricted(ModeKey("#1", "+k", "key"))
  \o Send("B", Join("#1")) \o Reply("B", "475", "#1")

join_limit_channel_full ==
  Restricted(ModeLimit("#1", "+l", 1)) \o Send("B", Join("#1")) \o Reply("B", "471", "#1")

join_invite_only_channel_not_invited ==
  Restricted(SetMode("#1", "+i")) \o Send("B", Join("#1")) \o Reply("B", "473", "#1")

join_invite_only_channel_invited ==
  Restricted(SetMode("#1", "+i"))
  \o Send("A", InviteTo("B", <<"#1">>)) \o Wait("B", "INVITE")
  \o Send("B", Join("#1")) \o Reply("B", "JOIN", "#1")

-----------------------------------------------------------------------------
(* test_15_invite.py: A is the inviter, B the invitee, C the other user *)

DrainAll == Drain("A") \o Drain("B") \o Drain("C")

clients_for_invite_test == Joins("A", "#1") \o Joins("C", "#1") \o DrainAll

invite_success ==
  clients_for_invite_test \o Send("A", InviteTo("B", <<"#1">>))
  \o Expect("B", "INVITE", [from |-> "A", nick |-> "B", chan |-> "#1"])
  \o Silent("A")

Parts(c) == Send(c, Part("#1")) \o Wait(c, "PART")

invite_errors ==
  clients_for_invite_test
  \o Send("A", InviteTo("B", <<>>)) \o Expect("A", "461", Anything)
  \o Send("A", InviteTo("Nobody", <<"#1">>)) \o Expect("A", "401", [nick |-> "Nobody"])
  \o Parts("A") \o Send("A", InviteTo("B", <<"#1">>)) \o Reply("A", "442", "#1")
  \o Joins("A", "#1") \o Joins("B", "#1")
  \o Send("A", InviteTo("B", <<"#1">>)) \o ReplyNick("A", "443", "#1", "B")
  \o Parts("B")
  \o Parts("A") \o Parts("C") \o Send("B", Part("#1")) \o WaitBriefly("B", "PART")
  \o Joins("A", "#1") \o Joins("C", "#1") \o DrainAll
  \o Send("A", SetMode("#1", "+i")) \o Wait("A", "MODE") \o Wait("C", "MODE")
  \o Send("C", InviteTo("B", <<"#1">>)) \o Reply("C", "482", "#1")
  \o Send("A", SetMode("#1", "-i")) \o Wait("A", "MODE")

invite_only_channel_op_can_invite ==
  clients_for_invite_test \o Send("A", SetMode("#1", "+i")) \o Wait("A", "MODE")
  \o Send("A", InviteTo("B", <<"#1">>)) \o Expect("B", "INVITE", Anything)
  \o Send("B", Join("#1")) \o Reply("B", "JOIN", "#1")

-----------------------------------------------------------------------------
(* The suite: each test with the faults of a server that its name, docstring *)
(* or comments say it finds                                                  *)

Test(script, finds) ==
  [script |-> script, finds |-> finds,
   clients |-> {"A", "B", "C", "D"},  \* who is connected
   fresh   |-> {},                    \* who of them is not registered yet
   quiet   |-> {}]                    \* who of them has auto_pong = False

ChannelTests == [
  join_and_names |-> Test(join_and_names, {"creator_not_op"}),
  join_notification_and_privmsg |->
    Test(join_notification_and_privmsg, {"join_untold", "privmsg_lost"}),
  notice_to_user |-> Test(notice_to_user, {"notice_lost"}),
  notice_to_channel |-> Test(notice_to_channel, {"notice_lost", "notice_echoed"}),
  notice_to_nonexistent_target |->
    Test(notice_to_nonexistent_target_sends_no_error, {"notice_answered"}),
  join_multiple_channels |-> Test(join_multiple_channels, {"first_target_only"}),
  part_multiple_channels |->
    Test(part_multiple_channels, {"first_target_only", "part_untold"}),
  join_zero_parts_all_channels |->
    Test(join_zero_parts_all_channels, {"first_target_only", "part_untold"}),
  topic_view_no_topic |-> Test(topic_view_no_topic, {}),
  topic_set_and_view |->
    Test(topic_set_and_view, {"topic_untold", "topic_not_kept"}),
  join_gets_topic |-> Test(join_gets_topic, {"topic_not_kept"}),
  topic_errors |-> Test(topic_errors, {"outsider_topic"}),
  channel_creator_is_operator |->
    Test(channel_creator_is_operator, {"creator_not_op"}),
  op_can_op_another_user |-> Test(op_can_op_another_user, {"op_ignored"}),
  op_can_deop_another_user |-> Test(op_can_deop_another_user, {"unset_ignored"}),
  non_op_cannot_change_mode |-> Test(non_op_cannot_change_mode, {"anyone_is_op"}),
  mode_errors |-> Test(mode_errors, {}),
  mode_topic_protection |->
    Test(mode_topic_protection, {"topic_unprotected", "unset_ignored"}),
  mode_no_external_messages |->
    Test(mode_no_external_messages, {"externals_heard", "unset_ignored"}),
  mode_channel_key |-> Test(mode_channel_key, {"key_ignored", "unset_ignored"}),
  mode_user_limit |-> Test(mode_user_limit, {"limit_ignored", "unset_ignored"}),
  mode_invite_only |->
    Test(mode_invite_only, {"invite_only_ignored", "invitation_void"}),
  kick_success_with_reason |-> Test(kick_success_with_reason, {"kick_keeps"}),
  kick_not_operator |-> Test(kick_not_operator, {"anyone_is_op", "kick_anyway"}),
  kick_errors |-> Test(kick_errors, {}),
  kick_multiple_users |->
    Test(kick_multiple_users, {"first_target_only", "kick_keeps"}),
  join_correct_key |-> Test(join_password_protected_channel_correct_key, {}),
  join_incorrect_key |->
    Test(join_password_protected_channel_incorrect_key, {"key_ignored"}),
  join_no_key |-> Test(join_password_protected_channel_no_key, {"key_ignored"}),
  join_limit_channel_full |-> Test(join_limit_channel_full, {"limit_ignored"}),
  join_invite_only_not_invited |->
    Test(join_invite_only_channel_not_invited, {"invite_only_ignored"}),
  join_invite_only_invited |->
    Test(join_invite_only_channel_invited, {"invitation_void"}),
  invite_success |-> Test(invite_success, {"invite_confirmed"}),
  invite_errors |-> Test(invite_errors, {"outsider_invites", "anyone_invites"}),
  invite_only_op_can_invite |->
    Test(invite_only_channel_op_can_invite, {"invitation_void"}) ]
=============================================================================
