------------------------- MODULE ConnectionScripts --------------------------
(***************************************************************************)
(* The tests of connections, of the keep-alive and of the queries, and the  *)
(* suite of all integration tests. Where a test registers clients other     *)
(* than for its own sake, they are registered when it starts.               *)
(***************************************************************************)
EXTENDS TestScripts

Pause(c)    == <<Step("pause", c)>>              \* time.sleep(0.2)
Sleep(c, n) == <<Step("sleep", c) @@ [n |-> n]>> \* time.sleep(n)
Probe(c)    == <<Step("probe", c)>>              \* send until a send fails, for 5 s

Ask(verb, nick)  == [NoArgs EXCEPT !.verb = verb, !.nicks = <<nick>>]

\* A list with these entries, these whatever their prefix, and not those.
Listing(fields, has, about, lacks) ==
  [fields |-> fields, has |-> has, about |-> about, lacks |-> lacks]

-----------------------------------------------------------------------------
(* test_01_connection.py *)

PassNickUser(c, pass, nick) ==
  Send(c, Word("PASS", pass)) \o SendOn(c, Word("NICK", nick))
  \o SendOn(c, Word("USER", c))

\* IRCClient.register; no server here sends anything but what it collects.
client_registration ==
  PassNickUser("A", "testpass", "A") \o Take("A") \o Take("A")
  \o Covers("A", {Only([cmd |-> "001"]), Only([cmd |-> "002"])})

nick_in_use ==
  PassNickUser("B", "testpass", "A") \o Expect("B", "433", [to |-> "*", nick |-> "A"])

invalid_password == PassNickUser("A", "wrongpass", "A") \o Expect("A", "464", Anything)

-----------------------------------------------------------------------------
(* test_03_quit.py: A is the quitter, B the receiver *)

quit_command_disconnects_client == Send("A", Word("QUIT", "leaving")) \o Probe("A")

JoinsFully(c, ch) ==
  Send(c, Join(ch)) \o Wait(c, "JOIN") \o Wait(c, "331") \o Wait(c, "353")
  \o Wait(c, "366")

quit_notifies_other_channel_members ==
  JoinsFully("A", "#1") \o JoinsFully("B", "#1") \o Send("A", Word("QUIT", "out"))
  \o Expect("B", "QUIT", [from |-> "A", text |-> "out"])

-----------------------------------------------------------------------------
(* test_04_ping_pong.py *)

client_ping_responds_with_pong ==
  Send("A", Word("PING", "token123")) \o Expect("A", "PONG", [text |-> "token123"])

server_sends_ping_on_idle == Sleep("A", 3) \o Expect("A", "PING", Anything)

pong_response_keeps_connection_alive ==
  Sleep("A", 3) \o Expect("A", "PING", Anything)
  \o Send("A", Word("PONG", "token")) \o Sleep("A", 3)
  \o Send("A", Word("PING", "there")) \o Expect("A", "PONG", Anything)

no_pong_response_leads_to_disconnect ==
  Sleep("A", 3) \o Expect("A", "PING", Anything) \o Sleep("A", 2) \o Silent("A")

-----------------------------------------------------------------------------
(* test_07_names.py *)

Answers(c) == Take(c) \o Take(c) \o Take(c) \o Take(c)

names_command_single_channel ==
  Joins("A", "#1") \o Joins("B", "#1") \o Drain("A")
  \o Send("A", To("NAMES", <<"#1">>)) \o Keep("A", "353") \o Reply("A", "366", "#1")
  \o Covers("A", {Listing([chan |-> "#1"], {User("B")}, {"A"}, {})})

OneInBoth == Send("A", To("JOIN", Two)) \o Wait("A", "366") \o Wait("A", "366")

AllInFirst ==
  Covers("A", {Listing([cmd |-> "353", chan |-> "#1"], {User("B")}, {"A"}, {}),
               Listing([cmd |-> "353", chan |-> "#2"], {}, {"A"}, {User("B")}),
               Only([cmd |-> "366", chan |-> "#1"]),
               Only([cmd |-> "366", chan |-> "#2"])})

names_command_multiple_channels ==
  OneInBoth \o Joins("B", "#1") \o Drain("A")
  \o Send("A", To("NAMES", Two)) \o Answers("A") \o AllInFirst

names_command_no_parameters_lists_all_channels ==
  OneInBoth \o Joins("B", "#1") \o Drain("A")
  \o Send("A", To("NAMES", <<>>)) \o Answers("A") \o AllInFirst

-----------------------------------------------------------------------------
(* test_11_list.py *)

JoinsSurely(c, ch) == Send(c, Join(ch)) \o Expect(c, "366", Anything)

Second == [chan |-> "#2", nick |-> "1", text |-> "topic"]

list_command ==
  JoinsSurely("B", "#1") \o JoinsSurely("C", "#2")
  \o Send("C", Say("TOPIC", "#2", "topic")) \o Pause("C")
  \o Send("A", To("LIST", <<>>)) \o Expect("A", "321", Anything)
  \o Keep("A", "322") \o Keep("A", "322") \o Expect("A", "323", Anything)
  \o Covers("A", {Only([chan |-> "#1", nick |-> "1"]), Only(Second)})
  \o Send("A", To("LIST", <<"#2">>)) \o Expect("A", "321", Anything)
  \o Expect("A", "322", Second) \o Expect("A", "323", Anything)

-----------------------------------------------------------------------------
(* test_12_who.py: D asks about A, B and C *)

who_command ==
  JoinsSurely("A", "#1") \o JoinsSurely("B", "#1")
  \o Send("D", To("WHO", <<"#1">>)) \o Keep("D", "352") \o Keep("D", "352")
  \o Expect("D", "315", Anything)
  \o Covers("D", {Only([nick |-> "A", text |-> "H@"]), Only([nick |-> "B", text |-> "H"])})
  \o Send("D", Ask("WHO", "C"))
  \o Expect("D", "352", [chan |-> "*", nick |-> "C", text |-> "H"])
  \o Expect("D", "315", Anything)
  \o Send("D", Ask("WHO", "Nobody")) \o Expect("D", "315", [nick |-> "Nobody"])
  \o Silent("D")

-----------------------------------------------------------------------------
(* test_13_whois.py. A created both channels, so #2 has an "@" before it, and *)
(* only as the last of the list does it satisfy " #chan2" or endswith.        *)

whois_command ==
  JoinsSurely("A", "#1") \o JoinsSurely("A", "#2") \o Pause("A")
  \o Send("B", Ask("WHOIS", "A")) \o Collect("B", "318")
  \o Covers("B", {Only([cmd |-> "311", nick |-> "A"]),
                  Listing([cmd |-> "319", nick |-> "A", text |-> "#2"], {Op("#1")}, {}, {}),
                  Only([cmd |-> "317", nick |-> "A"]), Only([cmd |-> "318", nick |-> "A"])})
  \o Send("B", Ask("WHOIS", "Nobody")) \o Expect("B", "401", [nick |-> "Nobody"])

-----------------------------------------------------------------------------
(* test_16_non_blocking_write.py, with 3 messages for its 100 *)

bulk_message_delivery ==
  Send("A", Tell1("PRIVMSG", "B", "m1")) \o SendOn("A", Tell1("PRIVMSG", "B", "m2"))
  \o SendOn("A", Tell1("PRIVMSG", "B", "m3"))
  \o Take("B") \o Take("B") \o Take("B")
  \o Covers("B", {Only([cmd |-> "PRIVMSG", nick |-> "B", text |-> m]) :
                    m \in {"m1", "m2", "m3"}})

-----------------------------------------------------------------------------
\* The client the test is about is new to the server.
OnlyFresh(t) == [t EXCEPT !.clients = {"A"}, !.fresh = {"A"}]
Alone(t)     == [t EXCEPT !.clients = {"A"}]

ConnectionTests == [
  client_registration |-> OnlyFresh(Test(client_registration, {"never_registers"})),
  nick_in_use |->
    [Test(nick_in_use, {"nick_clash", "clash_addressed"})
       EXCEPT !.clients = {"A", "B"}, !.fresh = {"B"}],
  invalid_password |-> OnlyFresh(Test(invalid_password, {"password_unchecked"})),
  quit_command_disconnects |->
    Alone(Test(quit_command_disconnects_client, {"quit_ignored"})),
  quit_notifies |->
    Test(quit_notifies_other_channel_members, {"quit_ignored", "quit_untold"}),
  client_ping |-> Alone(Test(client_ping_responds_with_pong, {"token_lost"})),
  server_sends_ping_on_idle |-> Alone(Test(server_sends_ping_on_idle, {"never_pings"})),
  pong_keeps_alive |->
    Alone(Test(pong_response_keeps_connection_alive, {"never_pings", "pong_ignored"})),
  no_pong_disconnect |->
    [Alone(Test(no_pong_response_leads_to_disconnect, {"never_pings", "zombie_kept"}))
       EXCEPT !.quiet = {"A"}],
  names_single |-> Test(names_command_single_channel, {}),
  names_multiple |-> Test(names_command_multiple_channels, {"first_target_only"}),
  names_no_parameters |->
    Test(names_command_no_parameters_lists_all_channels, {"first_target_only"}),
  list_command |-> Test(list_command, {"list_counts_none", "list_unfiltered"}),
  who_command |->
    Test(who_command,
         {"who_hides_ops", "who_channels_only", "who_error_first", "who_error_last"}),
  whois_command |-> Test(whois_command, {"whois_hides_channels"}),
  bulk_message_delivery |-> Test(bulk_message_delivery, {"bulk_lost"}) ]

PytestSuite == ChannelTests @@ ConnectionTests
=============================================================================
