----------------------------- MODULE UnitServer ------------------------------
(***************************************************************************)
(* The classes under test as the unit tests use them: Server, Client,       *)
(* Channel, CommandManager, the command objects and formatReply. They are   *)
(* not in this repository; what a conforming ft_irc does is read off the    *)
(* tests. The mock client is here too: sendMessage appends to a vector.     *)
(* Messages name a client by its object, where the text has its nick, user  *)
(* and host.                                                                *)
(***************************************************************************)
EXTENDS IRCCommands, UnitSteps

VARIABLES client,    \* what each Client object holds
          received,  \* receivedMessages of each mock client
          live,      \* objects made and not deleted
          freed,     \* objects deleted, to which the test still has pointers
          listed,    \* objects in the server's lists
          instance,  \* the server exists
          buffer,    \* the receive and the send buffer of a Client
          clock      \* time(NULL)

unitServerVars == <<chan, fault, client, received, live, freed, listed, instance,
                    buffer, clock>>

\* The order in which the server walks its clients and its channels.
ClientOrder  == <<"client1", "client2", "client3", "client4">>
ChannelOrder == <<"#chan1", "#chan2", "#chan3", "#new", "#test">>

NewClient == [nick |-> "", user |-> "", real |-> "", auth |-> FALSE, reg |-> FALSE,
              marked |-> FALSE, quit |-> "", channels |-> {}, last |-> 0]

EmptyBuffer == [in |-> <<>>, out |-> <<>>]

-----------------------------------------------------------------------------
(* The mock client, and the text of a numeric *)

Addressee(o, c, cl) ==
  IF o.msg.from # "server" THEN ""
  ELSE IF o.msg.cmd \in {"432", "433"} /\ ~cl[c].reg THEN "*" ELSE "nick"

\* Client::sendMessage of the mock, once for each of these messages.
sendMessage(box, msgs) == box \o msgs

\* Every message of a reaction, sent to whom it is for.
Deliver(box, out, cl) ==
  [c \in Clients |->
     LET mine == SelectSeq(out, LAMBDA o : c \in o.to)
     IN  sendMessage(box[c], [i \in DOMAIN mine |->
                                [to |-> Addressee(mine[i], c, cl)] @@ mine[i].msg])]

getLastMessage(c) ==
  IF received[c] = <<>> THEN NoMessage ELSE received[c][Len(received[c])]

\* formatReply of this code: what the RFC says, or something else.
Formatted(code, params) ==
  [code |-> code, params |-> params,
   wording |-> IF Has("format_" \o code) THEN "other" ELSE "RFC"]

-----------------------------------------------------------------------------
(* From the argument vector to a command. An argument is the sequence of the *)
(* names between its commas.                                                 *)

Word(args, i) == IF i <= Len(args) THEN args[i][1] ELSE ""
List(args, i) == IF i <= Len(args) THEN args[i] ELSE <<>>

Initial(s) == IF s = "" THEN "" ELSE SubSeq(s, 1, 1)

IsChannelName(s) == Initial(s) = "#"

\* The client with this nick, or the nick itself.
FindClient(nick) ==
  LET found == {c \in listed \cap Clients : client[c].nick = nick}
  IN  IF nick = "" \/ found = {} THEN nick ELSE CHOOSE c \in found : TRUE

FindClients(nicks) == [i \in DOMAIN nicks |-> FindClient(nicks[i])]

\* atoi of a limit.
Number(s) == CHOOSE n \in 0..20 : ToString(n) = s \/ n = 20

Upper(verb) == IF verb = "nick" /\ ~Has("case_sensitive") THEN "NICK" ELSE verb

CommandOf(verb, args) ==
  LET target == List(args, 1)
      none   == [verb |-> verb, chans |-> <<>>, nicks |-> <<>>, text |-> "",
                 key |-> "", limit |-> 0]
      text   == IF Len(args) >= 2 /\ Word(args, 2) = "" THEN Blank ELSE Word(args, 2)
      mode   == IF Len(text) < 2 THEN "" ELSE SubSeq(text, 2, 2)
  IN  CASE verb \in {"JOIN", "PART", "NAMES", "LIST"} ->
             [none EXCEPT !.chans = target, !.key = Word(args, 2)]
        [] verb = "TOPIC" -> [none EXCEPT !.chans = target, !.text = text]
        [] verb = "KICK" ->
             [none EXCEPT !.chans = target, !.nicks = FindClients(List(args, 2)),
                          !.text = Word(args, 3)]
        [] verb = "INVITE" ->
             [none EXCEPT !.nicks = FindClients(target), !.chans = List(args, 2)]
        [] verb = "MODE" ->
             [none EXCEPT !.chans = target, !.text = text,
                !.nicks = IF mode \in {"k", "l"} THEN <<>> ELSE FindClients(List(args, 3)),
                !.key   = IF mode = "k" THEN Word(args, 3) ELSE "",
                !.limit = IF mode = "l" /\ Len(args) >= 3 THEN Number(Word(args, 3)) ELSE 0]
        [] verb \in {"PRIVMSG", "NOTICE"} ->
             IF IsChannelName(Word(args, 1))
               THEN [none EXCEPT !.chans = target, !.text = Word(args, 2)]
               ELSE [none EXCEPT !.nicks = FindClients(target), !.text = Word(args, 2)]
        [] OTHER -> none

-----------------------------------------------------------------------------
(* Registration. A reaction has the clients as r.client. *)

\* Some fields of a record have new values.
With(f, new) == [x \in DOMAIN f |-> IF x \in DOMAIN new THEN new[x] ELSE f[x]]

Updated(r, c, new) == [r EXCEPT !.client[c] = With(@, new)]

\* 001 and 002 as soon as PASS, NICK and USER are all there.
Welcome(r, c) ==
  LET cl == r.client[c]
      go == /\ cl.auth /\ ~cl.reg
            /\ cl.nick # "" \/ Has("registers_early")
            /\ cl.user # "" \/ Has("registers_early")
  IN  IF ~go \/ Has("never_registers") THEN r
      ELSE Numeric(Numeric(Updated(r, c, [reg |-> TRUE]), c, "001", "", c),
                   c, "002", "", c)

Pass(r, c, args) ==
  IF client[c].reg /\ ~Has("pass_again") THEN Numeric(r, c, "462", "", "")
  ELSE IF args = <<>> THEN Numeric(r, c, "461", "", "PASS")
  ELSE IF (Word(args, 1) # "pass123" /\ ~Has("password_unchecked"))
          \/ Has("password_refused")
    THEN Numeric(r, c, "464", "", "")
  ELSE Updated(r, c, [auth |-> TRUE])

Nick(r, c, args) ==
  LET nick == Word(args, 1) IN
  IF ~client[c].auth /\ ~Has("pass_unneeded") THEN r
  ELSE IF args = <<>> THEN Numeric(r, c, "431", "", "")
  ELSE IF Initial(nick) \in {"0", "1"} /\ ~Has("bad_nick_accepted")
    THEN Numeric(r, c, "432", "", nick)
  ELSE IF FindClient(nick) \in Clients /\ ~Has("nick_clash")
    THEN Numeric(r, c, "433", "", nick)
  ELSE Welcome(Updated(r, c, [nick |-> nick]), c)

UserCommand(r, c, args) ==
  IF client[c].reg /\ ~Has("user_again") THEN Numeric(r, c, "462", "", "")
  ELSE IF Len(args) < 4 THEN Numeric(r, c, "461", "", "USER")
  ELSE Welcome(Updated(r, c, [user |-> Word(args, 1), real |-> Word(args, 4)]), c)

-----------------------------------------------------------------------------
(* Queries *)

Present(k) == SelectSeq(ClientOrder, LAMBDA d : d \in k)

\* The channel a client is shown in, "*" if it is in none.
ShownIn(d) ==
  LET in == SelectSeq(ChannelOrder, LAMBDA ch : ch \in client[d].channels)
  IN  IF in = <<>> THEN "*" ELSE in[1]

\* The user and the real name in a 352: the nick for both, as the unit tests want it.
\* To report what registration gave is a fault for them alone: test_12_who.py:59 calls
\* the field the user.
WhoIdentity(d) ==
  IF Has("who_shows_username") THEN <<client[d].user, client[d].real>>
                               ELSE <<client[d].nick, client[d].nick>>

WhoReply(r, c, d, ch) ==
  LET flags == IF d \in K(r, ch).ops /\ ~Has("who_hides_ops") THEN "H@" ELSE "H"
  IN  [Line({c}, "352", "server", ch, d, flags) EXCEPT !.msg.names = {WhoIdentity(d)}]

\* The clients a WHO shows, one reply each.
WhoShown(r, c, args) ==
  LET what   == Word(args, 1)
      who    == IF args = <<>> THEN listed \cap Clients
                ELSE IF IsChannelName(what) THEN K(r, what).members
                ELSE {FindClient(what)} \cap Clients
      shown  == {d \in who : ~Has("who_channels_only") \/ client[d].channels # {}}
      place(d) == IF IsChannelName(what) THEN what ELSE ShownIn(d)
      order  == Present(shown)
  IN  [r EXCEPT !.out = @ \o [i \in DOMAIN order |->
                                WhoReply(r, c, order[i], place(order[i]))]]

Who(r, c, args) ==
  LET what == Word(args, 1)
      all  == WhoShown(r, c, args)
  IN  CASE args = <<>>         -> Numeric(all, c, "315", "", c)
        [] IsChannelName(what) -> Numeric(all, c, "315", what, "")
        [] OTHER               -> Numeric(all, c, "315", "", FindClient(what))

Whois(r, c, args) ==
  LET d     == FindClient(Word(args, 1))
      cl    == client[d]
      chans == IF Has("whois_hides_channels") THEN {}
               ELSE {<<IF d \in K(r, ch).ops THEN "@" ELSE "", ch>> : ch \in cl.channels}
      user  == [r EXCEPT !.out = Append(@, [to |-> {c},
                  msg |-> [cmd |-> "311", from |-> "server", chan |-> "", nick |-> d,
                           text |-> cl.real, names |-> {<<"", cl.user>>}]])]
      all   == [user EXCEPT !.out = Append(@, [to |-> {c},
                  msg |-> [cmd |-> "319", from |-> "server", chan |-> "", nick |-> d,
                           text |-> "", names |-> chans]])]
      idle  == IF Has("idle_untold") THEN 0 ELSE clock - cl.last
  IN  IF args = <<>> THEN Numeric(r, c, "431", "", "")
      ELSE IF d \notin Clients THEN Numeric(r, c, "401", "", d)
      ELSE Numeric(Tell(all, {c}, "317", "server", "", d, ToString(idle)),
                   c, "318", "", d)

ListReply(r, c, ch) ==
  LET k == r.chan[ch] IN
  Line({c}, "322", "server", ch,
       ToString(IF Has("list_counts_none") THEN 0
                ELSE Cardinality(k.members) + (IF Has("list_counts_more") THEN 1 ELSE 0)),
       k.topic)

ListCommand(r, c, args) ==
  LET shown == SelectSeq(ChannelOrder, LAMBDA ch :
                 ch \in listed /\ (args = <<>> \/ Has("list_unfiltered")
                                   \/ \E i \in DOMAIN args[1] : args[1][i] = ch))
  IN  Numeric([Numeric(r, c, "321", "", "")
                 EXCEPT !.out = @ \o [i \in DOMAIN shown |-> ListReply(r, c, shown[i])]],
              c, "323", "", "")

-----------------------------------------------------------------------------
(* The rest *)

Quit(r, c, args) ==
  IF Has("quit_ignored") THEN r
  ELSE Updated(r, c, [marked |-> TRUE,
                        quit |-> IF Has("quit_message_lost") THEN "" ELSE Word(args, 1)])

Ping(r, c, args) ==
  IF args = <<>> THEN Numeric(r, c, "409", "", "")
  ELSE Tell(r, {c}, "PONG", "", "", "", Word(args, IF Has("pong_last") THEN Len(args) ELSE 1))

Pong(r, c) == IF Has("pong_ignored") THEN r ELSE Updated(r, c, [last |-> clock])

Unknown(r, c, verb) ==
  IF Has("unknown_ignored") THEN r ELSE Numeric(r, c, "421", "", verb)

\* Variant: a JOIN is not recorded in the client.
FollowedOut(r) ==
  [r EXCEPT !.client = [d \in Clients |->
     [r.client[d] EXCEPT !.channels =
        @ \ {ch \in Channels : d \notin r.chan[ch].members /\ d \in chan[ch].members}]]]

\* A client's own list of channels follows the channels' lists of members.
Followed(r) ==
  [r EXCEPT !.client = [d \in Clients |->
     [r.client[d] EXCEPT !.channels =
        (@ \cup {ch \in Channels : d \in r.chan[ch].members /\ d \notin chan[ch].members})
        \ (IF Has("channels_not_left") THEN {}
           ELSE {ch \in Channels : d \notin r.chan[ch].members
                                   /\ d \in chan[ch].members})]]]

\* NAMES without arguments lists every channel.
Completed(cmd) ==
  IF cmd.verb = "NAMES" /\ cmd.chans = <<>>
    THEN [cmd EXCEPT !.chans = SelectSeq(ChannelOrder, LAMBDA ch : ch \in listed)]
    ELSE cmd

\* What execute() of this command does, or what the parser says of it.
Executed(verb, c, args) ==
  LET r == [chan |-> chan, client |-> client, out |-> <<>>] IN
  CASE verb = "PASS"  -> {Pass(r, c, args)}
    [] verb = "NICK"  -> {Nick(r, c, args)}
    [] verb = "USER"  -> {UserCommand(r, c, args)}
    [] verb = "WHO"   -> {Who(r, c, args)}
    [] verb = "WHOIS" -> {Whois(r, c, args)}
    [] verb = "LIST"  -> {ListCommand(r, c, args)}
    [] verb = "QUIT"  -> {Quit(r, c, args)}
    [] verb = "PING"  -> {Ping(r, c, args)}
    [] verb = "PONG"  -> {Pong(r, c)}
    [] verb = "" /\ ~Has("empty_unknown") -> {r}
    [] verb \in {"JOIN", "PART", "NAMES", "TOPIC", "KICK", "INVITE", "MODE",
                 "PRIVMSG", "NOTICE"} ->
         {Followed(React(r, c, cmd)) :
            cmd \in Meanings(c, Completed(CommandOf(verb, args)))}
    [] OTHER          -> {Unknown(r, c, verb)}

\* execute(): replies are sent, channels made, and channels left empty deleted.
Execute(verb, c, args) ==
  \E r \in Executed(verb, c, args) :
    LET emptied == IF Has("empty_channel_kept") THEN {}
                   ELSE {ch \in Channels : chan[ch].members # {} /\ r.chan[ch].members = {}}
        made    == {ch \in Channels \ listed : r.chan[ch].members # {}}
    IN  /\ chan' = r.chan
        /\ client' = r.client
        /\ received' = Deliver(received, r.out, r.client)
        /\ live' = (live \cup made) \ emptied
        /\ freed' = freed \cup emptied
        /\ listed' = (listed \cup made) \ emptied

\* Server::removeClient: out of its channels and of the server, and deleted.
removeClient(c) ==
  /\ chan' = [ch \in Channels |->
                IF c \in chan[ch].members /\ ~Has("removed_stays")
                  THEN Without(chan[ch], c) ELSE chan[ch]]
  /\ live' = live \ {c}
  /\ freed' = freed \cup {c}
  /\ listed' = listed \ {c}
  /\ client' = [client EXCEPT ![c] = NewClient]
  /\ received' = [received EXCEPT ![c] = <<>>]

-----------------------------------------------------------------------------
(* Channel and Client, called directly *)

Supported == {"i", "k", "l", "n", "t"}
Calls == {"addMember", "removeMember", "addOperator", "removeOperator", "addInvitedUser",
          "removeInvitedUser", "setTopic", "setKey", "setLimit", "+mode", "-mode"}

\* The channel after a call of one of its methods.
Called(k, call, arg) ==
  CASE call = "addMember"      -> [k EXCEPT !.members = @ \cup {arg}]
    [] call = "removeMember"   -> [k EXCEPT !.members = @ \ {arg}, !.ops = @ \ {arg}]
    [] call = "addOperator"    -> [k EXCEPT !.ops = @ \cup {arg}]
    [] call = "removeOperator" ->
         IF Has("unset_ignored") THEN k ELSE [k EXCEPT !.ops = @ \ {arg}]
    [] call = "addInvitedUser"    -> [k EXCEPT !.invited = @ \cup {arg}]
    [] call = "removeInvitedUser" ->
         IF Has("invitation_stays") THEN k ELSE [k EXCEPT !.invited = @ \ {arg}]
    [] call = "setTopic" -> [k EXCEPT !.topic = arg]
    [] call = "setKey"   -> [k EXCEPT !.key = arg]
    [] call = "setLimit" -> [k EXCEPT !.limit = arg]
    [] call = "+mode" ->
         IF arg \in Supported \/ Has("any_mode_kept")
           THEN [k EXCEPT !.flags = @ \cup {arg}] ELSE k
    [] call = "-mode" ->
         IF Has("unset_ignored") THEN k ELSE [k EXCEPT !.flags = @ \ {arg}]

\* Channel::broadcast to every member but one.
BroadcastTo(ch, text, but) ==
  LET told == chan[ch].members \ (IF Has("exclude_ignored") THEN {} ELSE {but})
  IN  received' = [c \in Clients |-> IF c \notin told THEN received[c]
                     ELSE sendMessage(received[c], <<Message("", "", "", "", text, {}, "")>>)]

\* The receive buffer is a sequence of pieces of text, "CR" and "LF": the first
\* line, and what is left; no line without an LF.
FirstLine(in) ==
  LET lf    == SelectInSeq(in, LAMBDA w : w = "LF")
      crlf  == lf > 1 /\ in[lf - 1] = "CR"
      end   == IF crlf /\ ~Has("cr_kept") THEN lf - 1 ELSE lf
      found == lf # 0 /\ (crlf \/ ~Has("lf_ignored"))
  IN  CASE found -> [line |-> SubSeq(in, 1, end - 1), rest |-> SubSeq(in, lf + 1, Len(in))]
        [] ~found /\ Has("partial_line_read") -> [line |-> in, rest |-> <<>>]
        [] OTHER -> [line |-> <<>>, rest |-> in]

\* removeSentData: at most what is there.
Unsent(out, n) ==
  IF Has("sent_kept") THEN out ELSE SubSeq(out, n + 1, Len(out))
=============================================================================
