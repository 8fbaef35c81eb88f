----------------------------- MODULE IRCServer ------------------------------
(***************************************************************************)
(* The server under test behind its connections, as the integration tests   *)
(* meet it: each connection is a FIFO channel, and the server takes the     *)
(* next command of whichever connection it likes. Here are also the         *)
(* commands only these tests use, and what the server does unasked: it      *)
(* sends a PING to an idle client and closes a connection that stays        *)
(* silent.                                                                  *)
(***************************************************************************)
EXTENDS IRCCommands

CONSTANTS PingTimeout,  \* seconds of idleness after which a client is asked
          PongTimeout   \* seconds after which it is taken for dead

ASSUME TimeoutAssumption == PingTimeout \in Nat \ {0} /\ PongTimeout \in Nat \ {0}

VARIABLES toServer,  \* commands each client sent, not yet taken
          inbox,     \* messages written to each client, not yet received
          login,     \* what each connection said of itself
          gone,      \* connections the server has closed
          clock,     \* seconds
          timer      \* each connection: idle since when, and asked with a PING?

serverVars == <<chan, toServer, inbox, fault, login, gone, clock, timer>>

Registered(nick) == [nick |-> nick, user |-> TRUE, auth |-> TRUE, reg |-> TRUE]
Connected        == [nick |-> "", user |-> FALSE, auth |-> FALSE, reg |-> FALSE]
Active           == [since |-> clock, asked |-> FALSE]

-----------------------------------------------------------------------------
(* Registration and QUIT. A reaction has r.login and r.gone here. *)

Welcome(r, c) ==
  LET l == r.login[c] IN
  IF ~l.auth \/ l.nick = "" \/ ~l.user \/ l.reg \/ Has("never_registers") THEN r
  ELSE Numeric(Numeric([r EXCEPT !.login[c].reg = TRUE], c, "001", "", c),
               c, "002", "", c)

Pass(r, c, cmd) ==
  IF cmd.text = "testpass" \/ Has("password_unchecked")
    THEN Welcome([r EXCEPT !.login[c].auth = TRUE], c)
  ELSE Numeric(r, c, "464", "", "")

Nick(r, c, cmd) ==
  IF (\E d \in Clients : r.login[d].nick = cmd.text) /\ ~Has("nick_clash")
    THEN Numeric(r, c, "433", "", cmd.text)
  ELSE Welcome([r EXCEPT !.login[c].nick = cmd.text], c)

NameUser(r, c) == Welcome([r EXCEPT !.login[c].user = TRUE], c)

\* Out of every channel, and everybody it shared one with is told.
Leave(r, c, text) ==
  LET shared == {d \in Clients \ {c} :
                   \E ch \in Channels : {c, d} \subseteq r.chan[ch].members}
      left   == [r EXCEPT !.gone = @ \cup {c},
                   !.chan = [ch \in Channels |->
                      IF c \in r.chan[ch].members THEN Without(r.chan[ch], c)
                                                  ELSE r.chan[ch]]]
  IN  IF Has("quit_untold") THEN left ELSE Tell(left, shared, "QUIT", c, "", "", text)

-----------------------------------------------------------------------------
(* Queries *)

ChannelsOf(r, d) == {ch \in Channels : d \in r.chan[ch].members}

\* User and real name are left out: these tests register with their nick as
\* username (client_helper.py:117) and look at no real name.
WhoReply(r, c, ch, d) ==
  Line({c}, "352", "server", ch, d,
       IF d \in K(r, ch).ops /\ ~Has("who_hides_ops") THEN "H@" ELSE "H")

Who(r, c, cmd) ==
  LET named   == cmd.chans = <<>>
      who     == IF named THEN {cmd.nicks[1]} \cap Clients ELSE K(r, cmd.chans[1]).members
      shown   == {d \in who : ~Has("who_channels_only") \/ ChannelsOf(r, d) # {}}
      in(d)   == IF ~named THEN cmd.chans[1]
                 ELSE IF ChannelsOf(r, d) = {} THEN "*"
                 ELSE CHOOSE ch \in ChannelsOf(r, d) : TRUE
      order   == SetToSeq(shown)
      replies == [r EXCEPT !.out = @ \o [i \in DOMAIN order |->
                                           WhoReply(r, c, in(order[i]), order[i])]]
      end(q)  == IF named THEN Numeric(q, c, "315", "", cmd.nicks[1])
                 ELSE Numeric(q, c, "315", cmd.chans[1], "")
      error(q) == Numeric(q, c, "401", "", cmd.nicks[1])
  IN  CASE named /\ who = {} /\ Has("who_error_first") -> end(error(r))
        [] named /\ who = {} /\ Has("who_error_last")  -> error(end(r))
        [] OTHER -> end(replies)

\* The text of a 322 begins with the number of members, which stands as nick.
List(r, c, cmd) ==
  LET count(ch) == IF Has("list_counts_none") THEN 0 ELSE Cardinality(r.chan[ch].members)
      item(ch) == Line({c}, "322", "server", ch, ToString(count(ch)), r.chan[ch].topic)
      list     == SelectSeq(cmd.chans, LAMBDA ch : Exists(r, ch))
  IN  Numeric([Numeric(r, c, "321", "", "")
                 EXCEPT !.out = @ \o [i \in DOMAIN list |-> item(list[i])]],
              c, "323", "", "")

\* The 319 has the channels, and as text the one the list ends with.
Whois(r, c, cmd) ==
  LET d     == cmd.nicks[1]
      list  == IF Has("whois_hides_channels") THEN <<>> ELSE cmd.chans
      mark(ch) == IF d \in r.chan[ch].ops THEN "@" ELSE ""
      q     == Tell(r, {c}, "311", "server", "", d, "real name")
      q319  == [q EXCEPT !.out = Append(@, [to |-> {c},
                  msg |-> [cmd |-> "319", from |-> "server", chan |-> "", nick |-> d,
                           text |-> IF list = <<>> THEN "" ELSE list[Len(list)],
                           names |-> {<<mark(list[i]), list[i]>> : i \in DOMAIN list}]])]
  IN  IF d \notin Clients THEN Numeric(r, c, "401", "", d)
      ELSE Numeric(Numeric(q319, c, "317", "", d), c, "318", "", d)

-----------------------------------------------------------------------------
(* One command of one connection *)

Answer(r, c, cmd) ==
  CASE cmd.verb = "PASS" -> Pass(r, c, cmd)
    [] cmd.verb = "NICK" -> Nick(r, c, cmd)
    [] cmd.verb = "USER" -> NameUser(r, c)
    [] cmd.verb = "QUIT" -> IF Has("quit_ignored") THEN r ELSE Leave(r, c, cmd.text)
    [] cmd.verb = "PING" ->
         Tell(r, {c}, "PONG", "server", "", "", IF Has("token_lost") THEN "" ELSE cmd.text)
    [] cmd.verb = "PONG" -> r
    [] cmd.verb = "WHO"   -> Who(r, c, cmd)
    [] cmd.verb = "LIST"  -> List(r, c, cmd)
    [] cmd.verb = "WHOIS" -> Whois(r, c, cmd)
    [] OTHER -> React(r, c, cmd)

\* The channels a command is about though it does not name them.
Implied(c, cmd) ==
  CASE cmd.verb = "WHOIS" -> ChannelsOf([chan |-> chan], cmd.nicks[1])
    [] cmd.verb \in {"LIST", "NAMES"} -> {ch \in Channels : chan[ch].members # {}}
    [] OTHER -> {}

\* It lists them in any order.
Readings(c, cmd) ==
  IF \/ cmd.verb = "WHOIS"
     \/ cmd.verb \in {"LIST", "NAMES"} /\ cmd.chans = <<>>
     \/ cmd.verb = "LIST" /\ Has("list_unfiltered")
    THEN {[cmd EXCEPT !.chans = order] : order \in SetToSeqs(Implied(c, cmd))}
    ELSE Meanings(c, cmd)

\* A message as the client sees it: what caused it, and to whom it is addressed.
Stamped(msg, cause, to) ==
  [cmd |-> msg.cmd, from |-> msg.from, chan |-> msg.chan, nick |-> msg.nick,
   text |-> msg.text, names |-> msg.names, cause |-> cause, to |-> to]

\* Message o of a reaction, if it is for c, after those c got of it.
Delivered(mine, o, c, l, cause) ==
  LET star == o.msg.cmd = "433" /\ ~l.reg /\ ~Has("clash_addressed")
  IN  IF c \in o.to THEN Append(mine, Stamped(o.msg, cause, IF star THEN "*" ELSE ""))
      ELSE mine

Written(out, c, l, cause) ==
  FoldLeft(LAMBDA mine, o : Delivered(mine, o, c, l, cause), <<>>, out)

Write(r, cause) ==
  inbox' = [d \in Clients |-> inbox[d] \o Written(r.out, d, r.login[d], cause)]

Before == [chan |-> chan, login |-> login, gone |-> gone, out |-> <<>>]

Handle(c) ==
  /\ c \notin gone /\ toServer[c] # <<>>
  /\ LET first == Head(toServer[c]) IN
       /\ \E cmd \in Readings(c, first.cmd) :
            LET r == Answer(Before, c, cmd) IN
              /\ chan' = r.chan /\ login' = r.login /\ gone' = r.gone
              /\ Write(r, first.cause)
       /\ timer' = IF first.cmd.verb = "PONG" /\ Has("pong_ignored") THEN timer
                   ELSE [timer EXCEPT ![c] = Active]
  /\ toServer' = [toServer EXCEPT ![c] = Tail(@)]
  /\ UNCHANGED <<fault, clock>>

\* The server has taken all it was sent.
Quiescent == \A c \in Clients : c \in gone \/ toServer[c] = <<>>

-----------------------------------------------------------------------------
(* Unasked *)

\* It is time to ask this client, or to give it up.
Due(c) ==
  /\ c \notin gone
  /\ IF timer[c].asked THEN clock - timer[c].since >= PongTimeout /\ ~Has("zombie_kept")
     ELSE clock - timer[c].since >= PingTimeout /\ ~Has("never_pings")

AskIdle(c) ==
  /\ Due(c) /\ ~timer[c].asked
  /\ Write(Tell(Before, {c}, "PING", "server", "", "", "token"), 0)
  /\ timer' = [timer EXCEPT ![c] = [since |-> clock, asked |-> TRUE]]
  /\ UNCHANGED <<chan, toServer, fault, login, gone, clock>>

CloseIdle(c) ==
  /\ Due(c) /\ timer[c].asked
  /\ LET r == Leave(Before, c, "timeout") IN
       chan' = r.chan /\ gone' = r.gone /\ Write(r, 0)
  /\ UNCHANGED <<toServer, fault, login, clock, timer>>

\* Nothing left for the server to do before the next second.
Settled == Quiescent /\ \A c \in Clients : ~Due(c)
=============================================================================
