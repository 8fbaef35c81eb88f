----------------------------- MODULE IRCCommands -----------------------------
(***************************************************************************)
(* The channel commands of the server under test, which is not in this      *)
(* repository: what the integration tests and the unit tests say a          *)
(* conforming ft_irc does with them, and one way at a time (`fault') in     *)
(* which it could be wrong. Pure reactions: IRCServer puts them behind      *)
(* connections, UnitServer behind direct calls of execute().                *)
(***************************************************************************)
EXTENDS Integers, Sequences, FiniteSets, SequencesExt, TLC

CONSTANTS Clients,   \* the registered clients
          Channels   \* the channel names the tests use

ASSUME FinitelyMany == IsFiniteSet(Clients) /\ IsFiniteSet(Channels)

VARIABLES chan,      \* the channels
          fault      \* what this server does wrong, or "none"

\* A channel nobody is in does not exist.
NoChannel == [members |-> {}, ops |-> {}, invited |-> {}, flags |-> {},
              key |-> "", limit |-> 0, topic |-> ""]

Has(f) == fault = f

\* A sequence, of whatever.
IsList(s) == s \in Seq({s[i] : i \in DOMAIN s})

-----------------------------------------------------------------------------
(* A reaction r: the channels so far, and the messages written so far *)

Line(who, cmd, from, ch, nick, text) ==
  [to |-> who, msg |-> [cmd |-> cmd, from |-> from, chan |-> ch, nick |-> nick,
                        text |-> text, names |-> {}]]

Tell(r, who, cmd, from, ch, nick, text) ==
  [r EXCEPT !.out = Append(@, Line(who, cmd, from, ch, nick, text))]

Numeric(r, c, code, ch, nick) ==
  IF Has("mute_" \o SubSeq(code, 1, 1)) THEN r
  ELSE Tell(r, {c}, code, "server", ch, nick, "")

Set(r, ch, k) == [r EXCEPT !.chan[ch] = k]

\* A name no test creates a channel with names no channel.
K(r, ch) == IF ch \in Channels THEN r.chan[ch] ELSE NoChannel

Exists(r, ch) == K(r, ch).members # {}

Without(k, c) ==
  IF k.members = {c} THEN NoChannel
  ELSE [k EXCEPT !.members = @ \ {c}, !.ops = @ \ {c}]

\* 353 to members only, then 366: "definitely not a valid NAMES list" for
\* someone who is not in the channel (test_10_kick.py:69).
Names(r, c, ch) ==
  LET k    == K(r, ch)
      list == {<<IF m \in k.ops /\ ~Has("ops_unmarked") THEN "@" ELSE "", m>> :
                m \in k.members}
      r353 == [r EXCEPT !.out = Append(@, [to |-> {c},
                 msg |-> [cmd |-> "353", from |-> "server", chan |-> ch,
                          nick |-> "", text |-> "", names |-> list]])]
  IN  Numeric(IF c \in k.members THEN r353 ELSE r, c, "366", ch, "")

TopicReply(r, c, ch) ==
  Tell(r, {c}, IF r.chan[ch].topic = "" THEN "331" ELSE "332", "server", ch, "",
       r.chan[ch].topic)

Refusal(k, c, key) ==
  IF "i" \in k.flags /\ c \notin k.invited /\ ~Has("invite_only_ignored")
    THEN "473"
  ELSE IF k.key \notin {"", key} /\ ~Has("key_ignored") THEN "475"
  ELSE IF k.limit # 0 /\ Cardinality(k.members) >= k.limit /\ ~Has("limit_ignored")
    THEN "471"
  ELSE "none"

JoinOne(r, c, ch, key) ==
  LET k      == r.chan[ch]
      joined == [k EXCEPT !.members = @ \cup {c}, !.invited = @ \ {c},
                   !.ops = IF k.members = {} /\ ~Has("creator_not_op")
                             THEN {c} ELSE @]
      told   == IF Has("join_untold") THEN {c} ELSE joined.members
  IN  IF c \in k.members THEN r
      ELSE IF Refusal(k, c, key) # "none"
        THEN Numeric(r, c, Refusal(k, c, key), ch, "")
      ELSE Names(TopicReply(Tell(Set(r, ch, joined), told, "JOIN", c, ch, "", ""),
                            c, ch), c, ch)

PartOne(r, c, ch) ==
  LET k    == r.chan[ch]
      told == IF Has("part_untold") THEN {c} ELSE k.members
      left == IF Has("part_keeps") THEN r ELSE Set(r, ch, Without(k, c))
  IN  IF c \notin k.members THEN Numeric(r, c, "442", ch, "")
      ELSE Tell(left, told, "PART", c, ch, "", "")

\* The topic given as an empty string: it is removed.
Blank == "(blank)"

Topic(r, c, cmd) ==
  LET ch == cmd.chans[1]
      k  == K(r, ch)
  IN  IF cmd.chans = <<>> THEN Numeric(r, c, "461", "", "TOPIC")
      ELSE IF ~Exists(r, ch) THEN Numeric(r, c, "403", ch, "")
      ELSE IF c \notin k.members /\ ~Has("outsider_topic")
        THEN Numeric(r, c, "442", ch, "")
      ELSE IF cmd.text = "" THEN TopicReply(r, c, ch)
      ELSE IF "t" \in k.flags /\ c \notin k.ops /\ ~Has("topic_unprotected")
        THEN Numeric(r, c, "482", ch, "")
      ELSE Tell(IF Has("topic_not_kept") THEN r
                  ELSE Set(r, ch, [k EXCEPT !.topic =
                                     IF cmd.text = Blank THEN "" ELSE cmd.text]),
                IF Has("topic_untold") THEN {c} ELSE k.members,
                "TOPIC", c, ch, "", cmd.text)

KickOne(r, c, ch, nick, text) ==
  LET k == r.chan[ch] IN
  IF nick \notin Clients THEN Numeric(r, c, "401", "", nick)
  ELSE IF nick \notin k.members THEN Numeric(r, c, "441", ch, nick)
  ELSE Tell(IF Has("kick_keeps") THEN r ELSE Set(r, ch, Without(k, nick)),
            IF Has("kick_untold") THEN {c} ELSE k.members, "KICK", c, ch, nick, text)

\* A command with several targets, in the order of its list.
One(r, c, cmd, target) ==
  CASE cmd.verb = "JOIN"  -> JoinOne(r, c, target, cmd.key)
    [] cmd.verb = "PART"  -> PartOne(r, c, target)
    [] cmd.verb = "NAMES" -> Names(r, c, target)
    [] cmd.verb = "KICK"  -> KickOne(r, c, cmd.chans[1], target, cmd.text)

Each(r, c, cmd, targets) ==
  FoldLeft(LAMBDA q, target : One(q, c, cmd, target), r, targets)

Kick(r, c, cmd) ==
  LET ch == cmd.chans[1] IN
  IF cmd.nicks = <<>> THEN Numeric(r, c, "461", "", "KICK")
  ELSE IF ~Exists(r, ch) THEN Numeric(r, c, "403", ch, "")
  ELSE IF c \notin r.chan[ch].ops /\ ~Has("anyone_is_op")
    THEN Numeric(IF Has("kick_anyway")
                   THEN Set(r, ch, Without(r.chan[ch], cmd.nicks[1])) ELSE r,
                 c, "482", ch, "")
  ELSE Each(r, c, cmd, cmd.nicks)

Invite(r, c, cmd) ==
  LET nick == cmd.nicks[1]
      ch   == cmd.chans[1]
      k    == K(r, ch)
      sent == Tell(IF Has("invitation_void") THEN r
                     ELSE Set(r, ch, [k EXCEPT !.invited = @ \cup {nick}]),
                   {nick}, "INVITE", c, ch, nick, "")
  IN  IF cmd.chans = <<>> THEN Numeric(r, c, "461", "", "INVITE")
      ELSE IF nick \notin Clients THEN Numeric(r, c, "401", "", nick)
      ELSE IF ~Exists(r, ch) THEN Numeric(r, c, "403", ch, "")
      ELSE IF c \notin k.members /\ ~Has("outsider_invites")
        THEN Numeric(r, c, "442", ch, "")
      ELSE IF nick \in k.members THEN Numeric(r, c, "443", ch, nick)
      ELSE IF "i" \in k.flags /\ c \notin k.ops /\ ~Has("anyone_invites")
        THEN Numeric(r, c, "482", ch, "")
      ELSE IF Has("invite_confirmed") THEN Numeric(sent, c, "341", ch, nick)
      ELSE sent

Sign(cmd)   == SubSeq(cmd.text, 1, 1)
Letter(cmd) == SubSeq(cmd.text, 2, 2)

\* The channel after a mode change.
Changed(k, cmd) ==
  LET on    == Sign(cmd) = "+"
      flags == IF Letter(cmd) = "o" THEN k.flags
               ELSE IF on THEN k.flags \cup {Letter(cmd)}
               ELSE k.flags \ {Letter(cmd)}
      k1    == [k EXCEPT !.flags = flags]
  IN  CASE Has("unset_ignored") /\ ~on            -> k
        [] Has("op_ignored") /\ cmd.text = "+o"   -> k
        [] Has("flag_ignored") /\ on /\ Letter(cmd) # "o" -> k
        [] Letter(cmd) = "o" ->
             [k EXCEPT !.ops = IF on THEN @ \cup {cmd.nicks[1]}
                                     ELSE @ \ {cmd.nicks[1]}]
        [] Letter(cmd) = "k" -> [k1 EXCEPT !.key = IF on THEN cmd.key ELSE NoChannel.key]
        [] Letter(cmd) = "l" ->
             [k1 EXCEPT !.limit = IF on THEN cmd.limit ELSE NoChannel.limit]
        [] OTHER -> k1

\* What the announcement says after the mode: the nick, the new key or limit.
Parameter(cmd) ==
  CASE cmd.nicks # <<>>  -> cmd.nicks[1]
    [] cmd.text = "+k"   -> cmd.key
    [] cmd.text = "+l"   -> ToString(cmd.limit)
    [] OTHER             -> ""

Mode(r, c, cmd) ==
  LET ch == cmd.chans[1]
      k  == K(r, ch)
  IN  IF cmd.chans = <<>> THEN Numeric(r, c, "461", "", "MODE")
      ELSE IF c \notin k.ops /\ ~Has("anyone_is_op")
        THEN Numeric(r, c, "482", ch, "")
      ELSE IF Letter(cmd) = "o" /\ cmd.nicks = <<>>
        THEN Numeric(r, c, "461", "", "MODE")
      ELSE IF Letter(cmd) \notin {"o", "k", "l", "i", "t", "n"}
        THEN Numeric(r, c, "472", ch, Letter(cmd))
      ELSE IF cmd.nicks # <<>> /\ cmd.nicks[1] \notin Clients
        THEN Numeric(r, c, "401", "", cmd.nicks[1])
      ELSE IF cmd.nicks # <<>> /\ cmd.nicks[1] \notin k.members
              /\ ~Has("outsider_opped")
        THEN Numeric(r, c, "441", ch, cmd.nicks[1])
      ELSE IF cmd.text = "-k" /\ cmd.key # k.key /\ ~Has("wrong_key_unsets") THEN r
      ELSE Tell(Set(r, ch, Changed(k, cmd)),
                IF Has("mode_untold") THEN {c} ELSE k.members,
                "MODE", c, ch, Parameter(cmd), cmd.text)

Lost(cmd) ==
  \/ Has("notice_lost") /\ cmd.verb = "NOTICE"
  \/ Has("privmsg_lost") /\ cmd.verb = "PRIVMSG"
  \/ Has("bulk_lost") /\ cmd.text = "m2"

Echoed(cmd) ==
  \/ Has("notice_echoed") /\ cmd.verb = "NOTICE"
  \/ Has("privmsg_echoed") /\ cmd.verb = "PRIVMSG"

ToNick(r, c, cmd) ==
  IF cmd.verb = "NOTICE" /\ cmd.text = ""
    THEN IF Has("notice_answered") THEN Numeric(r, c, "461", "", "NOTICE") ELSE r
  ELSE IF cmd.nicks[1] \in Clients
    THEN IF Lost(cmd) THEN r
         ELSE Tell(r, {cmd.nicks[1]}, cmd.verb, c, "", cmd.nicks[1], cmd.text)
  ELSE IF cmd.verb = "PRIVMSG" \/ Has("notice_answered")
    THEN Numeric(r, c, "401", "", cmd.nicks[1])
  ELSE r

ToChannel(r, c, cmd) ==
  LET ch   == cmd.chans[1]
      k    == K(r, ch)
      told == IF Echoed(cmd) THEN k.members ELSE k.members \ {c}
  IN  IF c \notin k.members /\ (k.members = {} \/ "n" \in k.flags \/ Has("externals_refused"))
           /\ ~Has("externals_heard")
        THEN IF cmd.verb = "PRIVMSG" \/ Has("notice_answered")
               THEN Numeric(r, c, IF k.members = {} THEN "403" ELSE "404", ch, "")
               ELSE r
      ELSE IF Lost(cmd) THEN r
      ELSE Tell(r, told, cmd.verb, c, ch, "", cmd.text)

-----------------------------------------------------------------------------
(* The server takes a command *)

React(r, c, cmd) ==
  CASE cmd.verb \in {"JOIN", "PART", "NAMES"} ->
         IF Has("first_target_only") THEN One(r, c, cmd, cmd.chans[1])
                                     ELSE Each(r, c, cmd, cmd.chans)
    [] cmd.verb = "TOPIC" -> Topic(r, c, cmd)
    [] cmd.verb = "KICK" ->
         Kick(r, c, IF Has("first_target_only") /\ cmd.nicks # <<>>
                      THEN [cmd EXCEPT !.nicks = SubSeq(@, 1, 1)] ELSE cmd)
    [] cmd.verb = "INVITE" -> Invite(r, c, cmd)
    [] cmd.verb = "MODE" -> Mode(r, c, cmd)
    [] cmd.verb \in {"PRIVMSG", "NOTICE"} ->
         IF cmd.chans = <<>> THEN ToNick(r, c, cmd) ELSE ToChannel(r, c, cmd)

\* JOIN 0 parts every channel of the client, in an order of the server's.
Meanings(c, cmd) ==
  IF cmd.verb = "JOIN" /\ cmd.chans = <<"0">>
    THEN {[cmd EXCEPT !.verb = "PART", !.chans = order] :
            order \in SetToSeqs({ch \in Channels : c \in chan[ch].members})}
    ELSE {cmd}
=============================================================================
