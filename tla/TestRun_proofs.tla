---------------------------- MODULE TestRun_proofs ----------------------------
(***************************************************************************)
(* Proofs about TestRun, for every suite of well-formed tests, all clients  *)
(* and channels, every fault and every order in which the server serves the *)
(* connections. First the types: who is in a channel is connected,          *)
(* operators are members, and no message is older or newer than it can be.  *)
(* Then, from what a conforming server may write about a command and in     *)
(* which order, that the waits of a separated test (TestWaits) are never    *)
(* met by the answer to an older command.                                   *)
(***************************************************************************)
EXTENDS TestWaits, IRCCommands_proofs

-----------------------------------------------------------------------------
(* Lists *)

Elems(s) == {s[i] : i \in DOMAIN s}

\* A sequence over a set is a list of elements of the set.
LEMMA SeqIsList ==
  ASSUME NEW S, NEW s \in Seq(S)
  PROVE  IsList(s) /\ Elems(s) \subseteq S
<1>1. Len(s) \in Nat /\ s \in [1 .. Len(s) -> S]
  OBVIOUS
<1>2. s \in [1 .. Len(s) -> Elems(s)]
  BY <1>1 DEF Elems
<1>3. s \in Seq(Elems(s))
  BY <1>1, <1>2
<1> QED
  BY <1>1, <1>3 DEF IsList, Elems

\* A list is a sequence over any set that has its elements.
LEMMA ListIsSeq ==
  ASSUME NEW s, IsList(s), NEW S, Elems(s) \subseteq S
  PROVE  s \in Seq(S)
<1>1. s \in Seq(Elems(s))
  BY DEF IsList, Elems
<1> HIDE DEF Elems
<1>2. Len(s) \in Nat /\ s \in [1 .. Len(s) -> Elems(s)]
  BY <1>1
<1>3. s \in [1 .. Len(s) -> S]
  BY <1>2
<1> QED
  BY <1>2, <1>3

\* One element more.
LEMMA AppendList ==
  ASSUME NEW s, IsList(s), NEW x
  PROVE  IsList(Append(s, x)) /\ Elems(Append(s, x)) \subseteq Elems(s) \cup {x}
<1> DEFINE S == Elems(s) \cup {x}
<1>1. s \in Seq(S) /\ x \in S
  BY ListIsSeq
<1> HIDE DEF S
<1>2. Append(s, x) \in Seq(S)
  BY <1>1
<1> QED
  BY <1>2, SeqIsList DEF S

\* Several elements more.
LEMMA ConcatList ==
  ASSUME NEW s, IsList(s), NEW t, NEW n \in Nat, t = [i \in 1 .. n |-> t[i]]
  PROVE  IsList(s \o t) /\ Elems(s \o t) \subseteq Elems(s) \cup {t[i] : i \in 1 .. n}
<1> DEFINE S == Elems(s) \cup {t[i] : i \in 1 .. n}
<1>1. s \in Seq(S)
  BY ListIsSeq
<1>2. t \in [1 .. n -> S]
  OBVIOUS
<1> HIDE DEF S
<1>3. t \in Seq(S)
  BY <1>2
<1>4. s \o t \in Seq(S)
  BY <1>1, <1>3
<1> QED
  BY <1>4, SeqIsList DEF S

\* Without the first elements.
LEMMA SuffixList ==
  ASSUME NEW s, IsList(s), NEW n \in 0 .. Len(s)
  PROVE  IsList(SubSeq(s, n + 1, Len(s))) /\ Elems(SubSeq(s, n + 1, Len(s))) \subseteq Elems(s)
<1> DEFINE S == Elems(s)
<1>1. s \in Seq(S)
  BY ListIsSeq
<1> HIDE DEF S
<1>2. Len(s) \in Nat /\ s \in [1 .. Len(s) -> S]
  BY <1>1
<1>3. SubSeq(s, n + 1, Len(s)) \in Seq(S)
  BY <1>1, <1>2
<1> QED
  BY <1>3, SeqIsList DEF S

\* Without the first.
LEMMA TailList ==
  ASSUME NEW s, IsList(s), s # <<>>
  PROVE  /\ IsList(Tail(s)) /\ Elems(Tail(s)) \subseteq Elems(s) /\ Head(s) \in Elems(s)
<1> DEFINE S == Elems(s)
<1>1. s \in Seq(S)
  BY ListIsSeq
<1> HIDE DEF S
<1>2. Tail(s) \in Seq(S) /\ Head(s) \in S
  BY <1>1
<1> QED
  BY <1>2, SeqIsList DEF S

\* One element more, position by position.
LEMMA AppendAt ==
  ASSUME NEW s, IsList(s), NEW x
  PROVE  /\ IsList(Append(s, x)) /\ Len(s) \in Nat /\ DOMAIN s = 1 .. Len(s)
         /\ DOMAIN Append(s, x) = 1 .. Len(s) + 1 /\ Append(s, x)[Len(s) + 1] = x
         /\ \A i \in 1 .. Len(s) : Append(s, x)[i] = s[i]
<1> DEFINE S == {s[i] : i \in DOMAIN s} \cup {x}
<1>1. s \in Seq(S)
  BY DEF IsList
<1>2. x \in S
  OBVIOUS
<1>3. IsList(Append(s, x))
  BY AppendIsList
<1> HIDE DEF S
<1> QED
  BY <1>1, <1>2, <1>3

\* A list after a list, position by position.
LEMMA ConcatAt ==
  ASSUME NEW s, IsList(s), NEW t, IsList(t)
  PROVE  /\ IsList(s \o t) /\ Elems(s \o t) \subseteq Elems(s) \cup Elems(t)
         /\ DOMAIN s = 1 .. Len(s) /\ DOMAIN t = 1 .. Len(t)
         /\ Len(s) \in Nat /\ Len(t) \in Nat /\ DOMAIN (s \o t) = 1 .. Len(s) + Len(t)
         /\ \A i \in 1 .. Len(s) : (s \o t)[i] = s[i]
         /\ \A i \in 1 .. Len(t) : (s \o t)[Len(s) + i] = t[i]
<1> DEFINE S == Elems(s) \cup Elems(t)
<1>1. s \in Seq(S) /\ t \in Seq(S)
  BY ListIsSeq
<1> HIDE DEF S
<1>2. s \o t \in Seq(S)
  BY <1>1
<1>3. IsList(s \o t) /\ Elems(s \o t) \subseteq S
  BY <1>2, SeqIsList
<1> QED
  BY <1>1, <1>3 DEF S

-----------------------------------------------------------------------------
(* What the server makes of a command *)

\* A reaction so far has said something, and the channels and connections are as
\* they were.
Speaks(r) ==
  /\ IsReaction(r) /\ {"login", "gone"} \subseteq DOMAIN r
  /\ r.chan = chan /\ r.gone = gone

SoundChannels(r) == IsReaction(r) /\ \A ch \in Channels : Sound(r.chan[ch])

\* Nobody but c comes into a channel or goes, and c is in none when it is gone.
Obeys(r, c) ==
  /\ SoundChannels(r)
  /\ \A ch \in Channels : r.chan[ch].members \subseteq chan[ch].members \cup {c}
  /\ \/ r.gone = gone
     \/ r.gone = gone \cup {c} /\ \A ch \in Channels : c \notin r.chan[ch].members

\* To write is to say something.
LEMMA SaysSpeaks ==
  ASSUME NEW r, NEW q, Speaks(r), Says(r, q)
  PROVE  Speaks(q)
  BY DEF Speaks, Says, Kept

\* A numeric reply is.
LEMMA NumericSpeaks ==
  ASSUME NEW r, Speaks(r), NEW c, NEW code, NEW ch, NEW nick
  PROVE  Speaks(Numeric(r, c, code, ch, nick))
  BY NumericSays, SaysSpeaks DEF Speaks

\* So is a message.
LEMMA TellSpeaks ==
  ASSUME NEW r, Speaks(r), NEW who, NEW cmd, NEW from, NEW ch, NEW nick, NEW text
  PROVE  Speaks(Tell(r, who, cmd, from, ch, nick, text))
  BY TellSays, SaysSpeaks DEF Speaks

\* So is a message given in full.
LEMMA AppendSpeaks ==
  ASSUME NEW r, Speaks(r), NEW x
  PROVE  Speaks([r EXCEPT !.out = Append(@, x)])
  BY AppendSays, SaysSpeaks DEF Speaks

\* So are several.
LEMMA ConcatSpeaks ==
  ASSUME NEW r, Speaks(r), NEW t, NEW n \in Nat, t = [i \in 1 .. n |-> t[i]]
  PROVE  Speaks([r EXCEPT !.out = @ \o t])
<1>1. Says(r, [r EXCEPT !.out = @ \o t])
  BY ConcatSays DEF Speaks
<1> QED
  BY <1>1, SaysSpeaks

\* What a connection says of itself changes no channel.
LEMMA LoginSpeaks ==
  ASSUME NEW r, Speaks(r), NEW l
  PROVE  Speaks([r EXCEPT !.login = l])
  BY DEF Speaks, IsReaction

\* The welcome changes no channel.
LEMMA WelcomeSpeaks ==
  ASSUME NEW r, Speaks(r), NEW c
  PROVE  Speaks(Welcome(r, c))
<1> DEFINE new == [r.login EXCEPT ![c].reg = TRUE]
           q   == [r EXCEPT !.login = new]
<1>1. Speaks(q)
  <2> HIDE DEF new
  <2> QED
    BY LoginSpeaks
<1>2. Welcome(r, c) \in
        {r, Numeric(Numeric(q, c, "001", "", c), c, "002", "", c)}
  BY Zenon DEF Welcome
<1> HIDE DEF q
<1> QED
  BY <1>1, <1>2, NumericSpeaks, Zenon

\* PASS, NICK and USER change no channel.
LEMMA RegistrationSpeaks ==
  ASSUME NEW r, Speaks(r), NEW c, NEW cmd
  PROVE  Speaks(Pass(r, c, cmd)) /\ Speaks(Nick(r, c, cmd)) /\ Speaks(NameUser(r, c))
<1> DEFINE auth == [r.login EXCEPT ![c].auth = TRUE]
           nick == [r.login EXCEPT ![c].nick = cmd.text]
           user == [r.login EXCEPT ![c].user = TRUE]
<1>1. Speaks(Welcome([r EXCEPT !.login = auth], c))
  <2> HIDE DEF auth
  <2> QED
    BY LoginSpeaks, WelcomeSpeaks
<1>2. Speaks(Welcome([r EXCEPT !.login = nick], c))
  <2> HIDE DEF nick
  <2> QED
    BY LoginSpeaks, WelcomeSpeaks
<1>3. Speaks(Welcome([r EXCEPT !.login = user], c))
  <2> HIDE DEF user
  <2> QED
    BY LoginSpeaks, WelcomeSpeaks
<1>4. Speaks(Pass(r, c, cmd))
  BY <1>1, NumericSpeaks, Zenon DEF Pass
<1>5. Speaks(Nick(r, c, cmd))
  BY <1>2, NumericSpeaks, Zenon DEF Nick
<1>6. Speaks(NameUser(r, c))
  BY <1>3, Zenon DEF NameUser
<1> QED
  BY <1>4, <1>5, <1>6

\* Clients can be numbered.
LEMMA SetToSeqNumbered ==
  ASSUME NEW S, S \subseteq Clients
  PROVE  Cardinality(S) \in Nat /\ DOMAIN SetToSeq(S) = 1 .. Cardinality(S)
<1>1. Cardinality(S) \in Nat /\ ExistsBijection(1 .. Cardinality(S), S)
  BY FinitelyMany, FS_Subset, FS_CardinalityType
<1>2. PICK f \in [1 .. Cardinality(S) -> S] : IsInjective(f)
  BY <1>1 DEF ExistsBijection, Bijection, Injection, IsInjective
<1>3. SetToSeq(S) \in [1 .. Cardinality(S) -> S]
  BY <1>2 DEF SetToSeq
<1> QED
  BY <1>1, <1>3

\* WHO changes nothing.
LEMMA WhoSpeaks ==
  ASSUME NEW r, Speaks(r), NEW c, NEW cmd
  PROVE  Speaks(Who(r, c, cmd))
<1> DEFINE named   == cmd.chans = <<>>
           who     == IF named THEN {cmd.nicks[1]} \cap Clients ELSE K(r, cmd.chans[1]).members
           shown   == {d \in who : ~Has("who_channels_only") \/ ChannelsOf(r, d) # {}}
           in(d)   == IF ~named THEN cmd.chans[1]
                      ELSE IF ChannelsOf(r, d) = {} THEN "*"
                      ELSE CHOOSE ch \in ChannelsOf(r, d) : TRUE
           order   == SetToSeq(shown)
           t       == [i \in DOMAIN order |-> WhoReply(r, c, in(order[i]), order[i])]
           replies == [r EXCEPT !.out = @ \o t]
           end(q)  == IF named THEN Numeric(q, c, "315", "", cmd.nicks[1])
                      ELSE Numeric(q, c, "315", cmd.chans[1], "")
           error(q) == Numeric(q, c, "401", "", cmd.nicks[1])
<1>1. Speaks(replies)
  <2>1. shown \subseteq Clients
    <3>1. K(r, cmd.chans[1]).members \subseteq Clients
      BY DEF Speaks, IsReaction, IsChannel, K, NoChannel
    <3> QED
      BY <3>1
  <2> HIDE DEF shown
  <2>2. Cardinality(shown) \in Nat /\ DOMAIN order = 1 .. Cardinality(shown)
    BY <2>1, SetToSeqNumbered
  <2> HIDE DEF order
  <2>3. t = [i \in 1 .. Cardinality(shown) |-> t[i]]
    BY <2>2
  <2> HIDE DEF t
  <2> QED
    BY <2>2, <2>3, ConcatSpeaks
<1>2. Who(r, c, cmd) = CASE named /\ who = {} /\ Has("who_error_first") -> end(error(r))
                         [] named /\ who = {} /\ Has("who_error_last")  -> error(end(r))
                         [] OTHER -> end(replies)
  BY Zenon DEF Who
<1> HIDE DEF replies, who, named
<1>3. Who(r, c, cmd) \in {end(error(r)), error(end(r)), end(replies)}
  BY <1>2, Zenon
<1>4. ASSUME NEW q, Speaks(q)
      PROVE  Speaks(end(q)) /\ Speaks(error(q))
  BY <1>4, NumericSpeaks, Zenon
<1> HIDE DEF end, error
<1> QED
  BY <1>1, <1>3, <1>4, Zenon

\* LIST changes nothing.
LEMMA ListSpeaks ==
  ASSUME NEW r, Speaks(r), NEW c, NEW cmd, Numbered(cmd.chans)
  PROVE  Speaks(List(r, c, cmd))
<1> DEFINE count(ch) == IF Has("list_counts_none") THEN 0
                        ELSE Cardinality(r.chan[ch].members)
           item(ch) == Line({c}, "322", "server", ch, ToString(count(ch)), r.chan[ch].topic)
           list == SelectSeq(cmd.chans, LAMBDA ch : Exists(r, ch))
           t    == [i \in DOMAIN list |-> item(list[i])]
           head == Numeric(r, c, "321", "", "")
           all  == [head EXCEPT !.out = @ \o t]
<1>1. Len(list) \in Nat /\ DOMAIN list = 1 .. Len(list)
  BY DEF Numbered
<1> HIDE DEF list
<1>2. t = [i \in 1 .. Len(list) |-> t[i]]
  BY <1>1
<1> HIDE DEF t
<1>3. Speaks(head)
  BY NumericSpeaks, Zenon
<1> HIDE DEF head
<1>4. Speaks(all)
  BY <1>1, <1>2, <1>3, ConcatSpeaks
<1>5. List(r, c, cmd) = Numeric(all, c, "323", "", "")
  BY Zenon DEF List, head, t, list
<1> HIDE DEF all
<1> QED
  BY <1>4, <1>5, NumericSpeaks, Zenon

\* WHOIS changes nothing.
LEMMA WhoisSpeaks ==
  ASSUME NEW r, Speaks(r), NEW c, NEW cmd
  PROVE  Speaks(Whois(r, c, cmd))
<1> DEFINE d     == cmd.nicks[1]
           list  == IF Has("whois_hides_channels") THEN <<>> ELSE cmd.chans
           mark(ch) == IF d \in r.chan[ch].ops THEN "@" ELSE ""
           q     == Tell(r, {c}, "311", "server", "", d, "real name")
           x     == [to |-> {c},
                     msg |-> [cmd |-> "319", from |-> "server", chan |-> "", nick |-> d,
                              text |-> IF list = <<>> THEN "" ELSE list[Len(list)],
                              names |-> {<<mark(list[i]), list[i]>> : i \in DOMAIN list}]]
           q319  == [q EXCEPT !.out = Append(@, x)]
<1>1. Speaks(q)
  BY TellSpeaks, Zenon
<1> HIDE DEF q, x
<1>2. Speaks(q319)
  BY <1>1, AppendSpeaks
<1>3. Whois(r, c, cmd) = IF d \notin Clients THEN Numeric(r, c, "401", "", d)
                         ELSE Numeric(Numeric(q319, c, "317", "", d), c, "318", "", d)
  BY Zenon DEF Whois, q, x
<1> HIDE DEF q319
<1> QED
  BY <1>2, <1>3, NumericSpeaks, Zenon

-----------------------------------------------------------------------------
(* QUIT, the channel commands, and all of them *)

\* Who leaves is in no channel, and nobody else is disturbed.
LEMMA LeaveObeys ==
  ASSUME NEW r, Speaks(r), SoundChannels(r), ~Has("outsider_opped"), NEW c, NEW text
  PROVE  Obeys(Leave(r, c, text), c)
<1> DEFINE shared == {d \in Clients \ {c} :
                        \E ch \in Channels : {c, d} \subseteq r.chan[ch].members}
           left(ch) == IF c \in r.chan[ch].members THEN Without(r.chan[ch], c)
                                                   ELSE r.chan[ch]
           new  == [ch \in Channels |-> left(ch)]
           q    == [r EXCEPT !.gone = @ \cup {c}, !.chan = new]
<1>1. ASSUME NEW ch \in Channels
      PROVE  /\ IsChannel(left(ch)) /\ Sound(left(ch))
             /\ left(ch).members \subseteq chan[ch].members /\ c \notin left(ch).members
  <2>1. /\ Replaces(Without(r.chan[ch], c), r.chan[ch])
        /\ Without(r.chan[ch], c).members \subseteq r.chan[ch].members
    BY WithoutReplaces DEF SoundChannels, IsReaction
  <2>2. c \notin Without(r.chan[ch], c).members
    BY DEF Without, NoChannel, SoundChannels, IsReaction, IsChannel
  <2> QED
    BY <2>1, <2>2 DEF SoundChannels, IsReaction, Replaces, Speaks
<1> HIDE DEF left
<1>2. DOMAIN new = Channels /\ \A ch \in Channels : new[ch] = left(ch)
  OBVIOUS
<1> HIDE DEF new
<1>3. /\ DOMAIN q = DOMAIN r /\ q.gone = gone \cup {c} /\ q.chan = new
      /\ q.out = r.out
  BY DEF Speaks, IsReaction
<1>4. Leave(r, c, text) \in {q, Tell(q, shared, "QUIT", c, "", "", text)}
  BY Zenon DEF Leave, new, left
<1> HIDE DEF q, shared
<1>5. IsReaction(q) /\ Obeys(q, c)
  BY <1>1, <1>2, <1>3 DEF Obeys, SoundChannels, IsReaction, Speaks
<1>6. Says(q, Tell(q, shared, "QUIT", c, "", "", text))
  BY <1>5, TellSays, Zenon
<1>7. ASSUME NEW s, Says(q, s)
      PROVE  Obeys(s, c)
  BY <1>3, <1>5, <1>7 DEF Says, Kept, Obeys, SoundChannels, Speaks
<1> QED
  BY <1>4, <1>5, <1>6, <1>7, Zenon

\* A channel command brings nobody but its sender.
LEMMA ReactObeys ==
  ASSUME NEW r, Speaks(r), SoundChannels(r), ~Has("outsider_opped"), NEW c \in Clients,
         NEW cmd, IsCommand(cmd, cmd.verb), cmd.verb \in ChannelVerbs
  PROVE  Obeys(React(r, c, cmd), c)
<1> DEFINE q == React(r, c, cmd)
<1>1. Moves(r, q, c, cmd)
  BY ReactMoves DEF Speaks, IsCommand, ChannelVerbs
<1> HIDE DEF q
<1> QED
  BY <1>1 DEF Moves, Brings, Leaves, Leads, Kept, Obeys, SoundChannels, Speaks, q

\* To say something is to obey.
LEMMA SpeaksObeys ==
  ASSUME NEW r, Speaks(r), \A ch \in Channels : Sound(chan[ch]), NEW c
  PROVE  Obeys(r, c)
  BY DEF Speaks, Obeys, SoundChannels

\* Whatever the command.
LEMMA AnswerObeys ==
  ASSUME NEW r, Speaks(r), \A ch \in Channels : Sound(chan[ch]), ~Has("outsider_opped"),
         NEW c \in Clients, NEW cmd, IsCommand(cmd, cmd.verb), cmd.verb \in Verbs
  PROVE  Obeys(Answer(r, c, cmd), c)
<1> DEFINE a == Answer(r, c, cmd)
<1>1. SoundChannels(r)
  BY DEF Speaks, SoundChannels
<1>2. cmd.verb = "PASS" => a = Pass(r, c, cmd)
  BY Zenon DEF Answer
<1>3. cmd.verb = "NICK" => a = Nick(r, c, cmd)
  BY Zenon DEF Answer
<1>4. cmd.verb = "USER" => a = NameUser(r, c)
  BY Zenon DEF Answer
<1>5. cmd.verb = "QUIT" => a \in {r, Leave(r, c, cmd.text)}
  BY Zenon DEF Answer
<1>6. cmd.verb = "PING" => \E word : a = Tell(r, {c}, "PONG", "server", "", "", word)
  BY Zenon DEF Answer
<1>7. cmd.verb = "PONG" => a = r
  BY Zenon DEF Answer
<1>8. cmd.verb = "WHO" => a = Who(r, c, cmd)
  BY Zenon DEF Answer
<1>9. cmd.verb = "LIST" => a = List(r, c, cmd)
  BY Zenon DEF Answer
<1>10. cmd.verb = "WHOIS" => a = Whois(r, c, cmd)
  BY Zenon DEF Answer
<1>11. cmd.verb \in ChannelVerbs => a = React(r, c, cmd)
  BY Zenon DEF Answer, ChannelVerbs
<1> HIDE DEF a
<1>12. CASE cmd.verb \in ChannelVerbs
  BY <1>1, <1>11, <1>12, ReactObeys DEF a
<1>13. CASE cmd.verb = "QUIT"
  BY <1>1, <1>5, <1>13, LeaveObeys, SpeaksObeys DEF a
<1>14. CASE cmd.verb = "PING"
  BY <1>6, <1>14, TellSpeaks, SpeaksObeys, Zenon DEF a
<1>15. CASE cmd.verb \in {"PASS", "NICK", "USER", "PONG", "WHO", "LIST", "WHOIS"}
  <2>1. Speaks(a)
    BY <1>2, <1>3, <1>4, <1>7, <1>8, <1>9, <1>10, <1>15, RegistrationSpeaks, WhoSpeaks,
       ListSpeaks, WhoisSpeaks DEF IsCommand
  <2> QED
    BY <2>1, SpeaksObeys DEF a
<1> QED
  BY <1>12, <1>13, <1>14, <1>15 DEF Verbs, ChannelVerbs

\* Each reading of a command is a command.
LEMMA ReadingsNumbered ==
  ASSUME NEW c, NEW cmd, IsCommand(cmd, cmd.verb), cmd.verb \in Verbs,
         NEW m \in Readings(c, cmd)
  PROVE  IsCommand(m, m.verb) /\ m.verb \in Verbs
<1> DEFINE S      == Implied(c, cmd)
           listed == \/ cmd.verb = "WHOIS"
                     \/ cmd.verb \in {"LIST", "NAMES"} /\ cmd.chans = <<>>
                     \/ cmd.verb = "LIST" /\ Has("list_unfiltered")
<1>1. CASE listed
  <2>1. \A order \in SetToSeqs(S) : Numbered(order)
    <3>1. S \subseteq Channels
      <4>1. S \in {ChannelsOf([chan |-> chan], cmd.nicks[1]),
                   {ch \in Channels : chan[ch].members # {}}, {}}
        BY Zenon DEF Implied
      <4> QED
        BY <4>1 DEF ChannelsOf
    <3> HIDE DEF S
    <3>2. Cardinality(S) \in Nat
      BY <3>1, FinitelyMany, FS_Subset, FS_CardinalityType
    <3> QED
      BY <3>2 DEF SetToSeqs, Numbered
  <2>2. PICK order \in SetToSeqs(S) : m = [cmd EXCEPT !.chans = order]
    BY <1>1, Zenon DEF Readings
  <2> QED
    BY <2>1, <2>2 DEF IsCommand
<1>2. CASE ~listed
  <2>1. m \in Meanings(c, cmd)
    BY <1>2, Zenon DEF Readings
  <2>2. CASE cmd.verb \in ChannelVerbs
    <3>1. m.verb \in ChannelVerbs /\ IsCommand(m, m.verb)
      BY <2>1, <2>2, MeaningsNumbered
    <3> QED
      BY <3>1 DEF ChannelVerbs, Verbs
  <2>3. CASE cmd.verb \notin ChannelVerbs
    <3>1. cmd.verb # "JOIN"
      BY <2>3 DEF ChannelVerbs
    <3>2. m = cmd
      BY <2>1, <3>1, Zenon DEF Meanings
    <3> QED
      BY <3>2
  <2> QED
    BY <2>2, <2>3
<1> QED
  BY <1>1, <1>2

-----------------------------------------------------------------------------
(* The invariant of the types *)

\* What is on its way was sent, or caused, by a step the test has taken.
Sent(x, n) == x.cause \in Nat /\ x.cause < n /\ CommandShape(x.cmd)
Seen(m, n) == m.cause \in Nat /\ m.cause < n

QueuesTyped(commands, messages, n) ==
  /\ DOMAIN commands = Clients /\ DOMAIN messages = Clients
  /\ \A c \in Clients :
       /\ IsList(commands[c]) /\ \A x \in Elems(commands[c]) : Sent(x, n)
       /\ IsList(messages[c]) /\ \A m \in Elems(messages[c]) : Seen(m, n)

ChannelsTyped ==
  /\ DOMAIN chan = Channels
  /\ \A ch \in Channels : /\ IsChannel(chan[ch]) /\ Sound(chan[ch])
                           /\ chan[ch].members \cap gone = {}
  /\ gone \subseteq Clients

TimersTyped ==
  clock \in Nat /\ DOMAIN timer = Clients /\ \A c \in Clients : timer[c].since \in 0 .. clock

HistoryTyped ==
  /\ \A m \in kept : m.cause \in 0 .. at
  /\ \A i \in DOMAIN answered : i \in 1 .. at /\ answered[i] \in 0 .. i

TypeInv ==
  /\ test \in Tests /\ at \in 1 .. Len(Script) + 1 /\ slept \in Nat
  /\ verdict \in {"running", "passed", "failed"} /\ fault # "outsider_opped"
  /\ QueuesTyped(toServer, inbox, at) /\ ChannelsTyped /\ TimersTyped /\ HistoryTyped

\* It says what the types say.
LEMMA TypesFollow == TypeInv => TypeOK
<1> SUFFICES ASSUME TypeInv PROVE TypeOK
  OBVIOUS
<1>1. \A ch \in Channels :
        /\ chan[ch].members \subseteq Clients \ gone
        /\ chan[ch].ops \subseteq chan[ch].members
        /\ chan[ch].flags \subseteq {"i", "k", "l", "n", "t"}
  BY DEF TypeInv, ChannelsTyped, IsChannel, Sound, Letters
<1>2. \A c \in Clients :
        /\ timer[c].since \in 0 .. clock
        /\ \A i \in DOMAIN toServer[c] : toServer[c][i].cause < at
        /\ \A i \in DOMAIN inbox[c] : inbox[c][i].cause < at
  BY DEF TypeInv, TimersTyped, QueuesTyped, Elems, Sent, Seen
<1> QED
  BY <1>1, <1>2 DEF TypeInv, TypeOK, HistoryTyped, ChannelsTyped, TimersTyped

\* The script of a test is a list of well-made steps.
LEMMA ScriptIsList ==
  ASSUME test \in Tests
  PROVE  /\ IsList(Script) /\ Len(Script) \in Nat /\ DOMAIN Script = 1 .. Len(Script)
         /\ \A i \in DOMAIN Script : WellMade(Script[i])
  BY SuiteAssumption, ListLength DEF WellFormed, Script

\* It holds at the start.
LEMMA TypesInit == Init => TypeInv
<1> SUFFICES ASSUME Init PROVE TypeInv
  OBVIOUS
<1>1. test \in Tests /\ at \in 1 .. Len(Script) + 1 /\ slept \in Nat
      /\ verdict \in {"running", "passed", "failed"}
  BY ScriptIsList DEF Init
<1>2. fault # "outsider_opped"
  BY SuiteAssumption DEF Init, WellFormed
<1>3. IsList(<<>>) /\ Elems(<<>>) = {}
  BY DEF IsList, Elems
<1>4. QueuesTyped(toServer, inbox, at)
  BY <1>3 DEF Init, QueuesTyped
<1>5. IsChannel(NoChannel) /\ Sound(NoChannel) /\ NoChannel.members = {}
  BY DEF IsChannel, Sound, NoChannel
<1>6. ChannelsTyped
  BY <1>5 DEF Init, ChannelsTyped
<1>7. TimersTyped
  BY DEF Init, TimersTyped, Active
<1>8. HistoryTyped
  BY DEF Init, HistoryTyped
<1> QED
  BY <1>1, <1>2, <1>4, <1>6, <1>7, <1>8 DEF TypeInv

-----------------------------------------------------------------------------
(* The test's thread *)

\* The step a test is about to take.
LEMMA StepOf ==
  ASSUME TypeInv, NEW kinds, NEW now \in Doing(kinds)
  PROVE  /\ at \in 1 .. Len(Script) /\ Len(Script) \in Nat
         /\ now.who \in Clients /\ WellMade(now) /\ now.do \in kinds
  BY ScriptIsList DEF TypeInv, Doing, WellMade

\* What is older than a step is older than a later one.
LEMMA QueuesLater ==
  ASSUME NEW ts, NEW ib, NEW n \in Nat, QueuesTyped(ts, ib, n), NEW m \in Nat, n <= m
  PROVE  QueuesTyped(ts, ib, m)
  BY DEF QueuesTyped, Sent, Seen

\* A step of the thread disturbs the queues, the clock and its history.
LEMMA ThreadKeeps ==
  ASSUME TypeInv, UNCHANGED <<chan, fault, gone, timer, test>>,
         at' \in {at, at + 1}, at' <= Len(Script) + 1, slept' \in Nat,
         verdict' \in {"running", "passed", "failed"}, clock' \in {clock, clock + 1},
         QueuesTyped(toServer', inbox', at'),
         \A m \in kept' : m \in kept \/ m.cause \in 0 .. at,
         answered' = answered \/ \E msg : msg.cause \in 0 .. at /\ Remembers(msg)
  PROVE  TypeInv'
<1>1. Len(Script) \in Nat /\ Script' = Script
  BY ScriptIsList DEF TypeInv, Script
<1>2. /\ test' \in Tests /\ at' \in 1 .. Len(Script') + 1 /\ fault' # "outsider_opped"
  BY <1>1 DEF TypeInv
<1>3. ChannelsTyped'
  BY DEF TypeInv, ChannelsTyped
<1>4. TimersTyped'
  BY DEF TypeInv, TimersTyped
<1>5. \A m \in kept' : m.cause \in 0 .. at'
  BY <1>1 DEF TypeInv, HistoryTyped
<1>6. \A i \in DOMAIN answered' : i \in 1 .. at' /\ answered'[i] \in 0 .. i
  BY <1>1 DEF TypeInv, HistoryTyped, Remembers
<1> QED
  BY <1>2, <1>3, <1>4, <1>5, <1>6 DEF TypeInv, HistoryTyped

\* A PONG is a command.
LEMMA PongShape == CommandShape(Word("PONG", "token"))
<1> DEFINE w == Word("PONG", "token")
<1>1. /\ DOMAIN w = {"verb", "chans", "nicks", "text", "key", "limit"}
      /\ w.verb = "PONG" /\ w.chans = <<>> /\ w.nicks = <<>>
  BY Zenon DEF Word, NoArgs
<1> HIDE DEF w
<1>2. IsList(<<>>)
  BY DEF IsList
<1>3. CommandShape(w)
  BY <1>1, <1>2 DEF CommandShape, Verbs
<1> QED
  BY <1>3 DEF w

\* What a client takes off and answers leaves the queues in order.
LEMMA TakeOffKeeps ==
  ASSUME TypeInv, NEW c \in Clients, NEW n \in 0 .. Len(inbox[c]), TakeOff(c, n)
  PROVE  QueuesTyped(toServer', inbox', at) /\ UNCHANGED <<chan, fault, gone, clock, timer>>
<1> DEFINE pings == SelectSeq(SubSeq(inbox[c], 1, n), LAMBDA m : m.cmd = "PING")
           pong  == [cmd |-> Word("PONG", "token"), cause |-> 0]
           pongs == [i \in DOMAIN pings |-> pong]
           rest  == SubSeq(inbox[c], n + 1, Len(inbox[c]))
           new   == toServer[c] \o pongs
<1>1. /\ inbox' = [inbox EXCEPT ![c] = rest]
      /\ toServer' \in {toServer, [toServer EXCEPT ![c] = new]}
      /\ UNCHANGED <<chan, fault, gone, clock, timer>>
  BY DEF TakeOff
<1>2. QueuesTyped(toServer, inbox, at) /\ at \in Nat /\ at >= 1
  BY ScriptIsList DEF TypeInv
<1>3. IsList(rest) /\ Elems(rest) \subseteq Elems(inbox[c])
  BY <1>2, SuffixList DEF QueuesTyped
<1>4. Len(pings) \in Nat /\ DOMAIN pings = 1 .. Len(pings)
  OBVIOUS
<1> HIDE DEF pings, rest
<1>5. Sent(pong, at)
  BY <1>2, PongShape DEF Sent
<1> HIDE DEF pong
<1>6. pongs = [i \in 1 .. Len(pings) |-> pongs[i]] /\ \A i \in 1 .. Len(pings) : pongs[i] = pong
  BY <1>4
<1> HIDE DEF pongs
<1>7. IsList(new) /\ Elems(new) \subseteq Elems(toServer[c]) \cup {pongs[i] : i \in 1 .. Len(pings)}
  BY <1>2, <1>4, <1>6, ConcatList DEF QueuesTyped
<1> HIDE DEF new
<1>8. \A x \in Elems(new) : Sent(x, at)
  BY <1>2, <1>5, <1>6, <1>7 DEF QueuesTyped
<1> QED
  BY <1>1, <1>2, <1>3, <1>7, <1>8 DEF QueuesTyped

\* The step of a test that sends.
LEMMA SendKeeps == TypeInv /\ SendStep => TypeInv'
<1> SUFFICES ASSUME TypeInv, SendStep PROVE TypeInv'
  OBVIOUS
<1>1. PICK now \in Doing({"send", "sendOn"}) :
        \/ /\ toServer' = [toServer EXCEPT ![now.who] = Append(@, [cmd |-> now.cmd, cause |-> at])]
           /\ Advance
        \/ Fail /\ UNCHANGED toServer
  BY DEF SendStep
<1>2. /\ UNCHANGED <<chan, inbox, fault, gone, clock, timer, test, slept, kept, answered>>
  BY DEF SendStep
<1>3. /\ at \in 1 .. Len(Script) /\ Len(Script) \in Nat /\ now.who \in Clients
      /\ CommandShape(now.cmd)
  BY StepOf DEF WellMade
<1> DEFINE x   == [cmd |-> now.cmd, cause |-> at]
           new == Append(toServer[now.who], x)
<1>4. Sent(x, at + 1)
  BY <1>3 DEF Sent
<1>5. QueuesTyped(toServer, inbox, at) /\ QueuesTyped(toServer, inbox, at + 1)
  BY <1>3, QueuesLater DEF TypeInv
<1> HIDE DEF x
<1>6. IsList(new) /\ Elems(new) \subseteq Elems(toServer[now.who]) \cup {x}
  BY <1>3, <1>5, AppendList DEF QueuesTyped
<1>7. CASE toServer' = [toServer EXCEPT ![now.who] = new] /\ Advance
  <2>1. QueuesTyped(toServer', inbox', at')
    <3> HIDE DEF new
    <3> QED
      BY <1>2, <1>3, <1>4, <1>5, <1>6, <1>7 DEF QueuesTyped, Advance
  <2> QED
    BY <1>2, <1>3, <1>7, <2>1, ThreadKeeps DEF TypeInv, Advance
<1>8. CASE Fail /\ UNCHANGED toServer
  BY <1>2, <1>3, <1>5, <1>8, ThreadKeeps DEF TypeInv, Fail
<1> QED
  BY <1>1, <1>7, <1>8 DEF x

\* The first message that matches is in the inbox, or there is none.
LEMMA FirstMatchIn ==
  ASSUME NEW now, IsList(inbox[now.who])
  PROVE  FirstMatch(now) \in 0 .. Len(inbox[now.who])
<1> DEFINE s == inbox[now.who]
           I == {i \in 1 .. Len(s) : s[i].cmd = now.reply}
<1>1. Len(s) \in Nat
  BY ListLength
<1>2. FirstMatch(now) = IF I # {} THEN Min(I) ELSE 0
  BY DEF FirstMatch, SelectInSeq
<1>3. CASE I # {}
  <2>1. I \subseteq Nat
    OBVIOUS
  <2>2. PICK x \in I : \A y \in I : x <= y
    <3> HIDE DEF I
    <3> QED
      BY <1>3, <2>1, Least
  <2>3. Min(I) \in I
    <3> HIDE DEF I
    <3> QED
      BY <2>2 DEF Min
  <2> QED
    BY <1>1, <1>2, <1>3, <2>3
<1>4. CASE I = {}
  BY <1>1, <1>2, <1>4
<1> QED
  BY <1>3, <1>4

\* The messages in an inbox, and the first that matches.
LEMMA InInbox ==
  ASSUME TypeInv, NEW c \in Clients
  PROVE  /\ IsList(inbox[c]) /\ Len(inbox[c]) \in Nat
         /\ \A i \in 1 .. Len(inbox[c]) : inbox[c][i].cause \in 0 .. at
         /\ inbox[c] # <<>> => 1 \in 0 .. Len(inbox[c]) /\ Head(inbox[c]).cause \in 0 .. at
         /\ \A now : now.who = c => FirstMatch(now) \in 0 .. Len(inbox[c])
<1>1. IsList(inbox[c]) /\ \A m \in Elems(inbox[c]) : Seen(m, at)
  BY DEF TypeInv, QueuesTyped
<1>2. Len(inbox[c]) \in Nat /\ DOMAIN inbox[c] = 1 .. Len(inbox[c])
  BY <1>1, ListLength
<1>3. \A i \in 1 .. Len(inbox[c]) : inbox[c][i].cause \in 0 .. at
  BY <1>1, <1>2, ScriptIsList DEF Elems, Seen, TypeInv
<1>4. ASSUME NEW now, now.who = c
      PROVE  FirstMatch(now) \in 0 .. Len(inbox[c])
  <2>1. IsList(inbox[now.who])
    BY <1>1, <1>4
  <2> QED
    BY <1>4, <2>1, FirstMatchIn
<1>5. ASSUME inbox[c] # <<>>
      PROVE  1 \in 0 .. Len(inbox[c]) /\ Head(inbox[c]).cause \in 0 .. at
  <2>1. Head(inbox[c]) \in Elems(inbox[c])
    BY <1>1, <1>5, TailList
  <2>2. DOMAIN inbox[c] # {}
    BY <2>1 DEF Elems
  <2> QED
    BY <1>1, <1>2, <2>1, <2>2, ScriptIsList DEF Seen, TypeInv
<1> QED
  BY <1>1, <1>2, <1>3, <1>4, <1>5

\* A step that takes messages off, and remembers some of them or none.
LEMMA TakesOff ==
  ASSUME TypeInv, NEW c \in Clients, NEW n \in 0 .. Len(inbox[c]), TakeOff(c, n),
         Advance \/ Fail, at \in 1 .. Len(Script), UNCHANGED <<test, slept>>,
         \A m \in kept' : m \in kept \/ m.cause \in 0 .. at,
         answered' = answered \/ \E msg : msg.cause \in 0 .. at /\ Remembers(msg)
  PROVE  TypeInv'
<1>1. QueuesTyped(toServer', inbox', at) /\ UNCHANGED <<chan, fault, gone, clock, timer>>
  BY TakeOffKeeps
<1>2. /\ at' \in {at, at + 1} /\ at' <= Len(Script) + 1 /\ slept' \in Nat
      /\ verdict' \in {"running", "passed", "failed"}
  BY ScriptIsList DEF TypeInv, Advance, Fail
<1>3. QueuesTyped(toServer', inbox', at')
  BY <1>1, <1>2, QueuesLater
<1> QED
  BY <1>1, <1>2, <1>3, ThreadKeeps

\* A step that touches no connection.
LEMMA Looks ==
  ASSUME TypeInv, UNCHANGED <<toServer, inbox, chan, fault, gone, timer, test, kept, answered>>,
         Advance \/ Fail \/ (UNCHANGED at /\ verdict' \in {verdict, "passed"}),
         UNCHANGED at \/ at \in 1 .. Len(Script),
         clock' \in {clock, clock + 1}, slept' \in {0, slept, slept + 1}
  PROVE  TypeInv'
<1>1. /\ at' \in {at, at + 1} /\ at' <= Len(Script) + 1
      /\ verdict' \in {"running", "passed", "failed"} /\ slept' \in Nat
  BY ScriptIsList DEF TypeInv, Advance, Fail
<1>2. QueuesTyped(toServer', inbox', at')
  BY <1>1, QueuesLater, ScriptIsList DEF TypeInv
<1> QED
  BY <1>1, <1>2, ThreadKeeps

\* Waits, drains and the other calls of get_message.
LEMMA GetKeeps ==
  ASSUME TypeInv,
         \/ WaitFinds \/ WaitTimesOut \/ TakeStep \/ CollectStep \/ DrainStep \/ GetMessageStep
  PROVE  TypeInv'
<1>1. CASE WaitFinds
  <2>1. PICK now \in Doing(Waits) :
          /\ FirstMatch(now) # 0 /\ (Advance \/ Fail)
          /\ kept' \in {kept, kept \cup {inbox[now.who][FirstMatch(now)]}}
          /\ Remembers(inbox[now.who][FirstMatch(now)])
          /\ TakeOff(now.who, FirstMatch(now))
          /\ UNCHANGED <<test, slept>>
    BY <1>1 DEF WaitFinds
  <2>2. at \in 1 .. Len(Script) /\ now.who \in Clients
    BY StepOf
  <2>3. /\ FirstMatch(now) \in 1 .. Len(inbox[now.who])
        /\ inbox[now.who][FirstMatch(now)].cause \in 0 .. at
    BY <2>1, <2>2, InInbox
  <2> QED
    BY <2>1, <2>2, <2>3, TakesOff
<1>2. CASE WaitTimesOut
  <2>1. PICK now \in Doing(Waits) :
          /\ (Advance \/ Fail) /\ TakeOff(now.who, Len(inbox[now.who]))
          /\ UNCHANGED <<test, slept, kept, answered>>
    BY <1>2 DEF WaitTimesOut
  <2>2. /\ at \in 1 .. Len(Script) /\ now.who \in Clients /\ Len(inbox[now.who]) \in Nat
    BY StepOf, InInbox
  <2> QED
    BY <2>1, <2>2, TakesOff
<1>3. CASE TakeStep
  <2>1. PICK now \in Doing({"take"}) :
          /\ \/ /\ inbox[now.who] # <<>> /\ Advance
                /\ kept' = kept \cup {Head(inbox[now.who])}
                /\ Remembers(Head(inbox[now.who]))
                /\ TakeOff(now.who, 1)
             \/ Fail /\ UNCHANGED <<serverVars, kept, answered>>
          /\ UNCHANGED <<test, slept>>
    BY <1>3 DEF TakeStep
  <2>2. at \in 1 .. Len(Script) /\ now.who \in Clients
    BY StepOf
  <2>3. CASE inbox[now.who] # <<>> /\ Advance /\ kept' = kept \cup {Head(inbox[now.who])}
             /\ Remembers(Head(inbox[now.who])) /\ TakeOff(now.who, 1)
    <3>1. 1 \in 0 .. Len(inbox[now.who]) /\ Head(inbox[now.who]).cause \in 0 .. at
      BY <2>2, <2>3, InInbox
    <3> QED
      BY <2>1, <2>2, <2>3, <3>1, TakesOff
  <2>4. CASE Fail /\ UNCHANGED <<serverVars, kept, answered>>
    BY <2>1, <2>2, <2>4, Looks DEF serverVars
  <2> QED
    BY <2>1, <2>3, <2>4
<1>4. CASE CollectStep
  <2>1. PICK now \in Doing({"collect"}) :
          /\ \/ /\ FirstMatch(now) # 0 /\ Advance
                /\ kept' = kept \cup {inbox[now.who][i] : i \in 1 .. FirstMatch(now)}
                /\ TakeOff(now.who, FirstMatch(now))
             \/ Fail /\ UNCHANGED <<serverVars, kept>>
          /\ UNCHANGED <<test, slept, answered>>
    BY <1>4 DEF CollectStep
  <2>2. at \in 1 .. Len(Script) /\ now.who \in Clients
    BY StepOf
  <2>3. CASE /\ Advance /\ kept' = kept \cup {inbox[now.who][i] : i \in 1 .. FirstMatch(now)}
             /\ TakeOff(now.who, FirstMatch(now))
    <3>1. /\ FirstMatch(now) \in 0 .. Len(inbox[now.who])
          /\ \A i \in 1 .. FirstMatch(now) : inbox[now.who][i].cause \in 0 .. at
      BY <2>2, InInbox
    <3> QED
      BY <2>1, <2>2, <2>3, <3>1, TakesOff
  <2>4. CASE Fail /\ UNCHANGED <<serverVars, kept>>
    BY <2>1, <2>2, <2>4, Looks DEF serverVars
  <2> QED
    BY <2>1, <2>3, <2>4
<1>5. CASE DrainStep
  <2>1. PICK now \in Doing({"drain"}) :
          /\ \E n \in 0 .. Len(inbox[now.who]) : TakeOff(now.who, n)
          /\ Advance /\ UNCHANGED <<test, slept, kept, answered>>
    BY <1>5 DEF DrainStep
  <2>2. at \in 1 .. Len(Script) /\ now.who \in Clients
    BY StepOf
  <2> QED
    BY <2>1, <2>2, TakesOff
<1>6. CASE GetMessageStep
  <2>1. PICK now \in Doing({"silent", "not"}) :
          /\ \/ Advance /\ UNCHANGED serverVars
             \/ inbox[now.who] # <<>> /\ (Advance \/ Fail) /\ TakeOff(now.who, 1)
          /\ UNCHANGED <<test, slept, kept, answered>>
    BY <1>6 DEF GetMessageStep
  <2>2. at \in 1 .. Len(Script) /\ now.who \in Clients
    BY StepOf
  <2>3. CASE inbox[now.who] # <<>> /\ (Advance \/ Fail) /\ TakeOff(now.who, 1)
    <3>1. 1 \in 0 .. Len(inbox[now.who])
      BY <2>2, <2>3, InInbox
    <3> QED
      BY <2>1, <2>2, <2>3, <3>1, TakesOff
  <2>4. CASE Advance /\ UNCHANGED serverVars
    BY <2>1, <2>2, <2>4, Looks DEF serverVars
  <2> QED
    BY <2>1, <2>3, <2>4
<1> QED
  BY <1>1, <1>2, <1>3, <1>4, <1>5, <1>6

\* The steps that read nothing.
LEMMA QuietKeeps ==
  ASSUME TypeInv, CoversStep \/ PauseStep \/ SleepStep \/ ProbeStep \/ EndTest
  PROVE  TypeInv'
<1>1. CASE CoversStep
  <2>1. at \in 1 .. Len(Script)
    BY <1>1, StepOf DEF CoversStep
  <2> QED
    BY <1>1, <2>1, Looks DEF CoversStep, serverVars
<1>2. CASE PauseStep
  <2>1. at \in 1 .. Len(Script)
    BY <1>2, StepOf DEF PauseStep
  <2> QED
    BY <1>2, <2>1, Looks DEF PauseStep, serverVars
<1>3. CASE SleepStep
  <2>1. at \in 1 .. Len(Script)
    BY <1>3, StepOf DEF SleepStep
  <2>2. /\ Advance \/ Fail \/ UNCHANGED <<at, verdict>>
        /\ clock' \in {clock, clock + 1} /\ slept' \in {0, slept, slept + 1}
        /\ UNCHANGED <<toServer, inbox, chan, fault, gone, timer, test, kept, answered>>
    BY <1>3 DEF SleepStep
  <2> QED
    BY <2>1, <2>2, Looks
<1>4. CASE ProbeStep
  <2>1. at \in 1 .. Len(Script)
    BY <1>4, StepOf DEF ProbeStep
  <2> QED
    BY <1>4, <2>1, Looks DEF ProbeStep, serverVars
<1>5. CASE EndTest
  BY <1>5, Looks DEF EndTest, serverVars
<1> QED
  BY <1>1, <1>2, <1>3, <1>4, <1>5

-----------------------------------------------------------------------------
(* What reaches a client of what the server writes *)

\* What FoldLeft is made of here.
Mail(f, out, c, l, cause, S) ==
  f = [s \in SUBSET S |->
         IF s = {} THEN <<>> ELSE Delivered(f[s \ {Max(s)}], out[Max(s)], c, l, cause)]

\* The function that FoldLeft chooses exists, for every number of messages.
LEMMA MailExists ==
  ASSUME NEW out, NEW c, NEW l, NEW cause
  PROVE  \A n \in Nat : \E f : Mail(f, out, c, l, cause, 1 .. n)
<1> DEFINE S == {n \in Nat : \E f : Mail(f, out, c, l, cause, 1 .. n)}
<1>1. 0 \in S
  <2> DEFINE g == [s \in SUBSET (1 .. 0) |-> <<>>]
  <2>1. \A s \in SUBSET (1 .. 0) : s = {}
    OBVIOUS
  <2>2. Mail(g, out, c, l, cause, 1 .. 0)
    BY <2>1 DEF Mail
  <2> QED
    BY <2>2
<1>2. ASSUME NEW n \in Nat, n \in S
      PROVE  n + 1 \in S
  <2>1. PICK f : Mail(f, out, c, l, cause, 1 .. n)
    BY <1>2
  <2> DEFINE g == [s \in SUBSET (1 .. n + 1) |->
                     IF n + 1 \in s THEN Delivered(f[s \ {n + 1}], out[n + 1], c, l, cause)
                                    ELSE f[s]]
             h == [s \in SUBSET (1 .. n + 1) |->
                     IF s = {} THEN <<>>
                     ELSE Delivered(g[s \ {Max(s)}], out[Max(s)], c, l, cause)]
  <2>2. ASSUME NEW s \in SUBSET (1 .. n + 1)
        PROVE  g[s] = h[s]
    <3>1. CASE n + 1 \in s
      <4>1. Max(s) = n + 1
        BY <3>1, MaxOfInterval
      <4>2. s \ {n + 1} \in SUBSET (1 .. n + 1) /\ n + 1 \notin s \ {n + 1}
        OBVIOUS
      <4>3. g[s \ {n + 1}] = f[s \ {n + 1}]
        BY <4>2
      <4> QED
        BY <3>1, <4>1, <4>3
    <3>2. CASE n + 1 \notin s
      <4>1. s \in SUBSET (1 .. n)
        BY <3>2
      <4>2. f[s] = IF s = {} THEN <<>>
                   ELSE Delivered(f[s \ {Max(s)}], out[Max(s)], c, l, cause)
        BY <2>1, <4>1 DEF Mail
      <4>3. s \ {Max(s)} \in SUBSET (1 .. n + 1) /\ n + 1 \notin s \ {Max(s)}
        BY <3>2
      <4>4. g[s \ {Max(s)}] = f[s \ {Max(s)}]
        BY <4>3
      <4> QED
        BY <3>2, <4>2, <4>4
    <3> QED
      BY <3>1, <3>2
  <2>3. g = h
    BY <2>2
  <2>4. Mail(g, out, c, l, cause, 1 .. n + 1)
    BY <2>3 DEF Mail
  <2> QED
    BY <2>4
<1>3. Nat \subseteq S
  <2> HIDE DEF S
  <2> QED
    BY <1>1, <1>2, Induction
<1> QED
  BY <1>3

\* The client gets its messages one by one.
Deliveries(h, out, n, c, l, cause) ==
  h[0] = <<>> /\ \A i \in 0 .. n - 1 : h[i + 1] = Delivered(h[i], out[i + 1], c, l, cause)

\* What is written for a client is the last of its deliveries.
LEMMA MailOneByOne ==
  ASSUME NEW out, NEW c, NEW l, NEW cause, NEW n \in Nat, DOMAIN out = 1 .. n
  PROVE  \E h : Deliveries(h, out, n, c, l, cause) /\ Written(out, c, l, cause) = h[n]
<1> DEFINE f == CHOOSE g : Mail(g, out, c, l, cause, 1 .. n)
           h == [i \in 0 .. n |-> f[1 .. i]]
<1>1. Mail(f, out, c, l, cause, 1 .. n)
  BY MailExists
<1>2. Written(out, c, l, cause) = f[DOMAIN out]
  BY DEF Written, FoldLeft, MapThenFoldSet, Mail
<1>3. h[0] = <<>>
  <2>1. 1 .. 0 = {} /\ {} \in SUBSET (1 .. n) /\ 0 \in 0 .. n
    OBVIOUS
  <2>2. f[{}] = <<>>
    BY <1>1, <2>1 DEF Mail
  <2> HIDE DEF f
  <2> QED
    BY <2>1, <2>2
<1>4. ASSUME NEW i \in 0 .. n - 1
      PROVE  h[i + 1] = Delivered(h[i], out[i + 1], c, l, cause)
  <2>1. 1 .. i + 1 \in SUBSET (1 .. n) /\ 1 .. i + 1 # {} /\ i + 1 \in 0 .. n /\ i \in 0 .. n
    <3>1. i \in Nat /\ i + 1 <= n /\ i + 1 \in 1 .. i + 1
      OBVIOUS
    <3>2. \A j \in 1 .. i + 1 : j \in 1 .. n
      BY <3>1
    <3>3. i + 1 \in 0 .. n /\ i \in 0 .. n
      BY <3>1
    <3> QED
      BY <3>1, <3>2, <3>3
  <2>2. Max(1 .. i + 1) = i + 1
    BY MaxOfInterval
  <2>3. (1 .. i + 1) \ {i + 1} = 1 .. i
    OBVIOUS
  <2>4. f[1 .. i + 1] = Delivered(f[1 .. i], out[i + 1], c, l, cause)
    BY <1>1, <2>1, <2>2, <2>3 DEF Mail
  <2> QED
    BY <2>1, <2>4
<1>5. Written(out, c, l, cause) = h[n]
  BY <1>2
<1> HIDE DEF h
<1>6. Deliveries(h, out, n, c, l, cause)
  BY <1>3, <1>4 DEF Deliveries
<1> QED
  BY <1>5, <1>6

\* A message m in an inbox is message o of a reaction.
Carries(m, o, c, cause) == c \in o.to /\ m.cmd = o.msg.cmd /\ m.cause = cause

\* The messages in s are some of the first n of a reaction, in their order.
Picks(s, out, n, c, cause) ==
  /\ IsList(s)
  /\ \A a \in DOMAIN s : \E i \in 1 .. n : Carries(s[a], out[i], c, cause)
  /\ \A a, b \in DOMAIN s :
       a < b => \E i, j \in 1 .. n :
                  i < j /\ Carries(s[a], out[i], c, cause) /\ Carries(s[b], out[j], c, cause)

\* One message more.
LEMMA DeliveredPicks ==
  ASSUME NEW out, NEW n \in Nat, NEW c, NEW l, NEW cause, NEW s, Picks(s, out, n, c, cause)
  PROVE  Picks(Delivered(s, out[n + 1], c, l, cause), out, n + 1, c, cause)
<1> DEFINE o == out[n + 1]
           q == Delivered(s, o, c, l, cause)
<1>1. CASE c \notin o.to
  <2>1. q = s
    BY <1>1, Zenon DEF Delivered
  <2>2. \A i \in 1 .. n : i \in 1 .. n + 1
    OBVIOUS
  <2> QED
    BY <2>1, <2>2, Zenon DEF Picks
<1>2. CASE c \in o.to
  <2>1. PICK to : q = Append(s, Stamped(o.msg, cause, to))
    BY <1>2, Zenon DEF Delivered
  <2> DEFINE x == Stamped(o.msg, cause, to)
  <2>2. Carries(x, o, c, cause)
    BY <1>2 DEF Carries, Stamped
  <2> HIDE DEF x
  <2>3. /\ IsList(q) /\ Len(s) \in Nat /\ DOMAIN s = 1 .. Len(s)
        /\ DOMAIN q = 1 .. Len(s) + 1 /\ q[Len(s) + 1] = x
        /\ \A i \in 1 .. Len(s) : q[i] = s[i]
    <3>1. IsList(s)
      BY DEF Picks
    <3> QED
      BY <2>1, <3>1, AppendAt DEF x
  <2> HIDE DEF q
  <2>4. n + 1 \in 1 .. n + 1 /\ \A i \in 1 .. n : i \in 1 .. n + 1 /\ i < n + 1
    OBVIOUS
  <2>5. \A a \in 1 .. Len(s) + 1 : a \in 1 .. Len(s) \/ a = Len(s) + 1
    BY <2>3
  <2>6. ASSUME NEW a \in DOMAIN q
        PROVE  \E i \in 1 .. n + 1 : Carries(q[a], out[i], c, cause)
    <3>1. CASE a \in 1 .. Len(s)
      BY <2>3, <2>4, <3>1 DEF Picks
    <3>2. CASE a = Len(s) + 1
      BY <2>2, <2>3, <2>4, <3>2, Zenon
    <3> QED
      BY <2>3, <2>5, <3>1, <3>2
  <2>7. ASSUME NEW a \in DOMAIN q, NEW b \in DOMAIN q, a < b
        PROVE  \E i, j \in 1 .. n + 1 :
                 i < j /\ Carries(q[a], out[i], c, cause) /\ Carries(q[b], out[j], c, cause)
    <3>1. a \in 1 .. Len(s)
      BY <2>3, <2>7
    <3>2. CASE b \in 1 .. Len(s)
      <4>1. PICK i \in 1 .. n, j \in 1 .. n :
              i < j /\ Carries(s[a], out[i], c, cause) /\ Carries(s[b], out[j], c, cause)
        BY <2>3, <2>7, <3>1, <3>2 DEF Picks
      <4> QED
        BY <2>3, <2>4, <3>1, <3>2, <4>1
    <3>3. CASE b = Len(s) + 1
      <4>1. PICK i \in 1 .. n : Carries(s[a], out[i], c, cause)
        BY <2>3, <3>1 DEF Picks
      <4>2. i < n + 1 /\ Carries(q[a], out[i], c, cause)
        BY <2>3, <2>4, <3>1, <4>1
      <4>3. Carries(q[b], out[n + 1], c, cause)
        BY <2>2, <2>3, <3>3
      <4> QED
        BY <2>4, <4>2, <4>3
    <3> QED
      BY <2>3, <2>5, <3>2, <3>3
  <2>8. Picks(q, out, n + 1, c, cause)
    BY <2>3, <2>6, <2>7 DEF Picks
  <2> QED
    BY <2>8 DEF q
<1> QED
  BY <1>1, <1>2

\* A client gets what is for it, in the order in which the server wrote it.
LEMMA WrittenPicks ==
  ASSUME NEW out, IsList(out), NEW c, NEW l, NEW cause
  PROVE  Picks(Written(out, c, l, cause), out, Len(out), c, cause)
<1>1. PICK n \in Nat : n = Len(out) /\ DOMAIN out = 1 .. n
  BY ListLength
<1>2. PICK h : Deliveries(h, out, n, c, l, cause) /\ Written(out, c, l, cause) = h[n]
  <2>1. DOMAIN out = 1 .. n
    BY <1>1
  <2> QED
    BY <2>1, MailOneByOne
<1> DEFINE S == {i \in Nat : i <= n => Picks(h[i], out, i, c, cause)}
<1>3. 0 \in S
  <2>1. IsList(<<>>) /\ DOMAIN <<>> = {}
    BY DEF IsList
  <2>2. Picks(h[0], out, 0, c, cause)
    BY <1>2, <2>1 DEF Picks, Deliveries
  <2> QED
    BY <2>2
<1>4. ASSUME NEW i \in Nat, i \in S
      PROVE  i + 1 \in S
  <2> SUFFICES ASSUME i + 1 <= n
               PROVE  Picks(h[i + 1], out, i + 1, c, cause)
    OBVIOUS
  <2>1. Picks(h[i], out, i, c, cause) /\ h[i + 1] = Delivered(h[i], out[i + 1], c, l, cause)
    BY <1>2, <1>4 DEF Deliveries
  <2>2. Picks(Delivered(h[i], out[i + 1], c, l, cause), out, i + 1, c, cause)
    BY <2>1, DeliveredPicks
  <2> QED
    BY <2>1, <2>2
<1>5. Nat \subseteq S
  <2> HIDE DEF S
  <2> QED
    BY <1>3, <1>4, Induction
<1>6. Picks(h[n], out, n, c, cause)
  BY <1>5
<1> QED
  BY <1>1, <1>2, <1>6

-----------------------------------------------------------------------------
(* The server *)

\* What the server writes is no newer than its cause.
LEMMA WriteKeeps ==
  ASSUME NEW n \in Nat, NEW ts, QueuesTyped(ts, inbox, n), NEW cause \in Nat, cause < n,
         NEW r, IsList(r.out), Write(r, cause)
  PROVE  /\ DOMAIN inbox' = Clients
         /\ \A d \in Clients : IsList(inbox'[d]) /\ \A m \in Elems(inbox'[d]) : Seen(m, n)
<1>1. /\ DOMAIN inbox' = Clients
      /\ \A d \in Clients : inbox'[d] = inbox[d] \o Written(r.out, d, r.login[d], cause)
  BY DEF Write
<1>2. ASSUME NEW d \in Clients
      PROVE  IsList(inbox'[d]) /\ \A m \in Elems(inbox'[d]) : Seen(m, n)
  <2> DEFINE w == Written(r.out, d, r.login[d], cause)
  <2>1. IsList(w) /\ \A m \in Elems(w) : m.cause = cause
    BY WrittenPicks DEF Picks, Carries, Elems
  <2> HIDE DEF w
  <2>2. IsList(inbox[d] \o w) /\ Elems(inbox[d] \o w) \subseteq Elems(inbox[d]) \cup Elems(w)
    BY <2>1, ConcatAt DEF QueuesTyped
  <2>3. inbox'[d] = inbox[d] \o w
    BY <1>1 DEF w
  <2>4. \A m \in Elems(inbox[d]) : Seen(m, n)
    BY DEF QueuesTyped
  <2> HIDE DEF Elems
  <2> QED
    BY <2>1, <2>2, <2>3, <2>4 DEF Seen
<1> QED
  BY <1>1, <1>2

\* Before it takes a command, the server has said nothing.
LEMMA BeforeSpeaks ==
  ASSUME TypeInv
  PROVE  /\ Speaks(Before) /\ SoundChannels(Before) /\ ~Has("outsider_opped")
         /\ \A ch \in Channels : Sound(chan[ch])
<1>1. IsList(<<>>)
  BY DEF IsList
<1> QED
  BY <1>1 DEF Speaks, SoundChannels, Before, IsReaction, TypeInv, ChannelsTyped, Has

\* Who obeys leaves the channels typed.
LEMMA ObeysKeeps ==
  ASSUME ChannelsTyped, NEW c \in Clients \ gone, NEW r, Obeys(r, c),
         chan' = r.chan, gone' = r.gone
  PROVE  ChannelsTyped'
<1>1. \A ch \in Channels :
        /\ IsChannel(r.chan[ch]) /\ Sound(r.chan[ch])
        /\ r.chan[ch].members \cap r.gone = {}
  BY DEF Obeys, SoundChannels, IsReaction, ChannelsTyped
<1>2. DOMAIN r.chan = Channels /\ r.gone \subseteq Clients
  BY DEF Obeys, SoundChannels, IsReaction, ChannelsTyped
<1> QED
  BY <1>1, <1>2 DEF ChannelsTyped

\* The server takes one command.
LEMMA ServeKeeps ==
  ASSUME TypeInv, NEW c \in Clients, Serve(c)
  PROVE  TypeInv'
<1> DEFINE first == Head(toServer[c])
<1>1. /\ c \notin gone /\ toServer[c] # <<>>
      /\ toServer' = [toServer EXCEPT ![c] = Tail(@)]
      /\ timer' \in {timer, [timer EXCEPT ![c] = Active]}
      /\ UNCHANGED <<fault, clock>> /\ UNCHANGED runVars
  BY DEF Serve, Handle
<1>2. PICK cmd \in Readings(c, first.cmd) :
        LET r == Answer(Before, c, cmd)
        IN  chan' = r.chan /\ gone' = r.gone /\ Write(r, first.cause)
  BY Zenon DEF Serve, Handle
<1>3. QueuesTyped(toServer, inbox, at) /\ at \in Nat
  BY ScriptIsList DEF TypeInv
<1>4. /\ IsList(Tail(toServer[c])) /\ Elems(Tail(toServer[c])) \subseteq Elems(toServer[c])
      /\ first \in Elems(toServer[c]) /\ Sent(first, at)
  BY <1>1, <1>3, TailList DEF QueuesTyped
<1> HIDE DEF first
<1>5. IsCommand(first.cmd, first.cmd.verb) /\ first.cmd.verb \in Verbs
  <2>1. \A s : IsList(s) => Numbered(s)
    BY ListLength DEF Numbered
  <2> QED
    BY <1>4, <2>1 DEF Sent, CommandShape, IsCommand
<1>6. IsCommand(cmd, cmd.verb) /\ cmd.verb \in Verbs
  BY <1>2, <1>5, ReadingsNumbered
<1> DEFINE r == Answer(Before, c, cmd)
<1>7. Obeys(r, c)
  BY <1>6, BeforeSpeaks, AnswerObeys
<1>8. chan' = r.chan /\ gone' = r.gone /\ Write(r, first.cause)
  BY <1>2
<1> HIDE DEF r
<1>13. IsList(r.out)
  BY <1>7 DEF Obeys, SoundChannels, IsReaction
<1>9. ChannelsTyped'
  BY <1>1, <1>7, <1>8, ObeysKeeps DEF TypeInv
<1>10. /\ DOMAIN inbox' = Clients
       /\ \A d \in Clients : IsList(inbox'[d]) /\ \A m \in Elems(inbox'[d]) : Seen(m, at)
  BY <1>3, <1>4, <1>8, <1>13, WriteKeeps DEF Sent
<1>11. QueuesTyped(toServer', inbox', at)
  <2> HIDE DEF Elems, Sent, Seen
  <2> QED
    BY <1>1, <1>3, <1>4, <1>10 DEF QueuesTyped
<1>12. TimersTyped'
  BY <1>1 DEF TypeInv, TimersTyped, Active
<1> QED
  BY <1>1, <1>9, <1>11, <1>12 DEF TypeInv, HistoryTyped, runVars, Script

\* The server asks a client, or gives it up.
LEMMA IdleKeeps ==
  ASSUME TypeInv, NEW c \in Clients, Idle(c)
  PROVE  TypeInv'
<1>1. UNCHANGED runVars /\ (AskIdle(c) \/ CloseIdle(c))
  BY Zenon DEF Idle
<1>2. AskIdle(c) =>
        /\ c \notin gone
        /\ timer' = [timer EXCEPT ![c] = [since |-> clock, asked |-> TRUE]]
        /\ UNCHANGED <<chan, toServer, fault, login, gone, clock>>
  BY Zenon DEF AskIdle, Due
<1>3. CloseIdle(c) =>
        /\ c \notin gone
        /\ LET q == Leave(Before, c, "timeout") IN chan' = q.chan /\ gone' = q.gone
        /\ UNCHANGED <<toServer, fault, login, clock, timer>>
  BY Zenon DEF CloseIdle, Due
<1>4. UNCHANGED runVars /\ UNCHANGED <<toServer, fault, clock>> /\ c \notin gone
  BY <1>1, <1>2, <1>3
<1>5. QueuesTyped(toServer, inbox, at) /\ at \in Nat /\ 0 < at
  BY ScriptIsList DEF TypeInv
<1>6. PICK r : Write(r, 0) /\ IsList(r.out)
  <2>1. CASE AskIdle(c)
    <3> DEFINE q == Tell(Before, {c}, "PING", "server", "", "", "token")
    <3>1. Write(q, 0)
      BY <2>1, Zenon DEF AskIdle
    <3>2. Speaks(q)
      BY BeforeSpeaks, TellSpeaks, Zenon
    <3> HIDE DEF q
    <3> QED
      BY <3>1, <3>2 DEF Speaks, IsReaction
  <2>2. CASE CloseIdle(c)
    <3> DEFINE q == Leave(Before, c, "timeout")
    <3>1. Write(q, 0)
      BY <2>2, Zenon DEF CloseIdle
    <3>2. Obeys(q, c)
      BY BeforeSpeaks, LeaveObeys
    <3> HIDE DEF q
    <3> QED
      BY <3>1, <3>2 DEF Obeys, SoundChannels, IsReaction
  <2> QED
    BY <1>1, <2>1, <2>2
<1>7. QueuesTyped(toServer', inbox', at)
  <2>1. /\ DOMAIN inbox' = Clients
        /\ \A d \in Clients : IsList(inbox'[d]) /\ \A m \in Elems(inbox'[d]) : Seen(m, at)
    BY <1>5, <1>6, WriteKeeps
  <2> QED
    BY <1>4, <1>5, <2>1 DEF QueuesTyped
<1>8. ChannelsTyped'
  <2>1. CASE AskIdle(c)
    BY <1>2, <2>1 DEF TypeInv, ChannelsTyped
  <2>2. CASE CloseIdle(c)
    <3> DEFINE q == Leave(Before, c, "timeout")
    <3>1. chan' = q.chan /\ gone' = q.gone
      BY Zenon, <1>3, <2>2
    <3>2. Obeys(q, c)
      BY BeforeSpeaks, LeaveObeys
    <3> HIDE DEF q
    <3> QED
      BY <1>4, <3>1, <3>2, ObeysKeeps DEF TypeInv
  <2> QED
    BY <1>1, <2>1, <2>2
<1>9. TimersTyped'
  <2>1. timer' \in {timer, [timer EXCEPT ![c] = [since |-> clock, asked |-> TRUE]]}
    BY <1>1, <1>2, <1>3
  <2> QED
    BY <1>4, <2>1 DEF TypeInv, TimersTyped
<1> QED
  BY <1>4, <1>7, <1>8, <1>9 DEF TypeInv, HistoryTyped, runVars, Script

\* Every step keeps the types.
LEMMA TypesNext == TypeInv /\ [Next]_vars => TypeInv'
<1> SUFFICES ASSUME TypeInv, [Next]_vars PROVE TypeInv'
  OBVIOUS
<1>1. CASE UNCHANGED vars
  BY <1>1 DEF vars, serverVars, runVars, TypeInv, Script, HistoryTyped, TimersTyped, ChannelsTyped
<1>2. CASE TestThread
  BY <1>2, SendKeeps, GetKeeps, QuietKeeps DEF TestThread
<1>3. CASE Server
  BY <1>3, ServeKeeps, IdleKeeps DEF Server
<1> QED
  BY <1>1, <1>2, <1>3 DEF Next

\* Whatever the suite, the server's fault and the order in which it serves the
\* connections: a test never runs past its script, who is in a channel is connected,
\* operators are members, and a message was caused by a step taken before it came.
THEOREM RunTypes == Spec => []TypeOK
<1> QED
  BY TypesInit, TypesNext, TypesFollow, PTL DEF Spec

-----------------------------------------------------------------------------
(* What a conforming server writes about a command *)

\* What members of a channel are told reaches nobody else.
MayHear(who, code, c, verb) ==
  \A d \in who \cap Clients :
    /\ code \in Tellable(verb, d = c)
    /\ verb \in Broadcasts /\ d # c => \E ch \in Channels : d \in chan[ch].members

\* Only a JOIN brought somebody, its sender, and what was written is what may be told.
Comers(c, cmd) == IF cmd.verb = "JOIN" THEN {c} ELSE {}
Fit(r, c, cmd) ==
  /\ IsReaction(r)
  /\ \A ch \in Channels : r.chan[ch].members \subseteq chan[ch].members \cup Comers(c, cmd)
  /\ \A i \in DOMAIN r.out : MayHear(r.out[i].to, r.out[i].msg.cmd, c, cmd.verb)

\* There may be more to come; or there is none after a message that ends the answer.
Opened(r, c, cmd)   == Fit(r, c, cmd) /\ \A i \in DOMAIN r.out : ~Ends(cmd, r.out[i].msg.cmd)
Answered(r, c, cmd) ==
  Fit(r, c, cmd) /\ \A i, j \in DOMAIN r.out : i < j => ~Ends(cmd, r.out[i].msg.cmd)

\* What has not ended has not gone on after its end.
LEMMA OpenedAnswered ==
  ASSUME NEW r, NEW c, NEW cmd, Opened(r, c, cmd)
  PROVE  Answered(r, c, cmd)
  BY DEF Opened, Answered

\* One message more.
LEMMA AppendAnswers ==
  ASSUME NEW r, NEW c, NEW cmd, Opened(r, c, cmd),
         NEW x, MayHear(x.to, x.msg.cmd, c, cmd.verb)
  PROVE  /\ Answered([r EXCEPT !.out = Append(@, x)], c, cmd)
         /\ ~Ends(cmd, x.msg.cmd) => Opened([r EXCEPT !.out = Append(@, x)], c, cmd)
<1> DEFINE new == Append(r.out, x)
           q   == [r EXCEPT !.out = new]
<1>1. /\ IsList(new) /\ Len(r.out) \in Nat /\ DOMAIN r.out = 1 .. Len(r.out)
      /\ DOMAIN new = 1 .. Len(r.out) + 1 /\ new[Len(r.out) + 1] = x
      /\ \A i \in 1 .. Len(r.out) : new[i] = r.out[i]
  <2>1. IsList(r.out)
    BY DEF Opened, Fit, IsReaction
  <2> DEFINE S == Elems(r.out) \cup {x}
  <2>2. r.out \in Seq(S) /\ x \in S
    BY <2>1, ListIsSeq
  <2> HIDE DEF S
  <2> QED
    BY <2>1, <2>2, AppendList, ListLength
<1> HIDE DEF new
<1>2. q.chan = r.chan /\ q.out = new /\ {"chan", "out"} \subseteq DOMAIN q
  BY DEF Opened, Fit, IsReaction
<1> HIDE DEF q
<1>3. Fit(q, c, cmd)
  <2>1. IsReaction(q)
    BY <1>1, <1>2 DEF Opened, Fit, IsReaction
  <2>2. ASSUME NEW i \in DOMAIN q.out
        PROVE  MayHear(q.out[i].to, q.out[i].msg.cmd, c, cmd.verb)
    <3>1. i \in 1 .. Len(r.out) => new[i] = r.out[i] /\ i \in DOMAIN r.out
      BY <1>1
    <3>2. i \in 1 .. Len(r.out) \/ i = Len(r.out) + 1
      BY <1>1, <1>2
    <3> QED
      BY <1>1, <1>2, <3>1, <3>2 DEF Opened, Fit
  <2> QED
    BY <1>2, <2>1, <2>2 DEF Opened, Fit
<1>4. Answered(q, c, cmd)
  BY <1>1, <1>2, <1>3 DEF Opened, Answered
<1>5. ~Ends(cmd, x.msg.cmd) => Opened(q, c, cmd)
  BY <1>1, <1>2, <1>3 DEF Opened
<1> QED
  BY <1>4, <1>5 DEF q, new

\* A message to some.
LEMMA TellAnswers ==
  ASSUME NEW r, NEW c, NEW cmd, Opened(r, c, cmd),
         NEW who, NEW code, NEW from, NEW ch, NEW nick, NEW text,
         MayHear(who, code, c, cmd.verb)
  PROVE  /\ Answered(Tell(r, who, code, from, ch, nick, text), c, cmd)
         /\ ~Ends(cmd, code) => Opened(Tell(r, who, code, from, ch, nick, text), c, cmd)
<1> DEFINE x == Line(who, code, from, ch, nick, text)
<1>1. x.to = who /\ x.msg.cmd = code
  BY DEF Line
<1> HIDE DEF x
<1>2. Tell(r, who, code, from, ch, nick, text) = [r EXCEPT !.out = Append(@, x)]
  BY DEF Tell, x
<1> DEFINE q == [r EXCEPT !.out = Append(@, x)]
<1>3. Answered(q, c, cmd) /\ (~Ends(cmd, x.msg.cmd) => Opened(q, c, cmd))
  <2>1. MayHear(x.to, x.msg.cmd, c, cmd.verb)
    BY <1>1
  <2> QED
    BY <2>1, AppendAnswers, Zenon
<1> HIDE DEF q
<1> QED
  BY <1>1, <1>2, <1>3 DEF q

\* A numeric reply, if the server gives it.
LEMMA NumericAnswers ==
  ASSUME NEW r, NEW c, NEW cmd, Opened(r, c, cmd), NEW code, NEW ch, NEW nick,
         code \in Codes(cmd.verb)
  PROVE  /\ Answered(Numeric(r, c, code, ch, nick), c, cmd)
         /\ ~Ends(cmd, code) => Opened(Numeric(r, c, code, ch, nick), c, cmd)
<1>1. MayHear({c}, code, c, cmd.verb)
  BY DEF MayHear, Tellable
<1> DEFINE q == Tell(r, {c}, code, "server", ch, nick, "")
<1>2. Answered(q, c, cmd) /\ (~Ends(cmd, code) => Opened(q, c, cmd))
  BY <1>1, TellAnswers, Zenon
<1>3. Numeric(r, c, code, ch, nick) \in {r, q}
  BY Zenon DEF Numeric
<1> HIDE DEF q
<1> QED
  BY <1>2, <1>3, OpenedAnswered

\* Several messages more, none of which ends the answer.
LEMMA ConcatAnswers ==
  ASSUME NEW r, NEW c, NEW cmd, Opened(r, c, cmd),
         NEW t, NEW n \in Nat, t = [i \in 1 .. n |-> t[i]],
         \A i \in 1 .. n : /\ MayHear(t[i].to, t[i].msg.cmd, c, cmd.verb)
                           /\ ~Ends(cmd, t[i].msg.cmd)
  PROVE  Opened([r EXCEPT !.out = @ \o t], c, cmd)
<1> DEFINE new == r.out \o t
           q   == [r EXCEPT !.out = new]
<1>1. IsList(new) /\ Elems(new) \subseteq Elems(r.out) \cup {t[i] : i \in 1 .. n}
  BY ConcatList DEF Opened, Fit, IsReaction
<1> HIDE DEF new
<1>2. q.chan = r.chan /\ q.out = new /\ {"chan", "out"} \subseteq DOMAIN q
  BY DEF Opened, Fit, IsReaction
<1> HIDE DEF q
<1>3. \A i \in DOMAIN new : new[i] \in Elems(r.out) \cup {t[k] : k \in 1 .. n}
  BY <1>1 DEF Elems
<1>4. \A x \in Elems(r.out) : MayHear(x.to, x.msg.cmd, c, cmd.verb) /\ ~Ends(cmd, x.msg.cmd)
  BY DEF Elems, Fit, Opened
<1>5. IsReaction(q)
  BY <1>1, <1>2 DEF Opened, Fit, IsReaction
<1>6. \A i \in DOMAIN new : /\ MayHear(new[i].to, new[i].msg.cmd, c, cmd.verb)
                            /\ ~Ends(cmd, new[i].msg.cmd)
  BY <1>3, <1>4
<1> QED
  BY <1>2, <1>5, <1>6 DEF Opened, Fit, q, new

\* A channel in the place of another, with the same people or the sender of a JOIN.
LEMMA SetAnswers ==
  ASSUME NEW r, NEW c, NEW cmd, Opened(r, c, cmd), NEW ch, NEW k,
         ch \in Channels => /\ Replaces(k, r.chan[ch])
                            /\ k.members \subseteq r.chan[ch].members \cup Comers(c, cmd)
  PROVE  Opened(Set(r, ch, k), c, cmd)
<1> DEFINE q == Set(r, ch, k)
<1>1. IsReaction(q) /\ q.out = r.out
      /\ \A d \in Channels : q.chan[d] = IF d = ch THEN k ELSE r.chan[d]
  <2>1. IsReaction(r)
    BY DEF Opened, Fit
  <2>2. q.out = r.out
    BY <2>1 DEF Set, IsReaction
  <2>3. Leads(r, q) /\ \A d \in Channels : q.chan[d] = IF d = ch THEN k ELSE r.chan[d]
    BY <2>1, SetLeads
  <2> HIDE DEF q
  <2> QED
    BY <2>2, <2>3 DEF Leads
<1> HIDE DEF q
<1>2. \A d \in Channels : q.chan[d].members \subseteq chan[d].members \cup Comers(c, cmd)
  BY <1>1 DEF Opened, Fit
<1> QED
  BY <1>1, <1>2 DEF Opened, Fit, q

\* A channel without one of its members.
LEMMA WithoutAnswers ==
  ASSUME NEW r, NEW c, NEW cmd, Opened(r, c, cmd), NEW ch, NEW d
  PROVE  Opened(Set(r, ch, Without(r.chan[ch], d)), c, cmd)
<1>1. ch \in Channels => /\ Replaces(Without(r.chan[ch], d), r.chan[ch])
                         /\ Without(r.chan[ch], d).members \subseteq r.chan[ch].members
  BY WithoutReplaces DEF Opened, Fit, IsReaction
<1> QED
  BY <1>1, SetAnswers

\* The members of a channel, and the sender, may hear what members are told.
LEMMA MembersHear ==
  ASSUME NEW r, NEW c, NEW cmd, Fit(r, c, cmd), NEW ch, NEW code,
         code \in Announced(cmd.verb), NEW who, who \subseteq K(r, ch).members \cup {c}
  PROVE  MayHear(who, code, c, cmd.verb)
<1>1. \A d \in K(r, ch).members : d # c => \E in \in Channels : d \in chan[in].members
  <2>1. CASE ch \in Channels
    BY <2>1 DEF Fit, K, Comers
  <2>2. CASE ch \notin Channels
    BY <2>2 DEF K, NoChannel
  <2> QED
    BY <2>1, <2>2
<1>2. \A own \in BOOLEAN : code \in Tellable(cmd.verb, own)
  BY Zenon DEF Tellable
<1> QED
  BY <1>1, <1>2 DEF MayHear

\* These commands may have any number of answers.
LEMMA EndlessVerbs ==
  ASSUME NEW cmd, cmd.verb \in {"PASS", "NICK", "USER", "QUIT", "PING", "PONG"}
  PROVE  \A reply : ~Ends(cmd, reply)
  BY DEF Ends, Single

\* What a connection says of itself is no answer.
LEMMA LoginAnswers ==
  ASSUME NEW r, NEW c, NEW cmd, Opened(r, c, cmd), NEW l
  PROVE  Opened([r EXCEPT !.login = l], c, cmd)
<1> DEFINE q == [r EXCEPT !.login = l]
<1>1. q.chan = r.chan /\ q.out = r.out /\ DOMAIN q = DOMAIN r
  BY DEF Opened, Fit, IsReaction
<1> HIDE DEF q
<1> QED
  BY <1>1 DEF Opened, Fit, IsReaction, q

\* Nor is the welcome the last.
LEMMA WelcomeAnswers ==
  ASSUME NEW r, NEW c, NEW cmd, Opened(r, c, cmd), cmd.verb \in {"PASS", "NICK", "USER"}
  PROVE  Opened(Welcome(r, c), c, cmd)
<1> DEFINE new == [r.login EXCEPT ![c].reg = TRUE]
           q   == [r EXCEPT !.login = new]
<1>1. Opened(q, c, cmd)
  <2> HIDE DEF new
  <2> QED
    BY LoginAnswers
<1>2. Welcome(r, c) \in
        {r, Numeric(Numeric(q, c, "001", "", c), c, "002", "", c)}
  BY Zenon DEF Welcome
<1> HIDE DEF q
<1>3. "001" \in Codes(cmd.verb) /\ "002" \in Codes(cmd.verb)
  BY DEF Codes
<1>4. ~Ends(cmd, "001") /\ ~Ends(cmd, "002")
  BY EndlessVerbs
<1>5. Opened(Numeric(q, c, "001", "", c), c, cmd)
  BY <1>1, <1>3, <1>4, NumericAnswers, Zenon
<1>6. Opened(Numeric(Numeric(q, c, "001", "", c), c, "002", "", c), c, cmd)
  BY <1>3, <1>4, <1>5, NumericAnswers, Zenon
<1> QED
  BY <1>2, <1>6, Zenon

\* PASS, NICK and USER.
LEMMA RegistrationAnswers ==
  ASSUME NEW r, NEW c, NEW cmd, Opened(r, c, cmd)
  PROVE  /\ cmd.verb = "PASS" => Opened(Pass(r, c, cmd), c, cmd)
         /\ cmd.verb = "NICK" => Opened(Nick(r, c, cmd), c, cmd)
         /\ cmd.verb = "USER" => Opened(NameUser(r, c), c, cmd)
<1> DEFINE auth == [r.login EXCEPT ![c].auth = TRUE]
           nick == [r.login EXCEPT ![c].nick = cmd.text]
           user == [r.login EXCEPT ![c].user = TRUE]
<1>1. cmd.verb = "PASS" => Opened(Welcome([r EXCEPT !.login = auth], c), c, cmd)
  <2> HIDE DEF auth
  <2> QED
    BY LoginAnswers, WelcomeAnswers
<1>2. cmd.verb = "NICK" => Opened(Welcome([r EXCEPT !.login = nick], c), c, cmd)
  <2> HIDE DEF nick
  <2> QED
    BY LoginAnswers, WelcomeAnswers
<1>3. cmd.verb = "USER" => Opened(Welcome([r EXCEPT !.login = user], c), c, cmd)
  <2> HIDE DEF user
  <2> QED
    BY LoginAnswers, WelcomeAnswers
<1>4. cmd.verb = "PASS" => "464" \in Codes(cmd.verb) /\ ~Ends(cmd, "464")
  BY EndlessVerbs DEF Codes
<1>5. cmd.verb = "NICK" => "433" \in Codes(cmd.verb) /\ ~Ends(cmd, "433")
  BY EndlessVerbs DEF Codes
<1>6. cmd.verb = "PASS" => Opened(Pass(r, c, cmd), c, cmd)
  BY <1>1, <1>4, NumericAnswers, Zenon DEF Pass
<1>7. cmd.verb = "NICK" => Opened(Nick(r, c, cmd), c, cmd)
  BY <1>2, <1>5, NumericAnswers, Zenon DEF Nick
<1>8. cmd.verb = "USER" => Opened(NameUser(r, c), c, cmd)
  BY <1>3, Zenon DEF NameUser
<1> QED
  BY <1>6, <1>7, <1>8

\* Of a QUIT those hear who shared a channel.
LEMMA LeaveAnswers ==
  ASSUME NEW r, NEW c, NEW cmd, Opened(r, c, cmd), cmd.verb = "QUIT", NEW text
  PROVE  Opened(Leave(r, c, text), c, cmd)
<1> DEFINE shared == {d \in Clients \ {c} :
                        \E ch \in Channels : {c, d} \subseteq r.chan[ch].members}
           left(ch) == IF c \in r.chan[ch].members THEN Without(r.chan[ch], c)
                                                   ELSE r.chan[ch]
           new  == [ch \in Channels |-> left(ch)]
           q    == [r EXCEPT !.gone = @ \cup {c}, !.chan = new]
<1>1. ASSUME NEW ch \in Channels
      PROVE  IsChannel(left(ch)) /\ left(ch).members \subseteq r.chan[ch].members
  <2>1. /\ Replaces(Without(r.chan[ch], c), r.chan[ch])
        /\ Without(r.chan[ch], c).members \subseteq r.chan[ch].members
    BY WithoutReplaces DEF Opened, Fit, IsReaction
  <2> QED
    BY <2>1 DEF Opened, Fit, IsReaction, Replaces
<1> HIDE DEF left
<1>2. DOMAIN new = Channels /\ \A ch \in Channels : new[ch] = left(ch)
  OBVIOUS
<1> HIDE DEF new
<1>3. DOMAIN q = DOMAIN r /\ q.chan = new /\ q.out = r.out
  BY DEF Opened, Fit, IsReaction
<1>4. Leave(r, c, text) \in {q, Tell(q, shared, "QUIT", c, "", "", text)}
  BY Zenon DEF Leave, new, left
<1> HIDE DEF q
<1>5. Opened(q, c, cmd)
  BY <1>1, <1>2, <1>3 DEF Opened, Fit, IsReaction
<1>6. MayHear(shared, "QUIT", c, cmd.verb)
  <2>1. "QUIT" \in Announced(cmd.verb)
    BY DEF Announced, Broadcasts
  <2>2. \A d \in shared : d # c => \E ch \in Channels : d \in chan[ch].members
    BY DEF Opened, Fit, Comers
  <2> QED
    BY <2>1, <2>2 DEF MayHear, Tellable
<1> HIDE DEF shared
<1>7. ~Ends(cmd, "QUIT")
  BY EndlessVerbs
<1>8. Opened(Tell(q, shared, "QUIT", c, "", "", text), c, cmd)
  BY <1>5, <1>6, <1>7, TellAnswers, Zenon
<1> QED
  BY <1>4, <1>5, <1>8, Zenon

\* PING.
LEMMA PingAnswers ==
  ASSUME NEW r, NEW c, NEW cmd, Opened(r, c, cmd), cmd.verb = "PING", NEW text
  PROVE  Answered(Tell(r, {c}, "PONG", "server", "", "", text), c, cmd)
<1>1. MayHear({c}, "PONG", c, cmd.verb)
  BY DEF MayHear, Tellable, Announced
<1> QED
  BY <1>1, TellAnswers, Zenon

\* WHO has a line for each client, then the end.
LEMMA WhoAnswers ==
  ASSUME fault = "none", NEW r, NEW c, NEW cmd, Opened(r, c, cmd), cmd.verb = "WHO"
  PROVE  Answered(Who(r, c, cmd), c, cmd)
<1> DEFINE named   == cmd.chans = <<>>
           who     == IF named THEN {cmd.nicks[1]} \cap Clients ELSE K(r, cmd.chans[1]).members
           shown   == {d \in who : ~Has("who_channels_only") \/ ChannelsOf(r, d) # {}}
           in(d)   == IF ~named THEN cmd.chans[1]
                      ELSE IF ChannelsOf(r, d) = {} THEN "*"
                      ELSE CHOOSE ch \in ChannelsOf(r, d) : TRUE
           order   == SetToSeq(shown)
           t       == [i \in DOMAIN order |-> WhoReply(r, c, in(order[i]), order[i])]
           replies == [r EXCEPT !.out = @ \o t]
           end(q)  == IF named THEN Numeric(q, c, "315", "", cmd.nicks[1])
                      ELSE Numeric(q, c, "315", cmd.chans[1], "")
<1>1. "352" \in Codes(cmd.verb) /\ "315" \in Codes(cmd.verb) /\ ~Ends(cmd, "352")
  BY DEF Codes, Ends, Single
<1>2. Opened(replies, c, cmd)
  <2>1. shown \subseteq Clients
    <3>1. K(r, cmd.chans[1]).members \subseteq Clients
      BY DEF Opened, Fit, IsReaction, IsChannel, K, NoChannel
    <3> QED
      BY <3>1
  <2> HIDE DEF shown
  <2>2. Cardinality(shown) \in Nat /\ DOMAIN order = 1 .. Cardinality(shown)
    BY <2>1, SetToSeqNumbered
  <2> HIDE DEF order
  <2> HIDE DEF in
  <2>3. /\ t = [i \in 1 .. Cardinality(shown) |-> t[i]]
        /\ \A i \in 1 .. Cardinality(shown) : t[i].to = {c} /\ t[i].msg.cmd = "352"
    <3>1. \A ch, d : WhoReply(r, c, ch, d).to = {c} /\ WhoReply(r, c, ch, d).msg.cmd = "352"
      BY Zenon DEF WhoReply, Line
    <3> QED
      BY <2>2, <3>1
  <2> HIDE DEF t
  <2>4. MayHear({c}, "352", c, cmd.verb)
    BY <1>1 DEF MayHear, Tellable
  <2> QED
    BY <1>1, <2>2, <2>3, <2>4, ConcatAnswers
<1>3. Who(r, c, cmd) = end(replies)
  <2>1. ~Has("who_error_first") /\ ~Has("who_error_last")
    BY DEF Has
  <2> QED
    BY <2>1, Zenon DEF Who
<1> HIDE DEF replies, named
<1> QED
  BY <1>1, <1>2, <1>3, NumericAnswers, Zenon

\* LIST has a line for each channel between its first and its last.
LEMMA ListAnswers ==
  ASSUME NEW r, NEW c, NEW cmd, Opened(r, c, cmd), cmd.verb = "LIST", Numbered(cmd.chans)
  PROVE  Answered(List(r, c, cmd), c, cmd)
<1> DEFINE count(ch) == IF Has("list_counts_none") THEN 0
                        ELSE Cardinality(r.chan[ch].members)
           item(ch) == Line({c}, "322", "server", ch, ToString(count(ch)), r.chan[ch].topic)
           list == SelectSeq(cmd.chans, LAMBDA ch : Exists(r, ch))
           t    == [i \in DOMAIN list |-> item(list[i])]
           head == Numeric(r, c, "321", "", "")
           all  == [head EXCEPT !.out = @ \o t]
<1>1. Len(list) \in Nat /\ DOMAIN list = 1 .. Len(list)
  BY DEF Numbered
<1> HIDE DEF list, count
<1>2. /\ t = [i \in 1 .. Len(list) |-> t[i]]
      /\ \A i \in 1 .. Len(list) : t[i].to = {c} /\ t[i].msg.cmd = "322"
  <2>1. \A ch : item(ch).to = {c} /\ item(ch).msg.cmd = "322"
    BY Zenon DEF Line
  <2> HIDE DEF item
  <2> QED
    BY <1>1, <2>1
<1> HIDE DEF t
<1>3. /\ {"321", "322", "323"} \subseteq Codes(cmd.verb)
      /\ ~Ends(cmd, "321") /\ ~Ends(cmd, "322")
  BY DEF Codes, Ends, Single
<1>4. Opened(head, c, cmd)
  BY <1>3, NumericAnswers, Zenon
<1> HIDE DEF head
<1>5. MayHear({c}, "322", c, cmd.verb)
  BY <1>3 DEF MayHear, Tellable
<1>6. Opened(all, c, cmd)
  BY <1>1, <1>2, <1>3, <1>4, <1>5, ConcatAnswers
<1>7. List(r, c, cmd) = Numeric(all, c, "323", "", "")
  BY Zenon DEF List, head, t, list, item, count
<1> HIDE DEF all
<1>8. "323" \in Codes(cmd.verb)
  BY <1>3
<1> QED
  BY <1>6, <1>7, <1>8, NumericAnswers, Zenon

\* WHOIS has four lines, or says that there is no such client.
LEMMA WhoisAnswers ==
  ASSUME NEW r, NEW c, NEW cmd, Opened(r, c, cmd), cmd.verb = "WHOIS"
  PROVE  Answered(Whois(r, c, cmd), c, cmd)
<1> DEFINE d     == cmd.nicks[1]
           list  == IF Has("whois_hides_channels") THEN <<>> ELSE cmd.chans
           mark(ch) == IF d \in r.chan[ch].ops THEN "@" ELSE ""
           q     == Tell(r, {c}, "311", "server", "", d, "real name")
           x     == [to |-> {c},
                     msg |-> [cmd |-> "319", from |-> "server", chan |-> "", nick |-> d,
                              text |-> IF list = <<>> THEN "" ELSE list[Len(list)],
                              names |-> {<<mark(list[i]), list[i]>> : i \in DOMAIN list}]]
           q319  == [q EXCEPT !.out = Append(@, x)]
<1>1. /\ {"311", "317", "318", "319", "401"} \subseteq Codes(cmd.verb)
      /\ ~Ends(cmd, "311") /\ ~Ends(cmd, "317") /\ ~Ends(cmd, "319")
  BY DEF Codes, Ends, Single
<1>2. MayHear({c}, "311", c, cmd.verb) /\ MayHear({c}, "319", c, cmd.verb)
  BY <1>1 DEF MayHear, Tellable
<1>3. Opened(q, c, cmd)
  BY <1>1, <1>2, TellAnswers, Zenon
<1>4. x.to = {c} /\ x.msg.cmd = "319"
  BY Zenon
<1>5. Whois(r, c, cmd) = IF d \notin Clients THEN Numeric(r, c, "401", "", d)
                         ELSE Numeric(Numeric(q319, c, "317", "", d), c, "318", "", d)
  BY Zenon DEF Whois
<1> HIDE DEF q, x
<1>6. Opened(q319, c, cmd)
  BY <1>1, <1>2, <1>3, <1>4, AppendAnswers
<1> HIDE DEF q319
<1>7. "401" \in Codes(cmd.verb) /\ "317" \in Codes(cmd.verb) /\ "318" \in Codes(cmd.verb)
  BY <1>1
<1>8. Opened(Numeric(q319, c, "317", "", d), c, cmd)
  BY <1>1, <1>6, <1>7, NumericAnswers, Zenon
<1>9. Answered(Numeric(Numeric(q319, c, "317", "", d), c, "318", "", d), c, cmd)
  BY <1>7, <1>8, NumericAnswers, Zenon
<1>10. Answered(Numeric(r, c, "401", "", d), c, cmd)
  BY <1>7, NumericAnswers, Zenon
<1> QED
  BY <1>5, <1>9, <1>10, Zenon

\* NAMES of one channel: the list, if the client is in it, then the end.
LEMMA NamesAnswers ==
  ASSUME NEW r, NEW c, NEW cmd, Opened(r, c, cmd), NEW ch, cmd.verb \in {"JOIN", "NAMES"}
  PROVE  /\ Answered(Names(r, c, ch), c, cmd)
         /\ ~Ends(cmd, "366") => Opened(Names(r, c, ch), c, cmd)
<1> DEFINE list == {<<IF m \in K(r, ch).ops /\ ~Has("ops_unmarked") THEN "@" ELSE "", m>> :
                     m \in K(r, ch).members}
           x == [to |-> {c}, msg |-> [cmd |-> "353", from |-> "server", chan |-> ch,
                                      nick |-> "", text |-> "", names |-> list]]
           q == IF c \in K(r, ch).members THEN [r EXCEPT !.out = Append(@, x)] ELSE r
<1>1. "353" \in Codes(cmd.verb) /\ "366" \in Codes(cmd.verb) /\ ~Ends(cmd, "353")
  <2>1. CASE cmd.verb = "JOIN"
    BY <2>1 DEF Codes, Ends, Single
  <2>2. CASE cmd.verb = "NAMES"
    BY <2>2 DEF Codes, Ends, Single
  <2> QED
    BY <2>1, <2>2
<1>2. x.to = {c} /\ x.msg.cmd = "353"
  BY Zenon
<1>3. Names(r, c, ch) = Numeric(q, c, "366", ch, "")
  BY DEF Names
<1> HIDE DEF x
<1>4. MayHear({c}, "353", c, cmd.verb)
  BY <1>1 DEF MayHear, Tellable
<1>5. Opened([r EXCEPT !.out = Append(@, x)], c, cmd)
  BY <1>1, <1>2, <1>4, AppendAnswers
<1>6. Opened(q, c, cmd)
  BY <1>5, Zenon
<1> HIDE DEF q
<1> QED
  BY <1>1, <1>3, <1>6, NumericAnswers, Zenon

\* The topic, or that there is none.
LEMMA TopicReplyAnswers ==
  ASSUME NEW r, NEW c, NEW cmd, Opened(r, c, cmd), NEW ch, cmd.verb \in {"JOIN", "TOPIC"}
  PROVE  /\ Answered(TopicReply(r, c, ch), c, cmd)
         /\ cmd.verb = "JOIN" => Opened(TopicReply(r, c, ch), c, cmd)
<1> DEFINE code == IF r.chan[ch].topic = "" THEN "331" ELSE "332"
           q    == Tell(r, {c}, code, "server", ch, "", r.chan[ch].topic)
<1>1. code \in Codes(cmd.verb) /\ (cmd.verb = "JOIN" => ~Ends(cmd, code))
  <2>1. code \in {"331", "332"}
    BY Zenon
  <2> HIDE DEF code
  <2>2. CASE cmd.verb = "JOIN"
    BY <2>1, <2>2 DEF Codes, Ends, Single
  <2>3. CASE cmd.verb = "TOPIC"
    BY <2>1, <2>3 DEF Codes
  <2> QED
    BY <2>2, <2>3
<1>2. TopicReply(r, c, ch) = q
  BY Zenon DEF TopicReply
<1> HIDE DEF code
<1>3. MayHear({c}, code, c, cmd.verb)
  BY <1>1 DEF MayHear, Tellable
<1>4. Answered(q, c, cmd) /\ (~Ends(cmd, code) => Opened(q, c, cmd))
  BY <1>3, TellAnswers, Zenon
<1> QED
  BY <1>1, <1>2, <1>4, Zenon

\* JOIN of one channel.
LEMMA JoinOneAnswers ==
  ASSUME fault = "none", NEW r, NEW c \in Clients, NEW cmd, Opened(r, c, cmd),
         NEW ch \in Channels, NEW key, cmd.verb = "JOIN"
  PROVE  /\ Answered(JoinOne(r, c, ch, key), c, cmd)
         /\ (\A reply : ~Ends(cmd, reply)) => Opened(JoinOne(r, c, ch, key), c, cmd)
<1> DEFINE k      == r.chan[ch]
           ops    == IF k.members = {} /\ ~Has("creator_not_op") THEN {c} ELSE k.ops
           joined == [k EXCEPT !.members = @ \cup {c}, !.invited = @ \ {c}, !.ops = ops]
           q      == Set(r, ch, joined)
           said   == Tell(q, joined.members, "JOIN", c, ch, "", "")
           topic  == TopicReply(said, c, ch)
           code   == Refusal(k, c, key)
<1>1. ~Has("join_untold")
  BY DEF Has
<1>2. \/ JoinOne(r, c, ch, key) = r
      \/ /\ code # "none"
         /\ JoinOne(r, c, ch, key) = Numeric(r, c, code, ch, "")
      \/ JoinOne(r, c, ch, key) = Names(topic, c, ch)
  BY <1>1, Zenon DEF JoinOne
<1>3. Replaces(joined, k) /\ joined.members = k.members \cup {c}
  <2>1. IsChannel(k)
    BY DEF Opened, Fit, IsReaction
  <2>2. /\ DOMAIN joined = DOMAIN k /\ joined.members = k.members \cup {c}
        /\ joined.invited = k.invited \ {c} /\ joined.ops = ops
        /\ joined.flags = k.flags
    <3> HIDE DEF ops
    <3> QED
      BY <2>1, Fields DEF IsChannel
  <2> HIDE DEF joined
  <2> QED
    BY <2>1, <2>2 DEF Replaces, IsChannel, Sound
<1> HIDE DEF joined
<1>4. Opened(q, c, cmd)
  BY <1>3, SetAnswers DEF Comers
<1> HIDE DEF q
<1>5. MayHear(joined.members, "JOIN", c, cmd.verb)
  <2>1. "JOIN" \in Announced(cmd.verb)
    BY DEF Announced, Broadcasts
  <2>2. joined.members \subseteq K(r, ch).members \cup {c} /\ Fit(r, c, cmd)
    BY <1>3 DEF K, Opened
  <2> QED
    BY <2>1, <2>2, MembersHear
<1>6. ~Ends(cmd, "JOIN")
  BY DEF Ends, Single
<1>7. Opened(said, c, cmd)
  BY <1>4, <1>5, <1>6, TellAnswers, Zenon
<1> HIDE DEF said
<1>8. Opened(topic, c, cmd)
  BY <1>7, TopicReplyAnswers
<1> HIDE DEF topic
<1>9. Answered(Names(topic, c, ch), c, cmd) /\ (~Ends(cmd, "366") => Opened(Names(topic, c, ch), c, cmd))
  BY <1>8, NamesAnswers
<1>10. code # "none" => code \in Codes(cmd.verb)
  <2>1. code \in {"none", "471", "473", "475"}
    BY Zenon DEF Refusal
  <2> HIDE DEF code
  <2> QED
    BY <2>1 DEF Codes
<1> HIDE DEF code
<1>11. code # "none" => /\ Answered(Numeric(r, c, code, ch, ""), c, cmd)
                        /\ ~Ends(cmd, code) => Opened(Numeric(r, c, code, ch, ""), c, cmd)
  BY <1>10, NumericAnswers, Zenon
<1>12. Answered(r, c, cmd)
  BY OpenedAnswered
<1> QED
  BY <1>2, <1>9, <1>11, <1>12, Zenon

\* PART of one channel.
LEMMA PartOneAnswers ==
  ASSUME fault = "none", NEW r, NEW c, NEW cmd, Opened(r, c, cmd),
         NEW ch \in Channels, cmd.verb = "PART"
  PROVE  /\ Answered(PartOne(r, c, ch), c, cmd)
         /\ (\A reply : ~Ends(cmd, reply)) => Opened(PartOne(r, c, ch), c, cmd)
<1> DEFINE q == Set(r, ch, Without(r.chan[ch], c))
<1>1. ~Has("part_untold") /\ ~Has("part_keeps")
  BY DEF Has
<1>2. \/ PartOne(r, c, ch) = Numeric(r, c, "442", ch, "")
      \/ PartOne(r, c, ch) = Tell(q, r.chan[ch].members, "PART", c, ch, "", "")
  BY <1>1, Zenon DEF PartOne
<1>3. Opened(q, c, cmd)
  BY WithoutAnswers
<1> HIDE DEF q
<1>4. MayHear(r.chan[ch].members, "PART", c, cmd.verb)
  <2>1. "PART" \in Announced(cmd.verb)
    BY DEF Announced, Broadcasts
  <2>2. r.chan[ch].members \subseteq K(r, ch).members \cup {c} /\ Fit(r, c, cmd)
    BY DEF K, Opened
  <2> QED
    BY <2>1, <2>2, MembersHear
<1>5. "442" \in Codes(cmd.verb)
  BY DEF Codes
<1>6. /\ Answered(Tell(q, r.chan[ch].members, "PART", c, ch, "", ""), c, cmd)
      /\ ~Ends(cmd, "PART") => Opened(Tell(q, r.chan[ch].members, "PART", c, ch, "", ""), c, cmd)
  BY <1>3, <1>4, TellAnswers, Zenon
<1>7. /\ Answered(Numeric(r, c, "442", ch, ""), c, cmd)
      /\ ~Ends(cmd, "442") => Opened(Numeric(r, c, "442", ch, ""), c, cmd)
  BY <1>5, NumericAnswers, Zenon
<1> QED
  BY <1>2, <1>6, <1>7, Zenon

\* KICK of one client.
LEMMA KickOneAnswers ==
  ASSUME fault = "none", NEW r, NEW c, NEW cmd, Opened(r, c, cmd),
         NEW ch \in Channels, NEW nick, NEW text, cmd.verb = "KICK"
  PROVE  /\ Answered(KickOne(r, c, ch, nick, text), c, cmd)
         /\ (\A reply : ~Ends(cmd, reply)) => Opened(KickOne(r, c, ch, nick, text), c, cmd)
<1> DEFINE q == Set(r, ch, Without(r.chan[ch], nick))
<1>1. ~Has("kick_untold") /\ ~Has("kick_keeps")
  BY DEF Has
<1>2. \/ KickOne(r, c, ch, nick, text) = Numeric(r, c, "401", "", nick)
      \/ KickOne(r, c, ch, nick, text) = Numeric(r, c, "441", ch, nick)
      \/ KickOne(r, c, ch, nick, text) =
           Tell(q, r.chan[ch].members, "KICK", c, ch, nick, text)
  BY <1>1, Zenon DEF KickOne
<1>3. Opened(q, c, cmd)
  BY WithoutAnswers
<1> HIDE DEF q
<1>4. MayHear(r.chan[ch].members, "KICK", c, cmd.verb)
  <2>1. "KICK" \in Announced(cmd.verb)
    BY DEF Announced, Broadcasts
  <2>2. r.chan[ch].members \subseteq K(r, ch).members \cup {c} /\ Fit(r, c, cmd)
    BY DEF K, Opened
  <2> QED
    BY <2>1, <2>2, MembersHear
<1>5. "401" \in Codes(cmd.verb) /\ "441" \in Codes(cmd.verb)
  BY DEF Codes
<1>6. /\ Answered(Tell(q, r.chan[ch].members, "KICK", c, ch, nick, text), c, cmd)
      /\ ~Ends(cmd, "KICK") =>
           Opened(Tell(q, r.chan[ch].members, "KICK", c, ch, nick, text), c, cmd)
  BY <1>3, <1>4, TellAnswers, Zenon
<1>7. \A code \in {"401", "441"} : \A in, who :
        /\ Answered(Numeric(r, c, code, in, who), c, cmd)
        /\ ~Ends(cmd, code) => Opened(Numeric(r, c, code, in, who), c, cmd)
  BY <1>5, NumericAnswers, Zenon
<1> QED
  BY <1>2, <1>6, <1>7, Zenon

\* A sequence, by its length.
Measured(s) == Len(s) \in Nat /\ DOMAIN s = 1 .. Len(s)

\* Its channels and the channel of its targets are there.
Aimed(cmd) ==
  /\ cmd.verb \in {"JOIN", "PART"} => \A i \in DOMAIN cmd.chans : cmd.chans[i] \in Channels
  /\ cmd.verb = "KICK" => cmd.chans[1] \in Channels

\* One target of several.
LEMMA OneAnswers ==
  ASSUME fault = "none", NEW r, NEW c \in Clients, NEW cmd, Opened(r, c, cmd),
         cmd.verb \in {"JOIN", "PART", "NAMES", "KICK"},
         NEW target, cmd.verb \in {"JOIN", "PART"} => target \in Channels,
         cmd.verb = "KICK" => cmd.chans[1] \in Channels
  PROVE  /\ Answered(One(r, c, cmd, target), c, cmd)
         /\ (\A reply : ~Ends(cmd, reply)) => Opened(One(r, c, cmd, target), c, cmd)
<1>1. CASE cmd.verb = "JOIN"
  <2>1. One(r, c, cmd, target) = JoinOne(r, c, target, cmd.key)
    BY <1>1 DEF One
  <2> QED
    BY <1>1, <2>1, JoinOneAnswers
<1>2. CASE cmd.verb = "PART"
  <2>1. One(r, c, cmd, target) = PartOne(r, c, target)
    BY <1>2 DEF One
  <2> QED
    BY <1>2, <2>1, PartOneAnswers
<1>3. CASE cmd.verb = "NAMES"
  <2>1. One(r, c, cmd, target) = Names(r, c, target)
    BY <1>3 DEF One
  <2> QED
    BY <1>3, <2>1, NamesAnswers
<1>4. CASE cmd.verb = "KICK"
  <2>1. One(r, c, cmd, target) = KickOne(r, c, cmd.chans[1], target, cmd.text)
    BY <1>4 DEF One
  <2> QED
    BY <1>4, <2>1, KickOneAnswers
<1> QED
  BY <1>1, <1>2, <1>3, <1>4

\* However many: of several none ends the answer.
LEMMA EachAnswers ==
  ASSUME fault = "none", NEW r, NEW c \in Clients, NEW cmd, Opened(r, c, cmd),
         cmd.verb \in {"JOIN", "PART", "NAMES", "KICK"}, Aimed(cmd),
         NEW targets, Measured(targets),
         targets = IF cmd.verb = "KICK" THEN cmd.nicks ELSE cmd.chans
  PROVE  Answered(Each(r, c, cmd, targets), c, cmd)
<1>1. PICK n \in Nat : n = Len(targets) /\ DOMAIN targets = 1 .. n
  BY DEF Measured
<1>2. PICK h : Runs(h, r, c, cmd, targets, n) /\ Each(r, c, cmd, targets) = h[n]
  BY <1>1, OneByOne
<1>3. ASSUME NEW i \in 0 .. n - 1, Opened(h[i], c, cmd)
      PROVE  /\ Answered(h[i + 1], c, cmd)
             /\ (\A reply : ~Ends(cmd, reply)) => Opened(h[i + 1], c, cmd)
  <2>1. h[i + 1] = One(h[i], c, cmd, targets[i + 1]) /\ i + 1 \in DOMAIN targets
    BY <1>1, <1>2 DEF Runs
  <2>2. cmd.verb \in {"JOIN", "PART"} => targets[i + 1] \in Channels
    BY <2>1 DEF Aimed
  <2> QED
    BY <1>3, <2>1, <2>2, OneAnswers DEF Aimed
<1>4. h[0] = r
  BY <1>2 DEF Runs
<1>5. CASE n = 0
  BY <1>2, <1>4, <1>5, OpenedAnswered
<1>6. CASE n = 1
  <2>1. 0 \in 0 .. n - 1 /\ 0 + 1 = n
    BY <1>6
  <2> QED
    BY <1>2, <1>3, <1>4, <2>1
<1>7. CASE n > 1
  <2>1. \A reply : ~Ends(cmd, reply)
    <3>0. n # 1 /\ ~(n <= 1)
      BY <1>7
    <3>1. cmd.verb # "KICK" => ~(Len(cmd.chans) = 1)
      <4>1. cmd.verb # "KICK" => targets = cmd.chans
        BY Zenon
      <4> QED
        BY <1>1, <3>0, <4>1, Zenon
    <3>2. cmd.verb = "KICK" => ~(Len(cmd.nicks) <= 1)
      <4>1. cmd.verb = "KICK" => targets = cmd.nicks
        BY Zenon
      <4> QED
        BY <1>1, <3>0, <4>1, Zenon
    <3> QED
      BY <3>1, <3>2, Zenon DEF Ends, Single
  <2> DEFINE S == {i \in Nat : i <= n => Opened(h[i], c, cmd)}
  <2>2. 0 \in S
    BY <1>4
  <2>3. ASSUME NEW i \in Nat, i \in S
        PROVE  i + 1 \in S
    BY <1>3, <2>1, <2>3
  <2>4. Nat \subseteq S
    <3> HIDE DEF S
    <3> QED
      BY <2>2, <2>3, Induction
  <2> QED
    BY <1>2, <2>4, OpenedAnswered
<1> QED
  BY <1>5, <1>6, <1>7

\* One numeric reply, or one message to members.
LEMMA OneNumeric ==
  ASSUME NEW r, NEW c, NEW cmd, Opened(r, c, cmd)
  PROVE  \A code \in Codes(cmd.verb) : \A ch, nick :
          Answered(Numeric(r, c, code, ch, nick), c, cmd)
  BY NumericAnswers, Zenon

\* KICK.
LEMMA KickAnswers ==
  ASSUME fault = "none", NEW r, NEW c \in Clients, NEW cmd, Opened(r, c, cmd),
         cmd.verb = "KICK", Measured(cmd.nicks)
  PROVE  Answered(Kick(r, c, cmd), c, cmd)
<1> DEFINE ch == cmd.chans[1]
<1>1. ~Has("anyone_is_op") /\ ~Has("kick_anyway")
  BY DEF Has
<1>2. \/ \E code \in {"461", "403", "482"} : \E in, nick :
        Kick(r, c, cmd) = Numeric(r, c, code, in, nick)
      \/ Exists(r, ch) /\ Kick(r, c, cmd) = Each(r, c, cmd, cmd.nicks)
  BY <1>1, Zenon DEF Kick
<1>3. {"461", "403", "482"} \subseteq Codes(cmd.verb)
  BY DEF Codes
<1>4. ASSUME Exists(r, ch)
      PROVE  Answered(Each(r, c, cmd, cmd.nicks), c, cmd)
  <2>1. ch \in Channels
    BY <1>4 DEF Exists, K, NoChannel
  <2>2. Aimed(cmd)
    BY <2>1 DEF Aimed
  <2> QED
    BY <2>2, EachAnswers
<1>5. \A code \in {"461", "403", "482"} : \A in, nick :
        Answered(Numeric(r, c, code, in, nick), c, cmd)
  BY <1>3, OneNumeric, Zenon
<1> QED
  BY <1>2, <1>4, <1>5, Zenon

\* TOPIC.
LEMMA TopicAnswers ==
  ASSUME fault = "none", NEW r, NEW c, NEW cmd, Opened(r, c, cmd), cmd.verb = "TOPIC"
  PROVE  Answered(Topic(r, c, cmd), c, cmd)
<1> DEFINE ch   == cmd.chans[1]
           k    == K(r, ch)
           text == IF cmd.text = Blank THEN "" ELSE cmd.text
           new  == [k EXCEPT !.topic = text]
           q    == Set(r, ch, new)
           told == Tell(q, k.members, "TOPIC", c, ch, "", cmd.text)
<1>1. ~Has("topic_not_kept") /\ ~Has("topic_untold")
  BY DEF Has
<1>2. \/ \E code \in {"461", "403", "442", "482"} : \E in, nick :
           Topic(r, c, cmd) = Numeric(r, c, code, in, nick)
      \/ Topic(r, c, cmd) = TopicReply(r, c, ch)
      \/ Topic(r, c, cmd) = told
  BY <1>1, Zenon DEF Topic
<1>3. {"461", "403", "442", "482"} \subseteq Codes(cmd.verb)
  BY DEF Codes
<1>4. Opened(q, c, cmd)
  <2>1. ASSUME ch \in Channels
        PROVE  Replaces(new, r.chan[ch]) /\ new.members = r.chan[ch].members
    <3>1. k = r.chan[ch] /\ IsChannel(k)
      BY <2>1 DEF K, Opened, Fit, IsReaction
    <3> HIDE DEF k, text
    <3>2. /\ DOMAIN new = DOMAIN k /\ new.members = k.members /\ new.ops = k.ops
          /\ new.invited = k.invited /\ new.flags = k.flags
      BY <3>1, Fields DEF IsChannel
    <3> HIDE DEF new
    <3> QED
      BY <3>1, <3>2 DEF Replaces, IsChannel, Sound
  <2> HIDE DEF new
  <2> QED
    BY <2>1, SetAnswers
<1> HIDE DEF q
<1>5. MayHear(k.members, "TOPIC", c, cmd.verb)
  <2>1. "TOPIC" \in Announced(cmd.verb) /\ Fit(r, c, cmd)
    BY DEF Announced, Broadcasts, Opened
  <2> QED
    BY <2>1, MembersHear
<1>6. Answered(told, c, cmd)
  BY <1>4, <1>5, TellAnswers, Zenon
<1>7. Answered(TopicReply(r, c, ch), c, cmd)
  BY TopicReplyAnswers
<1>8. \A code \in {"461", "403", "442", "482"} : \A in, nick :
        Answered(Numeric(r, c, code, in, nick), c, cmd)
  BY <1>3, OneNumeric, Zenon
<1> HIDE DEF told
<1> QED
  BY <1>2, <1>6, <1>7, <1>8, Zenon

\* INVITE.
LEMMA InviteAnswers ==
  ASSUME fault = "none", NEW r, NEW c, NEW cmd, Opened(r, c, cmd), cmd.verb = "INVITE"
  PROVE  Answered(Invite(r, c, cmd), c, cmd)
<1> DEFINE nick == cmd.nicks[1]
           ch   == cmd.chans[1]
           k    == K(r, ch)
           new  == [k EXCEPT !.invited = @ \cup {nick}]
           q    == Set(r, ch, new)
           sent == Tell(q, {nick}, "INVITE", c, ch, nick, "")
           six  == {"461", "401", "403", "442", "443", "482"}
<1>1. ~Has("invitation_void") /\ ~Has("invite_confirmed")
  BY DEF Has
<1>2. \/ \E code \in six : \E in, who : Invite(r, c, cmd) = Numeric(r, c, code, in, who)
      \/ nick \in Clients /\ Invite(r, c, cmd) = sent
  BY <1>1, Zenon DEF Invite
<1>3. six \subseteq Codes(cmd.verb)
  BY DEF Codes
<1>4. ASSUME nick \in Clients
      PROVE  Opened(q, c, cmd)
  <2>1. ASSUME ch \in Channels
        PROVE  Replaces(new, r.chan[ch]) /\ new.members = r.chan[ch].members
    <3>1. k = r.chan[ch] /\ IsChannel(k)
      BY <2>1 DEF K, Opened, Fit, IsReaction
    <3> HIDE DEF k
    <3>2. /\ DOMAIN new = DOMAIN k /\ new.members = k.members /\ new.ops = k.ops
          /\ new.invited = k.invited \cup {nick} /\ new.flags = k.flags
      BY <3>1, Fields DEF IsChannel
    <3> HIDE DEF new
    <3> QED
      BY <1>4, <3>1, <3>2 DEF Replaces, IsChannel, Sound
  <2> HIDE DEF new
  <2> QED
    BY <2>1, SetAnswers
<1> HIDE DEF q
<1>5. MayHear({nick}, "INVITE", c, cmd.verb)
  <2>1. "INVITE" \in Announced(cmd.verb) /\ cmd.verb \notin Broadcasts
    BY DEF Announced, Broadcasts
  <2> QED
    BY <2>1 DEF MayHear, Tellable
<1>6. nick \in Clients => Answered(sent, c, cmd)
  BY <1>4, <1>5, TellAnswers, Zenon
<1>7. \A code \in six : \A in, who : Answered(Numeric(r, c, code, in, who), c, cmd)
  BY <1>3, OneNumeric, Zenon
<1> HIDE DEF sent, six
<1> QED
  BY <1>2, <1>6, <1>7, Zenon

\* MODE.
LEMMA ModeAnswers ==
  ASSUME fault = "none", NEW r, NEW c, NEW cmd, Opened(r, c, cmd), cmd.verb = "MODE"
  PROVE  Answered(Mode(r, c, cmd), c, cmd)
<1> DEFINE ch    == cmd.chans[1]
           k     == K(r, ch)
           named == cmd.nicks # <<>>
           ok    == /\ ~(Letter(cmd) = "o" /\ cmd.nicks = <<>>)
                    /\ Letter(cmd) \in {"o", "k", "l", "i", "t", "n"}
                    /\ ~(named /\ cmd.nicks[1] \notin Clients)
                    /\ ~(named /\ cmd.nicks[1] \notin k.members /\ ~Has("outsider_opped"))
           q     == Set(r, ch, Changed(k, cmd))
           told  == Tell(q, k.members, "MODE", c, ch, Parameter(cmd), cmd.text)
           five  == {"461", "482", "472", "401", "441"}
<1>1. ~Has("mode_untold")
  BY DEF Has
<1>2. \/ ok /\ Mode(r, c, cmd) = told
      \/ Mode(r, c, cmd) = r
      \/ \E code \in five : \E in, nick : Mode(r, c, cmd) = Numeric(r, c, code, in, nick)
  BY <1>1, Zenon DEF Mode
<1>3. five \subseteq Codes(cmd.verb)
  BY DEF Codes
<1>4. ASSUME ok
      PROVE  Opened(q, c, cmd)
  <2>1. ASSUME ch \in Channels
        PROVE  /\ Replaces(Changed(k, cmd), r.chan[ch])
               /\ Changed(k, cmd).members = r.chan[ch].members
    <3>1. k = r.chan[ch] /\ IsChannel(k)
      BY <2>1 DEF K, Opened, Fit, IsReaction
    <3>2. Letter(cmd) \in Letters \cup {"o"}
      BY <1>4 DEF Letters
    <3>3. Letter(cmd) = "o" => /\ cmd.nicks[1] \in Clients
                               /\ cmd.nicks[1] \in k.members \/ Has("outsider_opped")
      BY <1>4, Zenon
    <3> HIDE DEF k
    <3> QED
      BY <3>1, <3>2, <3>3, ChangedReplaces
  <2> QED
    BY <2>1, SetAnswers
<1> HIDE DEF q, ok
<1>5. MayHear(k.members, "MODE", c, cmd.verb)
  <2>1. "MODE" \in Announced(cmd.verb) /\ Fit(r, c, cmd)
    BY DEF Announced, Broadcasts, Opened
  <2> QED
    BY <2>1, MembersHear
<1>6. ok => Answered(told, c, cmd)
  BY <1>4, <1>5, TellAnswers, Zenon
<1>7. \A code \in five : \A in, nick : Answered(Numeric(r, c, code, in, nick), c, cmd)
  BY <1>3, OneNumeric, Zenon
<1>8. Answered(r, c, cmd)
  BY OpenedAnswered
<1> HIDE DEF told, five
<1> QED
  BY <1>2, <1>6, <1>7, <1>8, Zenon

\* PRIVMSG and NOTICE reach whoever they are for.
LEMMA MessageAnswers ==
  ASSUME fault = "none", NEW r, NEW c, NEW cmd, Opened(r, c, cmd),
         cmd.verb \in {"PRIVMSG", "NOTICE"}
  PROVE  Answered(ToNick(r, c, cmd), c, cmd) /\ Answered(ToChannel(r, c, cmd), c, cmd)
<1>1. ~Has("notice_answered") /\ ~Echoed(cmd)
  BY DEF Has, Echoed
<1>2. {"401", "403", "404"} \subseteq Codes(cmd.verb) /\ cmd.verb \in Announced(cmd.verb)
      /\ cmd.verb \notin Broadcasts
  <2>1. CASE cmd.verb = "PRIVMSG"
    BY <2>1 DEF Codes, Announced, Broadcasts
  <2>2. CASE cmd.verb = "NOTICE"
    BY <2>2 DEF Codes, Announced, Broadcasts
  <2> QED
    BY <2>1, <2>2
<1>3. Answered(r, c, cmd)
  BY OpenedAnswered
<1>4. \A code \in {"401", "403", "404"} : \A in, nick :
        Answered(Numeric(r, c, code, in, nick), c, cmd)
  BY <1>2, OneNumeric, Zenon
<1>5. \A who : MayHear(who, cmd.verb, c, cmd.verb)
  BY <1>2 DEF MayHear, Tellable
<1>6. \A who, ch, nick, text : Answered(Tell(r, who, cmd.verb, c, ch, nick, text), c, cmd)
  BY <1>5, TellAnswers, Zenon
<1>7. \/ ToNick(r, c, cmd) = r
      \/ \E who, ch, nick, text : ToNick(r, c, cmd) = Tell(r, who, cmd.verb, c, ch, nick, text)
      \/ \E nick : ToNick(r, c, cmd) = Numeric(r, c, "401", "", nick)
  BY <1>1, Zenon DEF ToNick
<1>8. \/ ToChannel(r, c, cmd) = r
      \/ \E who, ch, nick, text :
           ToChannel(r, c, cmd) = Tell(r, who, cmd.verb, c, ch, nick, text)
      \/ \E code \in {"403", "404"} : \E ch :
              ToChannel(r, c, cmd) = Numeric(r, c, code, ch, "")
  BY <1>1, Zenon DEF ToChannel
<1> QED
  BY <1>3, <1>4, <1>6, <1>7, <1>8, Zenon

\* Whatever the command.
LEMMA AnswerAnswers ==
  ASSUME fault = "none", NEW r, NEW c \in Clients, NEW cmd, Opened(r, c, cmd),
         cmd.verb \in Verbs, Measured(cmd.chans), Measured(cmd.nicks), cmd.verb \in {"JOIN", "PART"} => Aimed(cmd)
  PROVE  Answered(Answer(r, c, cmd), c, cmd)
<1> DEFINE a == Answer(r, c, cmd)
<1>1. \A f \in {"quit_ignored", "first_target_only"} : ~Has(f)
  BY DEF Has
<1>2. /\ cmd.verb = "PASS" => a = Pass(r, c, cmd)
      /\ cmd.verb = "NICK" => a = Nick(r, c, cmd)
      /\ cmd.verb = "USER" => a = NameUser(r, c)
  BY Zenon DEF Answer
<1>3. cmd.verb = "QUIT" => a = Leave(r, c, cmd.text)
  BY <1>1, Zenon DEF Answer
<1>4. cmd.verb = "PING" => \E word : a = Tell(r, {c}, "PONG", "server", "", "", word)
  BY Zenon DEF Answer
<1>5. cmd.verb = "PONG" => a = r
  BY Zenon DEF Answer
<1>6. /\ cmd.verb = "WHO" => a = Who(r, c, cmd)
      /\ cmd.verb = "LIST" => a = List(r, c, cmd)
      /\ cmd.verb = "WHOIS" => a = Whois(r, c, cmd)
  BY Zenon DEF Answer
<1>7. cmd.verb \in ChannelVerbs => a = React(r, c, cmd)
  BY Zenon DEF Answer, ChannelVerbs
<1>8. cmd.verb \in {"JOIN", "PART", "NAMES"} => a = Each(r, c, cmd, cmd.chans)
  <2>1. cmd.verb \in {"JOIN", "PART", "NAMES"} => React(r, c, cmd) = Each(r, c, cmd, cmd.chans)
    BY <1>1, Zenon DEF React
  <2> QED
    BY <1>7, <2>1 DEF ChannelVerbs
<1>9. cmd.verb = "KICK" => a = Kick(r, c, cmd)
  <2>1. cmd.verb = "KICK" => React(r, c, cmd) = Kick(r, c, cmd)
    BY <1>1, Zenon DEF React
  <2> QED
    BY <1>7, <2>1 DEF ChannelVerbs
<1>10. /\ cmd.verb = "TOPIC" => a = Topic(r, c, cmd)
       /\ cmd.verb = "INVITE" => a = Invite(r, c, cmd)
       /\ cmd.verb = "MODE" => a = Mode(r, c, cmd)
       /\ cmd.verb \in {"PRIVMSG", "NOTICE"} => a \in {ToNick(r, c, cmd), ToChannel(r, c, cmd)}
  <2>1. /\ cmd.verb = "TOPIC" => React(r, c, cmd) = Topic(r, c, cmd)
        /\ cmd.verb = "INVITE" => React(r, c, cmd) = Invite(r, c, cmd)
        /\ cmd.verb = "MODE" => React(r, c, cmd) = Mode(r, c, cmd)
        /\ cmd.verb \in {"PRIVMSG", "NOTICE"} =>
             React(r, c, cmd) \in {ToNick(r, c, cmd), ToChannel(r, c, cmd)}
    BY Zenon DEF React
  <2> QED
    BY <1>7, <2>1 DEF ChannelVerbs
<1> SUFFICES Answered(a, c, cmd)
  OBVIOUS
<1> HIDE DEF a
<1>11. Numbered(cmd.chans)
  BY DEF Measured, Numbered
<1>12. CASE cmd.verb \in {"JOIN", "PART", "NAMES"}
  BY <1>8, <1>12, EachAnswers DEF Aimed
<1>13. CASE cmd.verb \in {"PASS", "NICK", "USER", "PONG"}
  BY <1>2, <1>5, <1>13, RegistrationAnswers, OpenedAnswered, Zenon
<1>14. CASE cmd.verb = "QUIT"
  BY <1>3, <1>14, LeaveAnswers, OpenedAnswered, Zenon
<1>15. CASE cmd.verb = "PING"
  BY <1>4, <1>15, PingAnswers, Zenon
<1>16. CASE cmd.verb \in {"WHO", "LIST", "WHOIS"}
  BY <1>6, <1>11, <1>16, WhoAnswers, ListAnswers, WhoisAnswers, Zenon
<1>17. CASE cmd.verb \in {"TOPIC", "INVITE", "MODE"}
  BY <1>10, <1>17, TopicAnswers, InviteAnswers, ModeAnswers, Zenon
<1>18. CASE cmd.verb = "KICK"
  BY <1>9, <1>18, KickAnswers, Zenon
<1>19. CASE cmd.verb \in {"PRIVMSG", "NOTICE"}
  BY <1>10, <1>19, MessageAnswers, Zenon
<1> QED
  BY <1>12, <1>13, <1>14, <1>15, <1>16, <1>17, <1>18, <1>19 DEF Verbs

\* The orders in which a server lists channels are lists of these channels.
LEMMA OrdersAreLists ==
  ASSUME NEW S, S \subseteq Channels, NEW order \in SetToSeqs(S)
  PROVE  IsList(order) /\ \A i \in DOMAIN order : order[i] \in S
<1>1. Cardinality(S) \in Nat
  BY FinitelyMany, FS_Subset, FS_CardinalityType
<1>2. order \in [1 .. Cardinality(S) -> S]
  BY DEF SetToSeqs
<1>3. order \in Seq(S)
  BY <1>1, <1>2
<1>4. IsList(order)
  BY <1>3, SeqIsList
<1> QED
  BY <1>2, <1>4

\* A server that reads a command in one of its ways owes it no more than it says.
LEMMA ReadingsFollow ==
  ASSUME fault = "none", NEW c, NEW cmd, CommandShape(cmd), Placed(cmd),
         NEW m \in Readings(c, cmd)
  PROVE  /\ m.verb \in Verbs /\ Measured(m.chans) /\ Measured(m.nicks) /\ m.verb = Obeyed(cmd)
         /\ m.verb \in {"JOIN", "PART"} => Aimed(m)
         /\ \A reply : Ends(cmd, reply) => Ends(m, reply)
<1> DEFINE S      == Implied(c, cmd)
           listed == \/ cmd.verb = "WHOIS"
                     \/ cmd.verb \in {"LIST", "NAMES"} /\ cmd.chans = <<>>
           parted == cmd.verb = "JOIN" /\ cmd.chans = <<"0">>
<1>1. ~Has("list_unfiltered")
  BY DEF Has
<1> DEFINE shape == m.verb \in Verbs /\ Measured(m.chans) /\ Measured(m.nicks)
<1>5. Measured(cmd.nicks) /\ Measured(cmd.chans) /\ cmd.verb \in Verbs
  BY ListLength DEF CommandShape, Measured
<1>2. CASE listed
  <2>1. PICK order \in SetToSeqs(S) : m = [cmd EXCEPT !.chans = order]
    BY <1>2, Zenon DEF Readings
  <2>2. Measured(order)
    <3>1. S \subseteq Channels
      <4>1. S \in {ChannelsOf([chan |-> chan], cmd.nicks[1]),
                   {ch \in Channels : chan[ch].members # {}}, {}}
        BY Zenon DEF Implied
      <4> QED
        BY <4>1 DEF ChannelsOf
    <3> HIDE DEF S
    <3>2. IsList(order)
      BY <3>1, OrdersAreLists
    <3> QED
      BY <3>2, ListLength DEF Measured
  <2> HIDE DEF S
  <2>3. m.verb = cmd.verb /\ m.nicks = cmd.nicks /\ m.chans = order /\ DOMAIN m = DOMAIN cmd
    BY <2>1 DEF CommandShape
  <2>4. shape
    BY <1>5, <2>2, <2>3
  <2>5. m.verb = Obeyed(cmd) /\ m.verb \in {"WHOIS", "LIST", "NAMES"}
    BY <1>2, <2>3 DEF Obeyed
  <2>6. ASSUME NEW reply, Ends(cmd, reply)
        PROVE  Ends(m, reply)
    <3>1. cmd.verb # "NAMES"
      <4>1. cmd.verb = "NAMES" => Len(cmd.chans) = 0
        BY <1>2
      <4> QED
        BY <2>6, <4>1 DEF Ends, Single
    <3> QED
      BY <1>2, <2>3, <2>6, <3>1, Zenon DEF Ends, Single
  <2> QED
    BY <2>4, <2>5, <2>6
<1>3. CASE parted
  <2> DEFINE T == {ch \in Channels : c \in chan[ch].members}
  <2>1. PICK order \in SetToSeqs(T) : m = [cmd EXCEPT !.verb = "PART", !.chans = order]
    <3>1. m \in Meanings(c, cmd)
      BY <1>1, <1>3, Zenon DEF Readings
    <3> QED
      BY <1>3, <3>1, Zenon DEF Meanings
  <2>2. IsList(order) /\ \A i \in DOMAIN order : order[i] \in T
    BY OrdersAreLists
  <2>3. m.verb = "PART" /\ m.nicks = cmd.nicks /\ m.chans = order /\ DOMAIN m = DOMAIN cmd
    BY <2>1 DEF CommandShape
  <2>4. shape /\ Aimed(m)
    BY <1>5, <2>2, <2>3, ListLength DEF Measured, Verbs, Aimed
  <2>5. m.verb = Obeyed(cmd)
    BY <1>3, <2>3 DEF Obeyed
  <2>6. \A reply : ~Ends(cmd, reply)
    BY <1>3 DEF Ends, Single
  <2> QED
    BY <2>4, <2>5, <2>6
<1>4. CASE ~listed /\ ~parted
  <2>1. m \in Meanings(c, cmd)
    BY <1>1, <1>4, Zenon DEF Readings
  <2>2. m = cmd
    BY <1>4, <2>1, Zenon DEF Meanings
  <2>3. Obeyed(cmd) = cmd.verb
    BY <1>4, Zenon DEF Obeyed
  <2>4. m.verb \in {"JOIN", "PART"} => Aimed(m)
    BY <2>2, <2>3 DEF Placed, Aimed
  <2> QED
    BY <1>5, <2>2, <2>3, <2>4
<1> QED
  BY <1>2, <1>3, <1>4

\* What a conforming server writes about a command: to whom, and what after what.
Owed(r, c, cmd) ==
  /\ IsReaction(r)
  /\ \A ch \in Channels :
       r.chan[ch].members \subseteq chan[ch].members \cup
                                    IF Obeyed(cmd) = "JOIN" THEN {c} ELSE {}
  /\ \A i \in DOMAIN r.out : MayHear(r.out[i].to, r.out[i].msg.cmd, c, Obeyed(cmd))
  /\ \A i, j \in DOMAIN r.out : i < j => ~Ends(cmd, r.out[i].msg.cmd)

\* Nothing is written before.
LEMMA BeforeOpened ==
  ASSUME TypeInv, NEW c, NEW cmd
  PROVE  Opened(Before, c, cmd)
<1>1. IsReaction(Before) /\ Before.chan = chan /\ DOMAIN Before.out = {}
  <2>1. Before.out = <<>> /\ Before.chan = chan
    BY DEF Before
  <2>2. IsReaction(Before)
    BY BeforeSpeaks DEF Speaks
  <2> HIDE DEF Before
  <2> QED
    BY <2>1, <2>2
<1> HIDE DEF Before
<1> QED
  BY <1>1 DEF Opened, Fit

\* The server takes a command of a conforming client.
LEMMA ServerOwes ==
  ASSUME TypeInv, fault = "none", NEW c \in Clients, NEW cmd, CommandShape(cmd), Placed(cmd),
         NEW m \in Readings(c, cmd)
  PROVE  Owed(Answer(Before, c, m), c, cmd)
<1> DEFINE r == Answer(Before, c, m)
<1>1. /\ m.verb \in Verbs /\ Measured(m.chans) /\ Measured(m.nicks) /\ m.verb = Obeyed(cmd)
      /\ m.verb \in {"JOIN", "PART"} => Aimed(m)
      /\ \A reply : Ends(cmd, reply) => Ends(m, reply)
  BY ReadingsFollow
<1>2. Answered(r, c, m)
  BY <1>1, BeforeOpened, AnswerAnswers
<1> HIDE DEF r
<1>3. Owed(r, c, cmd)
  BY <1>1, <1>2 DEF Answered, Fit, Comers, Owed
<1> QED
  BY <1>3 DEF r

-----------------------------------------------------------------------------
(* The invariant of the waits *)

\* Command k is on its way to the server.
Waiting(k) == \E x \in Elems(toServer[Script[k].who]) : x.cause = k

\* No two commands have the same cause, but the answers to PINGs.
Distinct(s) == \A i, j \in DOMAIN s : i < j /\ s[i].cause = s[j].cause => s[i].cause = 0

\* A command is one that a step of the script sent, or answers a PING.
Posted(x, c) ==
  \/ x.cause = 0 /\ x.cmd.verb = "PONG"
  \/ /\ x.cause \in Sendings(Script) /\ x.cause < at
     /\ Script[x.cause].who = c /\ x.cmd = Script[x.cause].cmd

CommandsSent ==
  \A c \in Clients : Distinct(toServer[c]) /\ \A x \in Elems(toServer[c]) : Posted(x, c)

\* A message is one that the server may write, about a command it has taken.
Caused(m, d) ==
  \/ m.cause = 0 /\ m.cmd \in Unasked
  \/ /\ m.cause \in Sendings(Script) /\ m.cause < at /\ ~Waiting(m.cause)
     /\ m.cmd \in Tellable(Obeyed(Script[m.cause].cmd), Script[m.cause].who = d)
     /\ Obeyed(Script[m.cause].cmd) \in Broadcasts /\ d # Script[m.cause].who =>
          ~Outside(Script, d, at)

MessagesCaused == \A d \in Clients : \A m \in Elems(inbox[d]) : Caused(m, d)

\* After a message that ends an answer comes none of the same answer.
Ordered ==
  \A d \in Clients : \A i, j \in DOMAIN inbox[d] :
    i < j /\ inbox[d][i].cause = inbox[d][j].cause /\ inbox[d][i].cause # 0 =>
      ~Ends(Script[inbox[d][i].cause].cmd, inbox[d][i].cmd)

\* A command with one message for answer has the same for all.
Uniform ==
  \A d, e \in Clients : \A m \in Elems(inbox[d]), n \in Elems(inbox[e]) :
    m.cause = n.cause /\ m.cause # 0 /\ Single(Script[m.cause].cmd) => m.cmd = n.cmd

\* Who never asked to be in a channel is in none.
Outsiders ==
  \A d \in Clients : Outside(Script, d, at) => \A ch \in Channels : d \notin chan[ch].members

\* Of the answer to command k, no such reply is left for c, and none will come.
Spent(k, c, reply) ==
  /\ ~Waiting(k) \/ Script[k].who \in gone
  /\ \A m \in Elems(inbox[c]) : m.cause = k => m.cmd # reply

Cleared ==
  \A j \in DOMAIN Script, k \in Sendings(Script), c \in Clients : \A reply :
    j < at /\ Clears(Script, Hurried, j, k, c, reply) => Spent(k, c, reply)

Separating == CommandsSent /\ MessagesCaused /\ Ordered /\ Uniform /\ Outsiders /\ Cleared

\* What a wait returned answers the last command, or a later one.
Latests == \A i \in DOMAIN answered : answered[i] # 0 => answered[i] >= LastSend(i)

\* The steps that send, and what comes before a step.
LEMMA SendingsAreSteps ==
  ASSUME TypeInv
  PROVE  /\ \A k \in Sendings(Script) : /\ k \in 1 .. Len(Script) /\ Script[k].who \in Clients
                                         /\ k \in Nat /\ k # 0 /\ CommandShape(Script[k].cmd)
         /\ Len(Script) \in Nat /\ DOMAIN Script = 1 .. Len(Script) /\ at \in Nat /\ at >= 1
  BY ScriptIsList DEF Sendings, WellMade, TypeInv

\* A step clears what was sent before.
LEMMA ClearsEarlier ==
  ASSUME NEW w, NEW hurried, NEW j, NEW k, NEW c, NEW reply, Clears(w, hurried, j, k, c, reply)
  PROVE  k < j
  BY DEF Clears, Latest

\* The messages in t are those in s without some of the first.
Remains(t, s) ==
  DOMAIN t \subseteq Nat /\ \E n \in Nat : \A i \in DOMAIN t : n + i \in DOMAIN s /\ t[i] = s[n + i]

\* They are among those in s.
LEMMA RemainsIn ==
  ASSUME NEW s, NEW t, Remains(t, s)
  PROVE  Elems(t) \subseteq Elems(s)
  BY DEF Remains, Elems

\* A step of the thread sends a command, or answers PINGs, and takes messages off.
Posts(x, c) ==
  \/ x \in Elems(toServer[c])
  \/ x.cause = 0 /\ x.cmd.verb = "PONG"
  \/ /\ at' = at + 1 /\ x.cause = at /\ at \in Sendings(Script)
     /\ Script[at].who = c /\ x.cmd = Script[at].cmd

\* Such a step keeps the answers apart, if what it clears is told nowhere any more.
LEMMA ThreadSeparates ==
  ASSUME TypeInv, Separating, UNCHANGED <<chan, gone, test>>, at' \in {at, at + 1},
         \A c \in Clients :
           /\ Distinct(toServer'[c]) /\ Remains(inbox'[c], inbox[c])
           /\ \A x \in Elems(toServer'[c]) : Posts(x, c),
         \A k \in Sendings(Script), c \in Clients : \A reply :
           at' = at + 1 /\ Clears(Script, Hurried, at, k, c, reply) =>
             /\ ~Waiting(k) \/ Script[k].who \in gone
             /\ \A m \in Elems(inbox'[c]) : m.cause = k => m.cmd # reply
  PROVE  Separating'
<1>1. Script' = Script /\ Hurried' = Hurried
  BY DEF Script, Hurried
<1>2. /\ \A k \in Sendings(Script) : Script[k].who \in Clients /\ k \in Nat /\ k # 0
      /\ at \in Nat /\ at >= 1 /\ at' \in Nat /\ at <= at'
      /\ \A k \in Nat : k < at' => k < at \/ (k = at /\ at' = at + 1)
      /\ \A k \in Nat : k < at => k < at'
  BY SendingsAreSteps
<1>3. Sendings(Script') = Sendings(Script)
  BY <1>1
<1>4. \A k \in Sendings(Script) : k < at /\ Waiting(k)' => Waiting(k)
  BY <1>1, <1>2 DEF Waiting, Posts
<1>5. \A d \in Clients : Outside(Script', d, at') => Outside(Script, d, at)
  BY <1>1, <1>2 DEF Outside
<1>6. CommandsSent'
  BY <1>1, <1>2 DEF Separating, CommandsSent, Posted, Posts
<1>7. MessagesCaused'
  <2>1. ASSUME NEW d \in Clients, NEW m \in Elems(inbox'[d])
        PROVE  Caused(m, d)'
    <3>1. Caused(m, d)
      BY <2>1, RemainsIn DEF Separating, MessagesCaused
    <3> QED
      BY <1>1, <1>2, <1>4, <1>5, <3>1 DEF Caused
  <2> QED
    BY <2>1 DEF MessagesCaused
<1>8. Ordered'
  <2>1. ASSUME NEW d \in Clients, NEW i \in DOMAIN inbox'[d], NEW j \in DOMAIN inbox'[d],
               i < j, inbox'[d][i].cause = inbox'[d][j].cause, inbox'[d][i].cause # 0
        PROVE  ~Ends(Script[inbox'[d][i].cause].cmd, inbox'[d][i].cmd)
    <3>1. PICK n \in Nat : \A a \in DOMAIN inbox'[d] :
            n + a \in DOMAIN inbox[d] /\ inbox'[d][a] = inbox[d][n + a]
      BY DEF Remains
    <3>2. n + i < n + j
      BY <2>1 DEF Remains
    <3> QED
      BY <2>1, <3>1, <3>2 DEF Separating, Ordered
  <2> QED
    BY <1>1, <2>1 DEF Ordered
<1>9. Uniform'
  BY <1>1, RemainsIn DEF Separating, Uniform
<1>10. Outsiders'
  BY <1>5 DEF Separating, Outsiders
<1>11. Cleared'
  <2>1. ASSUME NEW j \in DOMAIN Script, NEW k \in Sendings(Script), NEW c \in Clients, NEW reply,
               j < at', Clears(Script, Hurried, j, k, c, reply)
        PROVE  Spent(k, c, reply)'
    <3>1. j \in Nat /\ k < j
      BY <2>1, ClearsEarlier, SendingsAreSteps
    <3>2. k < at
      BY <1>2, <2>1, <3>1
    <3>3. CASE j < at
      <4>1. Spent(k, c, reply)
        BY <2>1, <3>3 DEF Separating, Cleared
      <4> QED
        BY <1>1, <1>4, <3>2, <4>1, RemainsIn DEF Spent
    <3>4. CASE j = at /\ at' = at + 1
      BY <1>1, <1>4, <2>1, <3>2, <3>4 DEF Spent
    <3> QED
      BY <1>2, <2>1, <3>1, <3>3, <3>4
  <2> QED
    BY <1>1, <1>3, <2>1 DEF Cleared
<1> QED
  BY <1>6, <1>7, <1>8, <1>9, <1>10, <1>11 DEF Separating

\* Without the first elements, position by position.
LEMMA SuffixRemains ==
  ASSUME NEW s, IsList(s), NEW n \in 0 .. Len(s)
  PROVE  /\ Remains(SubSeq(s, n + 1, Len(s)), s)
         /\ \A i \in DOMAIN SubSeq(s, n + 1, Len(s)) :
              n + i \in DOMAIN s /\ SubSeq(s, n + 1, Len(s))[i] = s[n + i]
         /\ n = Len(s) => DOMAIN SubSeq(s, n + 1, Len(s)) = {}
         /\ DOMAIN SubSeq(s, n + 1, Len(s)) \subseteq Nat \ {0}
<1> DEFINE S == Elems(s)
           t == SubSeq(s, n + 1, Len(s))
<1>1. s \in Seq(S)
  BY ListIsSeq
<1> HIDE DEF S
<1>2. Len(s) \in Nat /\ DOMAIN s = 1 .. Len(s) /\ n \in Nat /\ n <= Len(s)
  BY <1>1
<1>3. DOMAIN t = 1 .. Len(s) - n
  BY <1>1, <1>2
<1>4. \A i \in 1 .. Len(s) - n : t[i] = s[n + i]
  BY <1>1, <1>2
<1> HIDE DEF t
<1>5. \A i \in DOMAIN t : n + i \in DOMAIN s /\ t[i] = s[n + i]
  BY <1>2, <1>3, <1>4
<1>6. Remains(t, s)
  BY <1>2, <1>3, <1>5 DEF Remains
<1>7. (n = Len(s) => DOMAIN t = {}) /\ DOMAIN t \subseteq Nat \ {0}
  <2>1. PICK l \in Nat : l = Len(s) - n
    <3>1. Len(s) - n \in Nat
      BY <1>2
    <3> QED
      BY <3>1
  <2>2. DOMAIN t = 1 .. l
    BY <1>3, <2>1
  <2>3. n = Len(s) => l = 0
    BY <1>2, <2>1
  <2> QED
    BY <2>2, <2>3
<1> QED
  BY <1>5, <1>6, <1>7 DEF t

\* The whole is what remains if nothing is taken.
LEMMA AllRemains ==
  ASSUME NEW s, IsList(s)
  PROVE  Remains(s, s)
<1>1. Len(s) \in Nat /\ DOMAIN s = 1 .. Len(s)
  BY ListLength
<1>2. 0 \in Nat /\ DOMAIN s \subseteq Nat /\ \A i \in DOMAIN s : 0 + i = i
  BY <1>1
<1> QED
  BY <1>2 DEF Remains

\* Answers to PINGs are added without confusion.
LEMMA PongsDistinct ==
  ASSUME NEW s, IsList(s), Distinct(s), NEW t, IsList(t), \A i \in DOMAIN t : t[i].cause = 0
  PROVE  Distinct(s \o t)
<1>1. /\ DOMAIN s = 1 .. Len(s) /\ DOMAIN t = 1 .. Len(t)
      /\ Len(s) \in Nat /\ Len(t) \in Nat /\ DOMAIN (s \o t) = 1 .. Len(s) + Len(t)
      /\ \A i \in 1 .. Len(s) : (s \o t)[i] = s[i]
      /\ \A i \in 1 .. Len(t) : (s \o t)[Len(s) + i] = t[i]
  BY ConcatAt
<1> DEFINE q == s \o t
<1> HIDE DEF q
<1>2. \A i \in DOMAIN q : i \notin 1 .. Len(s) => q[i].cause = 0
  <2>1. ASSUME NEW i \in DOMAIN q, i \notin 1 .. Len(s)
        PROVE  q[i].cause = 0
    <3>1. i - Len(s) \in 1 .. Len(t) /\ Len(s) + (i - Len(s)) = i
      BY <1>1, <2>1 DEF q
    <3>2. q[Len(s) + (i - Len(s))] = t[i - Len(s)]
      BY <1>1, <3>1 DEF q
    <3> QED
      BY <1>1, <3>1, <3>2
  <2> QED
    BY <2>1
<1>3. ASSUME NEW i \in DOMAIN q, NEW j \in DOMAIN q, i < j, q[i].cause = q[j].cause
      PROVE  q[i].cause = 0
  <2>1. CASE j \notin 1 .. Len(s)
    BY <1>2, <1>3, <2>1
  <2>2. CASE j \in 1 .. Len(s)
    <3>1. i \in 1 .. Len(s) /\ q[i] = s[i] /\ q[j] = s[j]
      BY <1>1, <1>3, <2>2 DEF q
    <3> QED
      BY <1>1, <1>3, <2>2, <3>1 DEF Distinct
  <2> QED
    BY <2>1, <2>2
<1> QED
  BY <1>3 DEF Distinct, q

\* What a client takes off and answers.
LEMMA TakeOffSeparates ==
  ASSUME TypeInv, Separating, NEW c \in Clients, NEW n \in 0 .. Len(inbox[c]), TakeOff(c, n)
  PROVE  /\ UNCHANGED <<chan, gone>> /\ \A d \in Clients \ {c} : inbox'[d] = inbox[d]
         /\ \A d \in Clients :
              /\ Distinct(toServer'[d]) /\ Remains(inbox'[d], inbox[d])
              /\ \A x \in Elems(toServer'[d]) : Posts(x, d)
         /\ \A i \in DOMAIN inbox'[c] : n + i \in DOMAIN inbox[c] /\ inbox'[c][i] = inbox[c][n + i]
         /\ n = Len(inbox[c]) => DOMAIN inbox'[c] = {}
         /\ DOMAIN inbox'[c] \subseteq Nat \ {0}
<1> DEFINE pings == SelectSeq(SubSeq(inbox[c], 1, n), LAMBDA m : m.cmd = "PING")
           pong  == [cmd |-> Word("PONG", "token"), cause |-> 0]
           pongs == [i \in DOMAIN pings |-> pong]
           rest  == SubSeq(inbox[c], n + 1, Len(inbox[c]))
           new   == toServer[c] \o pongs
<1>1. /\ inbox' = [inbox EXCEPT ![c] = rest]
      /\ toServer' \in {toServer, [toServer EXCEPT ![c] = new]}
      /\ UNCHANGED <<chan, gone>>
  BY DEF TakeOff
<1>2. QueuesTyped(toServer, inbox, at)
  BY DEF TypeInv
<1>3. /\ Remains(rest, inbox[c])
      /\ n = Len(inbox[c]) => DOMAIN rest = {}
      /\ \A i \in DOMAIN rest : n + i \in DOMAIN inbox[c] /\ rest[i] = inbox[c][n + i]
      /\ DOMAIN rest \subseteq Nat \ {0}
  BY <1>2, SuffixRemains DEF QueuesTyped
<1>4. Len(pings) \in Nat /\ DOMAIN pings = 1 .. Len(pings)
  OBVIOUS
<1> HIDE DEF pings, rest
<1>5. pong.cause = 0 /\ pong.cmd.verb = "PONG"
  BY Zenon DEF Word, NoArgs
<1> HIDE DEF pong
<1>6. IsList(pongs) /\ \A i \in DOMAIN pongs : pongs[i] = pong
  <2>1. pongs \in [1 .. Len(pings) -> {pong}]
    BY <1>4
  <2> HIDE DEF pongs
  <2>2. pongs \in Seq({pong})
    BY <1>4, <2>1
  <2> QED
    BY <2>1, <2>2, SeqIsList
<1> HIDE DEF pongs
<1>7. Distinct(new) /\ Elems(new) \subseteq Elems(toServer[c]) \cup Elems(pongs)
  BY <1>2, <1>5, <1>6, PongsDistinct, ConcatAt DEF QueuesTyped, Separating, CommandsSent
<1> HIDE DEF new
<1>8. \A x \in Elems(new) : Posts(x, c)
  BY <1>5, <1>6, <1>7 DEF Elems, Posts
<1>9. \A d \in Clients : Distinct(toServer[d]) /\ \A x \in Elems(toServer[d]) : Posts(x, d)
  BY DEF Separating, CommandsSent, Posts
<1>10. ASSUME NEW d \in Clients
       PROVE  /\ Distinct(toServer'[d]) /\ Remains(inbox'[d], inbox[d])
              /\ \A x \in Elems(toServer'[d]) : Posts(x, d)
  <2>1. Remains(inbox[d], inbox[d])
    BY <1>2, AllRemains DEF QueuesTyped
  <2>2. inbox'[d] \in {inbox[d], rest} /\ (inbox'[d] = rest => d = c \/ rest = inbox[d])
    BY <1>1, <1>2 DEF QueuesTyped
  <2>3. Remains(inbox'[d], inbox[d])
    BY <1>3, <2>1, <2>2
  <2>4. toServer'[d] = toServer[d] \/ (d = c /\ toServer'[d] = new)
    BY <1>1, <1>2 DEF QueuesTyped
  <2> QED
    BY <1>7, <1>8, <1>9, <2>3, <2>4
<1>11. inbox'[c] = rest /\ \A d \in Clients \ {c} : inbox'[d] = inbox[d]
  BY <1>1, <1>2 DEF QueuesTyped
<1> QED
  BY <1>1, <1>3, <1>10, <1>11

\* The first message that matches does, and none before it.
LEMMA FirstMatches ==
  ASSUME NEW now, IsList(inbox[now.who])
  PROVE  /\ FirstMatch(now) \in 0 .. Len(inbox[now.who])
         /\ FirstMatch(now) # 0 => /\ FirstMatch(now) \in DOMAIN inbox[now.who]
                                   /\ inbox[now.who][FirstMatch(now)].cmd = now.reply
<1> DEFINE s == inbox[now.who]
           I == {i \in 1 .. Len(s) : s[i].cmd = now.reply}
<1>1. Len(s) \in Nat /\ DOMAIN s = 1 .. Len(s)
  BY ListLength
<1>2. FirstMatch(now) = IF I # {} THEN Min(I) ELSE 0
  BY DEF FirstMatch, SelectInSeq
<1>3. CASE I # {}
  <2>1. I \subseteq Nat
    OBVIOUS
  <2>2. PICK x \in I : \A y \in I : x <= y
    <3> HIDE DEF I
    <3> QED
      BY <1>3, <2>1, Least
  <2>3. Min(I) \in I
    <3> HIDE DEF I
    <3> QED
      BY <2>2 DEF Min
  <2> QED
    BY <1>1, <1>2, <1>3, <2>3
<1>4. CASE I = {}
  BY <1>1, <1>2, <1>4
<1> QED
  BY <1>3, <1>4

\* The waits of a test that is separated.
Clean == fault = "none" /\ SeparatedTest(test)

\* A message a test waits for at this step answers no command that a later one followed.
LEMMA FoundLatest ==
  ASSUME TypeInv, Separating, Clean, NEW kinds, NEW now \in Doing(kinds),
         now.do \in Waits \cup {"take", "collect"},
         NEW m \in Elems(inbox[now.who]), Ending(now, m.cmd), m.cause # 0
  PROVE  /\ m.cause \in Sendings(Script) /\ m.cause < at /\ ~Waiting(m.cause)
         /\ \A l \in DOMAIN Script : m.cause < l /\ l < at => Script[l].do # "send"
<1>1. now = Script[at] /\ at \in DOMAIN Script /\ now.who \in Clients
  BY StepOf, ScriptIsList DEF Doing, TypeInv
<1>2. Caused(m, now.who)
  BY <1>1 DEF Separating, MessagesCaused
<1> DEFINE k == m.cause
<1>3. /\ k \in Sendings(Script) /\ k < at /\ ~Waiting(k)
      /\ m.cmd \in Tellable(Obeyed(Script[k].cmd), Script[k].who = now.who)
  BY <1>2 DEF Caused
<1>4. Separated(Script, Hurried, at)
  BY <1>1 DEF Clean, SeparatedTest, Script, Hurried
<1>5. ASSUME NEW l \in DOMAIN Script, k < l, l < at, Script[l].do = "send"
      PROVE  FALSE
  <2>1. PICK j \in DOMAIN Script : j < at /\ Clears(Script, Hurried, j, k, now.who, m.cmd)
    BY <1>1, <1>3, <1>4, <1>5 DEF Separated
  <2>2. Spent(k, now.who, m.cmd)
    BY <1>1, <1>3, <2>1 DEF Separating, Cleared
  <2> QED
    BY <2>2 DEF Spent
<1> QED
  BY <1>3, <1>5

\* A step that finds its message clears what is left of the answer.
LEMMA FoundClears ==
  ASSUME TypeInv, Separating, Clean, NEW kinds, NEW now \in Doing(kinds),
         now.do \in Waits \cup {"collect"}, FirstMatch(now) # 0, TakeOff(now.who, FirstMatch(now)),
         NEW k \in Sendings(Script), NEW c \in Clients, NEW reply,
         Clears(Script, Hurried, at, k, c, reply)
  PROVE  ~Waiting(k) /\ \A m \in Elems(inbox'[c]) : m.cause = k => m.cmd # reply
<1>1. now = Script[at] /\ at \in DOMAIN Script /\ now.who \in Clients
  BY StepOf, ScriptIsList DEF Doing, TypeInv
<1>2. IsList(inbox[now.who])
  BY <1>1 DEF TypeInv, QueuesTyped
<1> DEFINE f == FirstMatch(now)
           x == inbox[now.who][f]
<1>3. f \in 0 .. Len(inbox[now.who]) /\ f \in DOMAIN inbox[now.who] /\ x.cmd = now.reply
  BY <1>2, FirstMatches
<1>4. x \in Elems(inbox[now.who])
  BY <1>3 DEF Elems
<1>5. /\ \A d \in Clients \ {now.who} : inbox'[d] = inbox[d]
      /\ \A d \in Clients : Remains(inbox'[d], inbox[d])
      /\ \A i \in DOMAIN inbox'[now.who] :
           f + i \in DOMAIN inbox[now.who] /\ inbox'[now.who][i] = inbox[now.who][f + i]
      /\ DOMAIN inbox'[now.who] \subseteq Nat \ {0}
  BY <1>1, <1>3, TakeOffSeparates
<1> HIDE DEF f
<1>6. /\ Latest(Script, k, at) /\ now.reply \notin Unasked
      /\ \/ now.who = c /\ Ends(Script[k].cmd, now.reply)
         \/ Single(Script[k].cmd) /\ now.reply # reply
         \/ c # Script[k].who /\ Obeyed(Script[k].cmd) \in Broadcasts /\ Outside(Script, c, at)
  BY <1>1 DEF Clears, Waits
<1>7. x.cause = k /\ ~Waiting(k)
  <2>1. x.cause # 0
    <3>1. Caused(x, now.who)
      BY <1>1, <1>4 DEF Separating, MessagesCaused
    <3>2. x.cmd \notin Unasked
      BY <1>3, <1>6
    <3> HIDE DEF x
    <3> QED
      BY <3>1, <3>2, SendingsAreSteps DEF Caused
  <2>2. /\ x.cause \in Sendings(Script) /\ x.cause < at /\ ~Waiting(x.cause)
        /\ \A l \in DOMAIN Script : x.cause < l /\ l < at => Script[l].do # "send"
    <3>1. Ending(now, x.cmd)
      BY <1>3 DEF Ending
    <3> HIDE DEF x
    <3> QED
      BY <1>4, <2>1, <3>1, FoundLatest
  <2>3. ~(k < x.cause) /\ ~(x.cause < k)
    BY <1>6, <2>2 DEF Latest, Sendings
  <2> QED
    BY <2>2, <2>3, SendingsAreSteps
<1>8. ASSUME NEW m \in Elems(inbox'[c]), m.cause = k, m.cmd = reply
      PROVE  FALSE
  <2>1. m \in Elems(inbox[c])
    BY <1>5, <1>8, RemainsIn
  <2>2. k # 0
    BY SendingsAreSteps
  <2>3. CASE now.who = c /\ Ends(Script[k].cmd, now.reply)
    <3>1. PICK i \in DOMAIN inbox'[c] : m = inbox'[c][i]
      BY <1>8 DEF Elems
    <3>2. f + i \in DOMAIN inbox[c] /\ m = inbox[c][f + i] /\ f < f + i
      BY <1>3, <1>5, <2>3, <3>1
    <3> QED
      BY <1>3, <1>7, <1>8, <2>2, <2>3, <3>2 DEF Separating, Ordered
  <2>4. CASE Single(Script[k].cmd) /\ now.reply # reply
    BY <1>1, <1>3, <1>4, <1>7, <1>8, <2>1, <2>2, <2>4 DEF Separating, Uniform
  <2>5. CASE c # Script[k].who /\ Obeyed(Script[k].cmd) \in Broadcasts /\ Outside(Script, c, at)
    BY <1>8, <2>1, <2>2, <2>5 DEF Separating, MessagesCaused, Caused
  <2> QED
    BY <1>6, <2>3, <2>4, <2>5
<1> QED
  BY <1>7, <1>8

\* When all is settled no command of a connected client is on its way.
LEMMA SettledWaits ==
  ASSUME TypeInv, Settled, NEW k \in Sendings(Script)
  PROVE  ~Waiting(k) \/ Script[k].who \in gone
<1>1. Script[k].who \in Clients
  BY SendingsAreSteps
<1>2. Script[k].who \in gone \/ toServer[Script[k].who] = <<>>
  BY <1>1 DEF Settled, Quiescent
<1>3. Elems(<<>>) = {}
  BY DEF Elems
<1> QED
  BY <1>2, <1>3 DEF Waiting

\* A step that throws away the whole inbox when all is settled clears what was in it.
LEMMA EmptiedClears ==
  ASSUME TypeInv, Separating, Settled, NEW now \in Doing({"wait", "drain"}),
         TakeOff(now.who, Len(inbox[now.who])),
         NEW k \in Sendings(Script), NEW c \in Clients, NEW reply,
         Clears(Script, Hurried, at, k, c, reply)
  PROVE  /\ ~Waiting(k) \/ Script[k].who \in gone
         /\ \A m \in Elems(inbox'[c]) : m.cause = k => m.cmd # reply
<1>1. now = Script[at] /\ now.who \in Clients /\ now.do \in {"wait", "drain"}
  BY StepOf DEF Doing
<1>2. IsList(inbox[now.who]) /\ Len(inbox[now.who]) \in 0 .. Len(inbox[now.who])
  BY <1>1, ListLength DEF TypeInv, QueuesTyped
<1>3. /\ \A d \in Clients : Remains(inbox'[d], inbox[d])
      /\ DOMAIN inbox'[now.who] = {}
  BY <1>1, <1>2, TakeOffSeparates
<1>4. \/ now.who = c
      \/ c # Script[k].who /\ Obeyed(Script[k].cmd) \in Broadcasts /\ Outside(Script, c, at)
  BY <1>1 DEF Clears
<1>5. ASSUME NEW m \in Elems(inbox'[c]), m.cause = k
      PROVE  FALSE
  <2>1. CASE now.who = c
    BY <1>3, <1>5, <2>1 DEF Elems
  <2>2. CASE c # Script[k].who /\ Obeyed(Script[k].cmd) \in Broadcasts /\ Outside(Script, c, at)
    <3>1. m \in Elems(inbox[c])
      BY <1>3, <1>5, RemainsIn
    <3>2. Caused(m, c)
      BY <3>1 DEF Separating, MessagesCaused
    <3> QED
      BY <1>5, <2>2, <3>2, SendingsAreSteps DEF Caused
  <2> QED
    BY <1>4, <2>1, <2>2
<1> QED
  BY <1>5, SettledWaits

\* A step of another kind clears nothing.
LEMMA ClearsNothing ==
  ASSUME NEW kinds, NEW now \in Doing(kinds),
         now.do \notin {"wait", "expect", "keep", "collect", "drain"}
  PROVE  \A k, c, reply : ~Clears(Script, Hurried, at, k, c, reply)
<1>1. now = Script[at]
  BY DEF Doing
<1> QED
  BY <1>1 DEF Clears

\* A step that touches nothing but the test's own state.
LEMMA LooksSeparates ==
  ASSUME TypeInv, Separating, UNCHANGED <<toServer, inbox, chan, gone, test>>,
         \/ at' = at
         \/ at' = at + 1 /\ \A k, c, reply : ~Clears(Script, Hurried, at, k, c, reply)
  PROVE  Separating'
<1>1. ASSUME NEW c \in Clients
      PROVE  /\ Distinct(toServer'[c]) /\ Remains(inbox'[c], inbox[c])
             /\ \A x \in Elems(toServer'[c]) : Posts(x, c)
  BY AllRemains DEF TypeInv, QueuesTyped, Separating, CommandsSent, Posts
<1>2. at' \in {at, at + 1} /\ (at' = at + 1 => at' # at)
  BY SendingsAreSteps
<1> QED
  BY <1>1, <1>2, ThreadSeparates

\* A step that takes messages off.
LEMMA TakesSeparates ==
  ASSUME TypeInv, Separating, NEW c \in Clients, NEW n \in 0 .. Len(inbox[c]), TakeOff(c, n),
         test' = test,
         \/ at' = at
         \/ /\ at' = at + 1
            /\ \A k \in Sendings(Script), d \in Clients : \A reply :
                 Clears(Script, Hurried, at, k, d, reply) =>
                   /\ ~Waiting(k) \/ Script[k].who \in gone
                   /\ \A m \in Elems(inbox'[d]) : m.cause = k => m.cmd # reply
  PROVE  Separating'
<1>1. at' \in {at, at + 1} /\ (at' = at + 1 => at' # at)
  BY SendingsAreSteps
<1>2. /\ UNCHANGED <<chan, gone>>
      /\ \A d \in Clients :
           /\ Distinct(toServer'[d]) /\ Remains(inbox'[d], inbox[d])
           /\ \A x \in Elems(toServer'[d]) : Posts(x, d)
  BY TakeOffSeparates
<1> QED
  BY <1>1, <1>2, ThreadSeparates

\* A step that sends.
LEMMA SendSeparates ==
  ASSUME TypeInv, Separating, SendStep
  PROVE  Separating'
<1>1. PICK now \in Doing({"send", "sendOn"}) :
        \/ /\ toServer' = [toServer EXCEPT ![now.who] = Append(@, [cmd |-> now.cmd, cause |-> at])]
           /\ Advance
        \/ Fail /\ UNCHANGED toServer
  BY DEF SendStep
<1>2. UNCHANGED <<chan, inbox, gone, test>>
  BY DEF SendStep
<1>3. /\ now = Script[at] /\ at \in DOMAIN Script /\ now.who \in Clients
      /\ now.do \in {"send", "sendOn"}
  BY StepOf, ScriptIsList DEF Doing, TypeInv
<1>4. \A k, c, reply : ~Clears(Script, Hurried, at, k, c, reply)
  BY <1>3, ClearsNothing
<1> DEFINE x   == [cmd |-> now.cmd, cause |-> at]
           old == toServer[now.who]
           new == Append(old, x)
<1>5. CASE toServer' = [toServer EXCEPT ![now.who] = new] /\ Advance
  <2>1. x.cause = at /\ x.cmd = now.cmd
    OBVIOUS
  <2> HIDE DEF x
  <2>2. /\ IsList(old) /\ Len(old) \in Nat /\ DOMAIN old = 1 .. Len(old)
        /\ DOMAIN new = 1 .. Len(old) + 1 /\ new[Len(old) + 1] = x
        /\ \A i \in 1 .. Len(old) : new[i] = old[i]
    BY <1>3, AppendAt DEF TypeInv, QueuesTyped
  <2> HIDE DEF new
  <2>3. \A i \in 1 .. Len(old) + 1 : i \in 1 .. Len(old) \/ i = Len(old) + 1
    BY <2>2
  <2>4. at' = at + 1 /\ at \in Sendings(Script)
    BY <1>3, <1>5 DEF Advance, Sendings
  <2>5. \A i \in 1 .. Len(old) : old[i].cause # at
    BY <1>3, <2>2, SendingsAreSteps DEF TypeInv, QueuesTyped, Elems, Sent
  <2>6. Distinct(new)
    <3>1. ASSUME NEW i \in DOMAIN new, NEW j \in DOMAIN new, i < j, new[i].cause = new[j].cause
          PROVE  new[i].cause = 0
      <4>1. i \in 1 .. Len(old)
        BY <2>2, <3>1
      <4>2. j \in 1 .. Len(old)
        BY <2>1, <2>2, <2>3, <2>5, <3>1, <4>1
      <4>3. Distinct(old)
        BY <1>3 DEF Separating, CommandsSent
      <4> QED
        BY <2>2, <3>1, <4>1, <4>2, <4>3 DEF Distinct
    <3> QED
      BY <3>1 DEF Distinct
  <2>7. \A y \in Elems(new) : Posts(y, now.who)
    <3>1. \A i \in 1 .. Len(old) + 1 : new[i] \in Elems(old) \/ new[i] = x
      BY <2>2, <2>3 DEF Elems
    <3>2. \A y \in Elems(new) : y \in Elems(old) \/ y = x
      BY <2>2, <3>1 DEF Elems
    <3> QED
      BY <1>3, <2>1, <2>4, <3>2 DEF Posts
  <2>8. ASSUME NEW c \in Clients
        PROVE  /\ Distinct(toServer'[c]) /\ Remains(inbox'[c], inbox[c])
               /\ \A y \in Elems(toServer'[c]) : Posts(y, c)
    <3>1. Remains(inbox'[c], inbox[c])
      BY <1>2, AllRemains DEF TypeInv, QueuesTyped
    <3>2. CASE c = now.who
      <4>1. toServer'[c] = new
        BY <1>3, <1>5, <3>2 DEF TypeInv, QueuesTyped
      <4> QED
        BY <2>6, <2>7, <3>1, <3>2, <4>1
    <3>3. CASE c # now.who
      <4>1. toServer'[c] = toServer[c]
        BY <1>5, <3>3 DEF TypeInv, QueuesTyped
      <4> QED
        BY <3>1, <4>1 DEF Separating, CommandsSent, Posts
    <3> QED
      BY <3>2, <3>3
  <2> QED
    BY <1>2, <1>4, <2>4, <2>8, ThreadSeparates
<1>6. CASE Fail /\ UNCHANGED toServer
  BY <1>2, <1>6, LooksSeparates DEF Fail
<1> QED
  BY <1>1, <1>5, <1>6

\* Waits, drains and the other calls of get_message.
LEMMA GetSeparates ==
  ASSUME TypeInv, Separating, Clean,
         \/ WaitFinds \/ WaitTimesOut \/ TakeStep \/ CollectStep \/ DrainStep \/ GetMessageStep
  PROVE  Separating'
<1>1. CASE WaitFinds
  <2>1. PICK now \in Doing(Waits) :
          /\ FirstMatch(now) # 0 /\ (Advance \/ Fail)
          /\ TakeOff(now.who, FirstMatch(now)) /\ test' = test
    BY <1>1 DEF WaitFinds
  <2>2. now.who \in Clients /\ now.do \in Waits
    BY StepOf
  <2>3. FirstMatch(now) \in 0 .. Len(inbox[now.who])
    BY <2>2, InInbox
  <2>4. \A k \in Sendings(Script), d \in Clients : \A reply :
          Clears(Script, Hurried, at, k, d, reply) =>
            ~Waiting(k) /\ \A m \in Elems(inbox'[d]) : m.cause = k => m.cmd # reply
    BY <2>1, <2>2, FoundClears
  <2> QED
    BY <2>1, <2>2, <2>3, <2>4, TakesSeparates DEF Advance, Fail
<1>2. CASE WaitTimesOut
  <2>1. PICK now \in Doing(Waits) :
          /\ Settled \/ (Hurried /\ now.do = "briefWait")
          /\ IF now.do \in {"wait", "briefWait"} THEN Advance ELSE Fail
          /\ TakeOff(now.who, Len(inbox[now.who])) /\ test' = test
    BY <1>2 DEF WaitTimesOut
  <2>2. now.who \in Clients /\ now.do \in Waits
    BY StepOf
  <2>3. Len(inbox[now.who]) \in 0 .. Len(inbox[now.who])
    BY <2>2, InInbox
  <2>4. CASE now.do = "wait"
    <3>1. now \in Doing({"wait", "drain"}) /\ Settled /\ Advance
      BY <2>1, <2>4 DEF Doing
    <3>2. \A k \in Sendings(Script), d \in Clients : \A reply :
            Clears(Script, Hurried, at, k, d, reply) =>
              /\ ~Waiting(k) \/ Script[k].who \in gone
              /\ \A m \in Elems(inbox'[d]) : m.cause = k => m.cmd # reply
      BY <2>1, <3>1, EmptiedClears
    <3> QED
      BY <2>1, <2>2, <2>3, <3>1, <3>2, TakesSeparates DEF Advance
  <2>5. CASE now.do = "briefWait"
    <3>1. \A k, c, reply : ~Clears(Script, Hurried, at, k, c, reply)
      BY <2>5, ClearsNothing
    <3> QED
      BY <2>1, <2>2, <2>3, <2>5, <3>1, TakesSeparates DEF Advance
  <2>6. CASE now.do \notin {"wait", "briefWait"}
    BY <2>1, <2>2, <2>3, <2>6, TakesSeparates DEF Fail
  <2> QED
    BY <2>4, <2>5, <2>6
<1>3. CASE TakeStep
  <2>1. PICK now \in Doing({"take"}) :
          /\ \/ inbox[now.who] # <<>> /\ Advance /\ TakeOff(now.who, 1)
             \/ Fail /\ UNCHANGED serverVars
          /\ test' = test
    BY <1>3 DEF TakeStep
  <2>2. now.who \in Clients /\ now.do = "take"
    BY StepOf
  <2>3. \A k, c, reply : ~Clears(Script, Hurried, at, k, c, reply)
    BY <2>2, ClearsNothing
  <2>4. CASE inbox[now.who] # <<>> /\ Advance /\ TakeOff(now.who, 1)
    <3>1. 1 \in 0 .. Len(inbox[now.who])
      BY <2>2, <2>4, InInbox
    <3> QED
      BY <2>1, <2>2, <2>3, <2>4, <3>1, TakesSeparates DEF Advance
  <2>5. CASE Fail /\ UNCHANGED serverVars
    BY <2>1, <2>5, LooksSeparates DEF Fail, serverVars
  <2> QED
    BY <2>1, <2>4, <2>5
<1>4. CASE CollectStep
  <2>1. PICK now \in Doing({"collect"}) :
          /\ \/ FirstMatch(now) # 0 /\ Advance /\ TakeOff(now.who, FirstMatch(now))
             \/ Fail /\ UNCHANGED serverVars
          /\ test' = test
    BY <1>4 DEF CollectStep
  <2>2. now.who \in Clients /\ now.do = "collect"
    BY StepOf
  <2>3. CASE FirstMatch(now) # 0 /\ Advance /\ TakeOff(now.who, FirstMatch(now))
    <3>1. FirstMatch(now) \in 0 .. Len(inbox[now.who])
      BY <2>2, InInbox
    <3>2. \A k \in Sendings(Script), d \in Clients : \A reply :
            Clears(Script, Hurried, at, k, d, reply) =>
              ~Waiting(k) /\ \A m \in Elems(inbox'[d]) : m.cause = k => m.cmd # reply
      BY <2>2, <2>3, FoundClears
    <3> QED
      BY <2>1, <2>2, <2>3, <3>1, <3>2, TakesSeparates DEF Advance
  <2>4. CASE Fail /\ UNCHANGED serverVars
    BY <2>1, <2>4, LooksSeparates DEF Fail, serverVars
  <2> QED
    BY <2>1, <2>3, <2>4
<1>5. CASE DrainStep
  <2>1. PICK now \in Doing({"drain"}) :
          /\ \E n \in 0 .. Len(inbox[now.who]) :
               /\ Hurried \/ (Settled /\ n = Len(inbox[now.who]))
               /\ TakeOff(now.who, n)
          /\ Advance /\ test' = test
    BY <1>5 DEF DrainStep
  <2>2. now.who \in Clients /\ now = Script[at] /\ now.do = "drain"
    BY StepOf DEF Doing
  <2>3. PICK n \in 0 .. Len(inbox[now.who]) :
          (Hurried \/ (Settled /\ n = Len(inbox[now.who]))) /\ TakeOff(now.who, n)
    BY <2>1
  <2>4. CASE Hurried
    <3>1. \A k, c, reply : ~Clears(Script, Hurried, at, k, c, reply)
      BY <2>2, <2>4 DEF Clears
    <3> QED
      BY <2>1, <2>2, <2>3, <3>1, TakesSeparates DEF Advance
  <2>5. CASE Settled /\ n = Len(inbox[now.who])
    <3>1. now \in Doing({"wait", "drain"})
      BY DEF Doing
    <3>2. \A k \in Sendings(Script), d \in Clients : \A reply :
            Clears(Script, Hurried, at, k, d, reply) =>
              /\ ~Waiting(k) \/ Script[k].who \in gone
              /\ \A m \in Elems(inbox'[d]) : m.cause = k => m.cmd # reply
      BY <2>3, <2>5, <3>1, EmptiedClears
    <3> QED
      BY <2>1, <2>2, <2>3, <3>2, TakesSeparates DEF Advance
  <2> QED
    BY <2>3, <2>4, <2>5
<1>6. CASE GetMessageStep
  <2>1. PICK now \in Doing({"silent", "not"}) :
          /\ \/ Advance /\ UNCHANGED serverVars
             \/ inbox[now.who] # <<>> /\ (Advance \/ Fail) /\ TakeOff(now.who, 1)
          /\ test' = test
    BY <1>6 DEF GetMessageStep
  <2>2. now.who \in Clients /\ now.do \in {"silent", "not"}
    BY StepOf
  <2>3. \A k, c, reply : ~Clears(Script, Hurried, at, k, c, reply)
    BY <2>2, ClearsNothing
  <2>4. CASE inbox[now.who] # <<>> /\ (Advance \/ Fail) /\ TakeOff(now.who, 1)
    <3>1. 1 \in 0 .. Len(inbox[now.who])
      BY <2>2, <2>4, InInbox
    <3> QED
      BY <2>1, <2>2, <2>3, <2>4, <3>1, TakesSeparates DEF Advance, Fail
  <2>5. CASE Advance /\ UNCHANGED serverVars
    BY <2>1, <2>3, <2>5, LooksSeparates DEF Advance, serverVars
  <2> QED
    BY <2>1, <2>4, <2>5
<1> QED
  BY <1>1, <1>2, <1>3, <1>4, <1>5, <1>6

\* The steps that read nothing.
LEMMA QuietSeparates ==
  ASSUME TypeInv, Separating, CoversStep \/ PauseStep \/ SleepStep \/ ProbeStep \/ EndTest
  PROVE  Separating'
<1>1. /\ UNCHANGED <<toServer, inbox, chan, gone, test>>
      /\ \/ at' = at
         \/ at' = at + 1 /\ Doing({"covers", "pause", "sleep", "probe"}) # {}
  BY DEF CoversStep, PauseStep, SleepStep, ProbeStep, EndTest, Advance, Fail, serverVars, Doing
<1>2. Doing({"covers", "pause", "sleep", "probe"}) # {} =>
        \A k, c, reply : ~Clears(Script, Hurried, at, k, c, reply)
  <2>1. ASSUME NEW now \in Doing({"covers", "pause", "sleep", "probe"})
        PROVE  \A k, c, reply : ~Clears(Script, Hurried, at, k, c, reply)
    <3>1. now.do \in {"covers", "pause", "sleep", "probe"}
      BY StepOf
    <3> QED
      BY <3>1, ClearsNothing
  <2> QED
    BY <2>1
<1> QED
  BY <1>1, <1>2, LooksSeparates

\* Message x reaches d about command k, as message i of what was written.
Reaches(x, d, out, i, k) == i \in DOMAIN out /\ Carries(x, out[i], d, k)

\* Each element of a list after a list is of the one or of the other.
LEMMA JoinedAt ==
  ASSUME NEW s, IsList(s), NEW t, IsList(t), NEW a \in DOMAIN (s \o t)
  PROVE  \/ a \in DOMAIN s /\ (s \o t)[a] = s[a]
         \/ /\ a \notin DOMAIN s /\ a - Len(s) \in DOMAIN t
            /\ (s \o t)[a] = t[a - Len(s)]
<1>1. /\ DOMAIN s = 1 .. Len(s) /\ DOMAIN t = 1 .. Len(t)
      /\ Len(s) \in Nat /\ Len(t) \in Nat /\ DOMAIN (s \o t) = 1 .. Len(s) + Len(t)
      /\ \A i \in 1 .. Len(s) : (s \o t)[i] = s[i]
      /\ \A i \in 1 .. Len(t) : (s \o t)[Len(s) + i] = t[i]
  BY ConcatAt
<1> DEFINE q == s \o t
<1> HIDE DEF q
<1>2. CASE a \notin 1 .. Len(s)
  <2>1. a - Len(s) \in 1 .. Len(t) /\ Len(s) + (a - Len(s)) = a
    BY <1>1, <1>2 DEF q
  <2>2. q[Len(s) + (a - Len(s))] = t[a - Len(s)]
    BY <1>1, <2>1 DEF q
  <2> QED
    BY <1>1, <1>2, <2>1, <2>2 DEF q
<1> QED
  BY <1>1, <1>2 DEF q

\* What the server writes follows what is in the inboxes, in the order it was written.
LEMMA WriteFollows ==
  ASSUME TypeInv, NEW r, IsList(r.out), NEW k, Write(r, k), NEW d \in Clients
  PROVE  /\ \A x \in Elems(inbox'[d]) : x \in Elems(inbox[d]) \/ \E i : Reaches(x, d, r.out, i, k)
         /\ \A a, b \in DOMAIN inbox'[d] : a < b =>
              \/ a \in DOMAIN inbox[d] /\ b \in DOMAIN inbox[d]
                 /\ inbox'[d][a] = inbox[d][a] /\ inbox'[d][b] = inbox[d][b]
              \/ /\ inbox'[d][a] \in Elems(inbox[d])
                 /\ \E j : Reaches(inbox'[d][b], d, r.out, j, k)
              \/ \E i, j : /\ i < j /\ Reaches(inbox'[d][a], d, r.out, i, k)
                           /\ Reaches(inbox'[d][b], d, r.out, j, k)
<1> DEFINE old == inbox[d]
           w   == Written(r.out, d, r.login[d], k)
           new == old \o w
<1>1. inbox'[d] = new
  BY DEF Write
<1>2. Picks(w, r.out, Len(r.out), d, k) /\ DOMAIN r.out = 1 .. Len(r.out)
  BY WrittenPicks, ListLength
<1> HIDE DEF w
<1>3. IsList(old) /\ IsList(w)
  BY <1>2 DEF Picks, TypeInv, QueuesTyped
<1>4. /\ Elems(new) \subseteq Elems(old) \cup Elems(w)
      /\ DOMAIN old = 1 .. Len(old) /\ Len(old) \in Nat /\ DOMAIN new \subseteq Nat \ {0}
  <2>1. Elems(new) \subseteq Elems(old) \cup Elems(w)
    BY <1>3, ConcatAt
  <2>2. /\ DOMAIN old = 1 .. Len(old) /\ DOMAIN w = 1 .. Len(w)
        /\ Len(old) \in Nat /\ Len(w) \in Nat /\ DOMAIN new = 1 .. Len(old) + Len(w)
    BY <1>3, ConcatAt
  <2> QED
    BY <2>1, <2>2
<1>7. \A a \in DOMAIN new : \/ a \in DOMAIN old /\ new[a] = old[a]
                           \/ /\ a \notin DOMAIN old /\ a - Len(old) \in DOMAIN w
                              /\ new[a] = w[a - Len(old)]
  BY <1>3, JoinedAt, Zenon
<1> HIDE DEF new
<1>5. \A a \in DOMAIN w : \E i : Reaches(w[a], d, r.out, i, k)
  BY <1>2 DEF Picks, Reaches
<1>6. \A a, b \in DOMAIN w : a < b =>
        \E i, j : i < j /\ Reaches(w[a], d, r.out, i, k) /\ Reaches(w[b], d, r.out, j, k)
  BY <1>2 DEF Picks, Reaches
<1>8. \A x \in Elems(new) : x \in Elems(old) \/ \E i : Reaches(x, d, r.out, i, k)
  BY <1>4, <1>5 DEF Elems
<1>9. ASSUME NEW a \in DOMAIN new, NEW b \in DOMAIN new, a < b
      PROVE  \/ a \in DOMAIN old /\ b \in DOMAIN old /\ new[a] = old[a] /\ new[b] = old[b]
             \/ new[a] \in Elems(old) /\ \E j : Reaches(new[b], d, r.out, j, k)
             \/ \E i, j : /\ i < j /\ Reaches(new[a], d, r.out, i, k)
                          /\ Reaches(new[b], d, r.out, j, k)
  <2>1. CASE b \in DOMAIN old
    <3>1. a \in DOMAIN old
      BY <1>4, <1>9, <2>1
    <3> QED
      BY <1>7, <2>1, <3>1
  <2>2. CASE b \notin DOMAIN old /\ a \in DOMAIN old
    <3>1. new[a] \in Elems(old)
      BY <1>7, <2>2 DEF Elems
    <3>2. \E j : Reaches(new[b], d, r.out, j, k)
      BY <1>5, <1>7, <2>2
    <3> QED
      BY <3>1, <3>2
  <2>3. CASE b \notin DOMAIN old /\ a \notin DOMAIN old
    <3>1. a - Len(old) < b - Len(old)
      BY <1>4, <1>9
    <3> QED
      BY <1>6, <1>7, <2>3, <3>1
  <2> QED
    BY <2>1, <2>2, <2>3
<1> QED
  BY <1>1, <1>8, <1>9

\* Client d may be told this about a command of c.
Hears(d, code, c, cmd) ==
  /\ code \in Tellable(Obeyed(cmd), d = c)
  /\ Obeyed(cmd) \in Broadcasts /\ d # c => \E ch \in Channels : d \in chan[ch].members

\* About a PONG nobody is told anything, about a QUIT only that.
LEMMA PongUntold ==
  ASSUME NEW d, NEW code, NEW c, NEW cmd, cmd.verb = "PONG"
  PROVE  ~Hears(d, code, c, cmd)
<1>1. Obeyed(cmd) = "PONG"
  BY Zenon DEF Obeyed
<1>2. Announced("PONG") = {}
  BY DEF Announced, Broadcasts
<1>3. Codes("PONG") = {}
  BY DEF Codes
<1> QED
  BY <1>1, <1>2, <1>3 DEF Tellable, Hears

\* A QUIT is announced as such and answered by nothing.
LEMMA QuitTold ==
  ASSUME NEW own, NEW code \in Tellable("QUIT", own)
  PROVE  code = "QUIT"
<1>1. Announced("QUIT") \subseteq {"QUIT"}
  BY DEF Announced
<1>2. Codes("QUIT") = {}
  BY DEF Codes
<1> QED
  BY <1>1, <1>2 DEF Tellable

\* A command leaves the queue of its client, and what is owed about it is written.
Taken(r, c, x) ==
  /\ toServer[c] # <<>> /\ x = Head(toServer[c]) /\ c \notin gone
  /\ toServer' = [toServer EXCEPT ![c] = Tail(@)]
  /\ Owed(r, c, x.cmd) /\ Write(r, x.cause)
  /\ chan' = r.chan /\ gone \subseteq gone'
  /\ UNCHANGED runVars

\* The server serves a client by taking its first command.
LEMMA ServeTakes ==
  ASSUME TypeInv, Separating, Clean, NEW c \in Clients, Serve(c)
  PROVE  \E r, x : Taken(r, c, x)
<1> DEFINE first == Head(toServer[c])
<1>1. /\ c \notin gone /\ toServer[c] # <<>>
      /\ toServer' = [toServer EXCEPT ![c] = Tail(@)] /\ UNCHANGED runVars
  BY DEF Serve, Handle
<1>2. PICK m \in Readings(c, first.cmd) :
        LET r == Answer(Before, c, m)
        IN  chan' = r.chan /\ gone' = r.gone /\ Write(r, first.cause)
  BY Zenon DEF Serve, Handle
<1>3. first \in Elems(toServer[c])
  BY <1>1, TailList DEF TypeInv, QueuesTyped
<1>4. CommandShape(first.cmd) /\ Posted(first, c)
  BY <1>3 DEF TypeInv, QueuesTyped, Sent, Separating, CommandsSent
<1> HIDE DEF first
<1>5. Placed(first.cmd)
  <2>1. CASE first.cmd.verb = "PONG"
    BY <2>1, Zenon DEF Placed
  <2>2. CASE first.cause \in Sendings(Script) /\ first.cmd = Script[first.cause].cmd
    BY <2>2 DEF Clean, SeparatedTest, Script
  <2> QED
    BY <1>4, <2>1, <2>2 DEF Posted
<1> DEFINE r == Answer(Before, c, m)
<1>6. Owed(r, c, first.cmd)
  BY <1>2, <1>4, <1>5, ServerOwes DEF Clean
<1>7. gone \subseteq r.gone
  <2>1. IsCommand(first.cmd, first.cmd.verb) /\ first.cmd.verb \in Verbs
    BY <1>4, ListLength DEF CommandShape, IsCommand, Numbered
  <2>2. IsCommand(m, m.verb) /\ m.verb \in Verbs
    BY <1>2, <2>1, ReadingsNumbered
  <2>3. Obeys(r, c)
    BY <2>2, BeforeSpeaks, AnswerObeys
  <2> HIDE DEF r
  <2> QED
    BY <2>3 DEF Obeys
<1>8. chan' = r.chan /\ gone' = r.gone /\ Write(r, first.cause)
  BY <1>2
<1> HIDE DEF r
<1>9. Taken(r, c, first)
  BY <1>1, <1>6, <1>7, <1>8 DEF Taken, first
<1> QED
  BY <1>9

\* What a command leaves behind in the queue, without confusion.
LEMMA TailDistinct ==
  ASSUME NEW s, IsList(s), s # <<>>, Distinct(s)
  PROVE  /\ Distinct(Tail(s)) /\ Elems(Tail(s)) \subseteq Elems(s) /\ Head(s) \in Elems(s)
         /\ \A x \in Elems(Tail(s)) : x.cause = Head(s).cause => Head(s).cause = 0
<1> DEFINE S == Elems(s)
           t == Tail(s)
<1>1. s \in Seq(S)
  BY ListIsSeq
<1> HIDE DEF S
<1>2. /\ Len(s) \in Nat /\ DOMAIN s = 1 .. Len(s) /\ Len(s) # 0 /\ Head(s) = s[1]
      /\ DOMAIN t = 1 .. Len(s) - 1 /\ \A i \in 1 .. Len(s) - 1 : t[i] = s[i + 1]
  BY <1>1
<1> HIDE DEF t
<1>3. 1 \in DOMAIN s /\ \A i \in DOMAIN t : i \in Nat /\ i + 1 \in DOMAIN s /\ 1 < i + 1 /\ t[i] = s[i + 1]
  BY <1>2
<1>4. ASSUME NEW i \in DOMAIN t, NEW j \in DOMAIN t, i < j, t[i].cause = t[j].cause
      PROVE  t[i].cause = 0
  <2>1. i + 1 < j + 1
    BY <1>3, <1>4
  <2> QED
    BY <1>3, <1>4, <2>1 DEF Distinct
<1>5. Distinct(t)
  BY <1>4 DEF Distinct
<1>6. ASSUME NEW x \in Elems(t), x.cause = Head(s).cause
      PROVE  Head(s).cause = 0
  <2>1. PICK i \in DOMAIN t : x = t[i]
    BY <1>6 DEF Elems
  <2> QED
    BY <1>2, <1>3, <1>6, <2>1 DEF Distinct
<1>7. Elems(t) \subseteq Elems(s) /\ Head(s) \in Elems(s)
  BY <1>2, <1>3 DEF Elems
<1> QED
  BY <1>5, <1>6, <1>7 DEF t

\* When a command is taken it is no longer on its way, and no other was.
LEMMA TakenQueues ==
  ASSUME TypeInv, Separating, NEW c \in Clients, NEW r, NEW x, Taken(r, c, x)
  PROVE  /\ CommandsSent' /\ Posted(x, c) /\ x \in Elems(toServer[c])
         /\ \A k \in Sendings(Script) : Waiting(k)' => Waiting(k) /\ k # x.cause
<1>1. /\ DOMAIN toServer = Clients /\ IsList(toServer[c]) /\ toServer[c] # <<>>
      /\ toServer' = [toServer EXCEPT ![c] = Tail(@)] /\ UNCHANGED runVars /\ x = Head(toServer[c])
  BY DEF TypeInv, QueuesTyped, Taken
<1>2. Script' = Script /\ at' = at
  BY <1>1 DEF runVars, Script
<1> DEFINE new == Tail(toServer[c])
<1>3. /\ Distinct(new) /\ Elems(new) \subseteq Elems(toServer[c]) /\ x \in Elems(toServer[c])
      /\ \A y \in Elems(new) : y.cause = x.cause => x.cause = 0
  BY <1>1, TailDistinct DEF Separating, CommandsSent
<1> HIDE DEF new
<1>4. Posted(x, c)
  BY <1>3 DEF Separating, CommandsSent
<1>5. toServer'[c] = new /\ \A d \in Clients \ {c} : toServer'[d] = toServer[d]
  BY <1>1 DEF new
<1>6. CommandsSent'
  <2>1. ASSUME NEW d \in Clients
        PROVE  Distinct(toServer'[d]) /\ \A y \in Elems(toServer'[d]) : y \in Elems(toServer[d])
    BY <1>3, <1>5 DEF Separating, CommandsSent
  <2>2. ASSUME NEW d \in Clients, NEW y \in Elems(toServer'[d])
        PROVE  Posted(y, d)'
    BY <1>2, <2>1 DEF Separating, CommandsSent, Posted
  <2> QED
    BY <2>1, <2>2 DEF CommandsSent
<1>7. ASSUME NEW k \in Sendings(Script), Waiting(k)'
      PROVE  Waiting(k) /\ k # x.cause
  <2>1. Script[k].who \in Clients /\ k # 0
    BY SendingsAreSteps
  <2>2. PICK y \in Elems(toServer'[Script[k].who]) : y.cause = k
    BY <1>2, <1>7 DEF Waiting
  <2>3. CASE Script[k].who = c
    BY <1>3, <1>5, <2>1, <2>2, <2>3 DEF Waiting
  <2>4. CASE Script[k].who # c
    <3>1. y \in Elems(toServer[Script[k].who])
      BY <1>5, <2>1, <2>2, <2>4
    <3>2. k # x.cause
      BY <1>4, <2>1, <2>4 DEF Posted
    <3> QED
      BY <2>2, <3>1, <3>2 DEF Waiting
  <2> QED
    BY <2>3, <2>4
<1> QED
  BY <1>3, <1>4, <1>6, <1>7

\* The server writes what may be written about command n, or unasked.
LEMMA WriteSeparates ==
  ASSUME TypeInv, Separating, UNCHANGED runVars, gone \subseteq gone',
         CommandsSent', Outsiders', \A k \in Sendings(Script) : Waiting(k)' => Waiting(k),
         NEW r, IsList(r.out), NEW n, Write(r, n),
         \A d \in Clients : \A i, m : Reaches(m, d, r.out, i, n) => Caused(m, d)',
         n # 0 =>
           /\ n \in Sendings(Script) /\ Waiting(n) /\ Script[n].who \notin gone
           /\ \A i, j \in DOMAIN r.out : i < j => ~Ends(Script[n].cmd, r.out[i].msg.cmd)
           /\ \A i, j \in DOMAIN r.out :
                Single(Script[n].cmd) => r.out[i].msg.cmd = r.out[j].msg.cmd
  PROVE  Separating'
<1>1. Script' = Script /\ at' = at /\ Hurried' = Hurried
  BY DEF runVars, Script, Hurried
<1>2. \A d \in Clients : \A i, m : Reaches(m, d, r.out, i, n) =>
        m.cause = n /\ i \in DOMAIN r.out /\ m.cmd = r.out[i].msg.cmd
  BY DEF Reaches, Carries
<1>3. \A d \in Clients : \A m \in Elems(inbox'[d]) :
        m \in Elems(inbox[d]) \/ \E i : Reaches(m, d, r.out, i, n)
  BY WriteFollows
<1>4. \A d \in Clients : \A m \in Elems(inbox[d]) : Caused(m, d) /\ (n # 0 => m.cause # n)
  BY DEF Separating, MessagesCaused, Caused
<1>5. MessagesCaused'
  <2>1. ASSUME NEW d \in Clients, NEW m \in Elems(inbox'[d])
        PROVE  Caused(m, d)'
    <3>1. CASE m \in Elems(inbox[d])
      BY <1>1, <1>4, <3>1 DEF Caused
    <3> QED
      BY <1>3, <2>1, <3>1
  <2> QED
    BY <2>1 DEF MessagesCaused
<1>6. Ordered'
  <2>1. ASSUME NEW d \in Clients, NEW a \in DOMAIN inbox'[d], NEW b \in DOMAIN inbox'[d],
               a < b, inbox'[d][a].cause = inbox'[d][b].cause, inbox'[d][a].cause # 0
        PROVE  ~Ends(Script[inbox'[d][a].cause].cmd, inbox'[d][a].cmd)
    <3>1. CASE /\ a \in DOMAIN inbox[d] /\ b \in DOMAIN inbox[d]
               /\ inbox'[d][a] = inbox[d][a] /\ inbox'[d][b] = inbox[d][b]
      BY <2>1, <3>1 DEF Separating, Ordered
    <3>2. CASE inbox'[d][a] \in Elems(inbox[d]) /\ \E j : Reaches(inbox'[d][b], d, r.out, j, n)
      BY <1>2, <1>4, <2>1, <3>2
    <3>3. CASE \E i, j : /\ i < j /\ Reaches(inbox'[d][a], d, r.out, i, n)
                          /\ Reaches(inbox'[d][b], d, r.out, j, n)
      BY <1>2, <2>1, <3>3
    <3> QED
      BY <2>1, <3>1, <3>2, <3>3, WriteFollows
  <2> QED
    BY <1>1, <2>1 DEF Ordered
<1>7. Uniform'
  <2>1. ASSUME NEW d \in Clients, NEW e \in Clients,
               NEW m \in Elems(inbox'[d]), NEW q \in Elems(inbox'[e]),
               m.cause = q.cause, m.cause # 0, Single(Script[m.cause].cmd)
        PROVE  m.cmd = q.cmd
    <3>1. CASE m \in Elems(inbox[d]) /\ q \in Elems(inbox[e])
      BY <2>1, <3>1 DEF Separating, Uniform
    <3>2. CASE m \notin Elems(inbox[d]) \/ q \notin Elems(inbox[e])
      <4>1. m.cause = n /\ n # 0
        BY <1>2, <1>3, <2>1, <3>2
      <4>2. \E i, j : Reaches(m, d, r.out, i, n) /\ Reaches(q, e, r.out, j, n)
        BY <1>3, <1>4, <2>1, <4>1
      <4> QED
        BY <1>2, <2>1, <4>1, <4>2
    <3> QED
      BY <3>1, <3>2
  <2> QED
    BY <1>1, <2>1 DEF Uniform
<1>8. Cleared'
  <2>1. ASSUME NEW j \in DOMAIN Script, NEW k \in Sendings(Script), NEW c \in Clients, NEW reply,
               j < at, Clears(Script, Hurried, j, k, c, reply)
        PROVE  Spent(k, c, reply)'
    <3>1. Spent(k, c, reply)
      BY <2>1 DEF Separating, Cleared
    <3>2. n # k
      BY <3>1, SendingsAreSteps DEF Spent
    <3>3. \A m \in Elems(inbox'[c]) : m.cause = k => m \in Elems(inbox[c])
      BY <1>2, <1>3, <3>2
    <3> QED
      BY <1>1, <3>1, <3>3 DEF Spent
  <2> QED
    BY <1>1, <2>1 DEF Cleared
<1> QED
  BY <1>5, <1>6, <1>7, <1>8 DEF Separating

\* The server takes a command and writes what it owes.
LEMMA ServeSeparates ==
  ASSUME TypeInv, Separating, Clean, NEW c \in Clients, Serve(c)
  PROVE  Separating'
<1>1. PICK r, x : Taken(r, c, x)
  BY ServeTakes
<1>2. /\ c \notin gone /\ Owed(r, c, x.cmd) /\ Write(r, x.cause) /\ IsList(r.out)
      /\ chan' = r.chan /\ gone \subseteq gone' /\ UNCHANGED runVars
  BY <1>1 DEF Taken, Owed, IsReaction
<1>3. Script' = Script /\ at' = at /\ Hurried' = Hurried
  BY <1>2 DEF runVars, Script, Hurried
<1>4. /\ CommandsSent' /\ Posted(x, c) /\ x \in Elems(toServer[c])
      /\ \A k \in Sendings(Script) : Waiting(k)' => Waiting(k) /\ k # x.cause
  BY <1>1, TakenQueues
<1> DEFINE n   == x.cause
           cmd == x.cmd
<1>5. \/ n = 0 /\ cmd.verb = "PONG"
      \/ /\ n # 0 /\ n \in Sendings(Script) /\ n < at /\ Script[n].who = c /\ cmd = Script[n].cmd
         /\ Waiting(n) /\ ~Waiting(n)' /\ Script[n].who \notin gone
  BY <1>2, <1>4, SendingsAreSteps DEF Posted, Waiting
<1>6. ASSUME NEW d \in Clients, NEW i, NEW m, Reaches(m, d, r.out, i, n)
      PROVE  Caused(m, d)'
  <2>1. m.cause = n /\ Hears(d, m.cmd, c, cmd)
    <3>1. /\ i \in DOMAIN r.out /\ d \in r.out[i].to /\ m.cmd = r.out[i].msg.cmd /\ m.cause = n
          /\ MayHear(r.out[i].to, r.out[i].msg.cmd, c, Obeyed(cmd))
      BY <1>2, <1>6 DEF Reaches, Carries, Owed
    <3> QED
      BY <3>1 DEF MayHear, Hears
  <2>2. ~(n = 0 /\ cmd.verb = "PONG")
    BY <2>1, PongUntold
  <2>3. (\E ch \in Channels : d \in chan[ch].members) => ~Outside(Script, d, at)
    BY DEF Separating, Outsiders
  <2>4. (Script[n].who = d) = (d = c)
    BY <1>5, <2>2
  <2>5. m.cmd \in Tellable(Obeyed(Script[n].cmd), Script[n].who = d)
    BY <1>5, <2>1, <2>2, <2>4 DEF Hears
  <2> QED
    BY <1>3, <1>5, <2>1, <2>2, <2>3, <2>5 DEF Caused, Hears
<1>7. Outsiders'
  <2>1. ASSUME NEW d \in Clients, Outside(Script, d, at), NEW ch \in Channels, d \in r.chan[ch].members
        PROVE  FALSE
    <3>1. d \notin chan[ch].members
      BY <2>1 DEF Separating, Outsiders
    <3>2. Obeyed(cmd) = "JOIN" /\ d = c
      BY <1>2, <2>1, <3>1 DEF Owed
    <3>3. cmd.verb = "JOIN"
      BY <3>2 DEF Obeyed
    <3> QED
      BY <1>5, <2>1, <3>2, <3>3 DEF Outside
  <2> QED
    BY <1>2, <1>3, <2>1 DEF Outsiders
<1>8. n # 0 =>
        /\ \A i, j \in DOMAIN r.out : i < j => ~Ends(Script[n].cmd, r.out[i].msg.cmd)
        /\ \A i, j \in DOMAIN r.out :
             Single(Script[n].cmd) => r.out[i].msg.cmd = r.out[j].msg.cmd
  <2>1. ASSUME n # 0, NEW i \in DOMAIN r.out, NEW j \in DOMAIN r.out
        PROVE  /\ i < j => ~Ends(Script[n].cmd, r.out[i].msg.cmd)
               /\ Single(Script[n].cmd) => r.out[i].msg.cmd = r.out[j].msg.cmd
    <3>1. \A a, b \in DOMAIN r.out : a < b => ~Ends(Script[n].cmd, r.out[a].msg.cmd)
      BY <1>2, <1>5, <2>1 DEF Owed
    <3>2. i < j \/ j < i \/ i = j
      BY <1>2, ListLength
    <3>3. Single(Script[n].cmd) => i = j
      BY <3>1, <3>2 DEF Ends
    <3> QED
      BY <3>1, <3>3
  <2> QED
    BY <2>1
<1> QED
  BY <1>2, <1>4, <1>5, <1>6, <1>7, <1>8, WriteSeparates

\* What was said is a list of such messages.
AllSay(q, code) == IsList(q.out) /\ \A i \in DOMAIN q.out : q.out[i].msg.cmd = code

\* A message where nothing was said.
LEMMA TellAlone ==
  ASSUME NEW r, "out" \in DOMAIN r, r.out = <<>>,
         NEW who, NEW code, NEW from, NEW ch, NEW nick, NEW text
  PROVE  AllSay(Tell(r, who, code, from, ch, nick, text), code)
<1> DEFINE x == Line(who, code, from, ch, nick, text)
           q == Tell(r, who, code, from, ch, nick, text)
<1>1. x.msg.cmd = code
  BY DEF Line
<1> HIDE DEF x
<1>2. q.out = Append(r.out, x)
  BY DEF Tell, x
<1> HIDE DEF q
<1>3. q.out = <<x>>
  BY <1>2
<1>4. <<x>> \in Seq({x}) /\ DOMAIN <<x>> = 1 .. 1 /\ <<x>>[1] = x
  OBVIOUS
<1>5. IsList(<<x>>)
  BY <1>4, SeqIsList
<1> QED
  BY <1>1, <1>3, <1>4, <1>5 DEF q, AllSay

\* The server asks a client, or gives it up.
LEMMA IdleSeparates ==
  ASSUME TypeInv, Separating, Clean, NEW c \in Clients, Idle(c)
  PROVE  Separating'
<1>1. UNCHANGED runVars /\ UNCHANGED toServer /\ (AskIdle(c) \/ CloseIdle(c))
  BY Zenon DEF Idle, AskIdle, CloseIdle
<1>2. Script' = Script /\ at' = at
  BY <1>1 DEF runVars, Script
<1>3. CommandsSent' /\ \A k \in Sendings(Script) : Waiting(k)' => Waiting(k)
  BY <1>1, <1>2 DEF Separating, CommandsSent, Posted, Waiting
<1> DEFINE ask   == Tell(Before, {c}, "PING", "server", "", "", "token")
           leave == Leave(Before, c, "timeout")
           quit  == [verb |-> "QUIT"]
<1>4. PICK r : /\ Write(r, 0) /\ IsList(r.out) /\ gone \subseteq gone'
               /\ \A ch \in Channels : chan'[ch].members \subseteq chan[ch].members
               /\ \A i \in DOMAIN r.out : r.out[i].to \cap Clients # {} => r.out[i].msg.cmd \in Unasked
  <2>1. CASE AskIdle(c)
    <3>1. Write(ask, 0) /\ UNCHANGED <<chan, gone>>
      BY <2>1, Zenon DEF AskIdle
    <3>2. "out" \in DOMAIN Before /\ Before.out = <<>>
      BY DEF Before
    <3>3. AllSay(ask, "PING")
      BY <3>2, TellAlone, Zenon
    <3> HIDE DEF ask
    <3> QED
      BY <3>1, <3>3 DEF Unasked, AllSay
  <2>2. CASE CloseIdle(c)
    <3>1. Write(leave, 0) /\ chan' = leave.chan /\ gone' = leave.gone
      BY <2>2, Zenon DEF CloseIdle
    <3>2. Opened(leave, c, quit)
      BY BeforeOpened, LeaveAnswers
    <3>3. Obeys(leave, c)
      BY BeforeSpeaks, LeaveObeys
    <3> HIDE DEF leave
    <3>4. /\ IsList(leave.out) /\ gone \subseteq leave.gone
          /\ \A i \in DOMAIN leave.out : MayHear(leave.out[i].to, leave.out[i].msg.cmd, c, "QUIT")
          /\ \A ch \in Channels : leave.chan[ch].members \subseteq chan[ch].members
      BY <3>2, <3>3 DEF Opened, Fit, IsReaction, Comers, Obeys
    <3>5. \A i \in DOMAIN leave.out :
            leave.out[i].to \cap Clients # {} => leave.out[i].msg.cmd \in Unasked
      BY <3>4, QuitTold DEF MayHear, Unasked
    <3> QED
      BY <3>1, <3>4, <3>5
  <2> QED
    BY <1>1, <2>1, <2>2
<1>5. ASSUME NEW d \in Clients, NEW i, NEW m, Reaches(m, d, r.out, i, 0)
      PROVE  Caused(m, d)'
  BY <1>4, <1>5 DEF Reaches, Carries, Caused
<1>6. Outsiders'
  BY <1>2, <1>4 DEF Separating, Outsiders
<1> QED
  BY <1>1, <1>3, <1>4, <1>5, <1>6, WriteSeparates

\* Some numbers up to n have a greatest.
LEMMA Greatest ==
  ASSUME NEW n \in Nat, NEW S, S \subseteq 1 .. n, S # {}
  PROVE  \E x \in S : \A y \in S : y <= x
<1> DEFINE T == {k \in Nat : n - k \in S}
<1>1. T \subseteq Nat /\ T # {}
  <2>1. PICK y \in S : TRUE
    OBVIOUS
  <2>2. n - y \in Nat /\ n - (n - y) = y
    BY <2>1
  <2> QED
    BY <2>2
<1>2. PICK k \in T : \A l \in T : k <= l
  <2> HIDE DEF T
  <2> QED
    BY <1>1, Least
<1>3. ASSUME NEW y \in S
      PROVE  y <= n - k
  <2>1. y \in Nat /\ n - y \in Nat /\ n - (n - y) = y
    BY <1>3
  <2>2. k <= n - y
    BY <1>2, <2>1
  <2> QED
    BY <2>1, <2>2
<1>4. n - k \in S
  BY <1>2
<1> QED
  BY <1>3, <1>4

\* The message a wait returns answers the last command, or one of its burst.
LEMMA FoundAnswers ==
  ASSUME TypeInv, Separating, Clean, NEW kinds, NEW now \in Doing(kinds),
         now.do \in Waits \cup {"take"},
         NEW m \in Elems(inbox[now.who]), Ending(now, m.cmd), m.cause # 0
  PROVE  m.cause >= LastSend(at)
<1>1. now = Script[at] /\ at \in DOMAIN Script /\ now.do # "send"
  BY StepOf, ScriptIsList DEF Doing, TypeInv, Waits
<1> DEFINE k == m.cause
           S == {l \in 1 .. at : Script[l].do = "send"}
<1>2. /\ k \in Sendings(Script) /\ k < at
      /\ \A l \in DOMAIN Script : k < l /\ l < at => Script[l].do # "send"
  BY FoundLatest
<1>3. /\ DOMAIN Script = 1 .. Len(Script) /\ Len(Script) \in Nat /\ at \in 1 .. Len(Script)
      /\ k \in 1 .. Len(Script)
  BY <1>1, <1>2, SendingsAreSteps
<1>4. S # {}
  <2>1. CASE Script[k].do = "send"
    BY <1>2, <1>3, <2>1
  <2>2. CASE Script[k].do = "sendOn"
    <3>1. PICK l \in DOMAIN Script : l < k /\ Script[l].do = "send"
      BY <1>3, <2>2 DEF Clean, SeparatedTest, Script
    <3> QED
      BY <1>2, <1>3, <3>1
  <2> QED
    BY <1>2, <2>1, <2>2 DEF Sendings
<1>5. PICK x \in S : \A y \in S : y <= x
  <2> HIDE DEF S
  <2>1. at \in Nat /\ S \subseteq 1 .. at
    BY <1>3 DEF S
  <2> QED
    BY <1>4, <2>1, Greatest
<1> DEFINE Final(l) == Script[l].do = "send" /\ \A j \in l + 1 .. at : Script[j].do # "send"
<1>6. x \in 1 .. at /\ Final(x)
  BY <1>3, <1>5
<1>7. LastSend(at) \in 1 .. at /\ Final(LastSend(at))
  <2>1. LastSend(at) = CHOOSE l \in 1 .. at : Final(l)
    BY DEF LastSend
  <2> HIDE DEF Final
  <2> QED
    BY <1>6, <2>1
<1>8. LastSend(at) # at
  BY <1>1, <1>7
<1> QED
  BY <1>2, <1>3, <1>7, <1>8

\* A step that remembers the message its wait returned.
LEMMA RemembersLatest ==
  ASSUME TypeInv, Separating, Clean, Latests, test' = test,
         NEW kinds, NEW now \in Doing(kinds), now.do \in Waits \cup {"take"},
         NEW m \in Elems(inbox[now.who]), Ending(now, m.cmd), Remembers(m)
  PROVE  Latests'
<1>1. Script' = Script
  BY DEF Script
<1>2. \A i : LastSend(i)' = LastSend(i)
  BY <1>1 DEF LastSend
<1>3. m.cause # 0 => m.cause >= LastSend(at)
  BY FoundAnswers
<1> QED
  BY <1>2, <1>3 DEF Latests, Remembers

\* The steps of the test's thread.
LEMMA ThreadLatest ==
  ASSUME TypeInv, Separating, Clean, Latests, TestThread
  PROVE  Latests'
<1>1. CASE answered' = answered /\ test' = test
  <2>1. Script' = Script
    BY <1>1 DEF Script
  <2>2. \A i : LastSend(i)' = LastSend(i)
    BY <2>1 DEF LastSend
  <2> QED
    BY <1>1, <2>2 DEF Latests
<1>2. CASE WaitFinds
  <2>1. PICK now \in Doing(Waits) :
          /\ FirstMatch(now) # 0 /\ Remembers(inbox[now.who][FirstMatch(now)]) /\ test' = test
    BY <1>2 DEF WaitFinds
  <2>2. now.who \in Clients /\ now.do \in Waits
    BY StepOf
  <2> DEFINE m == inbox[now.who][FirstMatch(now)]
  <2>3. m \in Elems(inbox[now.who]) /\ m.cmd = now.reply
    BY <2>1, <2>2, FirstMatches DEF TypeInv, QueuesTyped, Elems
  <2>4. Ending(now, m.cmd)
    BY <2>3 DEF Ending
  <2> HIDE DEF m
  <2> QED
    BY <2>1, <2>2, <2>3, <2>4, RemembersLatest DEF m
<1>3. CASE TakeStep
  <2>1. PICK now \in Doing({"take"}) :
          /\ test' = test
          /\ answered' = answered \/ (inbox[now.who] # <<>> /\ Remembers(Head(inbox[now.who])))
    BY <1>3 DEF TakeStep
  <2>2. now.who \in Clients /\ now.do = "take"
    BY StepOf
  <2> DEFINE m == Head(inbox[now.who])
  <2>3. CASE inbox[now.who] # <<>> /\ Remembers(m)
    <3>1. m \in Elems(inbox[now.who])
      BY <2>2, <2>3, TailList DEF TypeInv, QueuesTyped
    <3>2. Ending(now, m.cmd)
      BY <2>2 DEF Ending
    <3> HIDE DEF m
    <3> QED
      BY <2>1, <2>2, <2>3, <3>1, <3>2, RemembersLatest
  <2> QED
    BY <1>1, <2>1, <2>3
<1>4. CASE ~WaitFinds /\ ~TakeStep
  <2>1. answered' = answered /\ test' = test
    BY <1>4 DEF TestThread, SendStep, WaitTimesOut, CollectStep, DrainStep, GetMessageStep,
                CoversStep, PauseStep, SleepStep, ProbeStep, EndTest
  <2> QED
    BY <1>1, <2>1
<1> QED
  BY <1>2, <1>3, <1>4

-----------------------------------------------------------------------------
(* The invariant of the waits is one *)

\* A separated test under a conforming server.
WaitInv == TypeInv /\ (Clean => Separating /\ Latests)

\* Nothing is on its way at the start.
LEMMA WaitsInit == Init => WaitInv
<1> SUFFICES ASSUME Init PROVE WaitInv
  OBVIOUS
<1>1. TypeInv
  BY TypesInit
<1>2. DOMAIN <<>> = {} /\ Elems(<<>>) = {}
  BY DEF Elems
<1>3. /\ \A c \in Clients : toServer[c] = <<>> /\ inbox[c] = <<>>
      /\ \A ch \in Channels : chan[ch].members = {}
      /\ answered = <<>> /\ at = 1
  <2>1. NoChannel.members = {}
    BY DEF NoChannel
  <2> QED
    BY <2>1 DEF Init
<1>4. CommandsSent /\ MessagesCaused /\ Ordered /\ Uniform /\ Outsiders
  BY <1>2, <1>3 DEF CommandsSent, Distinct, MessagesCaused, Ordered, Uniform, Outsiders
<1>5. Cleared
  BY <1>1, <1>3, SendingsAreSteps DEF Cleared
<1>6. Latests
  BY <1>2, <1>3 DEF Latests
<1> QED
  BY <1>1, <1>4, <1>5, <1>6 DEF WaitInv, Separating

\* The server and the test stay what they are.
LEMMA SettingStays == [Next]_vars => UNCHANGED <<fault, test>>
<1> SUFFICES ASSUME [Next]_vars PROVE UNCHANGED <<fault, test>>
  OBVIOUS
<1>1. CASE UNCHANGED vars
  BY <1>1 DEF vars, serverVars, runVars
<1>2. CASE TestThread
  <2>1. CASE WaitFinds \/ WaitTimesOut \/ TakeStep \/ CollectStep \/ DrainStep \/ GetMessageStep
    <3>1. \A c, n : TakeOff(c, n) => fault' = fault
      BY DEF TakeOff
    <3> QED
      BY <2>1, <3>1 DEF WaitFinds, WaitTimesOut, TakeStep, CollectStep, DrainStep,
                        GetMessageStep, serverVars
  <2>2. CASE SendStep \/ CoversStep \/ PauseStep \/ SleepStep \/ ProbeStep \/ EndTest
    BY <2>2 DEF SendStep, CoversStep, PauseStep, SleepStep, ProbeStep, EndTest, serverVars
  <2> QED
    BY <1>2, <2>1, <2>2 DEF TestThread
<1>3. CASE Server
  <2>1. PICK c \in Clients : Serve(c) \/ Idle(c)
    BY <1>3 DEF Server
  <2>2. UNCHANGED fault /\ UNCHANGED runVars
    BY <2>1, Zenon DEF Serve, Handle, Idle, AskIdle, CloseIdle
  <2> QED
    BY <2>2 DEF runVars
<1> QED
  BY <1>1, <1>2, <1>3 DEF Next

\* Every step keeps it.
LEMMA WaitsNext == WaitInv /\ [Next]_vars => WaitInv'
<1> SUFFICES ASSUME WaitInv, [Next]_vars PROVE WaitInv'
  OBVIOUS
<1>1. TypeInv /\ TypeInv'
  BY TypesNext DEF WaitInv
<1>2. Clean' => Clean
  BY SettingStays DEF Clean
<1> SUFFICES ASSUME Clean PROVE Separating' /\ Latests'
  BY <1>1, <1>2 DEF WaitInv
<1>3. Separating /\ Latests
  BY DEF WaitInv
<1>4. CASE UNCHANGED <<serverVars, test, at, answered>>
  <2>1. Separating'
    BY <1>1, <1>3, <1>4, LooksSeparates DEF serverVars
  <2>2. Script' = Script
    BY <1>4 DEF Script
  <2> QED
    BY <1>3, <1>4, <2>1, <2>2 DEF Latests, LastSend
<1>5. CASE TestThread
  BY <1>1, <1>3, <1>5, SendSeparates, GetSeparates, QuietSeparates, ThreadLatest DEF TestThread
<1>6. CASE Server
  <2>1. PICK c \in Clients : Serve(c) \/ Idle(c)
    BY <1>6 DEF Server
  <2>2. UNCHANGED runVars
    BY <2>1 DEF Serve, Idle
  <2>3. Separating'
    BY <1>1, <1>3, <2>1, ServeSeparates, IdleSeparates
  <2>4. Script' = Script /\ answered' = answered
    BY <2>2 DEF runVars, Script
  <2> QED
    BY <1>3, <2>3, <2>4 DEF Latests, LastSend
<1> QED
  BY <1>4, <1>5, <1>6 DEF Next, vars, runVars

\* It says that the waits separate.
LEMMA WaitsFollow == SeparatedSuite /\ WaitInv => WaitsAnswerLastSend
<1> SUFFICES ASSUME SeparatedSuite, WaitInv, fault = "none", test # "invite_errors"
             PROVE  Latests
  BY DEF WaitsAnswerLastSend, Latests
<1>1. Clean
  BY DEF WaitInv, TypeInv, Clean, SeparatedSuite
<1> QED
  BY <1>1 DEF WaitInv

\* If the steps of each test but test_invite_errors clear the answers to one command
\* before a wait that is meant for a later one, then on a conforming server no such wait
\* returns a message about an older command, nor does get_message where a test takes what
\* comes: whatever the order in which the server takes the commands of the connections,
\* and whichever of the short time-outs expire early.
THEOREM WaitsSeparated == SeparatedSuite => (Spec => []WaitsAnswerLastSend)
<1>1. SeparatedSuite => SeparatedSuite'
  BY DEF SeparatedSuite
<1> QED
  BY <1>1, WaitsInit, WaitsNext, WaitsFollow, PTL DEF Spec
==============================================================================
