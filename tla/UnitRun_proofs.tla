---------------------------- MODULE UnitRun_proofs ----------------------------
(***************************************************************************)
(* Proofs about what execute() does to the objects of a unit test, for all  *)
(* sets of clients and channels, whatever is wrong with the server: objects *)
(* keep their types, one command never both makes a channel and empties     *)
(* one, and only who a command concerns comes or goes. Then the types of    *)
(* UnitRun, for every suite of well-formed tests.                           *)
(***************************************************************************)
EXTENDS UnitRun, IRCCommands_proofs

\* LIST and NAMES without a channel are completed by a numbered list of them.
LEMMA CompletedNumbered ==
  ASSUME NEW cmd, "chans" \in DOMAIN cmd, Numbered(cmd.chans)
  PROVE  /\ Numbered(Completed(cmd).chans) /\ DOMAIN Completed(cmd) = DOMAIN cmd
         /\ \A f \in DOMAIN cmd \ {"chans"} : Completed(cmd)[f] = cmd[f]
<1> DEFINE all == SelectSeq(ChannelOrder, LAMBDA ch : ch \in listed)
<1>1. Numbered(all)
  <2>1. Len(all) \in Nat /\ DOMAIN all = 1 .. Len(all)
     OBVIOUS
  <2> QED BY <2>1 DEF Numbered
<1> HIDE DEF all
<1>2. Completed(cmd) \in {cmd, [cmd EXCEPT !.chans = all]}
  BY DEF Completed, all
<1> QED
  BY <1>1, <1>2

\* What execute() makes of its arguments is a command with numbered lists.
LEMMA CommandNumbered ==
  ASSUME NEW verb, NEW given, IsList(given), \A i \in DOMAIN given : IsList(given[i]),
         verb \in ChannelVerbs
  PROVE  IsCommand(CommandOf(verb, given), verb)
<1>1. \A i \in {1,2,3} : Numbered(List(given, i)) /\ Numbered(FindClients(List(given, i)))
  <2> SUFFICES ASSUME NEW i \in {1,2,3} PROVE Numbered(List(given, i)) /\ Numbered(FindClients(List(given, i)))
    OBVIOUS
  <2>1. Len(given) \in Nat /\ DOMAIN given = 1 .. Len(given)
    BY DEF IsList
  <2>2. DOMAIN <<>> = 1 .. 0
    OBVIOUS
  <2>3. \A k \in DOMAIN given : Len(given[k]) \in Nat /\ DOMAIN given[k] = 1 .. Len(given[k])
    BY DEF IsList
  <2>4. Numbered(<<>>) /\ \A k \in DOMAIN given : Numbered(given[k])
    BY <2>2, <2>3 DEF Numbered
  <2>5. Numbered(List(given, i))
    BY <2>1, <2>4 DEF List
  <2> QED
    BY <2>5 DEF FindClients, Numbered
<1> DEFINE none == [verb |-> verb, chans |-> <<>>, nicks |-> <<>>, text |-> "",
                    key |-> "", limit |-> 0]
           kept(with) == [none EXCEPT !.chans = with.chans, !.nicks = with.nicks]
           cmd == CommandOf(verb, given)
           L(i) == List(given, i)
<1>2. /\ DOMAIN none = {"verb", "chans", "nicks", "text", "key", "limit"}
      /\ none.verb = verb /\ none.chans = <<>> /\ none.nicks = <<>>
  BY Zenon
<1>3. verb \in {"JOIN", "PART", "NAMES"} =>
        \E key : cmd = [none EXCEPT !.chans = List(given, 1), !.key = key]
  BY Zenon DEF CommandOf
<1>4. verb = "TOPIC" => \E text : cmd = [none EXCEPT !.chans = List(given, 1), !.text = text]
  BY Zenon DEF CommandOf
<1>5. verb = "KICK" => \E text :
        cmd = [none EXCEPT !.chans = List(given, 1), !.nicks = FindClients(List(given, 2)),
                           !.text = text]
  BY Zenon DEF CommandOf
<1>6. verb = "INVITE" =>
        cmd = [none EXCEPT !.nicks = FindClients(List(given, 1)), !.chans = List(given, 2)]
  BY Zenon DEF CommandOf
<1>7. verb = "MODE" => \E text, key, limit, nicks :
        /\ nicks \in {<<>>, FindClients(List(given, 3))}
        /\ cmd = [none EXCEPT !.chans = List(given, 1), !.text = text, !.nicks = nicks,
                              !.key = key, !.limit = limit]
  BY Zenon DEF CommandOf
<1>8. verb \in {"PRIVMSG", "NOTICE"} => \E text :
        \/ cmd = [none EXCEPT !.chans = List(given, 1), !.text = text]
        \/ cmd = [none EXCEPT !.nicks = FindClients(List(given, 1)), !.text = text]
  BY Zenon DEF CommandOf
<1> SUFFICES IsCommand(cmd, verb)
  OBVIOUS
<1> HIDE DEF none, cmd
<1> USE DEF IsCommand
<1>9. Numbered(<<>>)
  <2>1. DOMAIN <<>> = 1 .. 0
    OBVIOUS
  <2> QED
    BY <2>1 DEF Numbered
<1>10. CASE verb \in {"JOIN", "PART", "NAMES"}
  <2>1. PICK key : cmd = [none EXCEPT !.chans = List(given, 1), !.key = key]
    BY <1>3, <1>10, Zenon
  <2> QED
    BY <1>1, <1>2, <1>9, <2>1
<1>11. CASE verb = "TOPIC"
  <2>1. PICK text : cmd = [none EXCEPT !.chans = List(given, 1), !.text = text]
    BY <1>4, <1>11, Zenon
  <2> QED
    BY <1>1, <1>2, <1>9, <2>1
<1>12. CASE verb = "KICK"
  <2>1. PICK text : cmd = [none EXCEPT !.chans = List(given, 1),
                             !.nicks = FindClients(List(given, 2)), !.text = text]
    BY <1>5, <1>12, Zenon
  <2> QED
    BY <1>1, <1>2, <2>1
<1>13. CASE verb = "INVITE"
  BY <1>1, <1>2, <1>6, <1>13
<1>14. CASE verb = "MODE"
  <2>1. PICK text, key, limit, nicks :
          /\ nicks \in {<<>>, FindClients(List(given, 3))}
          /\ cmd = [none EXCEPT !.chans = List(given, 1), !.text = text, !.nicks = nicks,
                                !.key = key, !.limit = limit]
    BY <1>7, <1>14, Zenon
  <2> QED
    BY <1>1, <1>2, <1>9, <2>1
<1>15. CASE verb \in {"PRIVMSG", "NOTICE"}
  <2>1. PICK text :
          \/ cmd = [none EXCEPT !.chans = List(given, 1), !.text = text]
          \/ cmd = [none EXCEPT !.nicks = FindClients(List(given, 1)), !.text = text]
    BY <1>8, <1>15, Zenon
  <2> QED
    BY <1>1, <1>2, <1>9, <2>1
<1> QED
  BY <1>10, <1>11, <1>12, <1>13, <1>14, <1>15 DEF ChannelVerbs

-----------------------------------------------------------------------------
(* The commands that change no channel *)

IsClients(cl) ==
  /\ DOMAIN cl = Clients
  /\ \A d \in Clients : "channels" \in DOMAIN cl[d] /\ cl[d].channels \subseteq Channels

IsUnit(q) == IsReaction(q) /\ "client" \in DOMAIN q /\ IsClients(q.client)

Replies(q) == /\ IsUnit(q) /\ q.chan = chan
              /\ \A d \in Clients : q.client[d].channels = client[d].channels

\* What only writes leaves the server as it was.
LEMMA SaysReplies ==
  ASSUME NEW r, NEW q, Replies(r), Says(r, q)
  PROVE  Replies(q)
  BY DEF Replies, IsUnit, Says, Kept

\* A numeric reply leaves the channels and who is in them.
LEMMA NumericReplies ==
  ASSUME NEW r, Replies(r), NEW c, NEW code, NEW ch, NEW nick
  PROVE  Replies(Numeric(r, c, code, ch, nick))
  BY NumericSays, SaysReplies DEF Replies, IsUnit

\* So does a message.
LEMMA TellReplies ==
  ASSUME NEW r, Replies(r), NEW who, NEW cmd, NEW from, NEW ch, NEW nick, NEW text
  PROVE  Replies(Tell(r, who, cmd, from, ch, nick, text))
  BY TellSays, SaysReplies DEF Replies, IsUnit

\* So does a message more on the list.
LEMMA WrittenReplies ==
  ASSUME NEW r, Replies(r), NEW x
  PROVE  Replies([r EXCEPT !.out = Append(@, x)])
  BY AppendSays, SaysReplies DEF Replies, IsUnit

\* Several messages more leave the channels, too.
LEMMA ConcatReplies ==
  ASSUME NEW r, Replies(r), NEW t, NEW n \in Nat, t = [i \in 1 .. n |-> t[i]]
  PROVE  Replies([r EXCEPT !.out = @ \o t])
<1> DEFINE q == [r EXCEPT !.out = @ \o t]
<1>1. Says(r, q)
  BY ConcatSays DEF Replies, IsUnit
<1> HIDE DEF q
<1>2. Replies(q)
  BY <1>1, SaysReplies
<1> QED
  BY <1>2 DEF q

\* A client is changed, but not its set of channels.
LEMMA UpdatedReplies ==
  ASSUME NEW r, Replies(r), NEW c \in Clients, NEW with, "channels" \notin DOMAIN with
  PROVE  Replies(Updated(r, c, with))
<1> DEFINE d  == With(r.client[c], with)
           cl == [r.client EXCEPT ![c] = d]
           q  == [r EXCEPT !.client = cl]
<1>1. "channels" \in DOMAIN d /\ d.channels = r.client[c].channels
  BY DEF Replies, IsUnit, IsClients, With
<1> HIDE DEF d
<1>2. IsClients(cl) /\ \A e \in Clients : cl[e].channels = client[e].channels
  BY <1>1 DEF Replies, IsUnit, IsClients
<1> HIDE DEF cl
<1>3. q.client = cl /\ DOMAIN q = DOMAIN r /\ \A f \in DOMAIN r \ {"client"} : q[f] = r[f]
  BY DEF Replies, IsUnit
<1> HIDE DEF q
<1>4. Replies(q)
  BY <1>2, <1>3 DEF Replies, IsUnit, IsReaction
<1>5. Updated(r, c, with) = q
  BY DEF Updated, q, cl, d
<1> QED
  BY <1>4, <1>5

\* Registration is no matter of channels.
LEMMA WelcomeReplies ==
  ASSUME NEW r, Replies(r), NEW c \in Clients
  PROVE  Replies(Welcome(r, c))
<1> DEFINE q == Updated(r, c, [reg |-> TRUE])
<1>1. Replies(q)
  <2>1. "channels" \notin DOMAIN [reg |-> TRUE]
    OBVIOUS
  <2> QED
    BY <2>1, UpdatedReplies
<1>2. Replies(Numeric(Numeric(q, c, "001", "", c), c, "002", "", c))
  <2> HIDE DEF q
  <2> QED
    BY <1>1, NumericReplies, Zenon
<1> QED
  BY <1>2, Zenon DEF Welcome

\* Nor is PASS.
LEMMA PassReplies ==
  ASSUME NEW r, Replies(r), NEW c \in Clients, NEW given
  PROVE  Replies(Pass(r, c, given))
<1>1. Replies(Updated(r, c, [auth |-> TRUE]))
  <2>1. "channels" \notin DOMAIN [auth |-> TRUE]
    OBVIOUS
  <2> QED
    BY <2>1, UpdatedReplies
<1> QED
  BY <1>1, NumericReplies, Zenon DEF Pass

\* Nor is NICK.
LEMMA NickReplies ==
  ASSUME NEW r, Replies(r), NEW c \in Clients, NEW given
  PROVE  Replies(Nick(r, c, given))
<1> DEFINE new == [nick |-> Word(given, 1)]
<1>1. Replies(Updated(r, c, new))
  <2>1. "channels" \notin DOMAIN new
    OBVIOUS
  <2> QED
    BY <2>1, UpdatedReplies
<1>2. Replies(Welcome(Updated(r, c, new), c))
  <2> HIDE DEF new
  <2> QED
    BY <1>1, WelcomeReplies
<1> QED
  BY <1>2, NumericReplies, Zenon DEF Nick

\* Nor is USER.
LEMMA UserReplies ==
  ASSUME NEW r, Replies(r), NEW c \in Clients, NEW given
  PROVE  Replies(UserCommand(r, c, given))
<1> DEFINE new == [user |-> Word(given, 1), real |-> Word(given, 4)]
<1>1. Replies(Updated(r, c, new))
  <2>1. "channels" \notin DOMAIN new
    OBVIOUS
  <2> QED
    BY <2>1, UpdatedReplies
<1>2. Replies(Welcome(Updated(r, c, new), c))
  <2> HIDE DEF new
  <2> QED
    BY <1>1, WelcomeReplies
<1> QED
  BY <1>2, NumericReplies, Zenon DEF UserCommand

\* execute() of QUIT marks the client and leaves its channels to the server.
LEMMA QuitReplies ==
  ASSUME NEW r, Replies(r), NEW c \in Clients, NEW given
  PROVE  Replies(Quit(r, c, given))
<1> DEFINE said == IF Has("quit_message_lost") THEN "" ELSE Word(given, 1)
           new  == [marked |-> TRUE, quit |-> said]
<1> HIDE DEF said
<1>1. Replies(Updated(r, c, new))
  <2>1. "channels" \notin DOMAIN new
    OBVIOUS
  <2> QED
    BY <2>1, UpdatedReplies
<1> QED
  BY <1>1, Zenon DEF Quit, said

\* PONG changes the time of the last activity.
LEMMA PongReplies ==
  ASSUME NEW r, Replies(r), NEW c \in Clients
  PROVE  Replies(Pong(r, c))
<1>1. Replies(Updated(r, c, [last |-> clock]))
  <2>1. "channels" \notin DOMAIN [last |-> clock]
    OBVIOUS
  <2> QED
    BY <2>1, UpdatedReplies
<1> QED
  BY <1>1 DEF Pong

\* PING is answered.
LEMMA PingReplies ==
  ASSUME NEW r, Replies(r), NEW c, NEW given
  PROVE  Replies(Ping(r, c, given))
  BY NumericReplies, TellReplies, Zenon DEF Ping

\* An unknown verb is answered.
LEMMA UnknownReplies ==
  ASSUME NEW r, Replies(r), NEW c, NEW verb
  PROVE  Replies(Unknown(r, c, verb))
  BY NumericReplies, Zenon DEF Unknown

\* WHOIS is answered.
LEMMA WhoisReplies ==
  ASSUME NEW r, Replies(r), NEW c, NEW given
  PROVE  Replies(Whois(r, c, given))
<1>1. \A q : Replies(q) => \A x : Replies([q EXCEPT !.out = Append(@, x)])
  BY WrittenReplies
<1> QED
  BY <1>1, NumericReplies, TellReplies, Zenon DEF Whois

\* LIST is answered.
LEMMA ListReplies ==
  ASSUME NEW r, Replies(r), NEW c, NEW given
  PROVE  Replies(ListCommand(r, c, given))
<1> DEFINE shown == SelectSeq(ChannelOrder, LAMBDA ch :
                      ch \in listed /\ (given = <<>> \/ Has("list_unfiltered")
                                        \/ \E i \in DOMAIN given[1] : given[1][i] = ch))
           t     == [i \in DOMAIN shown |-> ListReply(r, c, shown[i])]
           q     == Numeric(r, c, "321", "", "")
<1>1. Replies(q)
  BY NumericReplies, Zenon
<1> HIDE DEF q
<1>2. Replies([q EXCEPT !.out = @ \o t])
  <2>1. Len(shown) \in Nat /\ DOMAIN shown = 1 .. Len(shown)
    OBVIOUS
  <2>2. t = [i \in 1 .. Len(shown) |-> t[i]]
    BY <2>1
  <2> HIDE DEF t
  <2> QED
    BY <1>1, <2>1, <2>2, ConcatReplies
<1>3. ListCommand(r, c, given) = Numeric([q EXCEPT !.out = @ \o t], c, "323", "", "")
  BY Zenon DEF ListCommand, q
<1> HIDE DEF t
<1> QED
  BY <1>2, <1>3, NumericReplies, Zenon

\* WHO is answered.
LEMMA WhoReplies ==
  ASSUME NEW r, Replies(r), NEW c, NEW given
  PROVE  Replies(Who(r, c, given))
<1> DEFINE what   == Word(given, 1)
           who    == IF given = <<>> THEN listed \cap Clients
                     ELSE IF IsChannelName(what) THEN K(r, what).members
                     ELSE {FindClient(what)} \cap Clients
           shown  == {d \in who : ~Has("who_channels_only") \/ client[d].channels # {}}
           where(d) == IF IsChannelName(what) THEN what ELSE ShownIn(d)
           order  == Present(shown)
           t      == [i \in DOMAIN order |-> WhoReply(r, c, order[i], where(order[i]))]
           all    == [r EXCEPT !.out = @ \o t]
<1>1. Replies(all)
  <2> HIDE DEF shown
  <2>1. Len(order) \in Nat /\ DOMAIN order = 1 .. Len(order)
    BY DEF Present
  <2> HIDE DEF order
  <2>2. t = [i \in 1 .. Len(order) |-> t[i]]
    BY <2>1
  <2> HIDE DEF t
  <2> QED
    BY <2>1, <2>2, ConcatReplies
<1>2. WhoShown(r, c, given) = all
  BY DEF WhoShown
<1> HIDE DEF all
<1> QED
  BY <1>1, <1>2, NumericReplies, Zenon DEF Who

-----------------------------------------------------------------------------
(* What a command leaves *)

IsChannels(cs) == DOMAIN cs = Channels /\ \A ch \in Channels : IsChannel(cs[ch])

Fuller(cs)  == \A ch \in Channels : chan[ch].members \subseteq cs[ch].members
Emptier(cs) == \A ch \in Channels : cs[ch].members \subseteq chan[ch].members

\* A client's own record of its channels follows who came and who left; leaving is
\* what a faulty server may forget.
Follows(q) ==
  \A d \in Clients, ch \in Channels :
    /\ (d \in q.chan[ch].members) = (d \in chan[ch].members) =>
         (ch \in q.client[d].channels) = (ch \in client[d].channels)
    /\ d \notin q.chan[ch].members /\ ch \in q.client[d].channels =>
         ch \in client[d].channels
    /\ fault = "none" /\ (d \in q.chan[ch].members) # (d \in chan[ch].members) =>
         (ch \in q.client[d].channels) = (d \in q.chan[ch].members)

\* Each client's own set of channels follows the channels, which stay.
LEMMA FollowedIsUnit ==
  ASSUME NEW r, IsUnit(r)
  PROVE  /\ IsUnit(Followed(r)) /\ Followed(r).chan = r.chan
         /\ r.client = client => Follows(Followed(r))
<1> DEFINE came(d) == {ch \in Channels : d \in r.chan[ch].members /\ d \notin chan[ch].members}
           left(d) == IF Has("channels_not_left") THEN {}
                      ELSE {ch \in Channels : d \notin r.chan[ch].members
                                              /\ d \in chan[ch].members}
           k(d) == (r.client[d].channels \cup came(d)) \ left(d)
           cl == [d \in Clients |-> [r.client[d] EXCEPT !.channels = k(d)]]
           q  == [r EXCEPT !.client = cl]
<1>1. \A d \in Clients : k(d) \subseteq Channels
  BY DEF IsUnit, IsClients
<1> HIDE DEF k
<1>2. IsClients(cl)
  <2> SUFFICES ASSUME NEW d \in Clients
               PROVE  "channels" \in DOMAIN cl[d] /\ cl[d].channels \subseteq Channels
    BY DEF IsClients
  <2>1. cl[d] = [r.client[d] EXCEPT !.channels = k(d)]
    OBVIOUS
  <2> QED
    BY <1>1, <2>1 DEF IsUnit, IsClients
<1>3. Followed(r) = q
  BY DEF Followed, k
<1> HIDE DEF cl
<1>4. q.client = cl /\ DOMAIN q = DOMAIN r /\ \A f \in DOMAIN r \ {"client"} : q[f] = r[f]
  BY DEF IsUnit
<1> HIDE DEF q
<1>5. ASSUME r.client = client
      PROVE  Follows(q)
  <2> SUFFICES ASSUME NEW d \in Clients, NEW ch \in Channels
               PROVE  /\ (d \in r.chan[ch].members) = (d \in chan[ch].members) =>
                           (ch \in cl[d].channels) = (ch \in client[d].channels)
                      /\ d \notin r.chan[ch].members /\ ch \in cl[d].channels =>
                           ch \in client[d].channels
                      /\ fault = "none" /\ (d \in r.chan[ch].members) # (d \in chan[ch].members) =>
                           (ch \in cl[d].channels) = (d \in r.chan[ch].members)
    <3>1. q.client = cl /\ q.chan = r.chan
      BY <1>4 DEF IsUnit, IsReaction
    <3> QED
      BY <3>1, Zenon DEF Follows
  <2>1. cl[d].channels = k(d)
    BY DEF IsUnit, IsClients, cl
  <2>2. fault = "none" => ~Has("channels_not_left")
    BY DEF Has
  <2> QED
    BY <1>5, <2>1, <2>2 DEF k
<1> QED
  BY <1>2, <1>3, <1>4, <1>5 DEF IsUnit, IsReaction

\* By a JOIN only its sender comes, by another command only those leave that may.
Moved(cs, c, cmd) ==
  IF cmd.verb = "JOIN"
    THEN Fuller(cs) /\ \A ch \in Channels : cs[ch].members \subseteq chan[ch].members \cup {c}
    ELSE Emptier(cs) /\ \A ch \in Channels :
                          chan[ch].members \subseteq cs[ch].members \cup Leavers(c, cmd)

\* execute() leaves the channels alone, or moves whom a reading of the command moves.
LEMMA ExecutedIs ==
  ASSUME IsChannels(chan), IsClients(client), NEW verb, NEW c \in Clients,
         NEW given, IsList(given), \A i \in DOMAIN given : IsList(given[i]),
         NEW q \in Executed(verb, c, given)
  PROVE  /\ IsUnit(q) /\ Follows(q)
         /\ \/ q.chan = chan
            \/ /\ verb \in ChannelVerbs
               /\ \E cmd \in Meanings(c, Completed(CommandOf(verb, given))) : Moved(q.chan, c, cmd)
<1> DEFINE r == [chan |-> chan, client |-> client, out |-> <<>>]
<1>1. Replies(r)
  <2>1. IsList(<<>>)
    BY DEF IsList
  <2> QED
    BY <2>1 DEF Replies, IsUnit, IsReaction, IsChannels
<1>2. \/ verb \in ChannelVerbs /\ \E cmd \in Meanings(c, Completed(CommandOf(verb, given))) :
           q = Followed(React(r, c, cmd))
      \/ q = r \/ q = Unknown(r, c, verb)
      \/ q \in {Pass(r, c, given), Nick(r, c, given), UserCommand(r, c, given)}
      \/ q \in {Who(r, c, given), Whois(r, c, given), ListCommand(r, c, given)}
      \/ q \in {Quit(r, c, given), Ping(r, c, given), Pong(r, c)}
  BY Zenon DEF Executed, ChannelVerbs
<1>5. r.client = client
  OBVIOUS
<1> HIDE DEF r
<1>3. CASE verb \in ChannelVerbs /\ \E cmd \in Meanings(c, Completed(CommandOf(verb, given))) :
             q = Followed(React(r, c, cmd))
  <2>1. PICK cmd \in Meanings(c, Completed(CommandOf(verb, given))) :
          q = Followed(React(r, c, cmd))
    BY <1>3
  <2>2. IsCommand(Completed(CommandOf(verb, given)), verb)
    <3> DEFINE m == CommandOf(verb, given)
    <3>1. IsCommand(m, verb)
      BY <1>3, CommandNumbered
    <3> HIDE DEF m
    <3>2. /\ Numbered(Completed(m).chans) /\ DOMAIN Completed(m) = DOMAIN m
          /\ \A f \in DOMAIN m \ {"chans"} : Completed(m)[f] = m[f]
      BY <3>1, CompletedNumbered DEF IsCommand
    <3>3. IsCommand(Completed(m), verb)
      BY <3>1, <3>2 DEF IsCommand
    <3> QED
      BY <3>3 DEF m
  <2>3. cmd.verb \in ChannelVerbs /\ IsCommand(cmd, cmd.verb)
    BY <1>3, <2>2, MeaningsNumbered
  <2> DEFINE p == React(r, c, cmd)
  <2>4. Moves(r, p, c, cmd)
    BY <1>1, <2>3, ReactMoves DEF IsCommand, ChannelVerbs, Replies, IsUnit
  <2> HIDE DEF p
  <2>5. IsUnit(p)
    BY <1>1, <2>4 DEF Moves, Brings, Leaves, Leads, Kept, Replies, IsUnit
  <2>6. Moved(p.chan, c, cmd)
    BY <1>1, <2>4 DEF Moves, Brings, Leaves, Replies, Moved, Fuller, Emptier
  <2>7. IsUnit(q) /\ q.chan = p.chan /\ Follows(q)
    <3>1. p.client = client
      BY <1>1, <1>5, <2>4 DEF Moves, Brings, Leaves, Leads, Kept, Replies, IsUnit
    <3> QED
      BY <2>1, <2>5, <3>1, FollowedIsUnit DEF p
  <2> QED
    BY <1>3, <2>1, <2>6, <2>7
<1>4. CASE Replies(q)
  BY <1>4 DEF Replies, Follows
<1> QED
  BY <1>1, <1>2, <1>3, <1>4, PassReplies, NickReplies, UserReplies, WhoReplies, WhoisReplies,
     ListReplies, QuitReplies, PingReplies, PongReplies, UnknownReplies, Zenon

\* Whatever the command, no channel gets members while another loses some.
LEMMA ExecutedLeads ==
  ASSUME IsChannels(chan), IsClients(client), NEW verb, NEW c \in Clients,
         NEW given, IsList(given), \A i \in DOMAIN given : IsList(given[i]),
         NEW q \in Executed(verb, c, given)
  PROVE  /\ IsChannels(q.chan) /\ IsClients(q.client)
         /\ Fuller(q.chan) \/ Emptier(q.chan)
<1>1. IsUnit(q) /\ (q.chan = chan \/ Fuller(q.chan) \/ Emptier(q.chan))
  BY ExecutedIs DEF Moved
<1> QED
  BY <1>1 DEF IsUnit, IsReaction, IsChannels, Fuller

\* A reading of a command is the command, or JOIN 0 as a PART.
LEMMA Readings ==
  ASSUME NEW c, NEW cmd, "verb" \in DOMAIN cmd
  PROVE  \A m \in Meanings(c, cmd) :
           m = cmd \/ (cmd.verb = "JOIN" /\ cmd.chans = <<"0">> /\ m.verb = "PART")
<1> DEFINE S == {ch \in Channels : c \in chan[ch].members}
<1>1. CASE cmd.verb = "JOIN" /\ cmd.chans = <<"0">>
  <2>1. Meanings(c, cmd) =
          {[cmd EXCEPT !.verb = "PART", !.chans = order] : order \in SetToSeqs(S)}
    BY <1>1 DEF Meanings
  <2> HIDE DEF S
  <2>2. ASSUME NEW m \in Meanings(c, cmd)
        PROVE  m.verb = "PART"
    <3>1. PICK order \in SetToSeqs(S) : m = [cmd EXCEPT !.verb = "PART", !.chans = order]
      BY <2>1, Zenon
    <3> QED
      BY <3>1
  <2> QED
    BY <1>1, <2>2
<1>2. CASE ~(cmd.verb = "JOIN" /\ cmd.chans = <<"0">>)
  BY <1>2, Zenon DEF Meanings
<1> QED
  BY <1>1, <1>2

\* What a reading has of the arguments.
LEMMA MeaningIs ==
  ASSUME NEW c, NEW verb \in ChannelVerbs, NEW given,
         IsList(given), \A i \in DOMAIN given : IsList(given[i]),
         NEW cmd \in Meanings(c, Completed(CommandOf(verb, given)))
  PROVE  /\ cmd.verb = verb \/ (/\ verb = "JOIN" /\ cmd.verb = "PART"
                                /\ <<"0">> \in {given[i] : i \in DOMAIN given})
         /\ verb = "KICK" => cmd.nicks = FindClients(List(given, 2))
<1> DEFINE m == CommandOf(verb, given)
           all == Completed(m)
<1>1. IsCommand(m, verb)
  BY CommandNumbered
<1>2. verb = "JOIN" => m.chans = List(given, 1)
  <2>1. verb = "JOIN" => \E key : m =
          [[verb |-> verb, chans |-> <<>>, nicks |-> <<>>, text |-> "",
            key |-> "", limit |-> 0] EXCEPT !.chans = List(given, 1), !.key = key]
    BY Zenon DEF CommandOf
  <2> HIDE DEF m
  <2> QED
    BY <2>1, Zenon
<1>3. verb = "KICK" => m.nicks = FindClients(List(given, 2))
  <2>1. verb = "KICK" => \E text : m =
          [[verb |-> verb, chans |-> <<>>, nicks |-> <<>>, text |-> "",
            key |-> "", limit |-> 0] EXCEPT !.chans = List(given, 1),
                                            !.nicks = FindClients(List(given, 2)), !.text = text]
    BY Zenon DEF CommandOf
  <2> HIDE DEF m
  <2> QED
    BY <2>1, Zenon
<1> HIDE DEF m
<1>4. /\ all.verb = verb /\ all.nicks = m.nicks
      /\ verb = "JOIN" => all.chans = m.chans
  BY <1>1, CompletedNumbered, Zenon DEF IsCommand, Completed
<1> HIDE DEF all
<1>5. "verb" \in DOMAIN all
  BY <1>1, CompletedNumbered, Zenon DEF IsCommand, all
<1>6. cmd \in Meanings(c, all)
  BY DEF all, m
<1>7. cmd = all \/ (all.verb = "JOIN" /\ all.chans = <<"0">> /\ cmd.verb = "PART")
  BY <1>5, <1>6, Readings, Zenon
<1>8. CASE all.verb = "JOIN" /\ all.chans = <<"0">> /\ cmd.verb = "PART"
  <2>1. verb = "JOIN" /\ List(given, 1) = <<"0">>
    BY <1>2, <1>4, <1>8
  <2>2. <<"0">> # <<>>
    OBVIOUS
  <2>3. 1 <= Len(given) /\ given[1] = <<"0">>
    BY <2>1, <2>2, Zenon DEF List
  <2>4. 1 \in DOMAIN given
    BY <2>3, ListLength
  <2>5. <<"0">> \in {given[i] : i \in DOMAIN given}
    BY <2>3, <2>4, Zenon
  <2> QED
    BY <1>8, <2>1, <2>5
<1> QED
  BY <1>3, <1>4, <1>7, <1>8

\* What a command does to who is where: only its sender comes; nobody leaves but by
\* PART, KICK and JOIN 0, nobody comes but by JOIN; and if it names one nick at most,
\* it does not empty a channel with two members.
Obeys(cs, verb, c, list) ==
  /\ \A ch \in Channels : cs[ch].members \subseteq chan[ch].members \cup {c}
  /\ verb \notin {"PART", "KICK"} /\ (verb = "JOIN" => <<"0">> \notin {list[i] : i \in DOMAIN list})
       => Fuller(cs)
  /\ verb # "JOIN" => Emptier(cs)
  /\ (verb = "KICK" => \A i \in DOMAIN list : Len(list[i]) <= 1) =>
       \A ch \in Channels : \A d, e \in chan[ch].members : d # e => cs[ch].members # {}

\* execute() obeys this.
LEMMA ExecutedObeys ==
  ASSUME IsChannels(chan), IsClients(client), NEW verb, NEW c \in Clients,
         NEW given, IsList(given), \A i \in DOMAIN given : IsList(given[i]),
         NEW q \in Executed(verb, c, given)
  PROVE  Obeys(q.chan, verb, c, given)
<1>1. CASE q.chan = chan
  BY <1>1 DEF Obeys, Fuller, Emptier
<1>2. CASE verb \in ChannelVerbs
           /\ \E cmd \in Meanings(c, Completed(CommandOf(verb, given))) : Moved(q.chan, c, cmd)
  <2>1. PICK cmd \in Meanings(c, Completed(CommandOf(verb, given))) : Moved(q.chan, c, cmd)
    BY <1>2
  <2>2. /\ cmd.verb = verb \/ (/\ verb = "JOIN" /\ cmd.verb = "PART"
                                /\ <<"0">> \in {given[i] : i \in DOMAIN given})
        /\ verb = "KICK" => cmd.nicks = FindClients(List(given, 2))
    BY <1>2, MeaningIs
  <2>3. ASSUME verb = "KICK" => \A i \in DOMAIN given : Len(given[i]) <= 1, cmd.verb # "JOIN"
        PROVE  \E x : Leavers(c, cmd) \subseteq {x}
    <3>1. CASE cmd.verb = "KICK"
      <4>1. verb = "KICK" /\ cmd.nicks = FindClients(List(given, 2))
        BY <2>2, <3>1
      <4>2. DOMAIN List(given, 2) \subseteq {1}
        <5>1. 2 <= Len(given) => 2 \in DOMAIN given
          BY ListLength
        <5>2. 2 <= Len(given) => Len(given[2]) <= 1 /\ Len(given[2]) \in Nat
                                /\ DOMAIN given[2] = 1 .. Len(given[2])
          BY <2>3, <4>1, <5>1, ListLength
        <5>3. DOMAIN <<>> = {}
          OBVIOUS
        <5> QED
          BY <5>2, <5>3 DEF List
      <4>3. DOMAIN cmd.nicks \subseteq {1}
        BY <4>1, <4>2 DEF FindClients
      <4>4. Leavers(c, cmd) \subseteq {cmd.nicks[1]}
        BY <3>1, <4>3 DEF Leavers
      <4> QED
        BY <4>4
    <3>2. CASE cmd.verb # "KICK"
      BY <3>2 DEF Leavers
    <3> QED
      BY <3>1, <3>2
  <2>4. CASE cmd.verb = "JOIN"
    BY <2>1, <2>2, <2>4 DEF Moved, Obeys, Fuller
  <2>5. CASE cmd.verb # "JOIN"
    <3>1. /\ Emptier(q.chan)
          /\ \A ch \in Channels : chan[ch].members \subseteq q.chan[ch].members \cup Leavers(c, cmd)
      BY <2>1, <2>5 DEF Moved
    <3>2. cmd.verb \notin {"PART", "KICK"} => Fuller(q.chan)
      BY <2>5, <3>1 DEF Leavers, Fuller
    <3>3. (verb = "KICK" => \A i \in DOMAIN given : Len(given[i]) <= 1) =>
            \A ch \in Channels : \A d, e \in chan[ch].members : d # e => q.chan[ch].members # {}
      BY <2>3, <2>5, <3>1
    <3> QED
      BY <2>2, <2>5, <3>1, <3>2, <3>3 DEF Obeys, Emptier
  <2> QED
    BY <2>4, <2>5
<1> QED
  BY <1>1, <1>2, ExecutedIs


-----------------------------------------------------------------------------
(* The scripts *)

Stages3 == {"SetUp", "body", "TearDown"}

\* The script of each stage.
LEMMA ScriptIs ==
  /\ stage = "SetUp" => Script = Suite[test].fixture.setup
  /\ stage = "body" => Script = Suite[test].body
  /\ stage = "TearDown" => Script = Suite[test].fixture.teardown
  /\ stage \notin Stages3 => Script = <<>>
  BY DEF Script, Stages, Stages3

\* Each stage of a test is a list of well-made steps.
LEMMA ScriptsAreWellMade ==
  ASSUME NEW t \in Tests,
         NEW s \in {Suite[t].fixture.setup, Suite[t].body, Suite[t].fixture.teardown}
  PROVE  IsList(s) /\ \A i \in DOMAIN s : WellMade(s[i])
  BY SuiteAssumption DEF WellFormed

\* The step a test is about to take.
LEMMA CurrentStep ==
  ASSUME TypeOK
  PROVE  /\ Len(Script) \in Nat
         /\ \A now \in Current :
              /\ at <= Len(Script) /\ now = Script[at] /\ WellMade(now)
              /\ stage \in Stages3 /\ test \in Tests
<1>1. CASE stage \in Stages3
  <2>1. test \in Tests
    BY <1>1 DEF TypeOK, Stages3
  <2>2. Script \in {Suite[test].fixture.setup, Suite[test].body, Suite[test].fixture.teardown}
    BY <1>1, ScriptIs DEF Stages3
  <2>3. IsList(Script) /\ \A i \in DOMAIN Script : WellMade(Script[i])
    BY <2>1, <2>2, ScriptsAreWellMade
  <2>4. Len(Script) \in Nat /\ DOMAIN Script = 1 .. Len(Script)
    BY <2>3, ListLength
  <2> QED
    BY <1>1, <2>1, <2>3, <2>4 DEF Current
<1>2. CASE stage \notin Stages3
  <2>1. Script = <<>> /\ Len(<<>>) = 0 /\ DOMAIN <<>> = {}
    BY <1>2, ScriptIs
  <2> QED
    BY <2>1 DEF Current
<1> QED
  BY <1>1, <1>2

-----------------------------------------------------------------------------
(* Types *)

IsArgs(list) == IsList(list) /\ \A i \in DOMAIN list : IsList(list[i])

TypeInv == TypeOK /\ IsChannels(chan) /\ IsClients(client) /\ IsArgs(args)

\* A new channel and a new client have their types.
LEMMA NewIsTyped ==
  /\ IsChannel(NoChannel) /\ NoChannel.members = {}
  /\ "channels" \in DOMAIN NewClient /\ NewClient.channels = {}
  /\ DOMAIN NewClient = {"nick", "user", "real", "auth", "reg", "marked", "quit",
                         "channels", "last"}
  BY Zenon DEF NewClient, NoChannel, IsChannel

\* The types hold at first.
LEMMA TypeInit == Init => TypeInv
<1> SUFFICES ASSUME Init
             PROVE  TypeInv
  OBVIOUS
<1>1. IsChannels(chan) /\ IsClients(client)
  BY NewIsTyped DEF Init, IsChannels, IsClients
<1>2. IsArgs(args)
  BY DEF Init, IsArgs, IsList
<1>3. Script = <<>> /\ Len(<<>>) = 0
  BY ScriptIs DEF Init, Stages3
<1>4. TypeOK
  BY <1>1, <1>3, RunAssumption DEF Init, TypeOK, IsChannels, IsClients, IsChannel
<1> QED
  BY <1>1, <1>2, <1>4 DEF TypeInv

\* What a step must keep of the objects' types.
ObjectTypes ==
  /\ live \subseteq FixtureObjects \cup {"client"}
  /\ listed \subseteq Clients \cup Channels
  /\ IsChannels(chan) /\ IsClients(client)

\* Where in the script, and what else the test holds.
PlaceTypes ==
  /\ stage \in {"idle", "SetUp", "body", "TearDown", "crashed"}
  /\ test \in Tests \cup {"none"} /\ (test = "none") = (stage = "idle")
  /\ at \in 1 .. Len(Script) + 1 /\ clock \in 0 .. MaxClock /\ IsArgs(args)
  /\ fault \in {"none"} \cup Faults

\* The types, those of the objects and those of the place apart.
LEMMA TypeParts == TypeInv <=> ObjectTypes /\ PlaceTypes
  BY DEF TypeInv, TypeOK, ObjectTypes, PlaceTypes, IsChannels, IsChannel, IsClients

\* A step being done is the current one, of one of these kinds.
LEMMA DoingIs ==
  ASSUME NEW kinds, NEW now \in Doing(kinds)
  PROVE  now \in Current /\ now.do \in kinds /\ Defined(now)
  BY DEF Doing

\* The script is that of the test and the stage.
LEMMA ScriptStays ==
  UNCHANGED <<test, stage>> => Script' = Script
  BY DEF Script, Stages

\* A step goes on by one, or to the end.
Onward == /\ UNCHANGED <<test, stage>>
          /\ at' \in {at + 1, Len(Script) + 1}

\* A step that goes on stays inside the script.
LEMMA OnwardIsTyped ==
  ASSUME TypeInv, Current # {}, Onward, fault' = fault, clock' = clock, IsArgs(args')
  PROVE  PlaceTypes'
<1>1. Script' = Script
  BY ScriptStays DEF Onward
<1>2. Len(Script) \in Nat /\ at <= Len(Script)
  BY CurrentStep DEF TypeInv
<1>3. at' \in 1 .. Len(Script') + 1
  BY <1>1, <1>2, TypeParts DEF Onward, PlaceTypes
<1> QED
  BY <1>3, TypeParts DEF Onward, PlaceTypes

\* A delete leaves objects of their types.
LEMMA DeletedIsTyped ==
  ASSUME ObjectTypes, NEW S, Deleted(S)
  PROVE  live' \subseteq live /\ IsChannels(chan') /\ IsClients(client')
  BY NewIsTyped DEF ObjectTypes, Deleted, IsChannels, IsClients

\* The arguments a step gives are lists.
LEMMA ArgsOfStep ==
  ASSUME TypeInv, NEW now \in Current, now.do \in {"push", "parse"}
  PROVE  IsArgs(now.args)
  BY CurrentStep DEF TypeInv, WellMade, IsArgs

\* new: the new objects have their types.
LEMMA NewObjects ==
  ASSUME TypeInv, NewStep
  PROVE  ObjectTypes'
<1>1. PICK now \in Doing({"new"}) :
        /\ live' = live \cup now.objs
        /\ client' = [c \in Clients |-> IF c \in now.objs THEN [NewClient EXCEPT !.last = clock]
                                                          ELSE client[c]]
        /\ chan' = [ch \in Channels |-> IF ch \in now.objs THEN NoChannel ELSE chan[ch]]
        /\ listed' = listed
  BY DEF NewStep
<1>2. now.objs \subseteq FixtureObjects \cup {"client"}
  BY <1>1, DoingIs, CurrentStep DEF TypeInv, WellMade
<1>3. IsChannels(chan')
  BY <1>1, NewIsTyped, TypeParts DEF IsChannels, ObjectTypes
<1>4. IsClients(client')
  <2> DEFINE new == [NewClient EXCEPT !.last = clock]
  <2>1. "channels" \in DOMAIN new /\ new.channels = {}
    BY NewIsTyped
  <2> HIDE DEF new
  <2>2. client' = [c \in Clients |-> IF c \in now.objs THEN new ELSE client[c]]
    BY <1>1 DEF new
  <2> QED
    BY <2>1, <2>2, TypeParts DEF IsClients, ObjectTypes
<1> QED
  BY <1>1, <1>2, <1>3, <1>4, TypeParts DEF ObjectTypes

\* addTestClient and addChannel list clients and channels.
LEMMA AddedObjects ==
  ASSUME TypeInv, AddStep
  PROVE  ObjectTypes'
<1>1. PICK now \in Doing({"add"}) : listed' = listed \cup now.objs /\ UNCHANGED <<live, objects>>
  BY DEF AddStep
<1>2. now.objs \subseteq Clients \cup Channels
  BY <1>1, DoingIs, CurrentStep DEF TypeInv, WellMade
<1> QED
  BY <1>1, <1>2, TypeParts DEF ObjectTypes, objects

\* delete and resetInstance leave objects of their types.
LEMMA DeletedObjects ==
  ASSUME TypeInv, DeleteStep \/ ResetStep
  PROVE  ObjectTypes'
<1>1. (\E S : Deleted(S)) /\ listed' \subseteq listed
  BY DEF DeleteStep, ResetStep
<1> QED
  BY <1>1, DeletedIsTyped, TypeParts DEF ObjectTypes

\* What a command does to the channels and to the memory.
LEMMA ExecutedObjects ==
  ASSUME TypeInv, NEW verb, NEW c \in Clients, NEW list, IsArgs(list),
         Execute(verb, c, list)
  PROVE  /\ ObjectTypes'
         /\ Fuller(chan') \/ Emptier(chan')
<1>1. PICK r \in Executed(verb, c, list) :
        /\ chan' = r.chan /\ client' = r.client
        /\ \E made \in SUBSET Channels, emptied \in SUBSET Channels :
             /\ live' = (live \cup made) \ emptied
             /\ listed' = (listed \cup made) \ emptied
  BY DEF Execute
<1>2. /\ IsChannels(r.chan) /\ IsClients(r.client)
      /\ Fuller(r.chan) \/ Emptier(r.chan)
  BY ExecutedLeads DEF TypeInv, IsArgs
<1>3. Channels \subseteq FixtureObjects
  BY DEF FixtureObjects
<1> QED
  BY <1>1, <1>2, <1>3, TypeParts DEF ObjectTypes, Fuller, Emptier

\* execute() leaves them, and makes members or drops some, not both.
LEMMA CommandObjectsTyped ==
  ASSUME TypeInv, ExecuteStep
  PROVE  ObjectTypes' /\ (Fuller(chan') \/ Emptier(chan'))
<1>1. PICK now \in Doing({"execute", "parse"}) :
        IF now.do = "execute" THEN Execute(now.verb, now.c, args)
                              ELSE Execute(Upper(now.verb), now.c, now.args)
  BY DEF ExecuteStep
<1>2. now.c \in Clients
  BY DoingIs, CurrentStep DEF TypeInv, WellMade
<1>3. now.do = "parse" => IsArgs(now.args)
  BY DoingIs, ArgsOfStep
<1>4. CASE now.do = "execute"
  BY <1>1, <1>2, <1>4, ExecutedObjects DEF TypeInv
<1>5. CASE now.do # "execute"
  BY <1>1, <1>2, <1>3, <1>5, ExecutedObjects, DoingIs
<1> QED
  BY <1>4, <1>5

\* removeClient leaves objects of their types.
LEMMA RemovedObjects ==
  ASSUME TypeInv, RemoveClientStep
  PROVE  ObjectTypes'
<1>1. PICK now \in Doing({"removeClient"}) : removeClient(now.c)
  BY DEF RemoveClientStep
<1>2. \A ch \in Channels : IsChannel(chan[ch]) /\ IsChannel(Without(chan[ch], now.c))
  BY WithoutReplaces, TypeParts DEF ObjectTypes, IsChannels, Replaces
<1>3. IsChannels(chan')
  BY <1>1, <1>2 DEF removeClient, IsChannels
<1>4. IsClients(client')
  BY <1>1, NewIsTyped, TypeParts DEF removeClient, ObjectTypes, IsClients
<1> QED
  BY <1>1, <1>3, <1>4, TypeParts DEF removeClient, ObjectTypes

\* A method of Channel leaves a channel.
LEMMA CalledIsChannel ==
  ASSUME NEW k, IsChannel(k), NEW call \in Calls, NEW arg,
         call \in {"addMember", "addOperator", "addInvitedUser"} => arg \in Clients
  PROVE  IsChannel(Called(k, call, arg))
<1>1. /\ "members" \in DOMAIN k /\ "ops" \in DOMAIN k /\ "invited" \in DOMAIN k
      /\ "topic" \in DOMAIN k /\ "key" \in DOMAIN k /\ "limit" \in DOMAIN k
      /\ "flags" \in DOMAIN k
  BY Zenon DEF IsChannel, NoChannel
<1>2. /\ DOMAIN k = DOMAIN NoChannel
      /\ k.members \subseteq Clients /\ k.ops \subseteq Clients /\ k.invited \subseteq Clients
  BY DEF IsChannel
<1> DEFINE d == Called(k, call, arg)
<1>3. /\ DOMAIN d = DOMAIN k
      /\ d.members \subseteq Clients /\ d.ops \subseteq Clients /\ d.invited \subseteq Clients
  BY <1>1, <1>2 DEF Called, Calls
<1> QED
  BY <1>2, <1>3 DEF IsChannel

\* A step that calls one leaves objects of their types.
LEMMA CalledObjects ==
  ASSUME TypeInv, ChannelStep
  PROVE  ObjectTypes'
<1>1. PICK now \in Doing({"channel", "broadcast"}) :
        /\ IF now.do = "channel" THEN chan' = [chan EXCEPT ![now.ch] = Called(@, now.call, now.arg)]
                                 ELSE chan' = chan
        /\ UNCHANGED <<memory, client>>
  BY DEF ChannelStep
<1>2. CASE now.do = "channel"
  <2>1. /\ now.call \in Calls
        /\ now.call \in {"addMember", "addOperator", "addInvitedUser"} => now.arg \in Clients
    BY <1>2, DoingIs, CurrentStep DEF TypeInv, WellMade
  <2>2. now.ch \in Channels => IsChannel(Called(chan[now.ch], now.call, now.arg))
    BY <2>1, CalledIsChannel DEF TypeInv, IsChannels
  <2>3. IsChannels(chan')
    BY <1>1, <1>2, <2>2 DEF TypeInv, IsChannels
  <2> QED
    BY <1>1, <2>3, TypeParts DEF ObjectTypes, memory
<1>3. CASE now.do # "channel"
  BY <1>1, <1>3, TypeParts DEF ObjectTypes, memory
<1> QED
  BY <1>2, <1>3

\* So does a step that calls a method of Client or of the mock.
LEMMA SetObjects ==
  ASSUME TypeInv, ClientStep
  PROVE  ObjectTypes'
<1>1. PICK now \in Doing({"client", "link", "unlink", "age", "clear"}) :
        /\ client' =
             CASE now.do = "client" -> [client EXCEPT ![now.c] = With(@, now.with)]
               [] now.do = "link"   -> [client EXCEPT ![now.c].channels = @ \cup {now.ch}]
               [] now.do = "unlink" -> [client EXCEPT ![now.c].channels = @ \ {now.ch}]
               [] now.do = "age"    -> [client EXCEPT ![now.c].last = clock - 10]
               [] OTHER             -> client
        /\ UNCHANGED <<memory, chan>>
  BY DEF ClientStep
<1>2. /\ now.do = "link" => now.ch \in Channels
      /\ now.do = "client" => "channels" \notin DOMAIN now.with
  BY DoingIs, CurrentStep DEF TypeInv, WellMade
<1>3. /\ DOMAIN client = Clients
      /\ \A d \in Clients : "channels" \in DOMAIN client[d] /\ client[d].channels \subseteq Channels
  BY DEF TypeInv, IsClients
<1>4. now.do = "client" => IsClients(client')
  <2> SUFFICES ASSUME now.do = "client" PROVE IsClients(client')
    OBVIOUS
  <2> DEFINE new == With(client[now.c], now.with)
  <2>1. now.c \in Clients => "channels" \in DOMAIN new /\ new.channels = client[now.c].channels
    BY <1>2, <1>3 DEF With
  <2> HIDE DEF new
  <2>2. client' = [client EXCEPT ![now.c] = new]
    BY <1>1 DEF new
  <2> QED
    BY <1>3, <2>1, <2>2 DEF IsClients
<1>5. now.do = "link" => IsClients(client')
  BY <1>1, <1>2, <1>3 DEF IsClients
<1>6. now.do = "unlink" => IsClients(client')
  BY <1>1, <1>3 DEF IsClients
<1>7. now.do = "age" => IsClients(client')
  BY <1>1, <1>3 DEF IsClients
<1>8. now.do \notin {"client", "link", "unlink", "age"} => IsClients(client')
  BY <1>1, <1>3 DEF IsClients
<1> QED
  BY <1>1, <1>4, <1>5, <1>6, <1>7, <1>8, TypeParts DEF ObjectTypes, memory

\* The fixture's argument vector stays a list of lists.
LEMMA ArgsTyped ==
  ASSUME TypeInv, ArgsStep
  PROVE  IsArgs(args')
<1>1. PICK now \in Current : args' = IF now.do = "push" THEN args \o now.args ELSE <<>>
  BY DoingIs, Zenon DEF ArgsStep
<1>2. CASE now.do = "push"
  <2> DEFINE new == now.args
  <2>1. IsArgs(args) /\ IsArgs(new)
    BY <1>2, ArgsOfStep DEF TypeInv
  <2> HIDE DEF new
  <2>2. /\ Len(args) \in Nat /\ DOMAIN args = 1 .. Len(args)
        /\ Len(new) \in Nat /\ new = [i \in 1 .. Len(new) |-> new[i]]
    BY <2>1 DEF IsArgs, IsList
  <2>3. IsList(args \o new)
    BY <2>1, <2>2, ConcatIsList DEF IsArgs
  <2> DEFINE S == {args[i] : i \in DOMAIN args} \cup {new[i] : i \in DOMAIN new}
             u == args \o new
  <2>4. args \in Seq(S) /\ new \in Seq(S)
    BY <2>1, <2>2 DEF IsArgs, IsList
  <2>5. \A x \in S : IsList(x)
    BY <2>1 DEF IsArgs
  <2> HIDE DEF S
  <2>6. u \in Seq(S)
    BY <2>4
  <2> HIDE DEF u
  <2>7. \A i \in DOMAIN u : u[i] \in S
    BY <2>6
  <2> QED
    BY <1>1, <1>2, <2>3, <2>5, <2>7 DEF IsArgs, u, new
<1>3. CASE now.do # "push"
  BY <1>1, <1>3 DEF IsArgs, IsList
<1> QED
  BY <1>2, <1>3

\* Every step of a script goes on to the next one, but for the assertion that ends
\* the body and the pointer that leads nowhere.
LEMMA GoesOn ==
  ASSUME TypeInv,
         NewStep \/ AddStep \/ DeleteStep \/ ResetStep \/ GetInstanceStep
         \/ ArgsStep \/ ExecuteStep \/ RemoveClientStep \/ ClientStep \/ ChannelStep
         \/ BufferStep \/ KeepStep \/ AssertStep
  PROVE  Current # {} /\ Onward /\ UNCHANGED <<fault, clock>> /\ (args' = args \/ ArgsStep)
<1>1. CASE NewStep
  BY <1>1, DoingIs DEF NewStep, Onward, Advance, place
<1>2. CASE AddStep
  BY <1>2, DoingIs DEF AddStep, Onward, Advance, place
<1>3. CASE DeleteStep
  BY <1>3, DoingIs DEF DeleteStep, Onward, Advance, place
<1>4. CASE ResetStep
  BY <1>4, DoingIs DEF ResetStep, Onward, Advance, place
<1>5. CASE GetInstanceStep
  BY <1>5, DoingIs DEF GetInstanceStep, Onward, Advance, place
<1>6. CASE ArgsStep
  <2>1. Current # {} /\ Advance /\ UNCHANGED <<fault, clock, test, stage>>
    BY <1>6, DoingIs, Zenon DEF ArgsStep
  <2> QED
    BY <1>6, <2>1 DEF Onward, Advance
<1>7. CASE ExecuteStep
  BY <1>7, DoingIs DEF ExecuteStep, Onward, Advance, place
<1>8. CASE RemoveClientStep
  BY <1>8, DoingIs DEF RemoveClientStep, Onward, Advance, place
<1>9. CASE ClientStep
  BY <1>9, DoingIs DEF ClientStep, Onward, Advance, place
<1>10. CASE ChannelStep
  BY <1>10, DoingIs DEF ChannelStep, Onward, Advance, place
<1>11. CASE BufferStep
  <2>1. Current # {} /\ Advance /\ UNCHANGED <<fault, clock, place>>
    BY <1>11, DoingIs, Zenon DEF BufferStep
  <2> QED
    BY <2>1 DEF Onward, Advance, place
<1>12. CASE KeepStep
  BY <1>12, DoingIs DEF KeepStep, Onward, Advance
<1>13. CASE AssertStep
  <2>1. PICK now \in Current :
          /\ at' = IF ~Holds(now) /\ now.fatal THEN Len(Script) + 1 ELSE at + 1
          /\ UNCHANGED <<fault, clock, test, stage, args>>
    BY <1>13, DoingIs, Zenon DEF AssertStep
  <2> QED
    BY <2>1 DEF Onward
<1> QED
  BY <1>1, <1>2, <1>3, <1>4, <1>5, <1>6, <1>7, <1>8, <1>9, <1>10, <1>11, <1>12, <1>13

\* An undefined step crashes the test, or goes on.
LEMMA WildIs ==
  ASSUME TypeInv, WildStep
  PROVE  /\ \E now \in Current : ~Defined(now)
         /\ UNCHANGED <<fault, clock, memory, objects, test, args, twice>>
         /\ \/ stage' = "crashed" /\ at' = 1
            \/ Onward
  BY Zenon DEF WildStep, Onward, Advance

\* The first step of a stage is inside its script.
LEMMA Shorter ==
  ASSUME TypeInv, stage' \in {"idle", "SetUp", "body", "TearDown", "crashed"}, at' = 1,
         test' \in Tests \cup {"none"}, (test' = "none") = (stage' = "idle")
  PROVE  at' \in 1 .. Len(Script') + 1
<1>1. CASE stage' \in Stages3
  <2>1. test' \in Tests
    BY <1>1 DEF Stages3
  <2>2. Script' \in {Suite[test'].fixture.setup, Suite[test'].body, Suite[test'].fixture.teardown}
    BY <1>1, <2>1 DEF Script, Stages, Stages3
  <2>3. IsList(Script')
    BY <2>1, <2>2, ScriptsAreWellMade
  <2>4. Len(Script') \in Nat
    BY <2>3, ListLength
  <2> QED
    BY <2>4
<1>2. CASE stage' \notin Stages3
  BY <1>2 DEF Script, Stages3
<1> QED
  BY <1>1, <1>2

\* A new stage keeps the types of the place.
LEMMA StageTypes ==
  ASSUME TypeInv, StartTest \/ EndStage \/ EndTest
  PROVE  PlaceTypes'
<1>1. /\ stage' \in {"idle", "SetUp", "body", "TearDown", "crashed"} /\ at' = 1
      /\ test' \in Tests \cup {"none"} /\ (test' = "none") = (stage' = "idle")
  BY TypeParts, RunAssumption DEF PlaceTypes, StartTest, EndStage, EndTest
<1>2. clock' \in {0, clock} /\ fault' = fault
  BY DEF StartTest, EndStage, EndTest
<1>3. args' = args \/ args' = <<>>
  BY DEF StartTest, EndStage, EndTest
<1>4. IsArgs(<<>>)
  BY DEF IsArgs, IsList
<1>5. IsArgs(args')
  BY <1>3, <1>4 DEF TypeInv
<1> QED
  BY <1>1, <1>2, <1>5, Shorter, TypeParts, RunAssumption DEF PlaceTypes

\* So does an undefined step.
LEMMA WildTypes ==
  ASSUME TypeInv, WildStep
  PROVE  PlaceTypes'
<1>1. CASE Onward
  BY <1>1, WildIs, OnwardIsTyped DEF TypeInv
<1>2. CASE stage' = "crashed" /\ at' = 1
  <2>1. test \in Tests
    BY WildIs, CurrentStep DEF TypeInv
  <2> QED
    BY <1>2, <2>1, WildIs, Shorter, TypeParts, RunAssumption DEF PlaceTypes
<1> QED
  BY <1>1, <1>2, WildIs

\* So does the end of a second.
LEMMA TickTypes ==
  ASSUME TypeInv, Tick
  PROVE  PlaceTypes'
<1>1. Script' = Script
  BY ScriptStays DEF Tick, place
<1>2. clock' \in 0 .. MaxClock
  BY TypeParts, RunAssumption DEF Tick, PlaceTypes
<1> QED
  BY <1>1, <1>2, TypeParts DEF Tick, PlaceTypes, place

\* Every step keeps every type.
LEMMA TypeNext ==
  ASSUME TypeInv, [Next]_vars
  PROVE  TypeInv'
<1> DEFINE Steps == NewStep \/ AddStep \/ DeleteStep \/ ResetStep \/ GetInstanceStep
             \/ ArgsStep \/ ExecuteStep \/ RemoveClientStep \/ ClientStep \/ ChannelStep
             \/ BufferStep \/ KeepStep \/ AssertStep
<1>1. PlaceTypes'
  <2>1. CASE Steps
    <3>1. IsArgs(args')
      BY <2>1, GoesOn, ArgsTyped DEF TypeInv
    <3> QED
      BY <2>1, <3>1, GoesOn, OnwardIsTyped
  <2>2. CASE StartTest \/ EndStage \/ EndTest
    BY <2>2, StageTypes
  <2>3. CASE WildStep
    BY <2>3, WildTypes
  <2>4. CASE Tick
    BY <2>4, TickTypes
  <2>5. CASE UNCHANGED vars
    <3>1. Script' = Script
      BY <2>5, ScriptStays DEF vars, place
    <3> QED
      BY <2>5, <3>1, TypeParts DEF vars, place, PlaceTypes
  <2> QED
    BY <2>1, <2>2, <2>3, <2>4, <2>5 DEF Next
<1>2. ObjectTypes'
  <2>1. CASE UNCHANGED <<live, listed, chan, client>>
    BY <2>1, TypeParts DEF ObjectTypes
  <2>2. UNCHANGED <<live, listed, chan, client>>
        \/ NewStep \/ AddStep \/ DeleteStep \/ ResetStep \/ ExecuteStep
        \/ RemoveClientStep \/ ClientStep \/ ChannelStep
    <3>1. StartTest \/ EndStage \/ EndTest \/ Tick \/ UNCHANGED vars
          => UNCHANGED <<live, listed, chan, client>>
      BY DEF StartTest, EndStage, EndTest, Tick, vars, memory, objects
    <3>2. GetInstanceStep \/ KeepStep \/ WildStep => UNCHANGED <<live, listed, chan, client>>
      BY WildIs DEF GetInstanceStep, KeepStep, memory, objects
    <3>3. ArgsStep \/ BufferStep \/ AssertStep => UNCHANGED <<live, listed, chan, client>>
      BY Zenon DEF ArgsStep, BufferStep, AssertStep, memory, objects
    <3> QED
      BY <3>1, <3>2, <3>3 DEF Next
  <2> QED
    BY <2>1, <2>2, NewObjects, AddedObjects, DeletedObjects, CommandObjectsTyped,
       RemovedObjects, SetObjects, CalledObjects
<1> QED
  BY <1>1, <1>2, TypeParts, PTL

\* Every variable of the unit test program keeps its type: a test never runs past
\* its script, the server lists only clients and channels, and only existing clients
\* are members, operators or invited (RUN_ALL_TESTS over the suites in src/unit_tests).
THEOREM UnitTypes == Spec => []TypeOK
<1>1. Init => TypeInv
  BY TypeInit
<1>2. TypeInv /\ [Next]_vars => TypeInv'
  BY TypeNext
<1>3. TypeInv => TypeOK
  BY DEF TypeInv
<1> QED
  BY <1>1, <1>2, <1>3, PTL DEF Spec
=============================================================================
