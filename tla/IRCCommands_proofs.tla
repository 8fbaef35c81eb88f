------------------------- MODULE IRCCommands_proofs --------------------------
(***************************************************************************)
(* Proofs about the commands, for all sets of clients and channels and      *)
(* whatever is wrong with the server: who comes into a channel, and by whose *)
(* command.                                                                 *)
(***************************************************************************)
EXTENDS IRCCommands, WellFoundedInduction, FiniteSetTheorems, TLAPS

\* A set of numbers has a least one.
LEMMA Least ==
  ASSUME NEW T, T \subseteq Nat, T # {}
  PROVE  \E x \in T : \A y \in T : x <= y
<1> DEFINE R == OpToRel(<, Nat)
<1>1. PICK x \in T : \A y \in T : ~(<<y, x>> \in R)
  <2>1. IsWellFoundedOn(R, Nat)
    BY NatLessThanWellFounded DEF OpToRel
  <2> HIDE DEF R
  <2> QED
    BY <2>1, WFMin
<1>2. \A y \in T : ~ (y < x)
  BY <1>1 DEF OpToRel
<1> QED
  BY <1>2

\* A set of numbers that has 0, and the successor of each of its numbers.
LEMMA Induction ==
  ASSUME NEW S, 0 \in S, \A n \in Nat : n \in S => n + 1 \in S
  PROVE  Nat \subseteq S
<1> DEFINE T == Nat \ S
<1>1. CASE T = {}
  BY <1>1
<1>2. CASE T # {}
  <2>1. PICK x \in T : \A y \in T : x <= y
    <3>1. T \subseteq Nat
      OBVIOUS
    <3> HIDE DEF T
    <3> QED
      BY <1>2, <3>1, Least
  <2>2. x # 0 /\ x - 1 \in Nat /\ x - 1 + 1 = x
    OBVIOUS
  <2> QED
    BY <2>1, <2>2
<1> QED
  BY <1>1, <1>2

-----------------------------------------------------------------------------
(* A command with several targets *)

\* What FoldLeft is made of: its value on every initial part of the list.
Fold(f, r, c, cmd, targets, S) ==
  f = [s \in SUBSET S |->
         IF s = {} THEN r ELSE One(f[s \ {Max(s)}], c, cmd, targets[Max(s)])]

\* The last of an interval is its maximum, which FoldLeft looks for.
LEMMA MaxOfInterval ==
  ASSUME NEW n \in Nat, NEW s \in SUBSET (1 .. n + 1), n + 1 \in s
  PROVE  Max(s) = n + 1
<1>1. n + 1 \in s /\ \A y \in s : n + 1 >= y
  OBVIOUS
<1>2. \A x \in s : (\A y \in s : x >= y) => x = n + 1
  OBVIOUS
<1> QED
  BY <1>1, <1>2 DEF Max

\* The function that FoldLeft chooses exists, for every number of targets.
LEMMA FoldExists ==
  ASSUME NEW r, NEW c, NEW cmd, NEW targets
  PROVE  \A n \in Nat : \E f : Fold(f, r, c, cmd, targets, 1 .. n)
<1> DEFINE S == {n \in Nat : \E f : Fold(f, r, c, cmd, targets, 1 .. n)}
<1>1. 0 \in S
  <2> DEFINE g == [s \in SUBSET (1 .. 0) |-> r]
  <2>1. \A s \in SUBSET (1 .. 0) : s = {}
    OBVIOUS
  <2>2. Fold(g, r, c, cmd, targets, 1 .. 0)
    BY <2>1 DEF Fold
  <2> QED
    BY <2>2
<1>2. ASSUME NEW n \in Nat, n \in S
      PROVE  n + 1 \in S
  <2>1. PICK f : Fold(f, r, c, cmd, targets, 1 .. n)
    BY <1>2
  <2> DEFINE g == [s \in SUBSET (1 .. n + 1) |->
                     IF n + 1 \in s THEN One(f[s \ {n + 1}], c, cmd, targets[n + 1])
                                    ELSE f[s]]
             h == [s \in SUBSET (1 .. n + 1) |->
                     IF s = {} THEN r ELSE One(g[s \ {Max(s)}], c, cmd, targets[Max(s)])]
  <2>2. ASSUME NEW s \in SUBSET (1 .. n + 1)
        PROVE  g[s] = h[s]
    <3>1. CASE n + 1 \in s
      <4>1. Max(s) = n + 1
        BY <3>1, MaxOfInterval
      <4>2. s \ {n + 1} \in SUBSET (1 .. n + 1) /\ n + 1 \notin s \ {n + 1}
        OBVIOUS
      <4>3. g[s \ {n + 1}] = f[s \ {n + 1}]
        BY <4>2
      <4> QED
        BY <3>1, <4>1, <4>3
    <3>2. CASE n + 1 \notin s
      <4>1. s \in SUBSET (1 .. n)
        BY <3>2
      <4>2. f[s] = IF s = {} THEN r ELSE One(f[s \ {Max(s)}], c, cmd, targets[Max(s)])
        BY <2>1, <4>1 DEF Fold
      <4>3. s \ {Max(s)} \in SUBSET (1 .. n + 1) /\ n + 1 \notin s \ {Max(s)}
        BY <3>2
      <4>4. g[s \ {Max(s)}] = f[s \ {Max(s)}]
        BY <4>3
      <4> QED
        BY <3>2, <4>2, <4>4
    <3> QED
      BY <3>1, <3>2
  <2>3. g = h
    BY <2>2
  <2>4. Fold(g, r, c, cmd, targets, 1 .. n + 1)
    BY <2>3 DEF Fold
  <2> QED
    BY <2>4
<1>3. Nat \subseteq S
  <2> HIDE DEF S
  <2> QED
    BY <1>1, <1>2, Induction
<1> QED
  BY <1>3

\* The reaction after each of the targets.
Runs(h, r, c, cmd, targets, n) ==
  h[0] = r /\ \A i \in 0 .. n - 1 : h[i + 1] = One(h[i], c, cmd, targets[i + 1])

\* Each works through its list from the first to the last.
LEMMA OneByOne ==
  ASSUME NEW r, NEW c, NEW cmd, NEW targets, NEW n \in Nat, DOMAIN targets = 1 .. n
  PROVE  \E h : Runs(h, r, c, cmd, targets, n) /\ Each(r, c, cmd, targets) = h[n]
<1> DEFINE f == CHOOSE g : Fold(g, r, c, cmd, targets, 1 .. n)
           h == [i \in 0 .. n |-> f[1 .. i]]
<1>1. Fold(f, r, c, cmd, targets, 1 .. n)
  BY FoldExists
<1>2. Each(r, c, cmd, targets) = f[DOMAIN targets]
  BY DEF Each, FoldLeft, MapThenFoldSet, Fold
<1>3. h[0] = r
  <2>1. 1 .. 0 = {} /\ {} \in SUBSET (1 .. n) /\ 0 \in 0 .. n
    OBVIOUS
  <2>2. f[{}] = r
    BY <1>1, <2>1 DEF Fold
  <2> HIDE DEF f
  <2> QED
    BY <2>1, <2>2
<1>4. ASSUME NEW i \in 0 .. n - 1
      PROVE  h[i + 1] = One(h[i], c, cmd, targets[i + 1])
  <2>1. 1 .. i + 1 \in SUBSET (1 .. n) /\ 1 .. i + 1 # {} /\ i + 1 \in 0 .. n /\ i \in 0 .. n
    <3>1. i \in Nat /\ i + 1 <= n /\ i + 1 \in 1 .. i + 1
      OBVIOUS
    <3>2. \A j \in 1 .. i + 1 : j \in 1 .. n
      BY <3>1
    <3>3. i + 1 \in 0 .. n /\ i \in 0 .. n
      BY <3>1
    <3> QED
      BY <3>1, <3>2, <3>3
  <2>2. Max(1 .. i + 1) = i + 1
    BY MaxOfInterval
  <2>3. (1 .. i + 1) \ {i + 1} = 1 .. i
    OBVIOUS
  <2>4. f[1 .. i + 1] = One(f[1 .. i], c, cmd, targets[i + 1])
    BY <1>1, <2>1, <2>2, <2>3 DEF Fold
  <2> QED
    BY <2>1, <2>4
<1>5. Each(r, c, cmd, targets) = h[n]
  BY <1>2
<1> HIDE DEF h
<1>6. Runs(h, r, c, cmd, targets, n)
  BY <1>3, <1>4 DEF Runs
<1> QED
  BY <1>5, <1>6

-----------------------------------------------------------------------------
(* What a command may do to a reaction *)

IsChannel(k) ==
  /\ DOMAIN k = DOMAIN NoChannel
  /\ k.members \subseteq Clients /\ k.ops \subseteq Clients /\ k.invited \subseteq Clients

\* Operators are members, and the modes are those there are.
Letters  == {"i", "k", "l", "n", "t"}
Sound(k) == k.ops \subseteq k.members /\ k.flags \subseteq Letters

IsReaction(r) ==
  /\ {"chan", "out"} \subseteq DOMAIN r
  /\ DOMAIN r.chan = Channels /\ IsList(r.out)
  /\ \A ch \in Channels : IsChannel(r.chan[ch])

\* From r to q only channels and messages are new, and the channels stay sound
\* unless the server makes operators of strangers.
Kept(r, q) == DOMAIN q = DOMAIN r /\ \A f \in DOMAIN r \ {"chan", "out"} : q[f] = r[f]
Leads(r, q) ==
  /\ IsReaction(q) /\ Kept(r, q)
  /\ (\A ch \in Channels : Sound(r.chan[ch])) /\ ~Has("outsider_opped")
       => \A ch \in Channels : Sound(q.chan[ch])

\* Nobody leaves a channel, and only c comes.
Brings(r, q, c) ==
  /\ Leads(r, q)
  /\ \A ch \in Channels : /\ r.chan[ch].members \subseteq q.chan[ch].members
                          /\ q.chan[ch].members \subseteq r.chan[ch].members \cup {c}

\* Nobody comes, and only those of S leave.
Leaves(r, q, S) ==
  /\ Leads(r, q)
  /\ \A ch \in Channels : /\ q.chan[ch].members \subseteq r.chan[ch].members
                          /\ r.chan[ch].members \subseteq q.chan[ch].members \cup S

\* Only messages are new.
Says(r, q) == IsReaction(q) /\ Kept(r, q) /\ q.chan = r.chan

\* A list has a length, and an element at each position up to it.
LEMMA ListLength ==
  ASSUME NEW s, IsList(s)
  PROVE  Len(s) \in Nat /\ DOMAIN s = 1 .. Len(s)
  BY DEF IsList

\* A list with one more element is a list.
LEMMA AppendIsList ==
  ASSUME NEW s, IsList(s), NEW x
  PROVE  IsList(Append(s, x))
<1> DEFINE t == Append(s, x)
           S == {s[i] : i \in DOMAIN s} \cup {x}
<1>1. t \in Seq(S)
  BY DEF IsList
<1> HIDE DEF t, S
<1>2. Len(t) \in Nat /\ t \in [1 .. Len(t) -> S]
  BY <1>1
<1>3. t \in [1 .. Len(t) -> {t[i] : i \in DOMAIN t}]
  BY <1>2
<1>4. t \in Seq({t[i] : i \in DOMAIN t})
  BY <1>2, <1>3
<1> QED
  BY <1>4 DEF IsList, t

\* A message more on the list of a reaction changes nothing else.
LEMMA AppendSays ==
  ASSUME NEW r, IsReaction(r), NEW x
  PROVE  Says(r, [r EXCEPT !.out = Append(@, x)])
<1> DEFINE o == Append(r.out, x)
           q == [r EXCEPT !.out = o]
<1>1. IsList(o)
  BY AppendIsList DEF IsReaction
<1> HIDE DEF o
<1>2. q.out = o /\ q.chan = r.chan /\ DOMAIN q = DOMAIN r
  BY DEF IsReaction
<1>3. \A f \in DOMAIN r \ {"out"} : q[f] = r[f]
  OBVIOUS
<1> HIDE DEF q
<1>4. Says(r, q)
  BY <1>1, <1>2, <1>3 DEF IsReaction, Says, Kept
<1> QED
  BY <1>4 DEF q, o

\* A list followed by numbered elements is a list.
LEMMA ConcatIsList ==
  ASSUME NEW s, IsList(s), NEW t, NEW n \in Nat, t = [i \in 1 .. n |-> t[i]]
  PROVE  IsList(s \o t)
<1> DEFINE u == s \o t
           S == {s[i] : i \in DOMAIN s} \cup {t[i] : i \in DOMAIN t}
<1>1. t \in Seq(S)
  <2>1. t \in [1 .. n -> S]
    OBVIOUS
  <2> HIDE DEF S
  <2> QED
    BY <2>1
<1>2. s \in Seq(S)
  BY DEF IsList
<1> HIDE DEF S
<1>3. u \in Seq(S)
  BY <1>1, <1>2
<1> HIDE DEF u
<1>4. Len(u) \in Nat /\ u \in [1 .. Len(u) -> S]
  BY <1>3
<1>5. u \in [1 .. Len(u) -> {u[i] : i \in DOMAIN u}]
  BY <1>4
<1>6. u \in Seq({u[i] : i \in DOMAIN u})
  BY <1>4, <1>5
<1> QED
  BY <1>6 DEF IsList, u

\* Several messages more are only messages.
LEMMA ConcatSays ==
  ASSUME NEW r, IsReaction(r), NEW t, NEW n \in Nat, t = [i \in 1 .. n |-> t[i]]
  PROVE  Says(r, [r EXCEPT !.out = @ \o t])
<1> DEFINE o == r.out \o t
           q == [r EXCEPT !.out = o]
<1>1. IsList(o)
  BY ConcatIsList DEF IsReaction
<1> HIDE DEF o
<1>2. q.out = o /\ DOMAIN q = DOMAIN r /\ \A f \in DOMAIN r \ {"out"} : q[f] = r[f]
  BY DEF IsReaction
<1> HIDE DEF q
<1>3. Says(r, q)
  BY <1>1, <1>2 DEF Says, IsReaction, Kept
<1> QED
  BY <1>3 DEF q, o

\* Tell only writes.
LEMMA TellSays ==
  ASSUME NEW r, IsReaction(r), NEW who, NEW cmd, NEW from, NEW ch, NEW nick, NEW text
  PROVE  Says(r, Tell(r, who, cmd, from, ch, nick, text))
  BY AppendSays DEF Tell

\* A numeric reply only writes, if that.
LEMMA NumericSays ==
  ASSUME NEW r, IsReaction(r), NEW c, NEW code, NEW ch, NEW nick
  PROVE  Says(r, Numeric(r, c, code, ch, nick))
<1>1. Says(r, r)
  BY DEF Says, Kept
<1> QED
  BY <1>1, TellSays, Zenon DEF Numeric

\* What only writes, twice, only writes.
LEMMA SaysTwice ==
  ASSUME NEW r, NEW q, NEW s, Says(r, q), Says(q, s)
  PROVE  Says(r, s)
  BY DEF Says, Kept

\* NAMES only writes.
LEMMA NamesSays ==
  ASSUME NEW r, IsReaction(r), NEW c, NEW ch
  PROVE  Says(r, Names(r, c, ch))
<1> DEFINE list == {<<IF m \in K(r, ch).ops /\ ~Has("ops_unmarked") THEN "@" ELSE "", m>> :
                     m \in K(r, ch).members}
           o == [to |-> {c}, msg |-> [cmd |-> "353", from |-> "server", chan |-> ch,
                                      nick |-> "", text |-> "", names |-> list]]
           q == IF c \in K(r, ch).members THEN [r EXCEPT !.out = Append(@, o)] ELSE r
<1>1. Says(r, q)
  <2> HIDE DEF o
  <2>1. Says(r, [r EXCEPT !.out = Append(@, o)])
    BY AppendSays
  <2>2. Says(r, r)
    BY DEF Says, Kept
  <2> QED
    BY <2>1, <2>2
<1>2. Names(r, c, ch) = Numeric(q, c, "366", ch, "")
  BY DEF Names
<1> HIDE DEF q
<1>3. IsReaction(q)
  BY <1>1 DEF Says
<1>4. Says(q, Names(r, c, ch))
  BY <1>2, <1>3, NumericSays, Zenon
<1> QED
  BY <1>1, <1>4, SaysTwice

\* The reply with the topic only writes.
LEMMA TopicReplySays ==
  ASSUME NEW r, IsReaction(r), NEW c, NEW ch
  PROVE  Says(r, TopicReply(r, c, ch))
  BY TellSays, Zenon DEF TopicReply

-----------------------------------------------------------------------------
(* Joining and leaving *)

\* What only writes brings nobody and takes nobody out.
LEMMA SaysOnly ==
  ASSUME NEW r, NEW q, NEW c, NEW S, Says(r, q)
  PROVE  Brings(r, q, c) /\ Leaves(r, q, S)
  BY DEF Says, Brings, Leaves, Leads

\* Two joins of one client are like one.
LEMMA BringsTwice ==
  ASSUME NEW r, NEW q, NEW s, NEW c, Brings(r, q, c), Brings(q, s, c)
  PROVE  Brings(r, s, c)
<1>1. Kept(r, s)
  BY DEF Brings, Leads, Kept
<1>2. Leads(r, s)
  BY <1>1 DEF Brings, Leads
<1> QED
  BY <1>2 DEF Brings

\* Nobody comes in two steps if nobody comes in either.
LEMMA LeavesTwice ==
  ASSUME NEW r, NEW q, NEW s, NEW S, Leaves(r, q, S), Leaves(q, s, S)
  PROVE  Leaves(r, s, S)
<1>1. Kept(r, s)
  BY DEF Leaves, Leads, Kept
<1>2. Leads(r, s)
  BY <1>1 DEF Leaves, Leads
<1> QED
  BY <1>2 DEF Leaves

\* A channel is as sound as the one it replaces.
Replaces(k, old) ==
  IsChannel(k) /\ (Sound(old) /\ ~Has("outsider_opped") => Sound(k))

\* Putting a channel in the place of one leaves the other channels alone.
LEMMA SetLeads ==
  ASSUME NEW r, IsReaction(r), NEW ch, NEW k, ch \in Channels => Replaces(k, r.chan[ch])
  PROVE  /\ Leads(r, Set(r, ch, k))
         /\ \A d \in Channels :
              Set(r, ch, k).chan[d] = IF d = ch THEN k ELSE r.chan[d]
<1> DEFINE q == Set(r, ch, k)
<1>1. DOMAIN q = DOMAIN r /\ \A f \in DOMAIN r \ {"chan"} : q[f] = r[f]
  BY DEF Set
<1>2. q.chan = [r.chan EXCEPT ![ch] = k]
  BY DEF Set, IsReaction
<1>3. DOMAIN q.chan = Channels
  BY <1>2 DEF IsReaction
<1>4. \A d \in Channels : q.chan[d] = IF d = ch THEN k ELSE r.chan[d]
  BY <1>2 DEF IsReaction
<1>5. q.out = r.out
  BY <1>1 DEF IsReaction
<1> HIDE DEF q
<1>6. IsReaction(q) /\ Kept(r, q)
  BY <1>1, <1>3, <1>4, <1>5 DEF IsReaction, Kept, Replaces
<1>7. Leads(r, q)
  BY <1>4, <1>6 DEF Leads, Replaces
<1> QED
  BY <1>4, <1>7 DEF q

\* The fields of a channel, one by one.
LEMMA Fields ==
  {"members", "ops", "invited", "flags", "key", "limit", "topic"} = DOMAIN NoChannel
  BY Zenon DEF NoChannel

\* A channel without one of its members is a channel, and a sound one.
LEMMA WithoutReplaces ==
  ASSUME NEW k, IsChannel(k), NEW c
  PROVE  /\ Replaces(Without(k, c), k) /\ Without(k, c).members \subseteq k.members
         /\ k.members \subseteq Without(k, c).members \cup {c}
<1>1. IsChannel(NoChannel) /\ Sound(NoChannel) /\ NoChannel.members = {}
  BY DEF IsChannel, Sound, NoChannel
<1> DEFINE q == [k EXCEPT !.members = @ \ {c}, !.ops = @ \ {c}]
<1>2. /\ DOMAIN q = DOMAIN k /\ q.members = k.members \ {c} /\ q.ops = k.ops \ {c}
      /\ q.invited = k.invited /\ q.flags = k.flags
  BY DEF IsChannel, NoChannel
<1>3. Without(k, c) = IF k.members = {c} THEN NoChannel ELSE q
  BY DEF Without
<1> HIDE DEF q
<1> QED
  BY <1>1, <1>2, <1>3 DEF Replaces, IsChannel, Sound

\* Taking somebody out of a channel brings nobody.
LEMMA WithoutLeaves ==
  ASSUME NEW r, IsReaction(r), NEW ch, NEW c
  PROVE  Leaves(r, Set(r, ch, Without(r.chan[ch], c)), {c})
<1>1. ch \in Channels =>
        /\ Replaces(Without(r.chan[ch], c), r.chan[ch])
        /\ Without(r.chan[ch], c).members \subseteq r.chan[ch].members
        /\ r.chan[ch].members \subseteq Without(r.chan[ch], c).members \cup {c}
  BY WithoutReplaces DEF IsReaction
<1> QED
  BY <1>1, SetLeads DEF Leaves

\* JOIN of one channel brings the client that sent it, or nobody.
LEMMA JoinOneBrings ==
  ASSUME NEW r, IsReaction(r), NEW c \in Clients, NEW ch, NEW key
  PROVE  Brings(r, JoinOne(r, c, ch, key), c)
<1> DEFINE k      == r.chan[ch]
           ops    == IF k.members = {} /\ ~Has("creator_not_op") THEN {c} ELSE k.ops
           joined == [k EXCEPT !.members = @ \cup {c}, !.invited = @ \ {c}, !.ops = ops]
           told   == IF Has("join_untold") THEN {c} ELSE joined.members
           q      == Set(r, ch, joined)
           said   == Tell(q, told, "JOIN", c, ch, "", "")
           topic  == TopicReply(said, c, ch)
<1>1. \/ JoinOne(r, c, ch, key) = r
      \/ JoinOne(r, c, ch, key) = Numeric(r, c, Refusal(k, c, key), ch, "")
      \/ JoinOne(r, c, ch, key) = Names(topic, c, ch)
  BY Zenon DEF JoinOne
<1>2. Brings(r, r, c)
  BY DEF Brings, Leads, Kept
<1>3. Brings(r, Numeric(r, c, Refusal(k, c, key), ch, ""), c)
  BY NumericSays, SaysOnly, Zenon
<1>4. Brings(r, Names(topic, c, ch), c)
  <2>1. ch \in Channels => /\ Replaces(joined, k)
                           /\ joined.members = k.members \cup {c}
    <3> SUFFICES ASSUME ch \in Channels
                 PROVE  Replaces(joined, k) /\ joined.members = k.members \cup {c}
      OBVIOUS
    <3>1. IsChannel(k)
      BY DEF IsReaction
    <3>2. /\ DOMAIN joined = DOMAIN k /\ joined.members = k.members \cup {c}
          /\ joined.invited = k.invited \ {c} /\ joined.ops = ops
          /\ joined.flags = k.flags
      <4> HIDE DEF ops
      <4> QED
        BY <3>1, Fields DEF IsChannel
    <3> HIDE DEF joined
    <3> QED
      BY <3>1, <3>2 DEF Replaces, IsChannel, Sound
  <2>2. Brings(r, q, c)
    <3> HIDE DEF joined
    <3> QED
      BY <2>1, SetLeads DEF Brings
  <2> HIDE DEF q
  <2>3. Says(q, said)
    <3> HIDE DEF told
    <3> QED
      BY <2>2, TellSays, Zenon DEF Brings, Leads
  <2> HIDE DEF said
  <2>4. Says(said, topic)
    BY <2>3, TopicReplySays DEF Says
  <2> HIDE DEF topic
  <2>5. Says(topic, Names(topic, c, ch))
    BY <2>4, NamesSays DEF Says
  <2>6. Says(q, Names(topic, c, ch))
    BY <2>3, <2>4, <2>5, SaysTwice
  <2> QED
    BY <2>2, <2>6, SaysOnly, BringsTwice
<1> QED
  BY <1>1, <1>2, <1>3, <1>4, Zenon

\* A numeric reply after a step that brings nobody.
LEMMA NumericLeaves ==
  ASSUME NEW r, NEW q, NEW S, Leaves(r, q, S), NEW c, NEW code, NEW ch, NEW nick
  PROVE  Leaves(r, Numeric(q, c, code, ch, nick), S)
<1>1. Says(q, Numeric(q, c, code, ch, nick))
  BY NumericSays DEF Leaves, Leads
<1> QED
  BY <1>1, SaysOnly, LeavesTwice

\* A message after a step that brings nobody.
LEMMA TellLeaves ==
  ASSUME NEW r, NEW q, NEW S, Leaves(r, q, S),
         NEW who, NEW cmd, NEW from, NEW ch, NEW nick, NEW text
  PROVE  Leaves(r, Tell(q, who, cmd, from, ch, nick, text), S)
<1>1. Says(q, Tell(q, who, cmd, from, ch, nick, text))
  BY TellSays DEF Leaves, Leads
<1> QED
  BY <1>1, SaysOnly, LeavesTwice

\* Doing nothing brings nobody.
LEMMA Nothing ==
  ASSUME NEW r, IsReaction(r), NEW S
  PROVE  Leaves(r, r, S)
  BY DEF Leaves, Leads, Kept

\* PART of one channel brings nobody, and takes nobody out but its sender.
LEMMA PartOneLeaves ==
  ASSUME NEW r, IsReaction(r), NEW c, NEW ch
  PROVE  Leaves(r, PartOne(r, c, ch), {c})
<1>1. Leaves(r, r, {c}) /\ Leaves(r, Set(r, ch, Without(r.chan[ch], c)), {c})
  BY Nothing, WithoutLeaves
<1> QED
  BY <1>1, NumericLeaves, TellLeaves, Zenon DEF PartOne

\* KICK of one nick brings nobody, and takes nobody else out.
LEMMA KickOneLeaves ==
  ASSUME NEW r, IsReaction(r), NEW c, NEW ch, NEW nick, NEW text
  PROVE  Leaves(r, KickOne(r, c, ch, nick, text), {nick})
<1>1. Leaves(r, r, {nick}) /\ Leaves(r, Set(r, ch, Without(r.chan[ch], nick)), {nick})
  BY Nothing, WithoutLeaves
<1> QED
  BY <1>1, NumericLeaves, TellLeaves, Zenon DEF KickOne

\* A channel with the same people.
LEMMA SetLeaves ==
  ASSUME NEW r, IsReaction(r), NEW ch, NEW k,
         ch \in Channels => Replaces(k, r.chan[ch]) /\ k.members = r.chan[ch].members
  PROVE  Leaves(r, Set(r, ch, k), {})
  BY SetLeads DEF Leaves

\* TOPIC moves nobody.
LEMMA TopicLeaves ==
  ASSUME NEW r, IsReaction(r), NEW c, NEW cmd
  PROVE  Leaves(r, Topic(r, c, cmd), {})
<1> DEFINE ch   == cmd.chans[1]
           k    == K(r, ch)
           text == IF cmd.text = Blank THEN "" ELSE cmd.text
           new  == [k EXCEPT !.topic = text]
<1>1. ASSUME ch \in Channels
      PROVE  Replaces(new, r.chan[ch]) /\ new.members = r.chan[ch].members
  <2>1. k = r.chan[ch] /\ IsChannel(k)
    BY <1>1 DEF K, IsReaction
  <2> HIDE DEF k, text
  <2>2. /\ DOMAIN new = DOMAIN k /\ new.members = k.members /\ new.ops = k.ops
        /\ new.invited = k.invited /\ new.flags = k.flags
    BY <2>1, Fields DEF IsChannel
  <2> HIDE DEF new
  <2> QED
    BY <2>1, <2>2 DEF Replaces, IsChannel, Sound
<1>2. Leaves(r, r, {}) /\ Leaves(r, Set(r, ch, new), {})
  <2> HIDE DEF new
  <2> QED
    BY <1>1, Nothing, SetLeaves
<1>3. Leaves(r, TopicReply(r, c, ch), {})
  BY TopicReplySays, SaysOnly, Zenon
<1> QED
  BY <1>2, <1>3, NumericLeaves, TellLeaves, Zenon DEF Topic

\* INVITE moves nobody: the invited client is no member yet.
LEMMA InviteLeaves ==
  ASSUME NEW r, IsReaction(r), NEW c, NEW cmd
  PROVE  Leaves(r, Invite(r, c, cmd), {})
<1> DEFINE nick == cmd.nicks[1]
           ch   == cmd.chans[1]
           k    == K(r, ch)
           new  == [k EXCEPT !.invited = @ \cup {nick}]
           set  == IF Has("invitation_void") THEN r ELSE Set(r, ch, new)
           sent == Tell(set, {nick}, "INVITE", c, ch, nick, "")
<1>1. ASSUME nick \in Clients
      PROVE  Leaves(r, set, {})
  <2>1. ASSUME ch \in Channels
        PROVE  Replaces(new, r.chan[ch]) /\ new.members = r.chan[ch].members
    <3>1. k = r.chan[ch] /\ IsChannel(k)
      BY <2>1 DEF K, IsReaction
    <3> HIDE DEF k
    <3>2. /\ DOMAIN new = DOMAIN k /\ new.members = k.members /\ new.ops = k.ops
          /\ new.invited = k.invited \cup {nick} /\ new.flags = k.flags
      BY <3>1, Fields DEF IsChannel
    <3> HIDE DEF new
    <3> QED
      BY <1>1, <3>1, <3>2 DEF Replaces, IsChannel, Sound
  <2> HIDE DEF new
  <2> QED
    BY <2>1, Nothing, SetLeaves
<1>2. Leaves(r, r, {})
  BY Nothing
<1>3. nick \in Clients =>
        Leaves(r, sent, {}) /\ Leaves(r, Numeric(sent, c, "341", ch, nick), {})
  <2> HIDE DEF set
  <2> QED
    BY <1>1, NumericLeaves, TellLeaves, Zenon
<1> QED
  BY <1>2, <1>3, NumericLeaves, Zenon DEF Invite

\* A mode with a nick, if it is one of a client in the channel.
LEMMA ChangedReplaces ==
  ASSUME NEW k, IsChannel(k), NEW cmd,
         Letter(cmd) \in Letters \cup {"o"},
         Letter(cmd) = "o" => /\ cmd.nicks[1] \in Clients
                              /\ cmd.nicks[1] \in k.members \/ Has("outsider_opped")
  PROVE  Replaces(Changed(k, cmd), k) /\ Changed(k, cmd).members = k.members
<1> DEFINE on    == Sign(cmd) = "+"
           l     == Letter(cmd)
           flags == IF l = "o" THEN k.flags
                    ELSE IF on THEN k.flags \cup {l} ELSE k.flags \ {l}
           ops   == IF on THEN k.ops \cup {cmd.nicks[1]} ELSE k.ops \ {cmd.nicks[1]}
           k1    == [k EXCEPT !.flags = flags]
           key   == IF on THEN cmd.key ELSE NoChannel.key
           limit == IF on THEN cmd.limit ELSE NoChannel.limit
<1>1. \/ Changed(k, cmd) = k
      \/ l = "o" /\ Changed(k, cmd) = [k EXCEPT !.ops = ops]
      \/ l \in Letters /\ Changed(k, cmd) \in {k1, [k1 EXCEPT !.key = key],
                                               [k1 EXCEPT !.limit = limit]}
  BY DEF Changed, Letters
<1> DEFINE q == Changed(k, cmd)
<1>2. CASE q = k
  BY <1>2 DEF Replaces
<1>3. CASE l = "o" /\ q = [k EXCEPT !.ops = ops]
  BY <1>3, Fields DEF Replaces, IsChannel, Sound
<1>4. CASE l \in Letters /\ q \in {k1, [k1 EXCEPT !.key = key], [k1 EXCEPT !.limit = limit]}
  <2> HIDE DEF key, limit
  <2>1. flags \subseteq k.flags \cup Letters
    BY <1>4
  <2> HIDE DEF flags
  <2>2. /\ DOMAIN q = DOMAIN k /\ q.members = k.members /\ q.ops = k.ops
        /\ q.invited = k.invited /\ q.flags = flags
    BY <1>4, Fields DEF IsChannel
  <2> QED
    BY <2>1, <2>2 DEF Replaces, IsChannel, Sound
<1> QED
  BY <1>1, <1>2, <1>3, <1>4, Zenon

\* MODE moves nobody, not by giving operator rights either.
LEMMA ModeLeaves ==
  ASSUME NEW r, IsReaction(r), NEW c, NEW cmd
  PROVE  Leaves(r, Mode(r, c, cmd), {})
<1> DEFINE ch    == cmd.chans[1]
           k     == K(r, ch)
           named == cmd.nicks # <<>>
           ok    == /\ ~(Letter(cmd) = "o" /\ cmd.nicks = <<>>)
                    /\ Letter(cmd) \in {"o", "k", "l", "i", "t", "n"}
                    /\ ~(named /\ cmd.nicks[1] \notin Clients)
                    /\ ~(named /\ cmd.nicks[1] \notin k.members /\ ~Has("outsider_opped"))
           set   == Set(r, ch, Changed(k, cmd))
<1>1. ASSUME ok
      PROVE  Leaves(r, set, {})
  <2>1. ASSUME ch \in Channels
        PROVE  /\ Replaces(Changed(k, cmd), r.chan[ch])
               /\ Changed(k, cmd).members = r.chan[ch].members
    <3>1. k = r.chan[ch] /\ IsChannel(k)
      BY <2>1 DEF K, IsReaction
    <3>2. Letter(cmd) \in Letters \cup {"o"}
      BY <1>1 DEF Letters
    <3>3. Letter(cmd) = "o" => /\ cmd.nicks[1] \in Clients
                               /\ cmd.nicks[1] \in k.members \/ Has("outsider_opped")
      BY <1>1, Zenon
    <3> HIDE DEF k
    <3> QED
      BY <3>1, <3>2, <3>3, ChangedReplaces
  <2> QED
    BY <2>1, SetLeaves
<1>2. Leaves(r, r, {})
  BY Nothing
<1> HIDE DEF set
<1>3. \/ ok /\ Mode(r, c, cmd) = Tell(set, IF Has("mode_untold") THEN {c} ELSE k.members,
                                      "MODE", c, ch, Parameter(cmd), cmd.text)
      \/ Mode(r, c, cmd) = r
      \/ \E code, in, nick : Mode(r, c, cmd) = Numeric(r, c, code, in, nick)
  BY Zenon DEF Mode, set
<1>4. \A code, in, nick : Leaves(r, Numeric(r, c, code, in, nick), {})
  BY <1>2, NumericLeaves
<1>5. ok => Leaves(r, Tell(set, IF Has("mode_untold") THEN {c} ELSE k.members,
                           "MODE", c, ch, Parameter(cmd), cmd.text), {})
  BY <1>1, TellLeaves, Zenon
<1> HIDE DEF ok
<1> QED
  BY <1>2, <1>3, <1>4, <1>5, Zenon

\* A message to a nick moves nobody.
LEMMA ToNickLeaves ==
  ASSUME NEW r, IsReaction(r), NEW c, NEW cmd
  PROVE  Leaves(r, ToNick(r, c, cmd), {})
<1>1. Leaves(r, r, {})
  BY Nothing
<1> QED
  BY <1>1, NumericLeaves, TellLeaves, Zenon DEF ToNick

\* A message to a channel moves nobody.
LEMMA ToChannelLeaves ==
  ASSUME NEW r, IsReaction(r), NEW c, NEW cmd
  PROVE  Leaves(r, ToChannel(r, c, cmd), {})
<1>1. Leaves(r, r, {})
  BY Nothing
<1> QED
  BY <1>1, NumericLeaves, TellLeaves, Zenon DEF ToChannel

-----------------------------------------------------------------------------
(* A command and its targets *)

\* Whom a command may take out of a channel: its sender, or those it names (the
\* first, if the server kicks anyway).
Leavers(c, cmd) ==
  IF cmd.verb = "PART" THEN {c}
  ELSE IF cmd.verb = "KICK" THEN {cmd.nicks[i] : i \in DOMAIN cmd.nicks \cup {1}}
  ELSE {}

\* What a command does to who is where.
Moves(r, q, c, cmd) ==
  IF cmd.verb = "JOIN" THEN Brings(r, q, c) ELSE Leaves(r, q, Leavers(c, cmd))

\* Two steps of one command move whom one may.
LEMMA MovesTwice ==
  ASSUME NEW r, NEW q, NEW s, NEW c, NEW cmd, Moves(r, q, c, cmd), Moves(q, s, c, cmd)
  PROVE  Moves(r, s, c, cmd)
  BY BringsTwice, LeavesTwice DEF Moves

\* Who takes out fewer takes out no more.
LEMMA LeavesMore ==
  ASSUME NEW r, NEW q, NEW S, NEW T, Leaves(r, q, S), S \subseteq T
  PROVE  Leaves(r, q, T)
  BY DEF Leaves

\* One target of a command moves whom the command may.
LEMMA OneMoves ==
  ASSUME NEW r, IsReaction(r), NEW c \in Clients, NEW cmd, NEW target,
         cmd.verb \in {"JOIN", "PART", "NAMES", "KICK"},
         cmd.verb = "KICK" => target \in Leavers(c, cmd)
  PROVE  Moves(r, One(r, c, cmd, target), c, cmd)
<1>1. cmd.verb = "JOIN" => One(r, c, cmd, target) = JoinOne(r, c, target, cmd.key)
  BY DEF One
<1>2. cmd.verb = "PART" => One(r, c, cmd, target) = PartOne(r, c, target)
  BY DEF One
<1>3. cmd.verb = "NAMES" => One(r, c, cmd, target) = Names(r, c, target)
  BY DEF One
<1>4. cmd.verb = "KICK" =>
        One(r, c, cmd, target) = KickOne(r, c, cmd.chans[1], target, cmd.text)
  BY DEF One
<1>5. Brings(r, JoinOne(r, c, target, cmd.key), c)
  BY JoinOneBrings
<1>6. Leaves(r, PartOne(r, c, target), {c}) /\ Leaves(r, Names(r, c, target), {})
  BY PartOneLeaves, NamesSays, SaysOnly
<1>7. Leaves(r, KickOne(r, c, cmd.chans[1], target, cmd.text), {target})
  BY KickOneLeaves
<1>8. cmd.verb = "KICK" =>
        Leaves(r, KickOne(r, c, cmd.chans[1], target, cmd.text), Leavers(c, cmd))
  BY <1>7, LeavesMore
<1>9. cmd.verb = "PART" => Leavers(c, cmd) = {c}
  BY DEF Leavers
<1>10. cmd.verb = "NAMES" => Leavers(c, cmd) = {}
  BY DEF Leavers
<1> QED
  BY <1>1, <1>2, <1>3, <1>4, <1>5, <1>6, <1>8, <1>9, <1>10 DEF Moves

\* Its elements have numbers from 1.
Numbered(s) == \E n \in Nat : DOMAIN s = 1 .. n

\* However long the list.
LEMMA EachMoves ==
  ASSUME NEW r, IsReaction(r), NEW c \in Clients, NEW cmd, NEW targets, Numbered(targets),
         cmd.verb \in {"JOIN", "PART", "NAMES", "KICK"},
         cmd.verb = "KICK" => targets = cmd.nicks
  PROVE  Moves(r, Each(r, c, cmd, targets), c, cmd)
<1>1. PICK n \in Nat : DOMAIN targets = 1 .. n
  BY DEF Numbered
<1>2. PICK h : Runs(h, r, c, cmd, targets, n) /\ Each(r, c, cmd, targets) = h[n]
  BY <1>1, OneByOne
<1> DEFINE S == {i \in Nat : i <= n => Moves(r, h[i], c, cmd)}
<1>3. 0 \in S
  BY <1>2 DEF Runs, Moves, Brings, Leaves, Leads, Kept
<1>4. ASSUME NEW i \in Nat, i \in S
      PROVE  i + 1 \in S
  <2> SUFFICES ASSUME i + 1 <= n
               PROVE  Moves(r, h[i + 1], c, cmd)
    OBVIOUS
  <2>1. Moves(r, h[i], c, cmd) /\ h[i + 1] = One(h[i], c, cmd, targets[i + 1])
    BY <1>1, <1>2, <1>4 DEF Runs
  <2>2. IsReaction(h[i])
    BY <2>1 DEF Moves, Brings, Leaves, Leads
  <2>3. ASSUME cmd.verb = "KICK"
        PROVE  targets[i + 1] \in Leavers(c, cmd)
    <3>1. targets = cmd.nicks /\ i + 1 \in DOMAIN cmd.nicks
      BY <1>1, <2>3
    <3>2. Leavers(c, cmd) = {cmd.nicks[k] : k \in DOMAIN cmd.nicks \cup {1}}
      BY <2>3 DEF Leavers
    <3> QED
      BY <3>1, <3>2
  <2>4. Moves(h[i], h[i + 1], c, cmd)
    BY <2>1, <2>2, <2>3, OneMoves
  <2> QED
    BY <2>1, <2>4, MovesTwice
<1>5. Nat \subseteq S
  <2> HIDE DEF S
  <2> QED
    BY <1>3, <1>4, Induction
<1> QED
  BY <1>1, <1>2, <1>5

\* KICK of a list brings nobody, and takes out nobody but those on it.
LEMMA KickLeaves ==
  ASSUME NEW r, IsReaction(r), NEW c \in Clients, NEW cmd, cmd.verb = "KICK",
         Numbered(cmd.nicks)
  PROVE  Leaves(r, Kick(r, c, cmd), Leavers(c, cmd))
<1> DEFINE ch == cmd.chans[1]
           S  == Leavers(c, cmd)
<1>1. Leaves(r, r, S) /\ Leaves(r, Set(r, ch, Without(r.chan[ch], cmd.nicks[1])), S)
  <2>1. {cmd.nicks[1]} \subseteq S
    BY DEF Leavers
  <2> HIDE DEF S
  <2>2. Leaves(r, Set(r, ch, Without(r.chan[ch], cmd.nicks[1])), {cmd.nicks[1]})
    BY WithoutLeaves
  <2> QED
    BY <2>1, <2>2, Nothing, LeavesMore
<1>2. Leaves(r, Each(r, c, cmd, cmd.nicks), S)
  BY EachMoves DEF Moves
<1> SUFFICES Leaves(r, Kick(r, c, cmd), S)
  OBVIOUS
<1> HIDE DEF S
<1> DEFINE kicked == IF Has("kick_anyway") THEN Set(r, ch, Without(r.chan[ch], cmd.nicks[1]))
                     ELSE r
<1>3. \A q : Leaves(r, q, S) =>
        \A code, in, nick : Leaves(r, Numeric(q, c, code, in, nick), S)
  BY NumericLeaves
<1>4. \A code, in, nick : /\ Leaves(r, Numeric(r, c, code, in, nick), S)
                          /\ Leaves(r, Numeric(kicked, c, code, in, nick), S)
  BY <1>1, <1>3
<1> QED
  BY <1>2, <1>4, Zenon DEF Kick

\* JOIN brings nobody but the client that sent it, and takes nobody out. PART takes
\* nobody out but its sender, KICK nobody but those it names, and no other command
\* moves anybody.
THEOREM ReactMoves ==
  ASSUME NEW r, IsReaction(r), NEW c \in Clients, NEW cmd,
         Numbered(cmd.chans), Numbered(cmd.nicks),
         cmd.verb \in {"JOIN", "PART", "NAMES", "TOPIC", "KICK", "INVITE", "MODE",
                       "PRIVMSG", "NOTICE"}
  PROVE  Moves(r, React(r, c, cmd), c, cmd)
<1>1. CASE cmd.verb \in {"JOIN", "PART", "NAMES"}
  <2>1. React(r, c, cmd) = IF Has("first_target_only") THEN One(r, c, cmd, cmd.chans[1])
                                                       ELSE Each(r, c, cmd, cmd.chans)
    BY <1>1 DEF React
  <2>2. /\ Moves(r, One(r, c, cmd, cmd.chans[1]), c, cmd)
        /\ Moves(r, Each(r, c, cmd, cmd.chans), c, cmd)
    BY <1>1, OneMoves, EachMoves
  <2> QED
    BY <2>1, <2>2
<1>2. CASE cmd.verb = "KICK"
  <2> DEFINE first == [cmd EXCEPT !.nicks = SubSeq(cmd.nicks, 1, 1)]
             now   == IF Has("first_target_only") /\ cmd.nicks # <<>> THEN first ELSE cmd
  <2>1. React(r, c, cmd) = Kick(r, c, now)
    BY <1>2 DEF React
  <2>2. now.verb = "KICK" /\ Numbered(now.nicks)
    <3>1. CASE now = cmd
      BY <1>2, <3>1
    <3>2. CASE cmd.nicks # <<>> /\ now = first
      <4>1. Numbered(SubSeq(cmd.nicks, 1, 1))
        <5> DEFINE one == SubSeq(cmd.nicks, 1, 1)
        <5>1. Len(one) \in Nat /\ DOMAIN one = 1 .. Len(one)
          BY DEF Numbered
        <5> QED
          BY <5>1 DEF Numbered
      <4> QED
        BY <1>2, <3>2, <4>1
    <3> QED
      BY <3>1, <3>2
  <2> HIDE DEF now
  <2>3. Leaves(r, Kick(r, c, now), Leavers(c, now))
    BY <2>2, KickLeaves
  <2>4. Leavers(c, now) \subseteq Leavers(c, cmd)
    <3> USE DEF now
    <3>1. CASE now = cmd
      BY <3>1
    <3>2. CASE cmd.nicks # <<>> /\ now = first
      BY <1>2, <3>2 DEF Leavers, Numbered
    <3> QED
      BY <3>1, <3>2
  <2>5. Leaves(r, Kick(r, c, now), Leavers(c, cmd))
    BY <2>3, <2>4, LeavesMore
  <2> QED
    BY <1>2, <2>1, <2>5 DEF Moves
<1>3. CASE cmd.verb = "TOPIC"
  BY <1>3, TopicLeaves DEF Moves, Leavers, React
<1>4. CASE cmd.verb = "INVITE"
  BY <1>4, InviteLeaves DEF Moves, Leavers, React
<1>5. CASE cmd.verb = "MODE"
  BY <1>5, ModeLeaves DEF Moves, Leavers, React
<1>6. CASE cmd.verb \in {"PRIVMSG", "NOTICE"}
  <2>1. React(r, c, cmd) = IF cmd.chans = <<>> THEN ToNick(r, c, cmd)
                                               ELSE ToChannel(r, c, cmd)
    BY <1>6 DEF React
  <2> QED
    BY <1>6, <2>1, ToNickLeaves, ToChannelLeaves DEF Moves, Leavers
<1> QED
  BY <1>1, <1>2, <1>3, <1>4, <1>5, <1>6

-----------------------------------------------------------------------------
(* What a server may read into a command *)

\* A command of a verb.
IsCommand(cmd, verb) ==
  cmd.verb = verb /\ "verb" \in DOMAIN cmd /\ {"chans", "nicks"} \subseteq DOMAIN cmd
  /\ Numbered(cmd.chans) /\ Numbered(cmd.nicks)

ChannelVerbs == {"JOIN", "PART", "NAMES", "TOPIC", "KICK", "INVITE", "MODE",
                 "PRIVMSG", "NOTICE"}

\* Each reading of a command is a command with numbered lists, JOIN 0 as a PART among them.
LEMMA MeaningsNumbered ==
  ASSUME NEW c, NEW cmd, NEW verb, IsCommand(cmd, verb), verb \in ChannelVerbs
  PROVE  \A m \in Meanings(c, cmd) : m.verb \in ChannelVerbs /\ IsCommand(m, m.verb)
<1> DEFINE S == {ch \in Channels : c \in chan[ch].members}
<1>1. \A order \in SetToSeqs(S) : Numbered(order)
  <2>1. Cardinality(S) \in Nat
    BY FinitelyMany, FS_Subset, FS_CardinalityType
  <2> HIDE DEF S
  <2> QED
    BY <2>1 DEF SetToSeqs, Numbered
<1>2. ASSUME NEW order \in SetToSeqs(S)
      PROVE  IsCommand([cmd EXCEPT !.verb = "PART", !.chans = order], "PART")
  <2> HIDE DEF S
  <2> QED
    BY <1>1 DEF IsCommand
<1>3. CASE cmd.verb = "JOIN" /\ cmd.chans = <<"0">>
  <2>1. Meanings(c, cmd) =
          {[cmd EXCEPT !.verb = "PART", !.chans = order] : order \in SetToSeqs(S)}
    BY <1>3 DEF Meanings
  <2> HIDE DEF S
  <2>2. ASSUME NEW m \in Meanings(c, cmd)
        PROVE  m.verb \in ChannelVerbs /\ IsCommand(m, m.verb)
    <3>1. PICK order \in SetToSeqs(S) : m = [cmd EXCEPT !.verb = "PART", !.chans = order]
      BY <2>1, Zenon
    <3>2. IsCommand(m, "PART")
      BY <1>2, <3>1, Zenon
    <3> QED
      BY <3>2 DEF IsCommand, ChannelVerbs
  <2> QED
    BY <2>2
<1>4. CASE ~(cmd.verb = "JOIN" /\ cmd.chans = <<"0">>)
  <2>1. Meanings(c, cmd) = {cmd}
    BY <1>4, Zenon DEF Meanings
  <2> QED
    BY <2>1 DEF IsCommand
<1> QED
  BY <1>3, <1>4
=============================================================================
