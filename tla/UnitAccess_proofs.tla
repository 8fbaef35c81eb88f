-------------------------- MODULE UnitAccess_proofs ---------------------------
(***************************************************************************)
(* Proof, for every suite of well-formed tests and every faulty server,     *)
(* that a guarded test (UnitGuards) follows no pointer to a deleted object  *)
(* and no index past the end of the messages. The invariant says that what  *)
(* the steps so far make sure of is true.                                   *)
(***************************************************************************)
EXTENDS UnitGuards, UnitMemory_proofs

-----------------------------------------------------------------------------
(* Places in a script *)

\* What is sure after step i is so by step i, or was sure before it and is not
\* ended by it.
LEMMA SinceStep ==
  ASSUME NEW i \in Nat, NEW these \in SUBSET Nat, NEW those \in SUBSET Nat,
         Since(i + 1, these, those)
  PROVE  i \in these \/ (Since(i, these, those) /\ i \notin those)
<1>1. PICK k \in these : k < i + 1 /\ \A j \in those : ~(k < j /\ j < i + 1)
  BY DEF Since
<1>2. CASE k = i
  BY <1>2
<1>3. CASE k # i
  <2>1. k < i /\ i \notin those
    BY <1>1, <1>3
  <2>2. \A j \in those : ~(k < j /\ j < i)
    BY <1>1
  <2> QED
    BY <2>1, <2>2 DEF Since
<1> QED
  BY <1>2, <1>3

\* Nothing is sure before the first step.
LEMMA SinceFirst ==
  ASSUME NEW these \in SUBSET (Nat \ {0}), NEW those
  PROVE  ~Since(1, these, those)
  BY DEF Since

\* The places of a kind are places of the script.
LEMMA Places ==
  ASSUME NEW w, IsList(w)
  PROVE  /\ DOMAIN w \subseteq Nat \ {0}
         /\ \A kinds : Kind(w, kinds) \subseteq DOMAIN w
         /\ \A o : News(w, o) \subseteq DOMAIN w
         /\ \A verbs : Sends(w, verbs) \subseteq DOMAIN w
         /\ Endings(w) \subseteq DOMAIN w /\ Takings(w) \subseteq DOMAIN w
         /\ \A c : Removals(w, c) \subseteq DOMAIN w /\ Clearings(w, c) \subseteq DOMAIN w
         /\ \A ch, call : CallsOf(w, ch, call) \subseteq DOMAIN w
         /\ \A ch : Findings(w, ch) \subseteq DOMAIN w
         /\ \A c, n : Countings(w, c, n) \subseteq DOMAIN w
         /\ \A c, ch : Recordings(w, c, ch) \subseteq DOMAIN w
                       /\ Completions(w, c, ch) \subseteq DOMAIN w
<1>1. DOMAIN w \subseteq Nat \ {0}
  BY ListLength
<1>2. \A kinds : Kind(w, kinds) \subseteq DOMAIN w
  BY DEF Kind
<1>3. \A verbs : Sends(w, verbs) \subseteq DOMAIN w
  BY <1>2 DEF Sends
<1>4. \A o : News(w, o) \subseteq DOMAIN w
  BY <1>2 DEF News
<1>5. Endings(w) \subseteq DOMAIN w /\ Takings(w) \subseteq DOMAIN w
  BY <1>2, <1>3 DEF Endings, Takings
<1>6. \A c : Removals(w, c) \subseteq DOMAIN w /\ Clearings(w, c) \subseteq DOMAIN w
  BY <1>2 DEF Removals, Clearings
<1>7. \A ch, call : CallsOf(w, ch, call) \subseteq DOMAIN w
  BY <1>2 DEF CallsOf
<1>8. \A ch : Findings(w, ch) \subseteq DOMAIN w
  BY <1>2 DEF Findings
<1>9. \A c, n : Countings(w, c, n) \subseteq DOMAIN w
  BY <1>2 DEF Countings
<1>10. \A c, ch : Recordings(w, c, ch) \subseteq DOMAIN w /\ Completions(w, c, ch) \subseteq DOMAIN w
  BY <1>2, <1>7 DEF Recordings, Completions
<1> QED
  BY <1>1, <1>2, <1>3, <1>4, <1>5, <1>6, <1>7, <1>8, <1>9, <1>10

-----------------------------------------------------------------------------
(* The invariant *)

\* What is sure at place i of script w, is true.
AliveTrue(w, i)  == \A o : SureAlive(w, i, o) => o \in live /\ o \notin freed
MemberTrue(w, i) ==
  \A ch \in Channels, c \in Clients : SureMember(w, i, ch, c) => c \in chan[ch].members
CountTrue(w, i)  ==
  \A c \in Clients, n \in Nat : SureCount(w, i, c, n) => Len(received[c]) >= n
UntakenTrue(w, i) == Untaken(w, i) => freed \cap Channels = {}
FirstsTrue(w, i)  == Firsts(w, i) => listed \cap freed \cap Channels = {}
AbsentTrue(w, i) ==
  \A ch \in Channels, c \in Clients : SureAbsent(w, i, ch, c) => c \notin chan[ch].members
MembersTrue(w, i) ==
  SureMembers(w, i) => \A ch \in Channels : \A c \in chan[ch].members : c \in live /\ c \notin freed

AgreeTrue(w, i) ==
  fault = "none" => \A c \in Clients, ch \in Channels : SureAgrees(w, i, c, ch) => Agree(c, ch)

AllTrue(w, i) == /\ AliveTrue(w, i) /\ MemberTrue(w, i) /\ AbsentTrue(w, i) /\ CountTrue(w, i)
                 /\ UntakenTrue(w, i) /\ FirstsTrue(w, i) /\ MembersTrue(w, i) /\ AgreeTrue(w, i)

\* The arguments the test holds are among those it ever gives.
ArgsGiven(w) == \A k \in DOMAIN args : args[k] \in Given(w)

\* The place in the whole of the test.
Place == IF stage = "SetUp" THEN at ELSE Len(fixture.setup) + at

Boxes == DOMAIN received = Clients /\ \A c \in Clients : IsList(received[c])

Unended == stage \in {"SetUp", "body"}

\* Of a test that is not over and has not gone astray: what is sure is true, until a
\* fatal assertion that failed skips the rest of the body.
SureInv ==
  \A t \in Tests, i \in Nat :
    Unended /\ ~wild /\ test = t /\ Place = i =>
      /\ ArgsGiven(Whole(Suite[t]))
      /\ stage = "SetUp" \/ AtStep => AllTrue(Whole(Suite[t]), i)

\* A test went astray at a step that was not guarded.
Astray ==
  \A t \in Tests :
    wild /\ test = t => \E k \in DOMAIN Whole(Suite[t]) :
                         ~GuardedStep(Whole(Suite[t]), k) /\ (Unended => k < Place)

\* Only a client that is there records channels.
Records == \A c \in Clients : client[c].channels # {} => c \in live

AccessInv == /\ MemoryInv /\ Boxes /\ Records /\ SureInv /\ Astray
             /\ stage = "idle" => args = <<>> /\ ~wild

\* The whole of a test is its SetUp and its body.
LEMMA WholeIs ==
  ASSUME NEW t \in Tests
  PROVE  LET w == Whole(Suite[t])
             s == Suite[t].fixture.setup
             b == Suite[t].body
         IN  /\ IsList(w) /\ Len(s) \in Nat /\ Len(b) \in Nat
             /\ DOMAIN w = 1 .. Len(s) + Len(b)
             /\ \A i \in 1 .. Len(s) : w[i] = s[i]
             /\ \A i \in 1 .. Len(b) : w[Len(s) + i] = b[i]
<1> DEFINE w == Whole(Suite[t])
           s == Suite[t].fixture.setup
           b == Suite[t].body
<1>1. IsList(s) /\ IsList(b)
  BY ScriptsAreWellMade
<1>2. w = s \o b
  BY DEF Whole
<1> HIDE DEF w, s, b
<1>3. /\ Len(s) \in Nat /\ DOMAIN s = 1 .. Len(s)
      /\ Len(b) \in Nat /\ DOMAIN b = 1 .. Len(b) /\ b = [i \in 1 .. Len(b) |-> b[i]]
  BY <1>1 DEF IsList
<1>4. IsList(w)
  BY <1>1, <1>2, <1>3, ConcatIsList
<1> DEFINE S == {s[i] : i \in DOMAIN s} \cup {b[i] : i \in DOMAIN b}
<1>5. s \in Seq(S) /\ b \in Seq(S)
  BY <1>1, <1>3 DEF IsList
<1> HIDE DEF S
<1>6. /\ DOMAIN w = 1 .. Len(s) + Len(b)
      /\ \A i \in 1 .. Len(s) : w[i] = s[i]
      /\ \A i \in 1 .. Len(b) : w[Len(s) + i] = b[i]
  BY <1>2, <1>3, <1>5
<1> QED
  BY <1>3, <1>4, <1>6 DEF w, s, b

\* The step a test is about to take is the one at its place.
LEMMA PlaceIs ==
  ASSUME TypeOK, Unended
  PROVE  LET w == Whole(Suite[test]) IN
         /\ test \in Tests /\ IsList(w) /\ Place \in Nat \ {0}
         /\ AtStep => Place \in DOMAIN w /\ w[Place] = Script[at] /\ Current = {Script[at]}
                      /\ WellMade(Script[at])
<1>1. test \in Tests /\ at \in 1 .. Len(Script) + 1
  BY DEF TypeOK, Unended
<1>2. Script = IF stage = "SetUp" THEN Suite[test].fixture.setup ELSE Suite[test].body
  BY ScriptIs DEF Unended
<1>3. IsList(Script) /\ \A i \in DOMAIN Script : WellMade(Script[i])
  BY <1>1, <1>2, ScriptsAreWellMade
<1>4. Len(Script) \in Nat /\ DOMAIN Script = 1 .. Len(Script)
  BY <1>3, ListLength
<1>5. AtStep => at \in DOMAIN Script /\ Current = {Script[at]}
  BY <1>1, <1>4 DEF AtStep, Current
<1> DEFINE w == Whole(Suite[test])
           s == Suite[test].fixture.setup
           b == Suite[test].body
<1>6. /\ IsList(w) /\ Len(s) \in Nat /\ Len(b) \in Nat
      /\ DOMAIN w = 1 .. Len(s) + Len(b)
      /\ \A i \in 1 .. Len(s) : w[i] = s[i]
      /\ \A i \in 1 .. Len(b) : w[Len(s) + i] = b[i]
  BY <1>1, WholeIs
<1>7. Script = (IF stage = "SetUp" THEN s ELSE b) /\ Place = IF stage = "SetUp" THEN at ELSE Len(s) + at
  BY <1>2 DEF Place, fixture
<1> HIDE DEF w, s, b
<1>8. Place \in Nat \ {0}
  BY <1>1, <1>4, <1>6, <1>7
<1>9. AtStep => Place \in DOMAIN w /\ w[Place] = Script[at]
  BY <1>1, <1>4, <1>5, <1>6, <1>7
<1> QED
  BY <1>1, <1>3, <1>5, <1>6, <1>8, <1>9 DEF w

-----------------------------------------------------------------------------
(* What a step does, at its place in the script *)

\* The sender of the command obeyed its verb, with arguments among the given.
Obeyed(now, given) ==
  \E verb, list : /\ Obeys(chan', verb, now.c, list)
                  /\ verb = now.verb \/ verb = "NICK"
                  /\ \A k \in DOMAIN list : list[k] \in given

\* A fatal check held, for the body goes on.
Passed(now) == now.do = "check" /\ now.fatal => Holds(now)

Effect(now, given) ==
  \/ Makes(now) \/ Adds(now) \/ Deletes(now) \/ Resets(now) \/ Gets(now)
  \/ Commands(now) /\ Obeyed(now, given)
  \/ Removes(now)
  \/ Alters(now) /\ (now.ch \in Channels => chan'[now.ch] = Called(chan[now.ch], now.call, now.arg))
  \/ Quiet(now) /\ now.do # "channel" /\ Passed(now)

\* What a command may do, by its place.
LEMMA CommandAt ==
  ASSUME NEW w, NEW i \in DOMAIN w, w[i].do \in {"execute", "parse"}, Obeyed(w[i], Given(w))
  PROVE  /\ i \notin Takings(w) => Fuller(chan')
         /\ w[i].verb # "JOIN" => Emptier(chan')
         /\ (w[i].verb = "KICK" => \A list \in Given(w) : Len(list) <= 1) =>
              \A ch \in Channels : \A d, e \in chan[ch].members : d # e => chan'[ch].members # {}
         /\ \A ch \in Channels : chan'[ch].members \subseteq chan[ch].members \cup {w[i].c}
<1>1. PICK verb, list : /\ Obeys(chan', verb, w[i].c, list)
                        /\ verb = w[i].verb \/ verb = "NICK"
                        /\ \A k \in DOMAIN list : list[k] \in Given(w)
  BY DEF Obeyed
<1>2. i \notin Takings(w) => verb \notin {"PART", "KICK"} /\ (verb = "JOIN" => <<"0">> \notin Given(w))
  BY <1>1 DEF Takings, Sends, Kind
<1>3. /\ verb \notin {"PART", "KICK"} /\ (verb = "JOIN" => <<"0">> \notin {list[k] : k \in DOMAIN list})
           => Fuller(chan')
      /\ verb # "JOIN" => Emptier(chan')
      /\ (verb = "KICK" => \A k \in DOMAIN list : Len(list[k]) <= 1) =>
           \A ch \in Channels : \A d, e \in chan[ch].members : d # e => chan'[ch].members # {}
      /\ \A ch \in Channels : chan'[ch].members \subseteq chan[ch].members \cup {w[i].c}
  BY <1>1, Zenon DEF Obeys
<1>4. (verb = "KICK" => \A l \in Given(w) : Len(l) <= 1) =>
        (verb = "KICK" => \A k \in DOMAIN list : Len(list[k]) <= 1)
  BY <1>1
<1>5. i \notin Takings(w) => Fuller(chan')
  BY <1>1, <1>2, <1>3
<1>6. w[i].verb # "JOIN" => Emptier(chan')
  BY <1>1, <1>3
<1> QED
  BY <1>1, <1>3, <1>4, <1>5, <1>6

\* Clients are no channels.
LEMMA KindsApart == Clients \cap Channels = {}
  BY ObjectsAssumption

\* What a step spares stays.
LEMMA StaysAlive ==
  ASSUME NEW w, NEW i \in DOMAIN w, Effect(w[i], Given(w)), MemberTrue(w, i),
         i \notin Endings(w), NEW o, o \in live, o \notin freed,
         IF o \in Channels THEN Spared(w, i, o) ELSE i \notin Removals(w, o)
  PROVE  o \in live' /\ o \notin freed'
<1>1. ~Deletes(w[i]) /\ ~Resets(w[i])
  BY DEF Deletes, Resets, Endings, Kind
<1>2. CASE Makes(w[i]) \/ Adds(w[i]) \/ Gets(w[i]) \/ Alters(w[i]) \/ Quiet(w[i])
  BY <1>2 DEF Makes, Adds, Gets, Alters, Quiet, mem
<1>3. CASE Removes(w[i])
  BY <1>3, KindsApart DEF Removes, Removals, Kind
<1>4. CASE Commands(w[i]) /\ Obeyed(w[i], Given(w))
  <2>1. o \notin Emptied
    <3>1. CASE o \in Channels /\ i \notin Takings(w)
      BY <1>4, <3>1, CommandAt DEF Commands, Emptied, Fuller
    <3>2. CASE o \in Channels /\ i \in Takings(w)
      <4>1. PICK c, d \in Clients : c # d /\ SureMember(w, i, o, c) /\ SureMember(w, i, o, d)
        BY <3>2 DEF Spared
      <4>2. c \in chan[o].members /\ d \in chan[o].members
        BY <3>2, <4>1 DEF MemberTrue
      <4>3. w[i].verb = "KICK" => \A list \in Given(w) : Len(list) <= 1
        BY <3>2 DEF Spared
      <4> QED
        BY <1>4, <3>2, <4>1, <4>2, <4>3, CommandAt DEF Commands, Emptied
    <3> QED
      BY <3>1, <3>2 DEF Emptied
  <2> QED
    BY <1>4, <2>1 DEF Commands
<1> QED
  BY <1>1, <1>2, <1>3, <1>4 DEF Effect

\* A check that the server has a channel, and that passes, finds it in the lists.
LEMMA CheckFinds ==
  ASSUME NEW step, step.do = "check", step.see = "exists", step.is = TRUE, step.yes = TRUE,
         Holds(step)
  PROVE  step.of[1] \in listed
<1>1. Holds(step) = ((View(step.see, step.of) = step.is) = step.yes)
  BY Zenon DEF Holds
<1>2. View(step.see, step.of) = (step.of[1] \in listed)
  BY Zenon DEF View
<1> QED
  BY <1>1, <1>2

\* Next, the objects that are surely alive are alive.
LEMMA AliveNext ==
  ASSUME MemoryInv, stage # "crashed", NEW w, IsList(w), NEW i \in DOMAIN w,
         Effect(w[i], Given(w)), AllTrue(w, i)
  PROVE  AliveTrue(w, i + 1)'
<1>1. i \in Nat /\ i + 1 \in Nat
  BY Places
<1> SUFFICES ASSUME NEW o, SureAlive(w, i + 1, o)
             PROVE  o \in live' /\ o \notin freed'
  BY DEF AliveTrue
<1>2. CASE i \in News(w, o)
  BY <1>2 DEF News, Kind, Effect, Makes, Adds, Deletes, Resets, Gets, Commands, Removes, Alters,
              Quiet, Memory
<1>3. CASE i \in Findings(w, o) /\ o \in Channels
  <2>1. /\ w[i].do = "check" /\ w[i].fatal /\ w[i].see = "exists" /\ w[i].of[1] = o
        /\ w[i].is = TRUE /\ w[i].yes = TRUE /\ Firsts(w, i)
    BY <1>3 DEF Findings, Kind
  <2>2. Quiet(w[i]) /\ Passed(w[i])
    BY <2>1 DEF Effect, Makes, Adds, Deletes, Resets, Gets, Commands, Removes, Alters
  <2>3. o \in listed
    BY <2>1, <2>2, CheckFinds DEF Passed
  <2>4. o \in live /\ o \notin freed
    BY <1>3, <2>1, <2>3, ListsAreLive DEF AllTrue, FirstsTrue
  <2> QED
    BY <2>2, <2>4 DEF Quiet, mem
<1>4. CASE ~(i \in News(w, o)) /\ ~(i \in Findings(w, o) /\ o \in Channels)
  <2>1. SureAlive(w, i, o) /\ i \notin Endings(w)
        /\ IF o \in Channels THEN Spared(w, i, o) ELSE i \notin Removals(w, o)
    <3>1. CASE o \in Channels
      <4> DEFINE these == News(w, o) \cup Findings(w, o)
                 those == Endings(w) \cup {j \in DOMAIN w : ~Spared(w, j, o)}
      <4>1. these \subseteq Nat /\ those \subseteq Nat
        BY Places
      <4>2. Since(i + 1, these, those)
        BY <3>1 DEF SureAlive
      <4>3. i \notin these
        BY <1>4, <3>1
      <4> HIDE DEF these, those
      <4>4. Since(i, these, those) /\ i \notin those
        BY <1>1, <4>1, <4>2, <4>3, SinceStep
      <4> QED
        BY <3>1, <4>4 DEF SureAlive, these, those
    <3>2. CASE o \notin Channels
      <4> DEFINE these == News(w, o)
                 those == Endings(w) \cup Removals(w, o)
      <4>1. these \subseteq Nat /\ those \subseteq Nat
        BY Places
      <4>2. Since(i + 1, these, those)
        BY <3>2 DEF SureAlive
      <4>3. i \notin these
        BY <1>4
      <4> HIDE DEF these, those
      <4>4. Since(i, these, those) /\ i \notin those
        BY <1>1, <4>1, <4>2, <4>3, SinceStep
      <4> QED
        BY <3>2, <4>4 DEF SureAlive, these, those
    <3> QED
      BY <3>1, <3>2
  <2>2. o \in live /\ o \notin freed
    BY <2>1 DEF AllTrue, AliveTrue
  <2> QED
    BY <2>1, <2>2, StaysAlive DEF AllTrue
<1> QED
  BY <1>2, <1>3, <1>4

\* A method that is not removeMember takes no one out, and addMember brings one in.
LEMMA CalledMembers ==
  ASSUME NEW k, IsChannel(k), NEW call \in Calls, NEW arg
  PROVE  /\ call # "removeMember" => k.members \subseteq Called(k, call, arg).members
         /\ call = "addMember" => Called(k, call, arg).members = k.members \cup {arg}
         /\ call # "addMember" => Called(k, call, arg).members \subseteq k.members
         /\ call = "removeMember" => Called(k, call, arg).members = k.members \ {arg}
<1>1. /\ "members" \in DOMAIN k /\ "ops" \in DOMAIN k /\ "invited" \in DOMAIN k
      /\ "topic" \in DOMAIN k /\ "key" \in DOMAIN k /\ "limit" \in DOMAIN k
      /\ "flags" \in DOMAIN k
  BY Zenon DEF IsChannel, NoChannel
<1> DEFINE d == Called(k, call, arg)
<1>2. CASE call = "addMember"
  BY <1>1, <1>2 DEF Called
<1>3. CASE call = "removeMember"
  BY <1>1, <1>3 DEF Called
<1>4. CASE call \notin {"addMember", "removeMember"}
  BY <1>1, <1>4 DEF Called, Calls
<1> QED
  BY <1>2, <1>3, <1>4

\* A well-made call of a method changes the members of its channel so.
LEMMA AltersMembers ==
  ASSUME TypeInv, NEW now, WellMade(now), Alters(now), NEW ch \in Channels,
         now.ch \in Channels => chan'[now.ch] = Called(chan[now.ch], now.call, now.arg)
  PROVE  /\ now.ch # ch \/ now.call # "removeMember" =>
              chan[ch].members \subseteq chan'[ch].members
         /\ now.ch = ch /\ now.call = "addMember" =>
              chan'[ch].members = chan[ch].members \cup {now.arg}
         /\ now.ch # ch \/ now.call # "addMember" =>
              chan'[ch].members \subseteq chan[ch].members
         /\ now.ch = ch /\ now.call = "removeMember" =>
              chan'[ch].members = chan[ch].members \ {now.arg}
<1>1. CASE now.ch # ch
  BY <1>1 DEF Alters
<1>2. CASE now.ch = ch
  <2>1. IsChannel(chan[ch]) /\ now.call \in Calls
    BY DEF TypeInv, IsChannels, Alters, WellMade
  <2>2. chan'[ch] = Called(chan[ch], now.call, now.arg)
    BY <1>2
  <2> QED
    BY <1>2, <2>1, <2>2, CalledMembers
<1> QED
  BY <1>1, <1>2

\* What a step leaves of the members, if it is not one that takes them out.
LEMMA MembersStay ==
  ASSUME TypeInv, NEW w, NEW i \in DOMAIN w, WellMade(w[i]), Effect(w[i], Given(w)),
         NEW ch \in Channels,
         i \notin Takings(w) \cup Kind(w, {"removeClient"}) \cup Endings(w) \cup News(w, ch)
                  \cup CallsOf(w, ch, "removeMember")
  PROVE  chan[ch].members \subseteq chan'[ch].members
<1>1. ~Deletes(w[i]) /\ ~Resets(w[i]) /\ ~Removes(w[i])
  BY DEF Deletes, Resets, Removes, Endings, Kind
<1>2. CASE Makes(w[i])
  BY <1>2 DEF Makes, News, Kind
<1>3. CASE Adds(w[i]) \/ Gets(w[i]) \/ Quiet(w[i])
  BY <1>3 DEF Adds, Gets, Quiet, mem
<1>4. CASE Commands(w[i]) /\ Obeyed(w[i], Given(w))
  BY <1>4, CommandAt DEF Commands, Fuller
<1>5. CASE Alters(w[i])
           /\ (w[i].ch \in Channels => chan'[w[i].ch] = Called(chan[w[i].ch], w[i].call, w[i].arg))
  <2>1. w[i].ch # ch \/ w[i].call # "removeMember"
    BY <1>5 DEF CallsOf, Kind, Alters
  <2> QED
    BY <1>5, <2>1, AltersMembers
<1> QED
  BY <1>1, <1>2, <1>3, <1>4, <1>5 DEF Effect

\* Next, the sure members are members.
LEMMA MemberNext ==
  ASSUME TypeInv, NEW w, IsList(w), NEW i \in DOMAIN w, WellMade(w[i]),
         Effect(w[i], Given(w)), MemberTrue(w, i)
  PROVE  MemberTrue(w, i + 1)'
<1>1. i \in Nat /\ i + 1 \in Nat
  BY Places
<1> SUFFICES ASSUME NEW ch \in Channels, NEW c \in Clients, SureMember(w, i + 1, ch, c)
             PROVE  c \in chan'[ch].members
  BY DEF MemberTrue
<1> DEFINE these == {j \in CallsOf(w, ch, "addMember") : w[j].arg = c}
           those == Takings(w) \cup Kind(w, {"removeClient"}) \cup Endings(w) \cup News(w, ch)
                    \cup CallsOf(w, ch, "removeMember")
<1>2. CASE i \in these
  <2>1. w[i].do = "channel" /\ w[i].ch = ch /\ w[i].call = "addMember" /\ w[i].arg = c
    BY <1>2 DEF CallsOf, Kind
  <2>2. CASE Alters(w[i])
           /\ (w[i].ch \in Channels => chan'[w[i].ch] = Called(chan[w[i].ch], w[i].call, w[i].arg))
    BY <2>1, <2>2, AltersMembers
  <2> QED
    BY <2>1, <2>2 DEF Effect, Makes, Adds, Deletes, Resets, Gets, Commands, Removes
<1>3. CASE i \notin these
  <2>1. these \subseteq Nat /\ those \subseteq Nat
    BY Places
  <2>2. Since(i + 1, these, those)
    BY DEF SureMember
  <2> HIDE DEF these, those
  <2>3. Since(i, these, those) /\ i \notin those
    BY <1>1, <1>3, <2>1, <2>2, SinceStep
  <2>4. c \in chan[ch].members
    BY <2>3 DEF SureMember, these, those, MemberTrue
  <2> QED
    BY <2>3, <2>4, MembersStay DEF those
<1> QED
  BY <1>2, <1>3

\* Next, who is surely not in a channel is not.
LEMMA AbsentNext ==
  ASSUME TypeInv, NEW w, IsList(w), NEW i \in DOMAIN w, WellMade(w[i]),
         Effect(w[i], Given(w)), AbsentTrue(w, i)
  PROVE  AbsentTrue(w, i + 1)'
<1>1. i \in Nat /\ i + 1 \in Nat
  BY Places
<1> SUFFICES ASSUME NEW ch \in Channels, NEW c \in Clients, SureAbsent(w, i + 1, ch, c)
             PROVE  c \notin chan'[ch].members
  BY DEF AbsentTrue
<1> DEFINE these == {j \in CallsOf(w, ch, "removeMember") : w[j].arg = c}
           those == {j \in CallsOf(w, ch, "addMember") : w[j].arg = c} \cup Sends(w, {"JOIN"})
<1>2. CASE i \in these
  <2>1. w[i].do = "channel" /\ w[i].ch = ch /\ w[i].call = "removeMember" /\ w[i].arg = c
    BY <1>2 DEF CallsOf, Kind
  <2>2. CASE Alters(w[i])
           /\ (w[i].ch \in Channels => chan'[w[i].ch] = Called(chan[w[i].ch], w[i].call, w[i].arg))
    BY <2>1, <2>2, AltersMembers
  <2> QED
    BY <2>1, <2>2 DEF Effect, Makes, Adds, Deletes, Resets, Gets, Commands, Removes
<1>3. CASE i \notin these
  <2>1. these \subseteq Nat /\ those \subseteq Nat
    BY Places
  <2>2. Since(i + 1, these, those)
    BY DEF SureAbsent
  <2> HIDE DEF these, those
  <2>3. Since(i, these, those) /\ i \notin those
    BY <1>1, <1>3, <2>1, <2>2, SinceStep
  <2>4. c \notin chan[ch].members
    BY <2>3 DEF SureAbsent, these, those, AbsentTrue
  <2>5. CASE Makes(w[i]) \/ Deletes(w[i]) \/ Resets(w[i])
    BY <2>4, <2>5, NewIsTyped DEF Makes, Deletes, Resets, Deleted
  <2>6. CASE Adds(w[i]) \/ Gets(w[i]) \/ Quiet(w[i])
    BY <2>4, <2>6 DEF Adds, Gets, Quiet, mem
  <2>7. CASE Commands(w[i]) /\ Obeyed(w[i], Given(w))
    <3>1. w[i].verb # "JOIN"
      BY <2>3, <2>7 DEF those, Sends, Kind, Commands
    <3> QED
      BY <2>4, <2>7, <3>1, CommandAt DEF Commands, Emptier
  <2>8. CASE Removes(w[i])
    BY <2>4, <2>8 DEF Removes, Emptier
  <2>9. CASE Alters(w[i])
           /\ (w[i].ch \in Channels => chan'[w[i].ch] = Called(chan[w[i].ch], w[i].call, w[i].arg))
    <3>1. w[i].ch = ch /\ w[i].call = "addMember" => w[i].arg # c
      BY <2>3, <2>9 DEF those, CallsOf, Kind, Alters
    <3> QED
      BY <2>4, <2>9, <3>1, AltersMembers
  <2> QED
    BY <2>5, <2>6, <2>7, <2>8, <2>9 DEF Effect
<1> QED
  BY <1>2, <1>3

\* Without a server, all a SetUp or a body does to memory is to make a Client.
LEMMA PlainStep ==
  ASSUME TypeOK, Plain, Unended, NEW now \in Current
  PROVE  now.do \notin OnServer /\ (now.do \in Memory => now.do = "new")
<1>1. CASE stage = "body"
  BY <1>1, PlainIs
<1>2. CASE stage = "SetUp"
  <2>1. now = Script[at] /\ at <= Len(Script) /\ Script = fixture.setup
        /\ at \in 1 .. Len(Script) + 1 /\ Len(Script) \in Nat
    BY <1>2, CurrentStep, PlainIs
  <2>2. fixture.setup # <<>>
    <3>1. Len(<<>>) = 0
      OBVIOUS
    <3> QED
      BY <2>1, <3>1
  <2>3. Len(fixture.setup) = 1 /\ fixture.setup[1].do = "new"
    BY <2>2, PlainIs
  <2> QED
    BY <2>1, <2>3 DEF OnServer
<1> QED
  BY <1>1, <1>2 DEF Unended

\* A test that is not over resets the server first of all, when nothing is there.
LEMMA ResetIsFirst ==
  ASSUME MemoryInv, Unended, [Next]_vars, NEW now \in Current, Resets(now), at' = at + 1
  PROVE  listed = {} /\ freed = {} /\ Empty /\ listed' = {} /\ freed' = {} /\ Empty'
<1>0. TypeOK /\ now.do = "reset" /\ at \in Nat
  BY DEF MemoryInv, TypeInv, Resets, TypeOK
<1>1. CASE Plain
  BY <1>0, <1>1, PlainStep DEF Memory
<1>2. CASE SettingUp
  <2>1. ~ UNCHANGED <<mem, test, stage, at>>
    BY <1>0
  <2>2. at \in 1 .. 7 /\ \E step \in Current : NextSetUp(step)
    BY <1>2, <2>1, SettingUpStep
  <2>3. NextSetUp(now)
    BY <1>0, <2>2, CurrentStep
  <2>4. at = 1
    BY <1>0, <2>2, <2>3 DEF NextSetUp, Gets, Makes, Adds, Quiet, Memory
  <2>5. listed = {} /\ freed = {} /\ Empty
    BY <1>2, <2>4 DEF MemoryInv, SettingUpInv
  <2>6. freed' = {} /\ listed' = {} /\ \A ch \in Channels : chan'[ch] = chan[ch]
    <3>1. /\ chan' = [ch \in Channels |-> IF ch \in listed THEN NoChannel ELSE chan[ch]]
          /\ freed' = freed \cup listed /\ listed' = {}
      BY DEF Resets, Deleted
    <3>2. \A ch \in Channels : chan'[ch] = chan[ch]
      BY <2>5, <3>1
    <3> QED
      BY <2>5, <3>1, <3>2
  <2> QED
    BY <2>5, <2>6 DEF Empty
<1>3. CASE Acting
  BY <1>0, <1>3, ActingStep DEF Busy, Makes, Adds, Commands, Removes, Alters, Quiet, Memory, Resets
<1> QED
  BY <1>0, <1>1, <1>2, <1>3, StageOf DEF TakingDown, Unended

\* When a command runs, a channel with members is listed.
LEMMA CommandsListed ==
  ASSUME MemoryInv, Unended, [Next]_vars, NEW now \in Current, Commands(now), at' = at + 1
  PROVE  \A ch \in Channels : chan[ch].members # {} => ch \in listed
<1>0. TypeOK /\ now.do \in {"execute", "parse"} /\ at \in Nat
  BY DEF MemoryInv, TypeInv, Commands, TypeOK
<1>1. CASE Plain
  BY <1>0, <1>1, PlainStep DEF OnServer
<1>2. CASE SettingUp
  <2>1. ~ UNCHANGED <<mem, test, stage, at>>
    BY <1>0
  <2>2. at \in 1 .. 7 /\ \E step \in Current : NextSetUp(step)
    BY <1>2, <2>1, SettingUpStep
  <2>3. NextSetUp(now)
    BY <1>0, <2>2, CurrentStep
  <2>4. Empty
    BY <1>2 DEF MemoryInv, SettingUpInv
  <2> QED
    BY <2>4 DEF Empty
<1>3. CASE Acting
  <2>1. Awaited(Script, at) = {}
    BY <1>0, <1>3, ActingStep DEF Busy
  <2> QED
    BY <1>3, <2>1 DEF MemoryInv, ActingInv
<1> QED
  BY <1>0, <1>1, <1>2, <1>3, StageOf DEF TakingDown, Unended

\* The reset comes when nothing is there, and leaves nothing.
ResetsFirst(now) == Resets(now) => listed' = {} /\ freed' = {} /\ Empty'

\* A step after a reset of which only this is known.
LEMMA AfterReset ==
  ASSUME NEW w, IsList(w), NEW i \in DOMAIN w, Effect(w[i], Given(w)), ResetsFirst(w[i]),
         NEW those \in SUBSET DOMAIN w, Since(i + 1, Kind(w, {"reset"}), those)
  PROVE  \/ listed' = {} /\ freed' = {} /\ Empty'
         \/ Since(i, Kind(w, {"reset"}), those) /\ i \notin those
<1>1. i \in Nat /\ Kind(w, {"reset"}) \subseteq Nat /\ DOMAIN w \subseteq Nat
  BY Places
<1>2. CASE i \in Kind(w, {"reset"})
  <2>1. w[i].do = "reset"
    BY <1>2 DEF Kind
  <2>2. Resets(w[i])
    BY <2>1 DEF Effect, Makes, Adds, Deletes, Gets, Commands, Removes, Alters, Quiet, Memory
  <2> QED
    BY <2>2 DEF ResetsFirst
<1>3. CASE i \notin Kind(w, {"reset"})
  BY <1>1, <1>3, SinceStep
<1> QED
  BY <1>2, <1>3

\* Next, no channel is deleted if no command took a client out.
LEMMA UntakenNext ==
  ASSUME NEW w, IsList(w), NEW i \in DOMAIN w, Effect(w[i], Given(w)), ResetsFirst(w[i]),
         UntakenTrue(w, i)
  PROVE  UntakenTrue(w, i + 1)'
<1> SUFFICES ASSUME Untaken(w, i + 1)
             PROVE  freed' \cap Channels = {}
  BY DEF UntakenTrue
<1> DEFINE those == Takings(w) \cup Kind(w, {"delete"})
<1>1. those \in SUBSET DOMAIN w
  BY Places
<1>2. Since(i + 1, Kind(w, {"reset"}), those)
  BY DEF Untaken
<1> HIDE DEF those
<1>3. CASE listed' = {} /\ freed' = {} /\ Empty'
  BY <1>3
<1>4. CASE Resets(w[i])
  BY <1>4 DEF ResetsFirst
<1>5. CASE Since(i, Kind(w, {"reset"}), those) /\ i \notin those /\ ~Resets(w[i])
  <2>1. freed \cap Channels = {}
    BY <1>5 DEF Untaken, UntakenTrue, those
  <2>2. ~Deletes(w[i])
    BY <1>5 DEF Deletes, those, Kind
  <2>3. CASE Makes(w[i]) \/ Adds(w[i]) \/ Gets(w[i]) \/ Alters(w[i]) \/ Quiet(w[i])
    BY <2>1, <2>3 DEF Makes, Adds, Gets, Alters, Quiet, mem
  <2>4. CASE Removes(w[i])
    BY <2>1, <2>4, KindsApart DEF Removes
  <2>5. CASE Commands(w[i]) /\ Obeyed(w[i], Given(w))
    <3>1. Fuller(chan')
      BY <1>5, <2>5, CommandAt DEF Commands, those
    <3>2. Emptied = {}
      BY <3>1 DEF Emptied, Fuller
    <3> QED
      BY <2>1, <2>5, <3>2 DEF Commands
  <2> QED
    BY <1>5, <2>2, <2>3, <2>4, <2>5 DEF Effect
<1> QED
  BY <1>1, <1>2, <1>3, <1>4, <1>5, AfterReset

\* Next, no listed channel is one made anew.
LEMMA FirstsNext ==
  ASSUME NEW w, IsList(w), NEW i \in DOMAIN w, Effect(w[i], Given(w)), ResetsFirst(w[i]),
         UntakenTrue(w, i), FirstsTrue(w, i),
         Commands(w[i]) => \A ch \in Channels : chan[ch].members # {} => ch \in listed
  PROVE  FirstsTrue(w, i + 1)'
<1> SUFFICES ASSUME Firsts(w, i + 1)
             PROVE  listed' \cap freed' \cap Channels = {}
  BY DEF FirstsTrue
<1> DEFINE those == Kind(w, {"delete"}) \cup
                    {j \in Sends(w, {"JOIN"}) \cup Kind(w, {"add"}) : ~Untaken(w, j)}
<1>1. those \in SUBSET DOMAIN w
  BY Places
<1>2. Since(i + 1, Kind(w, {"reset"}), those)
  BY DEF Firsts
<1> HIDE DEF those
<1>3. CASE listed' = {} /\ freed' = {} /\ Empty'
  BY <1>3
<1>4. CASE Resets(w[i])
  BY <1>4 DEF ResetsFirst
<1>5. CASE Since(i, Kind(w, {"reset"}), those) /\ i \notin those /\ ~Resets(w[i])
  <2>1. listed \cap freed \cap Channels = {}
    BY <1>5 DEF Firsts, FirstsTrue, those
  <2>2. ~Deletes(w[i])
    BY <1>5 DEF Deletes, those, Kind
  <2>3. i \in Sends(w, {"JOIN"}) \cup Kind(w, {"add"}) => freed \cap Channels = {}
    BY <1>5 DEF those, UntakenTrue
  <2>4. CASE Makes(w[i]) \/ Gets(w[i]) \/ Alters(w[i]) \/ Quiet(w[i])
    BY <2>1, <2>4 DEF Makes, Gets, Alters, Quiet, mem
  <2>5. CASE Adds(w[i])
    BY <2>3, <2>5 DEF Adds, Kind
  <2>6. CASE Removes(w[i])
    BY <2>1, <2>6, KindsApart DEF Removes
  <2>7. CASE Commands(w[i]) /\ Obeyed(w[i], Given(w))
    <3>1. w[i].do \in {"execute", "parse"}
      BY <2>7 DEF Commands
    <3>2. CASE w[i].verb = "JOIN"
      <4>1. freed \cap Channels = {}
        BY <2>3, <3>1, <3>2 DEF Sends, Kind
      <4> QED
        BY <2>7, <4>1 DEF Commands
    <3>3. CASE w[i].verb # "JOIN"
      <4>1. Emptier(chan')
        BY <2>7, <3>1, <3>3, CommandAt
      <4>2. Made = {}
        BY <2>7, <4>1 DEF Made, Emptier
      <4> QED
        BY <2>1, <2>7, <4>2 DEF Commands
    <3> QED
      BY <3>2, <3>3
  <2> QED
    BY <1>5, <2>2, <2>4, <2>5, <2>6, <2>7 DEF Effect
<1> QED
  BY <1>1, <1>2, <1>3, <1>4, <1>5, AfterReset

\* Next, the members of every channel are alive.
LEMMA MembersNext ==
  ASSUME TypeInv, NEW w, IsList(w), NEW i \in DOMAIN w, WellMade(w[i]),
         Effect(w[i], Given(w)), ResetsFirst(w[i]), AliveTrue(w, i), MembersTrue(w, i),
         Commands(w[i]) => w[i].c \in live /\ w[i].c \notin freed
  PROVE  MembersTrue(w, i + 1)'
<1> SUFFICES ASSUME SureMembers(w, i + 1), NEW ch \in Channels, NEW c \in chan'[ch].members
             PROVE  c \in live' /\ c \notin freed'
  BY DEF MembersTrue
<1> DEFINE those == Kind(w, {"removeClient", "delete"}) \cup
                    {j \in Kind(w, {"channel"}) :
                       w[j].call = "addMember" /\ ~SureAlive(w, j, w[j].arg)}
<1>1. those \in SUBSET DOMAIN w
  BY Places
<1>2. Since(i + 1, Kind(w, {"reset"}), those)
  BY DEF SureMembers
<1> HIDE DEF those
<1>3. CASE listed' = {} /\ freed' = {} /\ Empty'
  BY <1>3 DEF Empty
<1>4. CASE Resets(w[i])
  BY <1>4 DEF ResetsFirst, Empty
<1>5. CASE Since(i, Kind(w, {"reset"}), those) /\ i \notin those /\ ~Resets(w[i])
  <2>1. \A k \in Channels : \A d \in chan[k].members : d \in live /\ d \notin freed
    BY <1>5 DEF SureMembers, MembersTrue, those
  <2>2. ~Deletes(w[i]) /\ ~Removes(w[i])
    BY <1>5 DEF Deletes, Removes, those, Kind
  <2>3. CASE Adds(w[i]) \/ Gets(w[i]) \/ Quiet(w[i])
    BY <2>1, <2>3 DEF Adds, Gets, Quiet, mem
  <2>4. CASE Makes(w[i])
    <3>1. c \in chan[ch].members
      BY <2>4, NewIsTyped DEF Makes
    <3> QED
      BY <2>1, <2>4, <3>1 DEF Makes
  <2>5. CASE Commands(w[i]) /\ Obeyed(w[i], Given(w))
    <3>1. c \in chan[ch].members \cup {w[i].c}
      BY <2>5, CommandAt DEF Commands
    <3>2. c \in live /\ c \notin freed
      BY <2>1, <2>5, <3>1
    <3>3. c \in Clients
      BY <2>5, <3>1 DEF Commands, WellMade, TypeInv, IsChannels, IsChannel
    <3>4. c \notin Emptied
      BY <3>3, KindsApart DEF Emptied
    <3> QED
      BY <2>5, <3>2, <3>4 DEF Commands
  <2>6. CASE Alters(w[i])
           /\ (w[i].ch \in Channels => chan'[w[i].ch] = Called(chan[w[i].ch], w[i].call, w[i].arg))
    <3>1. UNCHANGED <<live, freed>> /\ w[i].do = "channel"
      BY <2>6 DEF Alters
    <3>2. CASE w[i].ch = ch /\ w[i].call = "addMember"
      <4>1. c \in chan[ch].members \cup {w[i].arg}
        BY <2>6, <3>2, AltersMembers
      <4>2. SureAlive(w, i, w[i].arg)
        BY <1>5, <3>1, <3>2 DEF those, Kind
      <4> QED
        BY <2>1, <3>1, <4>1, <4>2 DEF AliveTrue
    <3>3. CASE w[i].ch # ch \/ w[i].call # "addMember"
      BY <2>1, <2>6, <3>1, <3>3, AltersMembers
    <3> QED
      BY <3>2, <3>3
  <2> QED
    BY <1>5, <2>2, <2>3, <2>4, <2>5, <2>6 DEF Effect
<1> QED
  BY <1>1, <1>2, <1>3, <1>4, <1>5, AfterReset

-----------------------------------------------------------------------------
(* The messages *)

\* A step takes no message from a client, unless it clears, removes or remakes the client.
Heard(now) ==
  \A c \in Clients :
    /\ now.do \notin {"delete", "reset"}
    /\ now.do = "new" => c \notin now.objs
    /\ now.do \in {"clear", "removeClient"} => now.c # c
    => Len(received'[c]) >= Len(received[c])

\* A list followed by numbered elements is a list, and no shorter.
LEMMA ConcatLength ==
  ASSUME NEW s, IsList(s), NEW t, NEW n \in Nat, t = [i \in 1 .. n |-> t[i]]
  PROVE  IsList(s \o t) /\ Len(s \o t) >= Len(s)
<1>1. IsList(s \o t)
  BY ConcatIsList
<1> DEFINE S == {s[i] : i \in DOMAIN s} \cup {t[i] : i \in DOMAIN t}
<1>2. t \in [1 .. n -> S]
  OBVIOUS
<1>3. s \in Seq(S)
  BY DEF IsList
<1> HIDE DEF S
<1>4. t \in Seq(S)
  BY <1>2
<1>5. Len(s \o t) >= Len(s)
  BY <1>3, <1>4
<1> QED
  BY <1>1, <1>5

\* The text of the messages does not matter.
Worded(mine, c, cl) ==
  [i \in DOMAIN mine |-> [to |-> Addressee(mine[i], c, cl)] @@ mine[i].msg]

\* A delivery lengthens the boxes.
LEMMA DeliverLengthens ==
  ASSUME Boxes, NEW out, IsList(out), NEW cl, NEW c \in Clients
  PROVE  /\ IsList(Deliver(received, out, cl)[c])
         /\ Len(Deliver(received, out, cl)[c]) >= Len(received[c])
<1> DEFINE mine == SelectSeq(out, LAMBDA o : c \in o.to)
           told == Worded(mine, c, cl)
<1>1. Deliver(received, out, cl)[c] = received[c] \o told
  BY DEF Deliver, sendMessage, Worded
<1>2. DOMAIN told = DOMAIN mine
  BY DEF Worded
<1>3. Len(mine) \in Nat /\ DOMAIN mine = 1 .. Len(mine)
  OBVIOUS
<1>4. told = [i \in DOMAIN mine |-> told[i]]
  BY DEF Worded
<1> HIDE DEF mine, told
<1>5. told = [i \in 1 .. Len(mine) |-> told[i]]
  BY <1>3, <1>4
<1> QED
  BY <1>1, <1>3, <1>5, ConcatLength DEF Boxes

\* new, delete and resetInstance empty the boxes of their clients.
LEMMA RemadeBoxes ==
  ASSUME Boxes, NewStep \/ DeleteStep \/ ResetStep
  PROVE  Boxes' /\ \E now \in Current : Heard(now)
<1>1. IsList(<<>>)
  BY DEF IsList
<1>2. \A c \in Clients : Len(received[c]) \in Nat
  BY ListLength DEF Boxes
<1>3. CASE NewStep
  <2>1. PICK now \in Current :
          /\ now.do = "new"
          /\ received' = [c \in Clients |-> IF c \in now.objs THEN <<>> ELSE received[c]]
    BY <1>3, DoingIs DEF NewStep
  <2> QED
    BY <1>1, <1>2, <2>1 DEF Boxes, Heard
<1>4. CASE DeleteStep \/ ResetStep
  <2>1. PICK now \in Current : now.do \in {"delete", "reset"} /\ \E S : Deleted(S)
    <3>1. CASE DeleteStep
      <4>1. PICK now \in Doing({"delete"}) : Deleted(now.objs)
        BY <3>1, Zenon DEF DeleteStep
      <4>2. now \in Current /\ now.do = "delete"
        BY DoingIs
      <4> QED
        BY <4>1, <4>2, Zenon
    <3>2. CASE ResetStep
      <4>1. PICK now \in Doing({"reset"}) : Deleted(listed)
        BY <3>2, Zenon DEF ResetStep
      <4>2. now \in Current /\ now.do = "reset"
        BY DoingIs
      <4> QED
        BY <4>1, <4>2, Zenon
    <3> QED
      BY <1>4, <3>1, <3>2
  <2>2. PICK S : received' = [c \in Clients |-> IF c \in S THEN <<>> ELSE received[c]]
    BY <2>1, Zenon DEF Deleted
  <2> QED
    BY <1>1, <2>1, <2>2 DEF Boxes, Heard
<1> QED
  BY <1>3, <1>4

\* A command delivers its replies.
LEMMA CommandBoxes ==
  ASSUME TypeInv, Boxes, ExecuteStep
  PROVE  Boxes' /\ \E now \in Current : Heard(now)
<1>1. PICK now \in Doing({"execute", "parse"}) :
        IF now.do = "execute" THEN Execute(now.verb, now.c, args)
                              ELSE Execute(Upper(now.verb), now.c, now.args)
  BY DEF ExecuteStep
<1>2. now \in Current /\ now.c \in Clients
  BY DoingIs, CurrentStep DEF TypeInv, WellMade
<1>3. now.do = "parse" => IsArgs(now.args)
  BY DoingIs, ArgsOfStep
<1>4. PICK verb, list : Execute(verb, now.c, list) /\ IsArgs(list)
  BY <1>1, <1>3, DoingIs DEF TypeInv
<1>5. PICK r \in Executed(verb, now.c, list) : received' = Deliver(received, r.out, r.client)
  BY <1>4 DEF Execute
<1>6. IsList(r.out)
  BY <1>2, <1>4, <1>5, ExecutedIs DEF TypeInv, IsArgs, IsUnit, IsReaction
<1>7. \A c \in Clients : IsList(received'[c]) /\ Len(received'[c]) >= Len(received[c])
  BY <1>5, <1>6, DeliverLengthens
<1>8. DOMAIN received' = Clients
  BY <1>5 DEF Deliver
<1> QED
  BY <1>2, <1>7, <1>8 DEF Boxes, Heard

\* broadcast sends a message to some.
LEMMA ChannelBoxes ==
  ASSUME Boxes, ChannelStep
  PROVE  Boxes' /\ \E now \in Current : Heard(now)
<1>1. PICK now \in Doing({"channel", "broadcast"}) :
        IF now.do = "channel" THEN UNCHANGED received ELSE BroadcastTo(now.ch, now.text, now.but)
  BY DEF ChannelStep
<1>2. now \in Current
  BY DoingIs
<1>3. \A c \in Clients : Len(received[c]) \in Nat
  BY ListLength DEF Boxes
<1>4. CASE now.do = "channel"
  BY <1>1, <1>2, <1>3, <1>4 DEF Boxes, Heard
<1>5. CASE now.do # "channel"
  <2> DEFINE told == chan[now.ch].members \ (IF Has("exclude_ignored") THEN {} ELSE {now.but})
             msg  == Message("", "", "", "", now.text, {}, "")
  <2>1. received' = [c \in Clients |-> IF c \notin told THEN received[c]
                                       ELSE received[c] \o <<msg>>]
    BY <1>1, <1>5, Zenon DEF BroadcastTo, sendMessage
  <2> HIDE DEF told, msg
  <2>2. <<msg>> = [i \in 1 .. 1 |-> <<msg>>[i]]
    OBVIOUS
  <2>3. \A c \in Clients : IsList(received[c] \o <<msg>>) /\ Len(received[c] \o <<msg>>) >= Len(received[c])
    BY <2>2, ConcatLength DEF Boxes
  <2> QED
    BY <1>2, <1>3, <2>1, <2>3 DEF Boxes, Heard
<1> QED
  BY <1>4, <1>5

\* clearReceivedMessages empties the box of its client.
LEMMA ClientBoxes ==
  ASSUME Boxes, ClientStep
  PROVE  Boxes' /\ \E now \in Current : Heard(now)
<1>1. PICK now \in Current :
        received' = IF now.do = "clear" THEN [received EXCEPT ![now.c] = <<>>] ELSE received
  BY DoingIs, Zenon DEF ClientStep
<1>2. IsList(<<>>)
  BY DEF IsList
<1>3. \A c \in Clients : Len(received[c]) \in Nat
  BY ListLength DEF Boxes
<1> QED
  BY <1>1, <1>2, <1>3 DEF Boxes, Heard

\* removeClient deletes its client's box.
LEMMA RemoveBoxes ==
  ASSUME Boxes, RemoveClientStep
  PROVE  Boxes' /\ \E now \in Current : Heard(now)
<1>1. PICK now \in Doing({"removeClient"}) : removeClient(now.c)
  BY DEF RemoveClientStep
<1>2. now \in Current /\ now.do = "removeClient" /\ received' = [received EXCEPT ![now.c] = <<>>]
  BY <1>1, DoingIs DEF removeClient
<1>3. IsList(<<>>)
  BY DEF IsList
<1>4. \A c \in Clients : Len(received[c]) \in Nat
  BY ListLength DEF Boxes
<1> QED
  BY <1>2, <1>3, <1>4 DEF Boxes, Heard

\* Every step keeps the boxes, and takes no message that it should not.
LEMMA BoxesNext ==
  ASSUME TypeInv, Boxes, [Next]_vars
  PROVE  Boxes' /\ \A now \in Current : Heard(now)
<1>1. \/ UNCHANGED received
      \/ NewStep \/ DeleteStep \/ ResetStep \/ ExecuteStep \/ RemoveClientStep
      \/ ClientStep \/ ChannelStep
  BY DEF Next, vars, objects, StartTest, EndStage, EndTest, AddStep, GetInstanceStep, ArgsStep,
         BufferStep, KeepStep, AssertStep, WildStep, Tick
<1>2. CASE UNCHANGED received
  <2>1. \A c \in Clients : Len(received[c]) \in Nat
    BY ListLength DEF Boxes
  <2> QED
    BY <1>2, <2>1 DEF Boxes, Heard
<1>3. Boxes' /\ (UNCHANGED received \/ \E now \in Current : Heard(now))
  BY <1>1, <1>2, RemadeBoxes, CommandBoxes, RemoveBoxes, ClientBoxes, ChannelBoxes
<1>4. \A now, step \in Current : now = step
  BY DEF Current
<1> QED
  BY <1>2, <1>3, <1>4

\* A check of the number of messages that passes.
LEMMA CheckCounts ==
  ASSUME Boxes, NEW step, step.do = "check", step.yes = TRUE, Holds(step),
         step.of[1] \in Clients, NEW n \in Nat,
         \/ step.see = "count" /\ step.is \in Nat /\ step.is >= n
         \/ step.see = "atLeast" /\ step.is = TRUE /\ step.of[2] \in Nat /\ step.of[2] >= n
  PROVE  Len(received[step.of[1]]) >= n
<1>1. View(step.see, step.of) = step.is
  <2>1. Holds(step) = ((View(step.see, step.of) = step.is) = step.yes)
    BY Zenon DEF Holds
  <2> QED
    BY <2>1
<1>2. step.see = "count" => View(step.see, step.of) = Len(received[step.of[1]])
  BY Zenon DEF View
<1>3. step.see = "atLeast" => View(step.see, step.of) = (Len(received[step.of[1]]) >= step.of[2])
  BY Zenon DEF View
<1>4. Len(received[step.of[1]]) \in Nat
  BY ListLength DEF Boxes
<1>5. CASE step.see = "count"
  <2>1. Len(received[step.of[1]]) = step.is
    BY <1>1, <1>2, <1>5
  <2> QED
    BY <1>5, <2>1
<1>6. CASE step.see = "atLeast"
  <2>1. Len(received[step.of[1]]) >= step.of[2]
    BY <1>1, <1>3, <1>6
  <2> QED
    BY <1>4, <1>6, <2>1
<1> QED
  BY <1>5, <1>6

\* Next, the clients have the messages they surely have.
LEMMA CountNext ==
  ASSUME Boxes, Boxes', NEW w, IsList(w), NEW i \in DOMAIN w, Effect(w[i], Given(w)), Heard(w[i]),
         w[i].do = "check" => UNCHANGED received, CountTrue(w, i)
  PROVE  CountTrue(w, i + 1)'
<1> SUFFICES ASSUME NEW c \in Clients, NEW n \in Nat, SureCount(w, i + 1, c, n)
             PROVE  Len(received'[c]) >= n
  BY DEF CountTrue
<1> DEFINE these == Countings(w, c, n)
           those == Endings(w) \cup News(w, c) \cup Clearings(w, c) \cup Removals(w, c)
<1>1. these \subseteq Nat /\ those \subseteq Nat /\ i \in Nat
  BY Places
<1>2. Since(i + 1, these, those)
  BY DEF SureCount
<1>3. Len(received[c]) \in Nat /\ Len(received'[c]) \in Nat
  BY ListLength DEF Boxes
<1>4. CASE i \in these
  <2>1. /\ w[i].do = "check" /\ w[i].fatal /\ w[i].yes = TRUE /\ w[i].of[1] = c
        /\ \/ w[i].see = "count" /\ w[i].is \in Nat /\ w[i].is >= n
           \/ /\ w[i].see = "atLeast" /\ w[i].is = TRUE
              /\ w[i].of[2] \in Nat /\ w[i].of[2] >= n
    BY <1>4 DEF Countings, Kind
  <2>2. Passed(w[i])
    BY <2>1 DEF Effect, Makes, Adds, Deletes, Resets, Gets, Commands, Removes, Alters
  <2>3. Len(received[c]) >= n
    BY <2>1, <2>2, CheckCounts DEF Passed
  <2> QED
    BY <2>1, <2>3
<1>5. CASE i \notin these
  <2> HIDE DEF these, those
  <2>1. Since(i, these, those) /\ i \notin those
    BY <1>1, <1>2, <1>5, SinceStep
  <2>2. Len(received[c]) >= n
    BY <2>1 DEF CountTrue, SureCount, these, those
  <2>3. Len(received'[c]) >= Len(received[c])
    BY <2>1 DEF Heard, those, Endings, News, Clearings, Removals, Kind
  <2> QED
    BY <1>3, <2>2, <2>3
<1> QED
  BY <1>4, <1>5

-----------------------------------------------------------------------------
(* The steps of a guarded test *)

ScriptStep ==
  \/ NewStep \/ AddStep \/ DeleteStep \/ ResetStep \/ GetInstanceStep
  \/ ArgsStep \/ ExecuteStep \/ RemoveClientStep
  \/ ClientStep \/ ChannelStep \/ BufferStep \/ KeepStep \/ AssertStep

\* The arguments of a step are among those the test gives.
LEMMA GivenBy ==
  ASSUME NEW w, NEW i \in DOMAIN w, w[i].do \in {"push", "parse"}
  PROVE  \A k \in DOMAIN w[i].args : w[i].args[k] \in Given(w)
<1>1. i \in Kind(w, {"push", "parse"})
  BY DEF Kind
<1> QED
  BY <1>1 DEF Given

\* The fixture's arguments stay among them.
LEMMA ArgsNext ==
  ASSUME TypeInv, ArgsStep, NEW w, NEW i \in DOMAIN w, w[i] \in Current, ArgsGiven(w)
  PROVE  ArgsGiven(w)'
<1>1. \A now, step \in Current : now = step
  BY DEF Current
<1> DEFINE now == w[i]
           new == now.args
<1>2. now.do \in {"clearArgs", "push"} /\ args' = IF now.do = "push" THEN args \o new ELSE <<>>
  <2>1. PICK step \in Doing({"clearArgs", "push"}) :
          args' = IF step.do = "push" THEN args \o step.args ELSE <<>>
    BY Zenon DEF ArgsStep
  <2> QED
    BY <1>1, <2>1, DoingIs
<1>3. CASE now.do = "push"
  <2>1. IsArgs(args) /\ IsArgs(new)
    BY <1>3, ArgsOfStep DEF TypeInv
  <2>2. \A k \in DOMAIN new : new[k] \in Given(w)
    BY <1>3, GivenBy
  <2>3. args' = args \o new
    BY <1>2, <1>3
  <2> DEFINE S == Given(w)
  <2> HIDE DEF now, new, S
  <2>4. /\ Len(args) \in Nat /\ args = [k \in 1 .. Len(args) |-> args[k]]
        /\ Len(new) \in Nat /\ new = [k \in 1 .. Len(new) |-> new[k]]
    BY <2>1 DEF IsArgs, IsList
  <2>5. args \in Seq(S) /\ new \in Seq(S)
    <3>1. (\A k \in 1 .. Len(args) : args[k] \in S) /\ (\A k \in 1 .. Len(new) : new[k] \in S)
      BY <2>2, <2>4 DEF ArgsGiven, S
    <3> QED
      BY <2>4, <3>1
  <2>6. args' \in Seq(S)
    BY <2>3, <2>5
  <2>7. \A k \in DOMAIN args' : args'[k] \in S
    BY <2>6
  <2> QED
    BY <2>7 DEF ArgsGiven, S
<1>4. CASE now.do # "push"
  BY <1>2, <1>4 DEF ArgsGiven
<1> QED
  BY <1>3, <1>4

\* A command obeys its verb.
LEMMA CommandObeys ==
  ASSUME TypeInv, ExecuteStep, NEW w, NEW i \in DOMAIN w, w[i] \in Current, ArgsGiven(w)
  PROVE  Commands(w[i]) /\ Obeyed(w[i], Given(w))
<1>1. \A now, step \in Current : now = step
  BY DEF Current
<1>2. Commands(w[i])
  BY <1>1, CommandStepIs
<1> DEFINE now == w[i]
<1>3. IF now.do = "execute" THEN Execute(now.verb, now.c, args)
                            ELSE Execute(Upper(now.verb), now.c, now.args)
  <2>1. PICK step \in Doing({"execute", "parse"}) :
          IF step.do = "execute" THEN Execute(step.verb, step.c, args)
                                 ELSE Execute(Upper(step.verb), step.c, step.args)
    BY DEF ExecuteStep
  <2>2. step = now
    BY <1>1, <2>1, DoingIs
  <2> QED
    BY <2>1, <2>2
<1>4. now.do \in {"execute", "parse"} /\ now.c \in Clients
  BY <1>2, CurrentStep DEF Commands, TypeInv, WellMade
<1>5. \E verb, list : /\ Execute(verb, now.c, list) /\ IsArgs(list)
                      /\ verb = now.verb \/ verb = "NICK"
                      /\ \A k \in DOMAIN list : list[k] \in Given(w)
  <2>1. CASE now.do = "execute"
    BY <1>3, <2>1 DEF TypeInv, ArgsGiven
  <2>2. CASE now.do = "parse"
    <3>1. Upper(now.verb) = now.verb \/ Upper(now.verb) = "NICK"
      BY DEF Upper
    <3>2. IsArgs(now.args)
      BY <2>2, ArgsOfStep
    <3>3. \A k \in DOMAIN now.args : now.args[k] \in Given(w)
      BY <2>2, GivenBy
    <3> QED
      BY <1>3, <2>2, <3>1, <3>2, <3>3
  <2> QED
    BY <1>4, <2>1, <2>2
<1> HIDE DEF now
<1>6. PICK verb, list : /\ Execute(verb, now.c, list) /\ IsArgs(list)
                        /\ verb = now.verb \/ verb = "NICK"
                        /\ \A k \in DOMAIN list : list[k] \in Given(w)
  BY <1>5
<1>7. PICK r \in Executed(verb, now.c, list) : chan' = r.chan
  BY <1>6 DEF Execute
<1>8. Obeys(chan', verb, now.c, list)
  BY <1>4, <1>6, <1>7, ExecutedObeys DEF TypeInv, IsArgs
<1>9. Obeyed(now, Given(w))
  BY <1>6, <1>8 DEF Obeyed
<1> QED
  BY <1>2, <1>9 DEF now

\* A call of a method of a channel has its effect.
LEMMA ChannelEffect ==
  ASSUME TypeInv, ChannelStep, NEW now \in Current, NEW given
  PROVE  Effect(now, given)
<1>1. \A a, b \in Current : a = b
  BY DEF Current
<1>2. Alters(now) \/ Quiet(now)
  BY <1>1, ChannelStepIs
<1>3. PICK step \in Doing({"channel", "broadcast"}) :
        IF step.do = "channel" THEN chan' = [chan EXCEPT ![step.ch] = Called(@, step.call, step.arg)]
                               ELSE chan' = chan
  BY DEF ChannelStep
<1>4. step = now /\ now.do \in {"channel", "broadcast"} /\ Defined(now)
  BY <1>1, <1>3, DoingIs
<1>5. CASE now.do = "channel"
  <2>1. now.ch \in Channels => chan'[now.ch] = Called(chan[now.ch], now.call, now.arg)
    BY <1>3, <1>4, <1>5 DEF TypeInv, IsChannels
  <2>2. Alters(now)
    <3>1. UNCHANGED <<memory, twice>>
      BY DEF ChannelStep
    <3>2. now.ch \in live
      BY <1>4, <1>5 DEF Defined, Touched, Named, Looks
    <3>3. \A ch \in Channels \ {now.ch} : chan'[ch] = chan[ch]
      BY <1>3, <1>4, <1>5 DEF TypeInv, IsChannels
    <3> QED
      BY <1>5, <3>1, <3>2, <3>3 DEF Alters, memory
  <2> QED
    BY <2>1, <2>2 DEF Effect
<1>6. CASE now.do # "channel"
  BY <1>2, <1>4, <1>6 DEF Effect, Alters, Passed
<1> QED
  BY <1>5, <1>6

\* An assertion after which the body goes on has passed, if it is fatal.
LEMMA LookEffect ==
  ASSUME TypeInv, AssertStep, AtStep', NEW now \in Current, NEW given
  PROVE  Effect(now, given) /\ UNCHANGED received
<1>1. \A a, b \in Current : a = b
  BY DEF Current
<1>2. PICK step \in Doing({"check", "find", "same", "later", "readLine"}) :
        /\ at' = IF ~Holds(step) /\ step.fatal THEN Len(Script) + 1 ELSE at + 1
        /\ UNCHANGED <<received, test, stage>>
  BY Zenon DEF AssertStep
<1>3. step = now /\ now.do \in {"check", "find", "same", "later", "readLine"}
  BY <1>1, <1>2, DoingIs
<1>4. Quiet(now)
  BY <1>1, LookIsQuiet
<1>5. Script' = Script /\ Len(Script) \in Nat
  BY <1>2, ScriptStays, CurrentStep DEF TypeInv
<1>6. Passed(now)
  BY <1>2, <1>3, <1>5 DEF Passed, AtStep
<1> QED
  BY <1>2, <1>3, <1>4, <1>6 DEF Effect

\* So every step of a script has its effect.
LEMMA StepEffect ==
  ASSUME TypeInv, ScriptStep, NEW w, NEW i \in DOMAIN w, w[i] \in Current, ArgsGiven(w),
         AssertStep => AtStep'
  PROVE  /\ Effect(w[i], Given(w)) /\ ArgsGiven(w)'
         /\ w[i].do = "check" => UNCHANGED received
<1>1. \A now, step \in Current : now = step
  BY DEF Current
<1>2. ArgsGiven(w)'
  <2>1. args' = args \/ ArgsStep
    BY GoesOn DEF ScriptStep
  <2>2. args' = args => ArgsGiven(w)'
    BY DEF ArgsGiven
  <2> QED
    BY <2>1, <2>2, ArgsNext
<1>3. CASE NewStep \/ AddStep \/ DeleteStep \/ ResetStep \/ GetInstanceStep
  <2>1. Busy(w[i])
    BY <1>1, <1>3, MemoryStepIs
  <2>2. \E step \in Current : step.do \in Memory
    BY <1>3, DoingIs DEF NewStep, AddStep, DeleteStep, ResetStep, GetInstanceStep, Memory
  <2>3. w[i].do \in Memory
    BY <1>1, <2>2
  <2> QED
    BY <1>2, <2>1, <2>3 DEF Busy, Effect, Memory, Commands, Removes, Alters
<1>4. CASE ArgsStep \/ ClientStep \/ BufferStep \/ KeepStep
  <2>1. Quiet(w[i])
    BY <1>1, <1>4, QuietKinds
  <2>2. \E step \in Current : step.do \notin {"channel", "check"}
    <3>1. CASE ArgsStep
      <4>1. PICK step \in Doing({"clearArgs", "push"}) : Advance
        BY <3>1, Zenon DEF ArgsStep
      <4> QED
        BY <4>1, DoingIs
    <3>2. CASE ClientStep
      <4>1. PICK step \in Doing({"client", "link", "unlink", "age", "clear"}) : Advance
        BY <3>2, Zenon DEF ClientStep
      <4> QED
        BY <4>1, DoingIs
    <3>3. CASE BufferStep
      <4>1. PICK step \in Doing({"append", "appendToSend", "removeSent"}) : Advance
        BY <3>3, Zenon DEF BufferStep
      <4> QED
        BY <4>1, DoingIs
    <3>4. CASE KeepStep
      <4>1. PICK step \in Doing({"keep"}) : Advance
        BY <3>4, Zenon DEF KeepStep
      <4> QED
        BY <4>1, DoingIs
    <3> QED
      BY <1>4, <3>1, <3>2, <3>3, <3>4
  <2>3. w[i].do \notin {"channel", "check"}
    BY <1>1, <2>2
  <2> QED
    BY <1>2, <2>1, <2>3 DEF Effect, Passed
<1>5. CASE ExecuteStep
  <2>1. Commands(w[i]) /\ Obeyed(w[i], Given(w))
    BY <1>5, CommandObeys
  <2> QED
    BY <1>2, <2>1 DEF Effect, Commands
<1>6. CASE RemoveClientStep
  <2>1. Removes(w[i])
    BY <1>1, <1>6, RemoveStepIs
  <2> QED
    BY <1>2, <2>1 DEF Effect, Removes
<1>7. CASE ChannelStep
  <2>1. \E step \in Current : step.do # "check"
    BY <1>7, DoingIs DEF ChannelStep
  <2> QED
    BY <1>1, <1>2, <1>7, <2>1, ChannelEffect
<1>8. CASE AssertStep
  BY <1>2, <1>8, LookEffect
<1> QED
  BY <1>3, <1>4, <1>5, <1>6, <1>7, <1>8 DEF ScriptStep

-----------------------------------------------------------------------------
(* The two records of who is in a channel *)

\* No object is made that is there, and no channel has members that is not.
LEMMA NewIsUnmade ==
  ASSUME MemoryInv, [Next]_vars, NEW now \in Current, Makes(now), at' = at + 1
  PROVE  /\ now.objs \cap Owned \cap live = {}
         /\ \A ch \in Channels : chan[ch].members # {} => ch \in live
<1>0. TypeOK /\ now.do = "new" /\ at \in Nat /\ now = Script[at] /\ at <= Len(Script)
  BY CurrentStep DEF MemoryInv, TypeInv, Makes, TypeOK
<1>1. CASE Plain
  <2>1. "client" \notin Owned
    BY ObjectsAssumption DEF Owned, FixtureObjects
  <2> QED
    BY <1>1, <2>1 DEF MemoryInv, PlainInv, Empty
<1>2. CASE SettingUp
  <2>1. ~ UNCHANGED <<mem, test, stage, at>>
    BY <1>0
  <2>2. at \in 1 .. 7 /\ \E step \in Current : NextSetUp(step)
    BY <1>2, <2>1, SettingUpStep
  <2>3. NextSetUp(now)
    BY <1>0, <2>2, CurrentStep
  <2>4. at \in {3, 5, 6, 7} /\ (at # 3 => now.objs \in {fixture.own, fixture.extra})
    BY <1>0, <2>2, <2>3 DEF NextSetUp, Gets, Adds, Quiet, Resets, Memory
  <2>5. fixture.own \cap Owned = {} /\ fixture.extra \cap Owned = {}
    BY <1>0, <1>2, OnFixtureIs, Apart DEF SettingUp
  <2>6. at = 3 => live = {}
    BY <1>2 DEF MemoryInv, SettingUpInv
  <2> QED
    BY <1>2, <2>4, <2>5, <2>6 DEF MemoryInv, SettingUpInv, Empty
<1>3. CASE Acting
  <2>1. at \in DOMAIN Script
    BY <1>0, <1>3, OnFixtureIs DEF Acting
  <2>2. Unmade(Script, at)
    BY <1>3 DEF MemoryInv, ActingInv
  <2>3. now.objs \cap live = {}
    BY <1>0, <2>1, <2>2 DEF Unmade
  <2>4. \A ch \in Channels : chan[ch].members # {} => ch \in live
    BY <1>3 DEF MemoryInv, ActingInv
  <2> QED
    BY <2>3, <2>4
<1>4. CASE TakingDown
  <2>1. ~ UNCHANGED <<mem, test, stage, at>> /\ ~EndTest
    BY <1>0 DEF EndTest, AtStep
  <2> DEFINE last == IF fixture.extra = {} THEN 1 ELSE 2
  <2>2. at \in 1 .. last + 1 /\ \E step \in Current : NextTearDown(step)
    BY <1>4, <2>1, TakingDownStep
  <2>3. NextTearDown(now)
    BY <1>0, <2>2, CurrentStep
  <2> QED
    BY <1>0, <2>2, <2>3 DEF NextTearDown, Deletes, Resets
<1>5. CASE stage \in {"idle", "crashed"}
  BY <1>0, <1>5, NoStep
<1> QED
  BY <1>0, <1>1, <1>2, <1>3, <1>4, <1>5, StageOf

\* link and unlink change one entry of one client's record, the other setters none.
LEMMA Linked ==
  ASSUME TypeInv, ClientStep, NEW now \in Current
  PROVE  /\ UNCHANGED <<live, chan, fault>>
         /\ now.do \in {"client", "link", "unlink", "age", "clear"}
         /\ \A d \in Clients :
              /\ now.do = "link" /\ now.c = d =>
                   client'[d].channels = client[d].channels \cup {now.ch}
              /\ now.do = "unlink" /\ now.c = d =>
                   client'[d].channels = client[d].channels \ {now.ch}
              /\ now.do \notin {"link", "unlink"} \/ now.c # d =>
                   client'[d].channels = client[d].channels
         /\ now.do = "link" => now.c \in live
<1>1. \A a, b \in Current : a = b
  BY DEF Current
<1>2. PICK step \in Doing({"client", "link", "unlink", "age", "clear"}) :
        /\ client' =
             CASE step.do = "client" -> [client EXCEPT ![step.c] = With(@, step.with)]
               [] step.do = "link"   -> [client EXCEPT ![step.c].channels = @ \cup {step.ch}]
               [] step.do = "unlink" -> [client EXCEPT ![step.c].channels = @ \ {step.ch}]
               [] step.do = "age"    -> [client EXCEPT ![step.c].last = clock - 10]
               [] OTHER              -> client
        /\ UNCHANGED <<memory, chan, fault>>
  BY DEF ClientStep
<1>3. step = now /\ now.do \in {"client", "link", "unlink", "age", "clear"} /\ Defined(now)
  BY <1>1, <1>2, DoingIs
<1>4. /\ DOMAIN client = Clients
      /\ \A d \in Clients : "channels" \in DOMAIN client[d]
  BY DEF TypeInv, IsClients
<1>5. now.do = "client" => "channels" \notin DOMAIN now.with
  BY CurrentStep DEF TypeInv, WellMade
<1>6. now.do = "link" => now.c \in live
  BY <1>3 DEF Defined, Touched, Named, Looks
<1>7. CASE now.do = "client"
  <2> DEFINE new == With(client[now.c], now.with)
  <2>1. now.c \in Clients => new.channels = client[now.c].channels
    BY <1>4, <1>5, <1>7 DEF With
  <2> HIDE DEF new
  <2>2. client' = [client EXCEPT ![now.c] = new]
    BY <1>2, <1>3, <1>7 DEF new
  <2> QED
    BY <1>2, <1>3, <1>4, <1>7, <2>1, <2>2 DEF memory
<1>8. CASE now.do = "link"
  BY <1>2, <1>3, <1>4, <1>6, <1>8 DEF memory
<1>9. CASE now.do = "unlink"
  BY <1>2, <1>3, <1>4, <1>9 DEF memory
<1>10. CASE now.do = "age"
  BY <1>2, <1>3, <1>4, <1>10 DEF memory
<1>11. CASE now.do = "clear"
  BY <1>2, <1>3, <1>4, <1>11 DEF memory
<1> QED
  BY <1>3, <1>7, <1>8, <1>9, <1>10, <1>11

\* A command leaves the records it does not follow up, and lets only its sender in.
LEMMA CommandFollows ==
  ASSUME TypeInv, ExecuteStep
  PROVE  /\ fault' = fault /\ live \cap Clients \subseteq live'
         /\ \A d \in Clients, ch \in Channels :
              /\ (d \in chan'[ch].members) = (d \in chan[ch].members) =>
                   (ch \in client'[d].channels) = (ch \in client[d].channels)
              /\ d \notin chan'[ch].members /\ ch \in client'[d].channels =>
                   ch \in client[d].channels
              /\ fault = "none" /\ (d \in chan'[ch].members) # (d \in chan[ch].members) =>
                   (ch \in client'[d].channels) = (d \in chan'[ch].members)
              /\ d \in chan'[ch].members /\ d \notin chan[ch].members => d \in live
<1>1. PICK now \in Doing({"execute", "parse"}) :
        /\ IF now.do = "execute" THEN Execute(now.verb, now.c, args)
                                 ELSE Execute(Upper(now.verb), now.c, now.args)
        /\ fault' = fault
  BY DEF ExecuteStep
<1>2. now \in Current /\ now.do \in {"execute", "parse"} /\ Defined(now) /\ now.c \in Clients
  BY DoingIs, CurrentStep DEF TypeInv, WellMade
<1>3. now.c \in live
  BY <1>2 DEF Defined, Touched, Named, Looks
<1>4. now.do = "parse" => IsArgs(now.args)
  BY <1>2, ArgsOfStep
<1>5. PICK verb, list : Execute(verb, now.c, list) /\ IsArgs(list)
  BY <1>1, <1>2, <1>4 DEF TypeInv
<1>6. PICK r \in Executed(verb, now.c, list) :
        /\ chan' = r.chan /\ client' = r.client
        /\ \E made, emptied \in SUBSET Channels : live' = (live \cup made) \ emptied
  BY <1>5 DEF Execute
<1>7. Follows(r) /\ Obeys(chan', verb, now.c, list)
  BY <1>2, <1>5, <1>6, ExecutedIs, ExecutedObeys DEF TypeInv, IsArgs
<1>8. live \cap Clients \subseteq live'
  BY <1>6, KindsApart
<1>9. \A ch \in Channels : chan'[ch].members \subseteq chan[ch].members \cup {now.c}
  BY <1>7, Zenon DEF Obeys
<1> QED
  BY <1>1, <1>3, <1>6, <1>7, <1>8, <1>9 DEF Follows

\* removeClient takes its client out of every channel, if the server does as it
\* should, and deletes its record.
LEMMA RemovedFollows ==
  ASSUME TypeInv, RemoveClientStep, NEW d \in Clients, NEW ch \in Channels
  PROVE  /\ ch \in client'[d].channels => ch \in client[d].channels /\ (d \in live => d \in live')
         /\ fault = "none" /\ Agree(d, ch) => Agree(d, ch)'
<1>1. PICK now \in Doing({"removeClient"}) : removeClient(now.c)
  BY DEF RemoveClientStep
<1>2. IsChannel(chan[ch]) /\ DOMAIN client = Clients
  BY DEF TypeInv, IsChannels, IsClients
<1>3. /\ client' = [client EXCEPT ![now.c] = NewClient] /\ live' = live \ {now.c}
      /\ chan'[ch] = IF now.c \in chan[ch].members /\ ~Has("removed_stays")
                       THEN Without(chan[ch], now.c) ELSE chan[ch]
  BY <1>1 DEF removeClient
<1>4. fault = "none" => ~Has("removed_stays")
  BY DEF Has
<1>5. Without(chan[ch], now.c).members = chan[ch].members \ {now.c}
  <2>1. "members" \in DOMAIN chan[ch] /\ "ops" \in DOMAIN chan[ch]
    BY <1>2, Zenon DEF IsChannel, NoChannel
  <2> QED
    BY <2>1, NewIsTyped DEF Without
<1>6. NewClient.channels = {}
  BY NewIsTyped
<1> QED
  BY <1>2, <1>3, <1>4, <1>5, <1>6 DEF Agree

\* A step that makes or changes no record of this client and channel, or changes
\* both, leaves them in agreement.
LEMMA StaysAgreed ==
  ASSUME MemoryInv, Records, Unended, [Next]_vars, ScriptStep, at' = at + 1, fault = "none",
         NEW w, NEW i \in DOMAIN w, w[i] \in Current, Effect(w[i], Given(w)),
         NEW c \in Clients, NEW ch \in Channels, i \notin Recordings(w, c, ch), Agree(c, ch)
  PROVE  Agree(c, ch)'
<1>1. TypeInv /\ WellMade(w[i]) /\ \A now, step \in Current : now = step
  BY CurrentStep DEF MemoryInv, TypeInv, Current
<1>2. CASE NewStep
  <2>1. PICK now \in Doing({"new"}) :
          client' = [d \in Clients |-> IF d \in now.objs THEN [NewClient EXCEPT !.last = clock]
                                                         ELSE client[d]]
    BY <1>2 DEF NewStep
  <2>2. now = w[i] /\ now.do = "new"
    BY <1>1, <2>1, DoingIs
  <2>3. Makes(now)
    BY <2>2 DEF Effect, Adds, Deletes, Resets, Gets, Commands, Removes, Alters, Quiet, Memory
  <2>4. now.objs \cap Owned \cap live = {} /\ (chan[ch].members # {} => ch \in live)
    BY <2>2, <2>3, NewIsUnmade
  <2>5. ch \in now.objs => chan[ch].members = {}
    BY <2>4 DEF Owned
  <2>6. c \in now.objs => client[c].channels = {}
    BY <2>4 DEF Owned, Records
  <2>7. chan'[ch].members = chan[ch].members
    BY <2>3, <2>5, NewIsTyped DEF Makes
  <2>8. client'[c].channels = client[c].channels
    <3>1. [NewClient EXCEPT !.last = clock].channels = {}
      BY NewIsTyped
    <3> QED
      BY <2>1, <2>6, <3>1
  <2> QED
    BY <2>7, <2>8 DEF Agree
<1>3. CASE DeleteStep
  <2>1. w[i].do = "delete"
    BY <1>1, <1>3, DoingIs DEF DeleteStep
  <2> QED
    BY <2>1 DEF Recordings, Kind
<1>4. CASE ResetStep
  <2>1. PICK now \in Doing({"reset"}) : Deleted(listed)
    BY <1>4 DEF ResetStep
  <2>2. now = w[i] /\ now.do = "reset"
    BY <1>1, <2>1, DoingIs
  <2>3. Resets(w[i])
    BY <2>2 DEF Effect, Makes, Adds, Deletes, Gets, Commands, Removes, Alters, Quiet, Memory
  <2>4. listed = {}
    BY <2>3, ResetIsFirst
  <2>5. chan'[ch] = chan[ch] /\ client'[c] = client[c]
    BY <2>1, <2>4 DEF Deleted
  <2> QED
    BY <2>5 DEF Agree
<1>5. CASE ExecuteStep
  BY <1>1, <1>5, CommandFollows DEF Agree
<1>6. CASE RemoveClientStep
  BY <1>1, <1>6, RemovedFollows
<1>7. CASE ClientStep
  <2>1. ~(w[i].do \in {"link", "unlink"} /\ w[i].c = c /\ w[i].ch = ch)
    BY DEF Recordings, Kind
  <2>2. chan' = chan /\ (ch \in client'[c].channels) = (ch \in client[c].channels)
    BY <1>1, <1>7, <2>1, Linked
  <2> QED
    BY <2>2 DEF Agree
<1>8. CASE ChannelStep
  <2>1. client' = client
    BY <1>8 DEF ChannelStep
  <2>2. (c \in chan'[ch].members) = (c \in chan[ch].members)
    <3>1. Alters(w[i]) \/ Quiet(w[i])
      BY <1>1, <1>8, ChannelStepIs
    <3>2. CASE Quiet(w[i])
      BY <3>2 DEF Quiet, mem
    <3>3. CASE Alters(w[i])
      <4>1. w[i].ch \in Channels => chan'[w[i].ch] = Called(chan[w[i].ch], w[i].call, w[i].arg)
        BY <3>3 DEF Alters, Effect, Makes, Adds, Deletes, Resets, Gets, Commands, Removes
      <4>2. ~(w[i].ch = ch /\ w[i].call \in {"addMember", "removeMember"} /\ w[i].arg = c)
        BY <3>3 DEF Alters, Recordings, CallsOf, Kind
      <4> QED
        BY <1>1, <3>3, <4>1, <4>2, AltersMembers
    <3> QED
      BY <3>1, <3>2, <3>3
  <2> QED
    BY <2>1, <2>2 DEF Agree
<1>9. CASE AddStep \/ GetInstanceStep
  BY <1>9 DEF AddStep, GetInstanceStep, objects, Agree
<1>10. CASE ArgsStep \/ BufferStep \/ KeepStep \/ AssertStep
  <2>1. UNCHANGED <<chan, client>>
    BY <1>10, Zenon DEF ArgsStep, BufferStep, KeepStep, AssertStep, memory, objects
  <2> QED
    BY <2>1 DEF Agree
<1> QED
  BY <1>2, <1>3, <1>4, <1>5, <1>6, <1>7, <1>8, <1>9, <1>10 DEF ScriptStep

\* Next, where the records are complete they agree.
LEMMA AgreeNext ==
  ASSUME MemoryInv, Records, Unended, [Next]_vars, ScriptStep, at' = at + 1,
         NEW w, IsList(w), NEW i \in DOMAIN w, w[i] \in Current, Effect(w[i], Given(w)),
         MemberTrue(w, i), AbsentTrue(w, i), AgreeTrue(w, i)
  PROVE  AgreeTrue(w, i + 1)'
<1>1. TypeInv /\ i \in Nat /\ i + 1 \in Nat /\ fault' = fault
  BY Places, GoesOn DEF MemoryInv, ScriptStep
<1> SUFFICES ASSUME fault = "none", NEW c \in Clients, NEW ch \in Channels,
                    SureAgrees(w, i + 1, c, ch)
             PROVE  Agree(c, ch)'
  BY <1>1 DEF AgreeTrue
<1> DEFINE rec  == Recordings(w, c, ch)
           done == Completions(w, c, ch)
<1>2. rec \subseteq Nat /\ done \subseteq Nat
  BY Places
<1>3. CASE i \in done
  <2>1. /\ w[i].do \in {"link", "unlink"} /\ w[i].c = c /\ w[i].ch = ch
        /\ w[i].do = "link" => c \in chan[ch].members
        /\ w[i].do = "unlink" => c \notin chan[ch].members
    BY <1>3 DEF Completions, Kind, MemberTrue, AbsentTrue
  <2>2. ClientStep
    <3>1. \A now, step \in Current : now = step
      BY DEF Current
    <3>2. PICK now \in Current : now.do \in {"link", "unlink"}
      BY <2>1
    <3>3. ~ExecuteStep /\ ~RemoveClientStep /\ ~ChannelStep
      BY <3>1, <3>2, DoingIs DEF ExecuteStep, RemoveClientStep, ChannelStep
    <3>4. ~NewStep /\ ~AddStep /\ ~DeleteStep /\ ~ResetStep /\ ~GetInstanceStep
      BY <3>1, <3>2, DoingIs DEF NewStep, AddStep, DeleteStep, ResetStep, GetInstanceStep
    <3>5. /\ Doing({"clearArgs", "push"}) = {} /\ Doing({"keep"}) = {}
          /\ Doing({"append", "appendToSend", "removeSent"}) = {}
          /\ Doing({"check", "find", "same", "later", "readLine"}) = {}
      BY <3>1, <3>2 DEF Doing
    <3>6. ~ArgsStep /\ ~BufferStep /\ ~KeepStep /\ ~AssertStep
      BY <3>5, Zenon DEF ArgsStep, BufferStep, KeepStep, AssertStep
    <3> QED
      BY <3>3, <3>4, <3>6 DEF ScriptStep
  <2> QED
    BY <1>1, <2>1, <2>2, Linked DEF Agree
<1>4. CASE i \notin done
  <2>1. \A k \in rec \ done : k < i + 1 => \E j \in done : k < j /\ j < i + 1
    BY DEF SureAgrees
  <2> HIDE DEF rec, done
  <2>2. i \notin rec
    BY <1>1, <1>2, <1>4, <2>1
  <2>3. \A k \in rec \ done : k < i => \E j \in done : k < j /\ j < i
    BY <1>1, <1>2, <1>4, <2>1
  <2>4. Agree(c, ch)
    BY <2>3 DEF SureAgrees, AgreeTrue, rec, done
  <2> QED
    BY <2>2, <2>4, StaysAgreed DEF rec
<1> QED
  BY <1>3, <1>4

\* Every step of a script keeps it so that only who is there records channels.
LEMMA ScriptRecords ==
  ASSUME TypeInv, Records, ScriptStep
  PROVE  Records'
<1> SUFFICES ASSUME NEW d \in Clients, NEW ch, ch \in client'[d].channels
             PROVE  d \in live'
  BY DEF Records
<1>1. NewClient.channels = {} /\ \A n : [NewClient EXCEPT !.last = n].channels = {}
  BY NewIsTyped
<1>2. CASE NewStep
  <2>1. PICK now \in Doing({"new"}) :
          /\ live' = live \cup now.objs
          /\ client' = [c \in Clients |-> IF c \in now.objs THEN [NewClient EXCEPT !.last = clock]
                                                            ELSE client[c]]
    BY <1>2 DEF NewStep
  <2> QED
    BY <2>1 DEF Records
<1>3. CASE DeleteStep \/ ResetStep
  <2>1. PICK S : Deleted(S)
    BY <1>3 DEF DeleteStep, ResetStep
  <2>2. d \notin S /\ client'[d] = client[d] /\ live' = live \ S
    BY <1>1, <2>1 DEF Deleted
  <2> QED
    BY <2>2 DEF Records
<1>4. ch \in Channels \/ ~(ExecuteStep \/ RemoveClientStep)
  <2>1. ExecuteStep \/ RemoveClientStep => IsClients(client')
    BY CommandObjectsTyped, RemovedObjects DEF ObjectTypes
  <2> QED
    BY <2>1 DEF IsClients
<1>5. CASE ExecuteStep
  <2>1. ch \in client[d].channels \/ d \in live
    BY <1>4, <1>5, CommandFollows
  <2> QED
    BY <1>5, <2>1, CommandFollows DEF Records
<1>6. CASE RemoveClientStep
  BY <1>4, <1>6, RemovedFollows DEF Records
<1>7. CASE ClientStep
  <2>1. Current # {}
    BY <1>7, DoingIs DEF ClientStep
  <2> QED
    BY <1>7, <2>1, Linked DEF Records
<1>8. CASE AddStep \/ GetInstanceStep \/ ChannelStep
  BY <1>8 DEF AddStep, GetInstanceStep, ChannelStep, objects, memory, Records
<1>9. CASE ArgsStep \/ BufferStep \/ KeepStep \/ AssertStep
  <2>1. UNCHANGED <<live, client>>
    BY <1>9, Zenon DEF ArgsStep, BufferStep, KeepStep, AssertStep, memory, objects
  <2> QED
    BY <2>1 DEF Records
<1> QED
  BY <1>2, <1>3, <1>5, <1>6, <1>7, <1>8, <1>9 DEF ScriptStep

\* Every step of a script but an assertion goes on to the next.
LEMMA Advances ==
  ASSUME TypeInv, ScriptStep, ~AssertStep
  PROVE  at' = at + 1
<1>1. CASE NewStep \/ AddStep \/ DeleteStep \/ ResetStep \/ GetInstanceStep
  BY <1>1 DEF NewStep, AddStep, DeleteStep, ResetStep, GetInstanceStep, Advance
<1>2. CASE ArgsStep \/ ClientStep \/ BufferStep \/ KeepStep
  BY <1>2, Zenon DEF ArgsStep, ClientStep, BufferStep, KeepStep, Advance
<1>3. CASE ExecuteStep \/ RemoveClientStep \/ ChannelStep
  BY <1>3 DEF ExecuteStep, RemoveClientStep, ChannelStep, Advance
<1> QED
  BY <1>1, <1>2, <1>3 DEF ScriptStep

\* A guarded step, where all that is sure is true, is defined.
LEMMA GuardedIsDefined ==
  ASSUME NEW w, NEW i \in DOMAIN w, GuardedStep(w, i), AllTrue(w, i), Boxes
  PROVE  Defined(w[i])
<1>1. \A o \in Named(w[i]) : o \in live /\ o \notin freed
  BY DEF GuardedStep, AllTrue, AliveTrue
<1>2. w[i].do = "broadcast" => \A c \in chan[w[i].ch].members : c \in live /\ c \notin freed
  BY DEF GuardedStep, AllTrue, MembersTrue
<1>3. Touched(w[i]) \subseteq live \ freed
  BY <1>1, <1>2 DEF Touched
<1>4. ~PastEnd(w[i])
  <2> SUFFICES ASSUME PastEnd(w[i])
               PROVE  FALSE
    OBVIOUS
  <2> DEFINE step == w[i]
             n    == Index(step)
  <2>1. step.do \in Looks /\ step.see \in {"message", "digit", "channelsOf"}
        /\ n > Len(received[step.of[1]])
    BY DEF PastEnd, Index
  <2>2. step.of[1] \in Clients /\ n \in Nat /\ SureCount(w, i, step.of[1], n)
    BY <2>1 DEF GuardedStep
  <2> HIDE DEF step, n
  <2>3. Len(received[step.of[1]]) >= n
    BY <2>2 DEF AllTrue, CountTrue
  <2>4. Len(received[step.of[1]]) \in Nat
    BY <2>2, ListLength DEF Boxes
  <2> QED
    BY <2>1, <2>2, <2>3, <2>4
<1> QED
  BY <1>3, <1>4 DEF Defined

\* At the first step nothing is sure, and all of it true; the records agree there.
LEMMA FirstIsTrue ==
  ASSUME NEW w, IsList(w), \A c \in Clients, ch \in Channels : Agree(c, ch)'
  PROVE  AllTrue(w, 1)'
<1>1. \A S : S \subseteq DOMAIN w => S \in SUBSET (Nat \ {0})
  BY Places
<1>2. \A S, T : S \subseteq DOMAIN w => ~Since(1, S, T)
  BY <1>1, SinceFirst
<1>3. \A o : ~SureAlive(w, 1, o)
  <2>1. \A o : News(w, o) \subseteq DOMAIN w /\ News(w, o) \cup Findings(w, o) \subseteq DOMAIN w
    BY Places
  <2> QED
    BY <1>2, <2>1 DEF SureAlive
<1>4. \A ch, c : ~SureMember(w, 1, ch, c)
  <2>1. \A ch, c : {j \in CallsOf(w, ch, "addMember") : w[j].arg = c} \subseteq DOMAIN w
    BY Places
  <2> QED
    BY <1>2, <2>1 DEF SureMember
<1>5. \A c, n : ~SureCount(w, 1, c, n)
  BY <1>2, Places DEF SureCount
<1>6. ~Untaken(w, 1) /\ ~Firsts(w, 1) /\ ~SureMembers(w, 1)
  BY <1>2, Places DEF Untaken, Firsts, SureMembers
<1>7. \A ch, c : ~SureAbsent(w, 1, ch, c)
  <2>1. \A ch, c : {j \in CallsOf(w, ch, "removeMember") : w[j].arg = c} \subseteq DOMAIN w
    BY Places
  <2> QED
    BY <1>2, <2>1 DEF SureAbsent
<1> QED
  BY <1>3, <1>4, <1>5, <1>6, <1>7 DEF AllTrue, AliveTrue, MemberTrue, AbsentTrue, CountTrue,
     UntakenTrue, FirstsTrue, MembersTrue, AgreeTrue

\* What is true stays so if nothing of it changes.
LEMMA StaysTrue ==
  ASSUME NEW w, NEW i, AllTrue(w, i),
         UNCHANGED <<fault, live, freed, listed, chan, client, received>>
  PROVE  AllTrue(w, i)'
<1>1. AliveTrue(w, i)' /\ MemberTrue(w, i)' /\ AbsentTrue(w, i)' /\ CountTrue(w, i)'
  BY DEF AllTrue, AliveTrue, MemberTrue, AbsentTrue, CountTrue
<1>2. UntakenTrue(w, i)' /\ FirstsTrue(w, i)' /\ MembersTrue(w, i)'
  BY DEF AllTrue, UntakenTrue, FirstsTrue, MembersTrue
<1>3. AgreeTrue(w, i)'
  BY DEF AllTrue, AgreeTrue, Agree
<1> QED
  BY <1>1, <1>2, <1>3 DEF AllTrue

\* What a test does is defined.
LEMMA ScriptDefined ==
  ASSUME ScriptStep
  PROVE  \A now \in Current : Defined(now)
<1>1. \A a, b \in Current : a = b
  BY DEF Current
<1> SUFFICES \E kinds : Doing(kinds) # {}
  BY <1>1, DoingIs
<1>2. CASE NewStep \/ AddStep \/ DeleteStep \/ ResetStep \/ GetInstanceStep
  BY <1>2 DEF NewStep, AddStep, DeleteStep, ResetStep, GetInstanceStep
<1>3. CASE ExecuteStep \/ RemoveClientStep \/ ClientStep \/ ChannelStep
  BY <1>3 DEF ExecuteStep, RemoveClientStep, ClientStep, ChannelStep
<1>4. CASE ArgsStep \/ BufferStep \/ KeepStep \/ AssertStep
  BY <1>4, Zenon DEF ArgsStep, BufferStep, KeepStep, AssertStep
<1> QED
  BY <1>2, <1>3, <1>4 DEF ScriptStep

\* What is true at a step makes what is sure at the next one true.
LEMMA NextIsTrue ==
  ASSUME MemoryInv, Boxes, Records, Unended, [Next]_vars, ScriptStep, at' = at + 1,
         AssertStep => AtStep', NEW w, IsList(w), NEW i \in DOMAIN w, w[i] \in Current,
         ArgsGiven(w), AllTrue(w, i)
  PROVE  AllTrue(w, i + 1)'
<1>1. TypeInv /\ stage # "crashed" /\ WellMade(w[i])
  BY CurrentStep DEF MemoryInv, TypeInv, Unended
<1>2. /\ Effect(w[i], Given(w))
      /\ w[i].do = "check" => UNCHANGED received
  BY <1>1, StepEffect
<1>3. Boxes' /\ Heard(w[i])
  BY <1>1, BoxesNext
<1>4. ResetsFirst(w[i])
  BY ResetIsFirst DEF ResetsFirst
<1>5. Commands(w[i]) => \A ch \in Channels : chan[ch].members # {} => ch \in listed
  BY CommandsListed
<1>6. Commands(w[i]) => w[i].c \in live /\ w[i].c \notin freed
  <2>1. Defined(w[i])
    BY ScriptDefined
  <2> QED
    BY <2>1 DEF Commands, Defined, Touched, Named, Looks
<1>7. /\ AliveTrue(w, i) /\ MemberTrue(w, i) /\ AbsentTrue(w, i) /\ CountTrue(w, i)
      /\ UntakenTrue(w, i) /\ FirstsTrue(w, i) /\ MembersTrue(w, i) /\ AgreeTrue(w, i)
  BY DEF AllTrue
<1>8. AliveTrue(w, i + 1)' /\ MemberTrue(w, i + 1)' /\ AbsentTrue(w, i + 1)' /\ CountTrue(w, i + 1)'
  BY <1>1, <1>2, <1>3, <1>7, AliveNext, MemberNext, AbsentNext, CountNext
<1>9. UntakenTrue(w, i + 1)' /\ FirstsTrue(w, i + 1)' /\ MembersTrue(w, i + 1)'
  BY <1>1, <1>2, <1>4, <1>5, <1>6, <1>7, UntakenNext, FirstsNext, MembersNext
<1>10. AgreeTrue(w, i + 1)'
  BY <1>2, <1>7, AgreeNext
<1> QED
  BY <1>8, <1>9, <1>10 DEF AllTrue

-----------------------------------------------------------------------------
(* The invariant holds *)

\* A test that is not over is at a step of its whole script.
LEMMA AtPlace ==
  ASSUME TypeInv, Unended, Current # {}
  PROVE  \E t \in Tests : \E i \in DOMAIN Whole(Suite[t]) :
           /\ test = t /\ i = Place /\ i \in Nat /\ IsList(Whole(Suite[t]))
           /\ Current = {Whole(Suite[t])[i]} /\ AtStep
<1>1. AtStep /\ test \in Tests
  BY CurrentStep DEF AtStep, TypeInv
<1>2. /\ IsList(Whole(Suite[test])) /\ Place \in Nat /\ Place \in DOMAIN Whole(Suite[test])
      /\ Current = {Whole(Suite[test])[Place]}
  BY <1>1, PlaceIs DEF TypeInv
<1> QED
  BY <1>1, <1>2

\* SetUp makes no assertions.
LEMMA NoLooksInSetUp ==
  ASSUME TypeInv, stage = "SetUp"
  PROVE  ~AssertStep
<1> SUFFICES ASSUME AssertStep
             PROVE  FALSE
  OBVIOUS
<1>1. PICK now \in Current : now.do \in {"check", "find", "same", "later", "readLine"}
  <2>1. PICK now \in Doing({"check", "find", "same", "later", "readLine"}) :
          failed' = (failed \/ ~Holds(now))
    BY Zenon DEF AssertStep
  <2> QED
    BY <2>1, DoingIs
<1>2. test \in Tests /\ Script = Suite[test].fixture.setup
  BY <1>1, CurrentStep, ScriptIs DEF TypeInv
<1>3. now.do \in Looks \cup {"readLine"} /\ \E i \in DOMAIN Script : now = Script[i]
  BY <1>1 DEF Current, Looks
<1> QED
  BY <1>2, <1>3, SuiteAssumption DEF WellFormed

\* TearDown follows no pointer.
LEMMA TearDownDefined ==
  ASSUME MemoryInv, stage = "TearDown", [Next]_vars
  PROVE  ~WildStep
<1> SUFFICES ASSUME WildStep
             PROVE  FALSE
  OBVIOUS
<1>1. PICK now \in Current : ~Defined(now) /\ (stage' = "crashed" \/ at' = at + 1)
  BY Zenon DEF WildStep, Advance
<1>2. TypeOK /\ at \in Nat /\ AtStep
  BY <1>1, CurrentStep DEF MemoryInv, TypeInv, TypeOK, AtStep
<1>3. now.do \in {"delete", "reset"}
  <2>1. CASE Plain
    <3>1. now = Script[at] /\ Script = fixture.teardown /\ at <= Len(Script)
          /\ at \in 1 .. Len(Script) + 1 /\ Len(Script) \in Nat
      BY <1>1, <1>2, <2>1, CurrentStep, PlainIs DEF MemoryInv, TypeInv
    <3>2. fixture.teardown # <<>>
      <4>1. Len(<<>>) = 0
        OBVIOUS
      <4> QED
        BY <3>1, <4>1
    <3>3. Len(fixture.teardown) = 1 /\ fixture.teardown[1].do = "delete"
      BY <1>2, <2>1, <3>2, PlainIs
    <3> QED
      BY <3>1, <3>3
  <2>2. CASE TakingDown
    <3>1. ~ UNCHANGED <<mem, test, stage, at>> /\ ~EndTest
      BY <1>1, <1>2 DEF EndTest
    <3> DEFINE last == IF fixture.extra = {} THEN 1 ELSE 2
    <3>2. at \in 1 .. last + 1 /\ \E step \in Current : NextTearDown(step)
      BY <2>2, <3>1, TakingDownStep
    <3>3. NextTearDown(now)
      BY <1>1, <3>2, CurrentStep DEF MemoryInv, TypeInv
    <3> QED
      BY <3>2, <3>3 DEF NextTearDown, Deletes, Resets
  <2> QED
    BY <1>2, <2>1, <2>2, StageOf DEF SettingUp, Acting
<1>4. Defined(now)
  BY <1>3 DEF Defined, Touched, Named, PastEnd, Looks
<1> QED
  BY <1>1, <1>4

\* A test goes astray at a step that is not guarded.
LEMMA WildIsUnguarded ==
  ASSUME AccessInv, [Next]_vars, WildStep, ~wild
  PROVE  \E t \in Tests : test = t /\ Unended
           /\ Place \in DOMAIN Whole(Suite[t]) /\ ~GuardedStep(Whole(Suite[t]), Place)
<1>1. PICK now \in Current : ~Defined(now)
  BY Zenon DEF WildStep
<1>2. TypeInv /\ TypeOK /\ Boxes
  BY DEF AccessInv, MemoryInv, TypeInv
<1>3. CASE Unended
  <2>1. PICK t \in Tests : \E i \in DOMAIN Whole(Suite[t]) :
           /\ test = t /\ i = Place /\ i \in Nat /\ IsList(Whole(Suite[t]))
           /\ Current = {Whole(Suite[t])[i]} /\ AtStep
    BY <1>1, <1>2, <1>3, AtPlace
  <2>2. PICK i \in DOMAIN Whole(Suite[t]) :
           /\ test = t /\ i = Place /\ i \in Nat /\ IsList(Whole(Suite[t]))
           /\ Current = {Whole(Suite[t])[i]} /\ AtStep
    BY <2>1
  <2>3. AllTrue(Whole(Suite[t]), i)
    BY <1>3, <2>2 DEF AccessInv, SureInv
  <2>4. ~GuardedStep(Whole(Suite[t]), i)
    BY <1>1, <1>2, <2>2, <2>3, GuardedIsDefined
  <2> QED
    BY <1>3, <2>2, <2>4
<1>4. CASE stage = "TearDown"
  BY <1>4, TearDownDefined DEF AccessInv
<1>5. CASE stage \in {"idle", "crashed"}
  BY <1>1, <1>2, <1>5, NoStep
<1> QED
  BY <1>2, <1>3, <1>4, <1>5 DEF TypeOK, Unended

\* A step of a script goes on.
LEMMA PlaceGrows ==
  ASSUME TypeInv, Unended, Current # {}, Onward
  PROVE  Place \in Nat /\ Place' \in Nat /\ Place' > Place /\ (at' = at + 1 => Place' = Place + 1)
<1> DEFINE n == Len(Suite[test].fixture.setup)
<1>1. /\ test \in Tests /\ at \in Nat /\ at <= Len(Script) /\ Len(Script) \in Nat
  BY CurrentStep DEF TypeInv, TypeOK
<1>2. n \in Nat
  BY <1>1, WholeIs
<1>3. at' \in {at + 1, Len(Script) + 1} /\ UNCHANGED <<test, stage>>
  BY DEF Onward
<1>4. /\ Place  = IF stage = "SetUp" THEN at ELSE n + at
      /\ Place' = IF stage = "SetUp" THEN at' ELSE n + at'
  BY <1>3 DEF Place, fixture
<1> HIDE DEF n
<1>5. at' \in Nat /\ at' > at
  BY <1>1, <1>3
<1>6. CASE stage = "SetUp"
  BY <1>1, <1>4, <1>5, <1>6
<1>7. CASE stage # "SetUp"
  <2>1. Place = n + at /\ Place' = n + at'
    BY <1>4, <1>7
  <2>2. \A a, b \in Nat : b > a => n + b > n + a
    BY <1>2
  <2>3. \A a \in Nat : n + a \in Nat /\ n + (a + 1) = (n + a) + 1
    BY <1>2
  <2> QED
    BY <1>1, <1>5, <2>1, <2>2, <2>3
<1> QED
  BY <1>6, <1>7

\* What a step leaves alone.
LEMMA ScriptWild ==
  ASSUME TypeInv, ScriptStep
  PROVE  wild' = wild /\ Current # {} /\ Onward /\ stage # "idle"
<1>1. Current # {} /\ Onward
  BY GoesOn DEF ScriptStep
<1>2. stage # "idle"
  BY <1>1, NoStep DEF TypeInv
<1>3. wild' = wild
  <2>1. CASE NewStep \/ AddStep \/ DeleteStep \/ ResetStep \/ GetInstanceStep
    BY <2>1 DEF NewStep, AddStep, DeleteStep, ResetStep, GetInstanceStep
  <2>2. CASE ArgsStep \/ ClientStep \/ BufferStep \/ KeepStep
    BY <2>2, Zenon DEF ArgsStep, ClientStep, BufferStep, KeepStep
  <2>3. CASE ExecuteStep \/ RemoveClientStep \/ ChannelStep
    BY <2>3 DEF ExecuteStep, RemoveClientStep, ChannelStep
  <2>4. CASE AssertStep
    BY <2>4, Zenon DEF AssertStep
  <2> QED
    BY <2>1, <2>2, <2>3, <2>4 DEF ScriptStep
<1> QED
  BY <1>1, <1>2, <1>3

\* A step of a script keeps what is sure true.
LEMMA ScriptKeepsSure ==
  ASSUME AccessInv, [Next]_vars, ScriptStep
  PROVE  SureInv'
<1> SUFFICES ASSUME NEW t \in Tests, NEW k \in Nat, Unended', ~wild', test' = t, Place' = k
             PROVE  /\ ArgsGiven(Whole(Suite[t]))'
                    /\ (stage = "SetUp" \/ AtStep)' => AllTrue(Whole(Suite[t]), k)'
  BY DEF SureInv
<1>1. TypeInv /\ Boxes /\ MemoryInv /\ Records
  BY DEF AccessInv, MemoryInv
<1>2. Current # {} /\ Onward /\ ~wild
  BY <1>1, ScriptWild
<1>3. test = t /\ Unended /\ stage' = stage
  BY <1>2 DEF Onward, Unended
<1> DEFINE w == Whole(Suite[t])
<1>4. PICK i \in DOMAIN w :
        /\ i = Place /\ i \in Nat /\ IsList(w)
        /\ Current = {w[i]} /\ AtStep
  BY <1>1, <1>2, <1>3, AtPlace
<1>5. ArgsGiven(w) /\ AllTrue(w, i)
  BY <1>2, <1>3, <1>4 DEF AccessInv, SureInv
<1> HIDE DEF w
<1>6. stage = "SetUp" => ~AssertStep
  BY <1>1, NoLooksInSetUp
<1>7. ArgsGiven(w)'
  <2>1. args' = args => ArgsGiven(w)'
    BY <1>5 DEF ArgsGiven
  <2>2. args' = args \/ ArgsStep
    BY <1>1, GoesOn DEF ScriptStep
  <2> QED
    BY <1>1, <1>4, <1>5, <2>1, <2>2, ArgsNext
<1>8. ASSUME (stage = "SetUp" \/ AtStep)'
      PROVE  AllTrue(w, k)'
  <2>1. AssertStep => AtStep'
    BY <1>3, <1>6, <1>8
  <2>2. at' = at + 1
    <3>1. CASE AssertStep
      <4>1. Script' = Script /\ Len(Script) \in Nat /\ at <= Len(Script)
        BY <1>1, <1>2, ScriptStays, CurrentStep DEF Onward, TypeInv
      <4>2. at \in Nat
        BY <1>1 DEF TypeInv, TypeOK
      <4> QED
        BY <1>2, <2>1, <3>1, <4>1, <4>2 DEF Onward, AtStep
    <3>2. CASE ~AssertStep
      BY <1>1, <3>2, Advances
    <3> QED
      BY <3>1, <3>2
  <2>3. AllTrue(w, i + 1)'
    BY <1>1, <1>3, <1>4, <1>5, <2>1, <2>2, NextIsTrue
  <2>4. k = i + 1
    BY <1>1, <1>2, <1>3, <1>4, <2>2, PlaceGrows
  <2> QED
    BY <2>3, <2>4
<1> QED
  BY <1>7, <1>8 DEF w

\* The end of SetUp is the beginning of the body.
LEMMA PlaceStays ==
  ASSUME TypeInv, EndStage, Unended'
  PROVE  stage = "SetUp" /\ Unended /\ Place' = Place
<1>1. /\ stage = "SetUp" /\ stage' = "body" /\ test' = test /\ at' = 1 /\ ~AtStep
  BY DEF EndStage, Unended
<1> DEFINE n == Len(Suite[test].fixture.setup)
<1>2. test \in Tests /\ at \in Nat /\ at \in 1 .. Len(Script) + 1
  BY <1>1 DEF TypeInv, TypeOK
<1>3. Script = Suite[test].fixture.setup /\ n \in Nat
  BY <1>1, <1>2, ScriptIs, WholeIs
<1>4. at = n + 1
  BY <1>1, <1>2, <1>3 DEF AtStep
<1>5. Place = at /\ Place' = n + 1
  BY <1>1 DEF Place, fixture
<1> QED
  BY <1>1, <1>4, <1>5 DEF Unended

\* So does the start of a test, of its body, and the end of a second.
LEMMA StageKeepsSure ==
  ASSUME AccessInv, StartTest \/ EndStage \/ EndTest \/ Tick \/ UNCHANGED vars
  PROVE  SureInv'
<1> SUFFICES ASSUME NEW t \in Tests, NEW k \in Nat, Unended', ~wild', test' = t, Place' = k
             PROVE  /\ ArgsGiven(Whole(Suite[t]))'
                    /\ (stage = "SetUp" \/ AtStep)' => AllTrue(Whole(Suite[t]), k)'
  BY DEF SureInv
<1> DEFINE w == Whole(Suite[t])
<1>1. TypeInv /\ TypeOK /\ at \in Nat
  BY DEF AccessInv, MemoryInv, TypeInv, TypeOK
<1>2. IsList(w)
  BY WholeIs
<1> HIDE DEF w
<1>3. CASE StartTest
  <2>1. k = 1 /\ args = <<>> /\ args' = args /\ stage = "idle" /\ UNCHANGED <<chan, client>>
    BY <1>3 DEF StartTest, Place, AccessInv, objects
  <2>2. DOMAIN args' = {}
    BY <2>1
  <2>3. \A c \in Clients, ch \in Channels : Agree(c, ch)'
    <3>1. live = {} /\ Empty
      BY <2>1 DEF AccessInv, MemoryInv, Idle
    <3>2. \A c \in Clients : client[c].channels = {}
      BY <3>1 DEF AccessInv, Records
    <3> QED
      BY <2>1, <3>1, <3>2 DEF Agree, Empty
  <2> QED
    BY <1>2, <2>1, <2>2, <2>3, FirstIsTrue DEF ArgsGiven, w
<1>4. CASE EndStage
  <2>1. stage = "SetUp" /\ test = t /\ Place = k /\ ~wild /\ Unended
        /\ UNCHANGED <<fault, live, freed, listed, chan, client, received, args>>
    BY <1>1, <1>4, PlaceStays DEF EndStage, memory, objects
  <2>2. ArgsGiven(w) /\ AllTrue(w, k)
    BY <2>1 DEF AccessInv, SureInv, w
  <2>3. AllTrue(w, k)'
    BY <2>1, <2>2, StaysTrue
  <2> QED
    BY <2>1, <2>2, <2>3 DEF ArgsGiven, w
<1>5. CASE EndTest
  BY <1>5 DEF EndTest, Unended
<1>6. CASE Tick \/ UNCHANGED vars
  <2>1. UNCHANGED <<fault, live, freed, listed, chan, client, received, args, test, stage, at, wild>>
    BY <1>6 DEF Tick, vars, memory, objects, place
  <2>2. /\ Unended /\ ~wild /\ test = t /\ Place = k
        /\ (stage = "SetUp" \/ AtStep)' => stage = "SetUp" \/ AtStep
    BY <2>1, ScriptStays DEF Unended, Place, fixture, AtStep
  <2>3. ArgsGiven(w) /\ (stage = "SetUp" \/ AtStep => AllTrue(w, k))
    BY <2>2 DEF AccessInv, SureInv, w
  <2>4. AllTrue(w, k) => AllTrue(w, k)'
    BY <2>1, StaysTrue
  <2> QED
    BY <2>1, <2>2, <2>3, <2>4 DEF ArgsGiven, w
<1> QED
  BY <1>3, <1>4, <1>5, <1>6

\* A test that goes astray does so at a step that is not guarded, and goes on from there.
LEMMA AstrayNext ==
  ASSUME AccessInv, [Next]_vars
  PROVE  Astray' /\ (stage' = "idle" => args' = <<>> /\ ~wild')
<1>1. TypeInv /\ Astray /\ (stage = "idle" => args = <<>> /\ ~wild)
  BY DEF AccessInv, MemoryInv
<1>2. CASE StartTest \/ EndTest
  BY <1>1, <1>2 DEF StartTest, EndTest, Astray
<1>3. CASE EndStage
  <2>1. UNCHANGED <<test, wild>> /\ stage' # "idle"
    BY <1>3 DEF EndStage
  <2>2. Unended' => Unended /\ Place' = Place
    BY <1>1, <1>3, PlaceStays
  <2> QED
    BY <1>1, <2>1, <2>2 DEF Astray
<1>4. CASE Tick \/ UNCHANGED vars
  <2>1. UNCHANGED <<test, stage, at, args, wild>>
    BY <1>4 DEF Tick, vars, place
  <2> QED
    BY <1>1, <2>1 DEF Astray, Unended, Place, fixture
<1>5. CASE WildStep
  <2>1. test' = test /\ wild' = TRUE /\ Current # {} /\ (stage' = "crashed" \/ Onward)
    BY <1>1, <1>5, WildIs, Zenon DEF WildStep
  <2>2. stage # "idle" /\ stage' # "idle"
    BY <1>1, <2>1, NoStep DEF TypeInv, Onward
  <2>3. Unended' => Unended /\ Place \in Nat /\ Place' \in Nat /\ Place' > Place
    BY <1>1, <2>1, PlaceGrows DEF Unended, Onward
  <2>4. \E t \in Tests : \E k \in DOMAIN Whole(Suite[t]) :
          test = t /\ k \in Nat /\ ~GuardedStep(Whole(Suite[t]), k) /\ (Unended => k <= Place)
    <3>1. test \in Tests
      BY <1>1, <2>1, CurrentStep DEF TypeInv
    <3>2. \A t \in Tests : DOMAIN Whole(Suite[t]) \subseteq Nat
      BY WholeIs, Places
    <3>3. CASE wild
      <4>1. PICK k \in DOMAIN Whole(Suite[test]) :
              ~GuardedStep(Whole(Suite[test]), k) /\ (Unended => k < Place)
        BY <1>1, <3>1, <3>3 DEF Astray
      <4>2. Unended => Place \in Nat
        BY <1>1, PlaceIs DEF TypeInv
      <4> QED
        BY <3>1, <3>2, <4>1, <4>2
    <3>4. CASE ~wild
      <4>1. PICK t \in Tests : test = t /\ Unended /\ Place \in DOMAIN Whole(Suite[t])
                               /\ ~GuardedStep(Whole(Suite[t]), Place)
        BY <1>5, <3>4, WildIsUnguarded
      <4>2. Place \in Nat
        BY <3>2, <4>1
      <4> QED
        BY <4>1, <4>2
    <3> QED
      BY <3>3, <3>4
  <2>5. \A t : Whole(Suite[t])' = Whole(Suite[t])
    OBVIOUS
  <2> QED
    BY <2>1, <2>2, <2>3, <2>4 DEF Astray
<1>6. CASE ScriptStep
  <2>1. wild' = wild /\ Current # {} /\ Onward /\ stage # "idle"
    BY <1>1, <1>6, ScriptWild
  <2>2. test' = test /\ stage' = stage
    BY <2>1 DEF Onward
  <2>3. Unended' => Unended /\ Place \in Nat /\ Place' \in Nat /\ Place' > Place
    BY <1>1, <2>1, <2>2, PlaceGrows DEF Unended
  <2>4. \A t \in Tests : DOMAIN Whole(Suite[t]) \subseteq Nat
    BY WholeIs, Places
  <2>5. ASSUME NEW t \in Tests, wild', test' = t
        PROVE  \E k \in DOMAIN Whole(Suite[t]) :
                 ~GuardedStep(Whole(Suite[t]), k) /\ (Unended' => k < Place')
    <3>1. PICK k \in DOMAIN Whole(Suite[t]) :
            ~GuardedStep(Whole(Suite[t]), k) /\ (Unended => k < Place)
      BY <1>1, <2>1, <2>2, <2>5 DEF Astray
    <3>2. k \in Nat
      BY <2>4
    <3>3. Unended' => k < Place'
      BY <2>3, <3>1, <3>2
    <3> QED
      BY <3>1, <3>3
  <2> QED
    BY <1>1, <2>1, <2>2, <2>5 DEF Astray
<1> QED
  BY <1>2, <1>3, <1>4, <1>5, <1>6 DEF Next, ScriptStep

\* Every step keeps it so that only who is there records channels.
LEMMA RecordsNext ==
  ASSUME TypeInv, Records, [Next]_vars
  PROVE  Records'
<1>1. CASE StartTest \/ EndStage \/ EndTest \/ Tick \/ UNCHANGED vars
  BY <1>1 DEF StartTest, EndStage, EndTest, Tick, vars, memory, objects, Records
<1>2. CASE WildStep
  BY <1>2, WildIs DEF memory, objects, Records
<1> QED
  BY <1>1, <1>2, ScriptRecords DEF Next, ScriptStep

\* Every step keeps the invariant.
LEMMA AccessNext ==
  ASSUME AccessInv, [Next]_vars
  PROVE  AccessInv'
<1>1. MemoryInv' /\ Boxes' /\ Records'
  BY MemoryNext, BoxesNext, RecordsNext DEF AccessInv, MemoryInv
<1>2. SureInv'
  <2>1. WildStep => SureInv'
    <3>1. WildStep => wild' = TRUE
      BY Zenon DEF WildStep
    <3> QED
      BY <3>1 DEF SureInv
  <2> QED
    BY <2>1, ScriptKeepsSure, StageKeepsSure DEF Next, ScriptStep
<1> QED
  BY <1>1, <1>2, AstrayNext DEF AccessInv

\* It holds at first.
LEMMA AccessInit == Init => AccessInv
<1> SUFFICES ASSUME Init
             PROVE  AccessInv
  OBVIOUS
<1>1. /\ received = [c \in Clients |-> <<>>] /\ stage = "idle" /\ args = <<>> /\ wild = FALSE
      /\ client = [c \in Clients |-> NewClient]
  BY Zenon DEF Init
<1>2. IsList(<<>>)
  BY DEF IsList
<1>3. Records
  BY <1>1, NewIsTyped DEF Records
<1> QED
  BY <1>1, <1>2, <1>3, MemoryInit DEF AccessInv, Boxes, SureInv, Unended, Astray

\* Of a test that is guarded up to its place, all that is sure is true.
LEMMA SurelyTrue ==
  ASSUME AccessInv, Unended, AtStep,
         \A k \in 1 .. Place - 1 : GuardedStep(Whole(Suite[test]), k)
  PROVE  ~wild /\ AllTrue(Whole(Suite[test]), Place)
<1>1. /\ test \in Tests /\ Place \in Nat
      /\ DOMAIN Whole(Suite[test]) \subseteq Nat \ {0}
  BY PlaceIs, Places DEF AccessInv, MemoryInv, TypeInv
<1>2. ~wild
  BY <1>1 DEF AccessInv, Astray
<1> QED
  BY <1>1, <1>2 DEF AccessInv, SureInv

\* Whatever is wrong with the server, no guarded test follows a pointer to a deleted
\* object, calls a method of one, or reads past the end of receivedMessages: the
\* ASSERTs before each use, and what the commands in between may do, see to it.
THEOREM UnitGuarded == GuardedSuite => (Spec => []NoWildAccess)
<1>1. GuardedSuite /\ AccessInv => NoWildAccess
  <2> SUFFICES ASSUME GuardedSuite, AccessInv, wild, test \notin Dangling
               PROVE  FALSE
    BY DEF NoWildAccess
  <2>1. test \in Tests
    BY DEF AccessInv, MemoryInv, TypeInv, TypeOK
  <2> QED
    BY <2>1 DEF AccessInv, Astray, GuardedSuite, Guarded
<1>2. GuardedSuite /\ AccessInv /\ [Next]_vars => GuardedSuite' /\ AccessInv'
  <2>1. GuardedSuite => GuardedSuite'
    BY DEF GuardedSuite
  <2> QED
    BY <2>1, AccessNext
<1> QED
  BY <1>1, <1>2, AccessInit, PTL DEF Spec

\* On a conforming server, the Channel and the Client say the same of who is in a
\* channel before each step of a body that may look at either: what the setters and
\* the test's own calls of addMember, removeMember, addChannel and removeChannel left
\* is complete by then, and the commands keep it so.
THEOREM UnitAgreement == AgreeingSuite => (Spec => []MembershipAgrees)
<1>1. AgreeingSuite /\ AccessInv => MembershipAgrees
  <2> SUFFICES ASSUME AgreeingSuite, AccessInv, NEW now \in Current, fault = "none",
                      stage = "body", LooksAtBoth(now), NEW c \in Clients, NEW ch \in Channels
               PROVE  Agree(c, ch)
    BY DEF MembershipAgrees
  <2> DEFINE w == Whole(Suite[test])
             s == Suite[test].fixture.setup
  <2>1. TypeOK /\ Unended /\ at \in Nat \ {0} /\ AtStep /\ now = Script[at]
    BY CurrentStep DEF AccessInv, MemoryInv, TypeInv, TypeOK, Unended, AtStep
  <2>2. test \in Tests /\ Place \in DOMAIN w /\ w[Place] = now
    BY <2>1, PlaceIs
  <2>3. Place > Len(s)
    <3>1. Len(s) \in Nat /\ Place = Len(s) + at
      BY <2>2, WholeIs DEF Place, fixture
    <3> QED
      BY <2>1, <3>1
  <2>4. AgreeingStep(w, Place)
    BY <2>2, <2>3 DEF AgreeingSuite, Agreeing
  <2>5. AllTrue(w, Place)
    BY <2>1, <2>4, SurelyTrue DEF AgreeingStep
  <2> QED
    BY <2>4, <2>5 DEF AgreeingStep, AllTrue, AgreeTrue
<1>2. AgreeingSuite /\ AccessInv /\ [Next]_vars => AgreeingSuite' /\ AccessInv'
  <2>1. AgreeingSuite => AgreeingSuite'
    BY DEF AgreeingSuite
  <2> QED
    BY <2>1, AccessNext
<1> QED
  BY <1>1, <1>2, AccessInit, PTL DEF Spec
=============================================================================
