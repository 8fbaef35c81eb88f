-------------------------- MODULE UnitMemory_proofs ---------------------------
(***************************************************************************)
(* Proofs, for every suite of well-formed tests and every faulty server,    *)
(* that the tests' memory is in order: nothing is deleted twice, nothing    *)
(* is left between tests, the server lists no deleted object, and each      *)
(* fixture is one of those TestFixture describes.                           *)
(*                                                                         *)
(* The invariant goes phase by phase (Plain, SettingUp, Acting, TakingDown) *)
(* and says what is alive by the step the test is about to take. While a    *)
(* test acts, an object is the server's or `awaited': the script still has  *)
(* to give it away.                                                         *)
(***************************************************************************)
EXTENDS UnitRun_proofs

Owned == Clients \cup Channels

Rest(f) == IF f.extra = {} THEN 7 ELSE 8

-----------------------------------------------------------------------------
(* What the scripts promise *)

\* What is assumed of a test with a server, by name.
LEMMA CommandTests ==
  ASSUME NEW t \in Tests, Suite[t].fixture.own # {}
  PROVE  /\ CommandShape(Suite[t].fixture) /\ Arranges(Suite[t])
         /\ GivesAway(Suite[t].fixture.setup, Rest(Suite[t].fixture))
         /\ GivesAway(Suite[t].body, 1)
  BY SuiteAssumption DEF WellFormed, Rest

\* What is assumed of a test without one.
LEMMA PlainTests ==
  ASSUME NEW t \in Tests, Suite[t].fixture.own = {}
  PROVE  /\ PlainShape(Suite[t].fixture)
         /\ \A i \in DOMAIN Suite[t].body :
              Suite[t].body[i].do \notin Memory \cup OnServer \cup {"channel"}
  BY SuiteAssumption DEF WellFormed

\* The objects that from step i on the test has made and not yet given away.
Awaited(s, i) ==
  {o \in Owned : \E k \in DOMAIN s :
     /\ i <= k /\ s[k].do = "add" /\ o \in s[k].objs
     /\ \A j \in i .. k - 1 : s[j].do = "channel"}

\* Nothing waits at the first step, after the last, and after a command.
LEMMA AwaitedAtRest ==
  ASSUME NEW s, IsList(s), NEW from \in Nat \ {0}, GivesAway(s, from)
  PROVE  /\ Awaited(s, from) = {} /\ Awaited(s, Len(s) + 1) = {}
         /\ \A i \in from .. Len(s) :
              s[i].do \notin {"channel", "new"} => Awaited(s, i + 1) = {}
<1>1. Len(s) \in Nat /\ DOMAIN s = 1 .. Len(s)
  BY ListLength
<1>2. Awaited(s, Len(s) + 1) = {}
  BY <1>1 DEF Awaited
<1>3. ASSUME NEW i \in Nat, i >= from, NEW o \in Awaited(s, i)
      PROVE  i > from /\ s[i - 1].do \in {"channel", "new"}
  <2>1. PICK k \in DOMAIN s :
          /\ i <= k /\ s[k].do = "add" /\ o \in s[k].objs
          /\ \A j \in i .. k - 1 : s[j].do = "channel"
    BY DEF Awaited
  <2>2. PICK l \in from .. k - 1 : s[l].do = "new" /\ \A j \in l + 1 .. k - 1 : s[j].do = "channel"
    BY <1>1, <1>3, <2>1 DEF GivesAway
  <2>3. l < i
    BY <1>1, <2>1, <2>2
  <2> QED
    BY <1>1, <2>1, <2>2, <2>3
<1> QED
  BY <1>1, <1>2, <1>3

\* What one step of the script adds to what waits, and takes from it.
LEMMA AwaitedSteps ==
  ASSUME NEW s, IsList(s), NEW from \in Nat \ {0}, GivesAway(s, from),
         NEW i \in from .. Len(s), s[i].do = "add" => s[i].objs \subseteq Owned
  PROVE  /\ s[i].do = "channel" => Awaited(s, i + 1) = Awaited(s, i)
         /\ s[i].do = "new" => Awaited(s, i + 1) = s[i].objs /\ s[i].objs \subseteq Owned
         /\ s[i].do = "add" => Awaited(s, i) = s[i].objs
         /\ s[i].do \notin {"channel", "add"} => Awaited(s, i) = {}
<1>1. Len(s) \in Nat /\ DOMAIN s = 1 .. Len(s) /\ i \in Nat
  BY ListLength
<1>2. s[i].do = "channel" => Awaited(s, i + 1) = Awaited(s, i)
  BY <1>1 DEF Awaited
<1>3. s[i].do = "add" => Awaited(s, i) = s[i].objs
  BY <1>1 DEF Awaited
<1>4. s[i].do \notin {"channel", "add"} => Awaited(s, i) = {}
  BY <1>1 DEF Awaited
<1>5. ASSUME s[i].do = "new"
      PROVE  Awaited(s, i + 1) = s[i].objs /\ s[i].objs \subseteq Owned
  <2>1. s[i].objs \subseteq Owned
    BY <1>5, <1>1 DEF GivesAway, Memory, Owned
  <2>2. PICK k \in i + 1 .. Len(s) :
          /\ s[k].do = "add" /\ s[k].objs = s[i].objs
          /\ \A j \in i + 1 .. k - 1 : s[j].do = "channel"
    BY <1>5, <1>1 DEF GivesAway
  <2>3. ASSUME NEW m \in DOMAIN s, i + 1 <= m, s[m].do = "add",
               \A j \in i + 1 .. m - 1 : s[j].do = "channel"
        PROVE  m = k
    BY <1>1, <2>2, <2>3
  <2> QED
    BY <1>1, <2>1, <2>2, <2>3 DEF Awaited
<1> QED
  BY <1>2, <1>3, <1>4, <1>5

-----------------------------------------------------------------------------
(* What is there at each point of a test *)

OnFixture  == stage \in Stages3 /\ fixture.own # {}
Plain      == stage \in Stages3 /\ fixture.own = {}
SettingUp  == OnFixture /\ stage = "SetUp" /\ at < Rest(fixture)
Acting     == OnFixture /\ (stage = "body" \/ (stage = "SetUp" /\ at >= Rest(fixture)))
TakingDown == OnFixture /\ stage = "TearDown"

Empty == \A ch \in Channels : chan[ch].members = {}
Unmade(s, i) ==
  \A j \in DOMAIN s : j >= i /\ s[j].do = "new" => s[j].objs \cap (live \cup freed) = {}

Idle == stage = "idle" => live = {} /\ freed = {} /\ listed = {} /\ Empty

PlainInv == Plain =>
  /\ listed = {} /\ Empty
  /\ live = IF fixture.teardown = <<>> \/ (stage = "SetUp" /\ at = 1)
                \/ (stage = "TearDown" /\ at = 2) THEN {} ELSE {"client"}

Base == fixture.setup[3].objs
HasOwn == (at = 6 /\ fixture.setup[5].do = "new") \/ at = 7

SettingUpInv == SettingUp =>
  /\ freed = {} /\ Empty
  /\ live = IF at <= 3 THEN {} ELSE Base \cup (IF HasOwn THEN fixture.own ELSE {})
  /\ listed = IF at <= 4 THEN {} ELSE Base

\* What is alive is a command or the server's, or about to be the server's.
ActingInv == Acting =>
  LET waiting == Awaited(Script, at) IN
  /\ fixture.own \cup fixture.extra \subseteq live
  /\ live \subseteq Owned \cup fixture.own \cup fixture.extra
  /\ listed \subseteq live /\ waiting \subseteq live
  /\ live \cap Owned \subseteq listed \cup waiting
  /\ freed \subseteq Owned
  /\ \A ch \in Channels : chan[ch].members # {} => ch \in listed \cup waiting
  /\ Unmade(Script, at)
  /\ stage = "SetUp" => Unmade(Suite[test].body, 1)

TakingDownInv == TakingDown =>
  LET last == IF fixture.extra = {} THEN 1 ELSE 2 IN
  /\ listed \subseteq live
  /\ live \subseteq listed \cup (IF at <= last THEN fixture.own ELSE {})
                         \cup (IF at < last THEN fixture.extra ELSE {})
  /\ at < last => fixture.extra \subseteq live
  /\ at <= last => fixture.own \subseteq live
  /\ at = last + 2 => listed = {}
  /\ \A ch \in Channels : chan[ch].members # {} => ch \in listed

MemoryInv == /\ TypeInv /\ twice = FALSE
             /\ Idle /\ PlainInv /\ SettingUpInv /\ ActingInv /\ TakingDownInv

\* The objects of a fixture are not among those of the tests.
LEMMA Apart ==
  ASSUME NEW f, CommandShape(f)
  PROVE  /\ f.own \cap Owned = {} /\ f.extra \cap Owned = {} /\ f.own \cap f.extra = {}
         /\ f.own \cup f.extra \cup Owned \subseteq FixtureObjects
  BY ObjectsAssumption DEF CommandShape, Owners!KindsApart, Owners!Owned, Owned, FixtureObjects

\* The script and the fixture of a test with a server.
LEMMA OnFixtureIs ==
  ASSUME TypeOK, OnFixture
  PROVE  /\ test \in Tests /\ CommandShape(fixture) /\ Own = fixture.own /\ Extra = fixture.extra
         /\ stage = "SetUp" => Script = fixture.setup /\ GivesAway(Script, Rest(fixture))
         /\ stage = "body" => Script = Suite[test].body /\ GivesAway(Script, 1)
         /\ stage = "TearDown" => Script = fixture.teardown
         /\ IsList(Script) /\ Len(Script) \in Nat /\ DOMAIN Script = 1 .. Len(Script)
         /\ at \in 1 .. Len(Script) + 1
<1>1. test \in Tests
  BY DEF TypeOK, OnFixture, Stages3
<1>2. fixture.own # {}
  BY DEF OnFixture
<1>3. /\ CommandShape(fixture) /\ GivesAway(fixture.setup, Rest(fixture))
      /\ GivesAway(Suite[test].body, 1)
  BY <1>1, <1>2, CommandTests DEF fixture
<1>4. Script \in {Suite[test].fixture.setup, Suite[test].body, Suite[test].fixture.teardown}
  BY ScriptIs DEF OnFixture, Stages3
<1>5. IsList(Script)
  BY <1>1, <1>4, ScriptsAreWellMade
<1>6. Len(Script) \in Nat /\ DOMAIN Script = 1 .. Len(Script)
  BY <1>5, ListLength
<1>7. Own = fixture.own /\ Extra = fixture.extra
  BY DEF OnFixture, Own, Extra, Stages3
<1> QED
  BY <1>1, <1>3, <1>5, <1>6, <1>7, ScriptIs DEF TypeOK, fixture

-----------------------------------------------------------------------------
(* Where TestFixture is *)

Located ==
  /\ stage = "idle" \/ Plain \/ (SettingUp /\ at = 1) => Position = "idle"
  /\ SettingUp /\ at = 2 => Position = "instance"
  /\ SettingUp /\ at = 3 => Position = "clients"
  /\ SettingUp /\ at = 4 => Position = "add"
  /\ SettingUp /\ at \in {5, 6} /\ ~HasOwn => Position = "commands"
  /\ SettingUp /\ HasOwn => Position = IF fixture.extra = {} THEN "body" ELSE "derived"
  /\ Acting => Position = "body"
  /\ stage = "crashed" => Position = IF fixture.own = {} THEN "idle" ELSE "body"
  /\ TakingDown =>
       LET last == IF fixture.extra = {} THEN 1 ELSE 2
       IN  Position = IF at < last THEN "deleteExtra" ELSE IF at = last THEN "delete"
                 ELSE IF at = last + 1 THEN "reset" ELSE "idle"

\* The invariant tells where in its life the fixture is.
LEMMA Where == MemoryInv => Located
<1> SUFFICES ASSUME MemoryInv
             PROVE  Located
  OBVIOUS
<1>1. TypeOK
  BY DEF MemoryInv, TypeInv
<1>2. stage = "idle" \/ Plain => Position = "idle"
  BY DEF Position, Plain, Own, Stages3
<1>3. stage = "crashed" => Position = IF fixture.own = {} THEN "idle" ELSE "body"
  BY DEF Position, Own
<1>4. ASSUME SettingUp
      PROVE  Position = CASE at = 1 -> "idle"
                          [] at = 2 -> "instance"
                          [] at = 3 -> "clients"
                          [] at = 4 -> "add"
                          [] at >= 5 /\ ~HasOwn -> "commands"
                          [] OTHER  -> IF fixture.extra = {} THEN "body" ELSE "derived"
  <2>1. /\ OnFixture /\ at \in 1 .. 7 /\ (at = 7 => fixture.extra # {})
        /\ stage = "SetUp" /\ Own = fixture.own /\ Extra = fixture.extra /\ Own # {}
        /\ CommandShape(fixture)
    BY <1>1, <1>4, OnFixtureIs DEF SettingUp, Rest, OnFixture
  <2>2. /\ fixture.own \cap Owned = {} /\ fixture.extra \cap Owned = {}
        /\ fixture.own \cap fixture.extra = {} /\ Base \subseteq Owned
    BY <2>1, Apart DEF CommandShape, Base, Owned
  <2>3. at >= 5 /\ ~HasOwn => ~(Own \subseteq live)
    BY <1>4, <2>1, <2>2 DEF MemoryInv, SettingUpInv
  <2>4. HasOwn => Own \subseteq live /\ (Extra # {} => ~(Extra \subseteq live))
    BY <1>4, <2>1, <2>2 DEF MemoryInv, SettingUpInv, HasOwn
  <2>5. at <= 4 => Position = CASE at = 1 -> "idle" [] at = 2 -> "instance" [] at = 3 -> "clients" [] OTHER -> "add"
    BY <2>1 DEF Position, InSetUp
  <2>6. at >= 5 => Position = IF ~(Own \subseteq live) THEN "commands"
                              ELSE IF ~(Extra \subseteq live) THEN "derived" ELSE "body"
    BY <2>1 DEF Position, InSetUp
  <2> HIDE DEF Position
  <2> QED
    BY <2>1, <2>3, <2>4, <2>5, <2>6 DEF HasOwn
<1>5. ASSUME Acting
      PROVE  Position = "body"
  <2>1. /\ Own = fixture.own /\ Extra = fixture.extra /\ Own # {}
        /\ stage \in {"SetUp", "body"} /\ (stage = "SetUp" => at \in Nat /\ at > 4)
        /\ Own \cup Extra \subseteq live
    BY <1>1, <1>5, OnFixtureIs DEF Acting, OnFixture, Rest, MemoryInv, ActingInv, TypeOK
  <2> QED
    BY <2>1 DEF Position, InSetUp
<1>6. ASSUME TakingDown
      PROVE  LET last == IF fixture.extra = {} THEN 1 ELSE 2
             IN  Position = IF at < last THEN "deleteExtra" ELSE IF at = last THEN "delete"
                 ELSE IF at = last + 1 THEN "reset" ELSE "idle"
  <2>1. /\ OnFixture /\ stage = "TearDown" /\ Own = fixture.own /\ Extra = fixture.extra
        /\ Own # {} /\ CommandShape(fixture) /\ Script = fixture.teardown
        /\ at \in 1 .. Len(Script) + 1
    BY <1>1, <1>6, OnFixtureIs DEF TakingDown, OnFixture
  <2>2. fixture.own \cap fixture.extra = {}
    BY <2>1, Apart
  <2> QED
    BY <2>1, <2>2 DEF Position, InTearDown, CommandShape, AtStep
<1> QED
  BY <1>2, <1>3, <1>4, <1>5, <1>6 DEF Located, SettingUp, OnFixture, HasOwn, Rest

-----------------------------------------------------------------------------
(* What a step does to the memory *)

mem == <<live, freed, listed, instance, chan, twice>>

Makes(now) ==
  /\ now.do = "new"
  /\ live' = live \cup now.objs /\ freed' = freed \ now.objs
  /\ chan' = [ch \in Channels |-> IF ch \in now.objs THEN NoChannel ELSE chan[ch]]
  /\ UNCHANGED <<listed, instance, twice>>
Adds(now) ==
  now.do = "add" /\ listed' = listed \cup now.objs /\ UNCHANGED <<live, freed, instance, chan, twice>>
Deletes(now) == now.do = "delete" /\ Deleted(now.objs) /\ UNCHANGED <<listed, instance>>
Resets(now)  == now.do = "reset" /\ Deleted(listed) /\ listed' = {} /\ instance' = FALSE
Gets(now) ==
  now.do = "getInstance" /\ instance' = TRUE /\ UNCHANGED <<live, freed, listed, chan, twice>>

\* A command makes channels or empties some, never both.
Emptied == {ch \in Channels : chan[ch].members # {} /\ chan'[ch].members = {}}
Made    == {ch \in Channels \ listed : chan'[ch].members # {}}
Commands(now) ==
  /\ now.do \in {"execute", "parse"}
  /\ Fuller(chan') \/ Emptier(chan')
  /\ \E emptied \in {{}, Emptied} :
       /\ live' = (live \cup Made) \ emptied
       /\ freed' = freed \cup emptied
       /\ listed' = (listed \cup Made) \ emptied
  /\ UNCHANGED <<instance, twice>>

Removes(now) ==
  /\ now.do = "removeClient" /\ now.c \in Clients \cap live
  /\ live' = live \ {now.c} /\ freed' = freed \cup {now.c} /\ listed' = listed \ {now.c}
  /\ Emptier(chan')
  /\ UNCHANGED <<instance, twice>>

Alters(now) ==
  /\ now.do = "channel" /\ now.ch \in live
  /\ \A ch \in Channels \ {now.ch} : chan'[ch] = chan[ch]
  /\ UNCHANGED <<live, freed, listed, instance, twice>>

Quiet(now) ==
  /\ now.do \notin Memory /\ UNCHANGED mem
  /\ at' \in {at + 1, Len(Script) + 1}
  /\ now.do \in {"channel", "clearArgs"} => at' = at + 1

Busy(now) ==
  /\ \/ Makes(now) \/ Adds(now) \/ Deletes(now) \/ Resets(now) \/ Gets(now)
     \/ Commands(now) \/ Removes(now) \/ Alters(now)
  /\ at' = at + 1

Crashes == /\ stage' = "crashed" /\ UNCHANGED <<mem, test>>
           /\ \E now \in Current : now.do \notin Memory \cup {"clearArgs"}

\* The kinds whose memory effect is none.
LEMMA QuietKinds ==
  ASSUME TypeInv, ArgsStep \/ ClientStep \/ BufferStep \/ KeepStep
  PROVE  \E now \in Current : Quiet(now) /\ UNCHANGED <<test, stage>>
<1>1. CASE ArgsStep
  <2>1. PICK now \in Current : /\ now.do \notin Memory /\ UNCHANGED <<mem, test, stage>>
                              /\ at' = at + 1
    BY <1>1, DoingIs DEF ArgsStep, Advance, memory, objects, Memory, mem
  <2> QED
    BY <2>1 DEF Quiet
<1>2. CASE ClientStep
  <2>1. PICK now \in Current : /\ now.do \notin Memory /\ UNCHANGED <<mem, test, stage>>
                              /\ at' = at + 1
    BY <1>2, DoingIs DEF ClientStep, Advance, memory, place, Memory, mem
  <2> QED
    BY <2>1 DEF Quiet
<1>3. CASE BufferStep
  <2>1. PICK now \in Current : /\ now.do \notin Memory /\ UNCHANGED <<mem, test, stage>>
                              /\ at' = at + 1
    BY <1>3, DoingIs DEF BufferStep, Advance, memory, place, Memory, mem
  <2> QED
    BY <2>1 DEF Quiet
<1>4. CASE KeepStep
  <2>1. PICK now \in Current : /\ now.do \notin Memory /\ UNCHANGED <<mem, test, stage>>
                              /\ at' = at + 1
    BY <1>4, DoingIs DEF KeepStep, Advance, memory, objects, Memory, mem
  <2> QED
    BY <2>1 DEF Quiet
<1> QED
  BY <1>1, <1>2, <1>3, <1>4

\* An assertion changes no memory.
LEMMA LookIsQuiet ==
  ASSUME TypeInv, AssertStep
  PROVE  \E now \in Current : Quiet(now) /\ UNCHANGED <<test, stage>>
<1>1. PICK now \in Doing({"check", "find", "same", "later", "readLine"}) :
        /\ at' = IF ~Holds(now) /\ now.fatal THEN Len(Script) + 1 ELSE at + 1
        /\ UNCHANGED <<fault, clock, memory, chan, client, received, test, stage, args, local,
                       wild, twice>>
  BY Zenon DEF AssertStep
<1>2. now \in Current /\ now.do \in {"check", "find", "same", "later", "readLine"}
  BY DoingIs
<1> QED
  BY <1>1, <1>2 DEF Quiet, Memory, mem, memory

\* A call on a channel changes that channel, or only sends.
LEMMA ChannelStepIs ==
  ASSUME TypeInv, ChannelStep
  PROVE  \E now \in Current : (Alters(now) \/ Quiet(now)) /\ at' = at + 1 /\ UNCHANGED <<test, stage>>
<1>1. PICK now \in Doing({"channel", "broadcast"}) :
        /\ IF now.do = "channel" THEN chan' = [chan EXCEPT ![now.ch] = Called(@, now.call, now.arg)]
                                 ELSE chan' = chan
        /\ at' = at + 1
        /\ UNCHANGED <<memory, twice, test, stage>>
  BY DEF ChannelStep, place, Advance
<1>2. now \in Current /\ now.do \in {"channel", "broadcast"} /\ Defined(now)
  BY DoingIs
<1>3. CASE now.do = "channel"
  <2>1. now.ch \in live
    BY <1>2, <1>3 DEF Defined, Touched, Named, Looks
  <2>2. DOMAIN chan = Channels
    BY DEF TypeInv, IsChannels
  <2>3. \A ch \in Channels \ {now.ch} : chan'[ch] = chan[ch]
    BY <1>1, <1>3, <2>2
  <2> QED
    BY <1>1, <1>2, <1>3, <2>1, <2>3 DEF Alters, memory
<1>4. CASE now.do # "channel"
  BY <1>1, <1>2, <1>4 DEF Quiet, Memory, memory, mem
<1> QED
  BY <1>3, <1>4

\* execute() makes channels, or deletes those it empties.
LEMMA CommandStepIs ==
  ASSUME TypeInv, ExecuteStep
  PROVE  \E now \in Current : Commands(now) /\ at' = at + 1 /\ UNCHANGED <<test, stage>>
<1>1. PICK now \in Doing({"execute", "parse"}) :
        /\ IF now.do = "execute" THEN Execute(now.verb, now.c, args)
                                 ELSE Execute(Upper(now.verb), now.c, now.args)
        /\ at' = at + 1 /\ UNCHANGED <<instance, twice, test, stage>>
  BY DEF ExecuteStep, Advance, place
<1>2. now \in Current /\ now.do \in {"execute", "parse"}
  BY DoingIs
<1>3. Fuller(chan') \/ Emptier(chan')
  BY CommandObjectsTyped
<1>4. PICK verb, list : Execute(verb, now.c, list)
  BY <1>1
<1>5. \E emptied \in {{}, Emptied} :
        /\ live' = (live \cup Made) \ emptied
        /\ freed' = freed \cup emptied
        /\ listed' = (listed \cup Made) \ emptied
  BY <1>4 DEF Execute, Made, Emptied
<1> QED
  BY <1>1, <1>2, <1>3, <1>5 DEF Commands

\* removeClient deletes one client.
LEMMA RemoveStepIs ==
  ASSUME TypeInv, RemoveClientStep
  PROVE  \E now \in Current : Removes(now) /\ at' = at + 1 /\ UNCHANGED <<test, stage>>
<1>1. PICK now \in Doing({"removeClient"}) :
        removeClient(now.c) /\ at' = at + 1 /\ UNCHANGED <<instance, twice, test, stage>>
  BY DEF RemoveClientStep, Advance, place
<1>2. now \in Current /\ now.do = "removeClient" /\ Defined(now) /\ now.c \in Clients
  BY DoingIs, CurrentStep DEF TypeInv, WellMade
<1>3. now.c \in live
  BY <1>2 DEF Defined, Touched, Named, Looks
<1>4. Emptier(chan')
  <2>1. \A ch \in Channels : Without(chan[ch], now.c).members \subseteq chan[ch].members
    BY WithoutReplaces DEF TypeInv, IsChannels
  <2> QED
    BY <1>1, <2>1 DEF removeClient, Emptier
<1> QED
  BY <1>1, <1>2, <1>3, <1>4 DEF Removes, removeClient

\* The steps that are about memory.
LEMMA MemoryStepIs ==
  ASSUME TypeInv, NewStep \/ AddStep \/ DeleteStep \/ ResetStep \/ GetInstanceStep
  PROVE  \E now \in Current : Busy(now) /\ UNCHANGED <<test, stage>>
<1>1. CASE NewStep
  BY <1>1, DoingIs DEF NewStep, Busy, Makes, Advance, place
<1>2. CASE AddStep
  BY <1>2, DoingIs DEF AddStep, Busy, Adds, Advance, place, objects
<1>3. CASE DeleteStep
  BY <1>3, DoingIs DEF DeleteStep, Busy, Deletes, Advance, place
<1>4. CASE ResetStep
  BY <1>4, DoingIs DEF ResetStep, Busy, Resets, Advance, place
<1>5. CASE GetInstanceStep
  BY <1>5, DoingIs DEF GetInstanceStep, Busy, Gets, Advance, place, objects
<1> QED
  BY <1>1, <1>2, <1>3, <1>4, <1>5

\* An undefined step changes no memory.
LEMMA WildStepIs ==
  ASSUME TypeInv, WildStep
  PROVE  Crashes \/ \E now \in Current : Quiet(now) /\ UNCHANGED <<test, stage>>
<1>1. PICK now \in Current :
        /\ ~Defined(now)
        /\ \/ stage' = "crashed"
           \/ stage' = stage /\ at' = at + 1
        /\ UNCHANGED <<fault, clock, memory, objects, test, args, local, twice>>
  BY Zenon DEF WildStep, Advance
<1>2. now.do \notin Memory \cup {"clearArgs"}
  <2>1. PastEnd(now) => now.do \in Looks
    BY Zenon DEF PastEnd
  <2> QED
    BY <1>1, <2>1 DEF Defined, Touched, Named, Looks, Memory
<1> QED
  BY <1>1, <1>2 DEF Crashes, Quiet, mem, memory, objects

\* Every step is one of these.
LEMMA StepIs ==
  ASSUME TypeInv, [Next]_vars
  PROVE  \/ StartTest \/ EndStage \/ EndTest \/ Crashes
         \/ UNCHANGED <<mem, test, stage, at>>
         \/ \E now \in Current : (Busy(now) \/ Quiet(now)) /\ UNCHANGED <<test, stage>>
<1>1. Tick \/ UNCHANGED vars => UNCHANGED <<mem, test, stage, at>>
  BY DEF Tick, vars, memory, objects, place, mem
<1>2. ExecuteStep \/ RemoveClientStep \/ ChannelStep =>
        \E now \in Current : (Busy(now) \/ Quiet(now)) /\ UNCHANGED <<test, stage>>
  BY ChannelStepIs, CommandStepIs, RemoveStepIs DEF Busy
<1> QED
  BY <1>1, <1>2, QuietKinds, LookIsQuiet, MemoryStepIs, WildStepIs DEF Next

-----------------------------------------------------------------------------
(* The invariant, phase by phase *)

Phases == Idle /\ PlainInv /\ SettingUpInv /\ ActingInv /\ TakingDownInv

\* Every state is in one of the phases.
LEMMA StageOf ==
  ASSUME TypeOK
  PROVE  stage = "idle" \/ stage = "crashed" \/ Plain \/ SettingUp \/ Acting \/ TakingDown
  BY DEF TypeOK, Plain, OnFixture, SettingUp, Acting, TakingDown, Stages3, Rest

\* Nothing is left to do for a test that crashed, and nothing before a test.
LEMMA NoStep ==
  ASSUME TypeOK, stage \in {"idle", "crashed"}
  PROVE  Current = {}
  BY CurrentStep DEF Stages3

\* A step that changes nothing of this keeps the invariant.
LEMMA Resting ==
  ASSUME UNCHANGED <<mem, test, stage, at>>, Phases
  PROVE  Phases'
<1>1. Script' = Script /\ fixture' = fixture
  BY ScriptStays DEF fixture
<1>2. /\ OnFixture' = OnFixture /\ Plain' = Plain /\ SettingUp' = SettingUp
      /\ Acting' = Acting /\ TakingDown' = TakingDown
  BY <1>1 DEF OnFixture, Plain, SettingUp, Acting, TakingDown
<1>3. Empty' = Empty /\ Base' = Base /\ HasOwn' = HasOwn
  BY <1>1 DEF Empty, Base, HasOwn, mem
<1>4. Idle' /\ PlainInv' /\ SettingUpInv'
  BY <1>1, <1>2, <1>3 DEF Phases, Idle, PlainInv, SettingUpInv, mem
<1>5. ActingInv' /\ TakingDownInv'
  BY <1>1, <1>2 DEF Phases, ActingInv, TakingDownInv, Unmade, mem
<1> QED
  BY <1>4, <1>5 DEF Phases

\* After a crash there is nothing to keep.
LEMMA Crashed ==
  ASSUME stage' = "crashed"
  PROVE  Phases'
  BY DEF Phases, Idle, PlainInv, SettingUpInv, ActingInv, TakingDownInv, OnFixture, Plain,
         SettingUp, Acting, TakingDown, Stages3

\* The script of a test without a server.
LEMMA PlainIs ==
  ASSUME TypeOK, Plain
  PROVE  /\ test \in Tests /\ at \in 1 .. Len(Script) + 1
         /\ stage = "SetUp" => Script = fixture.setup
         /\ stage = "TearDown" => Script = fixture.teardown
         /\ stage = "body" => \A now \in Current : now.do \notin Memory \cup OnServer \cup {"channel"}
         /\ \/ fixture.setup = <<>> /\ fixture.teardown = <<>>
            \/ /\ fixture.setup = New({"client"}) /\ fixture.teardown = Delete({"client"})
               /\ fixture.teardown # <<>> /\ Len(fixture.setup) = 1 /\ Len(fixture.teardown) = 1
               /\ fixture.setup[1].do = "new" /\ fixture.setup[1].objs = {"client"}
               /\ fixture.teardown[1].do = "delete" /\ fixture.teardown[1].objs = {"client"}
<1>1. test \in Tests /\ fixture.own = {} /\ stage \in Stages3
  BY DEF TypeOK, Plain, Stages3
<1>2. /\ PlainShape(fixture)
      /\ \A i \in DOMAIN Suite[test].body :
           Suite[test].body[i].do \notin Memory \cup OnServer \cup {"channel"}
  BY <1>1, PlainTests DEF fixture
<1>3. stage = "body" => \A now \in Current : now.do \notin Memory \cup OnServer \cup {"channel"}
  BY <1>2, ScriptIs DEF Current
<1>4. \/ fixture.setup = <<>> /\ fixture.teardown = <<>>
      \/ fixture.setup = New({"client"}) /\ fixture.teardown = Delete({"client"})
  BY <1>2 DEF PlainShape
<1>5. /\ New({"client"})[1].do = "new" /\ New({"client"})[1].objs = {"client"}
      /\ Delete({"client"})[1].do = "delete" /\ Delete({"client"})[1].objs = {"client"}
      /\ Len(New({"client"})) = 1 /\ Len(Delete({"client"})) = 1 /\ Delete({"client"}) # <<>>
  BY DEF New, Delete
<1>6. at \in 1 .. Len(Script) + 1
  BY DEF TypeOK
<1>7. (stage = "SetUp" => Script = fixture.setup) /\ (stage = "TearDown" => Script = fixture.teardown)
  BY ScriptIs DEF fixture
<1> QED
  BY <1>1, <1>3, <1>4, <1>5, <1>6, <1>7

\* The start of a test keeps the invariant.
LEMMA IdlePhase ==
  ASSUME MemoryInv, stage = "idle", StartTest
  PROVE  Phases' /\ ~twice'
<1>1. /\ live' = {} /\ freed' = {} /\ listed' = {} /\ Empty' /\ ~twice'
      /\ stage' = "SetUp" /\ at' = 1
  BY DEF MemoryInv, StartTest, Idle, Empty, memory, objects
<1>2. Rest(fixture') \in {7, 8}
  BY DEF Rest
<1>3. Idle' /\ PlainInv' /\ SettingUpInv' /\ ActingInv' /\ TakingDownInv'
  BY <1>1, <1>2 DEF Idle, PlainInv, SettingUpInv, ActingInv, TakingDownInv, SettingUp, Acting,
     TakingDown
<1> QED
  BY <1>1, <1>3 DEF Phases

\* So does every step of a test without a server.
LEMMA PlainPhase ==
  ASSUME MemoryInv, Plain, [Next]_vars, ~ UNCHANGED <<mem, test, stage, at>>, ~Crashes
  PROVE  Phases' /\ ~twice'
<1>1. TypeOK /\ PlainInv /\ ~twice
  BY DEF MemoryInv, TypeInv
<1>2. Plain' \/ stage' = "idle" => (Idle' /\ PlainInv' => Phases')
  BY DEF Phases, SettingUpInv, ActingInv, TakingDownInv, OnFixture, Plain,
         SettingUp, Acting, TakingDown, Stages3
<1>3. CASE EndTest
  <2>1. live = {} /\ listed = {} /\ Empty
    <3>1. stage = "TearDown" /\ ~(at <= Len(Script))
      BY <1>3 DEF EndTest, AtStep
    <3>2. fixture.teardown = <<>> \/ at = 2
      <4>1. /\ Script = fixture.teardown /\ at \in 1 .. Len(Script) + 1
            /\ fixture.teardown = <<>> \/ Len(fixture.teardown) = 1
        BY <1>1, <3>1, PlainIs
      <4>2. CASE fixture.teardown # <<>>
        <5>1. Len(Script) = 1
          BY <4>1, <4>2
        <5> QED
          BY <3>1, <4>1, <5>1
      <4> QED
        BY <4>2
    <3> QED
      BY <1>1, <3>1, <3>2 DEF PlainInv
  <2>2. /\ stage' = "idle" /\ live' = {} /\ freed' = {} /\ listed' = {} /\ Empty' /\ ~twice'
    BY <1>1, <1>3, <2>1 DEF EndTest, objects, Empty
  <2> QED
    BY <1>2, <2>2 DEF Idle, PlainInv, Plain, Stages3
<1>4. CASE EndStage
  <2>1. /\ Plain' /\ fixture' = fixture /\ at' = 1 /\ ~twice' /\ UNCHANGED mem
        /\ stage \in {"SetUp", "body"} /\ stage' \in {"body", "TearDown"}
    BY <1>1, <1>4 DEF EndStage, Plain, Stages3, fixture, mem, memory, objects
  <2>2. ~(stage = "SetUp" /\ at = 1) \/ fixture.teardown = <<>>
    BY <1>1, <1>4, PlainIs DEF EndStage, AtStep
  <2>3. Idle' /\ PlainInv'
    BY <1>1, <2>1, <2>2 DEF Idle, PlainInv, Plain, Empty, mem
  <2> QED
    BY <1>2, <2>1, <2>3
<1>5. ASSUME NEW now \in Current, Busy(now) \/ Quiet(now), UNCHANGED <<test, stage>>
      PROVE  Phases' /\ ~twice'
  <2>1. Plain' /\ fixture' = fixture
    BY <1>5 DEF Plain, fixture
  <2>2. now = Script[at] /\ at <= Len(Script)
    BY <1>1, CurrentStep
  <2>3. CASE stage = "body"
    <3>1. Quiet(now)
      BY <1>1, <1>5, <2>3, PlainIs DEF Busy, Makes, Adds, Deletes, Resets, Gets, Commands,
         Removes, Alters, Memory, OnServer
    <3> QED
      BY <1>1, <1>2, <1>5, <2>1, <2>3, <3>1 DEF Quiet, PlainInv, Idle, Plain, Empty, mem
  <2>4. CASE stage = "SetUp"
    <3>1. at = 1 /\ now.do = "new" /\ now.objs = {"client"} /\ live = {} /\ fixture.teardown # <<>>
      BY <1>1, <2>2, <2>4, PlainIs DEF PlainInv
    <3>2. Makes(now) /\ at' = 2
      BY <1>5, <3>1 DEF Busy, Quiet, Adds, Deletes, Resets, Gets, Commands, Removes, Alters, Memory
    <3>3. Empty'
      BY <1>1, <3>2, NewIsTyped DEF Makes, Empty, PlainInv
    <3> QED
      BY <1>1, <1>2, <1>5, <2>1, <2>4, <3>1, <3>2, <3>3 DEF Makes, PlainInv, Idle, Plain
  <2>5. CASE stage = "TearDown"
    <3>1. /\ at = 1 /\ now.do = "delete" /\ now.objs = {"client"} /\ live = {"client"}
      BY <1>1, <2>2, <2>5, PlainIs DEF PlainInv
    <3>2. Deletes(now) /\ at' = 2
      BY <1>5, <3>1 DEF Busy, Quiet, Makes, Adds, Resets, Gets, Commands, Removes, Alters, Memory
    <3>3. Empty' /\ live' = {} /\ ~twice' /\ listed' = listed
      BY <1>1, <3>1, <3>2, NewIsTyped DEF Deletes, Deleted, Empty, PlainInv
    <3> QED
      BY <1>1, <1>2, <1>5, <2>1, <2>5, <3>1, <3>2, <3>3 DEF PlainInv, Idle, Plain
  <2> QED
    BY <2>3, <2>4, <2>5 DEF Plain, Stages3
<1>6. ~StartTest
  BY DEF StartTest, Plain, Stages3
<1>7. TypeInv
  BY DEF MemoryInv
<1> QED
  BY <1>3, <1>4, <1>5, <1>6, <1>7, StepIs

\* What a test makes is not what its fixture made.
LEMMA NewIsNew ==
  ASSUME NEW t \in Tests, Suite[t].fixture.own # {}, NEW f, f = Suite[t].fixture
  PROVE  /\ \A j \in DOMAIN f.setup : j >= Rest(f) /\ f.setup[j].do = "new" =>
              f.setup[j].objs \cap (f.setup[3].objs \cup f.own \cup f.extra) = {}
         /\ \A j \in DOMAIN Suite[t].body : Suite[t].body[j].do = "new" =>
              Suite[t].body[j].objs \cap (f.setup[3].objs \cup f.own \cup f.extra) = {}
<1> DEFINE s == f.setup
           b == Suite[t].body
<1>1. /\ CommandShape(f) /\ Arranges(Suite[t]) /\ GivesAway(s, Rest(f)) /\ GivesAway(b, 1)
  BY CommandTests
<1>2. IsList(s) /\ IsList(b)
  BY ScriptsAreWellMade
<1>3. /\ Len(s) \in Nat /\ DOMAIN s = 1 .. Len(s) /\ Len(b) \in Nat /\ DOMAIN b = 1 .. Len(b)
  BY <1>2, ListLength
<1>4. /\ f.own \cap Owned = {} /\ f.extra \cap Owned = {} /\ s[3].do = "new" /\ Len(s) >= 6
      /\ Rest(f) \in {7, 8}
  <2>1. f.own \cap Owned = {} /\ f.extra \cap Owned = {}
    BY <1>1, Apart
  <2> QED
    BY <1>1, <1>3, <2>1 DEF CommandShape, Rest
<1>5. /\ \A j \in DOMAIN s : 3 < j => Precedes(s[3], s[j])
      /\ \A j \in DOMAIN b : Precedes(s[3], b[j])
  BY <1>1, <1>3, <1>4 DEF Arranges
<1> HIDE DEF s, b
<1>6. ASSUME NEW j \in DOMAIN s, j >= Rest(f), s[j].do = "new"
      PROVE  s[j].objs \cap (s[3].objs \cup f.own \cup f.extra) = {}
  <2>1. s[j].objs \subseteq Owned
    BY <1>1, <1>3, <1>4, <1>6 DEF GivesAway, Owned, Memory
  <2>2. s[3].objs \cap s[j].objs = {}
    BY <1>3, <1>4, <1>5, <1>6 DEF Precedes
  <2> QED
    BY <1>4, <2>1, <2>2
<1>7. ASSUME NEW j \in DOMAIN b, b[j].do = "new"
      PROVE  b[j].objs \cap (s[3].objs \cup f.own \cup f.extra) = {}
  <2>1. b[j].objs \subseteq Owned
    BY <1>1, <1>3, <1>7 DEF GivesAway, Owned, Memory
  <2>2. s[3].objs \cap b[j].objs = {}
    BY <1>4, <1>5, <1>7 DEF Precedes
  <2> QED
    BY <1>4, <2>1, <2>2
<1> QED
  BY <1>6, <1>7 DEF s, b

\* What the next step of a SetUp is.
NextSetUp(now) ==
  /\ at = 1 => Resets(now)
  /\ at = 2 => Gets(now)
  /\ at = 3 => Makes(now) /\ now.objs = Base
  /\ at = 4 => Adds(now) /\ now.objs = Base
  /\ at = 5 /\ fixture.setup[5].do = "new" => Makes(now) /\ now.objs = fixture.own
  /\ at = 6 /\ fixture.setup[5].do # "new" => Makes(now) /\ now.objs = fixture.own
  /\ at = 5 /\ fixture.setup[5].do # "new" => Quiet(now)
  /\ at = 6 /\ fixture.setup[5].do = "new" => Quiet(now)
  /\ at = 7 => Makes(now) /\ now.objs = fixture.extra

\* The steps of a SetUp come one after the other.
LEMMA SettingUpStep ==
  ASSUME MemoryInv, SettingUp, [Next]_vars, ~ UNCHANGED <<mem, test, stage, at>>
  PROVE  /\ at \in 1 .. 7 /\ (at = 7 => fixture.extra # {}) /\ at < Rest(fixture)
         /\ \E now \in Current : NextSetUp(now)
         /\ at' = at + 1 /\ UNCHANGED <<test, stage>>
<1>1. TypeInv /\ TypeOK /\ SettingUpInv
  BY DEF MemoryInv, TypeInv
<1>2. /\ OnFixture /\ stage = "SetUp" /\ at < Rest(fixture) /\ CommandShape(fixture)
      /\ Script = fixture.setup /\ at \in 1 .. Len(Script) + 1 /\ Len(Script) \in Nat
  BY <1>1, OnFixtureIs DEF SettingUp
<1>3. at \in 1 .. 7 /\ (at = 7 => fixture.extra # {}) /\ AtStep
  BY <1>2 DEF Rest, CommandShape, AtStep
<1>4. ~StartTest /\ ~EndStage /\ ~EndTest
  BY <1>2, <1>3 DEF StartTest, EndStage, EndTest
<1>5. ASSUME NEW now \in Current
      PROVE  /\ at = 1 => now.do = "reset"
             /\ at = 2 => now.do = "getInstance"
             /\ at = 3 => now.do = "new" /\ now.objs = Base
             /\ at = 4 => now.do = "add" /\ now.objs = Base
             /\ at = 5 \/ at = 6 => IF (at = 5) = (fixture.setup[5].do = "new")
                                     THEN now.do = "new" /\ now.objs = fixture.own
                                     ELSE now.do = "clearArgs"
             /\ at = 7 => now.do = "new" /\ now.objs = fixture.extra
  <2>1. now = fixture.setup[at]
    BY <1>1, <1>2, CurrentStep
  <2>2. \/ /\ fixture.setup[5].do = "new" /\ fixture.setup[5].objs = fixture.own
           /\ fixture.setup[6].do = "clearArgs"
        \/ /\ fixture.setup[6].do = "new" /\ fixture.setup[6].objs = fixture.own
           /\ fixture.setup[5].do = "clearArgs"
    BY <1>2 DEF CommandShape
  <2> QED
    BY <1>2, <1>3, <2>1, <2>2 DEF CommandShape, Base
<1>6. ~Crashes
  BY <1>3, <1>5 DEF Crashes, Memory
<1>7. PICK now \in Current : (Busy(now) \/ Quiet(now)) /\ UNCHANGED <<test, stage>>
  BY <1>1, <1>4, <1>6, StepIs
<1>8. at' = at + 1
  BY <1>3, <1>5, <1>7 DEF Busy, Quiet, Memory
<1>9. NextSetUp(now)
  BY <1>3, <1>5, <1>7 DEF NextSetUp, Busy, Quiet, Makes, Adds, Deletes, Resets, Gets, Commands, Removes,
     Alters, Memory
<1> QED
  BY <1>2, <1>3, <1>7, <1>8, <1>9

\* The memory after each step of a SetUp.
LEMMA SettingUpMemory ==
  ASSUME MemoryInv, SettingUp, NEW now \in Current, NextSetUp(now), at \in 1 .. 7
  PROVE  /\ freed' = {} /\ Empty' /\ ~twice'
         /\ at <= 2 => live' = {}
         /\ at \in {3, 4} => live' = Base
         /\ at = 5 => live' = Base \cup IF fixture.setup[5].do = "new" THEN fixture.own ELSE {}
         /\ at = 6 => live' = Base \cup fixture.own
         /\ at = 7 => live' = Base \cup fixture.own \cup fixture.extra
         /\ listed' = IF at <= 3 THEN {} ELSE Base
<1>1. /\ freed = {} /\ Empty /\ ~twice
      /\ live = IF at <= 3 THEN {} ELSE Base \cup (IF HasOwn THEN fixture.own ELSE {})
      /\ listed = IF at <= 4 THEN {} ELSE Base
  BY DEF MemoryInv, SettingUpInv
<1>2. Makes(now) => Empty'
  BY <1>1, NewIsTyped DEF Makes, Empty
<1>3. CASE at = 1
  <2>1. Resets(now) /\ live = {} /\ listed = {}
    BY <1>1, <1>3 DEF NextSetUp
  <2>2. Empty'
    BY <1>1, <2>1 DEF Resets, Deleted, Empty
  <2>3. /\ live' = live \ listed /\ freed' = freed \cup listed /\ listed' = {}
        /\ twice' = (twice \/ ~(listed \subseteq live))
    BY <2>1 DEF Resets, Deleted
  <2>4. ~twice'
    BY <1>1, <2>1, <2>3
  <2> QED
    BY <1>1, <1>3, <2>1, <2>2, <2>3, <2>4
<1>4. CASE at = 2
  BY <1>1, <1>4 DEF NextSetUp, Gets, Empty
<1>5. CASE at = 3
  BY <1>1, <1>2, <1>5 DEF NextSetUp, Makes
<1>6. CASE at = 4
  BY <1>1, <1>6 DEF NextSetUp, Adds, Empty, HasOwn
<1>7. CASE at = 5
  BY <1>1, <1>2, <1>7 DEF NextSetUp, Makes, Quiet, mem, Empty, HasOwn
<1>8. CASE at = 6
  BY <1>1, <1>2, <1>8 DEF NextSetUp, Makes, Quiet, mem, Empty, HasOwn
<1>9. CASE at = 7
  BY <1>1, <1>2, <1>9 DEF NextSetUp, Makes, HasOwn
<1> QED
  BY <1>3, <1>4, <1>5, <1>6, <1>7, <1>8, <1>9

\* Every step of a SetUp keeps the invariant.
LEMMA SettingUpPhase ==
  ASSUME MemoryInv, SettingUp, [Next]_vars, ~ UNCHANGED <<mem, test, stage, at>>
  PROVE  Phases' /\ ~twice'
<1>1. TypeOK /\ OnFixture /\ stage = "SetUp"
  BY DEF MemoryInv, TypeInv, SettingUp
<1>2. /\ at \in 1 .. 7 /\ (at = 7 => fixture.extra # {}) /\ at < Rest(fixture)
      /\ at' = at + 1 /\ UNCHANGED <<test, stage>>
  BY SettingUpStep
<1>3. PICK now \in Current : NextSetUp(now)
  BY SettingUpStep
<1>4. /\ freed' = {} /\ Empty' /\ ~twice'
      /\ at <= 2 => live' = {}
      /\ at \in {3, 4} => live' = Base
      /\ at = 5 => live' = Base \cup IF fixture.setup[5].do = "new" THEN fixture.own ELSE {}
      /\ at = 6 => live' = Base \cup fixture.own
      /\ at = 7 => live' = Base \cup fixture.own \cup fixture.extra
      /\ listed' = IF at <= 3 THEN {} ELSE Base
  BY <1>2, <1>3, SettingUpMemory
<1>5. fixture' = fixture /\ Base' = Base /\ Script' = Script /\ Suite[test]' = Suite[test]
  BY <1>2, ScriptStays DEF fixture, Base
<1>6. Idle' /\ PlainInv' /\ TakingDownInv'
  BY <1>1, <1>2, <1>5 DEF Idle, PlainInv, Plain, TakingDownInv, TakingDown, OnFixture
<1>7. CASE at + 1 < Rest(fixture)
  <2>1. ActingInv'
    BY <1>1, <1>2, <1>5, <1>7 DEF ActingInv, Acting, Rest
  <2>2. SettingUpInv'
    BY <1>2, <1>4, <1>5, <1>7 DEF SettingUpInv, HasOwn, Rest
  <2> QED
    BY <1>4, <1>6, <2>1, <2>2 DEF Phases
<1>8. CASE at + 1 = Rest(fixture)
  <2>1. SettingUpInv'
    BY <1>2, <1>5, <1>8 DEF SettingUpInv, SettingUp
  <2>2. live' = Base \cup fixture.own \cup fixture.extra /\ listed' = Base
    BY <1>2, <1>4, <1>8 DEF Rest
  <2>3. /\ test \in Tests /\ CommandShape(fixture) /\ Script = fixture.setup /\ fixture.own # {}
        /\ IsList(Script) /\ GivesAway(Script, Rest(fixture))
    BY <1>1, OnFixtureIs DEF OnFixture
  <2>4. Base \subseteq Owned
    BY <2>3 DEF CommandShape, Base, Owned
  <2>5. Awaited(Script', at') = {}
    BY <1>2, <1>5, <1>8, <2>3, AwaitedAtRest DEF Rest
  <2>6. Unmade(Script, at)'
    BY <1>2, <1>4, <1>5, <1>8, <2>2, <2>3, NewIsNew DEF Unmade, Base, fixture
  <2>7. Unmade(Suite[test].body, 1)'
    BY <1>2, <1>4, <2>2, <2>3, NewIsNew DEF Unmade, Base, fixture
  <2>8. fixture.own \cap Owned = {} /\ fixture.extra \cap Owned = {}
    BY <2>3, Apart
  <2>9. ActingInv'
    BY <1>4, <1>5, <2>2, <2>8, <2>4, <2>5, <2>6, <2>7 DEF ActingInv, Empty
  <2> QED
    BY <1>4, <1>6, <2>1, <2>9 DEF Phases
<1> QED
  BY <1>2, <1>7, <1>8 DEF Rest

\* The script of an acting test.
LEMMA ActingIs ==
  ASSUME TypeOK, Acting
  PROVE  /\ OnFixture /\ test \in Tests /\ stage \in {"SetUp", "body"}
         /\ IsList(Script) /\ Len(Script) \in Nat /\ DOMAIN Script = 1 .. Len(Script)
         /\ at \in 1 .. Len(Script) + 1
         /\ \E from \in Nat \ {0} : from <= at /\ GivesAway(Script, from)
         /\ Script = IF stage = "SetUp" THEN fixture.setup ELSE Suite[test].body
         /\ Arranges(Suite[test])
         /\ fixture.own \cap Owned = {} /\ fixture.extra \cap Owned = {}
<1>1. OnFixture /\ stage \in {"SetUp", "body"} /\ (stage = "SetUp" => at >= Rest(fixture))
  BY DEF Acting
<1>2. /\ test \in Tests /\ CommandShape(fixture)
      /\ IsList(Script) /\ Len(Script) \in Nat /\ DOMAIN Script = 1 .. Len(Script)
      /\ at \in 1 .. Len(Script) + 1
      /\ stage = "SetUp" => Script = fixture.setup /\ GivesAway(Script, Rest(fixture))
      /\ stage = "body" => Script = Suite[test].body /\ GivesAway(Script, 1)
  BY <1>1, OnFixtureIs
<1>3. Rest(fixture) \in {7, 8}
  BY DEF Rest
<1>4. Arranges(Suite[test])
  BY <1>1, <1>2, CommandTests DEF OnFixture, fixture
<1> QED
  BY <1>1, <1>2, <1>3, <1>4, Apart

\* A step of the acting test, and what waits for the server before and after it.
LEMMA ActingStep ==
  ASSUME TypeOK, Acting, NEW now \in Current, Busy(now) \/ Quiet(now)
  PROVE  /\ now = Script[at] /\ at <= Len(Script) /\ at' > at /\ at' \in Nat
         /\ Makes(now) \/ Adds(now) \/ Commands(now) \/ Removes(now) \/ Alters(now) \/ Quiet(now)
         /\ Makes(now) => /\ Awaited(Script, at) = {} /\ Awaited(Script, at') = now.objs
                          /\ now.objs \subseteq Owned
         /\ Adds(now)  => Awaited(Script, at) = now.objs /\ Awaited(Script, at') = {}
         /\ Commands(now) \/ Removes(now) => Awaited(Script, at) = {} /\ Awaited(Script, at') = {}
         /\ Alters(now) \/ Quiet(now) => Awaited(Script, at') = Awaited(Script, at)
         /\ Makes(now) \/ Adds(now) => \E o \in Owned : now.objs = {o}
<1>1. /\ now = Script[at] /\ at <= Len(Script) /\ WellMade(now)
  BY CurrentStep
<1>2. PICK from \in Nat \ {0} : from <= at /\ GivesAway(Script, from)
  BY ActingIs
<1>3. /\ IsList(Script) /\ Len(Script) \in Nat /\ DOMAIN Script = 1 .. Len(Script)
      /\ at \in from .. Len(Script) /\ at \in Nat
  BY <1>1, <1>2, ActingIs
<1>4. now.do \in Memory => now.do \in {"new", "add"}
  BY <1>1, <1>2, <1>3 DEF GivesAway
<1>5. now.do = "add" => now.objs \subseteq Owned
  BY <1>1 DEF WellMade, Owned
<1>6. /\ now.do = "channel" => Awaited(Script, at + 1) = Awaited(Script, at)
      /\ now.do = "new" => Awaited(Script, at + 1) = now.objs /\ now.objs \subseteq Owned
      /\ now.do = "add" => Awaited(Script, at) = now.objs
      /\ now.do \notin {"channel", "add"} => Awaited(Script, at) = {}
  BY <1>1, <1>2, <1>3, <1>5, AwaitedSteps
<1>7. /\ Awaited(Script, Len(Script) + 1) = {}
      /\ now.do \notin {"channel", "new"} => Awaited(Script, at + 1) = {}
  BY <1>1, <1>2, <1>3, AwaitedAtRest
<1>8. /\ at' \in {at + 1, Len(Script) + 1}
      /\ now.do \in {"new", "channel"} => at' = at + 1
  BY DEF Busy, Quiet, Memory
<1>9. Makes(now) \/ Adds(now) \/ Commands(now) \/ Removes(now) \/ Alters(now) \/ Quiet(now)
  BY <1>4 DEF Busy, Deletes, Resets, Gets, Memory
<1>10. Makes(now) => /\ Awaited(Script, at) = {} /\ Awaited(Script, at') = now.objs
                     /\ now.objs \subseteq Owned
  BY <1>6, <1>8 DEF Makes
<1>11. Adds(now)  => Awaited(Script, at) = now.objs /\ Awaited(Script, at') = {}
  BY <1>6, <1>7, <1>8 DEF Adds
<1>12. Commands(now) \/ Removes(now) => Awaited(Script, at) = {} /\ Awaited(Script, at') = {}
  BY <1>6, <1>7, <1>8 DEF Commands, Removes
<1>13. Alters(now) => Awaited(Script, at') = Awaited(Script, at)
  BY <1>6, <1>8 DEF Alters
<1>14. Quiet(now) => Awaited(Script, at') = Awaited(Script, at)
  BY <1>6, <1>7, <1>8 DEF Quiet, Memory
<1>15. Makes(now) \/ Adds(now) => \E o \in Owned : now.objs = {o}
  <2>1. \A i \in from .. Len(Script) :
          Script[i].do = "new" => \E o \in Owned : Script[i].objs = {o}
    BY <1>2, <1>3 DEF GivesAway, Owned, Memory
  <2>2. now.do = "add" => \E k \in from .. at - 1 : Script[k].do = "new" /\ Script[k].objs = now.objs
    BY <1>1, <1>2, <1>3 DEF GivesAway
  <2> QED
    BY <1>1, <1>2, <1>3, <2>1, <2>2 DEF Makes, Adds
<1> QED
  BY <1>1, <1>3, <1>8, <1>9, <1>10, <1>11, <1>12, <1>13, <1>14, <1>15

\* What is still to be made is not there, and was not.
LEMMA UnmadeStays ==
  ASSUME TypeOK, ActingInv, Acting, NEW now \in Current, UNCHANGED <<test, stage>>,
         at' > at, at' \in Nat,
         Makes(now) \/ Adds(now) \/ Commands(now) \/ Removes(now) \/ Alters(now) \/ Quiet(now)
  PROVE  /\ Unmade(Script, at)'
         /\ stage = "SetUp" => Unmade(Suite[test].body, 1)'
<1>1. /\ DOMAIN Script = 1 .. Len(Script) /\ at \in 1 .. Len(Script) /\ Len(Script) \in Nat
      /\ now = Script[at] /\ Arranges(Suite[test])
      /\ Script = IF stage = "SetUp" THEN Suite[test].fixture.setup ELSE Suite[test].body
  BY ActingIs, CurrentStep DEF fixture
<1>2. Unmade(Script, at) /\ (stage = "SetUp" => Unmade(Suite[test].body, 1))
  BY DEF ActingInv
<1>3. /\ \A j \in DOMAIN Script : at < j => Precedes(now, Script[j])
      /\ stage = "SetUp" => \A j \in DOMAIN Suite[test].body : Precedes(now, Suite[test].body[j])
  BY <1>1 DEF Arranges
<1>4. ASSUME NEW after, Precedes(now, after), after.do = "new",
             after.objs \cap (live \cup freed) = {}
      PROVE  after.objs \cap (live' \cup freed') = {}
  <2>1. now.do \notin OnServer /\ (now.do = "new" => now.objs \cap after.objs = {})
    BY <1>4 DEF Precedes
  <2>2. CASE Makes(now)
    BY <1>4, <2>1, <2>2 DEF Makes
  <2>3. CASE ~Makes(now)
    <3>1. UNCHANGED <<live, freed>>
      BY <2>1, <2>3 DEF Adds, Commands, Removes, Alters, Quiet, mem, OnServer
    <3> QED
      BY <1>4, <3>1
  <2> QED
    BY <2>2, <2>3
<1>5. Script' = Script /\ Suite[test'] = Suite[test]
  BY ScriptStays
<1>6. ASSUME NEW j \in DOMAIN Script, j >= at', Script[j].do = "new"
      PROVE  Script[j].objs \cap (live' \cup freed') = {}
  <2>1. at < j /\ j >= at
    BY <1>1, <1>6
  <2> QED
    BY <1>1, <1>2, <1>3, <1>4, <1>6, <2>1 DEF Unmade
<1>7. ASSUME stage = "SetUp", NEW j \in DOMAIN Suite[test].body, j >= 1, Suite[test].body[j].do = "new"
      PROVE  Suite[test].body[j].objs \cap (live' \cup freed') = {}
  BY <1>2, <1>3, <1>4, <1>7 DEF Unmade
<1> QED
  BY <1>5, <1>6, <1>7 DEF Unmade

\* A command makes channels that are not there, or drops some of the server's.
LEMMA CommandIs ==
  ASSUME live \cap Owned \subseteq listed,
         \A ch \in Channels : chan[ch].members # {} => ch \in listed,
         NEW now, Commands(now)
  PROVE  \E made \in SUBSET Channels, emptied \in SUBSET (Channels \cap listed) :
           /\ made \cap live = {} /\ (made = {} \/ emptied = {})
           /\ live' = (live \cup made) \ emptied
           /\ freed' = freed \cup emptied
           /\ listed' = (listed \cup made) \ emptied
           /\ \A ch \in Channels : chan'[ch].members # {} => ch \in listed'
<1>1. PICK emptied \in {{}, Emptied} :
        /\ live' = (live \cup Made) \ emptied
        /\ freed' = freed \cup emptied
        /\ listed' = (listed \cup Made) \ emptied
  BY DEF Commands
<1>2. Made \subseteq Channels /\ Made \cap live = {}
  BY DEF Made, Owned
<1>3. Emptied \subseteq Channels \cap listed
  BY DEF Emptied
<1>4. Made = {} \/ Emptied = {}
  <2>1. CASE Fuller(chan')
    BY <2>1 DEF Fuller, Emptied
  <2>2. CASE Emptier(chan')
    BY <2>2 DEF Emptier, Made
  <2> QED
    BY <2>1, <2>2 DEF Commands
<1>5. \A ch \in Channels : chan'[ch].members # {} => ch \in listed'
  BY <1>1 DEF Made, Emptied
<1> QED
  BY <1>1, <1>2, <1>3, <1>4, <1>5

\* A step of an acting test leaves its memory in order.
LEMMA ActingObjects ==
  ASSUME MemoryInv, Acting, NEW now \in Current, Busy(now) \/ Quiet(now), UNCHANGED <<test, stage>>
  PROVE  ActingInv' /\ ~twice'
<1>1. TypeOK /\ ActingInv /\ ~twice
  BY DEF MemoryInv, TypeInv
<1> DEFINE waiting == Awaited(Script, at)
           next    == Awaited(Script, at')
<1>2. /\ Makes(now) \/ Adds(now) \/ Commands(now) \/ Removes(now) \/ Alters(now) \/ Quiet(now)
      /\ Makes(now) => waiting = {} /\ next = now.objs /\ now.objs \subseteq Owned
      /\ Adds(now)  => waiting = now.objs /\ next = {}
      /\ Commands(now) \/ Removes(now) => waiting = {} /\ next = {}
      /\ Alters(now) \/ Quiet(now) => next = waiting
      /\ at' > at /\ at' \in Nat
  BY <1>1, ActingStep
<1>3. /\ Unmade(Script, at)'
      /\ stage = "SetUp" => Unmade(Suite[test].body, 1)'
  BY <1>1, <1>2, UnmadeStays
<1>4. Script' = Script /\ fixture' = fixture /\ Awaited(Script, at)' = next
  BY ScriptStays DEF fixture
<1>5. fixture.own \cap Owned = {} /\ fixture.extra \cap Owned = {}
  BY <1>1, ActingIs
<1> HIDE DEF waiting, next
<1>6. /\ fixture.own \cup fixture.extra \subseteq live
      /\ live \subseteq Owned \cup fixture.own \cup fixture.extra
      /\ listed \subseteq live /\ waiting \subseteq live
      /\ live \cap Owned \subseteq listed \cup waiting
      /\ freed \subseteq Owned
      /\ \A ch \in Channels : chan[ch].members # {} => ch \in listed \cup waiting
  BY <1>1 DEF ActingInv, waiting
<1> DEFINE Fine == /\ fixture.own \cup fixture.extra \subseteq live'
                   /\ live' \subseteq Owned \cup fixture.own \cup fixture.extra
                   /\ listed' \subseteq live' /\ next \subseteq live'
                   /\ live' \cap Owned \subseteq listed' \cup next
                   /\ freed' \subseteq Owned
                   /\ \A ch \in Channels : chan'[ch].members # {} => ch \in listed' \cup next
                   /\ ~twice'
<1>7. Fine
  <2>1. CASE Makes(now)
    <3>1. NoChannel.members = {}
      BY NewIsTyped
    <3> QED
      BY <1>1, <1>2, <1>6, <2>1, <3>1 DEF Makes
  <2>2. CASE Adds(now)
    BY <1>1, <1>2, <1>6, <2>2 DEF Adds
  <2>3. CASE Commands(now)
    <3>1. PICK made \in SUBSET Channels, emptied \in SUBSET (Channels \cap listed) :
             /\ made \cap live = {} /\ (made = {} \/ emptied = {})
             /\ live' = (live \cup made) \ emptied
             /\ freed' = freed \cup emptied
             /\ listed' = (listed \cup made) \ emptied
             /\ \A ch \in Channels : chan'[ch].members # {} => ch \in listed'
      BY <1>2, <1>6, <2>3, CommandIs
    <3>2. ~twice'
      BY <1>1, <2>3 DEF Commands
    <3> QED
      BY <1>2, <1>5, <1>6, <2>3, <3>1, <3>2 DEF Owned
  <2>4. CASE Removes(now)
    <3>1. Clients \cap Channels = {}
      BY ObjectsAssumption
    <3>2. /\ now.c \in Clients
          /\ live' = live \ {now.c} /\ freed' = freed \cup {now.c} /\ listed' = listed \ {now.c}
          /\ \A ch \in Channels : chan'[ch].members \subseteq chan[ch].members
          /\ ~twice'
      BY <1>1, <2>4 DEF Removes, Emptier
    <3> QED
      BY <1>2, <1>5, <1>6, <2>4, <3>1, <3>2 DEF Owned
  <2>5. CASE Alters(now)
    <3>1. now.ch \in Channels => now.ch \in listed \cup waiting
      BY <1>6, <2>5 DEF Alters, Owned
    <3> QED
      BY <1>1, <1>2, <1>6, <2>5, <3>1 DEF Alters
  <2>6. CASE Quiet(now)
    BY <1>1, <1>2, <1>6, <2>6 DEF Quiet, mem
  <2> QED
    BY <1>2, <2>1, <2>2, <2>3, <2>4, <2>5, <2>6
<1> QED
  BY <1>3, <1>4, <1>7 DEF ActingInv

\* Every step of an acting test keeps the invariant, the last one, too.
LEMMA ActingPhase ==
  ASSUME MemoryInv, Acting, [Next]_vars, ~ UNCHANGED <<mem, test, stage, at>>, ~Crashes
  PROVE  Phases' /\ ~twice'
<1>1. TypeInv /\ TypeOK /\ ActingInv /\ ~twice
  BY DEF MemoryInv, TypeInv
<1>2. /\ OnFixture /\ stage \in {"SetUp", "body"} /\ Awaited(Script, Len(Script) + 1) = {}
      /\ test \in Tests /\ fixture.own # {} /\ at \in 1 .. Len(Script) + 1 /\ Len(Script) \in Nat
      /\ stage = "SetUp" => at >= Rest(fixture)
  <2>1. OnFixture /\ fixture.own # {} /\ (stage = "SetUp" => at >= Rest(fixture))
    BY DEF Acting, OnFixture
  <2> QED
    BY <1>1, <2>1, ActingIs, AwaitedAtRest
<1>3. CASE EndStage
  <2>1. /\ at = Len(Script) + 1 /\ at' = 1 /\ UNCHANGED <<mem, test>>
        /\ stage' = IF stage = "SetUp" THEN "body" ELSE "TearDown"
    BY <1>2, <1>3 DEF EndStage, AtStep, mem, memory, objects
  <2>2. fixture' = fixture /\ OnFixture'
    BY <1>2, <2>1 DEF fixture, OnFixture, Stages3
  <2>3. Idle' /\ PlainInv' /\ SettingUpInv'
    BY <1>2, <2>1, <2>2 DEF Idle, PlainInv, Plain, OnFixture, SettingUpInv, SettingUp
  <2>4. /\ fixture.own \cup fixture.extra \subseteq live
        /\ live \subseteq Owned \cup fixture.own \cup fixture.extra
        /\ listed \subseteq live
        /\ live \cap Owned \subseteq listed
        /\ freed \subseteq Owned
        /\ \A ch \in Channels : chan[ch].members # {} => ch \in listed
        /\ stage = "SetUp" => Unmade(Suite[test].body, 1)
    <3> DEFINE waiting == Awaited(Script, at)
    <3>1. waiting = {}
      BY <1>2, <2>1
    <3> QED
      BY <1>1, <3>1 DEF ActingInv
  <2>5. CASE stage = "SetUp"
    <3>1. stage' = "body" /\ Script' = Suite[test].body
      BY <2>1, <2>5 DEF Script, Stages
    <3>2. Awaited(Script', at') = {}
      BY <1>2, <2>1, <3>1, CommandTests, ScriptsAreWellMade, AwaitedAtRest DEF fixture
    <3>3. Unmade(Script, at)'
      BY <2>1, <2>4, <2>5, <3>1 DEF Unmade, mem
    <3>4. UNCHANGED <<live, freed, listed, chan, twice>>
      BY <2>1 DEF mem
    <3>5. ActingInv'
      BY <2>2, <2>4, <3>1, <3>2, <3>3, <3>4 DEF ActingInv
    <3>6. TakingDownInv'
      BY <3>1 DEF TakingDownInv, TakingDown
    <3> QED
      BY <1>1, <2>3, <3>4, <3>5, <3>6 DEF Phases
  <2>6. CASE stage # "SetUp"
    <3>1. stage' = "TearDown"
      BY <2>1, <2>6
    <3>2. ActingInv'
      BY <3>1 DEF ActingInv, Acting
    <3>3. UNCHANGED <<live, freed, listed, chan, twice>>
      BY <2>1 DEF mem
    <3>4. TakingDownInv'
      BY <2>1, <2>2, <2>4, <3>3 DEF TakingDownInv
    <3> QED
      BY <1>1, <2>3, <3>2, <3>3, <3>4 DEF Phases
  <2> QED
    BY <2>5, <2>6
<1>4. ASSUME NEW now \in Current, Busy(now) \/ Quiet(now), UNCHANGED <<test, stage>>
      PROVE  Phases' /\ ~twice'
  <2>1. ActingInv' /\ ~twice'
    BY <1>4, ActingObjects
  <2>2. at' > at /\ at' \in Nat
    BY <1>1, <1>4, ActingStep
  <2>3. fixture' = fixture /\ Rest(fixture') = Rest(fixture) /\ Rest(fixture) \in {7, 8}
    BY <1>4 DEF fixture, Rest
  <2>4. Idle' /\ PlainInv' /\ SettingUpInv' /\ TakingDownInv'
    BY <1>2, <1>4, <2>2, <2>3 DEF Idle, PlainInv, Plain, SettingUpInv, SettingUp, OnFixture,
       TakingDownInv, TakingDown
  <2> QED
    BY <2>1, <2>4 DEF Phases
<1>5. ~StartTest /\ ~EndTest
  BY <1>2 DEF StartTest, EndTest
<1> QED
  BY <1>1, <1>3, <1>4, <1>5, StepIs

\* What the next step of a TearDown is.
NextTearDown(now) ==
  LET last == IF fixture.extra = {} THEN 1 ELSE 2 IN
  /\ at < last     => Deletes(now) /\ now.objs = fixture.extra
  /\ at = last     => Deletes(now) /\ now.objs = fixture.own
  /\ at = last + 1 => Resets(now)

\* The steps of a TearDown come one after the other.
LEMMA TakingDownStep ==
  ASSUME MemoryInv, TakingDown, [Next]_vars, ~ UNCHANGED <<mem, test, stage, at>>, ~EndTest,
         NEW last, last = IF fixture.extra = {} THEN 1 ELSE 2
  PROVE  /\ at \in 1 .. last + 1
         /\ \E now \in Current : NextTearDown(now)
         /\ at' = at + 1 /\ UNCHANGED <<test, stage>>
<1>1. TypeInv /\ TypeOK /\ OnFixture /\ stage = "TearDown" /\ last \in {1, 2}
  BY DEF MemoryInv, TypeInv, TakingDown
<1>2. CommandShape(fixture) /\ Script = fixture.teardown /\ at \in 1 .. Len(Script) + 1
  BY <1>1, OnFixtureIs
<1>3. Len(Script) = last + 1
  BY <1>2 DEF CommandShape
<1>4. ASSUME NEW now \in Current
      PROVE  /\ at \in 1 .. last + 1
             /\ at < last     => now.do = "delete" /\ now.objs = fixture.extra
             /\ at = last     => now.do = "delete" /\ now.objs = fixture.own
             /\ at = last + 1 => now.do = "reset"
  <2>1. now = fixture.teardown[at] /\ at \in 1 .. last + 1
    BY <1>1, <1>2, <1>3, CurrentStep
  <2> QED
    BY <1>2, <2>1 DEF CommandShape
<1>5. ASSUME NEW now \in Current
      PROVE  now.do \in {"delete", "reset"}
  BY <1>1, <1>4
<1>6. ~Crashes /\ ~StartTest /\ ~EndStage
  BY <1>1, <1>5 DEF Crashes, StartTest, EndStage, Memory
<1>7. PICK now \in Current : (Busy(now) \/ Quiet(now)) /\ UNCHANGED <<test, stage>>
  BY <1>1, <1>6, StepIs
<1>8. at' = at + 1 /\ (Deletes(now) \/ Resets(now))
  BY <1>5, <1>7 DEF Busy, Quiet, Makes, Adds, Gets, Commands, Removes, Alters, Memory
<1>9. NextTearDown(now)
  BY <1>4, <1>8 DEF NextTearDown, Deletes, Resets
<1> QED
  BY <1>4, <1>7, <1>8, <1>9

\* Every step of a TearDown keeps the invariant, the end of the test, too.
LEMMA TakingDownPhase ==
  ASSUME MemoryInv, TakingDown, [Next]_vars, ~ UNCHANGED <<mem, test, stage, at>>
  PROVE  Phases' /\ ~twice'
<1> DEFINE last == IF fixture.extra = {} THEN 1 ELSE 2
<1>1. TypeOK /\ OnFixture /\ stage = "TearDown" /\ last \in {1, 2} /\ ~twice
  BY DEF MemoryInv, TypeInv, TakingDown
<1>2. CommandShape(fixture) /\ Script = fixture.teardown /\ at \in 1 .. Len(Script) + 1
  BY <1>1, OnFixtureIs
<1>3. /\ fixture.own \cap Owned = {} /\ fixture.extra \cap Owned = {}
      /\ fixture.own \cap fixture.extra = {}
  BY <1>2, Apart
<1>4. /\ listed \subseteq live
      /\ live \subseteq listed \cup (IF at <= last THEN fixture.own ELSE {})
                             \cup (IF at < last THEN fixture.extra ELSE {})
      /\ at < last => fixture.extra \subseteq live
      /\ at <= last => fixture.own \subseteq live
      /\ at = last + 2 => listed = {}
      /\ \A ch \in Channels : chan[ch].members # {} => ch \in listed
  BY DEF MemoryInv, TakingDownInv
<1>5. CASE EndTest
  <2>1. at = last + 2
    <3>1. ~(at <= Len(Script)) /\ Len(Script) = last + 1
      BY <1>2, <1>5 DEF EndTest, AtStep, CommandShape
    <3> QED
      BY <1>1, <1>2, <3>1
  <2>2. /\ stage' = "idle" /\ live' = {} /\ listed' = {} /\ freed' = {} /\ ~twice'
        /\ UNCHANGED chan
    BY <1>1, <1>4, <1>5, <2>1 DEF EndTest, objects
  <2>3. Idle'
    BY <1>4, <2>1, <2>2 DEF Idle, Empty
  <2>4. PlainInv' /\ SettingUpInv' /\ ActingInv' /\ TakingDownInv'
    BY <2>2 DEF PlainInv, Plain, SettingUpInv, SettingUp, ActingInv, Acting, TakingDownInv, TakingDown,
       OnFixture, Stages3
  <2> QED
    BY <2>2, <2>3, <2>4 DEF Phases
<1>6. CASE ~EndTest
  <2> HIDE DEF last
  <2>1. at \in 1 .. last + 1 /\ at' = at + 1 /\ UNCHANGED <<test, stage>>
    BY <1>6, TakingDownStep DEF last
  <2>2. PICK now \in Current : NextTearDown(now)
    BY <1>6, TakingDownStep DEF last
  <2>3. /\ at < last     => Deletes(now) /\ now.objs = fixture.extra
        /\ at = last     => Deletes(now) /\ now.objs = fixture.own
        /\ at = last + 1 => Resets(now)
    BY <2>2 DEF NextTearDown, last
  <2>4. fixture' = fixture /\ OnFixture' /\ stage' = "TearDown" /\ last' = last
    BY <1>1, <2>1 DEF fixture, OnFixture, last
  <2>5. Idle' /\ PlainInv' /\ SettingUpInv' /\ ActingInv'
    BY <2>4 DEF Idle, PlainInv, Plain, SettingUpInv, SettingUp, ActingInv, Acting, OnFixture
  <2>6. NoChannel.members = {}
    BY NewIsTyped
  <2> DEFINE Fine ==
               /\ listed' \subseteq live'
               /\ live' \subseteq listed' \cup (IF at' <= last THEN fixture.own ELSE {})
                                      \cup (IF at' < last THEN fixture.extra ELSE {})
               /\ at' < last => fixture.extra \subseteq live'
               /\ at' <= last => fixture.own \subseteq live'
               /\ at' = last + 2 => listed' = {}
               /\ \A ch \in Channels : chan'[ch].members # {} => ch \in listed'
               /\ ~twice'
  <2>7. ASSUME NEW S, Deleted(S)
        PROVE  /\ live' = live \ S /\ (S \subseteq live => ~twice')
               /\ \A ch \in Channels : chan'[ch].members # {} => ch \notin S /\ chan[ch].members # {}
    BY <1>1, <2>6, <2>7 DEF Deleted
  <2>8. listed \subseteq Owned
    BY <1>1 DEF TypeOK, Owned
  <2>9. Fine
    <3>1. CASE at < last
      BY <1>1, <1>3, <1>4, <2>1, <2>3, <2>7, <2>8, <3>1 DEF Deletes
    <3>2. CASE at = last
      BY <1>1, <1>3, <1>4, <2>1, <2>3, <2>7, <2>8, <3>2 DEF Deletes
    <3>3. CASE at = last + 1
      BY <1>1, <1>3, <1>4, <2>1, <2>3, <2>7, <2>8, <3>3 DEF Resets
    <3> QED
      BY <1>1, <2>1, <3>1, <3>2, <3>3
  <2>10. TakingDownInv'
    BY <2>4, <2>9 DEF TakingDownInv, last
  <2> QED
    BY <2>5, <2>9, <2>10 DEF Phases
<1> QED
  BY <1>5, <1>6

\* `twice' is true or false.
LEMMA TwiceNext ==
  ASSUME twice \in BOOLEAN, [Next]_vars
  PROVE  twice' \in BOOLEAN
<1>1. ASSUME NEW S, Deleted(S)
      PROVE  twice' \in BOOLEAN
  BY <1>1 DEF Deleted
<1>2. DeleteStep \/ ResetStep => \E S : Deleted(S)
  BY DEF DeleteStep, ResetStep
<1>3. [Next]_vars /\ ~DeleteStep /\ ~ResetStep => UNCHANGED twice
  BY DEF Next, vars, StartTest, EndStage, EndTest, NewStep, AddStep, GetInstanceStep, ArgsStep,
     ExecuteStep, RemoveClientStep, ClientStep, ChannelStep, BufferStep, KeepStep, AssertStep,
     WildStep, Tick
<1> QED
  BY <1>1, <1>2, <1>3

\* The invariant holds at first.
LEMMA MemoryInit == Init => MemoryInv
<1> SUFFICES ASSUME Init
             PROVE  MemoryInv
  OBVIOUS
<1>1. /\ stage = "idle" /\ live = {} /\ freed = {} /\ listed = {} /\ twice = FALSE
      /\ chan = [ch \in Channels |-> NoChannel]
  BY Zenon DEF Init
<1>2. Empty
  BY <1>1, NewIsTyped DEF Empty
<1> QED
  BY <1>1, <1>2, TypeInit DEF MemoryInv, Idle, PlainInv, Plain, SettingUpInv, SettingUp, ActingInv, Acting,
     TakingDownInv, TakingDown, OnFixture, Stages3

\* Every step keeps it.
LEMMA MemoryNext ==
  ASSUME MemoryInv, [Next]_vars
  PROVE  MemoryInv'
<1>1. TypeInv /\ TypeOK /\ Phases /\ ~twice
  BY DEF MemoryInv, TypeInv, Phases
<1>2. TypeInv'
  BY <1>1, TypeNext
<1>3. Phases' /\ ~twice'
  <2>1. CASE UNCHANGED <<mem, test, stage, at>>
    BY <1>1, <2>1, Resting DEF mem
  <2>2. CASE Crashes
    BY <1>1, <2>2, Crashed DEF Crashes, mem
  <2>3. CASE ~Crashes /\ ~ UNCHANGED <<mem, test, stage, at>>
    <3>1. CASE stage = "idle"
      <4>1. StartTest
        BY <1>1, <2>3, <3>1, StepIs, NoStep DEF EndStage, EndTest
      <4> QED
        BY <3>1, <4>1, IdlePhase
    <3>2. stage # "crashed"
      BY <1>1, <2>3, StepIs, NoStep DEF StartTest, EndStage, EndTest
    <3> QED
      BY <1>1, <2>3, <3>1, <3>2, StageOf, PlainPhase, SettingUpPhase, ActingPhase, TakingDownPhase
  <2> QED
    BY <2>1, <2>2, <2>3
<1>4. (twice = FALSE)'
  BY <1>3, TwiceNext DEF MemoryInv
<1> QED
  BY <1>2, <1>3, <1>4, PTL DEF MemoryInv, Phases

-----------------------------------------------------------------------------
(* The refinement *)

\* What TestFixture sees.
Seen ==
  /\ Located
  /\ AtRest = (Position = "idle")
  /\ stage # "idle" => Own = fixture.own /\ Extra = fixture.extra
  /\ OnFixture => /\ live \cap FixtureObjects = live
                  /\ Own \subseteq CommandObjects \cup {"cmdManager"}
                  /\ Extra \subseteq {"whoCmd", "whoisCmd", "listCmd"}
  /\ Plain \/ stage = "idle" => live \cap FixtureObjects = {}

\* The invariant tells what TestFixture sees.
LEMMA Sight == MemoryInv => Seen
<1> SUFFICES ASSUME MemoryInv
             PROVE  Seen
  OBVIOUS
<1>1. TypeOK
  BY DEF MemoryInv, TypeInv
<1>2. stage # "idle" => Own = fixture.own /\ Extra = fixture.extra
  BY DEF Own, Extra
<1>3. ASSUME OnFixture
      PROVE  /\ live \cap FixtureObjects = live
             /\ Own \subseteq CommandObjects \cup {"cmdManager"}
             /\ Extra \subseteq {"whoCmd", "whoisCmd", "listCmd"}
  <2>1. CommandShape(fixture) /\ Own = fixture.own /\ Extra = fixture.extra
    BY <1>1, <1>3, OnFixtureIs
  <2>2. fixture.own \cup fixture.extra \cup Owned \subseteq FixtureObjects
    BY <2>1, Apart
  <2>3. listed \subseteq Owned /\ Base \subseteq Owned
    BY <1>1, <2>1 DEF TypeOK, CommandShape, Base, Owned
  <2>4. CASE SettingUp
    BY <2>1, <2>2, <2>3, <2>4 DEF MemoryInv, SettingUpInv, CommandShape
  <2>5. CASE Acting
    BY <2>1, <2>2, <2>3, <2>5 DEF MemoryInv, ActingInv, CommandShape
  <2>6. CASE TakingDown
    BY <2>1, <2>2, <2>3, <2>6 DEF MemoryInv, TakingDownInv, CommandShape
  <2> QED
    BY <1>1, <1>3, <2>4, <2>5, <2>6 DEF SettingUp, Acting, TakingDown, OnFixture, Stages3, Rest, TypeOK
<1>4. Plain \/ stage = "idle" => live \cap FixtureObjects = {}
  BY ObjectsAssumption DEF MemoryInv, Idle, PlainInv
<1> QED
  BY <1>2, <1>3, <1>4, Where DEF Seen, AtRest

\* TestFixture does not see a step that leaves its view alone.
LEMMA Unseen ==
  ASSUME UNCHANGED <<Position, listed, instance, twice>>,
         live' \cap FixtureObjects = live \cap FixtureObjects,
         AtRest = (Position = "idle"), AtRest' = (Position' = "idle"),
         Position # "idle" => UNCHANGED <<freed, Own, Extra>>
  PROVE  UNCHANGED Owners!vars
<1>1. CASE Position = "idle"
  BY <1>1 DEF Owners!vars
<1>2. CASE Position # "idle"
  BY <1>2 DEF Owners!vars
<1> QED
  BY <1>1, <1>2

\* It sees nothing of a step that changes nothing of this.
LEMMA RestingSeen ==
  ASSUME UNCHANGED <<mem, test, stage, at>>
  PROVE  UNCHANGED Owners!vars
<1>1. Script' = Script /\ Own' = Own /\ Extra' = Extra
  BY ScriptStays DEF Own, Extra, fixture
<1>2. Position' = Position
  BY <1>1 DEF Position, InSetUp, InTearDown, AtStep, mem
<1>3. AtRest' = AtRest
  BY <1>2 DEF AtRest
<1> QED
  BY <1>1, <1>2, <1>3 DEF Owners!vars, mem

\* Each step of a SetUp is the one TestFixture has at that place.
LEMMA SettingUpSeen ==
  ASSUME MemoryInv, MemoryInv', SettingUp, [Next]_vars, ~ UNCHANGED <<mem, test, stage, at>>
  PROVE  Owners!Next \/ UNCHANGED Owners!vars
<1>1. Seen /\ Seen' /\ Located /\ Located' /\ TypeOK /\ OnFixture /\ stage = "SetUp"
  BY Sight, Where, PTL DEF MemoryInv, TypeInv, SettingUp, Seen
<1>2. /\ at \in 1 .. 7 /\ (at = 7 => fixture.extra # {}) /\ at < Rest(fixture)
      /\ at' = at + 1 /\ UNCHANGED <<test, stage>>
  BY SettingUpStep
<1>3. PICK now \in Current : NextSetUp(now)
  BY SettingUpStep
<1>4. /\ OnFixture' /\ fixture' = fixture
      /\ HasOwn' <=> (at' = 7 \/ (at' = 6 /\ fixture.setup[5].do = "new"))
      /\ (SettingUp' <=> at' < Rest(fixture)) /\ (Acting' <=> at' >= Rest(fixture))
  BY <1>1, <1>2 DEF OnFixture, fixture, SettingUp, Acting, HasOwn
<1>5. /\ freed = {} /\ ~twice /\ freed' = {} /\ ~twice'
      /\ live = IF at <= 3 THEN {} ELSE Base \cup (IF HasOwn THEN fixture.own ELSE {})
      /\ listed = IF at <= 4 THEN {} ELSE Base
      /\ at <= 2 => live' = {}
      /\ at \in {3, 4} => live' = Base
      /\ at = 5 => live' = Base \cup IF fixture.setup[5].do = "new" THEN fixture.own ELSE {}
      /\ at = 6 => live' = Base \cup fixture.own
      /\ at = 7 => live' = Base \cup fixture.own \cup fixture.extra
      /\ listed' = IF at <= 3 THEN {} ELSE Base
  BY <1>2, <1>3, SettingUpMemory DEF MemoryInv, SettingUpInv
<1>6. /\ fixture.own \cap Owned = {} /\ fixture.extra \cap Owned = {}
      /\ fixture.own \cap fixture.extra = {} /\ Base \subseteq Clients /\ Clients \subseteq Owned
  BY <1>1, OnFixtureIs, Apart DEF CommandShape, Base, Owned
<1>7. /\ at = 1 => Position = "idle" /\ Position' = "instance"
      /\ at = 2 => Position = "instance" /\ Position' = "clients"
      /\ at = 3 => Position = "clients" /\ Position' = "add"
      /\ at = 4 => Position = "add" /\ Position' = "commands"
  <2>1. /\ at = 1 => Position = "idle"
        /\ at = 2 => Position = "instance"
        /\ at = 3 => Position = "clients"
        /\ at = 4 => Position = "add"
    BY <1>1 DEF Located
  <2>2. at \in {1, 2, 3, 4} => SettingUp' /\ (at = 4 => ~HasOwn')
    BY <1>2, <1>4 DEF Rest
  <2>3. /\ SettingUp' /\ at' = 2 => Position' = "instance"
        /\ SettingUp' /\ at' = 3 => Position' = "clients"
        /\ SettingUp' /\ at' = 4 => Position' = "add"
        /\ SettingUp' /\ at' = 5 /\ ~HasOwn' => Position' = "commands"
    BY <1>1 DEF Located
  <2> QED
    BY <1>2, <2>1, <2>2, <2>3
<1>8. /\ at = 5 => Position = "commands"
      /\ at = 6 /\ fixture.setup[5].do # "new" => Position = "commands"
      /\ at = 5 /\ fixture.setup[5].do # "new" => Position' = "commands"
  <2>1. /\ at = 5 => Position = "commands"
        /\ at = 6 /\ fixture.setup[5].do # "new" => Position = "commands"
    BY <1>1 DEF Located, HasOwn
  <2>2. SettingUp' /\ at' = 6 /\ ~HasOwn' => Position' = "commands"
    BY <1>1 DEF Located
  <2>3. at = 5 => SettingUp'
    BY <1>2, <1>4 DEF Rest
  <2> QED
    BY <1>2, <1>4, <2>1, <2>2, <2>3
<1>9. /\ at = 6 /\ fixture.setup[5].do = "new" =>
           Position = IF fixture.extra = {} THEN "body" ELSE "derived"
      /\ at = 7 => Position = "derived"
  BY <1>1, <1>2, <1>4 DEF Located, HasOwn, Rest
<1>10. /\ (at = 5 /\ fixture.setup[5].do = "new") \/ at = 6 =>
           Position' = IF fixture.extra = {} THEN "body" ELSE "derived"
       /\ at = 7 => Position' = "body"
  <2>1. SettingUp' /\ HasOwn' => Position' = IF fixture.extra = {} THEN "body" ELSE "derived"
    BY <1>1, <1>4 DEF Located
  <2>2. Acting' => Position' = "body"
    BY <1>1 DEF Located
  <2>3. /\ at = 5 => SettingUp'
        /\ at = 6 => IF fixture.extra = {} THEN Acting' ELSE SettingUp'
        /\ at = 7 => Acting'
    BY <1>2, <1>4 DEF Rest
  <2> QED
    BY <1>2, <1>4, <2>1, <2>2, <2>3
<1>11. /\ Own = fixture.own /\ Extra = fixture.extra /\ Own' = fixture.own /\ Extra' = fixture.extra
       /\ live \cap FixtureObjects = live /\ live' \cap FixtureObjects = live'
       /\ Own \subseteq CommandObjects \cup {"cmdManager"}
       /\ Extra \subseteq {"whoCmd", "whoisCmd", "listCmd"}
       /\ AtRest = (Position = "idle") /\ AtRest' = (Position' = "idle")
  BY <1>1, <1>2, <1>4 DEF Seen
<1>12. CASE at = 1
  <2>1. /\ listed' = {} /\ instance' = FALSE /\ twice' = (twice \/ ~(listed \subseteq live))
        /\ live = {} /\ live' = {} /\ listed = {}
    BY <1>3, <1>5, <1>12 DEF NextSetUp, Resets, Deleted
  <2>2. Position = "idle" /\ Position' = "instance" /\ AtRest /\ ~AtRest'
    BY <1>7, <1>11, <1>12
  <2>3. Owners!Delete(listed)
    BY <1>5, <2>1, <2>2 DEF Owners!Delete
  <2>4. Owners!SetUpReset
    BY <1>11, <2>1, <2>2, <2>3 DEF Owners!SetUpReset, Owners!ResetInstance
  <2> QED
    BY <2>4 DEF Owners!Next
<1>13. CASE at = 2
  <2>1. instance' = TRUE /\ UNCHANGED <<live, freed, listed, twice>>
    BY <1>3, <1>13 DEF NextSetUp, Gets
  <2>2. Position = "instance" /\ Position' = "clients" /\ ~AtRest /\ ~AtRest'
    BY <1>7, <1>11, <1>13
  <2>3. Owners!GetInstance
    BY <1>11, <2>1, <2>2 DEF Owners!GetInstance
  <2> QED
    BY <2>3 DEF Owners!Next
<1>14. CASE at = 3
  <2>1. UNCHANGED <<instance, listed, twice>> /\ live = {} /\ live' = Base /\ UNCHANGED freed /\ freed = {}
    BY <1>3, <1>5, <1>14 DEF NextSetUp, Makes
  <2>2. Position = "clients" /\ Position' = "add" /\ ~AtRest /\ ~AtRest'
    BY <1>7, <1>11, <1>14
  <2>3. Owners!New(Base)
    BY <1>11, <2>1 DEF Owners!New
  <2>4. Owners!NewClients
    BY <1>6, <1>11, <2>1, <2>2, <2>3 DEF Owners!NewClients
  <2> QED
    BY <2>4 DEF Owners!Next
<1>15. CASE at = 4
  <2>1. UNCHANGED <<instance, live, freed, twice>> /\ listed' = live
    BY <1>3, <1>5, <1>15 DEF NextSetUp, Adds, HasOwn
  <2>2. Position = "add" /\ Position' = "commands" /\ ~AtRest /\ ~AtRest'
    BY <1>7, <1>11, <1>15
  <2>3. Owners!AddClients
    BY <1>11, <2>1, <2>2 DEF Owners!AddClients
  <2> QED
    BY <2>3 DEF Owners!Next
<1>16. CASE at \in {5, 6} /\ (at = 5) = (fixture.setup[5].do = "new")
  <2>1. Makes(now) /\ now.objs = fixture.own /\ ~HasOwn
    BY <1>3, <1>16 DEF NextSetUp, HasOwn
  <2>2. /\ UNCHANGED <<instance, listed, twice>> /\ live = Base /\ live' = Base \cup fixture.own
        /\ freed = {} /\ UNCHANGED freed
    BY <1>5, <1>16, <2>1 DEF Makes
  <2>3. /\ Position = "commands" /\ ~AtRest /\ ~AtRest'
        /\ Position' = IF fixture.extra = {} THEN "body" ELSE "derived"
    BY <1>8, <1>10, <1>11, <1>16
  <2>4. Owners!New(fixture.own)
    BY <1>6, <1>11, <2>2, <2>3 DEF Owners!New
  <2>5. Owners!NewCommands
    BY <1>11, <2>2, <2>3, <2>4 DEF Owners!NewCommands
  <2> QED
    BY <2>5 DEF Owners!Next
<1>17. CASE at \in {5, 6} /\ (at = 5) # (fixture.setup[5].do = "new")
  <2>1. UNCHANGED mem
    BY <1>3, <1>17 DEF NextSetUp, Quiet
  <2>2. Position' = Position /\ Position # "idle" /\ ~AtRest /\ ~AtRest'
    BY <1>8, <1>9, <1>10, <1>11, <1>17
  <2>3. UNCHANGED Owners!vars
    BY <1>11, <2>1, <2>2 DEF Owners!vars, mem
  <2> QED
    BY <2>3
<1>18. CASE at = 7
  <2>1. Makes(now) /\ now.objs = fixture.extra /\ HasOwn
    BY <1>3, <1>18 DEF NextSetUp, HasOwn
  <2>2. /\ UNCHANGED <<instance, listed, twice>> /\ live = Base \cup fixture.own
        /\ live' = live \cup fixture.extra /\ freed = {} /\ UNCHANGED freed
    BY <1>5, <1>18, <2>1 DEF Makes
  <2>3. Position = "derived" /\ Position' = "body" /\ ~AtRest /\ ~AtRest'
    BY <1>9, <1>10, <1>11, <1>18
  <2>4. Owners!New(fixture.extra)
    BY <1>6, <1>11, <2>2, <2>3 DEF Owners!New
  <2>5. Owners!NewExtra
    BY <1>11, <2>2, <2>3, <2>4 DEF Owners!NewExtra
  <2> QED
    BY <2>5 DEF Owners!Next
<1> QED
  BY <1>2, <1>12, <1>13, <1>14, <1>15, <1>16, <1>17, <1>18

\* Each step of an acting test makes, gives, drops, or ends the body.
LEMMA ActingSeen ==
  ASSUME MemoryInv, MemoryInv', Acting, [Next]_vars, ~ UNCHANGED <<mem, test, stage, at>>, ~Crashes
  PROVE  Owners!Next \/ UNCHANGED Owners!vars
<1>1. /\ Seen /\ Seen' /\ Located /\ Located' /\ TypeInv /\ TypeOK /\ ActingInv
      /\ twice = FALSE /\ (twice = FALSE)' /\ OnFixture
  BY Sight, Where, PTL DEF MemoryInv, TypeInv, Acting, Seen
<1> DEFINE waiting == Awaited(Script, at)
<1>2. /\ listed \subseteq live /\ waiting \subseteq live
      /\ live \cap Owned \subseteq listed \cup waiting
      /\ freed \subseteq Owned /\ Unmade(Script, at)
      /\ \A ch \in Channels : chan[ch].members # {} => ch \in listed \cup waiting
  BY <1>1 DEF ActingInv
<1> HIDE DEF waiting
<1>3. /\ Own = fixture.own /\ Extra = fixture.extra /\ live \cap FixtureObjects = live
      /\ Position = "body" /\ ~AtRest
  BY <1>1 DEF Seen, Located, OnFixture, Stages3
<1>4. Owned \subseteq FixtureObjects
  BY DEF Owned, FixtureObjects
<1>5. CASE EndStage
  <2>1. /\ UNCHANGED <<mem, test>> /\ fixture' = fixture /\ OnFixture' /\ at' = 1 /\ ~AtStep
        /\ IF stage = "SetUp" THEN stage' = "body" ELSE stage' = "TearDown"
    BY <1>1, <1>5 DEF EndStage, OnFixture, fixture, memory, objects, mem, Stages3
  <2>2. /\ Own' = fixture.own /\ Extra' = fixture.extra /\ AtRest' = (Position' = "idle")
    BY <1>1, <2>1 DEF Seen
  <2>3. CASE stage = "SetUp"
    <3>1. Position' = "body"
      BY <1>1, <2>1, <2>3 DEF Located, Acting
    <3>2. UNCHANGED Owners!vars
      BY <1>3, <2>1, <2>2, <3>1 DEF Owners!vars, mem
    <3> QED
      BY <3>2
  <2>4. CASE stage # "SetUp"
    <3>1. Position' = IF fixture.extra = {} THEN "delete" ELSE "deleteExtra"
      BY <1>1, <2>1, <2>4 DEF Located, TakingDown
    <3>2. waiting = {}
      <4>1. /\ IsList(Script) /\ Len(Script) \in Nat /\ at \in 1 .. Len(Script) + 1
            /\ \E from \in Nat \ {0} : from <= at /\ GivesAway(Script, from)
        BY <1>1, ActingIs
      <4>2. at = Len(Script) + 1
        BY <2>1, <4>1 DEF AtStep
      <4> QED
        BY <4>1, <4>2, AwaitedAtRest DEF waiting
    <3>3. Owners!EndBody
      BY <1>2, <1>3, <2>1, <2>2, <3>1, <3>2 DEF Owners!EndBody, Owners!Owned, Owned, mem
    <3> QED
      BY <3>3 DEF Owners!Next
  <2> QED
    BY <2>3, <2>4
<1>6. ASSUME NEW now \in Current, Busy(now) \/ Quiet(now), UNCHANGED <<test, stage>>
      PROVE  Owners!Next \/ UNCHANGED Owners!vars
  <2>1. /\ now = Script[at] /\ at <= Len(Script) /\ at' > at /\ at' \in Nat
        /\ Makes(now) \/ Adds(now) \/ Commands(now) \/ Removes(now) \/ Alters(now) \/ Quiet(now)
        /\ Adds(now) => waiting = now.objs
        /\ Commands(now) => waiting = {}
        /\ Makes(now) \/ Adds(now) => \E o \in Owned : now.objs = {o}
    BY <1>1, <1>6, ActingStep DEF waiting
  <2>2. fixture' = fixture /\ OnFixture' /\ Acting'
    <3>1. fixture' = fixture /\ Rest(fixture) \in {7, 8} /\ at \in Nat
      BY <1>1, <1>6, ActingIs DEF fixture, Rest
    <3> QED
      BY <1>1, <1>6, <2>1, <3>1 DEF OnFixture, Acting
  <2>3. /\ Own' = Own /\ Extra' = Extra /\ live' \cap FixtureObjects = live'
        /\ Position' = "body" /\ ~AtRest'
    BY <1>1, <1>3, <2>2 DEF Seen, Located, OnFixture, Stages3
  <2>4. freed \cap FixtureObjects = freed
    BY <1>2, <1>4
  <2>5. CASE Makes(now)
    <3>1. PICK o \in Owned : now.objs = {o}
      BY <2>1, <2>5
    <3>2. now.objs \cap (live \cup freed) = {}
      <4>1. DOMAIN Script = 1 .. Len(Script) /\ at \in 1 .. Len(Script) + 1 /\ Len(Script) \in Nat
        BY <1>1, ActingIs
      <4> QED
        BY <1>2, <2>1, <2>5, <4>1 DEF Unmade, Makes
    <3>3. live' = live \cup {o} /\ UNCHANGED <<freed, listed, instance, twice>>
      BY <2>5, <3>1, <3>2 DEF Makes
    <3>4. Owners!New({o})
      BY <1>3, <2>3, <2>4, <3>1, <3>2, <3>3 DEF Owners!New
    <3>5. Owners!Make(o)
      BY <1>3, <2>3, <3>3, <3>4 DEF Owners!Make
    <3> QED
      BY <3>5 DEF Owners!Next, Owners!Owned, Owned
  <2>6. CASE Adds(now)
    <3>1. PICK o \in Owned : now.objs = {o}
      BY <2>1, <2>6
    <3>2. o \in live /\ listed' = listed \cup {o} /\ UNCHANGED <<live, freed, instance, twice>>
      BY <1>2, <2>1, <2>6, <3>1 DEF Adds
    <3>3. Owners!Give(o)
      BY <1>3, <2>3, <3>2 DEF Owners!Give
    <3> QED
      BY <3>3 DEF Owners!Next, Owners!Owned, Owned
  <2>7. CASE Commands(now)
    <3>1. PICK made \in SUBSET Channels, emptied \in SUBSET (Channels \cap listed) :
            /\ made \cap live = {} /\ (made = {} \/ emptied = {})
            /\ live' = (live \cup made) \ emptied
            /\ freed' = freed \cup emptied
            /\ listed' = (listed \cup made) \ emptied
      BY <1>2, <2>1, <2>7, CommandIs
    <3>2. UNCHANGED <<instance, twice>>
      BY <2>7 DEF Commands
    <3>3. CASE emptied = {}
      <4>1. live' = live \cup made /\ listed' = listed \cup made /\ freed' = freed
        BY <3>1, <3>3
      <4>2. Owners!MakeListed(made)
        BY <1>3, <2>3, <3>1, <3>2, <4>1 DEF Owners!MakeListed
      <4> QED
        BY <4>2 DEF Owners!Next
    <3>4. CASE made = {}
      <4>1. live' = live \ emptied /\ listed' = listed \ emptied /\ freed' = freed \cup emptied
        BY <3>1, <3>4
      <4>2. emptied \subseteq listed /\ emptied \subseteq live /\ freed' \cap FixtureObjects = freed'
        BY <1>2, <1>4, <3>1, <4>1 DEF Owned
      <4>3. Owners!Delete(emptied)
        BY <1>1, <1>3, <2>3, <2>4, <4>1, <4>2 DEF Owners!Delete
      <4>4. Owners!Drop(emptied)
        BY <1>3, <2>3, <3>2, <4>1, <4>3 DEF Owners!Drop
      <4> QED
        BY <4>2, <4>4 DEF Owners!Next
    <3> QED
      BY <3>1, <3>3, <3>4
  <2>8. CASE Removes(now)
    <3> DEFINE S == {now.c}
    <3>1. /\ live' = live \ S /\ listed' = listed \ S /\ freed' = freed \cup S
          /\ UNCHANGED <<instance, twice>> /\ now.c \in Clients /\ S \subseteq live
      BY <2>8 DEF Removes
    <3>2. waiting = {}
      BY <1>1, <1>6, <2>8, ActingStep DEF waiting
    <3>3. S \subseteq Owned /\ S \subseteq listed
      BY <1>2, <3>1, <3>2 DEF Owned
    <3> HIDE DEF S
    <3>4. freed' \cap FixtureObjects = freed'
      BY <1>2, <1>4, <3>1, <3>3
    <3>5. Owners!Delete(S)
      BY <1>1, <1>3, <2>3, <2>4, <3>1, <3>4 DEF Owners!Delete
    <3>6. Owners!Drop(S)
      BY <1>3, <2>3, <3>1, <3>5 DEF Owners!Drop
    <3> QED
      BY <3>3, <3>6 DEF Owners!Next
  <2>9. CASE Alters(now) \/ Quiet(now)
    <3>1. UNCHANGED <<live, freed, listed, instance, twice>>
      BY <2>9 DEF Alters, Quiet, mem
    <3>2. UNCHANGED Owners!vars
      BY <1>3, <2>3, <3>1 DEF Owners!vars
    <3> QED
      BY <3>2
  <2> QED
    BY <2>1, <2>5, <2>6, <2>7, <2>8, <2>9
<1>7. ~StartTest /\ ~EndTest
  BY <1>1 DEF StartTest, EndTest, Acting
<1> QED
  BY <1>1, <1>5, <1>6, <1>7, StepIs

\* TestFixture sees no memory for a test that has no server.
LEMMA PlainSeen ==
  ASSUME MemoryInv, MemoryInv', Plain, [Next]_vars, ~ UNCHANGED <<mem, test, stage, at>>, ~Crashes
  PROVE  Owners!Next \/ UNCHANGED Owners!vars
<1>1. /\ Seen /\ Seen' /\ Located /\ Located' /\ TypeInv /\ TypeOK /\ PlainInv
      /\ Idle' /\ PlainInv' /\ twice = FALSE /\ (twice = FALSE)'
  BY Sight, Where, PTL DEF MemoryInv, TypeInv, Seen
<1>2. /\ Position = "idle" /\ AtRest /\ live \cap FixtureObjects = {} /\ listed = {}
  BY <1>1 DEF Seen, Located, PlainInv
<1>3. ASSUME stage' = "idle" \/ Plain', UNCHANGED instance
      PROVE  Owners!Next \/ UNCHANGED Owners!vars
  <2>1. /\ Position' = "idle" /\ AtRest' /\ live' \cap FixtureObjects = {} /\ listed' = {}
        /\ twice' = twice
    BY <1>1, <1>3 DEF Seen, Located, PlainInv, Idle
  <2> QED
    BY <1>2, <1>3, <2>1 DEF Owners!vars
<1>4. CASE EndTest
  <2>1. stage' = "idle" /\ UNCHANGED <<instance, twice>>
    BY <1>4 DEF EndTest
  <2> QED
    BY <1>3, <2>1
<1>5. CASE EndStage
  <2>1. Plain' /\ UNCHANGED <<instance, twice>>
    BY <1>5 DEF EndStage, Plain, Stages3, fixture, memory
  <2> QED
    BY <1>3, <2>1
<1>6. ASSUME NEW now \in Current, Busy(now) \/ Quiet(now), UNCHANGED <<test, stage>>
      PROVE  Owners!Next \/ UNCHANGED Owners!vars
  <2>1. now = Script[at] /\ at <= Len(Script)
    BY <1>1, CurrentStep
  <2>2. now.do \notin Memory \cup OnServer \cup {"channel"} \/ now.do \in {"new", "delete"}
    <3>1. CASE stage = "body"
      BY <1>1, <3>1, PlainIs
    <3>2. CASE stage = "SetUp" \/ stage = "TearDown"
      BY <1>1, <2>1, <3>2, PlainIs
    <3> QED
      BY <3>1, <3>2 DEF Plain, Stages3
  <2>3. UNCHANGED instance
    BY <1>6, <2>2 DEF Busy, Quiet, Makes, Adds, Deletes, Resets, Gets, Commands, Removes, Alters,
       Memory, OnServer, mem
  <2>4. Plain'
    BY <1>6 DEF Plain, fixture
  <2> QED
    BY <1>3, <2>3, <2>4
<1>7. ~StartTest
  BY DEF StartTest, Plain, Stages3
<1> QED
  BY <1>1, <1>4, <1>5, <1>6, <1>7, StepIs

\* TestFixture does not see a test start: nothing is made yet.
LEMMA IdleSeen ==
  ASSUME MemoryInv, MemoryInv', StartTest
  PROVE  UNCHANGED Owners!vars
<1>1. /\ Seen /\ Seen' /\ Located /\ Located'
  BY Sight, Where, PTL DEF Seen
<1>2. /\ stage = "idle" /\ stage' = "SetUp" /\ at' = 1
      /\ UNCHANGED <<live, freed, listed, instance, twice>>
  BY DEF StartTest, memory
<1>3. Plain' \/ (SettingUp' /\ at' = 1)
  BY <1>2 DEF Plain, SettingUp, OnFixture, Rest, Stages3
<1>4. Position = "idle" /\ AtRest /\ Position' = "idle" /\ AtRest'
  BY <1>1, <1>2, <1>3 DEF Seen, Located
<1> QED
  BY <1>2, <1>4 DEF Owners!vars

\* A test crashes where there is nothing to see of it, or in its body.
LEMMA CrashSeen ==
  ASSUME MemoryInv, MemoryInv', Crashes, [Next]_vars
  PROVE  UNCHANGED Owners!vars
<1>1. /\ Seen /\ Seen' /\ Located /\ Located' /\ TypeOK
  BY Sight, Where, PTL DEF MemoryInv, TypeInv, Seen
<1>2. /\ stage' = "crashed" /\ UNCHANGED <<live, freed, listed, instance, twice, test>>
      /\ fixture' = fixture /\ Current # {}
  BY DEF Crashes, mem, fixture
<1>3. stage \in Stages3
  BY <1>1, <1>2, NoStep DEF TypeOK, Stages3
<1>4. stage' # stage /\ ~EndTest
  BY <1>2, <1>3 DEF Stages3, EndTest
<1>5. ~SettingUp
  <2>1. SettingUp => UNCHANGED stage
    BY <1>4, SettingUpStep
  <2> QED
    BY <1>4, <2>1
<1>6. ~TakingDown
  <2>1. TakingDown => UNCHANGED stage
    BY <1>4, TakingDownStep
  <2> QED
    BY <1>4, <2>1
<1>7. /\ Own = fixture.own /\ Extra = fixture.extra /\ Own' = fixture.own /\ Extra' = fixture.extra
      /\ AtRest = (Position = "idle") /\ AtRest' = (Position' = "idle")
  BY <1>1, <1>2, <1>3 DEF Seen, Stages3
<1>8. Position' = Position
  <2>1. Plain \/ Acting
    BY <1>1, <1>3, <1>5, <1>6, StageOf DEF Stages3
  <2> QED
    BY <1>1, <1>2, <2>1 DEF Located, Plain, Acting, OnFixture
<1> QED
  BY <1>2, <1>7, <1>8 DEF Owners!vars

\* Each step of a TearDown is the one TestFixture has at that place.
LEMMA TakingDownSeen ==
  ASSUME MemoryInv, MemoryInv', TakingDown, [Next]_vars, ~ UNCHANGED <<mem, test, stage, at>>
  PROVE  Owners!Next \/ UNCHANGED Owners!vars
<1> DEFINE last == IF fixture.extra = {} THEN 1 ELSE 2
<1>1. /\ Seen /\ Seen' /\ Located /\ Located' /\ TypeOK /\ OnFixture /\ stage = "TearDown"
  BY Sight, Where, PTL DEF MemoryInv, TypeInv, TakingDown, Seen
<1>2. CommandShape(fixture) /\ Script = fixture.teardown /\ at \in 1 .. Len(Script) + 1
  BY <1>1, OnFixtureIs
<1>3. Len(Script) = last + 1 /\ last \in {1, 2}
  BY <1>2 DEF CommandShape
<1>4. /\ listed \subseteq live
      /\ live \subseteq listed \cup (IF at <= last THEN fixture.own ELSE {})
                             \cup (IF at < last THEN fixture.extra ELSE {})
      /\ at = last + 2 => listed = {}
  BY DEF MemoryInv, TakingDownInv
<1>5. Position = IF at < last THEN "deleteExtra" ELSE IF at = last THEN "delete"
                 ELSE IF at = last + 1 THEN "reset" ELSE "idle"
  BY <1>1 DEF Located
<1>6. /\ Own = fixture.own /\ Extra = fixture.extra /\ live \cap FixtureObjects = live
      /\ AtRest = (Position = "idle") /\ AtRest' = (Position' = "idle")
      /\ Own \subseteq FixtureObjects /\ Extra \subseteq FixtureObjects
  <2>1. fixture.own \cup fixture.extra \subseteq FixtureObjects
    BY <1>2, Apart
  <2> QED
    BY <1>1, <2>1 DEF Seen
<1> HIDE DEF last
<1>7. CASE EndTest
  <2>1. at = last + 2 /\ Position = "idle" /\ AtRest
    <3>1. at = last + 2
      BY <1>2, <1>3, <1>7 DEF EndTest, AtStep
    <3> QED
      <4>1. Position = "idle"
        BY <1>3, <1>5, <3>1
      <4> QED
        BY <1>6, <3>1, <4>1
  <2>2. live = {} /\ listed = {}
    BY <1>3, <1>4, <2>1
  <2>3. stage' = "idle" /\ UNCHANGED <<live, listed, instance, twice>>
    BY <1>7 DEF EndTest
  <2>4. Position' = "idle" /\ AtRest'
    BY <1>1, <1>6, <2>3 DEF Located
  <2> QED
    BY <2>1, <2>3, <2>4 DEF Owners!vars
<1>8. CASE ~EndTest
  <2>1. at \in 1 .. last + 1 /\ at' = at + 1 /\ UNCHANGED <<test, stage>>
    BY <1>8, TakingDownStep DEF last
  <2>2. PICK now \in Current : NextTearDown(now)
    BY <1>8, TakingDownStep DEF last
  <2>3. /\ at < last     => Deletes(now) /\ now.objs = fixture.extra
        /\ at = last     => Deletes(now) /\ now.objs = fixture.own
        /\ at = last + 1 => Resets(now)
    BY <2>2 DEF NextTearDown, last
  <2>4. fixture' = fixture /\ TakingDown' /\ last' = last
    BY <1>1, <2>1 DEF fixture, OnFixture, TakingDown, last
  <2>5. Position' = IF at' < last THEN "deleteExtra" ELSE IF at' = last THEN "delete"
                 ELSE IF at' = last + 1 THEN "reset" ELSE "idle"
    BY <1>1, <2>4 DEF Located, last
  <2>6. /\ Own' = Own /\ Extra' = Extra /\ live' \cap FixtureObjects = live'
    BY <1>1, <1>6, <2>4 DEF Seen, TakingDown, OnFixture, Stages3
  <2>7. ASSUME NEW S, S \subseteq FixtureObjects, Deleted(S), ~AtRest, ~AtRest'
        PROVE  Owners!Delete(S)
    <3>1. /\ live' = live \ S /\ freed' = freed \cup S /\ twice' = (twice \/ ~(S \subseteq live))
      BY <2>7 DEF Deleted
    <3>2. freed' \cap FixtureObjects = (freed \cap FixtureObjects) \cup S
      BY <2>7, <3>1
    <3> QED
      BY <1>6, <2>6, <2>7, <3>1, <3>2 DEF Owners!Delete
  <2>8. CASE at < last
    <3>1. Position = "deleteExtra" /\ Position' = "delete" /\ ~AtRest /\ ~AtRest'
      <4>1. Position = "deleteExtra" /\ Position' = "delete"
        BY <1>3, <1>5, <2>1, <2>5, <2>8
      <4> QED
        BY <1>6, <4>1
    <3>2. Deleted(Extra) /\ UNCHANGED <<listed, instance>>
      BY <1>6, <2>3, <2>8 DEF Deletes
    <3>3. Owners!DeleteExtra
      BY <1>6, <2>6, <2>7, <3>1, <3>2 DEF Owners!DeleteExtra
    <3> QED
      BY <3>3 DEF Owners!Next
  <2>9. CASE at = last
    <3>1. Position = "delete" /\ Position' = "reset" /\ ~AtRest /\ ~AtRest'
      <4>1. Position = "delete" /\ Position' = "reset"
        BY <1>3, <1>5, <2>1, <2>5, <2>9
      <4> QED
        BY <1>6, <4>1
    <3>2. Deleted(Own) /\ UNCHANGED <<listed, instance>>
      BY <1>6, <2>3, <2>9 DEF Deletes
    <3>3. Owners!DeleteCommands
      BY <1>6, <2>6, <2>7, <3>1, <3>2 DEF Owners!DeleteCommands
    <3> QED
      BY <3>3 DEF Owners!Next
  <2>10. CASE at = last + 1
    <3>1. Position = "reset" /\ Position' = "idle" /\ ~AtRest /\ AtRest'
      <4>1. Position = "reset" /\ Position' = "idle"
        BY <1>3, <1>5, <2>1, <2>5, <2>10
      <4> QED
        BY <1>6, <4>1
    <3>2. /\ live' = live \ listed /\ twice' = (twice \/ ~(listed \subseteq live))
          /\ listed' = {} /\ instance' = FALSE
      BY <2>3, <2>10 DEF Resets, Deleted
    <3>3. Owners!TearDownReset
      BY <1>6, <2>6, <3>1, <3>2 DEF Owners!TearDownReset
    <3> QED
      BY <3>3 DEF Owners!Next
  <2> QED
    BY <1>3, <2>1, <2>8, <2>9, <2>10
<1> QED
  BY <1>7, <1>8

-----------------------------------------------------------------------------
(* The theorems *)

\* No object is deleted twice, whatever test runs after whatever test and whatever
\* is wrong with the server: neither does TearDown delete what the server's
\* destructor deletes, nor the destructor what the server dropped (TestFixture.hpp,
\* Server::resetInstance).
THEOREM UnitNoDoubleFree == Spec => []~twice
<1>1. MemoryInv => ~twice
  BY DEF MemoryInv
<1> QED
  BY <1>1, MemoryInit, MemoryNext, PTL DEF Spec

\* When a test is over and the next has not begun, nothing is left of it: no object
\* alive, none listed, no channel with members (the destructor that
\* Server::resetInstance runs in TearDown, and the deletes before it).
THEOREM UnitNothingLeft ==
  Spec => [](stage = "idle" => live = {} /\ listed = {}
                               /\ \A ch \in Channels : chan[ch].members = {})
<1>1. MemoryInv => (stage = "idle" => live = {} /\ listed = {}
                                      /\ \A ch \in Channels : chan[ch].members = {})
  BY DEF MemoryInv, Idle, Empty
<1> QED
  BY <1>1, MemoryInit, MemoryNext, PTL DEF Spec

\* The invariant says so of the lists.
LEMMA ListsAreLive ==
  ASSUME MemoryInv, stage # "crashed"
  PROVE  /\ listed \subseteq live
         /\ \A ch \in Channels : chan[ch].members # {} => ch \in live
<1>1. TypeOK
  BY DEF MemoryInv, TypeInv
<1>2. stage = "idle" \/ Plain \/ SettingUp \/ Acting \/ TakingDown
  BY <1>1, StageOf
<1>3. Idle /\ PlainInv /\ SettingUpInv /\ ActingInv /\ TakingDownInv
  BY DEF MemoryInv
<1>4. CASE stage = "idle" \/ Plain
  BY <1>3, <1>4 DEF Idle, PlainInv, Empty
<1>5. CASE SettingUp
  BY <1>1, <1>3, <1>5 DEF SettingUpInv, Empty, TypeOK, SettingUp
<1>6. CASE Acting
  BY <1>3, <1>6 DEF ActingInv
<1>7. CASE TakingDown
  BY <1>3, <1>7 DEF TakingDownInv
<1> QED
  BY <1>2, <1>4, <1>5, <1>6, <1>7

\* The server's lists hold no pointer to a deleted object, and every channel that has
\* members is listed or is one the test is about to add.
THEOREM UnitListsAreLive ==
  Spec => [](stage # "crashed" => /\ listed \subseteq live
                                  /\ \A ch \in Channels : chan[ch].members # {} => ch \in live)
<1>1. MemoryInv => (stage # "crashed" =>
                      /\ listed \subseteq live
                      /\ \A ch \in Channels : chan[ch].members # {} => ch \in live)
  BY ListsAreLive
<1> QED
  BY <1>1, MemoryInit, MemoryNext, PTL DEF Spec

\* The program starts where TestFixture does.
LEMMA OwnersInit == Init => Owners!Init
<1> SUFFICES ASSUME Init
             PROVE  Owners!Init
  OBVIOUS
<1>1. /\ stage = "idle" /\ live = {} /\ freed = {} /\ listed = {} /\ instance = FALSE /\ twice = FALSE
  BY Zenon DEF Init
<1>2. Position = "idle" /\ AtRest
  BY <1>1 DEF Position, AtRest
<1> QED
  BY <1>1, <1>2 DEF Owners!Init

\* Every step of the program is one of TestFixture, or none.
LEMMA OwnersNext ==
  ASSUME MemoryInv, MemoryInv', [Next]_vars
  PROVE  [Owners!Next]_(Owners!vars)
<1>1. TypeInv /\ TypeOK
  BY DEF MemoryInv, TypeInv
<1>2. CASE UNCHANGED <<mem, test, stage, at>>
  BY <1>2, RestingSeen
<1>3. CASE Crashes
  BY <1>3, CrashSeen
<1>4. CASE ~Crashes /\ ~ UNCHANGED <<mem, test, stage, at>>
  <2>1. CASE stage = "idle"
    <3>1. StartTest
      BY <1>1, <1>4, <2>1, StepIs, NoStep DEF EndStage, EndTest
    <3> QED
      BY <3>1, IdleSeen
  <2>2. stage # "crashed"
    BY <1>1, <1>4, StepIs, NoStep DEF StartTest, EndStage, EndTest
  <2> QED
    BY <1>1, <1>4, <2>1, <2>2, StageOf, PlainSeen, SettingUpSeen, ActingSeen, TakingDownSeen
<1> QED
  BY <1>2, <1>3, <1>4

\* Every fixture keeps the discipline of TestFixture: each step of a test that makes,
\* lists or deletes objects is one that TestFixture allows its fixture, so that what
\* is proved of TestFixture holds of the program.
THEOREM UnitFixture == Spec => FixtureRefinement
<1>1. Spec => []MemoryInv
  BY MemoryInit, MemoryNext, PTL DEF Spec
<1> QED
  BY <1>1, OwnersInit, OwnersNext, PTL DEF Spec, FixtureRefinement, Owners!Spec
=============================================================================
