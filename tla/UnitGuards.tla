----------------------------- MODULE UnitGuards ------------------------------
(***************************************************************************)
(* How the unit tests guard the use of a pointer or of an index: what the   *)
(* steps before a step make sure of, read off the script alone. A step is   *)
(* guarded if every object it names is surely alive, and every index is     *)
(* surely below the number of messages. That what is sure is true, whatever *)
(* the server does, is proved in UnitAccess_proofs.                         *)
(***************************************************************************)
EXTENDS UnitRun

\* What a test does until its body ends.
Whole(t) == t.fixture.setup \o t.body

-----------------------------------------------------------------------------
(* The steps of a script w, by their places *)

Kind(w, kinds) == {i \in DOMAIN w : w[i].do \in kinds}
Sends(w, verbs) == {i \in Kind(w, {"execute", "parse"}) : w[i].verb \in verbs}

News(w, o)      == {i \in Kind(w, {"new"}) : o \in w[i].objs}
Removals(w, c)  == {i \in Kind(w, {"removeClient"}) : w[i].c = c}
Clearings(w, c) == {i \in Kind(w, {"clear"}) : w[i].c = c}
CallsOf(w, ch, call) == {i \in Kind(w, {"channel"}) : w[i].ch = ch /\ w[i].call = call}
Endings(w)      == Kind(w, {"delete", "reset"})

\* The arguments the test ever gives to a command.
Given(w) ==
  UNION {{w[i].args[k] : k \in DOMAIN w[i].args} : i \in Kind(w, {"push", "parse"})}

\* The commands that may take a client out of a channel: JOIN, too, if it may be JOIN 0.
Takings(w) ==
  Sends(w, {"PART", "KICK"} \cup (IF <<"0">> \in Given(w) THEN {"JOIN"} ELSE {}))

-----------------------------------------------------------------------------
(* What is sure at place i *)

\* One of these came before i, and since then none of those.
Since(i, these, those) == \E k \in these : k < i /\ \A j \in those : ~(k < j /\ j < i)

\* No command took a client out of a channel, so that no channel was deleted.
Untaken(w, i) == Since(i, Kind(w, {"reset"}), Takings(w) \cup Kind(w, {"delete"}))

\* No channel was deleted and made anew by the server.
Firsts(w, i) ==
  Since(i, Kind(w, {"reset"}),
        Kind(w, {"delete"}) \cup
        {j \in Sends(w, {"JOIN"}) \cup Kind(w, {"add"}) : ~Untaken(w, j)})

\* The client was added to the channel, and nothing since could take it out.
SureMember(w, i, ch, c) ==
  Since(i, {j \in CallsOf(w, ch, "addMember") : w[j].arg = c},
        Takings(w) \cup Kind(w, {"removeClient"}) \cup Endings(w) \cup News(w, ch)
        \cup CallsOf(w, ch, "removeMember"))

\* The client was taken out of the channel, and nothing since could bring it back.
SureAbsent(w, i, ch, c) ==
  Since(i, {j \in CallsOf(w, ch, "removeMember") : w[j].arg = c},
        {j \in CallsOf(w, ch, "addMember") : w[j].arg = c} \cup Sends(w, {"JOIN"}))

\* No step j empties the channel: of two members a command takes one at most.
Spared(w, j, ch) ==
  \/ j \notin Takings(w)
  \/ /\ \E c, d \in Clients : c # d /\ SureMember(w, j, ch, c) /\ SureMember(w, j, ch, d)
     /\ w[j].verb = "KICK" => \A list \in Given(w) : Len(list) <= 1

\* ASSERT that the server has the channel, which then is the first of its name.
Findings(w, ch) ==
  {i \in Kind(w, {"check"}) :
     /\ w[i].fatal /\ w[i].see = "exists" /\ w[i].of[1] = ch
     /\ w[i].is = TRUE /\ w[i].yes = TRUE /\ Firsts(w, i)}

SureAlive(w, i, o) ==
  IF o \in Channels
    THEN Since(i, News(w, o) \cup Findings(w, o),
               Endings(w) \cup {j \in DOMAIN w : ~Spared(w, j, o)})
    ELSE Since(i, News(w, o), Endings(w) \cup Removals(w, o))

\* So are the members of every channel.
SureMembers(w, i) ==
  Since(i, Kind(w, {"reset"}),
        Kind(w, {"removeClient", "delete"}) \cup
        {j \in Kind(w, {"channel"}) :
           w[j].call = "addMember" /\ ~SureAlive(w, j, w[j].arg)})

\* ASSERT that the client has at least n messages.
Countings(w, c, n) ==
  {i \in Kind(w, {"check"}) :
     /\ w[i].fatal /\ w[i].yes = TRUE
     /\ \/ w[i].see = "count" /\ w[i].of[1] = c /\ w[i].is \in Nat /\ w[i].is >= n
        \/ /\ w[i].see = "atLeast" /\ w[i].of[1] = c /\ w[i].is = TRUE
           /\ w[i].of[2] \in Nat /\ w[i].of[2] >= n}

SureCount(w, i, c, n) ==
  Since(i, Countings(w, c, n),
        Endings(w) \cup News(w, c) \cup Clearings(w, c) \cup Removals(w, c))

\* The steps that change one of the two records of who is in a channel, and those of
\* them that make the other follow.
Recordings(w, c, ch) ==
  {i \in CallsOf(w, ch, "addMember") \cup CallsOf(w, ch, "removeMember") : w[i].arg = c}
  \cup {i \in Kind(w, {"link", "unlink"}) : w[i].c = c /\ w[i].ch = ch}
  \cup Kind(w, {"delete"})
Completions(w, c, ch) ==
  {i \in Kind(w, {"link"}) : w[i].c = c /\ w[i].ch = ch /\ SureMember(w, i, ch, c)} \cup
  {i \in Kind(w, {"unlink"}) : w[i].c = c /\ w[i].ch = ch /\ SureAbsent(w, i, ch, c)}

\* Each such step was completed before place i.
SureAgrees(w, i, c, ch) ==
  \A k \in Recordings(w, c, ch) \ Completions(w, c, ch) :
    k < i => \E j \in Completions(w, c, ch) : k < j /\ j < i

-----------------------------------------------------------------------------
(* A guarded test *)

\* The last index into the messages that an assertion uses.
Index(step) ==
  CASE step.see \in {"message", "digit"} -> step.of[2]
    [] step.see = "channelsOf"          -> step.of[3]

GuardedStep(w, i) ==
  /\ \A o \in Named(w[i]) : SureAlive(w, i, o)
  /\ w[i].do = "broadcast" => w[i].ch \in Channels /\ SureMembers(w, i)
  /\ w[i].do \in Looks /\ w[i].see \in {"message", "digit", "channelsOf"} =>
       w[i].of[1] \in Clients /\ Index(w[i]) \in Nat /\ SureCount(w, i, w[i].of[1], Index(w[i]))

Guarded(t) == \A i \in DOMAIN Whole(t) : GuardedStep(Whole(t), i)

\* Every test is, but for those known to follow a pointer to a deleted object.
GuardedSuite == \A t \in Tests \ Dangling : Guarded(Suite[t])

\* Before each step of a body that looks at both records, all is guarded, and the
\* records are complete.
AgreeingStep(w, i) ==
  /\ \A k \in 1 .. i - 1 : GuardedStep(w, k)
  /\ \A c \in Clients, ch \in Channels : SureAgrees(w, i, c, ch)

Agreeing(t) ==
  \A i \in DOMAIN Whole(t) :
    i > Len(t.fixture.setup) /\ LooksAtBoth(Whole(t)[i]) => AgreeingStep(Whole(t), i)

AgreeingSuite == \A t \in Tests : Agreeing(Suite[t])
=============================================================================
