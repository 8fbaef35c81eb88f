----------------------------- MODULE TestFixture -----------------------------
(***************************************************************************)
(* Who owns what in a unit test (TestFixture.hpp). The fixture makes        *)
(* clients and hands them to the server, makes the command objects and      *)
(* keeps them; the test's body makes more clients and channels, which the   *)
(* server must be given too; TearDown deletes the commands, and the         *)
(* server's destructor everything the server was given. `delete' is taken   *)
(* as the language takes it: nothing stops a second one of the same object. *)
(***************************************************************************)
CONSTANTS Clients,   \* client objects
          Channels,  \* channel objects
          Commands,  \* the command objects the two base fixtures make
          Extras     \* the command objects derived fixtures add

Owned   == Clients \cup Channels            \* for the server to delete
Objects == Owned \cup Commands \cup Extras

\* Different objects are different memory: what the theorems assume, and what
\* UnitRun assumes of the objects it gives these constants.
KindsApart == Owned \cap (Commands \cup Extras) = {} /\ Commands \cap Extras = {}

VARIABLES pc,        \* what the fixture does next
          live,      \* objects made and not deleted
          freed,     \* objects deleted, to which the test still has pointers
          listed,    \* objects in the server's lists of clients and channels
          instance,  \* the server exists
          own,       \* the commands of the base fixture that runs
          extra,     \* the commands its derived fixture adds
          twice      \* an object was deleted that was not there

vars == <<pc, live, freed, listed, instance, own, extra, twice>>

Init ==
  /\ pc = "idle" /\ instance = FALSE /\ twice = FALSE
  /\ live = {} /\ freed = {} /\ listed = {}
  /\ own = {} /\ extra = {}

-----------------------------------------------------------------------------
\* new: each of these objects for the first time in this test.
New(S) ==
  /\ S \cap (live \cup freed) = {}
  /\ live' = live \cup S

\* delete: each of these objects, there or not.
Delete(S) ==
  /\ live' = live \ S
  /\ freed' = freed \cup S
  /\ twice' = (twice \/ ~(S \subseteq live))

\* Server::resetInstance: the destructor deletes the clients and channels.
ResetInstance ==
  /\ Delete(listed)
  /\ listed' = {}
  /\ instance' = FALSE

(* SetUp *)

SetUpReset ==
  /\ pc = "idle" /\ pc' = "instance"
  /\ ResetInstance
  /\ own' \in SUBSET Commands /\ extra' \in SUBSET Extras

GetInstance ==
  /\ pc = "instance" /\ pc' = "clients"
  /\ instance' = TRUE
  /\ UNCHANGED <<live, freed, listed, own, extra, twice>>

NewClients ==
  /\ pc = "clients" /\ pc' = "add"
  /\ \E S \in SUBSET Clients : New(S)
  /\ UNCHANGED <<freed, listed, instance, own, extra, twice>>

AddClients ==
  /\ pc = "add" /\ pc' = "commands"
  /\ listed' = live
  /\ UNCHANGED <<live, freed, instance, own, extra, twice>>

NewCommands ==
  /\ pc = "commands" /\ pc' = IF extra = {} THEN "body" ELSE "derived"
  /\ New(own)
  /\ UNCHANGED <<freed, listed, instance, own, extra, twice>>

NewExtra ==
  /\ pc = "derived" /\ pc' = "body"
  /\ New(extra)
  /\ UNCHANGED <<freed, listed, instance, own, extra, twice>>

(* The rest of a derived SetUp, and the test's body *)

\* The test, or the server while it executes a command, makes an object.
Make(o) ==
  /\ pc = "body" /\ New({o})
  /\ UNCHANGED <<pc, freed, listed, instance, own, extra, twice>>

\* It is given to the server: addTestClient, addChannel.
Give(o) ==
  /\ pc = "body" /\ o \in live
  /\ listed' = listed \cup {o}
  /\ UNCHANGED <<pc, live, freed, instance, own, extra, twice>>

\* The server makes a channel for a command that needs it, for the first time or
\* after it deleted one of that name.
MakeListed(S) ==
  /\ pc = "body" /\ S \cap live = {} /\ live' = live \cup S
  /\ listed' = listed \cup S
  /\ UNCHANGED <<pc, freed, instance, own, extra, twice>>

\* The server drops clients or channels of its own: removeClient, and the
\* command that takes the last member out of a channel.
Drop(S) ==
  /\ pc = "body"
  /\ Delete(S)
  /\ listed' = listed \ S
  /\ UNCHANGED <<pc, instance, own, extra>>

\* The body ends, at its end or at an assertion; what it made, it gave away.
EndBody ==
  /\ pc = "body" /\ pc' = IF extra = {} THEN "delete" ELSE "deleteExtra"
  /\ live \cap Owned \subseteq listed
  /\ UNCHANGED <<live, freed, listed, instance, own, extra, twice>>

(* TearDown *)

DeleteExtra ==
  /\ pc = "deleteExtra" /\ pc' = "delete"
  /\ Delete(extra)
  /\ UNCHANGED <<listed, instance, own, extra>>

DeleteCommands ==
  /\ pc = "delete" /\ pc' = "reset"
  /\ Delete(own)
  /\ UNCHANGED <<listed, instance, own, extra>>

\* The fixture object goes with its pointers.
TearDownReset ==
  /\ pc = "reset" /\ pc' = "idle"
  /\ live' = live \ listed
  /\ freed' = {}
  /\ twice' = (twice \/ ~(listed \subseteq live))
  /\ listed' = {} /\ instance' = FALSE
  /\ own' = {} /\ extra' = {}

-----------------------------------------------------------------------------
Next ==
  \/ SetUpReset \/ GetInstance \/ NewClients \/ AddClients \/ NewCommands \/ NewExtra
  \/ \E o \in Owned : Make(o) \/ Give(o)
  \/ \E S \in SUBSET Channels : MakeListed(S)
  \/ \E S \in SUBSET listed : Drop(S)
  \/ EndBody
  \/ DeleteExtra \/ DeleteCommands \/ TearDownReset

Spec == Init /\ [][Next]_vars
-----------------------------------------------------------------------------
(* Properties *)

\* Every variable has its type.
TypeOK ==
  /\ pc \in {"idle", "instance", "clients", "add", "commands", "derived", "body",
             "deleteExtra", "delete", "reset"}
  /\ live \subseteq Objects /\ freed \subseteq Objects
  /\ listed \subseteq Owned /\ own \subseteq Commands /\ extra \subseteq Extras
  /\ instance \in BOOLEAN /\ twice \in BOOLEAN

\* No object is deleted twice: TearDown's deletes and those of the server's
\* destructor never meet, whatever the server dropped in between.
NoDoubleFree == ~twice

\* Nothing a test made is left when it is over.
NothingOutlives == pc = "idle" => live = {}

\* The server's lists hold no pointer to a deleted object.
ListsAreLive == listed \subseteq live
=============================================================================
