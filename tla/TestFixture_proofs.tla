-------------------------- MODULE TestFixture_proofs --------------------------
(***************************************************************************)
(* Proofs about TestFixture, for all sets of clients, channels and command  *)
(* objects: ownership is never in doubt, so every object of a test is       *)
(* deleted exactly once.                                                    *)
(***************************************************************************)
EXTENDS TestFixture, TLAPS

\* What is there at each point of a fixture's life.
Stage ==
  /\ pc \in {"idle", "instance", "clients"} => live = {} /\ freed = {}
  /\ pc = "add" => live \subseteq Clients /\ freed = {}
  /\ pc = "commands" => live \subseteq listed /\ freed = {}
  /\ pc = "derived" => /\ own \subseteq live /\ freed = {}
                       /\ live \subseteq listed \cup own
  /\ pc \in {"body", "deleteExtra"} => /\ own \cup extra \subseteq live
                                        /\ live \subseteq Owned \cup own \cup extra
  /\ pc = "deleteExtra" => live \subseteq listed \cup own \cup extra
  /\ pc = "delete" => own \subseteq live /\ live \subseteq listed \cup own
  /\ pc = "reset" => live \subseteq listed

\* Inductive: what the server lists is alive, so its destructor deletes no
\* object for the second time; what is alive and not listed is a command, and
\* TearDown deletes each of those by name.
IInv == TypeOK /\ ListsAreLive /\ NoDoubleFree /\ Stage

LEMMA InitInv == Init => IInv
  BY DEF Init, IInv, TypeOK, ListsAreLive, NoDoubleFree, Stage, Objects, Owned

LEMMA StepInv ==
  ASSUME KindsApart
  PROVE  IInv /\ [Next]_vars => IInv'
<1> SUFFICES ASSUME IInv, [Next]_vars
             PROVE  IInv'
  OBVIOUS
<1> USE KindsApart
    DEF KindsApart, IInv, TypeOK, ListsAreLive, NoDoubleFree, Stage, Objects, Owned
\* SetUp: nothing is listed and nothing alive when the old server goes.
<1>1. CASE SetUpReset
  BY <1>1 DEF SetUpReset, ResetInstance, Delete
<1>2. CASE GetInstance
  BY <1>2 DEF GetInstance
<1>3. CASE NewClients
  BY <1>3 DEF NewClients, New
<1>4. CASE AddClients
  BY <1>4 DEF AddClients
<1>5. CASE NewCommands
  BY <1>5 DEF NewCommands, New
<1>6. CASE NewExtra
  BY <1>6 DEF NewExtra, New
\* The body: what the server drops is its own, never a command.
<1>7. ASSUME NEW o \in Owned, Make(o)
      PROVE  IInv'
  BY <1>7 DEF Make, New
<1>8. ASSUME NEW o \in Owned, Give(o)
      PROVE  IInv'
  BY <1>8 DEF Give
<1>9. ASSUME NEW S \in SUBSET Channels, MakeListed(S)
      PROVE  IInv'
  BY <1>9 DEF MakeListed
<1>10. ASSUME NEW S \in SUBSET listed, Drop(S)
       PROVE  IInv'
  BY <1>10 DEF Drop, Delete
<1>11. CASE EndBody
  BY <1>11 DEF EndBody
\* TearDown: the commands are alive until it deletes them.
<1>12. CASE DeleteExtra
  BY <1>12 DEF DeleteExtra, Delete
<1>13. CASE DeleteCommands
  BY <1>13 DEF DeleteCommands, Delete
<1>14. CASE TearDownReset
  BY <1>14 DEF TearDownReset
<1>15. CASE UNCHANGED vars
  BY <1>15 DEF vars
<1> QED
  BY <1>1, <1>2, <1>3, <1>4, <1>5, <1>6, <1>7, <1>8, <1>9, <1>10, <1>11, <1>12,
     <1>13, <1>14, <1>15 DEF Next

LEMMA Inductive ==
  ASSUME KindsApart
  PROVE  Spec => []IInv
  BY KindsApart, InitInv, StepInv, PTL DEF Spec

-----------------------------------------------------------------------------
\* Every variable has its type (TestFixture.hpp:66-134).
THEOREM FixtureTypes ==
  ASSUME KindsApart
  PROVE  Spec => []TypeOK
<1>1. IInv => TypeOK
  BY DEF IInv
<1> QED
  BY KindsApart, <1>1, Inductive, PTL

\* However many clients and channels a test makes and the server drops, no
\* object is deleted twice (TestFixture.hpp:118-134).
THEOREM FixtureDeletesOnce ==
  ASSUME KindsApart
  PROVE  Spec => []NoDoubleFree
<1>1. IInv => NoDoubleFree
  BY DEF IInv
<1> QED
  BY KindsApart, <1>1, Inductive, PTL

\* A test that gives the server what it makes leaves nothing behind
\* (TestFixture.hpp:132 "the server owns the clients").
THEOREM FixtureLeavesNothing ==
  ASSUME KindsApart
  PROVE  Spec => []NothingOutlives
<1>1. IInv => NothingOutlives
  BY DEF IInv, Stage, NothingOutlives
<1> QED
  BY KindsApart, <1>1, Inductive, PTL

\* The server never lists a deleted object, so its destructor and its loops
\* over clients and channels touch none.
THEOREM FixtureListsAreLive ==
  ASSUME KindsApart
  PROVE  Spec => []ListsAreLive
<1>1. IInv => ListsAreLive
  BY DEF IInv
<1> QED
  BY KindsApart, <1>1, Inductive, PTL
=============================================================================
