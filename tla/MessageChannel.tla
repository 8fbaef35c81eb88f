--------------------------- MODULE MessageChannel ---------------------------
(***************************************************************************)
(* What client_helper.IRCClient promises the test that holds it: the        *)
(* messages of the server's byte stream, each one once, in the order the    *)
(* server wrote them, none skipped, and none before its last byte arrived.  *)
(***************************************************************************)
EXTENDS Integers, Sequences

CONSTANTS N,        \* the server writes N lines
          LineEnd,  \* offset in the byte stream just after line i's CRLF
          Streams   \* the command sequences the server may write

VARIABLES stream,    \* the commands of the lines, fixed for a behaviour
          arrived,   \* bytes that reached the client's socket
          delivered  \* the lines handed to the test, in order

vars == <<stream, arrived, delivered>>

\* A blank line and a line with a prefix but no command carry no message.
IsMessage(i) == stream[i] \notin {"BLANK", "BARE"}

Latest == IF delivered = <<>> THEN 0 ELSE delivered[Len(delivered)]

Init ==
  /\ stream \in Streams
  /\ arrived = 0
  /\ delivered = <<>>

Arrive ==
  /\ arrived' \in arrived + 1 .. LineEnd[N]
  /\ UNCHANGED <<stream, delivered>>

\* The next message after the latest one, once all its bytes are there.
Deliver ==
  \E k \in 1..N :
    /\ k > Latest
    /\ LineEnd[k] <= arrived
    /\ IsMessage(k)
    /\ \A j \in 1..N : Latest < j /\ j < k => ~IsMessage(j)
    /\ delivered' = Append(delivered, k)
    /\ UNCHANGED <<stream, arrived>>

Next == Arrive \/ Deliver

Spec == Init /\ [][Next]_vars
=============================================================================
