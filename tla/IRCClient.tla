----------------------------- MODULE IRCClient ------------------------------
(***************************************************************************)
(* integration_tests/client_helper.py: the line-buffered IRC client every   *)
(* integration test drives. The server's side of the TCP connection is the  *)
(* environment. A line is its number in the server's byte stream, its data  *)
(* only its command; a byte is its offset. Time is a set of expired timers. *)
(***************************************************************************)
EXTENDS Integers, Sequences

CONSTANTS N,        \* bound: the server writes at most N lines
          LineEnd,  \* LineEnd[i]: offset just after the CRLF of line i
          Inside,   \* offsets that fall inside a multi-byte UTF-8 character
          RecvMax,  \* bytes one socket.recv may return (4096 in the code)
          Streams,  \* the command sequences the server may write
          Wanted    \* commands a test waits for

ASSUME StreamAssumption ==
  /\ N \in Nat
  /\ LineEnd \in [0..N -> Nat]
  /\ LineEnd[0] = 0
  /\ \A i, j \in 0..N : i < j => LineEnd[i] < LineEnd[j]
  /\ Inside \subseteq Nat
  /\ \A i \in 0..N : LineEnd[i] \notin Inside
  /\ RecvMax \in Nat \ {0}
  /\ Streams \subseteq [1..N -> STRING]
  /\ Wanted \subseteq STRING

VARIABLES
  \* the environment: the server's end and the kernel's socket buffer
  stream,         \* commands of the lines the server writes, in order
  arrived,        \* bytes that reached the socket
  peer,           \* "none" before connect, "up", "fin" or "rst"
  expired,        \* which of the two running timeouts have passed
  \* the attributes of the IRCClient object
  auto_pong,
  read,           \* bytes received so far ...
  cut,            \* ... of which lines 1..cut left self.buffer
  message_queue,
  \* the call in progress
  op,             \* the method the test called, or "idle", "new", "closed"
  pc,             \* where get_message is; "out" when not inside it
  want,           \* wait_for_command's expected_command
  collected,      \* register's received_registration_messages
  result,         \* the value of the last return, a line, None or Raised
  \* history
  taken,          \* lines get_message returned, in order
  mark,           \* Len(taken) when the call in progress began
  ponged,         \* PING lines answered with a PONG, in order
  torn            \* lines a character of which the decoder dropped

socketVars == <<stream, arrived, peer, auto_pong>>
bufferVars == <<read, cut, torn>>
queueVars  == <<message_queue, taken>>
callVars   == <<want, collected, mark>>
vars == <<socketVars, bufferVars, queueVars, callVars, op, pc, result, expired,
          ponged>>

None   == 0
Raised == -1

\* parse_message: no message in a blank line; IndexError on a bare prefix.
IsMessage(i) == stream[i] \notin {"BLANK", "BARE"}

-----------------------------------------------------------------------------
Init ==
  /\ stream \in Streams /\ arrived = 0 /\ peer = "none"
  /\ auto_pong \in BOOLEAN
  /\ read = 0 /\ cut = 0 /\ torn = {}
  /\ message_queue = <<>> /\ taken = <<>>
  /\ want = "none" /\ collected = <<>> /\ mark = 0
  /\ op = "new" /\ pc = "out" /\ result = None
  /\ expired = {} /\ ponged = <<>>

-----------------------------------------------------------------------------
(* The environment *)

ServerWrites ==
  /\ peer = "up"
  /\ arrived' \in arrived + 1 .. LineEnd[N]
  /\ UNCHANGED <<stream, peer, auto_pong, bufferVars, queueVars, callVars, op,
                 pc, result, expired, ponged>>

ServerCloses ==
  /\ \/ peer = "up" /\ peer' \in {"fin", "rst"}
     \/ peer = "fin" /\ peer' = "rst"
  /\ UNCHANGED <<stream, arrived, auto_pong, bufferVars, queueVars, callVars,
                 op, pc, result, expired, ponged>>

\* "call": the timeout of get_message; "caller": that of the method around it.
Running(timer) ==
  CASE timer = "call"   -> pc \in {"head", "split", "pong", "recv"}
    [] timer = "caller" -> op \in {"wait_for_command", "register"}

TimeOut(timer) ==
  /\ Running(timer)
  /\ timer \notin expired
  /\ expired' = expired \cup {timer}
  /\ UNCHANGED <<socketVars, bufferVars, queueVars, callVars, op, pc, result,
                 ponged>>

-----------------------------------------------------------------------------
(* connect, send, close, and the beginnings of the three receiving methods *)

Connect ==
  /\ op = "new"
  /\ \/ op' = "idle" /\ peer' = "up" /\ result' = None
     \/ result' = Raised /\ UNCHANGED <<op, peer>>
  /\ UNCHANGED <<stream, arrived, auto_pong, bufferVars, queueVars, callVars,
                 pc, expired, ponged>>

\* sendall succeeds on a half-closed connection and raises on a reset one.
CanSend == peer # "rst"

Send ==
  /\ op = "idle"
  /\ result' = IF CanSend THEN None ELSE Raised
  /\ UNCHANGED <<socketVars, bufferVars, queueVars, callVars, op, pc, expired,
                 ponged>>

Close ==
  /\ op = "idle"
  /\ op' = "closed"
  /\ UNCHANGED <<socketVars, bufferVars, queueVars, callVars, pc, result,
                 expired, ponged>>

\* A method starts: its loop clock runs from now and it has seen no message.
Begin(method, at) ==
  /\ op = "idle"
  /\ op' = method
  /\ pc' = at
  /\ mark' = Len(taken)
  /\ result' = None
  /\ collected' = <<>>
  /\ expired' = expired \ {"caller"}
  /\ UNCHANGED <<socketVars, bufferVars, queueVars, ponged>>

CallGetMessage == Begin("get_message", "entry") /\ UNCHANGED want

CallWaitForCommand ==
  \E c \in Wanted : want' = c /\ Begin("wait_for_command", "out")

\* register sends PASS, NICK and USER first; on a reset connection that raises.
CallRegister ==
  \/ CanSend /\ Begin("register", "out") /\ UNCHANGED want
  \/ ~CanSend /\ Send

-----------------------------------------------------------------------------
(* get_message *)

ToCaller == op' = IF op = "get_message" THEN "idle" ELSE op

ReturnNone ==
  /\ pc' = "out"
  /\ result' = None
  /\ ToCaller
  /\ UNCHANGED queueVars

\* message_queue.pop(0)
ReturnOldest ==
  /\ pc' = "out"
  /\ result' = Head(message_queue)
  /\ message_queue' = Tail(message_queue)
  /\ taken' = Append(taken, Head(message_queue))
  /\ ToCaller

\* An exception leaves get_message and whatever method called it.
Raise == pc' = "out" /\ op' = "idle" /\ result' = Raised

\* Variant: without the first test of get_message the clock decides.
NeverQueued == FALSE

HasQueued == message_queue # <<>>

GetQueued ==
  /\ pc = "entry"
  /\ HasQueued
  /\ ReturnOldest
  /\ UNCHANGED <<socketVars, bufferVars, callVars, expired, ponged>>

StartClock ==
  /\ pc = "entry"
  /\ ~HasQueued
  /\ pc' = "head"
  /\ expired' = expired \ {"call"}
  /\ UNCHANGED <<socketVars, bufferVars, queueVars, callVars, op, result,
                 ponged>>

LoopHead ==
  /\ pc = "head"
  /\ IF "call" \in expired
       THEN ReturnNone
       ELSE pc' = "split" /\ UNCHANGED <<queueVars, op, result>>
  /\ UNCHANGED <<socketVars, bufferVars, callVars, expired, ponged>>

\* Variant: a lone CR at the end of the buffer already ends a line.
LineBufferedAtCR == cut < N /\ LineEnd[cut + 1] <= read + 1

\* "\r\n" in self.buffer
LineBuffered == cut < N /\ LineEnd[cut + 1] <= read

\* Variants: the newest message goes first; the previous line goes in again.
QueueFirst(i) == message_queue' = <<i>> \o message_queue
QueuePrevious(i) == message_queue' = Append(message_queue, i - 1)

Queue(i) == message_queue' = Append(message_queue, i)

AnswersPing(i) == stream[i] = "PING" /\ auto_pong

\* One turn of the loop that empties the buffer: split off a line, parse it.
SplitLine ==
  /\ pc = "split"
  /\ LineBuffered
  /\ cut' = cut + 1
  /\ CASE IsMessage(cut + 1) ->
            /\ Queue(cut + 1)
            /\ pc' = IF AnswersPing(cut + 1) THEN "pong" ELSE "split"
            /\ UNCHANGED <<op, result>>
       [] stream[cut + 1] = "BLANK" ->
            UNCHANGED <<message_queue, pc, op, result>>
       [] stream[cut + 1] = "BARE" ->
            Raise /\ UNCHANGED message_queue
  /\ UNCHANGED <<socketVars, read, torn, taken, callVars, expired, ponged>>

\* Variant: the token comes from the oldest queued message.
SendPongToOldest == ponged' = Append(ponged, Head(message_queue))

SendPong == ponged' = Append(ponged, cut)

\* _handle_ping, while the PING is already the youngest entry of the queue.
HandlePing ==
  /\ pc = "pong"
  /\ IF CanSend
       THEN /\ SendPong
            /\ pc' = "split"
            /\ UNCHANGED <<op, result>>
       ELSE Raise /\ UNCHANGED ponged
  /\ UNCHANGED <<socketVars, bufferVars, queueVars, callVars, expired>>

AllSplit ==
  /\ pc = "split"
  /\ ~LineBuffered
  /\ IF message_queue # <<>>
       THEN ReturnOldest
       ELSE pc' = "recv" /\ UNCHANGED <<queueVars, op, result>>
  /\ UNCHANGED <<socketVars, bufferVars, callVars, expired, ponged>>

-----------------------------------------------------------------------------
(* _recv_raw, and what get_message does with its three kinds of result *)

\* select reports nothing for 0.1 s: None.
RecvNothing ==
  /\ pc = "recv"
  /\ peer = "up"
  /\ read = arrived
  /\ pc' = "head"
  /\ UNCHANGED <<socketVars, bufferVars, queueVars, callVars, op, result,
                 expired, ponged>>

\* Variant: stripped before it is tested, a lone CR or LF counts as nothing.
StrippedText(lo, hi) == hi - lo > 1

\* Each chunk is decoded alone, errors='ignore': only the characters that lie
\* wholly inside bytes lo+1..hi survive, so the text may even be empty.
DecodesToText(lo, hi) == \E p, q \in (lo..hi) \ Inside : p < q

LineAt(p) == {i \in 1..N : LineEnd[i - 1] < p /\ p < LineEnd[i]}

\* The chunk is all there is, or as much as fits; an empty text reads as "".
RecvChunk ==
  /\ pc = "recv"
  /\ \E hi \in read + 1 .. arrived :
       /\ \/ hi = arrived /\ hi <= read + RecvMax
          \/ hi = read + RecvMax
       /\ read' = hi
       /\ torn' = IF hi \in Inside THEN torn \cup LineAt(hi) ELSE torn
       /\ IF DecodesToText(read, hi)
            THEN pc' = "head" /\ UNCHANGED <<queueVars, op, result>>
            ELSE ReturnNone
  /\ UNCHANGED <<socketVars, cut, callVars, expired, ponged>>

\* End of file, or any exception of recv: "" and get_message gives up.
RecvClosed ==
  /\ pc = "recv"
  /\ \/ peer = "fin" /\ read = arrived
     \/ peer = "rst"
  /\ ReturnNone
  /\ UNCHANGED <<socketVars, bufferVars, callVars, expired, ponged>>

-----------------------------------------------------------------------------
(* The loops of wait_for_command and register around get_message *)

Again == pc' = "entry" /\ UNCHANGED op

\* Variant: the loops go on until they have what they wait for.
NoDeadline == TRUE

TimeLeft == "caller" \notin expired

\* What the caller's "if msg" tests.
GotMessage == result \in 1..N

\* Variant: any message ends the wait.
MatchesAny == GotMessage

Matches == GotMessage /\ stream[result] = want

WaitForCommand ==
  /\ op = "wait_for_command"
  /\ pc = "out"
  /\ CASE Matches -> op' = "idle" /\ UNCHANGED <<pc, result>>
       [] ~Matches /\ ~TimeLeft ->
            op' = "idle" /\ result' = None /\ UNCHANGED pc
       [] OTHER -> Again /\ result' = None
  /\ UNCHANGED <<socketVars, bufferVars, queueVars, callVars, expired, ponged>>

Greeting == {"001", "002"}

\* Variant: two messages of the greeting are enough, whichever they are.
GreetingCounted(msgs) == Len(msgs) = 2

GreetingSeen(msgs) ==
  \A c \in Greeting : \E j \in DOMAIN msgs : stream[msgs[j]] = c

\* One turn: keep a 001 or 002, drop the rest; leave with two or at the
\* deadline, through the two assertions.
Register ==
  /\ op = "register"
  /\ pc = "out"
  /\ collected' = IF GotMessage /\ stream[result] \in Greeting
                    THEN Append(collected, result) ELSE collected
  /\ IF Len(collected') < 2 /\ TimeLeft
       THEN Again /\ result' = None
       ELSE /\ op' = "idle"
            /\ result' = IF GreetingSeen(collected') THEN None ELSE Raised
            /\ UNCHANGED pc
  /\ UNCHANGED <<socketVars, bufferVars, queueVars, want, mark, expired, ponged>>

-----------------------------------------------------------------------------
Environment == ServerWrites \/ ServerCloses

GetMessage ==
  \/ GetQueued \/ StartClock \/ LoopHead \/ SplitLine \/ HandlePing
  \/ AllSplit \/ RecvNothing \/ RecvChunk \/ RecvClosed

Caller ==
  \/ Connect \/ Send \/ Close
  \/ CallGetMessage \/ CallWaitForCommand \/ CallRegister

Next ==
  \/ Environment
  \/ \E timer \in {"call", "caller"} : TimeOut(timer)
  \/ GetMessage
  \/ WaitForCommand
  \/ Register
  \/ Caller

\* The test's thread runs whenever it can inside a call, and time passes.
Fairness ==
  /\ WF_vars(GetMessage)
  /\ WF_vars(WaitForCommand)
  /\ WF_vars(Register)
  /\ \A timer \in {"call", "caller"} : WF_vars(TimeOut(timer))

Spec == Init /\ [][Next]_vars /\ Fairness
-----------------------------------------------------------------------------
(* Properties *)

\* Every variable has its type.
TypeOK ==
  /\ stream \in Streams
  /\ arrived \in 0..LineEnd[N]
  /\ peer \in {"none", "up", "fin", "rst"}
  /\ expired \subseteq {"call", "caller"}
  /\ auto_pong \in BOOLEAN
  /\ read \in 0..arrived
  /\ cut \in 0..N
  /\ message_queue \in Seq(1..N)
  /\ op \in {"new", "idle", "get_message", "wait_for_command", "register",
             "closed"}
  /\ pc \in {"out", "entry", "head", "split", "pong", "recv"}
  /\ want \in Wanted \cup {"none"}
  /\ collected \in Seq(1..N)
  /\ result \in 1..N \cup {None, Raised}
  /\ taken \in Seq(1..N)
  /\ mark \in 0..Len(taken)
  /\ ponged \in Seq(1..N)
  /\ torn \subseteq 1..N

History == taken \o message_queue

\* get_message hands out every message that left the buffer once and in the
\* order of the stream, over any mix of get_message, wait_for_command and
\* register, time-outs, failed PONGs and lines parse_message refuses.
OnceInOrder ==
  /\ \A i, j \in DOMAIN History : i < j => History[i] < History[j]
  /\ {History[i] : i \in DOMAIN History} = {i \in 1..cut : IsMessage(i)}

\* Every PING that left the buffer was answered, once, in order, whatever the
\* call that met it was waiting for, unless the connection was reset or the
\* test switched auto_pong off.
PingsAnswered ==
  /\ \A i, j \in DOMAIN ponged : i < j => ponged[i] < ponged[j]
  /\ \A i \in DOMAIN ponged : ponged[i] <= cut /\ AnswersPing(ponged[i])
  /\ peer # "rst" =>
       \A i \in 1..cut : AnswersPing(i) =>
         \/ \E j \in DOMAIN ponged : ponged[j] = i
         \/ pc = "pong" /\ i = cut

\* get_message answers None only if no parsed message was left in the queue.
NoneMeansDrained ==
  [][pc # "out" /\ pc' = "out" /\ result' = None => message_queue' = <<>>]_vars

\* Before its time is up, get_message gives up only on a closed connection:
\* the "" of _recv_raw means what its comment says (client_helper.py:43).
GivesUpOnlyIfClosed ==
  [][pc = "recv" /\ pc' = "out" => peer \in {"fin", "rst"}]_vars

\* What holds of that comment when characters have several bytes: on an open
\* connection get_message gives up early only if the decoder dropped a character
\* of the very line it is receiving, which can no longer come out whole.
LineOf(p) == {i \in 1..N : LineEnd[i - 1] < p /\ p <= LineEnd[i]}
EarlyNoneMeansLoss ==
  [][pc = "recv" /\ pc' = "out" =>
       peer \in {"fin", "rst"} \/ LineOf(read') \subseteq torn']_vars

Since(m) == m + 1 .. Len(taken)

\* wait_for_command returns the first matching message since it was called,
\* and reports None only if none of those it threw away matched.
WaitFindsFirst ==
  [][op = "wait_for_command" /\ op' = "idle" /\ result' # Raised =>
       IF result' = None
         THEN \A j \in Since(mark) : stream[taken[j]] # want
         ELSE /\ Len(taken) > mark /\ result' = taken[Len(taken)]
              /\ stream[result'] = want
              /\ \A j \in Since(mark) \ {Len(taken)} : stream[taken[j]] # want]_vars

\* register returns without an exception only if this very call took both a
\* 001 and a 002 off the connection.
RegisterSawGreeting ==
  [][op = "register" /\ op' = "idle" /\ result' # Raised =>
       \A c \in Greeting : \E j \in Since(mark) : stream[taken[j]] = c]_vars

\* Every call of the client returns or raises.
CallReturns ==
  op \in {"get_message", "wait_for_command", "register"} ~> op = "idle"

\* The client implements the channel it stands for.
Channel == INSTANCE MessageChannel WITH delivered <- taken
ImplementsChannel == Channel!Spec

\* test_05_notice.py:42 "Clear any JOIN messages from client2's buffer": the
\* drain loops stop at the first None, which should leave no whole line behind.
NoneMeansBufferEmpty ==
  [][op = "get_message" /\ op' = "idle" /\ result' = None => ~LineBuffered]_vars
=============================================================================
