-------------------------- MODULE IRCClient_proofs --------------------------
(***************************************************************************)
(* Proofs, for every N, every layout of the byte stream and every set of    *)
(* streams, of the safety properties of IRCClient.                          *)
(***************************************************************************)
EXTENDS IRCClient, TLAPS

-----------------------------------------------------------------------------
(* Facts about the queue of parsed messages *)

\* message_queue.pop(0): types, and the history in front of the queue.
LEMMA PopFacts ==
  ASSUME NEW S, NEW q \in Seq(S), q # <<>>, NEW t \in Seq(S)
  PROVE  /\ Head(q) \in S
         /\ Tail(q) \in Seq(S)
         /\ Append(t, Head(q)) \in Seq(S)
         /\ Len(Append(t, Head(q))) = Len(t) + 1
         /\ Append(t, Head(q))[Len(t) + 1] = Head(q)
         /\ \A j \in 1..Len(t) : Append(t, Head(q))[j] = t[j]
         /\ Append(t, Head(q)) \o Tail(q) = t \o q
<1>1. Len(q) \in Nat /\ Len(q) > 0
  OBVIOUS
<1>2. Head(q) \in S
  BY <1>1
<1>3. Append(t, Head(q)) \o Tail(q) = t \o q
  OBVIOUS
<1> QED
  BY <1>2, <1>3

\* message_queue.append: the history grows by the same message.
LEMMA PushFacts ==
  ASSUME NEW S, NEW q \in Seq(S), NEW t \in Seq(S), NEW x \in S
  PROVE  /\ Append(q, x) \in Seq(S)
         /\ t \o Append(q, x) = Append(t \o q, x)
  OBVIOUS

\* The type of an element.
LEMMA ElementFacts ==
  ASSUME NEW S, NEW t \in Seq(S), NEW j \in 1..Len(t)
  PROVE  t[j] \in S
  OBVIOUS

\* Reading a concatenation by position.
LEMMA ConcatFacts ==
  ASSUME NEW S, NEW q \in Seq(S), NEW t \in Seq(S)
  PROVE  /\ t \o q \in Seq(S)
         /\ Len(t \o q) = Len(t) + Len(q)
         /\ \A i \in 1..Len(t) : (t \o q)[i] = t[i]
         /\ \A i \in 1..Len(q) : (t \o q)[Len(t) + i] = q[i]
  OBVIOUS

-----------------------------------------------------------------------------
(* Types *)

\* While it answers a PING, get_message has just cut a line.
PongHasLine == pc = "pong" => cut > 0

\* get_message only runs inside a call, and no server is there before connect.
Control ==
  /\ op \in {"new", "idle", "closed"} => pc = "out"
  /\ op = "new" => peer = "none"

TypeInv == TypeOK /\ PongHasLine /\ Control

\* register begins; when its first send raises, the step is one of Send.
BeginRegister == CanSend /\ Begin("register", "out") /\ UNCHANGED want

\* Every action keeps every variable in its type. TypeOK alone is not
\* inductive: HandlePing answers line `cut`, which must exist.
LEMMA TypeStep == ASSUME TypeInv, [Next]_vars PROVE TypeInv'
<1> USE StreamAssumption DEF None, Raised
<1> USE DEF TypeInv, TypeOK, PongHasLine, Control,
            socketVars, bufferVars, queueVars, callVars
<1>1. CASE ServerWrites
  BY <1>1 DEF ServerWrites
<1>2. CASE ServerCloses
  BY <1>2 DEF ServerCloses
<1>3. ASSUME NEW timer \in {"call", "caller"}, TimeOut(timer) PROVE TypeInv'
  BY <1>3 DEF TimeOut
<1>4. CASE Connect
  BY <1>4 DEF Connect
<1>5. CASE Send
  BY <1>5 DEF Send
<1>6. CASE Close
  BY <1>6 DEF Close
<1>7. CASE CallGetMessage
  BY <1>7 DEF CallGetMessage, Begin
<1>8. CASE CallWaitForCommand
  BY <1>8 DEF CallWaitForCommand, Begin
<1>9. CASE BeginRegister
  BY <1>9 DEF BeginRegister, Begin
<1>10. ASSUME ReturnOldest, message_queue # <<>>,
              UNCHANGED <<expired, callVars, ponged>>,
              UNCHANGED <<socketVars, bufferVars>>
       PROVE  TypeInv'
  <2>1. /\ result' \in 1..N
        /\ message_queue' \in Seq(1..N)
        /\ taken' \in Seq(1..N)
        /\ Len(taken') = Len(taken) + 1
    BY <1>10, PopFacts DEF ReturnOldest
  <2> QED
    BY <1>10, <2>1 DEF ReturnOldest, ToCaller
<1>11. CASE GetQueued
  BY <1>10, <1>11 DEF GetQueued, HasQueued
<1>12. CASE StartClock
  BY <1>12 DEF StartClock
<1>13. CASE LoopHead
  BY <1>13 DEF LoopHead, ReturnNone, ToCaller
<1>14. CASE SplitLine
  <2>1. cut + 1 \in 1..N /\ cut' = cut + 1
    BY <1>14 DEF SplitLine, LineBuffered
  <2>2. message_queue' \in Seq(1..N)
    <3>1. \/ message_queue' = Append(message_queue, cut + 1)
          \/ message_queue' = message_queue
      BY <1>14 DEF SplitLine, Queue, IsMessage, Raise
    <3>2. Append(message_queue, cut + 1) \in Seq(1..N)
      BY <2>1
    <3> QED
      BY <3>1, <3>2
  <2>3. pc' \in {"out", "split", "pong"}
    BY <1>14, <2>1 DEF SplitLine, Raise, IsMessage
  <2>4. op' \in {op, "idle"} /\ result' \in {result, Raised}
    BY <1>14 DEF SplitLine, Raise, IsMessage
  <2>5. Control'
    BY <1>14 DEF SplitLine, Raise, IsMessage
  <2> QED
    BY <1>14, <2>1, <2>2, <2>3, <2>4, <2>5 DEF SplitLine
<1>15. CASE HandlePing
  <2>1. CASE CanSend
    <3>1. ponged' = Append(ponged, cut) /\ cut \in 1..N /\ cut' = cut
      BY <1>15, <2>1 DEF HandlePing, SendPong
    <3>2. /\ ponged' \in Seq(1..N)
        BY <3>1
    <3> QED
      BY <1>15, <2>1, <3>1, <3>2 DEF HandlePing
  <2>2. CASE ~CanSend
    BY <1>15, <2>2 DEF HandlePing, Raise
  <2> QED
    BY <2>1, <2>2
<1>16. CASE AllSplit
  <2>1. CASE message_queue # <<>>
    BY <1>10, <1>16, <2>1 DEF AllSplit
  <2>2. CASE message_queue = <<>>
    BY <1>16, <2>2 DEF AllSplit
  <2> QED
    BY <2>1, <2>2
<1>17. CASE RecvNothing
  BY <1>17 DEF RecvNothing
<1>18. CASE RecvChunk
  <2>1. read' \in 0..arrived
    BY <1>18 DEF RecvChunk
  <2>2. torn' \subseteq 1..N
    BY <1>18 DEF RecvChunk, LineAt
  <2>3. /\ pc' \in {"out", "head"}
        /\ op' \in {op, "idle"}
        /\ result' \in {result, None}
        /\ UNCHANGED <<message_queue, taken>>
    BY <1>18 DEF RecvChunk, ReturnNone, ToCaller
  <2>4. Control'
    BY <1>18 DEF RecvChunk, ReturnNone, ToCaller
  <2> QED
    BY <1>18, <2>1, <2>2, <2>3, <2>4 DEF RecvChunk
<1>19. CASE RecvClosed
  BY <1>19 DEF RecvClosed, ReturnNone, ToCaller
<1>20. CASE WaitForCommand
  BY <1>20 DEF WaitForCommand, Matches, Again
<1>21. CASE Register
  <2>1. /\ pc' \in {pc, "entry"}
        /\ op' \in {op, "idle"}
        /\ result' \in {None, Raised}
    BY <1>21 DEF Register, Again
  <2>2. collected' \in Seq(1..N)
    <3>1. \/ collected' = Append(collected, result) /\ result \in 1..N
          \/ collected' = collected
      BY <1>21 DEF Register, GotMessage
    <3>2. result \in 1..N => Append(collected, result) \in Seq(1..N)
      OBVIOUS
    <3> QED
      BY <3>1, <3>2
  <2>3. Control'
    BY <1>21 DEF Register, Again
  <2> QED
    BY <1>21, <2>1, <2>2, <2>3 DEF Register
<1>22. CASE UNCHANGED vars
  BY <1>22 DEF vars
<1>23. QED
  BY <1>1, <1>2, <1>3, <1>4, <1>5, <1>6, <1>7, <1>8, <1>9, <1>11, <1>12,
     <1>13, <1>14, <1>15, <1>16, <1>17, <1>18, <1>19, <1>20, <1>21, <1>22
  DEF Next, Environment, GetMessage, Caller, CallRegister, BeginRegister

\* The types and the control facts hold in every state.
LEMMA TypeInductive == Spec => []TypeInv
<1>1. Init => TypeInv
  BY StreamAssumption DEF Init, TypeInv, TypeOK, PongHasLine, Control, None
<1>2. TypeInv /\ [Next]_vars => TypeInv'
  BY TypeStep
<1>3. QED
  BY <1>1, <1>2, PTL DEF Spec

\* No variable ever leaves its type.
THEOREM TypeCorrect == Spec => []TypeOK
  BY TypeInductive, PTL DEF TypeInv

-----------------------------------------------------------------------------
(* The four things a step can do to the messages *)

Quiet == /\ UNCHANGED <<taken, message_queue, cut, ponged>>
         /\ arrived' \in arrived .. LineEnd[N]
         /\ read' >= read

Pop == /\ message_queue # <<>>
       /\ taken' = Append(taken, Head(message_queue))
       /\ message_queue' = Tail(message_queue)
       /\ UNCHANGED <<arrived, read, cut, ponged>>

Cut == /\ cut < N
       /\ cut' = cut + 1
       /\ LineEnd[cut + 1] <= read
       /\ \/ IsMessage(cut + 1) /\ Queue(cut + 1)
          \/ ~IsMessage(cut + 1) /\ UNCHANGED message_queue
       /\ UNCHANGED <<arrived, read, taken, ponged>>

Pong == /\ ponged' = Append(ponged, cut)
        /\ UNCHANGED <<arrived, read, cut, taken, message_queue>>

\* Each action of the client is one of them.
LEMMA StepShape ==
  ASSUME TypeInv, [Next]_vars
  PROVE  /\ UNCHANGED <<stream, auto_pong>>
         /\ Quiet \/ Pop \/ Cut \/ (pc = "pong" /\ CanSend /\ Pong)
<1> DEFINE Goal == /\ UNCHANGED <<stream, auto_pong>>
                   /\ Quiet \/ Pop \/ Cut \/ (pc = "pong" /\ CanSend /\ Pong)
<1> SUFFICES Goal
  OBVIOUS
<1>0. /\ arrived \in Nat /\ read \in 0..arrived /\ cut \in 0..N /\ N \in Nat
      /\ arrived \in 0..LineEnd[N] /\ LineEnd[N] \in Nat
  BY StreamAssumption DEF TypeInv, TypeOK
<1> USE <1>0 DEF socketVars, bufferVars, queueVars, callVars
<1>1. CASE ServerWrites
  BY <1>1 DEF ServerWrites, Quiet
<1>2. CASE ServerCloses
  BY <1>2 DEF ServerCloses, Quiet
<1>3. ASSUME NEW timer \in {"call", "caller"}, TimeOut(timer) PROVE Goal
  BY <1>3 DEF TimeOut, Quiet
<1>4. CASE Connect \/ Send \/ Close
  BY <1>4 DEF Connect, Send, Close, Quiet
<1>5. CASE CallGetMessage \/ CallWaitForCommand \/ BeginRegister
  BY <1>5 DEF CallGetMessage, CallWaitForCommand, BeginRegister, Begin, Quiet
<1>6. CASE GetQueued
  BY <1>6 DEF GetQueued, HasQueued, ReturnOldest, Pop
<1>7. CASE StartClock \/ LoopHead
  BY <1>7 DEF StartClock, LoopHead, ReturnNone, Quiet
<1>8. CASE SplitLine
  <2>1. \/ IsMessage(cut + 1) /\ Queue(cut + 1)
        \/ ~IsMessage(cut + 1) /\ UNCHANGED message_queue
    BY <1>8 DEF SplitLine, IsMessage
  <2> QED
    BY <1>8, <2>1 DEF SplitLine, LineBuffered, Cut
<1>9. CASE HandlePing
  BY <1>9 DEF HandlePing, SendPong, Pong, Quiet
<1>10. CASE AllSplit
  BY <1>10 DEF AllSplit, ReturnOldest, Pop, Quiet
<1>11. CASE RecvNothing \/ RecvClosed
  BY <1>11 DEF RecvNothing, RecvClosed, ReturnNone, Quiet
<1>12. CASE RecvChunk
  BY <1>12 DEF RecvChunk, ReturnNone, Quiet
<1>13. CASE WaitForCommand \/ Register
  BY <1>13 DEF WaitForCommand, Register, Quiet
<1>14. CASE UNCHANGED vars
  BY <1>14 DEF vars, Quiet
<1> QED
  BY <1>1, <1>2, <1>3, <1>4, <1>5, <1>6, <1>7, <1>8, <1>9, <1>10, <1>11,
     <1>12, <1>13, <1>14
  DEF Next, Environment, GetMessage, Caller, CallRegister, BeginRegister

-----------------------------------------------------------------------------
(* Every message once, in order *)

\* Each of those kinds of step keeps the history complete and in order.
LEMMA HistoryStep ==
  ASSUME TypeInv, [Next]_vars
  PROVE  \/ History' = History /\ cut' = cut
         \/ /\ cut < N /\ cut' = cut + 1
            /\ \/ IsMessage(cut + 1) /\ History' = Append(History, cut + 1)
               \/ ~IsMessage(cut + 1) /\ History' = History
<1>1. /\ message_queue \in Seq(1..N) /\ taken \in Seq(1..N)
      /\ cut \in 0..N /\ N \in Nat
  BY StreamAssumption DEF TypeInv, TypeOK
<1>2. CASE Quiet
  BY <1>2 DEF Quiet, History
<1>3. CASE Pop
  BY <1>1, <1>3, PopFacts DEF Pop, History
<1>4. CASE Cut
  <2>1. CASE IsMessage(cut + 1) /\ Queue(cut + 1)
    <3>1. cut + 1 \in 1..N
      BY <1>1, <1>4 DEF Cut
    <3>2. taken \o Append(message_queue, cut + 1)
            = Append(taken \o message_queue, cut + 1)
      BY <1>1, <3>1, PushFacts
    <3> QED
      BY <1>4, <2>1, <3>2 DEF Cut, Queue, History
  <2>2. CASE ~IsMessage(cut + 1) /\ UNCHANGED message_queue
    BY <1>4, <2>2 DEF Cut, History
  <2> QED
    BY <1>4, <2>1, <2>2 DEF Cut
<1>5. CASE Pong
  BY <1>5 DEF Pong, History
<1> QED
  BY <1>2, <1>3, <1>4, <1>5, StepShape

\* No message is lost, repeated or overtaken between the buffer and the test.
THEOREM Delivery == Spec => []OnceInOrder
<1>1. Init => OnceInOrder
  <2> SUFFICES ASSUME Init PROVE OnceInOrder
    OBVIOUS
  <2>1. History = <<>> /\ DOMAIN History = {} /\ cut = 0
    BY DEF Init, History
  <2> QED
    BY <2>1 DEF OnceInOrder
<1>2. TypeInv /\ OnceInOrder /\ [Next]_vars => OnceInOrder'
  <2> SUFFICES ASSUME TypeInv, OnceInOrder, [Next]_vars PROVE OnceInOrder'
    OBVIOUS
  <2>1. /\ History \in Seq(1..N) /\ cut \in 0..N /\ N \in Nat
        /\ \A i : IsMessage(i)' <=> IsMessage(i)
    BY StreamAssumption, ConcatFacts, StepShape
    DEF TypeInv, TypeOK, History, IsMessage
  <2>2. CASE History' = History /\ cut' = cut
    BY <2>1, <2>2 DEF OnceInOrder
  <2>3. CASE /\ cut < N /\ cut' = cut + 1
             /\ ~IsMessage(cut + 1) /\ History' = History
    BY <2>1, <2>3 DEF OnceInOrder
  <2>4. CASE /\ cut < N /\ cut' = cut + 1
             /\ IsMessage(cut + 1) /\ History' = Append(History, cut + 1)
    <3>1. /\ DOMAIN History' = 1..(Len(History) + 1)
          /\ DOMAIN History = 1..Len(History) /\ Len(History) \in Nat
          /\ History'[Len(History) + 1] = cut + 1
          /\ \A i \in 1..Len(History) : History'[i] = History[i]
      BY <2>1, <2>4
    <3>2. \A i \in 1..Len(History) : History[i] \in 1..cut
      BY <3>1 DEF OnceInOrder
    <3>3. \A i, j \in DOMAIN History' : i < j => History'[i] < History'[j]
      BY <2>1, <3>1, <3>2 DEF OnceInOrder
    <3>4. {History'[i] : i \in DOMAIN History'}
            = {History[i] : i \in DOMAIN History} \cup {cut + 1}
      BY <3>1
    <3>5. {i \in 1..cut' : IsMessage(i)'}
            = {i \in 1..cut : IsMessage(i)} \cup {cut + 1}
      BY <2>1, <2>4
    <3> QED
      BY <3>3, <3>4, <3>5 DEF OnceInOrder
  <2> QED
    BY <2>2, <2>3, <2>4, HistoryStep
<1>3. QED
  BY <1>1, <1>2, TypeInductive, PTL DEF Spec
-----------------------------------------------------------------------------
(* PINGs *)

\* While get_message answers a PING, that PING is the line just cut and all
\* the PONGs sent so far were for earlier lines.
AnsweringPing ==
  pc = "pong" => AnswersPing(cut) /\ \A i \in DOMAIN ponged : ponged[i] < cut

PingInv == PingsAnswered /\ AnsweringPing

\* The steps that neither cut a line nor send a PONG do not reach HandlePing,
\* nor leave it except by the exception of a reset connection.
LEMMA PongEntry ==
  ASSUME TypeInv, [Next]_vars
  PROVE  /\ pc' = "pong" => \/ pc = "pong" /\ cut' = cut /\ ponged' = ponged
                            \/ /\ pc = "split" /\ cut' = cut + 1
                               /\ AnswersPing(cut + 1) /\ ponged' = ponged
         /\ pc = "pong" => \/ pc' = "pong" /\ cut' = cut /\ ponged' = ponged
                           \/ peer = "rst" /\ cut' = cut /\ ponged' = ponged
                           \/ ponged' = Append(ponged, cut) /\ cut' = cut
         /\ peer = "rst" => peer' = "rst"
         /\ cut' = cut + 1 => pc = "split" /\ (AnswersPing(cut + 1) => pc' = "pong")
<1> DEFINE Goal ==
         /\ pc' = "pong" => \/ pc = "pong" /\ cut' = cut /\ ponged' = ponged
                            \/ /\ pc = "split" /\ cut' = cut + 1
                               /\ AnswersPing(cut + 1) /\ ponged' = ponged
         /\ pc = "pong" => \/ pc' = "pong" /\ cut' = cut /\ ponged' = ponged
                           \/ peer = "rst" /\ cut' = cut /\ ponged' = ponged
                           \/ ponged' = Append(ponged, cut) /\ cut' = cut
         /\ peer = "rst" => peer' = "rst"
         /\ cut' = cut + 1 => pc = "split" /\ (AnswersPing(cut + 1) => pc' = "pong")
<1> SUFFICES Goal
  OBVIOUS
<1>0. cut \in Nat /\ Control
  BY StreamAssumption DEF TypeInv, TypeOK
<1> USE <1>0 DEF socketVars, bufferVars, queueVars, callVars
<1>1. CASE Environment
  BY <1>1 DEF Environment, ServerWrites, ServerCloses
<1>2. ASSUME NEW timer \in {"call", "caller"}, TimeOut(timer) PROVE Goal
  BY <1>2 DEF TimeOut
<1>3. CASE Connect
  BY <1>3 DEF Connect, Control
<1>4. CASE Send \/ Close
  BY <1>4 DEF Send, Close
<1>5. CASE CallGetMessage \/ CallWaitForCommand \/ BeginRegister
  BY <1>5 DEF CallGetMessage, CallWaitForCommand, BeginRegister, Begin, Control
<1>6. CASE GetQueued
  BY <1>6 DEF GetQueued, HasQueued, ReturnOldest
<1>7. CASE StartClock \/ LoopHead
  BY <1>7 DEF StartClock, LoopHead, ReturnNone
<1>8. CASE SplitLine
  BY <1>8 DEF SplitLine, AnswersPing, IsMessage, Raise
<1>9. CASE HandlePing
  BY <1>9 DEF HandlePing, SendPong, CanSend, Raise
<1>10. CASE AllSplit
  BY <1>10 DEF AllSplit, ReturnOldest
<1>11. CASE RecvNothing \/ RecvClosed
  BY <1>11 DEF RecvNothing, RecvClosed, ReturnNone
<1>12. CASE RecvChunk
  BY <1>12 DEF RecvChunk, ReturnNone
<1>13. CASE WaitForCommand \/ Register
  BY <1>13 DEF WaitForCommand, Register, Again
<1>14. CASE UNCHANGED vars
  BY <1>14 DEF vars
<1> QED
  BY <1>1, <1>2, <1>3, <1>4, <1>5, <1>6, <1>7, <1>8, <1>9, <1>10, <1>11,
     <1>12, <1>13, <1>14
  DEF Next, GetMessage, Caller, CallRegister, BeginRegister

\* Every PING cut from the buffer is answered exactly once and in order, as
\* long as the connection is not reset.
THEOREM Pings == Spec => []PingsAnswered
<1>1. Init => PingInv
  BY DEF Init, PingInv, PingsAnswered, AnsweringPing
<1>2. TypeInv /\ PingInv /\ [Next]_vars => PingInv'
  <2> SUFFICES ASSUME TypeInv, PingInv, [Next]_vars PROVE PingInv'
    OBVIOUS
  <2>1. /\ ponged \in Seq(1..N) /\ cut \in 0..N /\ N \in Nat
        /\ \A i : AnswersPing(i)' <=> AnswersPing(i)
        /\ pc = "pong" => cut > 0
    BY StreamAssumption, StepShape
    DEF TypeInv, TypeOK, PongHasLine, AnswersPing
  <2>2. CASE Quiet \/ Pop
    <3>1. cut' = cut /\ ponged' = ponged
      BY <2>2 DEF Quiet, Pop
    <3>2. pc = "pong" /\ peer' # "rst" => pc' = "pong"
      BY <2>1, <3>1, PongEntry
    <3>3. pc' = "pong" => pc = "pong"
      BY <2>1, <3>1, PongEntry
    <3> QED
      BY <2>1, <3>1, <3>2, <3>3, PongEntry
      DEF PingInv, PingsAnswered, AnsweringPing
  <2>3. CASE Cut
    <3>1. cut' = cut + 1 /\ ponged' = ponged /\ pc = "split"
      BY <2>3, PongEntry DEF Cut
    <3>2. pc' = "pong" <=> AnswersPing(cut + 1)
      BY <2>1, <3>1, PongEntry
    <3> QED
      BY <2>1, <3>1, <3>2, PongEntry DEF PingInv, PingsAnswered, AnsweringPing
  <2>4. CASE pc = "pong" /\ Pong
    <3>1. /\ cut' = cut /\ ponged' = Append(ponged, cut) /\ cut \in 1..N
      BY <2>1, <2>4 DEF Pong
    <3>2. /\ DOMAIN ponged' = 1..(Len(ponged) + 1)
          /\ DOMAIN ponged = 1..Len(ponged) /\ Len(ponged) \in Nat
          /\ ponged'[Len(ponged) + 1] = cut
          /\ \A i \in 1..Len(ponged) : ponged'[i] = ponged[i]
      BY <2>1, <3>1
    <3>3. /\ AnswersPing(cut)
          /\ \A i \in 1..Len(ponged) : ponged[i] < cut /\ AnswersPing(ponged[i])
      BY <2>4, <3>2 DEF PingInv, PingsAnswered, AnsweringPing
    <3>4. pc' # "pong"
      <4>1. Len(ponged) + 1 \in DOMAIN ponged' /\ Len(ponged) + 1 \notin DOMAIN ponged
        BY <3>2
      <4>2. ponged' # ponged /\ pc # "split"
        BY <2>4, <4>1
      <4> QED
        BY <4>2, PongEntry
    <3>5. \A i \in DOMAIN ponged' : ponged'[i] <= cut /\ AnswersPing(ponged'[i])
      <4> SUFFICES ASSUME NEW i \in DOMAIN ponged'
                   PROVE  ponged'[i] <= cut /\ AnswersPing(ponged'[i])
        OBVIOUS
      <4>1. CASE i = Len(ponged) + 1
        BY <2>1, <3>2, <3>3, <4>1
      <4>2. CASE i \in 1..Len(ponged)
        BY <2>1, <3>2, <3>3, <4>2
      <4> QED
        BY <3>2, <4>1, <4>2
    <3>6. \A i, j \in DOMAIN ponged' : i < j => ponged'[i] < ponged'[j]
      <4> SUFFICES ASSUME NEW i \in DOMAIN ponged', NEW j \in DOMAIN ponged',
                          i < j
                   PROVE  ponged'[i] < ponged'[j]
        OBVIOUS
      <4>1. i \in 1..Len(ponged)
        BY <3>2
      <4>2. CASE j = Len(ponged) + 1
        BY <3>2, <3>3, <4>1, <4>2
      <4>3. CASE j \in 1..Len(ponged)
        BY <3>2, <4>1, <4>3 DEF PingInv, PingsAnswered
      <4> QED
        BY <3>2, <4>2, <4>3
    <3>7. peer # "rst" => \A i \in 1..cut : AnswersPing(i) =>
                            \E j \in DOMAIN ponged' : ponged'[j] = i
      BY <3>2 DEF PingInv, PingsAnswered
    <3> QED
      BY <2>1, <3>1, <3>4, <3>5, <3>6, <3>7, PongEntry
      DEF PingInv, PingsAnswered, AnsweringPing
  <2> QED
    BY <2>2, <2>3, <2>4, StepShape
<1>3. PingInv => PingsAnswered
  BY DEF PingInv
<1>4. QED
  BY <1>1, <1>2, <1>3, TypeInductive, PTL DEF Spec

-----------------------------------------------------------------------------
(* The abstract channel *)

\* No line is cut before its last byte was received.
LineReceived == LineEnd[cut] <= read

\* get_message splits a line off only once all its bytes were received.
LEMMA LinesReceived == Spec => []LineReceived
<1>1. Init => LineReceived
  BY StreamAssumption DEF Init, LineReceived
<1>2. TypeInv /\ LineReceived /\ [Next]_vars => LineReceived'
  <2> SUFFICES ASSUME TypeInv, LineReceived, [Next]_vars PROVE LineReceived'
    OBVIOUS
  <2>1. /\ cut \in 0..N /\ N \in Nat /\ read \in Nat /\ arrived \in Nat
        /\ LineEnd[cut] \in Nat
        /\ read' \in Nat
    <3>1. TypeInv'
      BY TypeStep
    <3> QED
      BY <3>1, StreamAssumption DEF TypeInv, TypeOK
  <2> QED
    BY <2>1, StepShape DEF LineReceived, Quiet, Pop, Cut, Pong
<1>3. QED
  BY <1>1, <1>2, TypeInductive, PTL DEF Spec

\* A step that hands out a message hands out the next one of the stream.
LEMMA PopIsDeliver ==
  ASSUME TypeInv, OnceInOrder, LineReceived, UNCHANGED stream, Pop
  PROVE  Channel!Deliver
<1> DEFINE k == Head(message_queue)
           n == Len(taken)
<1>1. /\ message_queue \in Seq(1..N) /\ message_queue # <<>>
      /\ taken \in Seq(1..N) /\ n \in Nat
      /\ cut \in 0..N /\ N \in Nat /\ read \in Nat /\ arrived \in Nat
      /\ read <= arrived
  BY StreamAssumption DEF TypeInv, TypeOK, Pop
<1>2. /\ DOMAIN History = 1..(n + Len(message_queue))
      /\ Len(message_queue) \in Nat /\ Len(message_queue) > 0
      /\ History[n + 1] = k
      /\ \A i \in 1..n : History[i] = taken[i]
      /\ DOMAIN taken = 1..n
  BY <1>1, ConcatFacts DEF History
<1>3. k \in 1..cut /\ IsMessage(k)
  BY <1>2 DEF OnceInOrder
<1> DEFINE Positions == 1..(n + Len(message_queue))
<1>7. \A a, b \in Positions : a < b => History[a] < History[b]
  BY <1>2 DEF OnceInOrder
<1>8. \A j \in 1..cut : IsMessage(j) => \E m \in Positions : History[m] = j
  BY <1>2 DEF OnceInOrder
<1>9. \A a \in Positions : History[a] \in Nat
  <2>1. \A a \in Positions : History[a] \in 1..cut
    BY <1>2 DEF OnceInOrder
  <2> QED
    BY <1>1, <2>1
<1>4. LineEnd[k] <= arrived
  <2>1. LineEnd[k] <= LineEnd[cut] /\ LineEnd[k] \in Nat /\ LineEnd[cut] \in Nat
    BY <1>1, <1>3, StreamAssumption
  <2>2. LineEnd[cut] <= read
    BY DEF LineReceived
  <2>3. read \in Nat /\ arrived \in Nat /\ read <= arrived
    BY <1>1
  <2> HIDE DEF k
  <2> QED
    BY <2>1, <2>2, <2>3
<1>5. Channel!Latest < k
  <2>1. CASE n = 0
    BY <1>1, <1>3, <2>1 DEF Channel!Latest
  <2>2. CASE n > 0
    <3>1. n \in Positions /\ n + 1 \in Positions
      BY <1>1, <1>2, <2>2
    <3>2. History[n] < History[n + 1]
      BY <1>1, <1>7, <3>1
    <3> QED
      BY <1>1, <1>2, <2>2, <3>2 DEF Channel!Latest
  <2> QED
    BY <1>1, <2>1, <2>2
<1>6. ASSUME NEW j \in 1..N, Channel!Latest < j, j < k, IsMessage(j)
      PROVE  FALSE
  <2>1. j \in 1..cut
    BY <1>1, <1>3, <1>6
  <2>2. PICK m \in Positions : History[m] = j
    BY <1>6, <1>8, <2>1
  <2>3. ~(n + 1 <= m)
    <3>1. n + 1 \in Positions /\ m \in Nat
      BY <1>1, <1>2
    <3>2. CASE m = n + 1
      BY <1>2, <1>6, <1>9, <2>2, <3>1, <3>2
    <3>3. CASE n + 1 < m
      <4>1. k < j
        BY <1>2, <1>7, <2>2, <3>1, <3>3
      <4> QED
        BY <1>1, <1>3, <1>6, <4>1
    <3> QED
      BY <1>1, <3>1, <3>2, <3>3
  <2>4. m \in 1..n /\ n > 0
    BY <1>1, <1>2, <2>3
  <2>5. n \in Positions /\ Channel!Latest = History[n]
    BY <1>1, <1>2, <2>4 DEF Channel!Latest
  <2>6. History[m] <= History[n]
    BY <1>7, <1>9, <2>4, <2>5
  <2> QED
    BY <1>6, <1>9, <2>2, <2>5, <2>6
<1> QED
  <2>1. k \in 1..N
    BY <1>1, <1>3
  <2>2. taken' = Append(taken, k) /\ UNCHANGED <<stream, arrived>>
    BY DEF Pop
  <2> QED
    BY <1>3, <1>4, <1>5, <1>6, <2>1, <2>2
    DEF Channel!Deliver, Channel!IsMessage, IsMessage

\* The client, its time-outs, partial reads and exceptions included, is an
\* implementation of the channel of messages that tests believe they hold.
THEOREM Refinement == Spec => ImplementsChannel
<1>1. Init => Channel!Init
  BY DEF Init, Channel!Init
<1>2. TypeInv /\ OnceInOrder /\ LineReceived /\ [Next]_vars
        => [Channel!Next]_(Channel!vars)
  <2> SUFFICES ASSUME TypeInv, OnceInOrder, LineReceived, [Next]_vars
               PROVE  [Channel!Next]_(Channel!vars)
    OBVIOUS
  <2>1. CASE Pop
    BY <2>1, StepShape, PopIsDeliver DEF Channel!Next
  <2>2. CASE Cut \/ Pong
    BY <2>2, StepShape DEF Cut, Pong, Channel!vars
  <2>3. CASE Quiet
    <3>1. taken' = taken /\ stream' = stream /\ arrived' \in arrived .. LineEnd[N]
          /\ arrived \in Nat /\ LineEnd[N] \in Nat
      BY <2>3, StepShape, StreamAssumption DEF Quiet, TypeInv, TypeOK
    <3>2. arrived' = arrived \/ arrived' \in arrived + 1 .. LineEnd[N]
      BY <3>1
    <3> QED
      BY <3>1, <3>2 DEF Channel!Next, Channel!Arrive, Channel!vars
  <2> QED
    BY <2>1, <2>2, <2>3, StepShape
<1>3. QED
  BY <1>1, <1>2, TypeInductive, Delivery, LinesReceived, PTL
  DEF Spec, ImplementsChannel, Channel!Spec
-----------------------------------------------------------------------------
(* What the three receiving methods return *)

\* Inside a loop around get_message, `result` is None or the message that
\* get_message just returned, the last one taken.
LastTaken ==
  op \in {"wait_for_command", "register"} =>
    \/ result = None
    \/ pc = "out" /\ Len(taken) > mark /\ result = taken[Len(taken)]

\* Every message this wait has looked at so far was another one.
NotYetMatched ==
  op = "wait_for_command" =>
    \A j \in Since(mark) :
      result = None \/ j < Len(taken) => stream[taken[j]] # want

\* register only keeps messages this very call has taken.
CollectedHere ==
  op = "register" =>
    \A k \in DOMAIN collected : \E j \in Since(mark) : taken[j] = collected[k]

\* get_message polls the socket only with an empty queue.
PollsWhenEmpty == pc \in {"head", "recv"} => message_queue = <<>>

CallInv == LastTaken /\ NotYetMatched /\ CollectedHere /\ PollsWhenEmpty

\* A message is appended to those taken: what the loops know is kept.
LEMMA PopKeepsCallInv ==
  ASSUME TypeInv, CallInv, pc # "out", message_queue # <<>>, ReturnOldest,
         UNCHANGED <<stream, want, collected, mark>>
  PROVE  CallInv'
<1>1. /\ taken \in Seq(1..N) /\ message_queue \in Seq(1..N)
      /\ mark \in 0..Len(taken) /\ Len(taken) \in Nat
  BY DEF TypeInv, TypeOK
<1>2. /\ Len(taken') = Len(taken) + 1
      /\ taken'[Len(taken) + 1] = Head(message_queue)
      /\ \A j \in 1..Len(taken) : taken'[j] = taken[j]
      /\ result' = Head(message_queue)
      /\ pc' = "out" /\ mark' = mark /\ op' \in {op, "idle"}
  BY <1>1, PopFacts DEF ReturnOldest, ToCaller
<1>3. LastTaken'
  BY <1>1, <1>2 DEF LastTaken
<1>4. op \in {"wait_for_command", "register"} => result = None
  BY DEF CallInv, LastTaken
<1>5. Head(message_queue) # None
  <2>1. Head(message_queue) \in 1..N
    BY <1>1, PopFacts
  <2> QED
    BY <2>1 DEF None
<1>6. NotYetMatched'
  BY <1>1, <1>2, <1>4, <1>5 DEF CallInv, NotYetMatched, Since
<1>7. CollectedHere'
  BY <1>1, <1>2 DEF CallInv, CollectedHere, Since
<1>8. PollsWhenEmpty'
  BY <1>2 DEF PollsWhenEmpty
<1> QED
  BY <1>3, <1>6, <1>7, <1>8 DEF CallInv

\* An exception does not stay inside a call.
LEMMA NeverRaisedHere ==
  ASSUME TypeInv, CallInv, op \in {"wait_for_command", "register"}
  PROVE  result # Raised
<1>1. CASE result = None
  BY <1>1 DEF None, Raised
<1>2. CASE Len(taken) > mark /\ result = taken[Len(taken)]
  <2>1. /\ taken \in Seq(1..N) /\ mark \in 0..Len(taken)
        /\ Len(taken) \in Nat
    BY DEF TypeInv, TypeOK
  <2>2. Len(taken) \in 1..Len(taken)
    BY <1>2, <2>1
  <2>3. taken[Len(taken)] \in 1..N
    BY <2>1, <2>2, ElementFacts
  <2> QED
    BY <1>2, <2>3 DEF Raised
<1> QED
  BY <1>1, <1>2 DEF CallInv, LastTaken

\* Every other step keeps it too.
LEMMA CallStep == ASSUME TypeInv, CallInv, [Next]_vars PROVE CallInv'
<1> USE DEF socketVars, bufferVars, queueVars, callVars, CallInv, LastTaken,
            NotYetMatched, CollectedHere, PollsWhenEmpty, Since
<1>0. /\ Control /\ taken \in Seq(1..N) /\ mark \in 0..Len(taken)
      /\ Len(taken) \in Nat /\ result \in 1..N \cup {None, Raised}
      /\ collected \in Seq(1..N)
  BY DEF TypeInv, TypeOK
<1>1. CASE Environment
  BY <1>1 DEF Environment, ServerWrites, ServerCloses
<1>2. ASSUME NEW timer \in {"call", "caller"}, TimeOut(timer) PROVE CallInv'
  BY <1>2 DEF TimeOut
<1>3. CASE Connect \/ Send \/ Close
  BY <1>0, <1>3 DEF Connect, Send, Close, Control
<1>4. CASE CallGetMessage \/ CallWaitForCommand \/ BeginRegister
  <2>1. /\ result' = None /\ mark' = Len(taken) /\ taken' = taken
        /\ collected' = <<>> /\ pc' \in {"out", "entry"}
    BY <1>4 DEF CallGetMessage, CallWaitForCommand, BeginRegister, Begin
  <2>2. LastTaken' /\ PollsWhenEmpty'
    BY <2>1
  <2>3. NotYetMatched'
    BY <1>0, <2>1
  <2>4. CollectedHere'
    BY <2>1
  <2> QED
    BY <2>2, <2>3, <2>4
<1>5. CASE GetQueued
  BY <1>5, PopKeepsCallInv DEF GetQueued, HasQueued
<1>6. CASE StartClock
  BY <1>6 DEF StartClock, HasQueued
<1>7. CASE LoopHead
  BY <1>7 DEF LoopHead, ReturnNone, ToCaller
<1>8. CASE SplitLine
  <2>1. CASE op' = op /\ result' = result /\ pc' \in {"split", "pong"}
    BY <1>8, <2>1 DEF SplitLine
  <2>2. CASE Raise
    BY <1>8, <2>2 DEF Raise
  <2> QED
    BY <1>8, <2>1, <2>2 DEF SplitLine, IsMessage
<1>9. CASE HandlePing
  BY <1>9 DEF HandlePing, Raise
<1>10. CASE AllSplit
  <2>1. CASE message_queue # <<>>
    BY <1>10, <2>1, PopKeepsCallInv DEF AllSplit
  <2>2. CASE message_queue = <<>>
    BY <1>10, <2>2 DEF AllSplit
  <2> QED
    BY <2>1, <2>2
<1>11. CASE RecvNothing \/ RecvClosed
  BY <1>11 DEF RecvNothing, RecvClosed, ReturnNone, ToCaller
<1>12. CASE RecvChunk
  <2>1. /\ UNCHANGED <<stream, message_queue, taken, mark, want, collected>>
        /\ \/ pc' = "head" /\ op' = op /\ result' = result
           \/ pc' = "out" /\ op' \in {op, "idle"} /\ result' = None
    BY <1>12 DEF RecvChunk, ReturnNone, ToCaller
  <2> QED
    BY <1>12, <2>1 DEF RecvChunk
<1>13. CASE WaitForCommand
  <2>1. /\ UNCHANGED <<stream, message_queue, taken, mark, want, collected>>
        /\ op = "wait_for_command" /\ pc = "out"
    BY <1>13 DEF WaitForCommand
  <2>2. \/ op' = "idle" /\ pc' = pc
        \/ ~Matches /\ op' = op /\ pc' = "entry" /\ result' = None
    BY <1>13, <2>1 DEF WaitForCommand, Again
  <2>3. ~Matches => result = None \/ result = Raised \/ stream[result] # want
    BY <1>0 DEF Matches, GotMessage
  <2>4. CASE ~Matches /\ op' = op /\ pc' = "entry" /\ result' = None
    <3>1. \A j \in Since(mark) : stream[taken[j]] # want
      BY <1>0, <2>1, <2>3, <2>4, NeverRaisedHere
    <3> QED
      BY <2>1, <2>4, <3>1
  <2> QED
    BY <2>1, <2>2, <2>4
<1>14. CASE Register
  <2>1. /\ UNCHANGED <<stream, message_queue, taken, mark, want>>
        /\ op = "register" /\ pc = "out"
    BY <1>14 DEF Register
  <2>2. \/ op' = "idle" /\ pc' = pc
        \/ op' = op /\ pc' = "entry" /\ result' = None
    BY <1>14, <2>1 DEF Register, Again
  <2>3. \A k \in DOMAIN collected' :
          \/ k \in DOMAIN collected /\ collected'[k] = collected[k]
          \/ collected'[k] = result /\ result \in 1..N
    BY <1>0, <1>14 DEF Register, GotMessage
  <2>4. result \in 1..N => result = taken[Len(taken)] /\ Len(taken) \in Since(mark)
    BY <1>0, <2>1 DEF None
  <2> QED
    BY <2>1, <2>2, <2>3, <2>4
<1>15. CASE UNCHANGED vars
  BY <1>15 DEF vars
<1> QED
  BY <1>1, <1>2, <1>3, <1>4, <1>5, <1>6, <1>7, <1>8, <1>9, <1>10, <1>11,
     <1>12, <1>13, <1>14, <1>15
  DEF Next, GetMessage, Caller, CallRegister, BeginRegister

\* What the loops of wait_for_command and register know holds always.
LEMMA CallInductive == Spec => []CallInv
<1>1. Init => CallInv
  BY DEF Init, CallInv, LastTaken, NotYetMatched, CollectedHere, PollsWhenEmpty
<1>2. TypeInv /\ CallInv /\ [Next]_vars => CallInv'
  BY CallStep
<1>3. QED
  BY <1>1, <1>2, TypeInductive, PTL DEF Spec

\* get_message never answers None while a parsed message is queued.
THEOREM Drained == Spec => NoneMeansDrained
<1>1. TypeInv /\ CallInv /\ [Next]_vars =>
        (pc # "out" /\ pc' = "out" /\ result' = None => message_queue' = <<>>)
  <2> SUFFICES ASSUME TypeInv, CallInv, [Next]_vars,
                      pc # "out", pc' = "out", result' = None
               PROVE  message_queue' = <<>>
    OBVIOUS
  <2> USE DEF socketVars, bufferVars, queueVars, callVars
  <2>1. ~(message_queue # <<>> /\ ReturnOldest)
    <3> SUFFICES ASSUME message_queue # <<>>, ReturnOldest PROVE FALSE
      OBVIOUS
    <3>1. message_queue \in Seq(1..N) /\ taken \in Seq(1..N)
      BY DEF TypeInv, TypeOK
    <3>2. Head(message_queue) \in 1..N
      BY <3>1, PopFacts
    <3> QED
      BY <3>2 DEF ReturnOldest, None
  <2>2. ~Raise
    BY DEF Raise, None, Raised
  <2>3. CASE LoopHead \/ RecvClosed \/ RecvChunk
    BY <2>3 DEF LoopHead, RecvClosed, RecvChunk, ReturnNone, CallInv,
       PollsWhenEmpty
  <2>4. ~GetQueued /\ ~AllSplit
    BY <2>1 DEF GetQueued, HasQueued, AllSplit
  <2>5. ~StartClock /\ ~RecvNothing /\ ~HandlePing
    BY <2>2 DEF StartClock, RecvNothing, HandlePing
  <2>6. ~SplitLine
    BY <2>2 DEF SplitLine, IsMessage
  <2>7. ~Environment /\ \A timer \in {"call", "caller"} : ~TimeOut(timer)
    BY DEF Environment, ServerWrites, ServerCloses, TimeOut
  <2>8. ~Caller
    BY DEF Caller, Connect, Send, Close, CallGetMessage, CallWaitForCommand,
       CallRegister, Begin, TypeInv, Control
  <2>9. ~WaitForCommand /\ ~Register /\ ~UNCHANGED vars
    BY DEF WaitForCommand, Register, vars
  <2> QED
    BY <2>3, <2>4, <2>5, <2>6, <2>7, <2>8, <2>9 DEF Next, GetMessage
<1>2. QED
  BY <1>1, TypeInductive, CallInductive, PTL DEF Spec, NoneMeansDrained

\* A wait gives the first matching message since it began, and None only
\* after throwing away none that matched.
THEOREM Waits == Spec => WaitFindsFirst
<1> DEFINE Found ==
      op = "wait_for_command" /\ op' = "idle" /\ result' # Raised =>
        IF result' = None
          THEN \A j \in Since(mark) : stream[taken[j]] # want
          ELSE /\ Len(taken) > mark /\ result' = taken[Len(taken)]
               /\ stream[result'] = want
               /\ \A j \in Since(mark) \ {Len(taken)} : stream[taken[j]] # want
<1>1. TypeInv /\ CallInv /\ [Next]_vars => Found
  <2> SUFFICES ASSUME TypeInv, CallInv, [Next]_vars, op = "wait_for_command",
                      op' = "idle", result' # Raised
               PROVE  Found
    OBVIOUS
  <2> USE DEF socketVars, bufferVars, queueVars, callVars
  <2>0. /\ taken \in Seq(1..N) /\ mark \in 0..Len(taken) /\ Len(taken) \in Nat
        /\ result \in 1..N \cup {None, Raised} /\ result # Raised
    BY NeverRaisedHere DEF TypeInv, TypeOK
  <2>1. CASE WaitForCommand
    <3>1. CASE Matches /\ result' = result
      <4>1. /\ result \in 1..N /\ result # None /\ stream[result] = want
            /\ Len(taken) > mark /\ result = taken[Len(taken)]
        BY <3>1 DEF Matches, GotMessage, CallInv, LastTaken, None
      <4>2. \A j \in Since(mark) \ {Len(taken)} : j < Len(taken)
        BY <2>0 DEF Since
      <4>3. \A j \in Since(mark) \ {Len(taken)} : stream[taken[j]] # want
        BY <4>2 DEF CallInv, NotYetMatched
      <4> QED
        BY <3>1, <4>1, <4>3
    <3>2. CASE ~Matches /\ result' = None
      <4>1. \A j \in Since(mark) : j = Len(taken) \/ j < Len(taken)
        BY <2>0 DEF Since
      <4>2. result = None \/ stream[taken[Len(taken)]] # want
        BY <2>0, <3>2 DEF Matches, GotMessage, CallInv, LastTaken
      <4>3. \A j \in Since(mark) : stream[taken[j]] # want
        BY <4>1, <4>2 DEF CallInv, NotYetMatched
      <4> QED
        BY <3>2, <4>3
    <3> QED
      BY <2>1, <3>1, <3>2 DEF WaitForCommand, Again
  <2>2. ~Environment /\ \A timer \in {"call", "caller"} : ~TimeOut(timer)
    BY DEF Environment, ServerWrites, ServerCloses, TimeOut
  <2>3. ~Caller /\ ~Register /\ ~UNCHANGED vars
    BY DEF Caller, Connect, Send, Close, CallGetMessage, CallWaitForCommand,
       CallRegister, Begin, Register, vars
  <2>4. ~GetMessage
    BY DEF GetMessage, GetQueued, StartClock, LoopHead, SplitLine, HandlePing,
       AllSplit, RecvNothing, RecvChunk, RecvClosed, ReturnOldest, ReturnNone,
       ToCaller, Raise, IsMessage
  <2> QED
    BY <2>1, <2>2, <2>3, <2>4 DEF Next
<1>2. QED
  BY <1>1, TypeInductive, CallInductive, PTL DEF Spec, WaitFindsFirst

\* A register that does not raise has itself taken a 001 and a 002.
THEOREM Registers == Spec => RegisterSawGreeting
<1> DEFINE Seen ==
      op = "register" /\ op' = "idle" /\ result' # Raised =>
        \A c \in Greeting : \E j \in Since(mark) : stream[taken[j]] = c
<1>1. TypeInv /\ CallInv /\ [Next]_vars => Seen
  <2> SUFFICES ASSUME TypeInv, CallInv, [Next]_vars, op = "register",
                      op' = "idle", result' # Raised, NEW c \in Greeting
               PROVE  \E j \in Since(mark) : stream[taken[j]] = c
    OBVIOUS
  <2> USE DEF socketVars, bufferVars, queueVars, callVars
  <2>0. /\ taken \in Seq(1..N) /\ mark \in 0..Len(taken) /\ Len(taken) \in Nat
        /\ collected \in Seq(1..N)
    BY DEF TypeInv, TypeOK
  <2>1. CASE Register
    <3>1. GreetingSeen(collected')
      BY <2>1 DEF Register, Again, GreetingSeen
    <3>2. PICK k \in DOMAIN collected' : stream[collected'[k]] = c
      BY <2>1, <3>1 DEF GreetingSeen, Register
    <3>3. \/ k \in DOMAIN collected /\ collected'[k] = collected[k]
          \/ collected'[k] = result /\ result \in 1..N
      BY <2>0, <2>1 DEF Register, GotMessage
    <3>4. CASE k \in DOMAIN collected /\ collected'[k] = collected[k]
      BY <3>2, <3>4 DEF CallInv, CollectedHere
    <3>5. CASE collected'[k] = result /\ result \in 1..N
      <4>1. Len(taken) \in Since(mark) /\ result = taken[Len(taken)]
        BY <2>0, <3>5 DEF CallInv, LastTaken, Since, None
      <4> QED
        BY <3>2, <3>5, <4>1
    <3> QED
      BY <3>3, <3>4, <3>5
  <2>2. ~Environment /\ \A timer \in {"call", "caller"} : ~TimeOut(timer)
    BY DEF Environment, ServerWrites, ServerCloses, TimeOut
  <2>3. ~Caller /\ ~WaitForCommand /\ ~UNCHANGED vars
    BY DEF Caller, Connect, Send, Close, CallGetMessage, CallWaitForCommand,
       CallRegister, Begin, WaitForCommand, vars
  <2>4. ~GetMessage
    BY DEF GetMessage, GetQueued, StartClock, LoopHead, SplitLine, HandlePing,
       AllSplit, RecvNothing, RecvChunk, RecvClosed, ReturnOldest, ReturnNone,
       ToCaller, Raise, IsMessage
  <2> QED
    BY <2>1, <2>2, <2>3, <2>4 DEF Next
<1>2. QED
  BY <1>1, TypeInductive, CallInductive, PTL DEF Spec, RegisterSawGreeting
-----------------------------------------------------------------------------
(* Giving up early *)

\* Inside a character: the first half of it was in a chunk that dropped it.
TornInv == read \in Inside => LineAt(read) \subseteq torn

\* Only a chunk moves `read`, and if it ends inside a character the line is torn.
LEMMA TornStep == ASSUME TypeInv, TornInv, [Next]_vars PROVE TornInv'
<1> USE DEF TornInv, LineAt
<1>1. CASE RecvChunk
  BY <1>1 DEF RecvChunk
<1>2. ~RecvChunk => UNCHANGED <<read, torn>>
  <2> USE DEF socketVars, bufferVars, queueVars, callVars
  <2>1. Environment \/ (\E timer \in {"call", "caller"} : TimeOut(timer))
          => UNCHANGED <<read, torn>>
    BY DEF Environment, ServerWrites, ServerCloses, TimeOut
  <2>2. Caller \/ WaitForCommand \/ Register \/ UNCHANGED vars => UNCHANGED <<read, torn>>
    BY DEF Caller, Connect, Send, Close, CallGetMessage, CallWaitForCommand,
       CallRegister, Begin, WaitForCommand, Register, vars
  <2>3. GetQueued \/ StartClock \/ LoopHead \/ SplitLine \/ HandlePing \/ AllSplit
          \/ RecvNothing \/ RecvClosed => UNCHANGED <<read, torn>>
    BY DEF GetQueued, StartClock, LoopHead, SplitLine, HandlePing, AllSplit,
       RecvNothing, RecvClosed
  <2> QED
    BY <2>1, <2>2, <2>3 DEF Next, GetMessage
<1> QED
  BY <1>1, <1>2

\* Bytes without a whole character touch one line only: either they end inside
\* a character of it, or they began inside one, before which no line ended.
LEMMA NoTextNoNewLine ==
  ASSUME NEW lo \in Nat, NEW hi \in Nat, lo < hi, ~DecodesToText(lo, hi),
         NEW i \in LineOf(hi)
  PROVE  \/ hi \in Inside /\ i \in LineAt(hi)
         \/ lo \in Inside /\ i \in LineAt(lo)
<1> USE StreamAssumption
<1>1. /\ i \in 1..N /\ i - 1 \in 0..N /\ i \in 0..N
      /\ LineEnd[i - 1] < hi /\ hi <= LineEnd[i]
      /\ LineEnd[i - 1] \in Nat /\ LineEnd[i] \in Nat
      /\ LineEnd[i - 1] \notin Inside /\ LineEnd[i] \notin Inside
  BY DEF LineOf
<1>2. \A p, q \in lo..hi : p < q => p \in Inside \/ q \in Inside
  BY DEF DecodesToText
<1>3. CASE hi \in Inside
  <2>1. hi < LineEnd[i]
    BY <1>1, <1>3
  <2> QED
    BY <1>1, <1>3, <2>1 DEF LineAt
<1>4. CASE hi \notin Inside
  <2>1. lo \in Inside
    BY <1>2, <1>4
  <2>2. LineEnd[i - 1] < lo
    <3>1. ~(LineEnd[i - 1] \in lo..hi)
      BY <1>1, <1>2, <1>4
    <3> QED
      BY <1>1, <3>1
  <2> QED
    BY <1>1, <2>1, <2>2 DEF LineAt
<1> QED
  BY <1>3, <1>4

\* For characters of any width, lines of any length and chunks of any size:
\* get_message gives up before its time only on a closed connection, or in a line
\* of which the decoder has dropped a character.
THEOREM GivesUp == Spec => EarlyNoneMeansLoss
<1>1. Init => TornInv
  BY StreamAssumption DEF Init, TornInv
<1>2. TypeInv /\ TornInv /\ [Next]_vars => TornInv'
  BY TornStep
<1>3. TypeInv /\ TornInv /\ [Next]_vars =>
        (pc = "recv" /\ pc' = "out" =>
           peer \in {"fin", "rst"} \/ LineOf(read') \subseteq torn')
  <2> SUFFICES ASSUME TypeInv, TornInv, [Next]_vars, pc = "recv", pc' = "out"
               PROVE  peer \in {"fin", "rst"} \/ LineOf(read') \subseteq torn'
    OBVIOUS
  <2> USE DEF socketVars, bufferVars, queueVars, callVars
  <2>1. CASE RecvClosed
    BY <2>1 DEF RecvClosed
  <2>2. CASE RecvChunk
    <3>1. PICK hi \in read + 1 .. arrived :
            /\ ~DecodesToText(read, hi) /\ read' = hi
            /\ torn' = IF hi \in Inside THEN torn \cup LineAt(hi) ELSE torn
      BY <2>2 DEF RecvChunk
    <3>2. read \in Nat /\ hi \in Nat /\ read < hi
      BY <3>1 DEF TypeInv, TypeOK
    <3>3. ASSUME NEW i \in LineOf(hi) PROVE i \in torn'
      <4>1. CASE hi \in Inside /\ i \in LineAt(hi)
        BY <3>1, <4>1
      <4>2. CASE read \in Inside /\ i \in LineAt(read)
        BY <3>1, <4>2 DEF TornInv
      <4> QED
        BY <3>1, <3>2, <4>1, <4>2, NoTextNoNewLine
    <3> QED
      BY <3>1, <3>3
  <2>3. ~Environment /\ \A timer \in {"call", "caller"} : ~TimeOut(timer)
    BY DEF Environment, ServerWrites, ServerCloses, TimeOut
  <2>4. ~Caller /\ ~WaitForCommand /\ ~Register /\ ~UNCHANGED vars
    BY DEF Caller, Connect, Send, Close, CallGetMessage, CallWaitForCommand,
       CallRegister, Begin, WaitForCommand, Register, vars, TypeInv, Control
  <2>5. ~GetQueued /\ ~StartClock /\ ~LoopHead /\ ~SplitLine /\ ~HandlePing
        /\ ~AllSplit /\ ~RecvNothing
    BY DEF GetQueued, StartClock, LoopHead, SplitLine, HandlePing, AllSplit,
       RecvNothing
  <2> QED
    BY <2>1, <2>2, <2>3, <2>4, <2>5 DEF Next, GetMessage
<1>4. QED
  BY <1>1, <1>2, <1>3, TypeInductive, PTL DEF Spec, EarlyNoneMeansLoss
=============================================================================
