------------------------------ MODULE IpcProofs ------------------------------
(***************************************************************************)
(* The ring buffers of crates/ipc implement the abstract endpoint for      *)
(* every capacity, zero included, every set of threads and payloads.       *)
(*                                                                         *)
(* The mapping reads each line off its ring from `head`.  It needs two     *)
(* facts about a ring that the code keeps and never states: `head` is a    *)
(* cell of the buffer, and at most N cells are in use, so that the cell    *)
(* after the last used one is free and a push cannot disturb the line.     *)
(***************************************************************************)
EXTENDS Ipc, SequenceTheorems, TLAPS

(* A ring of items in V. *)
Ring(q, V) ==
  /\ q \in [buf : [0..(N - 1) -> V \cup {None}], head : Nat, len : 0..N]
  /\ N > 0 => q.head < N
  /\ \A k \in 1..q.len : q.buf[(q.head + k - 1) % N] \in V

Sender == [tid : Threads, words : Messages]

(* The inductive invariant. *)
RingsOK == Ring(sendQ, Sender) /\ Ring(recvQ, Threads)

-----------------------------------------------------------------------------
(* Wrapping around once. *)
Wrapped(a) == IF a < N THEN a ELSE a - N

LEMMA Wrap ==
  ASSUME N > 0, NEW a \in Nat, a < N + N
  PROVE  a % N = Wrapped(a) /\ Wrapped(a) \in 0..(N - 1)
<1>1. N \in Nat \ {0}
  BY IpcAssumption
<1>2. CASE a < N
  BY <1>1, <1>2 DEF Wrapped
<1>3. CASE a >= N
  <2>1. a - N \in 0..(N - 1) /\ a = N * 1 + (a - N)
    BY <1>1, <1>3
  <2>2. a % N = a - N
    BY <1>1, <2>1
  <2> QED
    BY <1>1, <1>3, <2>1, <2>2 DEF Wrapped
<1> QED
  BY <1>1, <1>2, <1>3

(* The cell of the k-th item of a ring: where it is, and that no two items  *)
(* of the N a ring may hold share one.                                      *)
Cell(q, k) == (q.head + k - 1) % N

LEMMA Cells ==
  ASSUME NEW V, NEW q, Ring(q, V), N > 0
  PROVE  /\ \A k \in 1..N : Cell(q, k) \in 0..(N - 1)
         /\ \A j, k \in 1..N : Cell(q, j) = Cell(q, k) => j = k
         /\ Cell(q, 1) = q.head
         /\ \A k \in 1..N : Cell(q, k) = Wrapped(q.head + k - 1)
<1>1. N \in Nat \ {0} /\ q.head \in 0..(N - 1)
  BY IpcAssumption DEF Ring
<1>2. ASSUME NEW k \in 1..N
      PROVE  Cell(q, k) = Wrapped(q.head + k - 1) /\ Cell(q, k) \in 0..(N - 1)
  <2>1. PICK a \in Nat : a = q.head + k - 1 /\ a < N + N
    BY <1>1
  <2> QED
    BY <2>1, Wrap DEF Cell
<1>3. ASSUME NEW j \in 1..N, NEW k \in 1..N, Cell(q, j) = Cell(q, k)
      PROVE  j = k
  BY <1>1, <1>2, <1>3 DEF Wrapped
<1>4. Cell(q, 1) = q.head
  BY <1>1, <1>2 DEF Wrapped
<1> QED
  BY <1>2, <1>3, <1>4

(* The line of a ring. *)
LEMMA LineIs ==
  ASSUME NEW V, NEW q, Ring(q, V)
  PROVE  /\ Line(q) \in Seq(V) /\ Len(Line(q)) = q.len
         /\ \A k \in 1..q.len : Line(q)[k] = q.buf[Cell(q, k)]
         /\ Line(q) = << >> <=> q.len = 0
<1>1. q.len \in Nat
  BY IpcAssumption DEF Ring
<1>2. Line(q) = [k \in 1..q.len |-> q.buf[Cell(q, k)]]
  BY DEF Line, Cell
<1>3. \A k \in 1..q.len : q.buf[Cell(q, k)] \in V
  BY DEF Ring, Cell
<1>4. Line(q) \in [1..q.len -> V]
  BY <1>2, <1>3
<1> HIDE DEF Line, Ring, Cell
<1>5. Line(q) \in Seq(V) /\ Len(Line(q)) = q.len
  BY <1>1, <1>4
<1>6. Line(q) = << >> <=> q.len = 0
  BY <1>1, <1>5
<1> QED
  BY <1>2, <1>5, <1>6

(* A push appends to the line. *)
LEMMA PushAppends ==
  ASSUME NEW V, NEW q, Ring(q, V), q.len # N, NEW v \in V
  PROVE  /\ Ring(PushBack(q, v), V)
         /\ Line(PushBack(q, v)) = Append(Line(q), v)
<1> DEFINE r == PushBack(q, v)
           c == Cell(q, q.len + 1)
<1>1. /\ N \in Nat /\ N > 0 /\ q.len \in 0..(N - 1)
      /\ q.head \in Nat /\ q.buf \in [0..(N - 1) -> V \cup {None}]
      /\ q \in [buf : [0..(N - 1) -> V \cup {None}], head : Nat, len : 0..N]
  BY IpcAssumption DEF Ring
<1>2. c \in 0..(N - 1) /\ \A k \in 1..q.len : Cell(q, k) \in 0..(N - 1)
                                              /\ Cell(q, k) # c
  <2>1. q.len + 1 \in 1..N /\ \A k \in 1..q.len : k \in 1..N /\ k # q.len + 1
    BY <1>1
  <2> QED
    BY <1>1, <2>1, Cells
<1>3. c = (q.head + q.len) % N
  <2>1. q.head + (q.len + 1) - 1 = q.head + q.len
    BY <1>1
  <2> QED
    BY <2>1 DEF Cell
<1> HIDE DEF c
<1>4. r = [buf |-> [q.buf EXCEPT ![c] = v], head |-> q.head, len |-> q.len + 1]
  <2>1. r = [q EXCEPT !.buf[c] = v, !.len = @ + 1]
    BY <1>3 DEF PushBack
  <2> QED
    BY <1>1, <2>1
<1>5. /\ r.head = q.head /\ r.len = q.len + 1 /\ r.buf[c] = v
      /\ \A k \in 1..q.len : r.buf[Cell(q, k)] = q.buf[Cell(q, k)]
      /\ r \in [buf : [0..(N - 1) -> V \cup {None}], head : Nat, len : 0..N]
  BY <1>1, <1>2, <1>4
<1> HIDE DEF r
<1>6. \A k : Cell(r, k) = Cell(q, k)
  BY <1>5 DEF Cell
<1>7. \A k \in 1..r.len : r.buf[Cell(r, k)] \in V
  <2> SUFFICES ASSUME NEW k \in 1..r.len PROVE r.buf[Cell(q, k)] \in V
    BY <1>6
  <2>1. CASE k = q.len + 1
    BY <1>5, <2>1 DEF c
  <2>2. CASE k \in 1..q.len
    <3>1. q.buf[Cell(q, k)] \in V
      BY <2>2 DEF Ring, Cell
    <3> QED
      BY <1>5, <2>2, <3>1
  <2> QED
    BY <1>1, <1>5, <2>1, <2>2
<1>8. Ring(r, V)
  BY <1>5, <1>7 DEF Ring, Cell
<1>9. Line(r) = Append(Line(q), v)
  <2>1. /\ Line(q) \in Seq(V) /\ Len(Line(q)) = q.len
        /\ \A k \in 1..q.len : Line(q)[k] = q.buf[Cell(q, k)]
    BY LineIs
  <2>2. /\ Line(r) \in Seq(V) /\ Len(Line(r)) = q.len + 1
        /\ \A k \in 1..(q.len + 1) : Line(r)[k] = r.buf[Cell(q, k)]
    BY <1>5, <1>6, <1>8, LineIs
  <2>3. /\ Append(Line(q), v) \in Seq(V)
        /\ Len(Append(Line(q), v)) = q.len + 1
        /\ \A k \in 1..q.len : Append(Line(q), v)[k] = Line(q)[k]
        /\ Append(Line(q), v)[q.len + 1] = v
    BY <2>1, AppendProperties
  <2>4. ASSUME NEW k \in 1..(q.len + 1) PROVE Line(r)[k] = Append(Line(q), v)[k]
    <3>1. CASE k = q.len + 1
      BY <1>5, <2>2, <2>3, <3>1 DEF c
    <3>2. CASE k \in 1..q.len
      BY <1>5, <2>1, <2>2, <2>3, <3>2
    <3>3. k = q.len + 1 \/ k \in 1..q.len
      BY <1>1
    <3> QED
      BY <3>1, <3>2, <3>3
  <2> QED
    BY <2>2, <2>3, <2>4, SeqEqual
<1> QED
  BY <1>8, <1>9 DEF r

(* A pop takes the first item off the line. *)
LEMMA PopTakes ==
  ASSUME NEW V, NEW q, Ring(q, V), q.len # 0
  PROVE  /\ Ring(PopFront(q), V)
         /\ Line(q) # << >> /\ Front(q) \in V
         /\ Head(Line(q)) = Front(q)
         /\ Line(PopFront(q)) = Tail(Line(q))
<1> DEFINE r == PopFront(q)
<1>1. /\ N \in Nat \ {0} /\ N > 0 /\ q.len \in 1..N
      /\ q.head \in 0..(N - 1) /\ q.buf \in [0..(N - 1) -> V \cup {None}]
  BY IpcAssumption DEF Ring
<1>2. /\ Line(q) \in Seq(V) /\ Len(Line(q)) = q.len /\ Line(q) # << >>
      /\ \A k \in 1..q.len : Line(q)[k] = q.buf[Cell(q, k)]
  BY <1>1, LineIs
<1>3. Head(Line(q)) = Front(q) /\ Front(q) \in V
  <2>1. Head(Line(q)) = Line(q)[1] /\ 1 \in 1..q.len
    BY <1>1, <1>2
  <2>2. Line(q)[1] = q.buf[q.head]
    BY <1>1, <1>2, <2>1, Cells
  <2>3. Head(Line(q)) \in V
    BY <1>2, HeadTailProperties
  <2> QED
    BY <2>1, <2>2, <2>3 DEF Front
<1>4. PICK h \in 0..(N - 1) : h = (q.head + 1) % N /\ h = Wrapped(q.head + 1)
  <2>1. PICK a \in Nat : a = q.head + 1 /\ a < N + N
    BY <1>1
  <2> QED
    BY <1>1, <2>1, Wrap
<1>5. r = [buf |-> [q.buf EXCEPT ![q.head] = None], head |-> h, len |-> q.len - 1]
  BY <1>4 DEF PopFront
<1>6. /\ r.head = h /\ r.len = q.len - 1
      /\ \A i \in 0..(N - 1) : i # q.head => r.buf[i] = q.buf[i]
      /\ r \in [buf : [0..(N - 1) -> V \cup {None}], head : Nat, len : 0..N]
      /\ r.head < N
  BY <1>1, <1>4, <1>5
<1> HIDE DEF r
<1>7. ASSUME NEW k \in 1..r.len
      PROVE  /\ Cell(r, k) = Cell(q, k + 1)
             /\ r.buf[Cell(r, k)] = q.buf[Cell(q, k + 1)]
             /\ r.buf[Cell(r, k)] \in V
  <2>1. k \in 1..(N - 1) /\ k + 1 \in 1..N /\ k + 1 \in 1..q.len /\ 1 \in 1..N
    BY <1>1, <1>6
  <2>2. PICK a \in Nat : a = h + k - 1 /\ a < N + N
    BY <1>1, <2>1
  <2>3. Cell(r, k) = Cell(q, k + 1)
    <3>1. Cell(r, k) = Wrapped(a)
      BY <1>1, <1>6, <2>2, Wrap DEF Cell
    <3>2. Cell(q, k + 1) = Wrapped(q.head + (k + 1) - 1)
      BY <1>1, <2>1, Cells
    <3>3. Wrapped(a) = Wrapped(q.head + (k + 1) - 1)
      <4>1. CASE q.head + 1 < N
        <5>1. h = q.head + 1 /\ a = q.head + (k + 1) - 1
          BY <1>1, <1>4, <2>1, <2>2, <4>1, SMTT(30) DEF Wrapped
        <5> QED
          BY <5>1
      <4>2. CASE q.head + 1 = N
        <5>1. Wrapped(q.head + 1) = 0
          BY <1>1, <4>2 DEF Wrapped
        <5>2. a = k - 1 /\ a \in 0..(N - 1)
          BY <1>1, <1>4, <2>1, <2>2, <5>1
        <5>3. q.head + (k + 1) - 1 = N + a
          BY <1>1, <2>1, <4>2, <5>2
        <5> QED
          BY <1>1, <5>2, <5>3 DEF Wrapped
      <4> QED
        BY <1>1, <4>1, <4>2
    <3> QED
      BY <3>1, <3>2, <3>3
  <2>4. Cell(q, k + 1) \in 0..(N - 1) /\ Cell(q, k + 1) # q.head
    <3>1. k + 1 # 1
      BY <2>1
    <3> QED
      BY <1>1, <2>1, <3>1, Cells
  <2>5. q.buf[Cell(q, k + 1)] \in V
    BY <2>1 DEF Ring, Cell
  <2> QED
    BY <1>6, <2>3, <2>4, <2>5
<1>8. Ring(r, V)
  BY <1>6, <1>7 DEF Ring, Cell
<1>9. Line(r) = Tail(Line(q))
  <2>1. /\ Line(r) \in Seq(V) /\ Len(Line(r)) = q.len - 1
        /\ \A k \in 1..(q.len - 1) : Line(r)[k] = r.buf[Cell(r, k)]
    BY <1>6, <1>8, LineIs
  <2>2. /\ Tail(Line(q)) \in Seq(V) /\ Len(Tail(Line(q))) = q.len - 1
        /\ \A k \in 1..(q.len - 1) : Tail(Line(q))[k] = Line(q)[k + 1]
    BY <1>2, HeadTailProperties
  <2>3. ASSUME NEW k \in 1..(q.len - 1) PROVE Line(r)[k] = Tail(Line(q))[k]
    <3>1. k + 1 \in 1..q.len
      BY <1>1
    <3> QED
      BY <1>2, <1>6, <1>7, <2>1, <2>2, <3>1
  <2> QED
    BY <2>1, <2>2, <2>3, SeqEqual
<1> QED
  BY <1>2, <1>3, <1>8, <1>9 DEF r

-----------------------------------------------------------------------------
(* The rings stay rings, and every call is a call of the abstract          *)
(* endpoint.                                                               *)

LEMMA NewRing ==
  ASSUME NEW V
  PROVE  Ring(NewQueue, V) /\ Line(NewQueue) = << >>
<1>1. Ring(NewQueue, V)
  BY IpcAssumption DEF Ring, NewQueue
<1>2. NewQueue.len = 0
  BY DEF NewQueue
<1> QED
  BY <1>1, <1>2, LineIs

LEMMA SendStep ==
  ASSUME RingsOK, NEW t \in Threads, NEW w \in Payloads, Send(t, w)
  PROVE  RingsOK' /\ Abstract!Send(t, CopyWords(w))
<1> DEFINE item == [tid |-> t, words |-> CopyWords(w)]
<1>1. item \in Sender
  BY DEF Sender, Messages
<1>2. Ring(sendQ, Sender) /\ Ring(recvQ, Threads) /\ N \in Nat
  BY IpcAssumption DEF RingsOK
<1>3. /\ Line(recvQ) = << >> <=> recvQ.len = 0
      /\ Len(Line(sendQ)) = sendQ.len /\ sendQ.len \in 0..N
  BY <1>2, LineIs DEF Ring
<1>4. CASE recvQ.len # 0
  <2>1. /\ action' = Deliver(Front(recvQ), t, CopyWords(w), FALSE)
        /\ recvQ' = PopFront(recvQ) /\ sendQ' = sendQ
    BY <1>4 DEF Send, IsEmpty
  <2>2. /\ Ring(PopFront(recvQ), Threads) /\ Line(recvQ) # << >>
        /\ Head(Line(recvQ)) = Front(recvQ)
        /\ Line(PopFront(recvQ)) = Tail(Line(recvQ))
    BY <1>2, <1>4, PopTakes
  <2>3. Abstract!Deliver(Head(Line(recvQ)), t, CopyWords(w), FALSE) = action'
    BY <2>1, <2>2 DEF Deliver, Abstract!Deliver
  <2>4. Line(recvQ') = Tail(Line(recvQ)) /\ Line(sendQ') = Line(sendQ)
    BY <2>1, <2>2
  <2>5. RingsOK'
    BY <1>2, <2>1, <2>2 DEF RingsOK
  <2> QED
    BY <2>2, <2>3, <2>4, <2>5 DEF Abstract!Send
<1>5. CASE recvQ.len = 0 /\ sendQ.len = N
  <2>1. action' = QueueFull(t) /\ sendQ' = sendQ /\ recvQ' = recvQ
    BY <1>5 DEF Send, IsEmpty, IsFull
  <2>2. Abstract!QueueFull(t) = action'
    BY <2>1 DEF QueueFull, Abstract!QueueFull
  <2>3. Line(recvQ') = Line(recvQ) /\ Line(sendQ') = Line(sendQ) /\ RingsOK'
    BY <2>1 DEF RingsOK
  <2> QED
    BY <1>3, <1>5, <2>2, <2>3 DEF Abstract!Send
<1>6. CASE recvQ.len = 0 /\ sendQ.len # N
  <2>1. action' = Block(t) /\ sendQ' = PushBack(sendQ, item) /\ recvQ' = recvQ
    BY <1>6 DEF Send, IsEmpty, IsFull
  <2>2. Abstract!Block(t) = action'
    BY <2>1 DEF Block, Abstract!Block
  <2>3. /\ Ring(PushBack(sendQ, item), Sender)
        /\ Line(PushBack(sendQ, item)) = Append(Line(sendQ), item)
    BY <1>1, <1>2, <1>6, PushAppends
  <2>4. Line(recvQ') = Line(recvQ) /\ Line(sendQ') = Append(Line(sendQ), item)
    BY <2>1, <2>3
  <2>5. RingsOK'
    BY <1>2, <2>1, <2>3 DEF RingsOK
  <2>6. Len(Line(sendQ)) < N
    BY <1>2, <1>3, <1>6
  <2> QED
    BY <1>3, <1>6, <2>2, <2>4, <2>5, <2>6 DEF Abstract!Send
<1> QED
  BY <1>4, <1>5, <1>6

LEMMA RecvStep ==
  ASSUME RingsOK, NEW t \in Threads, Recv(t)
  PROVE  RingsOK' /\ Abstract!Recv(t)
<1>2. Ring(sendQ, Sender) /\ Ring(recvQ, Threads) /\ N \in Nat
  BY IpcAssumption DEF RingsOK
<1>3. /\ Line(sendQ) = << >> <=> sendQ.len = 0
      /\ Len(Line(recvQ)) = recvQ.len /\ recvQ.len \in 0..N
  BY <1>2, LineIs DEF Ring
<1>4. CASE sendQ.len # 0
  <2>1. /\ action' = Deliver(t, Front(sendQ).tid, Front(sendQ).words, TRUE)
        /\ sendQ' = PopFront(sendQ) /\ recvQ' = recvQ
    BY <1>4 DEF Recv, IsEmpty
  <2>2. /\ Ring(PopFront(sendQ), Sender) /\ Line(sendQ) # << >>
        /\ Head(Line(sendQ)) = Front(sendQ)
        /\ Line(PopFront(sendQ)) = Tail(Line(sendQ))
    BY <1>2, <1>4, PopTakes
  <2>3. action' = Abstract!Deliver(t, Head(Line(sendQ)).tid,
                                   Head(Line(sendQ)).words, TRUE)
    BY <2>1, <2>2 DEF Deliver, Abstract!Deliver
  <2>4. Line(sendQ') = Tail(Line(sendQ)) /\ Line(recvQ') = Line(recvQ)
    BY <2>1, <2>2
  <2>5. RingsOK'
    BY <1>2, <2>1, <2>2 DEF RingsOK
  <2> QED
    BY <2>2, <2>3, <2>4, <2>5 DEF Abstract!Recv
<1>5. CASE sendQ.len = 0 /\ recvQ.len = N
  <2>1. action' = QueueFull(t) /\ sendQ' = sendQ /\ recvQ' = recvQ
    BY <1>5 DEF Recv, IsEmpty, IsFull
  <2>2. Abstract!QueueFull(t) = action'
    BY <2>1 DEF QueueFull, Abstract!QueueFull
  <2>3. Line(recvQ') = Line(recvQ) /\ Line(sendQ') = Line(sendQ) /\ RingsOK'
    BY <2>1 DEF RingsOK
  <2> QED
    BY <1>3, <1>5, <2>2, <2>3 DEF Abstract!Recv
<1>6. CASE sendQ.len = 0 /\ recvQ.len # N
  <2>1. action' = Block(t) /\ recvQ' = PushBack(recvQ, t) /\ sendQ' = sendQ
    BY <1>6 DEF Recv, IsEmpty, IsFull
  <2>2. Abstract!Block(t) = action'
    BY <2>1 DEF Block, Abstract!Block
  <2>3. /\ Ring(PushBack(recvQ, t), Threads)
        /\ Line(PushBack(recvQ, t)) = Append(Line(recvQ), t)
    BY <1>2, <1>6, PushAppends
  <2>4. Line(sendQ') = Line(sendQ) /\ Line(recvQ') = Append(Line(recvQ), t)
    BY <2>1, <2>3
  <2>5. RingsOK'
    BY <1>2, <2>1, <2>3 DEF RingsOK
  <2>6. Len(Line(recvQ)) < N
    BY <1>2, <1>3, <1>6
  <2> QED
    BY <1>3, <1>6, <2>2, <2>4, <2>5, <2>6 DEF Abstract!Recv
<1> QED
  BY <1>4, <1>5, <1>6

(* The rings of every endpoint stay within their buffers: `head` is a cell *)
(* and no more than N cells are in use, through any wrapping.              *)
THEOREM RingsAlwaysOK == Spec => []RingsOK
<1>1. Init => RingsOK
  BY NewRing DEF Init, RingsOK
<1>2. RingsOK /\ [Next]_vars => RingsOK'
  <2>1. ASSUME RingsOK, UNCHANGED vars PROVE RingsOK'
    BY <2>1 DEF RingsOK, vars
  <2> QED
    BY <2>1, SendStep, RecvStep DEF Next
<1> QED
  BY <1>1, <1>2, PTL DEF Spec

(* For every capacity: the index arithmetic of the two rings is a pair of  *)
(* first-in first-out lines.  `send` and `recv` lose, invent, duplicate    *)
(* and reorder no message, name the thread that sent it, and refuse only a *)
(* full line.                                                              *)
THEOREM EndpointImplemented == Spec => ImplementsEndpoint
<1>1. Init => Abstract!Init
  <2> SUFFICES ASSUME Init PROVE Abstract!Init
    OBVIOUS
  <2>1. Line(sendQ) = << >> /\ Line(recvQ) = << >> /\ action = Nothing
    BY NewRing DEF Init
  <2> QED
    BY <2>1 DEF Abstract!Init, Abstract!Nothing, Nothing
<1>2. RingsOK /\ [Next]_vars => [Abstract!Next]_(Abstract!vars)
  <2>1. ASSUME RingsOK, NEW t \in Threads, Recv(t) PROVE Abstract!Next
    BY <2>1, RecvStep DEF Abstract!Next
  <2>2. ASSUME RingsOK, NEW t \in Threads, NEW w \in Payloads, Send(t, w)
        PROVE  Abstract!Next
    <3>1. CopyWords(w) \in Messages /\ Abstract!Send(t, CopyWords(w))
      BY <2>2, SendStep DEF Messages
    <3> QED
      BY <3>1 DEF Abstract!Next
  <2>3. ASSUME UNCHANGED vars PROVE UNCHANGED Abstract!vars
    BY <2>3 DEF vars, Abstract!vars
  <2> QED
    BY <2>1, <2>2, <2>3 DEF Next
<1> QED
  BY <1>1, <1>2, RingsAlwaysOK, PTL DEF Spec, ImplementsEndpoint, Abstract!Spec
=============================================================================
