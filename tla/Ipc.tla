-------------------------------- MODULE Ipc --------------------------------
(***************************************************************************)
(* crates/ipc: `Endpoint<N>`, a synchronous rendezvous with two inline     *)
(* ring buffers.  The integrator's side of the contract is modelled with   *)
(* it: a thread the endpoint reported as blocked issues no further call    *)
(* until a Deliver wakes it, so a caller is never parked already.          *)
(***************************************************************************)
EXTENDS Integers, Sequences

CONSTANTS Threads,     \* thread identifiers
          Payloads,    \* the word slices a caller may pass
          MaxWords,    \* MAX_WORDS, the inline message size
          N,           \* capacity of each wait queue
          None         \* Rust's None in an unused buffer cell

ASSUME IpcAssumption ==
  /\ N \in Nat
  /\ MaxWords \in Nat
  /\ Payloads \subseteq Seq(Nat)

VARIABLES sendQ,   \* Queue<BlockedSender, N>
          recvQ,   \* Queue<ThreadId, N>
          action   \* the IpcAction returned by the last call

vars == <<sendQ, recvQ, action>>

-----------------------------------------------------------------------------
(* Queue<T, N>: `len` items of `buf`, starting at `head` and wrapping.     *)

NewQueue == [buf |-> [i \in 0..(N - 1) |-> None], head |-> 0, len |-> 0]

IsFull(q) == q.len = N
IsEmpty(q) == q.len = 0

(* Faulty variants of PushBack: the cell is computed without the head; and *)
(* the item goes in front of the line.                                     *)
PushAtLen(q, v) == [q EXCEPT !.buf[q.len % N] = v, !.len = @ + 1]
PushInFront(q, v) ==
  LET h == (q.head + N - 1) % N
  IN  [buf |-> [q.buf EXCEPT ![h] = v], head |-> h, len |-> q.len + 1]

(* `push_back` into a queue that is not full. *)
PushBack(q, v) ==
  [q EXCEPT !.buf[(q.head + q.len) % N] = v, !.len = @ + 1]

(* `pop_front` of a queue that is not empty: what is left... *)
PopFront(q) ==
  [buf  |-> [q.buf EXCEPT ![q.head] = None],
   head |-> (q.head + 1) % N,
   len  |-> q.len - 1]

(* ...and the item that was taken. *)
Front(q) == q.buf[q.head]

(* `copy_words`: the first MaxWords words verbatim, zero after the slice.  *)
CopyWords(src) ==
  [k \in 1..MaxWords |-> IF k <= Len(src) THEN src[k] ELSE 0]

-----------------------------------------------------------------------------
(* The abstract endpoint's answers. *)
Deliver(to, from, message, wake) ==
  [kind |-> "Deliver", to |-> to, from |-> from, words |-> message,
   wakeSender |-> wake]
Block(t) == [kind |-> "Block", tid |-> t]
QueueFull(t) == [kind |-> "QueueFull", tid |-> t]
Nothing == [kind |-> "Nothing"]

Items(q) == {q.buf[(q.head + k) % N] : k \in 0..(q.len - 1)}

Parked(t) ==
  \/ t \in Items(recvQ)
  \/ \E s \in Items(sendQ) : s.tid = t

Init == sendQ = NewQueue /\ recvQ = NewQueue /\ action = Nothing

Send(from, words) ==
  /\ ~Parked(from)
  /\ IF ~IsEmpty(recvQ)
     THEN /\ action' = Deliver(Front(recvQ), from, CopyWords(words), FALSE)
          /\ recvQ' = PopFront(recvQ)
          /\ UNCHANGED sendQ
     ELSE /\ UNCHANGED recvQ
          /\ IF IsFull(sendQ)
             THEN action' = QueueFull(from) /\ UNCHANGED sendQ
             ELSE /\ action' = Block(from)
                  /\ sendQ' = PushBack(sendQ, [tid   |-> from,
                                               words |-> CopyWords(words)])

Recv(by) ==
  /\ ~Parked(by)
  /\ IF ~IsEmpty(sendQ)
     THEN /\ action' = Deliver(by, Front(sendQ).tid, Front(sendQ).words, TRUE)
          /\ sendQ' = PopFront(sendQ)
          /\ UNCHANGED recvQ
     ELSE /\ UNCHANGED sendQ
          /\ IF IsFull(recvQ)
             THEN action' = QueueFull(by) /\ UNCHANGED recvQ
             ELSE action' = Block(by) /\ recvQ' = PushBack(recvQ, by)

Next == \E t \in Threads : Recv(t) \/ \E w \in Payloads : Send(t, w)

Spec == Init /\ [][Next]_vars

(* Receivers keep coming: the demand side of a live service. *)
FairSpec == Spec /\ WF_vars(\E t \in Threads : Recv(t) /\ ~IsEmpty(sendQ))

-----------------------------------------------------------------------------
Messages == {CopyWords(w) : w \in Payloads}

(* The abstract endpoint, its lines read off the rings from `head`.        *)
Line(q) == [k \in 1..q.len |-> q.buf[(q.head + k - 1) % N]]

Abstract == INSTANCE Endpoint WITH
              senders <- Line(sendQ), receivers <- Line(recvQ),
              action <- action, Messages <- Messages, Capacity <- N

(* The rings implement first-in first-out lines: no message is lost,       *)
(* invented, duplicated or reordered by the index arithmetic, the reported *)
(* sender is the one that parked the words, and a full line refuses.       *)
ImplementsEndpoint == Abstract!Spec

(* A parked sender is eventually served as long as receives keep arriving. *)
ParkedSenderServed ==
  \A t \in Threads :
    (\E s \in Items(sendQ) : s.tid = t)
      ~> (action.kind = "Deliver" /\ action.from = t)
=============================================================================
