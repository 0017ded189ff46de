------------------------------ MODULE Endpoint ------------------------------
(***************************************************************************)
(* What an IPC endpoint promises, without saying how: two first-in         *)
(* first-out lines of waiting threads, a rendezvous as soon as both sides  *)
(* are present, and a refusal once a line holds Capacity threads.          *)
(*                                                                         *)
(* `action` is the answer of the last operation, as in `IpcAction`.        *)
(***************************************************************************)
EXTENDS Integers, Sequences

CONSTANTS Threads, Messages, Capacity

VARIABLES senders,     \* waiting senders, in arrival order, each with its message
          receivers,   \* waiting receivers, in arrival order
          action       \* the answer of the last operation

vars == <<senders, receivers, action>>

Deliver(to, from, message, wake) ==
  [kind |-> "Deliver", to |-> to, from |-> from, words |-> message,
   wakeSender |-> wake]
Block(t) == [kind |-> "Block", tid |-> t]
QueueFull(t) == [kind |-> "QueueFull", tid |-> t]
Nothing == [kind |-> "Nothing"]

Init == senders = << >> /\ receivers = << >> /\ action = Nothing

Send(t, m) ==
  \/ /\ receivers # << >>
     /\ action' = Deliver(Head(receivers), t, m, FALSE)
     /\ receivers' = Tail(receivers)
     /\ UNCHANGED senders
  \/ /\ receivers = << >> /\ Len(senders) < Capacity
     /\ action' = Block(t)
     /\ senders' = Append(senders, [tid |-> t, words |-> m])
     /\ UNCHANGED receivers
  \/ /\ receivers = << >> /\ Len(senders) = Capacity
     /\ action' = QueueFull(t)
     /\ UNCHANGED <<senders, receivers>>

Recv(t) ==
  \/ /\ senders # << >>
     /\ action' = Deliver(t, Head(senders).tid, Head(senders).words, TRUE)
     /\ senders' = Tail(senders)
     /\ UNCHANGED receivers
  \/ /\ senders = << >> /\ Len(receivers) < Capacity
     /\ action' = Block(t)
     /\ receivers' = Append(receivers, t)
     /\ UNCHANGED senders
  \/ /\ senders = << >> /\ Len(receivers) = Capacity
     /\ action' = QueueFull(t)
     /\ UNCHANGED <<senders, receivers>>

Next == \E t \in Threads : Recv(t) \/ \E m \in Messages : Send(t, m)

Spec == Init /\ [][Next]_vars
=============================================================================
