------------------------------- MODULE Sched -------------------------------
(***************************************************************************)
(* The run queue of crates/sched: `Scheduler<N>`, a fixed-capacity array   *)
(* of ready threads and a cursor.                                          *)
(*                                                                         *)
(* A queue is a record: `slots` is the live prefix slots[0..len] of the    *)
(* array (entry k of the array is slots[k + 1]; the entries past `len` are *)
(* always None in the code and are not represented) and `cur` is the       *)
(* zero-based cursor, meaningful only while the queue is not empty.        *)
(*                                                                         *)
(* The module holds the operations as pure operators, so that the kernel   *)
(* model and the queue's own state machine (RunQueue) share one definition *)
(* of them.                                                                *)
(***************************************************************************)
EXTENDS Integers, Sequences

(* `new`: no thread, cursor at zero. *)
EmptyQueue == [slots |-> << >>, cur |-> 0]

(* The threads that are queued. *)
Queued(q) == {q.slots[k] : k \in 1..Len(q.slots)}

Contains(q, t) == \E k \in 1..Len(q.slots) : q.slots[k] = t

IsEmptyQueue(q) == Len(q.slots) = 0

(* Faulty variant of Add: a thread that is queued already is appended      *)
(* again.                                                                  *)
AddTwice(q, t, cap) ==
  IF Len(q.slots) = cap THEN q ELSE [q EXCEPT !.slots = Append(@, t)]

(* `add`: append at the tail unless the queue is full or already holds t.  *)
Add(q, t, cap) ==
  IF Len(q.slots) = cap \/ Contains(q, t)
  THEN q
  ELSE [q EXCEPT !.slots = Append(@, t)]

(* `add` of several threads that are not queued, one after the other, in a *)
(* queue with room for them.                                               *)
Enqueue(q, ts) == [q EXCEPT !.slots = @ \o ts]

(* `current`: the thread under the cursor; only asked of a non-empty queue. *)
Current(q) == q.slots[q.cur + 1]

(* Faulty variant of Advance: wraps one entry too early.                   *)
AdvanceShort(q) ==
  IF Len(q.slots) < 2 THEN q
  ELSE [q EXCEPT !.cur = (@ + 1) % (Len(q.slots) - 1)]

(* `next`: advance the cursor modulo the length.  The thread it returns is *)
(* Current of the result.                                                  *)
Advance(q) ==
  IF IsEmptyQueue(q) THEN q ELSE [q EXCEPT !.cur = (@ + 1) % Len(q.slots)]

(* The array position (zero-based) of a queued thread. *)
Position(q, t) == (CHOOSE k \in 1..Len(q.slots) : q.slots[k] = t) - 1

(* The entries that remain once the hole at zero-based position i has been *)
(* closed by shifting the tail down.                                       *)
Compact(s, i) ==
  [k \in 1..(Len(s) - 1) |-> IF k <= i THEN s[k] ELSE s[k + 1]]

(* Faulty variant of CursorAfter: every removal restarts the rotation.     *)
CursorReset(cur, i, len) == 0

(* The cursor after the removal at position i has left `len` entries.      *)
CursorAfter(cur, i, len) ==
  IF len = 0 THEN 0
  ELSE IF i < cur THEN cur - 1
  ELSE IF cur >= len THEN 0
  ELSE cur

(* `remove`: compact the array over the hole and repair the cursor. *)
Remove(q, t) ==
  IF ~Contains(q, t)
  THEN q
  ELSE LET i == Position(q, t)
       IN  [slots |-> Compact(q.slots, i),
            cur   |-> CursorAfter(q.cur, i, Len(q.slots) - 1)]

(***************************************************************************)
(* The order in which repeated `next` calls would visit the queue, the     *)
(* current thread first.  Not code: the yardstick its order is judged by.  *)
(***************************************************************************)
Rotation(q) ==
  [k \in 1..Len(q.slots) |->
     IF q.cur + k <= Len(q.slots) THEN q.slots[q.cur + k]
                                  ELSE q.slots[q.cur + k - Len(q.slots)]]

(* Repeated `next` calls reach a before b. *)
Before(q, a, b) ==
  \E j, k \in 1..Len(q.slots) :
    j < k /\ Rotation(q)[j] = a /\ Rotation(q)[k] = b

(***************************************************************************)
(* The representation invariant of the array and its cursor: entries are   *)
(* distinct threads, they fit, and the cursor names a live entry.          *)
(***************************************************************************)
WellFormedQueue(q, T, cap) ==
  /\ q \in [slots : Seq(T), cur : Nat]
  /\ Len(q.slots) <= cap
  /\ \A j, k \in 1..Len(q.slots) : q.slots[j] = q.slots[k] => j = k
  /\ IF IsEmptyQueue(q) THEN q.cur = 0 ELSE q.cur < Len(q.slots)
=============================================================================
