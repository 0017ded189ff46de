--------------------------- MODULE RunQueueProofs ---------------------------
(***************************************************************************)
(* What the operations of the run queue do, for every set of threads and   *)
(* every capacity: they keep it well formed, they change the set of queued *)
(* threads by the thread they name, and they leave the thread under the    *)
(* cursor alone unless it is the one that goes.  The theorems about the    *)
(* queue's own state machine, at the end, and those about the kernel       *)
(* (KernelProofs) both rest on these.                                      *)
(***************************************************************************)
EXTENDS RunQueue, TLAPS, FiniteSetTheorems


(* An empty queue is well formed. *)
LEMMA EmptyWellFormed ==
  ASSUME NEW T, NEW cap \in Nat
  PROVE  WellFormedQueue(EmptyQueue, T, cap)
BY DEF WellFormedQueue, EmptyQueue, IsEmptyQueue

(* `add` keeps the queue well formed: it appends only a thread that is not *)
(* there, and only while there is room.                                    *)
LEMMA AddWellFormed ==
  ASSUME NEW T, NEW cap \in Nat, NEW q, NEW t \in T,
         WellFormedQueue(q, T, cap)
  PROVE  WellFormedQueue(Add(q, t, cap), T, cap)
<1>1. CASE Len(q.slots) = cap \/ Contains(q, t)
  BY <1>1 DEF Add
<1>2. CASE ~(Len(q.slots) = cap \/ Contains(q, t))
  <2> DEFINE r == [q EXCEPT !.slots = Append(@, t)]
  <2>1. /\ q \in [slots : Seq(T), cur : Nat]
        /\ q.slots \in Seq(T) /\ q.cur \in Nat
        /\ Len(q.slots) \in Nat /\ Len(q.slots) < cap
    BY <1>2 DEF WellFormedQueue
  <2>2. r.slots = Append(q.slots, t) /\ r.cur = q.cur
    BY <2>1
  <2>3. r \in [slots : Seq(T), cur : Nat]
    BY <2>1, <2>2
  <2>4. Len(r.slots) = Len(q.slots) + 1 /\ Len(r.slots) <= cap
    BY <2>1, <2>2
  <2>5. \A j, k \in 1..Len(r.slots) : r.slots[j] = r.slots[k] => j = k
    BY <1>2, <2>1, <2>2, <2>4 DEF WellFormedQueue, Contains
  <2>6. ~IsEmptyQueue(r) /\ r.cur < Len(r.slots)
    BY <2>1, <2>2, <2>4 DEF WellFormedQueue, IsEmptyQueue
  <2>7. Add(q, t, cap) = r
    BY <1>2 DEF Add
  <2> QED
    BY <2>3, <2>4, <2>5, <2>6, <2>7 DEF WellFormedQueue
<1> QED
  BY <1>1, <1>2

(* `next` keeps the queue well formed: the cursor wraps inside the array.  *)
LEMMA AdvanceWellFormed ==
  ASSUME NEW T, NEW cap \in Nat, NEW q, WellFormedQueue(q, T, cap)
  PROVE  WellFormedQueue(Advance(q), T, cap)
<1>1. CASE IsEmptyQueue(q)
  BY <1>1 DEF Advance
<1>2. CASE ~IsEmptyQueue(q)
  <2>1. /\ q \in [slots : Seq(T), cur : Nat]
        /\ Len(q.slots) \in Nat \ {0} /\ q.cur \in Nat
    BY <1>2 DEF WellFormedQueue, IsEmptyQueue
  <2>2. (q.cur + 1) % Len(q.slots) \in 0..(Len(q.slots) - 1)
    BY <2>1
  <2> QED
    BY <1>2, <2>1, <2>2 DEF Advance, WellFormedQueue, IsEmptyQueue
<1> QED
  BY <1>1, <1>2

(* Where a queued thread sits. *)
LEMMA PositionInRange ==
  ASSUME NEW T, NEW cap \in Nat, NEW q, NEW t,
         WellFormedQueue(q, T, cap), Contains(q, t)
  PROVE  /\ Position(q, t) \in 0..(Len(q.slots) - 1)
         /\ q.slots[Position(q, t) + 1] = t
<1> DEFINE k == CHOOSE k \in 1..Len(q.slots) : q.slots[k] = t
<1>1. k \in 1..Len(q.slots) /\ q.slots[k] = t
  BY DEF Contains
<1>2. Position(q, t) = k - 1
  BY DEF Position
<1>3. Len(q.slots) \in Nat
  BY DEF WellFormedQueue
<1>4. (k - 1) + 1 = k
  BY <1>1, <1>3
<1> HIDE DEF k
<1> QED
  BY <1>1, <1>2, <1>3, <1>4

(* Closing the hole keeps the entries, and keeps them distinct. *)
LEMMA CompactDistinct ==
  ASSUME NEW T, NEW s \in Seq(T), NEW i \in 0..(Len(s) - 1),
         \A j, k \in 1..Len(s) : s[j] = s[k] => j = k
  PROVE  /\ Compact(s, i) \in Seq(T)
         /\ Len(Compact(s, i)) = Len(s) - 1
         /\ \A j, k \in 1..(Len(s) - 1) :
              Compact(s, i)[j] = Compact(s, i)[k] => j = k
<1> DEFINE n == Len(s) - 1
           c == Compact(s, i)
<1>1. n \in Nat /\ Len(s) = n + 1 /\ i \in 0..n
  OBVIOUS
<1>2. \A k \in 1..n : s[k] \in T /\ s[k + 1] \in T
  BY <1>1
<1>3. c = [k \in 1..n |-> IF k <= i THEN s[k] ELSE s[k + 1]]
  BY DEF Compact
<1> HIDE DEF c, n
<1>4. c \in [1..n -> T]
  BY <1>2, <1>3
<1>5. c \in Seq(T) /\ Len(c) = n
  BY <1>1, <1>4
<1>6. ASSUME NEW j \in 1..n, NEW k \in 1..n, c[j] = c[k] PROVE j = k
  <2> DEFINE Old(x) == IF x <= i THEN x ELSE x + 1
  <2>1. /\ Old(j) \in 1..Len(s) /\ Old(k) \in 1..Len(s)
        /\ c[j] = s[Old(j)] /\ c[k] = s[Old(k)]
    BY <1>1, <1>3
  <2>2. Old(j) = Old(k)
    BY <1>6, <2>1
  <2> QED
    BY <1>1, <2>2
<1> QED
  BY <1>5, <1>6 DEF c, n

(* The repaired cursor names a surviving entry, if there is one. *)
LEMMA CursorInRange ==
  ASSUME NEW n \in Nat, NEW i \in 0..n, NEW cur \in 0..n
  PROVE  /\ CursorAfter(cur, i, n) \in Nat
         /\ IF n = 0 THEN CursorAfter(cur, i, n) = 0
                     ELSE CursorAfter(cur, i, n) < n
BY DEF CursorAfter

(* `remove` keeps the queue well formed. *)
LEMMA RemoveWellFormed ==
  ASSUME NEW T, NEW cap \in Nat, NEW q, NEW t, WellFormedQueue(q, T, cap)
  PROVE  WellFormedQueue(Remove(q, t), T, cap)
<1>1. CASE ~Contains(q, t)
  BY <1>1 DEF Remove
<1>2. CASE Contains(q, t)
  <2> DEFINE i == Position(q, t)
             s == q.slots
             n == Len(q.slots) - 1
             c == Compact(s, i)
             m == CursorAfter(q.cur, i, n)
  <2>1. /\ s \in Seq(T) /\ Len(s) \in Nat /\ Len(s) <= cap
        /\ i \in 0..n /\ q.cur \in 0..n /\ n \in Nat
        /\ \A j, k \in 1..Len(s) : s[j] = s[k] => j = k
    <3>1. i \in 0..n
      BY <1>2, PositionInRange
    <3>2. /\ s \in Seq(T) /\ Len(s) <= cap
          /\ \A j, k \in 1..Len(s) : s[j] = s[k] => j = k
      BY DEF WellFormedQueue
    <3>3. Len(s) \in Nat /\ n \in Nat
      BY <3>1, <3>2
    <3>4. q.cur \in 0..n
      BY <3>1, <3>3 DEF WellFormedQueue, IsEmptyQueue
    <3> QED
      BY <3>1, <3>2, <3>3, <3>4
  <2>2. /\ c \in Seq(T) /\ Len(c) = n
        /\ \A j, k \in 1..n : c[j] = c[k] => j = k
    BY <2>1, CompactDistinct
  <2>3. m \in Nat /\ (IF n = 0 THEN m = 0 ELSE m < n)
    BY <2>1, CursorInRange
  <2>4. Remove(q, t) = [slots |-> c, cur |-> m]
    BY <1>2 DEF Remove
  <2>5. n <= cap
    BY <2>1
  <2> HIDE DEF c, m, n, i, s
  <2> QED
    BY <2>2, <2>3, <2>4, <2>5 DEF WellFormedQueue, IsEmptyQueue
<1> QED
  BY <1>1, <1>2

-----------------------------------------------------------------------------
(* What the operations do to the set of queued threads.                    *)

(* `add` with room adds the thread, and does not move the cursor. *)
LEMMA AddQueued ==
  ASSUME NEW T, NEW cap \in Nat, NEW q, NEW t \in T,
         WellFormedQueue(q, T, cap),
         Len(q.slots) < cap \/ t \in Queued(q)
  PROVE  /\ Queued(Add(q, t, cap)) = Queued(q) \cup {t}
         /\ ~IsEmptyQueue(Add(q, t, cap))
         /\ ~IsEmptyQueue(q) => Current(Add(q, t, cap)) = Current(q)
<1>1. /\ q \in [slots : Seq(T), cur : Nat]
      /\ q.slots \in Seq(T) /\ q.cur \in Nat /\ Len(q.slots) \in Nat
      /\ Len(q.slots) <= cap
      /\ ~IsEmptyQueue(q) => q.cur < Len(q.slots)
  BY DEF WellFormedQueue
<1>2. Contains(q, t) <=> t \in Queued(q)
  BY DEF Contains, Queued
<1>3. CASE t \in Queued(q)
  <2>1. Add(q, t, cap) = q
    BY <1>2, <1>3 DEF Add
  <2>2. Len(q.slots) # 0
    BY <1>1, <1>3 DEF Queued
  <2> QED
    BY <1>3, <2>1, <2>2 DEF IsEmptyQueue
<1>4. CASE t \notin Queued(q)
  <2> DEFINE r == [q EXCEPT !.slots = Append(@, t)]
             n == Len(q.slots)
  <2>1. Add(q, t, cap) = r
    BY <1>1, <1>2, <1>4 DEF Add
  <2>2. r.slots = Append(q.slots, t) /\ r.cur = q.cur
    BY <1>1
  <2>3. /\ Len(r.slots) = n + 1 /\ r.slots[n + 1] = t
        /\ \A k \in 1..n : r.slots[k] = q.slots[k]
    BY <1>1, <2>2
  <2>4. Queued(r) = Queued(q) \cup {t}
    <3>1. \A k \in 1..(n + 1) : k \in 1..n \/ k = n + 1
      BY <1>1
    <3>2. \A k \in 1..n : k \in 1..(n + 1)
      BY <1>1
    <3>3. n + 1 \in 1..(n + 1)
      BY <1>1
    <3> HIDE DEF r, n
    <3>4. Queued(r) = {r.slots[k] : k \in 1..(n + 1)}
      BY <2>3 DEF Queued
    <3>5. Queued(q) = {q.slots[k] : k \in 1..n}
      BY DEF Queued, n
    <3> QED
      BY <2>3, <3>1, <3>2, <3>3, <3>4, <3>5
  <2>5. ~IsEmptyQueue(r)
    BY <1>1, <2>3 DEF IsEmptyQueue
  <2>6. ~IsEmptyQueue(q) => Current(r) = Current(q)
    <3>1. ~IsEmptyQueue(q) => q.cur + 1 \in 1..n
      BY <1>1
    <3> QED
      BY <2>2, <2>3, <3>1 DEF Current
  <2> QED
    BY <2>1, <2>4, <2>5, <2>6
<1> QED
  BY <1>3, <1>4

(* `next` visits threads, it does not add or drop any. *)
LEMMA AdvanceQueued ==
  ASSUME NEW T, NEW cap \in Nat, NEW q, WellFormedQueue(q, T, cap)
  PROVE  /\ Queued(Advance(q)) = Queued(q)
         /\ IsEmptyQueue(Advance(q)) <=> IsEmptyQueue(q)
<1>1. Advance(q).slots = q.slots
  BY DEF Advance, WellFormedQueue
<1> QED
  BY <1>1 DEF Queued, IsEmptyQueue

(* The thread under the cursor is a queued one. *)
LEMMA CurrentQueued ==
  ASSUME NEW T, NEW cap \in Nat, NEW q, WellFormedQueue(q, T, cap),
         ~IsEmptyQueue(q)
  PROVE  Current(q) \in Queued(q) /\ Current(q) \in T
<1>1. q.slots \in Seq(T) /\ q.cur + 1 \in 1..Len(q.slots)
  BY DEF WellFormedQueue, IsEmptyQueue
<1> QED
  BY <1>1 DEF Current, Queued

(* An empty queue holds nobody, and only an empty one. *)
LEMMA EmptyQueued ==
  ASSUME NEW T, NEW cap \in Nat, NEW q, WellFormedQueue(q, T, cap)
  PROVE  IsEmptyQueue(q) <=> Queued(q) = {}
<1>1. Len(q.slots) \in Nat
  BY DEF WellFormedQueue
<1>2. Len(q.slots) # 0 => q.slots[1] \in Queued(q)
  BY <1>1 DEF Queued
<1>3. Len(q.slots) = 0 => 1..Len(q.slots) = {}
  BY <1>1
<1>4. Len(q.slots) = 0 => Queued(q) = {}
  BY <1>3 DEF Queued
<1> QED
  BY <1>2, <1>4 DEF IsEmptyQueue

(* Queued threads are threads. *)
LEMMA QueuedThreads ==
  ASSUME NEW T, NEW cap \in Nat, NEW q, WellFormedQueue(q, T, cap)
  PROVE  Queued(q) \subseteq T
BY DEF WellFormedQueue, Queued

(* `remove` drops the thread it names and nobody else. *)
LEMMA RemoveQueued ==
  ASSUME NEW T, NEW cap \in Nat, NEW q, NEW t, WellFormedQueue(q, T, cap)
  PROVE  Queued(Remove(q, t)) = Queued(q) \ {t}
<1>1. CASE ~Contains(q, t)
  BY <1>1 DEF Remove, Contains, Queued
<1>2. CASE Contains(q, t)
  <2> DEFINE i == Position(q, t)
             s == q.slots
             n == Len(q.slots) - 1
             c == Compact(s, i)
  <2>1. i \in 0..n /\ s[i + 1] = t
    BY <1>2, PositionInRange
  <2>2. /\ Len(s) \in Nat /\ n \in Nat /\ Len(s) = n + 1 /\ s \in Seq(T)
        /\ \A j, k \in 1..Len(s) : s[j] = s[k] => j = k
    BY <2>1 DEF WellFormedQueue
  <2>3. Remove(q, t).slots = c
    BY <1>2 DEF Remove
  <2>4. /\ Len(c) = n
        /\ \A k \in 1..n : c[k] = IF k <= i THEN s[k] ELSE s[k + 1]
    BY <2>1, <2>2, CompactDistinct DEF Compact
  <2>5. Queued(Remove(q, t)) = {c[k] : k \in 1..n}
    BY <2>3, <2>4 DEF Queued
  <2>6. Queued(q) = {s[k] : k \in 1..(n + 1)}
    BY <2>2 DEF Queued
  <2> HIDE DEF c, n, s, i
  <2>7. ASSUME NEW x, x \in {c[k] : k \in 1..n}
        PROVE  x \in Queued(q) /\ x # t
    <3>1. PICK k \in 1..n : x = c[k]
      BY <2>7
    <3>2. CASE k <= i
      BY <2>1, <2>2, <2>4, <2>6, <3>1, <3>2
    <3>3. CASE ~(k <= i)
      BY <2>1, <2>2, <2>4, <2>6, <3>1, <3>3
    <3> QED
      BY <3>2, <3>3
  <2>8. ASSUME NEW x, x \in Queued(q), x # t
        PROVE  x \in {c[k] : k \in 1..n}
    <3>1. PICK k \in 1..(n + 1) : x = s[k]
      BY <2>6, <2>8
    <3>2. CASE k <= i
      BY <2>1, <2>2, <2>4, <3>1, <3>2
    <3>3. CASE ~(k <= i)
      <4>1. k # i + 1
        BY <2>1, <2>8, <3>1
      <4>2. k - 1 \in 1..n /\ ~(k - 1 <= i) /\ (k - 1) + 1 = k
        BY <2>1, <2>2, <3>1, <3>3, <4>1
      <4> QED
        BY <2>4, <3>1, <4>2
    <3> QED
      BY <3>2, <3>3
  <2> QED
    BY <2>5, <2>7, <2>8
<1> QED
  BY <1>1, <1>2

-----------------------------------------------------------------------------
(* Threads drawn from an interval fit a queue of its size.                 *)

(* Distinct entries of an interval of n threads are at most n. *)
LEMMA DistinctFit ==
  ASSUME NEW n \in Nat, NEW s \in Seq(0..(n - 1)),
         \A j, k \in 1..Len(s) : s[j] = s[k] => j = k
  PROVE  Len(s) <= n
<1>1. s \in Injection(1..Len(s), 0..(n - 1))
  <2>1. s \in [1..Len(s) -> 0..(n - 1)]
    OBVIOUS
  <2> QED
    BY <2>1 DEF Injection, IsInjective
<1>2. /\ IsFiniteSet(0..(n - 1))
      /\ Cardinality(0..(n - 1)) = IF 0 > n - 1 THEN 0 ELSE (n - 1) - 0 + 1
  BY FS_Interval
<1>3. /\ IsFiniteSet(1..Len(s))
      /\ Cardinality(1..Len(s)) = IF 1 > Len(s) THEN 0 ELSE Len(s) - 1 + 1
  BY FS_Interval
<1>4. Cardinality(1..Len(s)) <= Cardinality(0..(n - 1))
  BY <1>1, <1>2, FS_Injection
<1> QED
  BY <1>2, <1>3, <1>4

(* So there is room for every thread that is not queued yet. *)
LEMMA RoomForMore ==
  ASSUME NEW n \in Nat, NEW q, WellFormedQueue(q, 0..(n - 1), n),
         NEW t \in 0..(n - 1), t \notin Queued(q)
  PROVE  Len(q.slots) < n
<1> DEFINE s == Append(q.slots, t)
<1>1. /\ q.slots \in Seq(0..(n - 1)) /\ Len(q.slots) \in Nat
      /\ \A j, k \in 1..Len(q.slots) : q.slots[j] = q.slots[k] => j = k
      /\ \A k \in 1..Len(q.slots) : q.slots[k] # t
  BY DEF WellFormedQueue, Queued
<1>2. s \in Seq(0..(n - 1)) /\ Len(s) = Len(q.slots) + 1
  BY <1>1
<1>3. \A j, k \in 1..Len(s) : s[j] = s[k] => j = k
  <2> DEFINE m == Len(q.slots)
  <2>1. /\ \A k \in 1..m : s[k] = q.slots[k]
        /\ s[m + 1] = t
    BY <1>1
  <2> HIDE DEF s
  <2>2. \A k \in 1..Len(s) : k \in 1..m \/ k = m + 1
    BY <1>1, <1>2
  <2> QED
    BY <1>1, <2>1, <2>2
<1>4. Len(s) <= n
  BY <1>2, <1>3, DistinctFit
<1> QED
  BY <1>1, <1>2, <1>4

(* A sequence that names every member of S once. *)
Lists(ts, S) ==
  /\ ts \in Seq(S) /\ Len(ts) = Cardinality(S)
  /\ \A j, k \in 1..Len(ts) : ts[j] = ts[k] => j = k
  /\ \A x \in S : \E k \in 1..Len(ts) : ts[k] = x

(* Several threads that are not queued, appended one after the other. *)
LEMMA AppendAll ==
  ASSUME NEW n \in Nat, NEW q, WellFormedQueue(q, 0..(n - 1), n),
         NEW S \in SUBSET (0..(n - 1)), S \cap Queued(q) = {},
         NEW ts, Lists(ts, S)
  PROVE  /\ WellFormedQueue(Enqueue(q, ts), 0..(n - 1), n)
         /\ Queued(Enqueue(q, ts)) = Queued(q) \cup S
         /\ ~IsEmptyQueue(q) => Current(Enqueue(q, ts)) = Current(q)
<1> DEFINE T == 0..(n - 1)
           r == [q EXCEPT !.slots = @ \o ts]
           a == Len(q.slots)
           b == Len(ts)
<1>0. /\ ts \in Seq(S)
      /\ \A j, k \in 1..b : ts[j] = ts[k] => j = k
      /\ \A x \in S : \E k \in 1..b : ts[k] = x
  BY DEF Lists
<1>1. /\ q \in [slots : Seq(T), cur : Nat]
      /\ q.slots \in Seq(T) /\ q.cur \in Nat /\ a \in Nat /\ b \in Nat
      /\ \A j, k \in 1..a : q.slots[j] = q.slots[k] => j = k
      /\ IF a = 0 THEN q.cur = 0 ELSE q.cur < a
  BY <1>0 DEF WellFormedQueue, IsEmptyQueue
<1>2. ts \in Seq(T)
  <2>1. \A k \in 1..b : ts[k] \in S
    BY <1>0
  <2>2. S \subseteq T
    BY DEF T
  <2>3. ts = [k \in 1..b |-> ts[k]] /\ b \in Nat
    BY <1>0
  <2> HIDE DEF T, b
  <2>4. ts \in [1..b -> T] /\ b \in Nat
    BY <2>1, <2>2, <2>3
  <2> QED
    BY <2>4
<1>3. r.slots = q.slots \o ts /\ r.cur = q.cur
  BY <1>1
<1>4. r.slots \in Seq(T) /\ Len(r.slots) = a + b
  BY <1>1, <1>2, <1>3
<1>5. /\ \A k \in 1..a : r.slots[k] = q.slots[k]
      /\ \A k \in 1..b : r.slots[a + k] = ts[k]
  <2>1. \A k \in 1..(a + b) :
          (q.slots \o ts)[k] = IF k <= a THEN q.slots[k] ELSE ts[k - a]
    BY <1>1, <1>2
  <2>2. \A k \in 1..a : k \in 1..(a + b) /\ k <= a
    BY <1>1
  <2>3. \A k \in 1..b : a + k \in 1..(a + b) /\ ~(a + k <= a) /\ (a + k) - a = k
    BY <1>1
  <2> HIDE DEF a, b, r
  <2> QED
    BY <1>3, <2>1, <2>2, <2>3
<1>6. \A k \in 1..(a + b) : k \in 1..a \/ (k - a \in 1..b /\ k = a + (k - a))
  BY <1>1
<1>7. /\ \A k \in 1..a : q.slots[k] \in Queued(q)
      /\ \A k \in 1..b : ts[k] \in S
  BY <1>0 DEF Queued
<1> HIDE DEF r, a, b
<1>8. ASSUME NEW j \in 1..(a + b), NEW k \in 1..(a + b),
             r.slots[j] = r.slots[k]
      PROVE  j = k
  <2>1. CASE j \in 1..a /\ k \in 1..a
    BY <1>1, <1>5, <1>8, <2>1
  <2>2. CASE j \in 1..a /\ k \notin 1..a
    BY <1>5, <1>6, <1>7, <1>8, <2>2
  <2>3. CASE j \notin 1..a /\ k \in 1..a
    BY <1>5, <1>6, <1>7, <1>8, <2>3
  <2>4. CASE j \notin 1..a /\ k \notin 1..a
    <3>1. /\ j - a \in 1..b /\ j = a + (j - a)
          /\ k - a \in 1..b /\ k = a + (k - a)
      BY <1>6, <2>4
    <3>2. r.slots[j] = ts[j - a] /\ r.slots[k] = ts[k - a]
      BY <1>5, <3>1
    <3>3. j - a = k - a
      BY <1>0, <1>8, <3>1, <3>2
    <3> QED
      BY <3>1, <3>3
  <2> QED
    BY <2>1, <2>2, <2>3, <2>4
<1>9. a + b <= n
  BY <1>4, <1>8, DistinctFit
<1>10. r \in [slots : Seq(T), cur : Nat]
  BY <1>1, <1>3, <1>4 DEF r
<1>11. IF IsEmptyQueue(r) THEN r.cur = 0 ELSE r.cur < Len(r.slots)
  BY <1>1, <1>3, <1>4 DEF IsEmptyQueue
<1>12. WellFormedQueue(r, T, n)
  BY <1>4, <1>8, <1>9, <1>10, <1>11 DEF WellFormedQueue
<1>13. Queued(r) = Queued(q) \cup S
  <2>1. \A k \in 1..a : k \in 1..(a + b)
    BY <1>1
  <2>2. \A k \in 1..b : a + k \in 1..(a + b)
    BY <1>1
  <2>3. Queued(r) = {r.slots[k] : k \in 1..(a + b)}
    BY <1>4 DEF Queued
  <2>4. Queued(q) = {q.slots[k] : k \in 1..a}
    BY DEF Queued, a
  <2>5. S \subseteq {ts[k] : k \in 1..b}
    BY <1>0
  <2>6. Queued(r) \subseteq Queued(q) \cup S
    BY <1>5, <1>6, <1>7, <2>3
  <2>7. Queued(q) \subseteq Queued(r)
    BY <1>5, <2>1, <2>3, <2>4
  <2>8. S \subseteq Queued(r)
    BY <1>5, <2>2, <2>3, <2>5
  <2> QED
    BY <2>6, <2>7, <2>8
<1>14. ~IsEmptyQueue(q) => Current(r) = Current(q)
  <2>1. ~IsEmptyQueue(q) => q.cur + 1 \in 1..a
    BY <1>1 DEF IsEmptyQueue, a
  <2>2. ~IsEmptyQueue(q) => r.slots[q.cur + 1] = q.slots[q.cur + 1]
    BY <1>5, <2>1
  <2> QED
    BY <1>3, <2>2 DEF Current
<1> QED
  BY <1>12, <1>13, <1>14 DEF r, T, Enqueue

-----------------------------------------------------------------------------
(* The queue of crates/sched is well formed in every reachable state: no   *)
(* thread is queued twice, `slots[cur]` is never read past the end, and    *)
(* the capacity is never exceeded.                                         *)
THEOREM QueueTypeOK == QueueSpec => []QueueOK
<1>1. QueueInit => QueueOK
  BY EmptyWellFormed, CapacityAssumption DEF QueueInit, QueueOK
<1>2. QueueOK /\ [QueueNext]_queueVars => QueueOK'
  <2> SUFFICES ASSUME QueueOK, [QueueNext]_queueVars PROVE QueueOK'
    OBVIOUS
  <2>1. ASSUME NEW t \in Threads, AddThread(t) PROVE QueueOK'
    BY <2>1, AddWellFormed, CapacityAssumption DEF QueueOK, AddThread
  <2>2. CASE NextThread
    BY <2>2, AdvanceWellFormed, CapacityAssumption DEF QueueOK, NextThread
  <2>3. CASE RemoveCurrent
    BY <2>3, RemoveWellFormed, CapacityAssumption DEF QueueOK, RemoveCurrent
  <2>4. CASE UNCHANGED queueVars
    BY <2>4 DEF QueueOK, queueVars
  <2> QED
    BY <2>1, <2>2, <2>3, <2>4 DEF QueueNext
<1> QED
  BY <1>1, <1>2, PTL DEF QueueSpec

(* Removing the thread under the cursor drops the head of the rotation and *)
(* nothing else, whether the cursor stays put or wraps to the front.       *)
LEMMA RotationShifts ==
  ASSUME QueueOK, ~IsEmptyQueue(runQueue)
  PROVE  LET r == Remove(runQueue, Current(runQueue))
         IN  /\ Len(r.slots) = Len(runQueue.slots) - 1
             /\ \A k \in 1..Len(r.slots) : Rotation(r)[k] = Rotation(runQueue)[k + 1]
             /\ Rotation(runQueue)[1] = Current(runQueue)
<1> DEFINE s == runQueue.slots
           i == runQueue.cur
           n == Len(runQueue.slots) - 1
           r == Remove(runQueue, Current(runQueue))
           c == Compact(s, i)
<1>1. /\ s \in Seq(Threads) /\ n \in Nat /\ Len(s) = n + 1 /\ i \in 0..n
      /\ \A j, k \in 1..Len(s) : s[j] = s[k] => j = k
  BY DEF QueueOK, WellFormedQueue, IsEmptyQueue
<1>2. Contains(runQueue, Current(runQueue)) /\ Position(runQueue, Current(runQueue)) = i
  <2>1. Contains(runQueue, Current(runQueue))
    BY <1>1 DEF Contains, Current
  <2>2. /\ Position(runQueue, Current(runQueue)) \in 0..n
        /\ s[Position(runQueue, Current(runQueue)) + 1] = s[i + 1]
    BY <2>1, PositionInRange, CapacityAssumption DEF QueueOK, Current
  <2>3. Position(runQueue, Current(runQueue)) + 1 \in 1..Len(s) /\ i + 1 \in 1..Len(s)
    BY <1>1, <2>2
  <2>4. Position(runQueue, Current(runQueue)) + 1 = i + 1
    BY <1>1, <2>2, <2>3
  <2> QED
    BY <1>1, <2>1, <2>2, <2>4
<1>3. r.slots = c /\ r.cur = CursorAfter(i, i, n)
  BY <1>2 DEF Remove
<1>4. /\ Len(c) = n
      /\ \A k \in 1..n : c[k] = IF k <= i THEN s[k] ELSE s[k + 1]
  BY <1>1, CompactDistinct DEF Compact
<1>5. r.cur = IF i >= n THEN 0 ELSE i
  BY <1>1, <1>3 DEF CursorAfter
<1>6. \A k \in 1..(n + 1) :
        Rotation(runQueue)[k] = IF i + k <= n + 1 THEN s[i + k]
                                               ELSE s[i + k - (n + 1)]
  BY <1>1 DEF Rotation
<1> HIDE DEF c, r
<1>7. \A k \in 1..n :
        Rotation(r)[k] = IF r.cur + k <= n THEN c[r.cur + k] ELSE c[r.cur + k - n]
  BY <1>1, <1>3, <1>4 DEF Rotation
<1> HIDE DEF s, i, n
<1>8. ASSUME NEW k \in 1..n PROVE Rotation(r)[k] = Rotation(runQueue)[k + 1]
  <2>1. CASE i >= n
    <3>1. /\ i = n /\ r.cur = 0 /\ k <= n /\ k <= i
          /\ k + 1 \in 1..(n + 1) /\ ~(i + (k + 1) <= n + 1)
          /\ i + (k + 1) - (n + 1) = k /\ r.cur + k = k
      BY <1>1, <1>5, <2>1
    <3> QED
      BY <1>4, <1>6, <1>7, <3>1
  <2>2. CASE i < n /\ i + k <= n
    <3>1. /\ r.cur = i /\ i + k \in 1..n /\ ~(i + k <= i)
          /\ k + 1 \in 1..(n + 1) /\ i + (k + 1) <= n + 1
          /\ i + (k + 1) = i + k + 1
      BY <1>1, <1>5, <2>2
    <3> QED
      BY <1>4, <1>6, <1>7, <2>2, <3>1
  <2>3. CASE i < n /\ ~(i + k <= n)
    <3>1. /\ r.cur = i /\ i + k - n \in 1..n /\ i + k - n <= i
          /\ k + 1 \in 1..(n + 1) /\ ~(i + (k + 1) <= n + 1)
          /\ i + (k + 1) - (n + 1) = i + k - n
      BY <1>1, <1>5, <2>3
    <3> QED
      BY <1>4, <1>6, <1>7, <2>3, <3>1
  <2> QED
    BY <1>1, <2>1, <2>2, <2>3
<1>9. Rotation(runQueue)[1] = s[i + 1]
  BY <1>1, <1>6
<1> QED
  BY <1>3, <1>4, <1>8, <1>9 DEF Current, r, s, i, n, c

(* No removal costs another thread its turn: the survivors keep the order  *)
(* in which `next` would have reached them, for every set of threads and   *)
(* every capacity.                                                         *)
THEOREM TurnsKept == QueueSpec => RemovalKeepsOrder
<1>1. ASSUME QueueOK, RemoveCurrent,
             NEW a \in Queued(runQueue'), NEW b \in Queued(runQueue'),
             Before(runQueue, a, b)
      PROVE  Before(runQueue', a, b)
  <2> DEFINE m == Len(runQueue'.slots)
  <2>1. /\ Len(runQueue.slots) = m + 1 /\ m \in Nat
        /\ \A k \in 1..m : Rotation(runQueue')[k] = Rotation(runQueue)[k + 1]
        /\ Rotation(runQueue)[1] = Current(runQueue)
    <3>1. QueueOK'
      BY <1>1, RemoveWellFormed, CapacityAssumption DEF QueueOK, RemoveCurrent
    <3>2. m \in Nat /\ Len(runQueue.slots) \in Nat
      BY <1>1, <3>1 DEF QueueOK, WellFormedQueue
    <3> QED
      BY <1>1, <3>2, RotationShifts DEF RemoveCurrent
  <2>2. a # Current(runQueue)
    BY <1>1, RemoveQueued, CapacityAssumption DEF QueueOK, RemoveCurrent
  <2>3. PICK j \in 1..(m + 1), k \in 1..(m + 1) :
          j < k /\ Rotation(runQueue)[j] = a /\ Rotation(runQueue)[k] = b
    BY <1>1, <2>1 DEF Before
  <2>4. /\ j - 1 \in 1..m /\ k - 1 \in 1..m /\ j - 1 < k - 1
        /\ (j - 1) + 1 = j /\ (k - 1) + 1 = k
    BY <2>1, <2>2, <2>3
  <2> QED
    BY <2>1, <2>3, <2>4 DEF Before
<1>2. QueueOK => [RemoveCurrent => \A a, b \in Queued(runQueue') :
                   Before(runQueue, a, b) => Before(runQueue', a, b)]_queueVars
  BY <1>1
<1> QED
  BY <1>2, QueueTypeOK, PTL DEF RemovalKeepsOrder, QueueSpec
=============================================================================
