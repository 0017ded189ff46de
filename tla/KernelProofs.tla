---------------------------- MODULE KernelProofs ----------------------------
(***************************************************************************)
(* The nucleus, for every size of its tables and every set of boot grants: *)
(* the run queue never loses step with the process table; the delegation   *)
(* ledger describes capabilities that exist; a process that waits holds    *)
(* what its wait needs, waits for something that can come, and is woken    *)
(* when what it waits for goes.                                            *)
(***************************************************************************)
EXTENDS KernelSafety, RunQueueProofs

-----------------------------------------------------------------------------
(* Orders in which several processes join the queue.                       *)

(* The process table is finite, and so is every set of processes. *)
LEMMA ProcsFinite ==
  ASSUME NEW S \in SUBSET Procs
  PROVE  IsFiniteSet(S) /\ Cardinality(S) \in Nat
<1>1. IsFiniteSet(Procs)
  BY FS_Interval, KernelAssumption DEF Procs
<1> QED
  BY <1>1, FS_Subset, FS_CardinalityType

(* The order of the table scan names every process once: the number of     *)
(* smaller members is a one-to-one map onto the positions.                 *)
LEMMA AscendingLists ==
  ASSUME NEW S \in SUBSET Procs
  PROVE  Lists(Ascending(S), S)
<1> DEFINE n == Cardinality(S)
           Below(x) == {y \in S : y < x}
           rank == [x \in S |-> Cardinality(Below(x))]
<1>1. /\ IsFiniteSet(S) /\ n \in Nat
      /\ \A x \in S : x \in Int
      /\ \A x \in S : IsFiniteSet(Below(x)) /\ Cardinality(Below(x)) \in Nat
  BY ProcsFinite, KernelAssumption DEF Procs
<1>2. ASSUME NEW x \in S PROVE Cardinality(Below(x)) \in 0..(n - 1)
  <2>1. /\ Cardinality(Below(x)) <= n
        /\ n = Cardinality(Below(x)) => S = Below(x)
    BY <1>1, FS_Subset
  <2>2. x \notin Below(x)
    BY <1>1
  <2> HIDE DEF Below
  <2>3. n # Cardinality(Below(x))
    BY <2>1, <2>2
  <2> QED
    BY <1>1, <2>1, <2>3
<1>3. ASSUME NEW x \in S, NEW z \in S,
             Cardinality(Below(x)) = Cardinality(Below(z))
      PROVE  x = z
  <2>1. ASSUME NEW u \in S, NEW v \in S, u < v
        PROVE  Cardinality(Below(u)) # Cardinality(Below(v))
    <3>1. Below(u) \in SUBSET Below(v)
      BY <1>1, <2>1
    <3>2. u \in Below(v) /\ u \notin Below(u)
      BY <1>1, <2>1
    <3> QED
      BY <1>1, <3>1, <3>2, FS_Subset
  <2>2. x < z \/ z < x \/ x = z
    BY <1>1
  <2> QED
    BY <1>3, <2>1, <2>2
<1> HIDE DEF Below
<1>4. rank \in Surjection(S, 0..(n - 1))
  <2>1. rank \in Injection(S, 0..(n - 1))
    BY <1>2, <1>3 DEF Injection, IsInjective
  <2>2. IsFiniteSet(0..(n - 1)) /\ Cardinality(0..(n - 1)) = n
    BY <1>1, FS_Interval
  <2> QED
    BY <2>1, <2>2, FS_Injection
<1> DEFINE f == Ascending(S)
<1>5. ASSUME NEW k \in 1..n
      PROVE  f[k] \in S /\ Cardinality(Below(f[k])) = k - 1
  <2>1. k - 1 \in 0..(n - 1)
    BY <1>1
  <2>2. \E x \in S : rank[x] = k - 1
    BY <1>4, <2>1 DEF Surjection
  <2>3. \E x \in S : Cardinality(Below(x)) = k - 1
    BY <2>2
  <2>4. f[k] = CHOOSE x \in S : Cardinality(Below(x)) = k - 1
    BY DEF Ascending, Below
  <2> HIDE DEF f
  <2> QED
    BY <2>3, <2>4
<1>6. f = [k \in 1..n |-> f[k]]
  BY DEF Ascending
<1> HIDE DEF f, n
<1>7. f \in [1..n -> S]
  BY <1>5, <1>6
<1>8. f \in Seq(S) /\ Len(f) = n
  BY <1>1, <1>7 DEF n
<1>9. ASSUME NEW j \in 1..n, NEW k \in 1..n, f[j] = f[k] PROVE j = k
  BY <1>1, <1>5, <1>9 DEF n
<1>10. ASSUME NEW x \in S PROVE \E k \in 1..n : f[k] = x
  <2> DEFINE k == Cardinality(Below(x)) + 1
  <2>1. k \in 1..n /\ k - 1 = Cardinality(Below(x))
    BY <1>1, <1>2 DEF n
  <2> HIDE DEF k
  <2> QED
    BY <1>3, <1>5, <2>1
<1> QED
  BY <1>8, <1>9, <1>10 DEF Lists, n, f

(* Any order the ledger's table may report: onto, hence one-to-one. *)
LEMMA OrdersLists ==
  ASSUME NEW S \in SUBSET Procs, NEW ts \in Orders(S)
  PROVE  Lists(ts, S)
<1> DEFINE n == Cardinality(S)
<1>1. IsFiniteSet(S) /\ n \in Nat
  BY ProcsFinite
<1>2. ts \in [1..n -> S] /\ \A x \in S : \E k \in 1..n : ts[k] = x
  BY DEF Orders
<1>3. ts \in Surjection(1..n, S)
  BY <1>2 DEF Surjection
<1>4. IsFiniteSet(1..n) /\ Cardinality(1..n) = n
  BY <1>1, FS_Interval
<1>5. ts \in Injection(1..n, S)
  BY <1>3, <1>4, FS_Surjection
<1>6. ts \in Seq(S) /\ Len(ts) = n
  BY <1>1, <1>2
<1> HIDE DEF n
<1> QED
  BY <1>2, <1>5, <1>6 DEF Lists, Injection, IsInjective, n

(* A set of processes that joins the queue, in such an order. *)
LEMMA EnqueueJoins ==
  ASSUME NEW q, WellFormedQueue(q, Procs, MaxProcs),
         NEW S \in SUBSET Procs, S \cap Queued(q) = {},
         NEW ts, Lists(ts, S)
  PROVE  /\ WellFormedQueue(Enqueue(q, ts), Procs, MaxProcs)
         /\ Queued(Enqueue(q, ts)) = Queued(q) \cup S
         /\ ~IsEmptyQueue(q) => Current(Enqueue(q, ts)) = Current(q)
<1>1. MaxProcs \in Nat
  BY KernelAssumption
<1> QED
  BY <1>1, AppendAll DEF Procs

(* `sched().add` of the members of a set: those that are queued already    *)
(* are left where they are.                                                *)
LEMMA EnqueueSetJoins ==
  ASSUME NEW q, WellFormedQueue(q, Procs, MaxProcs), NEW S \in SUBSET Procs
  PROVE  /\ WellFormedQueue(EnqueueSet(q, S), Procs, MaxProcs)
         /\ Queued(EnqueueSet(q, S)) = Queued(q) \cup S
         /\ ~IsEmptyQueue(q) => Current(EnqueueSet(q, S)) = Current(q)
<1> DEFINE N == S \ Queued(q)
<1>1. N \in SUBSET Procs /\ N \cap Queued(q) = {}
  OBVIOUS
<1>2. Queued(q) \cup N = Queued(q) \cup S
  OBVIOUS
<1> HIDE DEF N
<1>3. Lists(Ascending(N), N)
  BY <1>1, AscendingLists
<1> QED
  BY <1>1, <1>2, <1>3, EnqueueJoins DEF EnqueueSet, N

-----------------------------------------------------------------------------
(* The type invariant.                                                     *)

States ==
  {s \in [kind : {"Free", "Ready", "Send", "Recv", "Irq"}, on : Nat] :
     /\ s.kind = "Free" => s = Free
     /\ s.kind = "Ready" => s = Ready}
Caps ==
  {k \in [type : CapTypes \cup {"Null"}, rights : SUBSET Rights, object : Nat] :
     k.type = "Null" => k = NullCap}
Spaces == [CapIds -> Caps]
Results == {"none", "MSG", "OK", "COUNT", "NO_CAP"}
Verdicts == {"no", "deadlock", "ok", "leak"}

SchedTypeOK ==
  /\ state \in [Procs -> States] /\ result \in [Procs -> Results]
  /\ current \in Procs \cup {NoProc}
  /\ idling \in BOOLEAN /\ halt \in Verdicts

DataTypeOK ==
  /\ pid \in [Procs -> Nat] /\ nextId \in Nat
  /\ caps \in [Procs -> Spaces]
  /\ irqPending \in [Procs -> [Lines -> Nat]]
  /\ shares \in [Procs -> [Shares -> Nat]]
  /\ leaf \in [Procs -> [Shares -> [region : Nat, write : BOOLEAN]]]
  /\ window \in [Procs -> [phys : Nat \cup {NoProc}, write : BOOLEAN]]
  /\ nextRegion \in Nat \ {0}

InSync == SchedTypeOK /\ QueueInSync
SafeState == InSync /\ DataTypeOK

(* The blocked states are states. *)
LEMMA BlockedStates ==
  ASSUME NEW n \in Nat
  PROVE  /\ BlockedSend(n) \in States /\ BlockedRecv(n) \in States
         /\ BlockedIrq(n) \in States
         /\ BlockedSend(n) # Ready /\ BlockedRecv(n) # Ready
         /\ BlockedIrq(n) # Ready
BY DEF States, BlockedSend, BlockedRecv, BlockedIrq, Ready, Free

LEMMA PlainStates ==
  Free \in States /\ Ready \in States /\ Free # Ready
BY DEF States, Ready, Free

(* A slot emptied or left alone is a slot. *)
LEMMA NullIsCap == NullCap \in Caps
BY DEF Caps, NullCap, Cap

(* While user code runs, somebody is running. *)
LEMMA SomebodyRuns ==
  ASSUME InSync, Running
  PROVE  /\ current \in Procs /\ current \in Queued(queue)
         /\ state[current] = Ready /\ current # NoProc
<1>1. ~IsEmptyQueue(queue) /\ current = Current(queue)
  BY DEF InSync, QueueInSync
<1>2. current \in Queued(queue) /\ current \in Procs
  BY <1>1, CurrentQueued, KernelAssumption DEF InSync, QueueInSync
<1> QED
  BY <1>2, KernelAssumption DEF InSync, QueueInSync, Procs, NoProc

(* The machine goes on without a running process exactly when it parks. *)
LEMMA VerdictNo ==
  ASSUME NEW st, NEW cs, NEW fr
  PROVE  /\ Verdict(st, cs, fr) \in Verdicts
         /\ Verdict(st, cs, fr) = "no" <=> Classify(st, cs) = "Park"
<1>1. Classify(st, cs) \in {"Park", "Deadlock", "AllDone"}
  BY DEF Classify
<1> QED
  BY <1>1 DEF Verdict, Verdicts

-----------------------------------------------------------------------------
(* The shared steps of the handlers.                                       *)

ReadyIn(st) == {p \in Procs : st[p] = Ready}

(* Waking makes exactly the woken processes Ready. *)
LEMMA WakeMakesReady ==
  ASSUME NEW st \in [Procs -> States], NEW W \in SUBSET Procs
  PROVE  /\ WakeStates(st, W) \in [Procs -> States]
         /\ ReadyIn(WakeStates(st, W)) = ReadyIn(st) \cup W
         /\ \A p \in W : WakeStates(st, W)[p] = Ready
         /\ \A p \in Procs \ W : WakeStates(st, W)[p] = st[p]
BY PlainStates DEF WakeStates, ReadyIn

LEMMA WakeGivesResults ==
  ASSUME NEW res \in [Procs -> Results], NEW W, NEW code \in Results
  PROVE  WakeResults(res, W, code) \in [Procs -> Results]
BY DEF WakeResults

(* The tail of every handler that gave up the CPU: whatever it decides,    *)
(* the queue holds the Ready processes, the resumed one is under the       *)
(* cursor, and a machine that resumed nobody has parked or stopped.        *)
LEMMA DispatchInSync ==
  ASSUME NEW st \in [Procs -> States], NEW cs, NEW q,
         NEW res \in [Procs -> Results], NEW fr,
         WellFormedQueue(q, Procs, MaxProcs), Queued(q) = ReadyIn(st),
         InSync, Running, Dispatch(st, cs, q, res, fr)
  PROVE  InSync'
<1> DEFINE hopeless == {p \in Procs : /\ IsEmptyQueue(q)
                                      /\ st[p].kind = "Irq"
                                      /\ ~Creditable(cs[p], st[p].on)}
           st2 == WakeStates(st, hopeless)
           q2 == EnqueueSet(q, hopeless)
           res2 == WakeResults(res, hopeless, "NO_CAP")
<1>1. /\ state' = st2 /\ queue' = q2
      /\ ~IsEmptyQueue(q2) => Resume(Current(q2), res2) /\ UNCHANGED <<idling, halt>>
      /\ IsEmptyQueue(q2) => /\ result' = res2
                             /\ idling' = (Classify(st2, cs) = "Park")
                             /\ current' = NoProc
                             /\ halt' = Verdict(st2, cs, fr)
  BY DEF Dispatch
<1>2. hopeless \in SUBSET Procs
  OBVIOUS
<1> HIDE DEF hopeless
<1>3. /\ st2 \in [Procs -> States]
      /\ ReadyIn(st2) = ReadyIn(st) \cup hopeless
  BY <1>2, WakeMakesReady
<1>4. /\ WellFormedQueue(q2, Procs, MaxProcs)
      /\ Queued(q2) = ReadyIn(st2)
  BY <1>2, <1>3, EnqueueSetJoins
<1>5. res2 \in [Procs -> Results]
  BY WakeGivesResults DEF Results
<1> HIDE DEF st2, q2, res2
<1>6. CASE ~IsEmptyQueue(q2)
  <2>1. Current(q2) \in Procs
    BY <1>4, <1>6, CurrentQueued, KernelAssumption
  <2>2. /\ current' = Current(q2) /\ result' \in [Procs -> Results]
        /\ idling' = idling /\ halt' = halt
    BY <1>1, <1>5, <1>6 DEF Resume, Results
  <2> QED
    BY <1>1, <1>3, <1>4, <1>6, <2>1, <2>2
       DEF InSync, SchedTypeOK, QueueInSync, ReadyIn
<1>7. CASE IsEmptyQueue(q2)
  <2>1. halt' \in Verdicts /\ (halt' = "no" => idling')
    BY <1>1, <1>7, VerdictNo
  <2>2. ~Running'
    BY <2>1 DEF Running
  <2>3. idling' \in BOOLEAN
    BY <1>1, <1>7
  <2> QED
    BY <1>1, <1>3, <1>4, <1>5, <1>7, <2>1, <2>2, <2>3
       DEF InSync, SchedTypeOK, QueueInSync, ReadyIn
<1> QED
  BY <1>6, <1>7

(* The running process blocks: it leaves the queue and the Ready processes *)
(* together.                                                               *)
LEMMA BlockInSync ==
  ASSUME InSync, Running, NEW b \in States, b # Ready, BlockCurrent(b)
  PROVE  InSync'
<1> DEFINE st == [state EXCEPT ![current] = b]
           q == Remove(queue, current)
<1>1. /\ current \in Procs /\ MaxProcs \in Nat
      /\ state \in [Procs -> States] /\ result \in [Procs -> Results]
      /\ WellFormedQueue(queue, Procs, MaxProcs) /\ Queued(queue) = ReadyIn(state)
  BY SomebodyRuns, KernelAssumption
     DEF InSync, SchedTypeOK, QueueInSync, ReadyIn
<1>2. st \in [Procs -> States] /\ ReadyIn(st) = ReadyIn(state) \ {current}
  BY <1>1 DEF ReadyIn
<1>3. WellFormedQueue(q, Procs, MaxProcs) /\ Queued(q) = ReadyIn(st)
  <2>1. WellFormedQueue(q, Procs, MaxProcs)
    BY <1>1, RemoveWellFormed
  <2>2. Queued(q) = Queued(queue) \ {current}
    BY <1>1, RemoveQueued
  <2> QED
    BY <1>1, <1>2, <2>1, <2>2
<1>4. Dispatch(st, caps, q, result, free)
  BY DEF BlockCurrent
<1> HIDE DEF st, q
<1> QED
  BY <1>1, <1>2, <1>3, <1>4, DispatchInSync

(* A waiter is answered: it joins the queue and the Ready processes        *)
(* together, behind the running process.                                   *)
LEMMA AnswerInSync ==
  ASSUME InSync, Running, NEW w \in Procs, NEW code \in Results,
         Answer(w, code)
  PROVE  InSync'
<1>1. /\ current \in Procs /\ MaxProcs \in Nat
      /\ state \in [Procs -> States] /\ result \in [Procs -> Results]
      /\ WellFormedQueue(queue, Procs, MaxProcs) /\ Queued(queue) = ReadyIn(state)
      /\ ~IsEmptyQueue(queue) /\ current = Current(queue)
  BY SomebodyRuns, KernelAssumption
     DEF InSync, SchedTypeOK, QueueInSync, ReadyIn
<1>2. /\ state' \in [Procs -> States] /\ result' \in [Procs -> Results]
      /\ ReadyIn(state') = ReadyIn(state) \cup {w}
  BY <1>1, PlainStates DEF Answer, ReadyIn
<1>3. Len(queue.slots) < MaxProcs \/ w \in Queued(queue)
  BY <1>1, RoomForMore DEF Procs
<1>4. /\ WellFormedQueue(queue', Procs, MaxProcs)
      /\ Queued(queue') = ReadyIn(state')
      /\ ~IsEmptyQueue(queue') /\ Current(queue') = current
  <2>1. queue' = Add(queue, w, MaxProcs)
    BY DEF Answer
  <2>2. WellFormedQueue(queue', Procs, MaxProcs)
    BY <1>1, <2>1, AddWellFormed
  <2>3. /\ Queued(queue') = Queued(queue) \cup {w}
        /\ ~IsEmptyQueue(queue') /\ Current(queue') = Current(queue)
    BY <1>1, <1>3, <2>1, AddQueued
  <2> QED
    BY <1>1, <1>2, <2>2, <2>3
<1> QED
  BY <1>2, <1>4 DEF Answer, InSync, SchedTypeOK, QueueInSync, ReadyIn

(* Nothing the scheduler looks at has changed. *)
LEMMA QuietInSync ==
  ASSUME InSync, UNCHANGED <<state, result, schedVars>>
  PROVE  InSync'
<1>1. /\ state' = state /\ result' = result /\ queue' = queue
      /\ current' = current /\ idling' = idling /\ halt' = halt
  BY DEF schedVars
<1> QED
  BY <1>1 DEF InSync, SchedTypeOK, QueueInSync, Running

(* An interrupt: the answered waiters join the queue as they become Ready. *)
LEMMA DeliverJoins ==
  ASSUME InSync, NEW line, Deliver(line)
  PROVE  /\ state' \in [Procs -> States]
         /\ WellFormedQueue(DeliveredQueue(line), Procs, MaxProcs)
         /\ Queued(DeliveredQueue(line)) = ReadyIn(state')
         /\ DeliveredResults(line) \in [Procs -> Results]
         /\ ~IsEmptyQueue(queue)
              => Current(DeliveredQueue(line)) = Current(queue)
<1>1. Credited(line) \in SUBSET Procs
  BY DEF Credited, CreditHolders, LiveIn
<1>2. /\ state \in [Procs -> States] /\ result \in [Procs -> Results]
      /\ WellFormedQueue(queue, Procs, MaxProcs) /\ Queued(queue) = ReadyIn(state)
  BY DEF InSync, SchedTypeOK, QueueInSync, ReadyIn
<1>3. state' = WakeStates(state, Credited(line))
  BY DEF Deliver
<1>4. /\ state' \in [Procs -> States]
      /\ ReadyIn(state') = ReadyIn(state) \cup Credited(line)
  BY <1>1, <1>2, <1>3, WakeMakesReady
<1>5. DeliveredResults(line) \in [Procs -> Results]
  BY <1>2, WakeGivesResults DEF DeliveredResults, Results
<1> QED
  BY <1>1, <1>2, <1>4, <1>5, EnqueueSetJoins DEF DeliveredQueue

(* Whoever is under the cursor of such a queue may be resumed. *)
LEMMA ResumeInSync ==
  ASSUME NEW q, WellFormedQueue(q, Procs, MaxProcs), ~IsEmptyQueue(q),
         NEW res \in [Procs -> Results],
         state' \in [Procs -> States], Queued(q) = ReadyIn(state'),
         queue' = q, Resume(Current(q), res),
         idling' \in BOOLEAN, halt' \in Verdicts
  PROVE  InSync'
<1>1. Current(q) \in Procs
  BY CurrentQueued, KernelAssumption
<1>2. current' = Current(q) /\ result' \in [Procs -> Results]
  BY DEF Resume, Results
<1> QED
  BY <1>1, <1>2 DEF InSync, SchedTypeOK, QueueInSync, ReadyIn

-----------------------------------------------------------------------------
(* The handlers that touch the queue.                                      *)

(* The lowest member of a set of naturals. *)
LEMMA MinMember ==
  ASSUME NEW S \in SUBSET Nat, S # {}
  PROVE  Min(S) \in S /\ \A y \in S : Min(S) <= y
<1>1. \A y, m \in Nat : y < m => <<y, m>> \in OpToRel(<, Nat)
  BY DEF OpToRel
<1>2. PICK m \in S : \A y \in S : ~(<<y, m>> \in OpToRel(<, Nat))
  BY NatLessThanWellFounded, WFMin
<1>3. \A y \in S : ~(y < m)
  BY <1>1, <1>2
<1>4. \A y \in S : m <= y
  BY <1>3
<1> QED
  BY <1>4 DEF Min

LEMMA YieldInSync == InSync /\ Yield => InSync'
<1> SUFFICES ASSUME InSync, Yield PROVE InSync'
  OBVIOUS
<1>1. /\ WellFormedQueue(queue, Procs, MaxProcs) /\ Queued(queue) = ReadyIn(state)
      /\ ~IsEmptyQueue(queue) /\ MaxProcs \in Nat
      /\ result \in [Procs -> Results] /\ state \in [Procs -> States]
      /\ idling \in BOOLEAN /\ halt \in Verdicts
  BY KernelAssumption
     DEF InSync, SchedTypeOK, QueueInSync, Yield, ReadyIn
<1>2. /\ queue' = Advance(queue) /\ Resume(Current(queue'), result)
      /\ state' = state /\ idling' = idling /\ halt' = halt
  BY DEF Yield
<1>3. WellFormedQueue(queue', Procs, MaxProcs)
  BY <1>1, <1>2, AdvanceWellFormed
<1>4. Queued(queue') = ReadyIn(state') /\ ~IsEmptyQueue(queue')
  BY <1>1, <1>2, AdvanceQueued
<1> QED
  BY <1>1, <1>2, <1>3, <1>4, ResumeInSync

LEMMA SendInSync ==
  ASSUME InSync, DataTypeOK, NEW c \in CapIds, Send(c)
  PROVE  InSync'
<1> DEFINE ep == caps[current][c].object
           waiting == Waiters(BlockedRecv(ep))
<1>1. /\ Running
      /\ waiting # {} => Answer(Min(waiting), "MSG")
      /\ waiting = {} => BlockCurrent(BlockedSend(ep))
  BY DEF Send
<1>2. ep \in Nat
  BY <1>1, SomebodyRuns DEF DataTypeOK, Spaces, Caps
<1>3. waiting \in SUBSET Procs /\ waiting \in SUBSET Nat
  BY KernelAssumption DEF Waiters, Procs
<1> HIDE DEF ep, waiting
<1>4. CASE waiting # {}
  BY <1>1, <1>3, <1>4, MinMember, AnswerInSync DEF Results
<1>5. CASE waiting = {}
  BY <1>1, <1>2, <1>5, BlockedStates, BlockInSync
<1> QED
  BY <1>4, <1>5

LEMMA RecvInSync ==
  ASSUME InSync, DataTypeOK, NEW c \in CapIds, Recv(c)
  PROVE  InSync'
<1> DEFINE ep == caps[current][c].object
           waiting == Waiters(BlockedSend(ep))
<1>1. /\ Running
      /\ waiting # {} => Answer(Min(waiting), "OK")
      /\ waiting = {} => BlockCurrent(BlockedRecv(ep))
  BY DEF Recv
<1>2. ep \in Nat
  BY <1>1, SomebodyRuns DEF DataTypeOK, Spaces, Caps
<1>3. waiting \in SUBSET Procs /\ waiting \in SUBSET Nat
  BY KernelAssumption DEF Waiters, Procs
<1> HIDE DEF ep, waiting
<1>4. CASE waiting # {}
  BY <1>1, <1>3, <1>4, MinMember, AnswerInSync DEF Results
<1>5. CASE waiting = {}
  BY <1>1, <1>2, <1>5, BlockedStates, BlockInSync
<1> QED
  BY <1>4, <1>5

LEMMA WaitIrqInSync ==
  ASSUME InSync, DataTypeOK, NEW c \in CapIds, WaitIrq(c)
  PROVE  InSync'
<1>1. Running /\ BlockCurrent(BlockedIrq(caps[current][c].object))
  BY DEF WaitIrq
<1>2. caps[current][c].object \in Nat
  BY <1>1, SomebodyRuns DEF DataTypeOK, Spaces, Caps
<1> QED
  BY <1>1, <1>2, BlockedStates, BlockInSync

LEMMA IdleInterruptInSync ==
  ASSUME InSync, NEW line, IdleInterrupt(line)
  PROVE  InSync'
<1> DEFINE q == DeliveredQueue(line)
           res == DeliveredResults(line)
<1>1. /\ Deliver(line) /\ queue' = q /\ idling /\ halt' = halt
      /\ IsEmptyQueue(q) => result' = res /\ current' = current /\ idling' = idling
      /\ ~IsEmptyQueue(q) => Resume(Current(q), res) /\ idling' = FALSE
  BY DEF IdleInterrupt, Deliver
<1>2. /\ state' \in [Procs -> States] /\ res \in [Procs -> Results]
      /\ WellFormedQueue(q, Procs, MaxProcs) /\ Queued(q) = ReadyIn(state')
  BY <1>1, DeliverJoins
<1>3. halt \in Verdicts
  BY DEF InSync, SchedTypeOK
<1> HIDE DEF q, res
<1>4. CASE IsEmptyQueue(q)
  BY <1>1, <1>2, <1>4
     DEF InSync, SchedTypeOK, QueueInSync, Running, ReadyIn
<1>5. CASE ~IsEmptyQueue(q)
  BY <1>1, <1>2, <1>3, <1>5, ResumeInSync
<1> QED
  BY <1>4, <1>5

LEMMA PreemptTrapInSync == InSync /\ PreemptTrap => InSync'
<1> SUFFICES ASSUME InSync, PreemptTrap PROVE InSync'
  OBVIOUS
<1> DEFINE q == DeliveredQueue(Timer)
<1>1. /\ Running /\ Deliver(Timer) /\ queue' = Advance(q)
      /\ Resume(Current(queue'), DeliveredResults(Timer))
      /\ idling' = idling /\ halt' = halt
  BY DEF PreemptTrap, Deliver
<1>2. /\ state' \in [Procs -> States]
      /\ DeliveredResults(Timer) \in [Procs -> Results]
      /\ WellFormedQueue(q, Procs, MaxProcs) /\ Queued(q) = ReadyIn(state')
      /\ Current(q) = Current(queue)
  BY <1>1, DeliverJoins DEF InSync, QueueInSync
<1>3. ~IsEmptyQueue(q)
  <2>1. Queued(queue) # {}
    BY <1>1, EmptyQueued, KernelAssumption DEF InSync, QueueInSync
  <2>2. Queued(queue) \subseteq Queued(q)
    BY EnqueueSetJoins
       DEF InSync, QueueInSync, DeliveredQueue, Credited, CreditHolders, LiveIn
  <2> QED
    BY <1>2, <2>1, <2>2, EmptyQueued, KernelAssumption
<1> HIDE DEF q
<1>4. MaxProcs \in Nat
  BY KernelAssumption
<1>5. WellFormedQueue(queue', Procs, MaxProcs)
  BY <1>1, <1>2, <1>4, AdvanceWellFormed
<1>6. Queued(queue') = ReadyIn(state') /\ ~IsEmptyQueue(queue')
  BY <1>1, <1>2, <1>3, <1>4, AdvanceQueued
<1>7. idling' \in BOOLEAN /\ halt' \in Verdicts
  BY <1>1 DEF InSync, SchedTypeOK
<1> QED
  BY <1>1, <1>2, <1>5, <1>6, <1>7, ResumeInSync

(* The interrupted process is queued, so `device_trap` never takes the     *)
(* branch that gives up the CPU.                                           *)
LEMMA DeviceTrapInSync == InSync /\ DeviceTrap => InSync'
<1> SUFFICES ASSUME InSync, DeviceTrap PROVE InSync'
  OBVIOUS
<1> DEFINE q == DeliveredQueue(Console)
<1>1. /\ Running /\ Deliver(Console)
      /\ Contains(q, current)
           => queue' = q /\ Resume(current, DeliveredResults(Console))
      /\ idling' = idling /\ halt' = halt
  BY DEF DeviceTrap, Deliver
<1>2. /\ state' \in [Procs -> States]
      /\ DeliveredResults(Console) \in [Procs -> Results]
      /\ WellFormedQueue(q, Procs, MaxProcs) /\ Queued(q) = ReadyIn(state')
      /\ Current(q) = current
  BY <1>1, DeliverJoins DEF InSync, QueueInSync
<1>3. current \in Queued(q)
  BY <1>1, SomebodyRuns, EnqueueSetJoins
     DEF InSync, QueueInSync, DeliveredQueue, Credited, CreditHolders, LiveIn
<1>4. Contains(q, current) /\ ~IsEmptyQueue(q)
  <2>1. Contains(q, current)
    BY <1>3 DEF Contains, Queued
  <2>2. ~IsEmptyQueue(q)
    BY <1>2, <1>3, EmptyQueued, KernelAssumption
  <2> QED
    BY <2>1, <2>2
<1> HIDE DEF q
<1>5. idling' \in BOOLEAN /\ halt' \in Verdicts
  BY <1>1 DEF InSync, SchedTypeOK
<1> QED
  BY <1>1, <1>2, <1>4, <1>5, ResumeInSync

(* SPAWN found a free slot, and the caller a mint source to present. *)
ChildSlot == Min(Procs \ LiveIn(state))

LEMMA SpawnFresh ==
  ASSUME NEW c, NEW d, SpawnAnswer(c, d) = "OK"
  PROVE  /\ ChildSlot \in Procs /\ state[ChildSlot] = Free
         /\ Presents(c, "Untyped", WRITE)
         /\ d # NoDelegate => /\ caps[current][d] # NullCap
                              /\ ~(Cardinality(edges) >= MaxDelegations)
<1>1. /\ Presents(c, "Untyped", WRITE) /\ LiveIn(state) # Procs
      /\ d # NoDelegate => /\ caps[current][d] # NullCap
                           /\ ~(Cardinality(edges) >= MaxDelegations)
  BY DEF SpawnAnswer
<1>2. Procs \ LiveIn(state) # {} /\ Procs \ LiveIn(state) \in SUBSET Nat
  BY <1>1, KernelAssumption DEF LiveIn, Procs
<1>3. ChildSlot \in Procs \ LiveIn(state)
  BY <1>2, MinMember DEF ChildSlot
<1> QED
  BY <1>1, <1>3 DEF LiveIn

LEMMA SpawnInSync ==
  ASSUME InSync, NEW c, NEW d, NEW request, Spawn(c, d, request)
  PROVE  InSync'
<1> DEFINE p == ChildSlot
<1>1. /\ Running /\ SpawnAnswer(c, d) = "OK"
      /\ state' = [state EXCEPT ![p] = Ready]
      /\ result' = [result EXCEPT ![p] = "none"]
      /\ queue' = Add(queue, p, MaxProcs)
      /\ current' = current /\ idling' = idling /\ halt' = halt
  BY DEF Spawn, ChildSlot
<1>2. p \in Procs /\ state[p] = Free
  BY <1>1, SpawnFresh
<1> HIDE DEF p
<1>3. /\ current \in Procs /\ MaxProcs \in Nat
      /\ state \in [Procs -> States] /\ result \in [Procs -> Results]
      /\ WellFormedQueue(queue, Procs, MaxProcs) /\ Queued(queue) = ReadyIn(state)
      /\ ~IsEmptyQueue(queue) /\ current = Current(queue)
      /\ idling \in BOOLEAN /\ halt \in Verdicts
  BY <1>1, SomebodyRuns, KernelAssumption
     DEF InSync, SchedTypeOK, QueueInSync, ReadyIn
<1>4. /\ state' \in [Procs -> States] /\ result' \in [Procs -> Results]
      /\ ReadyIn(state') = ReadyIn(state) \cup {p}
  BY <1>1, <1>2, <1>3, PlainStates DEF ReadyIn, Results
<1>5. Len(queue.slots) < MaxProcs \/ p \in Queued(queue)
  BY <1>2, <1>3, RoomForMore DEF Procs
<1>6. WellFormedQueue(queue', Procs, MaxProcs)
  BY <1>1, <1>2, <1>3, AddWellFormed
<1>7. /\ Queued(queue') = Queued(queue) \cup {p}
      /\ ~IsEmptyQueue(queue') /\ Current(queue') = Current(queue)
  BY <1>1, <1>2, <1>3, <1>5, AddQueued
<1> QED
  BY <1>1, <1>3, <1>4, <1>6, <1>7 DEF InSync, SchedTypeOK, QueueInSync, ReadyIn

(* What REVOKE of the caller's capability c computes: the capabilities     *)
(* that go, whom they are taken from, the spaces left, and who was parked  *)
(* on what it lost.                                                        *)
Gone(c) == Revoked(EndAt(current, c))
Hit(c) == {d.proc : d \in Gone(c)}
Left(c) ==
  [p \in Procs |-> [k \in CapIds |->
     IF EndAt(p, k) \in Gone(c) THEN NullCap ELSE caps[p][k]]]
Woken(c) == {p \in Hit(c) : Stranded(state, Left(c)[p], p)}

LEMMA RevokeStep ==
  ASSUME NEW c, Revoke(c)
  PROVE  /\ Running /\ caps[current][c] # NullCap
         /\ edges' = RevokeFrom(edges, EndAt(current, c))
         /\ caps' = Left(c)
         /\ window' = [p \in Procs |->
              IF p \in Hit(c) THEN WindowLeft(p, Left(c)[p]) ELSE window[p]]
         /\ irqPending' = [p \in Procs |->
              IF p \in Hit(c) THEN CreditsLeft(p, Left(c)[p])
                              ELSE irqPending[p]]
         /\ state' = WakeStates(state, Woken(c))
         /\ result' = WakeResults(result, Woken(c), "NO_CAP")
         /\ \E ts \in Orders(Woken(c) \ Queued(queue)) :
              queue' = Enqueue(queue, ts)
         /\ current' = current /\ idling' = idling /\ halt' = halt
         /\ pid' = pid /\ nextId' = nextId /\ nextRegion' = nextRegion
BY DEF Revoke, Gone, Hit, Left, Woken, regionVars

LEMMA HitAreProcs ==
  ASSUME NEW c
  PROVE  Hit(c) \in SUBSET Procs /\ Woken(c) \in SUBSET Procs
         /\ \A p \in Hit(c) : state[p] # Free
BY DEF Hit, Woken, Gone, Revoked, LiveIn

LEMMA RevokeInSync ==
  ASSUME InSync, NEW c, Revoke(c)
  PROVE  InSync'
<1> DEFINE W == Woken(c)
           N == Woken(c) \ Queued(queue)
<1>1. /\ Running /\ state' = WakeStates(state, W)
      /\ result' = WakeResults(result, W, "NO_CAP")
      /\ current' = current /\ idling' = idling /\ halt' = halt
  BY RevokeStep
<1>2. PICK ts \in Orders(N) : queue' = Enqueue(queue, ts)
  BY RevokeStep
<1>3. W \in SUBSET Procs /\ N \in SUBSET Procs /\ N \cap Queued(queue) = {}
      /\ Queued(queue) \cup N = Queued(queue) \cup W
  BY HitAreProcs
<1> HIDE DEF W, N
<1>4. Lists(ts, N)
  BY <1>3, OrdersLists
<1>5. /\ current \in Procs /\ MaxProcs \in Nat
      /\ state \in [Procs -> States] /\ result \in [Procs -> Results]
      /\ WellFormedQueue(queue, Procs, MaxProcs) /\ Queued(queue) = ReadyIn(state)
      /\ ~IsEmptyQueue(queue) /\ current = Current(queue)
      /\ idling \in BOOLEAN /\ halt \in Verdicts
  BY <1>1, SomebodyRuns, KernelAssumption
     DEF InSync, SchedTypeOK, QueueInSync, ReadyIn
<1>6. /\ WellFormedQueue(queue', Procs, MaxProcs)
      /\ Queued(queue') = Queued(queue) \cup N
      /\ Current(queue') = Current(queue)
  BY <1>2, <1>3, <1>4, <1>5, EnqueueJoins
<1>7. /\ state' \in [Procs -> States]
      /\ ReadyIn(state') = ReadyIn(state) \cup W
  BY <1>1, <1>3, <1>5, WakeMakesReady
<1>8. result' \in [Procs -> Results]
  BY <1>1, <1>5, WakeGivesResults DEF Results
<1>9. ~IsEmptyQueue(queue')
  <2>1. Queued(queue) # {}
    BY <1>5, EmptyQueued
  <2> QED
    BY <1>5, <1>6, <2>1, EmptyQueued
<1> QED
  BY <1>1, <1>3, <1>5, <1>6, <1>7, <1>8, <1>9
     DEF InSync, SchedTypeOK, QueueInSync, ReadyIn

(* What the death of the running process computes: the regions that go     *)
(* with it, the spaces left, and whom nobody can answer any more.          *)
Own == {r.id : r \in {r \in regions : r.owner = pid[current]}}
Spared ==
  [p \in Procs |-> IF p \in LiveIn(state) THEN ForgetCaps(p, Own) ELSE caps[p]]
Survivors == [state EXCEPT ![current] = Free]
Bereaved == Orphaned(Survivors, Spared)

LEMMA TeardownStep ==
  ASSUME Teardown
  PROVE  /\ caps' = Spared
         /\ edges' = SpliceOut(ForgetEdges(Own), current, pid[current])
         /\ regions' = {r \in regions : r.id \notin Own}
         /\ Dispatch(WakeStates(Survivors, Bereaved), Spared,
                     EnqueueSet(Remove(queue, current), Bereaved),
                     WakeResults(result, Bereaved, "NO_CAP"), free')
         /\ window' = [window EXCEPT ![current] = NoWindow]
         /\ pid' = pid /\ irqPending' = irqPending /\ nextId' = nextId
         /\ nextRegion' = nextRegion
         /\ Bereaved \in SUBSET Procs
BY DEF Teardown, Own, Spared, Survivors, Bereaved, Orphaned

LEMMA TeardownInSync ==
  ASSUME InSync, Running, Teardown
  PROVE  InSync'
<1> DEFINE st == WakeStates(Survivors, Bereaved)
           q == EnqueueSet(Remove(queue, current), Bereaved)
           res == WakeResults(result, Bereaved, "NO_CAP")
<1>1. Dispatch(st, Spared, q, res, free') /\ Bereaved \in SUBSET Procs
  BY TeardownStep
<1>2. /\ current \in Procs /\ MaxProcs \in Nat
      /\ state \in [Procs -> States] /\ result \in [Procs -> Results]
      /\ WellFormedQueue(queue, Procs, MaxProcs) /\ Queued(queue) = ReadyIn(state)
  BY SomebodyRuns, KernelAssumption
     DEF InSync, SchedTypeOK, QueueInSync, ReadyIn
<1>3. /\ Survivors \in [Procs -> States]
      /\ ReadyIn(Survivors) = ReadyIn(state) \ {current}
  BY <1>2, PlainStates DEF Survivors, ReadyIn
<1>4. st \in [Procs -> States] /\ ReadyIn(st) = ReadyIn(Survivors) \cup Bereaved
  BY <1>1, <1>3, WakeMakesReady
<1>5. /\ WellFormedQueue(Remove(queue, current), Procs, MaxProcs)
      /\ Queued(Remove(queue, current)) = Queued(queue) \ {current}
  BY <1>2, RemoveWellFormed, RemoveQueued
<1>6. WellFormedQueue(q, Procs, MaxProcs) /\ Queued(q) = ReadyIn(st)
  BY <1>1, <1>2, <1>3, <1>4, <1>5, EnqueueSetJoins
<1>7. res \in [Procs -> Results]
  BY <1>2, WakeGivesResults DEF Results
<1> HIDE DEF st, q, res
<1> QED
  BY <1>1, <1>4, <1>6, <1>7, DispatchInSync

-----------------------------------------------------------------------------
(* The data the handlers keep.                                             *)

(* `CapSpace::insert` fills a slot that was empty. *)
LEMMA InsertFills ==
  ASSUME NEW cs, FreeCaps(cs) # {}, NEW k
  PROVE  /\ Min(FreeCaps(cs)) \in CapIds
         /\ cs[Min(FreeCaps(cs))] = NullCap
         /\ Insert(cs, k) = [cs EXCEPT ![Min(FreeCaps(cs))] = k]
         /\ cs \in Spaces /\ k \in Caps => Insert(cs, k) \in Spaces
<1>1. FreeCaps(cs) \in SUBSET Nat
  BY KernelAssumption DEF FreeCaps, CapIds
<1>2. Min(FreeCaps(cs)) \in FreeCaps(cs)
  BY <1>1, MinMember
<1>3. Min(FreeCaps(cs)) \in CapIds /\ cs[Min(FreeCaps(cs))] = NullCap
  BY <1>2 DEF FreeCaps
<1> QED
  BY <1>3 DEF Insert, Spaces

(* The space of a fresh process is empty; its first slot is slot 0. *)
LEMMA EmptySpaceFacts ==
  ASSUME NEW c \in CapIds
  PROVE  /\ EmptySpace \in Spaces /\ FreeCaps(EmptySpace) = CapIds
         /\ 0 \in CapIds /\ Min(FreeCaps(EmptySpace)) = 0
<1>1. EmptySpace \in Spaces /\ FreeCaps(EmptySpace) = CapIds
  BY NullIsCap DEF EmptySpace, Spaces, FreeCaps
<1>2. 0 \in CapIds /\ CapIds \in SUBSET Nat
  BY KernelAssumption DEF CapIds
<1>3. Min(CapIds) \in CapIds /\ \A y \in CapIds : Min(CapIds) <= y
  BY <1>2, MinMember
<1>4. Min(CapIds) \in Nat /\ Min(CapIds) <= 0
  BY <1>2, <1>3
<1>5. Min(CapIds) = 0
  BY <1>4
<1> QED
  BY <1>1, <1>2, <1>5

(* The child's space: at most the one delegated capability, in slot 0. *)
LEMMA ChildSpaceFacts ==
  ASSUME DataTypeOK, current \in Procs, NEW c \in CapIds,
         NEW d \in CapIds \cup {NoDelegate}, NEW request \in Requests,
         d # NoDelegate => caps[current][d] # NullCap
  PROVE  /\ ChildSpace(d, request) \in Spaces
         /\ \A k \in CapIds \ {0} : ChildSpace(d, request)[k] = NullCap
         /\ d = NoDelegate => ChildSpace(d, request) = EmptySpace
         /\ d # NoDelegate => ChildSpace(d, request)[0] =
              Cap(caps[current][d].type, caps[current][d].rights \cap request,
                  caps[current][d].object)
<1>1. /\ EmptySpace \in Spaces /\ FreeCaps(EmptySpace) # {}
      /\ 0 \in CapIds /\ Min(FreeCaps(EmptySpace)) = 0
      /\ \A k \in CapIds : EmptySpace[k] = NullCap
  BY EmptySpaceFacts DEF EmptySpace
<1>2. CASE d = NoDelegate
  BY <1>1, <1>2 DEF ChildSpace
<1>3. CASE d # NoDelegate
  <2> DEFINE k == Cap(caps[current][d].type,
                      caps[current][d].rights \cap request,
                      caps[current][d].object)
  <2>1. d \in CapIds /\ caps[current][d] \in Caps /\ caps[current][d] # NullCap
    BY <1>3 DEF DataTypeOK, Spaces
  <2>2. k \in Caps
    BY <2>1 DEF Caps, Cap
  <2> HIDE DEF k
  <2>3. /\ Insert(EmptySpace, k) = [EmptySpace EXCEPT ![0] = k]
        /\ Insert(EmptySpace, k) \in Spaces
    BY <1>1, <2>2, InsertFills
  <2>4. ChildSpace(d, request) = Insert(EmptySpace, k)
    BY <1>3 DEF ChildSpace, k
  <2>5. /\ [EmptySpace EXCEPT ![0] = k][0] = k
        /\ \A j \in CapIds \ {0} : [EmptySpace EXCEPT ![0] = k][j] = NullCap
    BY <1>1 DEF EmptySpace
  <2> QED
    BY <1>3, <2>3, <2>4, <2>5 DEF k
<1> QED
  BY <1>2, <1>3

(* Emptying the capabilities of some regions leaves a capability space. *)
LEMMA ForgetCapsType ==
  ASSUME DataTypeOK, NEW p \in Procs, NEW R
  PROVE  ForgetCaps(p, R) \in Spaces
BY NullIsCap DEF DataTypeOK, Spaces, ForgetCaps

LEMMA DropTypes ==
  ASSUME DataTypeOK, NEW p \in Procs, NEW R
  PROVE  /\ DropShares(p, R) \in [Shares -> Nat]
         /\ DropLeaves(p, R) \in [Shares -> [region : Nat, write : BOOLEAN]]
<1>1. Unmapped \in [region : Nat, write : BOOLEAN] /\ NoRegion \in Nat
  BY DEF Unmapped, NoRegion
<1> QED
  BY <1>1 DEF DataTypeOK, DropShares, DropLeaves

(* Every step keeps the data within its types. *)
LEMMA DataStep ==
  ASSUME SafeState, [Next]_vars
  PROVE  DataTypeOK'
<1> USE DEF SafeState
<1>1. /\ pid \in [Procs -> Nat] /\ nextId \in Nat
      /\ caps \in [Procs -> Spaces]
      /\ irqPending \in [Procs -> [Lines -> Nat]]
      /\ shares \in [Procs -> [Shares -> Nat]]
      /\ leaf \in [Procs -> [Shares -> [region : Nat, write : BOOLEAN]]]
      /\ window \in [Procs -> [phys : Nat \cup {NoProc}, write : BOOLEAN]]
      /\ nextRegion \in Nat \ {0}
  BY DEF DataTypeOK
<1>2. Running => current \in Procs
  BY SomebodyRuns
<1>3. CASE Yield
  BY <1>3 DEF Yield, DataTypeOK, regionVars
<1>4. ASSUME NEW c \in CapIds, Send(c) \/ Recv(c) \/ WaitIrq(c)
      PROVE  DataTypeOK'
  BY <1>4 DEF Send, Recv, WaitIrq, ipcUnchanged, DataTypeOK, regionVars
<1>5. ASSUME NEW c \in CapIds, CollectIrq(c) PROVE DataTypeOK'
  <2>1. irqPending' \in [Procs -> [Lines -> Nat]]
    BY <1>1, <1>2, <1>5 DEF CollectIrq
  <2> QED
    BY <1>5, <2>1 DEF CollectIrq, DataTypeOK, regionVars
<1>6. ASSUME NEW c \in CapIds, NEW pages, MakeRegion(c, pages)
      PROVE  DataTypeOK'
  <2> DEFINE k == Cap("Region", caps[current][c].rights, nextRegion)
  <2>1. current \in Procs /\ FreeCaps(caps[current]) # {}
    BY <1>2, <1>6 DEF MakeRegion
  <2>2. k \in Caps
    BY <1>1, <2>1 DEF Caps, Cap, Spaces, CapTypes
  <2> HIDE DEF k
  <2>3. Insert(caps[current], k) \in Spaces
    BY <1>1, <2>1, <2>2, InsertFills
  <2>4. caps' \in [Procs -> Spaces] /\ nextRegion' \in Nat \ {0}
    <3>1. /\ caps' = [caps EXCEPT ![current] = Insert(caps[current], k)]
          /\ nextRegion' = nextRegion + 1
      BY <1>6 DEF MakeRegion, k
    <3> QED
      BY <1>1, <2>1, <2>3, <3>1
  <2> QED
    BY <1>6, <2>4 DEF MakeRegion, DataTypeOK
<1>7. ASSUME NEW c \in CapIds, MapRegion(c) PROVE DataTypeOK'
  <2> DEFINE id == caps[current][c].object
             n == Min(SlotsFor(id))
             w == [region |-> id, write |-> WRITE \in caps[current][c].rights]
  <2>1. current \in Procs /\ SlotsFor(id) # {}
    BY <1>2, <1>7 DEF MapRegion
  <2>2. id \in Nat
    BY <1>1, <2>1 DEF Spaces, Caps
  <2>3. w \in [region : Nat, write : BOOLEAN]
    BY <2>2
  <2>4. /\ shares' = [shares EXCEPT ![current][n] = id] \/ shares' = shares
        /\ leaf' = [leaf EXCEPT ![current][n] = w]
             \/ leaf' = [leaf EXCEPT ![current][n] = Unmapped]
        /\ UNCHANGED <<pid, nextId, caps, irqPending, window, nextRegion>>
    BY <1>7 DEF MapRegion, regionVars
  <2> HIDE DEF id, n, w
  <2>5. shares' \in [Procs -> [Shares -> Nat]]
    <3>1. CASE shares' = shares
      BY <1>1, <3>1
    <3>2. CASE shares' = [shares EXCEPT ![current][n] = id]
      BY <1>1, <2>1, <2>2, <3>2
    <3> QED
      BY <2>4, <3>1, <3>2
  <2>6. leaf' \in [Procs -> [Shares -> [region : Nat, write : BOOLEAN]]]
    <3>1. Unmapped \in [region : Nat, write : BOOLEAN]
      BY DEF Unmapped, NoRegion
    <3>2. PICK v \in [region : Nat, write : BOOLEAN] :
            leaf' = [leaf EXCEPT ![current][n] = v]
      BY <2>3, <2>4, <3>1
    <3> QED
      BY <1>1, <2>1, <3>2
  <2> QED
    BY <1>1, <2>4, <2>5, <2>6 DEF DataTypeOK
<1>8. ASSUME NEW c \in CapIds, UnmapRegion(c) PROVE DataTypeOK'
  <2>1. current \in Procs
    BY <1>2, <1>8 DEF UnmapRegion
  <2>2. /\ shares' \in [Procs -> [Shares -> Nat]]
        /\ leaf' \in [Procs -> [Shares -> [region : Nat, write : BOOLEAN]]]
    BY <1>1, <1>8, <2>1, DropTypes DEF UnmapRegion
  <2> QED
    BY <1>8, <2>2 DEF UnmapRegion, DataTypeOK, regionVars
<1>9. ASSUME NEW c \in CapIds, FreeRegion(c) PROVE DataTypeOK'
  <2>1. /\ shares' \in [Procs -> [Shares -> Nat]]
        /\ leaf' \in [Procs -> [Shares -> [region : Nat, write : BOOLEAN]]]
        /\ caps' \in [Procs -> Spaces]
    BY <1>1, <1>9, DropTypes, ForgetCapsType DEF FreeRegion
  <2> QED
    BY <1>9, <2>1 DEF FreeRegion, DataTypeOK
<1>10. ASSUME NEW c \in CapIds, NEW answered \in BOOLEAN, MapBar(c, answered)
       PROVE  DataTypeOK'
  <2> DEFINE w == [phys |-> caps[current][c].object,
                   write |-> WRITE \in caps[current][c].rights]
  <2>1. current \in Procs
    BY <1>2, <1>10 DEF MapBar
  <2>2. caps[current][c].object \in Nat
    BY <1>1, <2>1 DEF Spaces, Caps
  <2>3. /\ w \in [phys : Nat \cup {NoProc}, write : BOOLEAN]
        /\ NoWindow \in [phys : Nat \cup {NoProc}, write : BOOLEAN]
    BY <2>2 DEF NoWindow
  <2>4. \/ window' = [window EXCEPT ![current] = w]
        \/ window' = [window EXCEPT ![current] = NoWindow]
    BY <1>10 DEF MapBar
  <2> HIDE DEF w
  <2>5. window' \in [Procs -> [phys : Nat \cup {NoProc}, write : BOOLEAN]]
    BY <1>1, <2>1, <2>3, <2>4
  <2> QED
    BY <1>10, <2>5 DEF MapBar, DataTypeOK, regionVars
<1>11. ASSUME NEW c \in CapIds, NEW d \in CapIds \cup {NoDelegate},
              SpawnNoMem(c, d)
       PROVE  DataTypeOK'
  BY <1>1, <1>11 DEF SpawnNoMem, DataTypeOK, procVars, regionVars
<1>12. ASSUME NEW c \in CapIds, NEW d \in CapIds \cup {NoDelegate},
              NEW request \in Requests, Spawn(c, d, request)
       PROVE  DataTypeOK'
  <2> DEFINE p == ChildSlot
  <2>1. /\ Running /\ SpawnAnswer(c, d) = "OK"
        /\ pid' = [pid EXCEPT ![p] = nextId] /\ nextId' = nextId + 1
        /\ caps' = [caps EXCEPT ![p] = ChildSpace(d, request)]
        /\ irqPending' = [irqPending EXCEPT ![p] = [l \in Lines |-> 0]]
        /\ shares' = [shares EXCEPT ![p] = [n \in Shares |-> NoRegion]]
        /\ leaf' = [leaf EXCEPT ![p] = [n \in Shares |-> Unmapped]]
        /\ window' = [window EXCEPT ![p] = NoWindow]
        /\ nextRegion' = nextRegion
    BY <1>12 DEF Spawn, ChildSlot, regionVars
  <2>2. /\ ChildSlot \in Procs
        /\ d # NoDelegate => caps[current][d] # NullCap
    BY <2>1, SpawnFresh
  <2>3. ChildSpace(d, request) \in Spaces
    BY <1>2, <2>1, <2>2, ChildSpaceFacts
  <2>4. /\ Unmapped \in [region : Nat, write : BOOLEAN] /\ NoRegion \in Nat
        /\ NoWindow \in [phys : Nat \cup {NoProc}, write : BOOLEAN]
    BY DEF Unmapped, NoRegion, NoWindow
  <2> HIDE DEF p
  <2>5. pid' \in [Procs -> Nat] /\ nextId' \in Nat /\ nextRegion' \in Nat \ {0}
    <3>1. pid' = [pid EXCEPT ![p] = nextId] /\ nextId \in Nat
      BY <1>1, <2>1
    <3>2. pid' \in [Procs -> Nat]
      BY <1>1, <3>1
    <3> QED
      BY <1>1, <2>1, <3>2
  <2>6. caps' \in [Procs -> Spaces]
    BY <1>1, <2>1, <2>3
  <2>7. irqPending' \in [Procs -> [Lines -> Nat]]
    BY <1>1, <2>1
  <2>8. shares' \in [Procs -> [Shares -> Nat]]
    BY <1>1, <2>1, <2>4
  <2>9. leaf' \in [Procs -> [Shares -> [region : Nat, write : BOOLEAN]]]
    BY <1>1, <2>1, <2>4
  <2>10. window' \in [Procs -> [phys : Nat \cup {NoProc}, write : BOOLEAN]]
    BY <1>1, <2>1, <2>4
  <2> QED
    BY <2>5, <2>6, <2>7, <2>8, <2>9, <2>10 DEF DataTypeOK
<1>13. ASSUME NEW c \in CapIds, Revoke(c) PROVE DataTypeOK'
  <2>1. /\ caps' = Left(c) /\ pid' = pid /\ nextId' = nextId
        /\ nextRegion' = nextRegion
        /\ window' = [p \in Procs |->
              IF p \in Hit(c) THEN WindowLeft(p, Left(c)[p]) ELSE window[p]]
        /\ irqPending' = [p \in Procs |->
              IF p \in Hit(c) THEN CreditsLeft(p, Left(c)[p]) ELSE irqPending[p]]
    BY <1>13, RevokeStep
  <2>2. caps' \in [Procs -> Spaces]
    BY <1>1, <2>1, NullIsCap DEF Left, Spaces
  <2>3. window' \in [Procs -> [phys : Nat \cup {NoProc}, write : BOOLEAN]]
    BY <1>1, <2>1 DEF WindowLeft, NoWindow
  <2>4. irqPending' \in [Procs -> [Lines -> Nat]]
    BY <1>1, <2>1 DEF CreditsLeft
  <2>5. /\ shares' \in [Procs -> [Shares -> Nat]]
        /\ leaf' \in [Procs -> [Shares -> [region : Nat, write : BOOLEAN]]]
    BY <1>1, <1>13, DropTypes DEF Revoke
  <2> QED
    BY <1>1, <2>1, <2>2, <2>3, <2>4, <2>5 DEF DataTypeOK
<1>14. CASE Exit \/ FaultTrap
  <2>1. Running /\ Teardown
    BY <1>14 DEF Exit, FaultTrap
  <2>2. /\ caps' = Spared /\ window' = [window EXCEPT ![current] = NoWindow]
        /\ UNCHANGED <<pid, irqPending, nextId, nextRegion>>
    BY <2>1, TeardownStep
  <2>3. caps' \in [Procs -> Spaces]
    BY <1>1, <2>2, ForgetCapsType DEF Spared
  <2>4. window' \in [Procs -> [phys : Nat \cup {NoProc}, write : BOOLEAN]]
    BY <1>1, <2>2 DEF NoWindow
  <2>5. /\ shares' \in [Procs -> [Shares -> Nat]]
        /\ leaf' \in [Procs -> [Shares -> [region : Nat, write : BOOLEAN]]]
    <3>1. Unmapped \in [region : Nat, write : BOOLEAN] /\ NoRegion \in Nat
      BY DEF Unmapped, NoRegion
    <3> QED
      BY <1>1, <2>1, <3>1, DropTypes DEF Teardown
  <2> QED
    BY <1>1, <2>2, <2>3, <2>4, <2>5 DEF DataTypeOK
<1>15. CASE TimerIrq \/ ConsoleIrq
  <2>1. PICK line \in {Timer, Console} : Deliver(line)
    BY <1>15 DEF TimerIrq, ConsoleIrq, PreemptTrap, DeviceTrap, IdleInterrupt
  <2>2. irqPending' \in [Procs -> [Lines -> Nat]]
    <3> DEFINE Count(p) ==
          CASE p \in Credited(line) -> 0
            [] p \in CreditHolders(line) \ Credited(line) ->
                 IF irqPending[p][line] < CreditMax THEN irqPending[p][line] + 1
                                                    ELSE irqPending[p][line]
            [] OTHER -> irqPending[p][line]
    <3>1. irqPending' = [p \in Procs |-> [irqPending[p] EXCEPT ![line] = Count(p)]]
      BY <2>1 DEF Deliver, CreditIrq
    <3>2. \A p \in Procs : irqPending[p][line] \in Nat
      BY <1>1, <2>1, KernelAssumption
    <3>3. \A p \in Procs : Count(p) \in Nat
      BY <3>2
    <3> HIDE DEF Count
    <3> QED
      BY <1>1, <3>1, <3>3
  <2> QED
    BY <2>1, <2>2 DEF Deliver, DataTypeOK, regionVars
<1>16. CASE UNCHANGED vars
  BY <1>16 DEF vars, procVars, regionVars, DataTypeOK
<1>17. CASE Halted
  BY <1>16, <1>17 DEF Halted
<1> QED
  BY <1>3, <1>4, <1>5, <1>6, <1>7, <1>8, <1>9, <1>10, <1>11, <1>12, <1>13,
     <1>14, <1>15, <1>16, <1>17 DEF Next, Syscall

(* Every step keeps the queue in step with the process table. *)
LEMMA SyncStep ==
  ASSUME SafeState, [Next]_vars
  PROVE  InSync'
<1>1. InSync /\ DataTypeOK
  BY DEF SafeState
<1>2. CASE Yield
  BY <1>1, <1>2, YieldInSync
<1>3. ASSUME NEW c \in CapIds, Send(c) \/ Recv(c) \/ WaitIrq(c) \/ Revoke(c)
      PROVE  InSync'
  BY <1>1, <1>3, SendInSync, RecvInSync, WaitIrqInSync, RevokeInSync
<1>4. ASSUME NEW c \in CapIds,
             \/ CollectIrq(c)
             \/ \E pages \in 1..RegionMaxPages : MakeRegion(c, pages)
             \/ MapRegion(c) \/ UnmapRegion(c) \/ FreeRegion(c)
             \/ \E answered \in BOOLEAN : MapBar(c, answered)
             \/ \E d \in CapIds \cup {NoDelegate} : SpawnNoMem(c, d)
      PROVE  InSync'
  <2>1. UNCHANGED <<state, result, schedVars>>
    BY <1>4 DEF CollectIrq, MakeRegion, MapRegion, UnmapRegion, FreeRegion,
                MapBar, SpawnNoMem, procVars
  <2> QED
    BY <1>1, <2>1, QuietInSync
<1>5. ASSUME NEW c \in CapIds, NEW d \in CapIds \cup {NoDelegate},
             NEW request \in Requests, Spawn(c, d, request)
      PROVE  InSync'
  BY <1>1, <1>5, SpawnInSync
<1>6. CASE Exit \/ FaultTrap
  BY <1>1, <1>6, TeardownInSync DEF Exit, FaultTrap
<1>7. CASE TimerIrq \/ ConsoleIrq
  BY <1>1, <1>7, PreemptTrapInSync, DeviceTrapInSync, IdleInterruptInSync
     DEF TimerIrq, ConsoleIrq
<1>8. CASE Halted \/ UNCHANGED vars
  <2>1. UNCHANGED <<state, result, schedVars>>
    BY <1>8 DEF Halted, vars, procVars
  <2> QED
    BY <1>1, <2>1, QuietInSync
<1> QED
  BY <1>2, <1>3, <1>4, <1>5, <1>6, <1>7, <1>8 DEF Next, Syscall

(* The boot state. *)
LEMMA InitSafe == Init => SafeState
<1> SUFFICES ASSUME Init PROVE SafeState
  OBVIOUS
<1> USE KernelAssumption
<1>1. MaxProcs \in Nat /\ NumProcs \in 1..MaxProcs /\ NumProcs \in Nat
  OBVIOUS
<1>2. BootProcs \in SUBSET Procs /\ 0 \in BootProcs /\ Procs \in SUBSET Nat
  BY <1>1 DEF BootProcs, Procs
<1>3. DataTypeOK
  <2>1. ASSUME NEW p \in BootProcs, NEW c \in CapIds, c < Len(BootGrants[p])
        PROVE  BootGrants[p][c + 1] \in Caps
    <3>1. BootGrants[p] \in Seq(Grants) /\ c + 1 \in 1..Len(BootGrants[p])
      BY <2>1 DEF CapIds
    <3>2. BootGrants[p][c + 1] \in Grants
      BY <3>1
    <3> QED
      BY <3>2 DEF Grants, Caps, CapTypes
  <2>2. caps \in [Procs -> Spaces]
    BY <2>1, NullIsCap DEF Init, Spaces
  <2>3. /\ pid \in [Procs -> Nat] /\ nextId \in Nat /\ nextRegion \in Nat \ {0}
        /\ irqPending \in [Procs -> [Lines -> Nat]]
    BY <1>1, <1>2 DEF Init
  <2>4. /\ shares \in [Procs -> [Shares -> Nat]]
        /\ leaf \in [Procs -> [Shares -> [region : Nat, write : BOOLEAN]]]
        /\ window \in [Procs -> [phys : Nat \cup {NoProc}, write : BOOLEAN]]
    BY DEF Init, NoRegion, Unmapped, NoWindow
  <2> QED
    BY <2>2, <2>3, <2>4 DEF DataTypeOK
<1>4. SchedTypeOK
  BY <1>2, PlainStates DEF Init, SchedTypeOK, Results, Verdicts
<1>5. QueueInSync
  <2> DEFINE s == [k \in 1..NumProcs |-> k - 1]
  <2>1. queue.slots = s /\ queue.cur = 0 /\ queue = [slots |-> s, cur |-> 0]
    BY DEF Init
  <2>2. s \in [1..NumProcs -> Procs]
    BY <1>1 DEF Procs
  <2>3. s \in Seq(Procs) /\ Len(s) = NumProcs
    BY <1>1, <2>2
  <2>4. \A j, k \in 1..NumProcs : s[j] = s[k] => j = k
    BY <1>1
  <2>5. {s[k] : k \in 1..NumProcs} = BootProcs
    <3>1. \A k \in 1..NumProcs : s[k] = k - 1 /\ k - 1 \in BootProcs
      BY <1>1 DEF BootProcs
    <3>2. \A p \in BootProcs : p + 1 \in 1..NumProcs /\ s[p + 1] = p
      BY <1>1 DEF BootProcs
    <3> HIDE DEF s
    <3>3. {s[k] : k \in 1..NumProcs} \subseteq BootProcs
      BY <3>1
    <3> QED
      BY <3>2, <3>3
  <2> HIDE DEF s
  <2>6. WellFormedQueue(queue, Procs, MaxProcs)
    BY <1>1, <2>1, <2>3, <2>4 DEF WellFormedQueue, IsEmptyQueue
  <2>7. Queued(queue) = {p \in Procs : state[p] = Ready}
    <3>1. Queued(queue) = BootProcs
      BY <2>1, <2>3, <2>5 DEF Queued
    <3> QED
      BY <1>2, <3>1, PlainStates DEF Init
  <2>8. ~IsEmptyQueue(queue) /\ current = Current(queue)
    BY <1>1, <2>1, <2>3 DEF Init, Current, IsEmptyQueue, s
  <2> QED
    BY <2>6, <2>7, <2>8 DEF QueueInSync
<1> QED
  BY <1>3, <1>4, <1>5 DEF SafeState, InSync

-----------------------------------------------------------------------------
(* The types of the kernel's state hold in every reachable state. *)
THEOREM KernelSafe == Spec => []SafeState
<1>1. SafeState /\ [Next]_vars => SafeState'
  BY DataStep, SyncStep DEF SafeState
<1> QED
  BY <1>1, InitSafe, PTL DEF Spec

(* For every number of processes and every set of grants: the queue holds  *)
(* exactly the Ready processes, each once, and while user code runs the    *)
(* running process is the one under the cursor.                            *)
THEOREM QueueAlwaysInSync == Spec => []QueueInSync
<1>1. SafeState => QueueInSync
  BY DEF SafeState, InSync
<1> QED
  BY <1>1, KernelSafe, PTL

-----------------------------------------------------------------------------
(* What the ledger computes.                                               *)

(* The capabilities derived from the root are closed under derivation. *)
LEMMA ReachClosed ==
  ASSUME NEW E, NEW root, NEW e \in E,
         e.parent = root \/ e.parent \in Reach(E, root)
  PROVE  e.child \in Reach(E, root)
<1>1. e.child \in Children(E)
  BY DEF Children
<1>2. ASSUME NEW S \in SUBSET Children(E), ClosedFrom(E, root, S)
      PROVE  e.child \in S
  BY <1>2 DEF ClosedFrom, Reach
<1> QED
  BY <1>1, <1>2 DEF Reach

(* They are the least such set: each of them has an edge that leads to it  *)
(* from the root or from another one.                                      *)
LEMMA ReachHasSource ==
  ASSUME NEW E, NEW root, NEW k \in Reach(E, root)
  PROVE  \E e \in E : /\ e.child = k
                      /\ e.parent = root \/ e.parent \in Reach(E, root)
<1> SUFFICES ASSUME \A e \in E : (e.parent = root \/ e.parent \in Reach(E, root))
                                    => e.child # k
             PROVE  FALSE
  OBVIOUS
<1> DEFINE S == Reach(E, root) \ {k}
<1>1. S \in SUBSET Children(E)
  BY DEF Reach
<1>2. ASSUME NEW e \in E, e.parent = root \/ e.parent \in S
      PROVE  e.child \in S
  BY <1>2, ReachClosed
<1>3. ClosedFrom(E, root, S)
  BY <1>2 DEF ClosedFrom
<1> HIDE DEF S
<1>4. k \in S
  BY <1>1, <1>3 DEF Reach
<1> QED
  BY <1>4 DEF S

(* Whatever the edges pass on, everything derived from the root has. *)
LEMMA ReachWithin ==
  ASSUME NEW E, NEW root, NEW S, ClosedFrom(E, root, S)
  PROVE  Reach(E, root) \subseteq S
<1>1. ClosedFrom(E, root, S \cap Children(E))
  BY DEF ClosedFrom, Children
<1> QED
  BY <1>1 DEF Reach

(* With one source per capability, an edge that a revocation leaves does   *)
(* not lead to anything it took.                                           *)
LEMMA SurvivorsUntouched ==
  ASSUME NEW E, NEW root, SingleSource(E), NEW e \in RevokeFrom(E, root)
  PROVE  /\ e \in E /\ e.parent # root
         /\ e.parent \notin Reach(E, root) /\ e.child \notin Reach(E, root)
<1>1. e \in E /\ e.parent # root /\ e.parent \notin Reach(E, root)
  BY DEF RevokeFrom
<1>2. ASSUME e.child \in Reach(E, root) PROVE FALSE
  <2>1. PICK d \in E : /\ d.child = e.child
                       /\ d.parent = root \/ d.parent \in Reach(E, root)
    BY <1>2, ReachHasSource
  <2>2. d = e
    BY <1>1, <2>1 DEF SingleSource
  <2> QED
    BY <1>1, <2>1, <2>2
<1> QED
  BY <1>1, <1>2

(* The edges `splice_out` leaves: those that do not name the dead process, *)
(* and one for each pair of edges that led through it.                     *)
LEMMA SpliceEdges ==
  ASSUME NEW E, NEW proc, NEW id, NEW e \in SpliceOut(E, proc, id)
  PROVE  \/ /\ e \in E /\ ~SameProc(e.parent, proc, id)
            /\ ~SameProc(e.child, proc, id)
         \/ \E i, o \in E : /\ SameProc(i.child, proc, id)
                            /\ ~SameProc(i.parent, proc, id)
                            /\ o.parent = i.child /\ ~SameProc(o.child, proc, id)
                            /\ e = Edge(i.parent, o.child)
BY DEF SpliceOut

(* The edge of the ledger that an edge left by `splice_out` continues. *)
Origin(E, e) ==
  CHOOSE o \in E : /\ o.child = e.child
                   /\ o = e \/ \E i \in E : /\ o.parent = i.child
                                            /\ e = Edge(i.parent, o.child)

(* `splice_out` adds no edge: with one source per capability, different    *)
(* edges it leaves continue different edges.                               *)
LEMMA SpliceShrinks ==
  ASSUME NEW E, IsFiniteSet(E), SingleSource(E), NEW proc, NEW id
  PROVE  /\ IsFiniteSet(SpliceOut(E, proc, id))
         /\ Cardinality(SpliceOut(E, proc, id)) <= Cardinality(E)
         /\ SingleSource(SpliceOut(E, proc, id))
<1> DEFINE D == SpliceOut(E, proc, id)
           f == [e \in D |-> Origin(E, e)]
<1>1. ASSUME NEW e \in D
      PROVE  \E o \in E : /\ o.child = e.child
                          /\ o = e \/ \E i \in E : /\ o.parent = i.child
                                                   /\ e = Edge(i.parent, o.child)
  <2>1. CASE e \in E
    BY <2>1
  <2>2. CASE \E i, o \in E : o.parent = i.child /\ e = Edge(i.parent, o.child)
    BY <2>2 DEF Edge
  <2> QED
    BY <2>1, <2>2, SpliceEdges
<1>2. ASSUME NEW e \in D PROVE Origin(E, e) \in E /\ Origin(E, e).child = e.child
  BY <1>1 DEF Origin
<1>3. ASSUME NEW d \in D, NEW e \in D, d.child = e.child PROVE d = e
  <2>1. \/ /\ d \in E /\ ~SameProc(d.parent, proc, id)
        \/ \E i, o \in E : /\ SameProc(i.child, proc, id) /\ o.parent = i.child
                           /\ d = Edge(i.parent, o.child)
    BY SpliceEdges
  <2>2. \/ /\ e \in E /\ ~SameProc(e.parent, proc, id)
        \/ \E i, o \in E : /\ SameProc(i.child, proc, id) /\ o.parent = i.child
                           /\ e = Edge(i.parent, o.child)
    BY SpliceEdges
  <2>3. \A i, o : Edge(i, o).parent = i /\ Edge(i, o).child = o
    BY DEF Edge
  <2>4. CASE d \in E /\ ~SameProc(d.parent, proc, id)
    <3>1. ASSUME NEW i \in E, NEW o \in E, SameProc(i.child, proc, id),
                 o.parent = i.child, e = Edge(i.parent, o.child)
          PROVE  FALSE
      <4>1. o = d
        BY <1>3, <2>3, <2>4, <3>1 DEF SingleSource
      <4> QED
        BY <2>4, <3>1, <4>1
    <3> QED
      BY <1>3, <2>2, <2>4, <3>1 DEF SingleSource
  <2>5. ASSUME NEW i \in E, NEW o \in E, SameProc(i.child, proc, id),
               o.parent = i.child, d = Edge(i.parent, o.child)
        PROVE  d = e
    <3>1. CASE e \in E /\ ~SameProc(e.parent, proc, id)
      <4>1. o = e
        BY <1>3, <2>3, <2>5, <3>1 DEF SingleSource
      <4> QED
        BY <2>5, <3>1, <4>1
    <3>2. ASSUME NEW j \in E, NEW u \in E, SameProc(j.child, proc, id),
                 u.parent = j.child, e = Edge(j.parent, u.child)
          PROVE  d = e
      <4>1. o = u
        BY <1>3, <2>3, <2>5, <3>2 DEF SingleSource
      <4>2. i = j
        BY <2>5, <3>2, <4>1 DEF SingleSource
      <4> QED
        BY <2>5, <3>2, <4>1, <4>2
    <3> QED
      BY <2>2, <3>1, <3>2
  <2> QED
    BY <2>1, <2>4, <2>5
<1>4. SingleSource(D)
  BY <1>3 DEF SingleSource
<1> HIDE DEF D
<1>5. f \in Injection(D, E)
  <2>1. f \in [D -> E]
    BY <1>2
  <2>2. ASSUME NEW d \in D, NEW e \in D, f[d] = f[e] PROVE d = e
    BY <1>2, <1>3, <2>2
  <2> HIDE DEF f
  <2> QED
    BY <2>1, <2>2 DEF Injection, IsInjective
<1>6. IsFiniteSet(D) /\ Cardinality(D) <= Cardinality(E)
  BY <1>5, FS_Injection
<1> QED
  BY <1>4, <1>6 DEF D

-----------------------------------------------------------------------------
(* What a step does to the capabilities and to the live processes.         *)

(* A space that keeps everything but its regions. *)
Keeps(cs, cs2) ==
  \A k \in CapIds : cs[k].type \notin {"Null", "Region"} => cs2[k] = cs[k]

(* What is held of such a kind is still held. *)
LEMMA KeptIsHeld ==
  ASSUME NEW cs, NEW cs2, Keeps(cs, cs2), NEW type, NEW object, NEW right,
         type \notin {"Null", "Region"}, Holds(cs, type, object, right)
  PROVE  Holds(cs2, type, object, right)
BY DEF Keeps, Holds

(* A wait that was answerable with the old space is with the new one. *)
LEMMA KeptWaits ==
  ASSUME NEW cs, NEW cs2, Keeps(cs, cs2), NEW st, NEW st2, NEW p,
         st2[p] = st[p], ~Stranded(st, cs, p)
  PROVE  ~Stranded(st2, cs2, p)
BY KeptIsHeld DEF Stranded, HoldsEndpoint, Creditable, HoldsIrq

(* A process that does not wait is not stranded. *)
LEMMA IdleNotStranded ==
  ASSUME NEW st, NEW p, st[p] \in {Free, Ready}, NEW cs
  PROVE  ~Stranded(st, cs, p)
BY DEF Stranded, Free, Ready

(* Inserting a capability and emptying those of a region both keep the     *)
(* rest.                                                                   *)
LEMMA InsertKeeps ==
  ASSUME NEW cs \in Spaces, FreeCaps(cs) # {}, NEW k
  PROVE  /\ Keeps(cs, Insert(cs, k))
         /\ \A j \in CapIds : \/ Insert(cs, k)[j] = cs[j]
                              \/ cs[j] = NullCap /\ Insert(cs, k)[j] = k
<1> DEFINE n == Min(FreeCaps(cs))
<1>1. n \in CapIds /\ cs[n] = NullCap /\ Insert(cs, k) = [cs EXCEPT ![n] = k]
  BY InsertFills
<1> HIDE DEF n
<1>2. \A j \in CapIds : Insert(cs, k)[j] = IF j = n THEN k ELSE cs[j]
  BY <1>1 DEF Spaces
<1> QED
  BY <1>1, <1>2 DEF Keeps, NullCap, Cap

LEMMA ForgetKeeps ==
  ASSUME NEW p \in Procs, NEW R
  PROVE  /\ Keeps(caps[p], ForgetCaps(p, R))
         /\ \A k \in CapIds : ForgetCaps(p, R)[k] \in {caps[p][k], NullCap}
BY DEF Keeps, ForgetCaps

(* `nothing_runnable` only ever wakes interrupt waiters. *)
LEMMA DispatchStates ==
  ASSUME NEW st \in [Procs -> States], NEW cs, NEW q, NEW res, NEW fr,
         Dispatch(st, cs, q, res, fr)
  PROVE  /\ \A p \in Procs : \/ state'[p] = st[p]
                             \/ st[p].kind = "Irq" /\ state'[p] = Ready
         /\ LiveIn(state') = LiveIn(st)
<1> DEFINE hopeless == {p \in Procs : /\ IsEmptyQueue(q)
                                      /\ st[p].kind = "Irq"
                                      /\ ~Creditable(cs[p], st[p].on)}
<1>1. state' = WakeStates(st, hopeless)
  BY DEF Dispatch
<1>2. \A p \in Procs : \/ state'[p] = st[p]
                       \/ st[p].kind = "Irq" /\ state'[p] = Ready
  BY <1>1 DEF WakeStates
<1> QED
  BY <1>2 DEF LiveIn, Free, Ready

(* The steps that move no capability and start or end no process. *)
Quiet ==
  \/ Yield
  \/ \E c \in CapIds :
       \/ Send(c) \/ Recv(c) \/ CollectIrq(c) \/ WaitIrq(c)
       \/ MapRegion(c) \/ UnmapRegion(c)
       \/ \E answered \in BOOLEAN : MapBar(c, answered)
       \/ \E d \in CapIds \cup {NoDelegate} : SpawnNoMem(c, d)
  \/ TimerIrq \/ ConsoleIrq
  \/ UNCHANGED vars

LEMMA StepCases ==
  ASSUME [Next]_vars
  PROVE  \/ Quiet
         \/ \E c \in CapIds, pages \in 1..RegionMaxPages : MakeRegion(c, pages)
         \/ \E c \in CapIds : FreeRegion(c)
         \/ \E c \in CapIds, d \in CapIds \cup {NoDelegate},
               request \in Requests : Spawn(c, d, request)
         \/ \E c \in CapIds : Revoke(c)
         \/ Running /\ Teardown
BY DEF Next, Syscall, Quiet, Exit, FaultTrap, Halted

LEMMA QuietStep ==
  ASSUME SafeState, Quiet
  PROVE  /\ caps' = caps /\ pid' = pid /\ edges' = edges /\ regions' = regions
         /\ nextRegion' = nextRegion /\ LiveIn(state') = LiveIn(state)
         /\ nextId' = nextId \/ nextId' = nextId + 1
<1>1. state \in [Procs -> States] /\ DataTypeOK
  BY DEF SafeState, InSync, SchedTypeOK
<1>2. Running => current \in Procs /\ state[current] = Ready
  BY SomebodyRuns DEF SafeState
<1>3. ASSUME NEW b \in States, b # Free, Running, BlockCurrent(b)
      PROVE  LiveIn(state') = LiveIn(state)
  <2> DEFINE st == [state EXCEPT ![current] = b]
  <2>1. st \in [Procs -> States] /\ LiveIn(st) = LiveIn(state)
    BY <1>1, <1>2, <1>3, PlainStates DEF LiveIn
  <2>2. Dispatch(st, caps, Remove(queue, current), result, free)
    BY <1>3 DEF BlockCurrent
  <2> HIDE DEF st
  <2> QED
    BY <2>1, <2>2, DispatchStates
<1>4. ASSUME NEW b \in States, NEW code, b # Free, Waiters(b) # {},
             Answer(Min(Waiters(b)), code)
      PROVE  LiveIn(state') = LiveIn(state)
  <2>1. Waiters(b) \in SUBSET Nat
    BY KernelAssumption DEF Waiters, Procs
  <2>2. Min(Waiters(b)) \in Waiters(b)
    BY <1>4, <2>1, MinMember
  <2> QED
    BY <1>1, <1>4, <2>2, PlainStates DEF Answer, Waiters, LiveIn
<1>5. ASSUME NEW c \in CapIds, Running
      PROVE  LET n == caps[current][c].object
             IN  /\ BlockedSend(n) \in States /\ BlockedSend(n) # Free
                 /\ BlockedRecv(n) \in States /\ BlockedRecv(n) # Free
                 /\ BlockedIrq(n) \in States /\ BlockedIrq(n) # Free
  <2>1. caps[current][c].object \in Nat
    BY <1>1, <1>2, <1>5 DEF DataTypeOK, Spaces, Caps
  <2> QED
    BY <2>1, BlockedStates DEF BlockedSend, BlockedRecv, BlockedIrq, Free
<1>6. ASSUME NEW line, Deliver(line)
      PROVE  LiveIn(state') = LiveIn(state)
  <2>1. state' = WakeStates(state, Credited(line))
    BY <1>6 DEF Deliver
  <2> QED
    BY <2>1, PlainStates DEF WakeStates, LiveIn, Credited, CreditHolders
<1>7. LiveIn(state') = LiveIn(state)
  <2>1. CASE Yield \/ UNCHANGED vars
    BY <2>1 DEF Yield, vars, procVars
  <2>2. ASSUME NEW c \in CapIds, Send(c) PROVE LiveIn(state') = LiveIn(state)
    BY <1>3, <1>4, <1>5, <2>2 DEF Send
  <2>3. ASSUME NEW c \in CapIds, Recv(c) PROVE LiveIn(state') = LiveIn(state)
    BY <1>3, <1>4, <1>5, <2>3 DEF Recv
  <2>4. ASSUME NEW c \in CapIds, WaitIrq(c) PROVE LiveIn(state') = LiveIn(state)
    BY <1>3, <1>5, <2>4 DEF WaitIrq
  <2>5. ASSUME NEW c \in CapIds,
               \/ CollectIrq(c) \/ MapRegion(c) \/ UnmapRegion(c)
               \/ \E answered \in BOOLEAN : MapBar(c, answered)
               \/ \E d \in CapIds \cup {NoDelegate} : SpawnNoMem(c, d)
        PROVE  LiveIn(state') = LiveIn(state)
    BY <2>5 DEF CollectIrq, MapRegion, UnmapRegion, MapBar, SpawnNoMem, procVars
  <2>6. CASE TimerIrq \/ ConsoleIrq
    BY <1>6, <2>6
       DEF TimerIrq, ConsoleIrq, PreemptTrap, DeviceTrap, IdleInterrupt
  <2> QED
    BY <2>1, <2>2, <2>3, <2>4, <2>5, <2>6 DEF Quiet
<1>8. /\ caps' = caps /\ pid' = pid /\ edges' = edges /\ regions' = regions
      /\ nextRegion' = nextRegion /\ (nextId' = nextId \/ nextId' = nextId + 1)
  <2>1. CASE Yield \/ UNCHANGED vars
    BY <2>1 DEF Yield, vars, procVars, regionVars
  <2>2. CASE TimerIrq \/ ConsoleIrq
    BY <2>2 DEF TimerIrq, ConsoleIrq, PreemptTrap, DeviceTrap, IdleInterrupt,
                Deliver, regionVars
  <2>3. ASSUME NEW c \in CapIds,
               \/ Send(c) \/ Recv(c) \/ WaitIrq(c) \/ CollectIrq(c)
               \/ MapRegion(c) \/ UnmapRegion(c)
               \/ \E answered \in BOOLEAN : MapBar(c, answered)
               \/ \E d \in CapIds \cup {NoDelegate} : SpawnNoMem(c, d)
        PROVE  /\ caps' = caps /\ pid' = pid /\ edges' = edges
               /\ regions' = regions /\ nextRegion' = nextRegion
               /\ nextId' = nextId \/ nextId' = nextId + 1
    BY <2>3 DEF Send, Recv, WaitIrq, ipcUnchanged, CollectIrq, MapRegion,
                UnmapRegion, MapBar, SpawnNoMem, procVars, regionVars
  <2> QED
    BY <2>1, <2>2, <2>3 DEF Quiet
<1> QED
  BY <1>7, <1>8

-----------------------------------------------------------------------------
(* The ledger.                                                             *)

Ends == [proc : Procs, id : Nat, cap : CapIds]

(* One edge of the ledger describes two capabilities that exist. *)
Backed(e) ==
  /\ LiveEnd(e.parent) /\ LiveEnd(e.child)
  /\ CapAt(e.child).type = CapAt(e.parent).type
  /\ CapAt(e.child).object = CapAt(e.parent).object
  /\ CapAt(e.child).rights \subseteq CapAt(e.parent).rights

(* Identities only grow, and are never those of the future. *)
IdsFresh == \A p \in Procs : pid[p] < nextId

(* Authority is handed to processes younger than the giver, into their     *)
(* first slot, and apart from it they hold nothing but regions.            *)
LedgerShape ==
  /\ edges \in SUBSET [parent : Ends, child : Ends]
  /\ IsFiniteSet(edges)
  /\ \A e \in edges : e.parent.id < e.child.id /\ e.child.cap = 0
  /\ \A e \in edges, k \in CapIds \ {0} :
       caps[e.child.proc][k].type \in {"Null", "Region"}

LedgerInv == IdsFresh /\ LedgerShape /\ LedgerBacked

(* A live end whose slot and capability are left alone stays live. *)
LEMMA EndKept ==
  ASSUME NEW end, LiveEnd(end), end.proc \in LiveIn(state'),
         pid'[end.proc] = pid[end.proc],
         caps'[end.proc][end.cap] = caps[end.proc][end.cap]
  PROVE  LiveEnd(end)' /\ CapAt(end)' = CapAt(end)
BY DEF LiveEnd, CapAt, Alive

LEMMA EdgeKept ==
  ASSUME NEW e, Backed(e),
         \A end \in {e.parent, e.child} :
           /\ end.proc \in LiveIn(state')
           /\ pid'[end.proc] = pid[end.proc]
           /\ caps'[end.proc][end.cap] = caps[end.proc][end.cap]
  PROVE  Backed(e)'
<1>1. /\ LiveEnd(e.parent)' /\ CapAt(e.parent)' = CapAt(e.parent)
      /\ LiveEnd(e.child)' /\ CapAt(e.child)' = CapAt(e.child)
  BY EndKept DEF Backed
<1> QED
  BY <1>1 DEF Backed

(* What is known of an edge. *)
LEMMA EdgeFacts ==
  ASSUME LedgerInv, NEW e \in edges
  PROVE  /\ Backed(e) /\ e \in [parent : Ends, child : Ends]
         /\ e.parent \in Ends /\ e.child \in Ends
         /\ e.parent.id < e.child.id /\ e.child.cap = 0
         /\ \A end \in {e.parent, e.child} :
              /\ end.proc \in Procs /\ end.cap \in CapIds /\ end.id \in Nat
              /\ end.proc \in LiveIn(state) /\ pid[end.proc] = end.id
              /\ caps[end.proc][end.cap] # NullCap
BY DEF LedgerInv, LedgerShape, LedgerBacked, Backed, LiveEnd, Alive, CapAt, Ends

LEMMA LedgerQuiet ==
  ASSUME SafeState, LedgerInv, Quiet
  PROVE  LedgerInv'
<1>1. /\ caps' = caps /\ pid' = pid /\ edges' = edges
      /\ LiveIn(state') = LiveIn(state)
      /\ nextId' = nextId \/ nextId' = nextId + 1
  BY QuietStep
<1>2. pid \in [Procs -> Nat] /\ nextId \in Nat
  BY DEF SafeState, DataTypeOK
<1>3. IdsFresh'
  BY <1>1, <1>2 DEF LedgerInv, IdsFresh
<1>4. LedgerShape'
  BY <1>1 DEF LedgerInv, LedgerShape
<1>5. LedgerBacked'
  BY <1>1 DEF LedgerInv, LedgerBacked, LiveEnd, CapAt, Alive
<1> QED
  BY <1>3, <1>4, <1>5 DEF LedgerInv

LEMMA LedgerMakeRegion ==
  ASSUME SafeState, LedgerInv, NEW c \in CapIds, NEW pages, MakeRegion(c, pages)
  PROVE  LedgerInv'
<1> DEFINE new == Cap("Region", caps[current][c].rights, nextRegion)
<1>1. /\ Running /\ FreeCaps(caps[current]) # {}
      /\ caps' = [caps EXCEPT ![current] = Insert(caps[current], new)]
      /\ pid' = pid /\ nextId' = nextId /\ edges' = edges /\ state' = state
  BY DEF MakeRegion
<1>2. current \in Procs /\ caps \in [Procs -> Spaces]
  BY <1>1, SomebodyRuns DEF SafeState, DataTypeOK
<1>3. new.type = "Region"
  BY DEF Cap
<1> HIDE DEF new
<1>4. \A p \in Procs, k \in CapIds : \/ caps'[p][k] = caps[p][k]
                                     \/ caps[p][k] = NullCap /\ caps'[p][k] = new
  BY <1>1, <1>2, InsertKeeps
<1>5. ASSUME NEW e \in edges PROVE Backed(e)'
  BY <1>1, <1>4, EdgeFacts, EdgeKept
<1>6. ASSUME NEW e \in edges, NEW k \in CapIds \ {0}
      PROVE  caps'[e.child.proc][k].type \in {"Null", "Region"}
  <2>1. /\ e.child.proc \in Procs
        /\ caps[e.child.proc][k].type \in {"Null", "Region"}
    BY EdgeFacts DEF LedgerInv, LedgerShape
  <2> QED
    BY <1>3, <1>4, <2>1
<1>7. LedgerShape'
  BY <1>1, <1>6 DEF LedgerInv, LedgerShape
<1>8. LedgerBacked'
  BY <1>1, <1>5 DEF LedgerInv, LedgerBacked, Backed
<1> QED
  BY <1>1, <1>7, <1>8 DEF LedgerInv, IdsFresh

(* Emptying the capabilities of some regions, with their edges, leaves     *)
(* edges between capabilities that were not touched.                       *)
LEMMA ForgottenApart ==
  ASSUME LedgerInv, NEW R, NEW e \in ForgetEdges(R)
  PROVE  /\ e \in edges
         /\ \A end \in {e.parent, e.child} :
              ForgetCaps(end.proc, R)[end.cap] = caps[end.proc][end.cap]
<1>1. e \in edges /\ e.parent \notin RegionCapEnds(R) /\ e.child \notin RegionCapEnds(R)
  BY DEF ForgetEdges
<1>2. ASSUME NEW end \in {e.parent, e.child}
      PROVE  ForgetCaps(end.proc, R)[end.cap] = caps[end.proc][end.cap]
  <2>1. /\ end \in Ends /\ end.proc \in LiveIn(state) /\ end.cap \in CapIds
        /\ pid[end.proc] = end.id
    BY <1>1, EdgeFacts
  <2>2. end = EndAt(end.proc, end.cap)
    BY <2>1 DEF Ends, EndAt, End
  <2>3. ~(/\ caps[end.proc][end.cap].type = "Region"
          /\ caps[end.proc][end.cap].object \in R)
    <3> DEFINE x == <<end.proc, end.cap>>
    <3>1. x \in LiveIn(state) \X CapIds /\ x[1] = end.proc /\ x[2] = end.cap
      BY <2>1
    <3> QED
      BY <1>1, <2>2, <3>1 DEF RegionCapEnds
  <2> QED
    BY <2>1, <2>3 DEF ForgetCaps
<1> QED
  BY <1>1, <1>2

LEMMA LedgerFreeRegion ==
  ASSUME SafeState, LedgerInv, NEW c \in CapIds, FreeRegion(c)
  PROVE  LedgerInv'
<1> DEFINE R == {caps[current][c].object}
<1>1. /\ edges' = ForgetEdges(R)
      /\ caps' = [p \in Procs |-> IF p \in LiveIn(state)
                                  THEN ForgetCaps(p, R) ELSE caps[p]]
      /\ pid' = pid /\ nextId' = nextId /\ state' = state
  BY DEF FreeRegion
<1> HIDE DEF R
<1>2. edges' \in SUBSET edges
  BY <1>1 DEF ForgetEdges
<1>3. IsFiniteSet(edges') /\ Cardinality(edges') <= MaxDelegations
  BY <1>2, FS_Subset, FS_CardinalityType, KernelAssumption
     DEF LedgerInv, LedgerShape, LedgerBacked
<1>4. ASSUME NEW e \in edges' PROVE Backed(e)'
  <2>1. e \in edges
    BY <1>2
  <2> QED
    BY <1>1, <2>1, EdgeFacts, EdgeKept, ForgottenApart
<1>5. ASSUME NEW e \in edges', NEW k \in CapIds \ {0}
      PROVE  caps'[e.child.proc][k].type \in {"Null", "Region"}
  <2>1. /\ e.child.proc \in Procs
        /\ caps[e.child.proc][k].type \in {"Null", "Region"}
    BY <1>2, EdgeFacts DEF LedgerInv, LedgerShape
  <2> QED
    BY <1>1, <2>1, ForgetKeeps DEF NullCap, Cap
<1>6. LedgerShape'
  BY <1>2, <1>3, <1>5 DEF LedgerInv, LedgerShape
<1>7. SingleSource(edges')
  BY <1>2 DEF LedgerInv, LedgerBacked, SingleSource
<1>8. LedgerBacked'
  BY <1>3, <1>4, <1>7 DEF LedgerBacked, Backed
<1> QED
  BY <1>1, <1>6, <1>8 DEF LedgerInv, IdsFresh

(* What SPAWN does, with the child's slot named. *)
LEMMA SpawnStep ==
  ASSUME SafeState, NEW c \in CapIds, NEW d \in CapIds \cup {NoDelegate},
         NEW request \in Requests, Spawn(c, d, request)
  PROVE  /\ Running /\ current \in Procs /\ state[current] = Ready
         /\ ChildSlot \in Procs /\ state[ChildSlot] = Free /\ current # ChildSlot
         /\ pid' = [pid EXCEPT ![ChildSlot] = nextId] /\ nextId' = nextId + 1
         /\ state' = [state EXCEPT ![ChildSlot] = Ready]
         /\ LiveIn(state') = LiveIn(state) \cup {ChildSlot}
         /\ caps' = [caps EXCEPT ![ChildSlot] = ChildSpace(d, request)]
         /\ d = NoDelegate => edges' = edges
         /\ d # NoDelegate => /\ edges' = edges \cup {Edge(EndAt(current, d),
                                            End(ChildSlot, nextId, 0))}
                              /\ caps[current][d] # NullCap
                              /\ ~(Cardinality(edges) >= MaxDelegations)
         /\ regions' = regions /\ nextRegion' = nextRegion
<1>1. /\ Running /\ SpawnAnswer(c, d) = "OK"
      /\ pid' = [pid EXCEPT ![ChildSlot] = nextId] /\ nextId' = nextId + 1
      /\ state' = [state EXCEPT ![ChildSlot] = Ready]
      /\ caps' = [caps EXCEPT ![ChildSlot] = ChildSpace(d, request)]
      /\ edges' = IF d = NoDelegate THEN edges
                  ELSE edges \cup {Edge(EndAt(current, d),
                                     End(ChildSlot, nextId, Min(FreeCaps(EmptySpace))))}
      /\ regions' = regions /\ nextRegion' = nextRegion
  BY DEF Spawn, ChildSlot, regionVars
<1>2. current \in Procs /\ state[current] = Ready
  BY <1>1, SomebodyRuns DEF SafeState
<1>3. /\ ChildSlot \in Procs /\ state[ChildSlot] = Free
      /\ d # NoDelegate => /\ caps[current][d] # NullCap
                           /\ ~(Cardinality(edges) >= MaxDelegations)
  BY <1>1, SpawnFresh
<1>4. current # ChildSlot
  BY <1>2, <1>3, PlainStates
<1>5. Min(FreeCaps(EmptySpace)) = 0
  BY EmptySpaceFacts
<1>6. LiveIn(state') = LiveIn(state) \cup {ChildSlot}
  BY <1>1, <1>3, PlainStates DEF LiveIn, SafeState, InSync, SchedTypeOK
<1> QED
  BY <1>1, <1>2, <1>3, <1>4, <1>5, <1>6

LEMMA LedgerSpawn ==
  ASSUME SafeState, LedgerInv, NEW c \in CapIds,
         NEW d \in CapIds \cup {NoDelegate},
         NEW request \in Requests, Spawn(c, d, request)
  PROVE  LedgerInv'
<1> DEFINE p == ChildSlot
           new == Edge(EndAt(current, d), End(p, nextId, 0))
<1>1. /\ current \in Procs /\ state[current] = Ready
      /\ p \in Procs /\ state[p] = Free /\ current # p
      /\ pid' = [pid EXCEPT ![p] = nextId] /\ nextId' = nextId + 1
      /\ LiveIn(state') = LiveIn(state) \cup {p}
      /\ caps' = [caps EXCEPT ![p] = ChildSpace(d, request)]
      /\ d = NoDelegate => edges' = edges
      /\ d # NoDelegate => /\ edges' = edges \cup {new}
                           /\ caps[current][d] # NullCap
                           /\ ~(Cardinality(edges) >= MaxDelegations)
  BY SpawnStep
<1>2. /\ pid \in [Procs -> Nat] /\ nextId \in Nat /\ caps \in [Procs -> Spaces]
      /\ DataTypeOK
  BY DEF SafeState, DataTypeOK
<1>3. /\ \A k \in CapIds \ {0} : ChildSpace(d, request)[k] = NullCap
      /\ d # NoDelegate => ChildSpace(d, request)[0] =
           Cap(caps[current][d].type, caps[current][d].rights \cap request,
               caps[current][d].object)
  BY <1>1, <1>2, ChildSpaceFacts
<1>4. 0 \in CapIds /\ current \in LiveIn(state)
  BY <1>1, EmptySpaceFacts, PlainStates DEF LiveIn
<1> HIDE DEF p
<1>5. IdsFresh'
  <2>1. \A q \in Procs : pid'[q] = IF q = p THEN nextId ELSE pid[q]
    BY <1>1, <1>2
  <2>2. \A q \in Procs : pid[q] \in Nat /\ pid[q] < nextId
    BY <1>2 DEF LedgerInv, IdsFresh
  <2> QED
    BY <1>1, <1>2, <2>1, <2>2 DEF IdsFresh
<1>6. ASSUME NEW e \in edges
      PROVE  /\ Backed(e)'
             /\ \A k \in CapIds \ {0} :
                  caps'[e.child.proc][k].type \in {"Null", "Region"}
             /\ e.child.id < nextId
  <2>1. ASSUME NEW end \in {e.parent, e.child}
        PROVE  /\ end.proc \in Procs /\ end.proc # p
               /\ end.proc \in LiveIn(state') /\ pid'[end.proc] = pid[end.proc]
               /\ caps'[end.proc] = caps[end.proc]
    BY <1>1, <1>2, EdgeFacts DEF LiveIn
  <2>2. \A end \in {e.parent, e.child} :
          caps'[end.proc][end.cap] = caps[end.proc][end.cap]
    BY <2>1
  <2>3. Backed(e)'
    BY <2>1, <2>2, EdgeFacts, EdgeKept
  <2>4. e.child.id < nextId
    BY EdgeFacts DEF LedgerInv, IdsFresh
  <2> QED
    BY <2>1, <2>3, <2>4 DEF LedgerInv, LedgerShape
<1>7. CASE d = NoDelegate
  <2>1. LedgerShape' /\ LedgerBacked'
    BY <1>1, <1>6, <1>7 DEF LedgerInv, LedgerShape, LedgerBacked, Backed
  <2> QED
    BY <1>5, <2>1 DEF LedgerInv
<1>8. CASE d # NoDelegate
  <2> HIDE DEF new
  <2>0. PICK n : n = new
    OBVIOUS
  <2>1. d \in CapIds /\ edges' = edges \cup {n}
    BY <1>1, <1>8, <2>0
  <2>2. /\ n.parent = [proc |-> current, id |-> pid[current], cap |-> d]
        /\ n.child = [proc |-> p, id |-> nextId, cap |-> 0]
        /\ n = [parent |-> n.parent, child |-> n.child]
    BY <2>0 DEF Edge, EndAt, End, new
  <2>3. n.parent \in Ends /\ n.child \in Ends
    BY <1>1, <1>2, <1>4, <2>1, <2>2 DEF Ends
  <2>4. n \in [parent : Ends, child : Ends]
    BY <2>2, <2>3
  <2>5. n.parent.id < n.child.id /\ n.child.cap = 0
    BY <1>1, <2>2 DEF LedgerInv, IdsFresh
  <2>6. Backed(n)'
    <3>1. /\ pid'[current] = pid[current] /\ caps'[current] = caps[current]
          /\ pid'[p] = nextId /\ caps'[p] = ChildSpace(d, request)
      BY <1>1, <1>2
    <3>2. caps[current][d] \in Caps /\ caps[current][d] # NullCap
      BY <1>1, <1>2, <1>8, <2>1 DEF Spaces
    <3>3. /\ caps'[p][0].type = caps[current][d].type
          /\ caps'[p][0].object = caps[current][d].object
          /\ caps'[p][0].rights \subseteq caps[current][d].rights
      BY <1>3, <1>8, <3>1 DEF Cap
    <3>4. caps'[p][0] # NullCap
      <4>1. caps[current][d].type # "Null"
        BY <3>2 DEF Caps
      <4> QED
        BY <3>3, <4>1 DEF NullCap, Cap
    <3>5. CapAt(n.parent)' = caps[current][d] /\ CapAt(n.child)' = caps'[p][0]
      BY <2>2, <3>1 DEF CapAt
    <3>6. LiveEnd(n.parent)' /\ LiveEnd(n.child)'
      BY <1>1, <1>4, <2>2, <3>1, <3>2, <3>4, <3>5 DEF LiveEnd, Alive
    <3> QED
      BY <3>3, <3>5, <3>6 DEF Backed
  <2>7. \A k \in CapIds \ {0} : caps'[n.child.proc][k].type \in {"Null", "Region"}
    BY <1>1, <1>2, <1>3, <2>2 DEF NullCap, Cap
  <2>8. IsFiniteSet(edges') /\ Cardinality(edges') <= MaxDelegations
    <3>1. IsFiniteSet(edges) /\ Cardinality(edges) \in Nat
      BY FS_CardinalityType DEF LedgerInv, LedgerShape
    <3>2. /\ IsFiniteSet(edges')
          /\ Cardinality(edges') = Cardinality(edges)
               \/ Cardinality(edges') = Cardinality(edges) + 1
      BY <2>1, <3>1, FS_AddElement
    <3> QED
      BY <1>1, <1>8, <3>1, <3>2, KernelAssumption
  <2>9. SingleSource(edges')
    <3>1. \A e \in edges : e.child # n.child
      BY <1>2, <1>6, <2>2
    <3> QED
      BY <2>1, <3>1 DEF LedgerInv, LedgerBacked, SingleSource
  <2>10. LedgerShape'
    BY <1>6, <2>1, <2>4, <2>5, <2>7, <2>8 DEF LedgerInv, LedgerShape
  <2>11. LedgerBacked'
    BY <1>6, <2>1, <2>6, <2>8, <2>9 DEF LedgerBacked, Backed
  <2> QED
    BY <1>5, <2>10, <2>11 DEF LedgerInv
<1> QED
  BY <1>7, <1>8

(* Everything derived from one of the caller's capabilities belongs to a   *)
(* younger process and is no more than the caller holds.                   *)
LEMMA DerivedIsLess ==
  ASSUME SafeState, LedgerInv, NEW c \in CapIds, Running,
         NEW k \in Reach(edges, EndAt(current, c))
  PROVE  /\ k \in Ends /\ LiveEnd(k) /\ k.cap = 0 /\ pid[current] < k.id
         /\ k.proc # current
         /\ CapAt(k).type = caps[current][c].type
         /\ CapAt(k).object = caps[current][c].object
         /\ CapAt(k).rights \subseteq caps[current][c].rights
<1> DEFINE root == EndAt(current, c)
           S == {x \in Ends : /\ LiveEnd(x) /\ x.cap = 0 /\ pid[current] < x.id
                              /\ CapAt(x).type = caps[current][c].type
                              /\ CapAt(x).object = caps[current][c].object
                              /\ CapAt(x).rights \subseteq caps[current][c].rights}
<1>1. root.id = pid[current] /\ CapAt(root) = caps[current][c]
  BY DEF EndAt, End, CapAt
<1>2. pid[current] \in Nat
  BY SomebodyRuns DEF SafeState, DataTypeOK
<1>3. ASSUME NEW e \in edges, e.parent = root \/ e.parent \in S
      PROVE  e.child \in S
  <2>1. /\ Backed(e) /\ e.child \in Ends /\ e.parent.id < e.child.id
        /\ e.child.cap = 0 /\ e.parent.id \in Nat /\ e.child.id \in Nat
    BY EdgeFacts
  <2>2. pid[current] <= e.parent.id
    BY <1>1, <1>2, <1>3, <2>1
  <2>3. /\ CapAt(e.parent).type = caps[current][c].type
        /\ CapAt(e.parent).object = caps[current][c].object
        /\ CapAt(e.parent).rights \subseteq caps[current][c].rights
    BY <1>1, <1>3
  <2>4. pid[current] < e.child.id
    BY <1>2, <2>1, <2>2
  <2> QED
    BY <2>1, <2>3, <2>4 DEF Backed
<1>4. ClosedFrom(edges, root, S)
  BY <1>3 DEF ClosedFrom
<1> HIDE DEF S, root
<1>5. k \in S
  BY <1>4, ReachWithin DEF root
<1>6. k.proc # current
  BY <1>2, <1>5 DEF S, LiveEnd
<1> QED
  BY <1>5, <1>6 DEF S

(* REVOKE takes exactly the derived capabilities: they are all live. *)
LEMMA GoneIsReach ==
  ASSUME SafeState, LedgerInv, NEW c \in CapIds, Running
  PROVE  Gone(c) = Reach(edges, EndAt(current, c))
BY DerivedIsLess DEF Gone, Revoked, LiveEnd, Alive

LEMMA LeftSpaces ==
  ASSUME NEW c, NEW p \in Procs, NEW k \in CapIds
  PROVE  /\ Left(c)[p][k] \in {caps[p][k], NullCap}
         /\ EndAt(p, k) \notin Gone(c) => Left(c)[p][k] = caps[p][k]
         /\ p \notin Hit(c) => Left(c)[p][k] = caps[p][k]
<1>1. EndAt(p, k) \in Gone(c) => p \in Hit(c)
  BY DEF Hit, EndAt, End
<1>2. Left(c)[p][k] = IF EndAt(p, k) \in Gone(c) THEN NullCap ELSE caps[p][k]
  BY DEF Left
<1> QED
  BY <1>1, <1>2

LEMMA RevokeLive ==
  ASSUME SafeState, NEW c, Revoke(c)
  PROVE  LiveIn(state') = LiveIn(state)
<1>1. state' = WakeStates(state, Woken(c))
  BY RevokeStep
<1>2. \A p \in Woken(c) : p \in Procs /\ state[p] # Free
  BY HitAreProcs DEF Woken
<1> QED
  BY <1>1, <1>2, PlainStates DEF WakeStates, LiveIn

LEMMA LedgerRevoke ==
  ASSUME SafeState, LedgerInv, NEW c \in CapIds, Revoke(c)
  PROVE  LedgerInv'
<1> DEFINE root == EndAt(current, c)
<1>1. /\ Running /\ edges' = RevokeFrom(edges, root) /\ caps' = Left(c)
      /\ pid' = pid /\ nextId' = nextId /\ LiveIn(state') = LiveIn(state)
  BY RevokeStep, RevokeLive
<1> HIDE DEF root
<1>2. SingleSource(edges) /\ Gone(c) = Reach(edges, root)
  BY <1>1, GoneIsReach DEF LedgerInv, LedgerBacked, root
<1>3. ASSUME NEW e \in edges'
      PROVE  e \in edges /\ Backed(e)'
  <2>1. /\ e \in edges /\ e.parent \notin Gone(c) /\ e.child \notin Gone(c)
    BY <1>1, <1>2, SurvivorsUntouched
  <2>2. ASSUME NEW end \in {e.parent, e.child}
        PROVE  /\ end.proc \in LiveIn(state') /\ pid'[end.proc] = pid[end.proc]
               /\ caps'[end.proc][end.cap] = caps[end.proc][end.cap]
    <3>1. /\ end \in Ends /\ end.proc \in LiveIn(state) /\ end.proc \in Procs
          /\ end.cap \in CapIds /\ pid[end.proc] = end.id
      BY <2>1, EdgeFacts
    <3>2. end = EndAt(end.proc, end.cap)
      BY <3>1 DEF Ends, EndAt, End
    <3> QED
      BY <1>1, <2>1, <3>1, <3>2, LeftSpaces
  <2> QED
    BY <2>1, <2>2, EdgeFacts, EdgeKept
<1>4. edges' \in SUBSET edges
  BY <1>3
<1>5. IsFiniteSet(edges') /\ Cardinality(edges') <= MaxDelegations
  BY <1>4, FS_Subset, FS_CardinalityType, KernelAssumption
     DEF LedgerInv, LedgerShape, LedgerBacked
<1>6. ASSUME NEW e \in edges', NEW k \in CapIds \ {0}
      PROVE  caps'[e.child.proc][k].type \in {"Null", "Region"}
  <2>1. /\ e.child.proc \in Procs
        /\ caps[e.child.proc][k].type \in {"Null", "Region"}
    BY <1>4, EdgeFacts DEF LedgerInv, LedgerShape
  <2> QED
    BY <1>1, <2>1, LeftSpaces DEF NullCap, Cap
<1>7. LedgerShape'
  BY <1>4, <1>5, <1>6 DEF LedgerInv, LedgerShape
<1>8. SingleSource(edges')
  BY <1>2, <1>4 DEF SingleSource
<1>9. LedgerBacked'
  BY <1>3, <1>5, <1>8 DEF LedgerBacked, Backed
<1> QED
  BY <1>1, <1>7, <1>9 DEF LedgerInv, IdsFresh

(* A death ends one process and changes no other one's identity. *)
LEMMA TeardownLive ==
  ASSUME SafeState, Running, Teardown
  PROVE  LiveIn(state') = LiveIn(state) \ {current}
<1>1. Dispatch(WakeStates(Survivors, Bereaved), Spared,
               EnqueueSet(Remove(queue, current), Bereaved),
               WakeResults(result, Bereaved, "NO_CAP"), free')
      /\ Bereaved \in SUBSET Procs
  BY TeardownStep
<1>2. current \in Procs /\ state \in [Procs -> States]
  BY SomebodyRuns DEF SafeState, InSync, SchedTypeOK
<1>3. /\ Survivors \in [Procs -> States]
      /\ LiveIn(Survivors) = LiveIn(state) \ {current}
  BY <1>2, PlainStates DEF Survivors, LiveIn
<1>4. \A p \in Bereaved : Survivors[p] # Free
  BY DEF Bereaved, Orphaned, Free
<1>5. /\ WakeStates(Survivors, Bereaved) \in [Procs -> States]
      /\ LiveIn(WakeStates(Survivors, Bereaved)) = LiveIn(Survivors)
  BY <1>1, <1>3, <1>4, WakeMakesReady, PlainStates DEF LiveIn
<1> QED
  BY <1>1, <1>3, <1>5, DispatchStates

LEMMA LedgerTeardown ==
  ASSUME SafeState, LedgerInv, Running, Teardown
  PROVE  LedgerInv'
<1> DEFINE E == ForgetEdges(Own)
           D == SpliceOut(E, current, pid[current])
<1>1. /\ edges' = D /\ caps' = Spared /\ pid' = pid /\ nextId' = nextId
      /\ LiveIn(state') = LiveIn(state) \ {current}
  BY TeardownStep, TeardownLive
<1>2. E \in SUBSET edges
  BY DEF ForgetEdges
<1>3. IsFiniteSet(E) /\ Cardinality(E) <= MaxDelegations /\ SingleSource(E)
      /\ Cardinality(E) \in Nat
  BY <1>2, FS_Subset, FS_CardinalityType, KernelAssumption
     DEF LedgerInv, LedgerShape, LedgerBacked, SingleSource
<1>4. /\ IsFiniteSet(edges') /\ Cardinality(edges') <= Cardinality(E)
      /\ SingleSource(edges') /\ Cardinality(edges') \in Nat
  BY <1>1, <1>3, SpliceShrinks, FS_CardinalityType
<1>5. ASSUME NEW e \in E
      PROVE  /\ \A end \in {e.parent, e.child} :
                  SameProc(end, current, pid[current]) <=> end.proc = current
             /\ \A end \in {e.parent, e.child} : end.proc # current =>
                  /\ end.proc \in LiveIn(state') /\ pid'[end.proc] = pid[end.proc]
                  /\ caps'[end.proc][end.cap] = caps[end.proc][end.cap]
  <2>1. \A end \in {e.parent, e.child} :
          /\ end.proc \in Procs /\ end.proc \in LiveIn(state)
          /\ pid[end.proc] = end.id
          /\ ForgetCaps(end.proc, Own)[end.cap] = caps[end.proc][end.cap]
    BY <1>2, EdgeFacts, ForgottenApart
  <2>2. \A end \in {e.parent, e.child} : caps'[end.proc] = ForgetCaps(end.proc, Own)
    BY <1>1, <2>1 DEF Spared
  <2> QED
    BY <1>1, <2>1, <2>2 DEF SameProc
<1>6. ASSUME NEW e \in D
      PROVE  /\ Backed(e)' /\ e \in [parent : Ends, child : Ends]
             /\ e.parent.id < e.child.id /\ e.child.cap = 0
             /\ \E o \in edges : o.child = e.child
  <2>1. CASE /\ e \in E /\ ~SameProc(e.parent, current, pid[current])
             /\ ~SameProc(e.child, current, pid[current])
    <3>1. e \in edges
      BY <1>2, <2>1
    <3>2. Backed(e)'
      BY <1>5, <2>1, <3>1, EdgeFacts, EdgeKept
    <3> QED
      BY <3>1, <3>2, EdgeFacts
  <2>2. ASSUME NEW i \in E, NEW o \in E,
               SameProc(i.child, current, pid[current]),
               ~SameProc(i.parent, current, pid[current]),
               o.parent = i.child, ~SameProc(o.child, current, pid[current]),
               e = Edge(i.parent, o.child)
        PROVE  /\ Backed(e)' /\ e \in [parent : Ends, child : Ends]
               /\ e.parent.id < e.child.id /\ e.child.cap = 0
               /\ \E x \in edges : x.child = e.child
    <3>1. i \in edges /\ o \in edges
      BY <1>2
    <3>2. e.parent = i.parent /\ e.child = o.child
      BY <2>2 DEF Edge
    <3>3. /\ Backed(i) /\ Backed(o) /\ i.parent \in Ends /\ o.child \in Ends
          /\ i.parent.id < i.child.id /\ o.parent.id < o.child.id
          /\ o.child.cap = 0 /\ i.parent.id \in Nat /\ i.child.id \in Nat
          /\ o.child.id \in Nat
      BY <3>1, EdgeFacts
    <3>4. /\ LiveEnd(i.parent)' /\ CapAt(i.parent)' = CapAt(i.parent)
          /\ LiveEnd(o.child)' /\ CapAt(o.child)' = CapAt(o.child)
      BY <1>5, <2>2, <3>3, EndKept DEF Backed
    <3>5. /\ CapAt(o.child).type = CapAt(i.parent).type
          /\ CapAt(o.child).object = CapAt(i.parent).object
          /\ CapAt(o.child).rights \subseteq CapAt(i.parent).rights
      BY <2>2, <3>3 DEF Backed
    <3>6. Backed(e)'
      BY <3>2, <3>4, <3>5 DEF Backed
    <3>7. e.parent.id < e.child.id
      BY <2>2, <3>2, <3>3
    <3> QED
      BY <2>2, <3>1, <3>2, <3>3, <3>6, <3>7 DEF Edge
  <2> QED
    BY <2>1, <2>2, SpliceEdges
<1>7. ASSUME NEW e \in D, NEW k \in CapIds \ {0}
      PROVE  caps'[e.child.proc][k].type \in {"Null", "Region"}
  <2>1. PICK o \in edges : o.child = e.child
    BY <1>6
  <2>2. /\ e.child.proc \in Procs
        /\ caps[e.child.proc][k].type \in {"Null", "Region"}
    BY <2>1, EdgeFacts DEF LedgerInv, LedgerShape
  <2> QED
    BY <1>1, <2>2, ForgetKeeps DEF Spared, NullCap, Cap
<1> HIDE DEF D, E
<1>8. LedgerShape'
  BY <1>1, <1>4, <1>6, <1>7 DEF LedgerShape
<1>9. Cardinality(edges') <= MaxDelegations
  BY <1>3, <1>4, KernelAssumption
<1>10. LedgerBacked'
  BY <1>1, <1>4, <1>6, <1>9 DEF LedgerBacked, Backed
<1> QED
  BY <1>1, <1>8, <1>10 DEF LedgerInv, IdsFresh

LEMMA LedgerInit == Init => LedgerInv
<1> SUFFICES ASSUME Init PROVE LedgerInv
  OBVIOUS
<1>1. edges = {} /\ nextId = NumProcs /\ NumProcs \in Nat /\ MaxDelegations \in Nat
      /\ NumProcs > 0
  BY KernelAssumption DEF Init
<1>2. IdsFresh
  BY <1>1, KernelAssumption DEF Init, IdsFresh, BootProcs
<1>3. IsFiniteSet({}) /\ Cardinality({}) = 0
  BY FS_EmptySet
<1> QED
  BY <1>1, <1>2, <1>3 DEF LedgerInv, LedgerShape, LedgerBacked, SingleSource

LEMMA LedgerStep ==
  ASSUME SafeState, LedgerInv, [Next]_vars
  PROVE  LedgerInv'
BY StepCases, LedgerQuiet, LedgerMakeRegion, LedgerFreeRegion, LedgerSpawn,
   LedgerRevoke, LedgerTeardown

(* The ledger's invariant holds in every reachable state. *)
LEMMA LedgerSafe == Spec => []LedgerInv
<1>1. SafeState /\ LedgerInv /\ [Next]_vars => LedgerInv'
  BY LedgerStep
<1> QED
  BY <1>1, LedgerInit, KernelSafe, PTL DEF Spec

(* For every capacity of the ledger and every history of delegations,      *)
(* revocations, deaths and recycled slots: an edge joins two capabilities  *)
(* that exist, the child's no more than the parent's, and no capability    *)
(* has two sources, so `splice_out` and `revoke_from` may rely on it.      *)
THEOREM LedgerAlwaysBacked == Spec => []LedgerBacked
<1>1. LedgerInv => LedgerBacked
  BY DEF LedgerInv
<1> QED
  BY <1>1, LedgerSafe, PTL

-----------------------------------------------------------------------------
(* Waiting.                                                                *)

(* Nobody waits for what it could not use, ... *)
NobodyStranded == \A p \in Procs : ~Stranded(state, caps[p], p)

(* ... nobody has credits of a line it does not hold, ... *)
CreditsHeld ==
  \A p \in Procs : state[p] # Free =>
    \A l \in Lines : irqPending[p][l] > 0 => HoldsIrq(caps[p], l)

(* ... and the CPU is parked only for somebody. *)
ParkedFor ==
  idling => /\ IsEmptyQueue(queue)
            /\ \E p \in Procs : /\ state[p].kind = "Irq"
                                /\ Creditable(caps[p], state[p].on)

WaitInv == NobodyStranded /\ CreditsHeld /\ ParkedFor

LEMMA WaitInvIs == WaitInv => WaitAuthorized /\ ParkIsHopeful
BY DEF WaitInv, NobodyStranded, CreditsHeld, ParkedFor, WaitAuthorized,
       ParkIsHopeful, Stranded, Alive, LiveIn

(* The tail of a handler strands nobody, and parks for somebody. *)
LEMMA DispatchWaits ==
  ASSUME NEW st \in [Procs -> States], NEW cs, NEW q, NEW res, NEW fr,
         Dispatch(st, cs, q, res, fr), Running, caps' = cs,
         \A p \in Procs : ~Stranded(st, cs[p], p)
  PROVE  NobodyStranded' /\ ParkedFor'
<1> DEFINE hopeless == {p \in Procs : /\ IsEmptyQueue(q)
                                      /\ st[p].kind = "Irq"
                                      /\ ~Creditable(cs[p], st[p].on)}
           st2 == WakeStates(st, hopeless)
           q2 == EnqueueSet(q, hopeless)
<1>1. /\ state' = st2 /\ queue' = q2
      /\ ~IsEmptyQueue(q2) => idling' = idling
      /\ IsEmptyQueue(q2) => idling' = (Classify(st2, cs) = "Park")
  BY DEF Dispatch
<1>2. ASSUME NEW p \in Procs PROVE ~Stranded(state', cs[p], p)
  <2>1. state'[p] = st[p] \/ state'[p] = Ready
    BY <1>1 DEF WakeStates
  <2>2. CASE state'[p] = st[p]
    BY <2>2 DEF Stranded
  <2>3. CASE state'[p] = Ready
    BY <2>3, IdleNotStranded
  <2> QED
    BY <2>1, <2>2, <2>3
<1>3. idling' => IsEmptyQueue(q2) /\ Classify(st2, cs) = "Park"
  BY <1>1 DEF Running
<1>4. Classify(st2, cs) = "Park" =>
        \E p \in Procs : st2[p].kind = "Irq" /\ Creditable(cs[p], st2[p].on)
  BY DEF Classify
<1> HIDE DEF st2, q2
<1> QED
  BY <1>1, <1>2, <1>3, <1>4 DEF NobodyStranded, ParkedFor

(* The running process blocks on a capability it presents. *)
LEMMA BlockWaits ==
  ASSUME SafeState, WaitInv, Running, NEW b \in States, caps' = caps,
         irqPending' = irqPending, BlockCurrent(b), b # Free,
         ~Stranded([state EXCEPT ![current] = b], caps[current], current)
  PROVE  WaitInv'
<1> DEFINE st == [state EXCEPT ![current] = b]
<1>1. current \in Procs /\ state \in [Procs -> States] /\ state[current] = Ready
  BY SomebodyRuns DEF SafeState, InSync, SchedTypeOK
<1>2. /\ st \in [Procs -> States] /\ st[current] = b
      /\ \A p \in Procs \ {current} : st[p] = state[p]
  BY <1>1
<1>3. Dispatch(st, caps, Remove(queue, current), result, free)
  BY DEF BlockCurrent
<1>4. ~Stranded(st, caps[current], current)
  OBVIOUS
<1> HIDE DEF st
<1>5. ASSUME NEW p \in Procs PROVE ~Stranded(st, caps[p], p)
  BY <1>2, <1>4 DEF WaitInv, NobodyStranded, Stranded
<1>6. NobodyStranded' /\ ParkedFor'
  BY <1>2, <1>3, <1>5, DispatchWaits
<1>7. CreditsHeld'
  <2>1. \A p \in Procs : state'[p] # Free => st[p] # Free
    BY <1>2, <1>3, DispatchStates DEF Free
  <2>2. \A p \in Procs : st[p] # Free => state[p] # Free
    BY <1>1, <1>2, PlainStates
  <2> QED
    BY <2>1, <2>2 DEF WaitInv, CreditsHeld
<1> QED
  BY <1>6, <1>7 DEF WaitInv

(* A step that changes no one's wait except by waking, adds no credit and  *)
(* takes nobody's capabilities except regions.                             *)
LEMMA WakingWaits ==
  ASSUME WaitInv, ~idling',
         \A p \in Procs :
           \/ state'[p] \in {Free, Ready}
           \/ state'[p] = state[p] /\ Keeps(caps[p], caps'[p]),
         \A p \in Procs, l \in Lines :
           state'[p] # Free /\ irqPending'[p][l] > 0 =>
             /\ state[p] # Free /\ irqPending[p][l] > 0
             /\ Keeps(caps[p], caps'[p])
  PROVE  WaitInv'
<1>1. NobodyStranded'
  <2> SUFFICES ASSUME NEW p \in Procs PROVE ~Stranded(state', caps'[p], p)
    BY DEF NobodyStranded
  <2>1. CASE state'[p] \in {Free, Ready}
    BY <2>1, IdleNotStranded
  <2>2. CASE state'[p] = state[p] /\ Keeps(caps[p], caps'[p])
    <3>1. ~Stranded(state, caps[p], p)
      BY DEF WaitInv, NobodyStranded
    <3> QED
      BY <2>2, <3>1, KeptWaits
  <2> QED
    BY <2>1, <2>2
<1>2. CreditsHeld'
  <2> SUFFICES ASSUME NEW p \in Procs, state'[p] # Free, NEW l \in Lines,
                      irqPending'[p][l] > 0
               PROVE  HoldsIrq(caps'[p], l)
    BY DEF CreditsHeld
  <2>1. /\ state[p] # Free /\ irqPending[p][l] > 0 /\ Keeps(caps[p], caps'[p])
    OBVIOUS
  <2>2. HoldsIrq(caps[p], l)
    BY <2>1 DEF WaitInv, CreditsHeld
  <2> QED
    BY <2>1, <2>2, KeptIsHeld DEF HoldsIrq
<1> QED
  BY <1>1, <1>2 DEF WaitInv, ParkedFor

LEMMA SameKeeps == \A cs : Keeps(cs, cs)
BY DEF Keeps

(* The calls that leave every wait alone. *)
LEMMA PlainCallWaits ==
  ASSUME SafeState, WaitInv,
         \/ Yield
         \/ \E c \in CapIds :
              \/ CollectIrq(c) \/ MapRegion(c) \/ UnmapRegion(c)
              \/ \E answered \in BOOLEAN : MapBar(c, answered)
              \/ \E d \in CapIds \cup {NoDelegate} : SpawnNoMem(c, d)
  PROVE  WaitInv'
<1>1. /\ Running /\ idling' = idling /\ state' = state /\ caps' = caps
  BY DEF Yield, CollectIrq, MapRegion, UnmapRegion, MapBar, SpawnNoMem,
         procVars, schedVars
<1>2. \E line : \/ irqPending' = irqPending
                \/ irqPending' = [irqPending EXCEPT ![current][line] = 0]
  BY DEF Yield, CollectIrq, MapRegion, UnmapRegion, MapBar, SpawnNoMem,
         procVars, schedVars
<1>3. \A p \in Procs, l \in Lines :
        irqPending'[p][l] > 0 => irqPending[p][l] > 0
  <2>1. current \in Procs /\ irqPending \in [Procs -> [Lines -> Nat]]
    BY <1>1, SomebodyRuns DEF SafeState, DataTypeOK
  <2>2. \A p \in Procs, l \in Lines : irqPending'[p][l] \in {irqPending[p][l], 0}
    BY <1>2, <2>1
  <2> QED
    BY <2>1, <2>2
<1>4. ~idling'
  BY <1>1 DEF Running
<1> QED
  BY <1>1, <1>3, <1>4, SameKeeps, WakingWaits

LEMMA MakeRegionKeeps ==
  ASSUME SafeState, NEW c \in CapIds, NEW pages, MakeRegion(c, pages)
  PROVE  \A p \in Procs : Keeps(caps[p], caps'[p])
<1> DEFINE new == Cap("Region", caps[current][c].rights, nextRegion)
<1>1. /\ FreeCaps(caps[current]) # {} /\ Running
      /\ caps' = [caps EXCEPT ![current] = Insert(caps[current], new)]
  BY DEF MakeRegion
<1> HIDE DEF new
<1>2. caps \in [Procs -> Spaces] /\ current \in Procs
  BY <1>1, SomebodyRuns DEF SafeState, DataTypeOK
<1>3. Keeps(caps[current], Insert(caps[current], new))
  BY <1>1, <1>2, InsertKeeps
<1> QED
  BY <1>1, <1>2, <1>3, SameKeeps

LEMMA RegionWaits ==
  ASSUME SafeState, WaitInv, NEW c \in CapIds,
         \/ \E pages \in 1..RegionMaxPages : MakeRegion(c, pages)
         \/ FreeRegion(c)
  PROVE  WaitInv'
<1>1. /\ Running /\ idling' = idling /\ state' = state /\ irqPending' = irqPending
  BY DEF MakeRegion, FreeRegion, schedVars
<1>2. \A p \in Procs : Keeps(caps[p], caps'[p])
  <2>1. ASSUME FreeRegion(c), NEW p \in Procs PROVE Keeps(caps[p], caps'[p])
    BY <2>1, ForgetKeeps, SameKeeps DEF FreeRegion
  <2> QED
    BY <2>1, MakeRegionKeeps
<1>3. ~idling'
  BY <1>1 DEF Running
<1> QED
  BY <1>1, <1>2, <1>3, WakingWaits

LEMMA SpawnWaits ==
  ASSUME SafeState, WaitInv, NEW c \in CapIds,
         NEW d \in CapIds \cup {NoDelegate},
         NEW request \in Requests, Spawn(c, d, request)
  PROVE  WaitInv'
<1>1. /\ Running /\ ChildSlot \in Procs
      /\ state' = [state EXCEPT ![ChildSlot] = Ready]
      /\ caps' = [caps EXCEPT ![ChildSlot] = ChildSpace(d, request)]
  BY SpawnStep
<1>2. /\ irqPending' = [irqPending EXCEPT ![ChildSlot] = [l \in Lines |-> 0]]
      /\ idling' = idling
  BY DEF Spawn, ChildSlot
<1>3. /\ state \in [Procs -> States] /\ caps \in [Procs -> Spaces]
      /\ irqPending \in [Procs -> [Lines -> Nat]]
  BY DEF SafeState, InSync, SchedTypeOK, DataTypeOK
<1>4. ASSUME NEW p \in Procs
      PROVE  \/ state'[p] \in {Free, Ready}
             \/ state'[p] = state[p] /\ Keeps(caps[p], caps'[p])
  BY <1>1, <1>3, SameKeeps
<1>5. ASSUME NEW p \in Procs, NEW l \in Lines, state'[p] # Free,
             irqPending'[p][l] > 0
      PROVE  /\ state[p] # Free /\ irqPending[p][l] > 0
             /\ Keeps(caps[p], caps'[p])
  <2>1. CASE p = ChildSlot
    BY <1>2, <1>3, <1>5, <2>1
  <2>2. CASE p # ChildSlot
    BY <1>1, <1>2, <1>3, <1>5, <2>2, SameKeeps
  <2> QED
    BY <2>1, <2>2
<1>6. ~idling'
  BY <1>1, <1>2 DEF Running
<1> QED
  BY <1>4, <1>5, <1>6, WakingWaits

(* Somebody who waited is answered. *)
LEMMA AnswerWaits ==
  ASSUME SafeState, WaitInv, Running, NEW w \in Procs, NEW code, state[w] # Free,
         Answer(w, code), caps' = caps, irqPending' = irqPending
  PROVE  WaitInv'
<1>1. state' = [state EXCEPT ![w] = Ready] /\ idling' = idling
  BY DEF Answer
<1>2. state \in [Procs -> States]
  BY DEF SafeState, InSync, SchedTypeOK
<1>3. \A p \in Procs : /\ state'[p] = Ready \/ state'[p] = state[p]
                       /\ state'[p] # Free => state[p] # Free
  BY <1>1, <1>2
<1>4. ~idling'
  BY <1>1 DEF Running
<1> QED
  BY <1>3, <1>4, SameKeeps, WakingWaits

(* The running process, blocked on what it presents, is not stranded. *)
LEMMA PresentedWait ==
  ASSUME SafeState, Running, NEW c \in CapIds
  PROVE  LET n == caps[current][c].object
             st(b) == [state EXCEPT ![current] = b]
         IN  /\ Presents(c, "Endpoint", WRITE)
                  => ~Stranded(st(BlockedSend(n)), caps[current], current)
             /\ Presents(c, "Endpoint", READ)
                  => ~Stranded(st(BlockedRecv(n)), caps[current], current)
             /\ Presents(c, "Irq", READ) /\ n \in Delivered
                  => ~Stranded(st(BlockedIrq(n)), caps[current], current)
<1> DEFINE n == caps[current][c].object
           st(b) == [state EXCEPT ![current] = b]
<1>1. \A b : st(b)[current] = b
  BY SomebodyRuns DEF SafeState, InSync, SchedTypeOK
<1>2. /\ Presents(c, "Endpoint", WRITE) => HoldsEndpoint(caps[current], n, WRITE)
      /\ Presents(c, "Endpoint", READ) => HoldsEndpoint(caps[current], n, READ)
      /\ Presents(c, "Irq", READ) => HoldsIrq(caps[current], n)
  BY DEF Presents, HoldsEndpoint, HoldsIrq, Holds
<1> HIDE DEF n, st
<1>3. Presents(c, "Endpoint", WRITE)
        => ~Stranded(st(BlockedSend(n)), caps[current], current)
  BY <1>1, <1>2 DEF Stranded, BlockedSend
<1>4. Presents(c, "Endpoint", READ)
        => ~Stranded(st(BlockedRecv(n)), caps[current], current)
  BY <1>1, <1>2 DEF Stranded, BlockedRecv
<1>5. Presents(c, "Irq", READ) /\ n \in Delivered
        => ~Stranded(st(BlockedIrq(n)), caps[current], current)
  BY <1>1, <1>2 DEF Stranded, BlockedIrq, Creditable
<1> QED
  BY <1>3, <1>4, <1>5 DEF n, st

(* SEND, RECV and WAIT_IRQ. *)
LEMMA RendezvousWaits ==
  ASSUME SafeState, WaitInv, NEW c \in CapIds, Send(c) \/ Recv(c) \/ WaitIrq(c)
  PROVE  WaitInv'
<1> DEFINE n == caps[current][c].object
<1>1. Running /\ caps' = caps /\ irqPending' = irqPending
  BY DEF Send, Recv, WaitIrq, ipcUnchanged
<1>2. n \in Nat
  BY <1>1, SomebodyRuns DEF SafeState, DataTypeOK, Spaces, Caps
<1>3. /\ BlockedSend(n) \in States /\ BlockedSend(n) # Free
      /\ BlockedRecv(n) \in States /\ BlockedRecv(n) # Free
      /\ BlockedIrq(n) \in States /\ BlockedIrq(n) # Free
  BY <1>2, BlockedStates DEF BlockedSend, BlockedRecv, BlockedIrq, Free
<1>4. ASSUME NEW b \in States, NEW code, b # Free, Waiters(b) # {},
             Answer(Min(Waiters(b)), code)
      PROVE  WaitInv'
  <2>1. Waiters(b) \in SUBSET Nat
    BY KernelAssumption DEF Waiters, Procs
  <2>2. Min(Waiters(b)) \in Waiters(b)
    BY <1>4, <2>1, MinMember
  <2>3. Min(Waiters(b)) \in Procs /\ state[Min(Waiters(b))] # Free
    BY <1>4, <2>2 DEF Waiters
  <2> QED
    BY <1>1, <1>4, <2>3, AnswerWaits
<1>5. CASE Send(c)
  <2>1. /\ Waiters(BlockedRecv(n)) # {}
             => Answer(Min(Waiters(BlockedRecv(n))), "MSG")
        /\ Waiters(BlockedRecv(n)) = {} => BlockCurrent(BlockedSend(n))
        /\ Presents(c, "Endpoint", WRITE)
    BY <1>5 DEF Send
  <2> QED
    BY <1>1, <1>3, <1>4, <2>1, PresentedWait, BlockWaits
<1>6. CASE Recv(c)
  <2>1. /\ Waiters(BlockedSend(n)) # {}
             => Answer(Min(Waiters(BlockedSend(n))), "OK")
        /\ Waiters(BlockedSend(n)) = {} => BlockCurrent(BlockedRecv(n))
        /\ Presents(c, "Endpoint", READ)
    BY <1>6 DEF Recv
  <2> QED
    BY <1>1, <1>3, <1>4, <2>1, PresentedWait, BlockWaits
<1>7. CASE WaitIrq(c)
  <2>1. /\ BlockCurrent(BlockedIrq(n)) /\ n \in Delivered
        /\ Presents(c, "Irq", READ)
    BY <1>7 DEF WaitIrq
  <2> QED
    BY <1>1, <1>3, <2>1, PresentedWait, BlockWaits
<1> QED
  BY <1>5, <1>6, <1>7

(* An interrupt wakes waiters and credits holders. *)
LEMMA DeliverWaits ==
  ASSUME SafeState, WaitInv, NEW line, Deliver(line)
  PROVE  /\ NobodyStranded' /\ CreditsHeld'
         /\ Credited(line) = {} => state' = state
<1>1. /\ state' = WakeStates(state, Credited(line)) /\ caps' = caps
      /\ CreditIrq(line)
  BY DEF Deliver
<1>2. /\ state \in [Procs -> States] /\ irqPending \in [Procs -> [Lines -> Nat]]
  BY DEF SafeState, InSync, SchedTypeOK, DataTypeOK
<1>3. \A p \in Procs : \/ state'[p] = state[p]
                       \/ p \in Credited(line) /\ state'[p] = Ready
  <2>1. \A p \in Procs : state'[p] = IF p \in Credited(line) THEN Ready ELSE state[p]
    BY <1>1 DEF WakeStates
  <2> QED
    BY <2>1
<1>4. NobodyStranded'
  <2> SUFFICES ASSUME NEW p \in Procs PROVE ~Stranded(state', caps[p], p)
    BY <1>1 DEF NobodyStranded
  <2>1. CASE state'[p] = state[p]
    BY <2>1 DEF WaitInv, NobodyStranded, Stranded
  <2>2. CASE state'[p] = Ready
    BY <2>2, IdleNotStranded
  <2> QED
    BY <1>3, <2>1, <2>2
<1>5. CreditsHeld'
  <2> SUFFICES ASSUME NEW p \in Procs, state'[p] # Free, NEW l \in Lines,
                      irqPending'[p][l] > 0
               PROVE  HoldsIrq(caps[p], l)
    BY <1>1 DEF CreditsHeld
  <2>1. state[p] # Free
    BY <1>3 DEF Credited, CreditHolders, LiveIn
  <2>2. CASE irqPending'[p][l] = irqPending[p][l]
    BY <2>1, <2>2 DEF WaitInv, CreditsHeld
  <2>3. CASE irqPending'[p][l] # irqPending[p][l]
    <3>1. l = line /\ p \in CreditHolders(line)
      <4>1. irqPending'[p] = [irqPending[p] EXCEPT ![line] =
              CASE p \in Credited(line) -> 0
                [] p \in CreditHolders(line) \ Credited(line) ->
                     IF @ < CreditMax THEN @ + 1 ELSE @
                [] OTHER -> @]
        BY <1>1 DEF CreditIrq
      <4>2. p \notin CreditHolders(line) => irqPending'[p][line] = irqPending[p][line]
        BY <1>2, <4>1 DEF Credited
      <4> QED
        BY <1>2, <2>3, <4>1, <4>2
    <3> QED
      BY <3>1 DEF CreditHolders
  <2> QED
    BY <2>2, <2>3
<1>6. Credited(line) = {} => state' = state
  BY <1>1, <1>2 DEF WakeStates
<1> QED
  BY <1>4, <1>5, <1>6

LEMMA InterruptWaits ==
  ASSUME SafeState, WaitInv, TimerIrq \/ ConsoleIrq
  PROVE  WaitInv'
<1>1. ASSUME PreemptTrap \/ DeviceTrap PROVE WaitInv'
  <2>1. PICK line : Deliver(line)
    BY <1>1 DEF PreemptTrap, DeviceTrap
  <2>2. ~idling'
    BY <1>1 DEF PreemptTrap, DeviceTrap, Running
  <2> QED
    BY <2>1, <2>2, DeliverWaits DEF WaitInv, ParkedFor
<1>2. ASSUME NEW line, IdleInterrupt(line) PROVE WaitInv'
  <2>1. /\ Deliver(line) /\ idling /\ caps' = caps
        /\ queue' = DeliveredQueue(line)
        /\ ~IsEmptyQueue(queue') => idling' = FALSE
    BY <1>2 DEF IdleInterrupt, Deliver
  <2>2. NobodyStranded' /\ CreditsHeld' /\ (Credited(line) = {} => state' = state)
    BY <2>1, DeliverWaits
  <2>3. CASE ~IsEmptyQueue(queue')
    BY <2>1, <2>2, <2>3 DEF WaitInv, ParkedFor
  <2>4. CASE IsEmptyQueue(queue')
    <3>1. /\ WellFormedQueue(queue', Procs, MaxProcs)
          /\ Queued(queue') = ReadyIn(state')
      BY <2>1, DeliverJoins DEF SafeState
    <3>2. ReadyIn(state') = {}
      BY <2>4, <3>1 DEF IsEmptyQueue, Queued
    <3>3. Credited(line) = {}
      BY <2>1, <3>2, WakeMakesReady
         DEF Deliver, ReadyIn, Credited, CreditHolders, LiveIn, SafeState,
             InSync, SchedTypeOK
    <3> QED
      BY <2>1, <2>2, <2>4, <3>3 DEF WaitInv, ParkedFor
  <2> QED
    BY <2>3, <2>4
<1> QED
  BY <1>1, <1>2 DEF TimerIrq, ConsoleIrq

(* REVOKE wakes whoever it would strand and clears the credits with the    *)
(* line.                                                                   *)
LEMMA RevokeWaits ==
  ASSUME SafeState, WaitInv, NEW c \in CapIds, Revoke(c)
  PROVE  WaitInv'
<1>1. /\ Running /\ caps' = Left(c) /\ idling' = idling
      /\ irqPending' = [p \in Procs |->
           IF p \in Hit(c) THEN CreditsLeft(p, Left(c)[p]) ELSE irqPending[p]]
      /\ state' = WakeStates(state, Woken(c))
  BY RevokeStep
<1>2. /\ state \in [Procs -> States] /\ caps \in [Procs -> Spaces]
  BY DEF SafeState, InSync, SchedTypeOK, DataTypeOK
<1>3. Left(c) \in [Procs -> [CapIds -> Caps \cup {NullCap}]]
  BY <1>2 DEF Left, Spaces
<1>4. \A p \in Procs : p \notin Hit(c) => Left(c)[p] = caps[p]
  <2> SUFFICES ASSUME NEW p \in Procs, p \notin Hit(c) PROVE Left(c)[p] = caps[p]
    OBVIOUS
  <2>1. \A k \in CapIds : Left(c)[p][k] = caps[p][k]
    BY LeftSpaces
  <2> QED
    BY <1>2, <1>3, <2>1 DEF Spaces
<1>5. /\ \A p \in Woken(c) : state'[p] = Ready
      /\ \A p \in Procs \ Woken(c) : state'[p] = state[p]
  BY <1>1, <1>2, HitAreProcs, WakeMakesReady
<1>6. NobodyStranded'
  <2> SUFFICES ASSUME NEW p \in Procs PROVE ~Stranded(state', Left(c)[p], p)
    BY <1>1 DEF NobodyStranded
  <2>1. CASE p \in Woken(c)
    BY <1>5, <2>1, IdleNotStranded
  <2>2. CASE p \in Hit(c) \ Woken(c)
    BY <1>5, <2>2 DEF Woken, Stranded
  <2>3. CASE p \notin Hit(c)
    BY <1>4, <1>5, <2>3 DEF Woken, WaitInv, NobodyStranded, Stranded
  <2> QED
    BY <2>1, <2>2, <2>3
<1>7. CreditsHeld'
  <2> SUFFICES ASSUME NEW p \in Procs, state'[p] # Free, NEW l \in Lines,
                      irqPending'[p][l] > 0
               PROVE  HoldsIrq(Left(c)[p], l)
    BY <1>1 DEF CreditsHeld
  <2>1. CASE p \in Hit(c)
    BY <1>1, <2>1 DEF CreditsLeft
  <2>2. CASE p \notin Hit(c)
    <3>1. irqPending'[p] = irqPending[p] /\ state'[p] = state[p]
      BY <1>1, <1>5, <2>2 DEF Woken
    <3> QED
      BY <1>4, <2>2, <3>1 DEF WaitInv, CreditsHeld
  <2> QED
    BY <2>1, <2>2
<1>8. ~idling'
  BY <1>1 DEF Running
<1> QED
  BY <1>6, <1>7, <1>8 DEF WaitInv, ParkedFor

(* A death takes only regions from the others. *)
LEMMA TeardownWaits ==
  ASSUME SafeState, WaitInv, Running, Teardown
  PROVE  WaitInv'
<1> DEFINE st == WakeStates(Survivors, Bereaved)
<1>1. /\ Dispatch(st, Spared, EnqueueSet(Remove(queue, current), Bereaved),
                  WakeResults(result, Bereaved, "NO_CAP"), free')
      /\ Bereaved \in SUBSET Procs /\ caps' = Spared /\ irqPending' = irqPending
  BY TeardownStep
<1>2. current \in Procs /\ state \in [Procs -> States]
  BY SomebodyRuns DEF SafeState, InSync, SchedTypeOK
<1>3. /\ Survivors \in [Procs -> States]
      /\ \A p \in Procs : Survivors[p] = IF p = current THEN Free ELSE state[p]
  BY <1>2, PlainStates DEF Survivors
<1>4. /\ st \in [Procs -> States]
      /\ \A p \in Procs : st[p] = Ready \/ st[p] = Survivors[p]
  BY <1>1, <1>3, WakeMakesReady
<1>5. \A p \in Procs : Keeps(caps[p], Spared[p])
  BY ForgetKeeps, SameKeeps DEF Spared
<1> HIDE DEF st
<1>6. ASSUME NEW p \in Procs PROVE ~Stranded(st, Spared[p], p)
  <2>1. CASE st[p] \in {Free, Ready}
    BY <2>1, IdleNotStranded
  <2>2. CASE st[p] = state[p]
    <3>1. ~Stranded(state, caps[p], p)
      BY DEF WaitInv, NobodyStranded
    <3> QED
      BY <1>5, <2>2, <3>1, KeptWaits
  <2> QED
    BY <1>3, <1>4, <2>1, <2>2
<1>7. NobodyStranded' /\ ParkedFor'
  BY <1>1, <1>4, <1>6, DispatchWaits
<1>8. CreditsHeld'
  <2> SUFFICES ASSUME NEW p \in Procs, state'[p] # Free, NEW l \in Lines,
                      irqPending[p][l] > 0
               PROVE  HoldsIrq(Spared[p], l)
    BY <1>1 DEF CreditsHeld
  <2>1. p \in LiveIn(state)
    BY TeardownLive DEF LiveIn
  <2>2. HoldsIrq(caps[p], l)
    BY <2>1 DEF WaitInv, CreditsHeld, LiveIn
  <2> QED
    BY <1>5, <2>2, KeptIsHeld DEF HoldsIrq
<1> QED
  BY <1>7, <1>8 DEF WaitInv

LEMMA WaitStep ==
  ASSUME SafeState, WaitInv, [Next]_vars
  PROVE  WaitInv'
<1>1. CASE UNCHANGED vars
  BY <1>1 DEF vars, procVars, schedVars, WaitInv, NobodyStranded, CreditsHeld,
              ParkedFor, Stranded
<1>2. CASE Quiet
  BY <1>1, <1>2, PlainCallWaits, RendezvousWaits, InterruptWaits DEF Quiet
<1> QED
  BY <1>2, StepCases, RegionWaits, SpawnWaits, RevokeWaits, TeardownWaits

LEMMA WaitInit == Init => WaitInv
<1> SUFFICES ASSUME Init PROVE WaitInv
  OBVIOUS
<1>1. \A p \in Procs : state[p] \in {Free, Ready}
  BY DEF Init
<1>2. NobodyStranded
  BY <1>1, IdleNotStranded DEF NobodyStranded
<1> QED
  BY <1>2 DEF Init, WaitInv, CreditsHeld, ParkedFor

(* What a wait rests on, as an invariant of the machine. *)
LEMMA WaitsSafe == Spec => []WaitInv
<1>1. SafeState /\ WaitInv /\ [Next]_vars => WaitInv'
  BY WaitStep
<1> QED
  BY <1>1, WaitInit, KernelSafe, PTL DEF Spec

(* For every set of grants and every history of delegations, revocations   *)
(* and deaths: whoever is parked in a rendezvous holds the capability it   *)
(* was let in with, and nobody has credits of a line it does not hold.     *)
THEOREM WaitsAlwaysAuthorized == Spec => []WaitAuthorized
<1>1. WaitInv => WaitAuthorized
  BY WaitInvIs
<1> QED
  BY <1>1, WaitsSafe, PTL

(* The CPU never sleeps for an interrupt that cannot arrive: when it parks *)
(* nobody is runnable and somebody waits for a delivered line it holds.    *)
THEOREM ParkAlwaysHopeful == Spec => []ParkIsHopeful
<1>1. WaitInv => ParkIsHopeful
  BY WaitInvIs
<1> QED
  BY <1>1, WaitsSafe, PTL

(* A peer that stays alive and keeps its endpoints still answers. *)
LEMMA PeerAnswers ==
  ASSUME NEW p \in Procs, state'[p] = state[p], Answerable(state, caps, p),
         \A q \in LiveIn(state) \ {p} :
           q \in LiveIn(state') /\ Keeps(caps[q], caps'[q])
  PROVE  Answerable(state', caps', p)
<1> DEFINE needed == IF state[p].kind = "Send" THEN READ ELSE WRITE
<1>1. PICK q \in LiveIn(state) \ {p} : HoldsEndpoint(caps[q], state[p].on, needed)
  BY DEF Answerable
<1> HIDE DEF needed
<1>2. HoldsEndpoint(caps'[q], state[p].on, needed)
  BY <1>1, KeptIsHeld DEF HoldsEndpoint
<1> QED
  BY <1>1, <1>2 DEF Answerable, needed

(* What REVOKE takes from a possible peer, the revoker itself holds. *)
LEMMA RevokerAnswers ==
  ASSUME SafeState, LedgerInv, NEW c \in CapIds, Revoke(c), NEW p \in Procs,
         state[p].kind \in {"Send", "Recv"}, state'[p] = state[p],
         Answerable(state, caps, p)
  PROVE  Answerable(state', caps', p)
<1> DEFINE needed == IF state[p].kind = "Send" THEN READ ELSE WRITE
           ep == state[p].on
<1>1. PICK q \in LiveIn(state) \ {p} : HoldsEndpoint(caps[q], ep, needed)
  BY DEF Answerable
<1>2. /\ Running /\ caps' = Left(c) /\ LiveIn(state') = LiveIn(state)
      /\ caps[current][c] # NullCap
  BY RevokeStep, RevokeLive
<1>3. current \in LiveIn(state) \ {p} /\ current \in Procs
  BY <1>2, SomebodyRuns, PlainStates DEF SafeState, LiveIn, Ready
<1> HIDE DEF needed, ep
<1>4. PICK k \in CapIds : /\ caps[q][k].type = "Endpoint"
                          /\ caps[q][k].object = ep
                          /\ needed \in caps[q][k].rights
  BY <1>1 DEF HoldsEndpoint, Holds
<1>5. CASE EndAt(q, k) \notin Gone(c)
  <2>1. caps'[q][k] = caps[q][k]
    BY <1>1, <1>2, <1>5, LeftSpaces DEF LiveIn
  <2>2. HoldsEndpoint(caps'[q], ep, needed)
    BY <1>4, <2>1 DEF HoldsEndpoint, Holds
  <2> QED
    BY <1>1, <1>2, <2>2 DEF Answerable, needed, ep
<1>6. CASE EndAt(q, k) \in Gone(c)
  <2>1. EndAt(q, k) \in Reach(edges, EndAt(current, c))
    BY <1>6 DEF Gone, Revoked
  <2>2. CapAt(EndAt(q, k)) = caps[q][k]
    BY DEF CapAt, EndAt, End
  <2>3. /\ caps[current][c].type = "Endpoint" /\ caps[current][c].object = ep
        /\ needed \in caps[current][c].rights
    BY <1>2, <1>4, <2>1, <2>2, DerivedIsLess
  <2>4. EndAt(current, c) \notin Gone(c)
    <3>1. EndAt(current, c).proc = current
      BY DEF EndAt, End
    <3> QED
      BY <1>2, <3>1, DerivedIsLess DEF Gone, Revoked
  <2>5. caps'[current][c] = caps[current][c]
    BY <1>2, <1>3, <2>4, LeftSpaces
  <2>6. HoldsEndpoint(caps'[current], ep, needed)
    BY <2>3, <2>5 DEF HoldsEndpoint, Holds
  <2> QED
    BY <1>2, <1>3, <2>6 DEF Answerable, needed, ep
<1> QED
  BY <1>5, <1>6

(* A death wakes everybody it leaves without a peer. *)
LEMMA BereavedAreWoken ==
  ASSUME SafeState, Running, Teardown, NEW p \in Procs,
         state[p].kind \in {"Send", "Recv"}, state'[p] = state[p]
  PROVE  Answerable(state', caps', p)
<1> DEFINE st == WakeStates(Survivors, Bereaved)
<1>1. /\ Dispatch(st, Spared, EnqueueSet(Remove(queue, current), Bereaved),
                  WakeResults(result, Bereaved, "NO_CAP"), free')
      /\ Bereaved \in SUBSET Procs /\ caps' = Spared
      /\ LiveIn(state') = LiveIn(state) \ {current}
  BY TeardownStep, TeardownLive
<1>2. current \in Procs /\ state \in [Procs -> States] /\ state[current] = Ready
  BY SomebodyRuns DEF SafeState, InSync, SchedTypeOK
<1>3. /\ Survivors \in [Procs -> States] /\ p # current
      /\ Survivors[p] = state[p] /\ LiveIn(Survivors) = LiveIn(state) \ {current}
  BY <1>2, PlainStates DEF Survivors, LiveIn, Ready
<1>4. st \in [Procs -> States] /\ (p \in Bereaved => st[p] = Ready)
  BY <1>1, <1>3, WakeMakesReady
<1> HIDE DEF st
<1>5. p \notin Bereaved
  <2>1. st[p] = Ready => state'[p] = Ready
    BY <1>1, <1>4, DispatchStates
  <2> QED
    BY <1>4, <2>1 DEF Ready
<1>6. Answerable(Survivors, Spared, p)
  BY <1>3, <1>5 DEF Bereaved, Orphaned
<1> QED
  BY <1>1, <1>3, <1>6 DEF Answerable

LEMMA AnswerableStays ==
  ASSUME SafeState, LedgerInv, [Next]_vars, NEW p \in Procs,
         state[p].kind \in {"Send", "Recv"}, state'[p] = state[p],
         Answerable(state, caps, p)
  PROVE  Answerable(state', caps', p)
<1>1. CASE Quiet
  BY <1>1, QuietStep, SameKeeps, PeerAnswers
<1>2. ASSUME NEW c \in CapIds, NEW pages \in 1..RegionMaxPages, MakeRegion(c, pages)
      PROVE  Answerable(state', caps', p)
  <2>1. \A q \in Procs : Keeps(caps[q], caps'[q])
    BY <1>2, MakeRegionKeeps
  <2> QED
    BY <1>2, <2>1, PeerAnswers DEF MakeRegion, LiveIn
<1>3. ASSUME NEW c \in CapIds, FreeRegion(c)
      PROVE  Answerable(state', caps', p)
  <2>1. \A q \in Procs : Keeps(caps[q], caps'[q])
    BY <1>3, ForgetKeeps, SameKeeps DEF FreeRegion
  <2> QED
    BY <1>3, <2>1, PeerAnswers DEF FreeRegion, LiveIn
<1>4. ASSUME NEW c \in CapIds, NEW d \in CapIds \cup {NoDelegate},
             NEW request \in Requests, Spawn(c, d, request)
      PROVE  Answerable(state', caps', p)
  <2>1. /\ state[ChildSlot] = Free
        /\ LiveIn(state') = LiveIn(state) \cup {ChildSlot}
        /\ caps' = [caps EXCEPT ![ChildSlot] = ChildSpace(d, request)]
    BY <1>4, SpawnStep
  <2>2. \A q \in LiveIn(state) : caps'[q] = caps[q]
    BY <2>1 DEF LiveIn, SafeState, DataTypeOK
  <2> QED
    BY <2>1, <2>2, SameKeeps, PeerAnswers
<1>5. ASSUME NEW c \in CapIds, Revoke(c) PROVE Answerable(state', caps', p)
  BY <1>5, RevokerAnswers
<1>6. CASE Running /\ Teardown
  BY <1>6, BereavedAreWoken
<1> QED
  BY <1>1, <1>2, <1>3, <1>4, <1>5, <1>6, StepCases

(* For every set of grants and every ledger: no step takes the last        *)
(* possible peer from a parked process and leaves it parked.  A death      *)
(* wakes whom it bereaves; a revocation leaves the revoker, who holds at   *)
(* least what it took, because authority only shrinks along the ledger.    *)
THEOREM NobodyLeftWaiting == Spec => NeverStranded
<1>1. SafeState /\ LedgerInv /\ [Next]_vars =>
        [\A p \in Procs :
           (/\ state[p].kind \in {"Send", "Recv"} /\ state'[p] = state[p]
            /\ Answerable(state, caps, p))
             => Answerable(state', caps', p)]_vars
  BY AnswerableStays
<1> QED
  BY <1>1, KernelSafe, LedgerSafe, PTL DEF NeverStranded, Spec

-----------------------------------------------------------------------------
(* Where authority comes from.                                             *)

(* A capability that boot granted, or less, or a region made since. *)
Granted(k) ==
  k.type \notin {"Null", "Region"} =>
    \E g \in BootCaps : /\ g.type = k.type /\ g.object = k.object
                        /\ k.rights \subseteq g.rights

(* Slots of dead processes included: nothing is ever read from them, but   *)
(* the invariant need not know that.                                       *)
AllGranted == \A p \in Procs, k \in CapIds : Granted(caps[p][k])

(* What a step leaves in a capability slot: what was there, nothing, a     *)
(* region, or an attenuated copy of somebody's capability.                 *)
LEMMA SlotSources ==
  ASSUME SafeState, [Next]_vars, NEW p \in Procs, NEW k \in CapIds
  PROVE  \/ caps'[p][k] = caps[p][k] \/ caps'[p][k].type \in {"Null", "Region"}
         \/ \E q \in Procs, j \in CapIds :
              /\ caps'[p][k].type = caps[q][j].type
              /\ caps'[p][k].object = caps[q][j].object
              /\ caps'[p][k].rights \subseteq caps[q][j].rights
<1>1. caps \in [Procs -> Spaces] /\ DataTypeOK
  BY DEF SafeState, DataTypeOK
<1>2. NullCap.type = "Null"
  BY DEF NullCap, Cap
<1>3. CASE Quiet
  BY <1>3, QuietStep
<1>4. ASSUME NEW c \in CapIds, NEW pages, MakeRegion(c, pages)
      PROVE  caps'[p][k] = caps[p][k] \/ caps'[p][k].type \in {"Null", "Region"}
  <2> DEFINE new == Cap("Region", caps[current][c].rights, nextRegion)
  <2>1. /\ FreeCaps(caps[current]) # {} /\ Running
        /\ caps' = [caps EXCEPT ![current] = Insert(caps[current], new)]
    BY <1>4 DEF MakeRegion
  <2>2. new.type = "Region"
    BY DEF Cap
  <2> HIDE DEF new
  <2>3. current \in Procs
    BY <2>1, SomebodyRuns DEF SafeState
  <2> QED
    BY <1>1, <2>1, <2>2, <2>3, InsertKeeps
<1>5. ASSUME NEW c \in CapIds, FreeRegion(c)
      PROVE  caps'[p][k] = caps[p][k] \/ caps'[p][k].type \in {"Null", "Region"}
  BY <1>2, <1>5, ForgetKeeps DEF FreeRegion
<1>6. ASSUME NEW c \in CapIds, NEW d \in CapIds \cup {NoDelegate},
             NEW request \in Requests, Spawn(c, d, request)
      PROVE  \/ caps'[p][k] = caps[p][k] \/ caps'[p][k].type \in {"Null", "Region"}
             \/ \E q \in Procs, j \in CapIds :
                  /\ caps'[p][k].type = caps[q][j].type
                  /\ caps'[p][k].object = caps[q][j].object
                  /\ caps'[p][k].rights \subseteq caps[q][j].rights
  <2>1. /\ current \in Procs /\ ChildSlot \in Procs
        /\ caps' = [caps EXCEPT ![ChildSlot] = ChildSpace(d, request)]
        /\ d # NoDelegate => caps[current][d] # NullCap
    BY <1>6, SpawnStep
  <2>2. /\ \A j \in CapIds \ {0} : ChildSpace(d, request)[j] = NullCap
        /\ d = NoDelegate => ChildSpace(d, request) = EmptySpace
        /\ d # NoDelegate => ChildSpace(d, request)[0] =
             Cap(caps[current][d].type, caps[current][d].rights \cap request,
                 caps[current][d].object)
    BY <1>1, <2>1, ChildSpaceFacts
  <2>3. CASE p # ChildSlot
    BY <1>1, <2>1, <2>3
  <2>4. CASE p = ChildSlot /\ (d = NoDelegate \/ k # 0)
    <3>1. caps'[p][k] = NullCap
      BY <1>1, <2>1, <2>2, <2>4 DEF EmptySpace
    <3> QED
      BY <1>2, <3>1
  <2>5. CASE p = ChildSlot /\ d # NoDelegate /\ k = 0
    <3>1. caps'[p][k] = Cap(caps[current][d].type,
                            caps[current][d].rights \cap request,
                            caps[current][d].object)
      BY <1>1, <2>1, <2>2, <2>5
    <3>2. d \in CapIds /\ caps'[p][k].type = caps[current][d].type
          /\ caps'[p][k].object = caps[current][d].object
          /\ caps'[p][k].rights \subseteq caps[current][d].rights
      BY <2>5, <3>1 DEF Cap
    <3> QED
      BY <2>1, <3>2
  <2> QED
    BY <2>3, <2>4, <2>5
<1>7. ASSUME NEW c \in CapIds, Revoke(c)
      PROVE  caps'[p][k] = caps[p][k] \/ caps'[p][k].type \in {"Null", "Region"}
  <2>1. caps' = Left(c)
    BY <1>7, RevokeStep
  <2> QED
    BY <1>2, <2>1, LeftSpaces
<1>8. ASSUME Running, Teardown
      PROVE  caps'[p][k] = caps[p][k] \/ caps'[p][k].type \in {"Null", "Region"}
  BY <1>2, <1>8, TeardownStep, ForgetKeeps DEF Spared
<1> QED
  BY <1>3, <1>4, <1>5, <1>6, <1>7, <1>8, StepCases

LEMMA GrantedStep ==
  ASSUME SafeState, AllGranted, [Next]_vars
  PROVE  AllGranted'
<1> SUFFICES ASSUME NEW p \in Procs, NEW k \in CapIds PROVE Granted(caps'[p][k])
  BY DEF AllGranted, Granted, BootCaps
<1>1. CASE caps'[p][k] = caps[p][k] \/ caps'[p][k].type \in {"Null", "Region"}
  BY <1>1 DEF AllGranted, Granted
<1>2. ASSUME NEW q \in Procs, NEW j \in CapIds,
             /\ caps'[p][k].type = caps[q][j].type
             /\ caps'[p][k].object = caps[q][j].object
             /\ caps'[p][k].rights \subseteq caps[q][j].rights
      PROVE  Granted(caps'[p][k])
  <2>1. Granted(caps[q][j])
    BY DEF AllGranted
  <2> QED
    BY <1>2, <2>1 DEF Granted
<1> QED
  BY <1>1, <1>2, SlotSources

LEMMA GrantedInit == Init => AllGranted
<1> SUFFICES ASSUME Init, NEW p \in Procs, NEW k \in CapIds
             PROVE  Granted(caps[p][k])
  BY DEF AllGranted
<1>1. CASE p \in BootProcs /\ k < Len(BootGrants[p])
  <2>1. caps[p][k] = BootGrants[p][k + 1]
    BY <1>1 DEF Init
  <2>2. Len(BootGrants[p]) \in Nat /\ k \in Nat
    BY <1>1, KernelAssumption DEF CapIds
  <2>3. k + 1 \in 1..Len(BootGrants[p])
    BY <1>1, <2>2
  <2>4. caps[p][k] \in BootCaps
    BY <1>1, <2>1, <2>3 DEF BootCaps
  <2> QED
    BY <2>4 DEF Granted
<1>2. CASE ~(p \in BootProcs /\ k < Len(BootGrants[p]))
  <2>1. caps[p][k] = NullCap
    BY <1>2 DEF Init
  <2> QED
    BY <2>1 DEF Granted, NullCap, Cap
<1> QED
  BY <1>1, <1>2

(* Authority is never amplified, whatever the boot tables grant: what is   *)
(* held, other than a region made since, is a boot grant or part of one.   *)
THEOREM AuthorityAlwaysFromBoot == Spec => []AuthorityFromBoot
<1>1. SafeState /\ AllGranted /\ [Next]_vars => AllGranted'
  BY GrantedStep
<1>2. AllGranted => AuthorityFromBoot
  BY DEF AllGranted, Granted, AuthorityFromBoot, Alive, LiveIn
<1> QED
  BY <1>1, <1>2, GrantedInit, KernelSafe, PTL DEF Spec

-----------------------------------------------------------------------------
(* Who may hold what only some boot processes are granted.                 *)

(* A live process after a step was there before and has gained nothing but *)
(* regions, or it is a new one, spawned by somebody who may, with part of  *)
(* what the spawner holds.                                                 *)
Older(p) ==
  /\ p \in LiveIn(state) /\ pid'[p] = pid[p]
  /\ \A k \in CapIds : \/ caps'[p][k] = caps[p][k]
                       \/ caps'[p][k].type \in {"Null", "Region"}
Younger(p) ==
  /\ pid'[p] = nextId /\ nextId' = nextId + 1
  /\ current \in LiveIn(state) /\ Holds(caps[current], "Untyped", 0, WRITE)
  /\ \A k \in CapIds :
       \/ caps'[p][k].type = "Null"
       \/ \E j \in CapIds : /\ caps'[p][k].type = caps[current][j].type
                            /\ caps'[p][k].object = caps[current][j].object
                            /\ caps'[p][k].rights \subseteq caps[current][j].rights

(* A mint source names no extent (the boot tables are checked for it). *)
LEMMA UntypedZero ==
  ASSUME AllGranted, NEW p \in Procs, NEW k \in CapIds, caps[p][k].type = "Untyped"
  PROVE  caps[p][k].object = 0
<1>1. PICK g \in BootCaps : g.type = "Untyped" /\ g.object = caps[p][k].object
  BY DEF AllGranted, Granted
<1>2. PICK b \in BootProcs : \E j \in 1..Len(BootGrants[b]) : g = BootGrants[b][j]
  BY DEF BootCaps
<1> QED
  BY <1>1, <1>2, KernelAssumption

LEMMA YoungOrOld ==
  ASSUME SafeState, AllGranted, [Next]_vars, NEW p \in LiveIn(state')
  PROVE  Older(p) \/ Younger(p)
<1>0. p \in Procs /\ caps \in [Procs -> Spaces] /\ DataTypeOK
      /\ pid \in [Procs -> Nat]
  BY DEF SafeState, DataTypeOK, LiveIn
<1>1. NullCap.type = "Null"
  BY DEF NullCap, Cap
<1>2. CASE Quiet
  BY <1>2, QuietStep DEF Older
<1>3. ASSUME NEW c \in CapIds, NEW pages, MakeRegion(c, pages)
      PROVE  Older(p)
  <2>1. pid' = pid /\ state' = state
    BY <1>3 DEF MakeRegion
  <2> DEFINE new == Cap("Region", caps[current][c].rights, nextRegion)
  <2>2. /\ FreeCaps(caps[current]) # {} /\ Running
        /\ caps' = [caps EXCEPT ![current] = Insert(caps[current], new)]
    BY <1>3 DEF MakeRegion
  <2>3. new.type = "Region"
    BY DEF Cap
  <2> HIDE DEF new
  <2>4. current \in Procs
    BY <2>2, SomebodyRuns DEF SafeState
  <2>5. \A k \in CapIds : \/ caps'[p][k] = caps[p][k]
                          \/ caps'[p][k].type \in {"Null", "Region"}
    BY <1>0, <2>2, <2>3, <2>4, InsertKeeps
  <2> QED
    BY <2>1, <2>5 DEF Older
<1>4. ASSUME NEW c \in CapIds, FreeRegion(c) PROVE Older(p)
  <2>1. pid' = pid /\ state' = state
    BY <1>4 DEF FreeRegion
  <2>2. \A k \in CapIds : \/ caps'[p][k] = caps[p][k]
                          \/ caps'[p][k].type \in {"Null", "Region"}
    BY <1>0, <1>1, <1>4, ForgetKeeps DEF FreeRegion
  <2> QED
    BY <2>1, <2>2 DEF Older
<1>5. ASSUME NEW c \in CapIds, NEW d \in CapIds \cup {NoDelegate},
             NEW request \in Requests, Spawn(c, d, request)
      PROVE  Older(p) \/ Younger(p)
  <2>1. /\ current \in Procs /\ state[current] = Ready /\ ChildSlot \in Procs
        /\ pid' = [pid EXCEPT ![ChildSlot] = nextId] /\ nextId' = nextId + 1
        /\ LiveIn(state') = LiveIn(state) \cup {ChildSlot}
        /\ caps' = [caps EXCEPT ![ChildSlot] = ChildSpace(d, request)]
        /\ d # NoDelegate => caps[current][d] # NullCap
    BY <1>5, SpawnStep
  <2>2. CASE p # ChildSlot
    <3>1. p \in LiveIn(state) /\ pid'[p] = pid[p] /\ caps'[p] = caps[p]
      BY <1>0, <2>1, <2>2
    <3> QED
      BY <3>1 DEF Older
  <2>3. CASE p = ChildSlot
    <3>1. caps'[p] = ChildSpace(d, request) /\ pid'[p] = nextId
      BY <1>0, <2>1, <2>3
    <3>2. current \in LiveIn(state)
      BY <2>1, PlainStates DEF LiveIn
    <3>3. Presents(c, "Untyped", WRITE)
      BY <1>5 DEF Spawn, SpawnAnswer
    <3>4. caps[current][c].object = 0
      BY <2>1, <3>3, UntypedZero DEF Presents
    <3>5. Holds(caps[current], "Untyped", 0, WRITE)
      BY <3>3, <3>4 DEF Presents, Holds
    <3>6. /\ \A j \in CapIds \ {0} : ChildSpace(d, request)[j] = NullCap
          /\ d = NoDelegate => ChildSpace(d, request) = EmptySpace
          /\ d # NoDelegate => ChildSpace(d, request)[0] =
               Cap(caps[current][d].type, caps[current][d].rights \cap request,
                   caps[current][d].object)
      BY <1>0, <2>1, ChildSpaceFacts
    <3>7. ASSUME NEW k \in CapIds
          PROVE  \/ caps'[p][k].type = "Null"
                 \/ \E j \in CapIds :
                      /\ caps'[p][k].type = caps[current][j].type
                      /\ caps'[p][k].object = caps[current][j].object
                      /\ caps'[p][k].rights \subseteq caps[current][j].rights
      <4>1. CASE d = NoDelegate \/ k # 0
        <5>1. caps'[p][k] = NullCap
          BY <3>1, <3>6, <4>1 DEF EmptySpace
        <5> QED
          BY <1>1, <5>1
      <4>2. CASE d # NoDelegate /\ k = 0
        <5>1. d \in CapIds
          BY <4>2
        <5>2. caps'[p][k] = Cap(caps[current][d].type,
                                caps[current][d].rights \cap request,
                                caps[current][d].object)
          BY <3>1, <3>6, <4>2
        <5> QED
          BY <5>1, <5>2 DEF Cap
      <4> QED
        BY <4>1, <4>2
    <3> QED
      BY <2>1, <3>1, <3>2, <3>5, <3>7 DEF Younger
  <2> QED
    BY <2>2, <2>3
<1>6. ASSUME NEW c \in CapIds, Revoke(c) PROVE Older(p)
  <2>1. caps' = Left(c) /\ pid' = pid
    BY <1>6, RevokeStep
  <2>2. LiveIn(state') = LiveIn(state)
    BY <1>6, RevokeLive
  <2>3. \A k \in CapIds : caps'[p][k] \in {caps[p][k], NullCap}
    BY <1>0, <2>1, LeftSpaces
  <2> QED
    BY <1>1, <2>1, <2>2, <2>3 DEF Older
<1>7. ASSUME Running, Teardown PROVE Older(p)
  <2>1. caps' = Spared /\ pid' = pid
    BY <1>7, TeardownStep
  <2>2. p \in LiveIn(state)
    BY <1>7, TeardownLive
  <2>3. caps'[p] = ForgetCaps(p, Own)
    BY <1>0, <2>1, <2>2 DEF Spared
  <2>4. \A k \in CapIds : caps'[p][k] \in {caps[p][k], NullCap}
    BY <1>0, <2>3, ForgetKeeps
  <2> QED
    BY <1>1, <2>1, <2>2, <2>4 DEF Older
<1> QED
  BY <1>2, <1>3, <1>4, <1>5, <1>6, <1>7, StepCases

(* The boot processes that may not spawn still may not, and what they have *)
(* alone they still have alone.                                            *)
CannotSpawn == {b \in BootProcs : ~MaySpawn(b)}
RoleInv ==
  /\ nextId >= NumProcs
  /\ \A p \in LiveIn(state) : pid[p] \in CannotSpawn
                                => ~Holds(caps[p], "Untyped", 0, WRITE)
  /\ RolesApart

LEMMA RoleInit == Init => RoleInv
<1> SUFFICES ASSUME Init PROVE RoleInv
  OBVIOUS
<1>1. \A p \in LiveIn(state) : p \in BootProcs /\ pid[p] = p
  BY DEF Init, LiveIn, BootProcs, Procs
<1>2. ASSUME NEW p \in BootProcs, NEW k \in CapIds, NEW type, type # "Null",
             caps[p][k].type = type
      PROVE  k + 1 \in 1..Len(BootGrants[p]) /\ caps[p][k] = BootGrants[p][k + 1]
  <2>1. p \in Procs /\ NullCap.type = "Null"
    BY KernelAssumption DEF BootProcs, Procs, NullCap, Cap
  <2>2. k < Len(BootGrants[p]) /\ caps[p][k] = BootGrants[p][k + 1]
    BY <1>2, <2>1 DEF Init
  <2>3. Len(BootGrants[p]) \in Nat /\ k \in Nat
    BY KernelAssumption DEF CapIds
  <2> QED
    BY <2>2, <2>3
<1>3. \A p \in LiveIn(state) : pid[p] \in CannotSpawn
                                => ~Holds(caps[p], "Untyped", 0, WRITE)
  BY <1>1, <1>2 DEF CannotSpawn, MaySpawn, Holds
<1>4. RolesApart
  <2> SUFFICES ASSUME NEW p \in LiveIn(state), NEW k \in CapIds,
                      caps[p][k].type = "Endpoint", NEW right \in caps[p][k].rights
               PROVE  pid[p] \in Grantees(caps[p][k].object, right)
    BY DEF RolesApart, Alive
  <2>2. k + 1 \in 1..Len(BootGrants[p]) /\ caps[p][k] = BootGrants[p][k + 1]
    BY <1>1, <1>2
  <2> QED
    BY <1>1, <2>2 DEF Grantees
<1>5. nextId >= NumProcs
  BY KernelAssumption DEF Init
<1> QED
  BY <1>3, <1>4, <1>5 DEF RoleInv

LEMMA RoleStep ==
  ASSUME SafeState, AllGranted, RoleInv, [Next]_vars
  PROVE  RoleInv'
<1>1. nextId \in Nat /\ NumProcs \in Nat
  BY KernelAssumption DEF SafeState, DataTypeOK
<1>2. nextId' >= NumProcs
  <2>1. nextId' = nextId \/ nextId' = nextId + 1
    BY StepCases, QuietStep, SpawnStep, RevokeStep, TeardownStep
       DEF MakeRegion, FreeRegion
  <2> QED
    BY <1>1, <2>1 DEF RoleInv
<1>3. nextId \notin BootProcs
  BY <1>1 DEF RoleInv, BootProcs
<1>4. ASSUME NEW p \in LiveIn(state'), pid'[p] \in CannotSpawn,
             Holds(caps'[p], "Untyped", 0, WRITE)
      PROVE  FALSE
  <2>1. Older(p)
    BY <1>3, <1>4, YoungOrOld DEF Younger, CannotSpawn
  <2>2. Holds(caps[p], "Untyped", 0, WRITE)
    BY <1>4, <2>1 DEF Older, Holds
  <2> QED
    BY <1>4, <2>1, <2>2 DEF Older, RoleInv
<1>5. ASSUME NEW p \in LiveIn(state'), NEW k \in CapIds,
             caps'[p][k].type = "Endpoint", NEW right \in caps'[p][k].rights,
             <<caps'[p][k].object, right>> \in Exclusive
      PROVE  pid'[p] \in Grantees(caps'[p][k].object, right)
  <2>1. PICK ep : ep = caps'[p][k].object
    OBVIOUS
  <2>2. \A b \in Grantees(ep, right) : ~MaySpawn(b)
    BY <1>5, <2>1 DEF Exclusive
  <2>3. CASE Older(p)
    <3>1. caps'[p][k] = caps[p][k]
      BY <1>5, <2>3 DEF Older
    <3> QED
      BY <1>5, <2>3, <3>1 DEF Older, RoleInv, RolesApart, Alive
  <2>4. CASE Younger(p)
    <3>1. PICK j \in CapIds : /\ caps[current][j].type = "Endpoint"
                              /\ caps[current][j].object = ep
                              /\ right \in caps[current][j].rights
      BY <1>5, <2>1, <2>4 DEF Younger
    <3>2. pid[current] \in Grantees(ep, right)
      BY <1>5, <2>1, <2>4, <3>1 DEF Younger, RoleInv, RolesApart, Alive
    <3>3. pid[current] \in CannotSpawn
      BY <2>2, <3>2 DEF CannotSpawn, Grantees
    <3> QED
      BY <2>4, <3>3 DEF Younger, RoleInv
  <2> QED
    BY <2>3, <2>4, YoungOrOld
<1>6. RolesApart'
  BY <1>5 DEF RolesApart, Alive, Exclusive, Grantees, MaySpawn, BootCaps
<1> QED
  BY <1>2, <1>4, <1>6 DEF RoleInv, CannotSpawn, MaySpawn

(* What boot gives only to processes that cannot spawn stays with them: no *)
(* process loaded later, into whatever slot, ever has a right of theirs on *)
(* an endpoint.                                                            *)
THEOREM RolesAlwaysApart == Spec => []RolesApart
<1>1. SafeState /\ AllGranted /\ [Next]_vars => AllGranted'
  BY GrantedStep
<1>2. SafeState /\ AllGranted /\ RoleInv /\ [Next]_vars => RoleInv'
  BY RoleStep
<1>3. RoleInv => RolesApart
  BY DEF RoleInv
<1> QED
  BY <1>1, <1>2, <1>3, GrantedInit, RoleInit, KernelSafe, PTL DEF Spec

-----------------------------------------------------------------------------
(* The device window.                                                      *)

(* The space cs holds what the window w gives access to. *)
Covers(cs, w) ==
  w # NoWindow =>
    \E c \in CapIds : /\ cs[c].type = "Mmio" /\ cs[c].object = w.phys
                      /\ READ \in cs[c].rights
                      /\ w.write => WRITE \in cs[c].rights

LEMMA CoversKept ==
  ASSUME NEW cs, NEW cs2, Keeps(cs, cs2), NEW w, Covers(cs, w)
  PROVE  Covers(cs2, w)
BY DEF Covers, Keeps

LEMMA NoWindowCovered == \A cs : Covers(cs, NoWindow)
BY DEF Covers

(* A process REVOKE takes a capability from has lost its only one that is  *)
(* not a region: none of its windows is left.                              *)
LEMMA HitLosesWindows ==
  ASSUME SafeState, LedgerInv, NEW c \in CapIds, Running, NEW p \in Hit(c)
  PROVE  WindowLeft(p, Left(c)[p]) = NoWindow
<1>1. PICK d \in Gone(c) : d.proc = p
  BY DEF Hit
<1>2. d \in Reach(edges, EndAt(current, c)) /\ p \in Procs
  BY <1>1, GoneIsReach, HitAreProcs
<1>3. PICK e \in edges : e.child = d
  BY <1>2, ReachHasSource
<1>4. \A k \in CapIds \ {0} : caps[p][k].type \in {"Null", "Region"}
  BY <1>1, <1>3 DEF LedgerInv, LedgerShape
<1>5. d = EndAt(p, 0) /\ 0 \in CapIds
  BY <1>1, <1>2, <1>3, EdgeFacts DEF EndAt, End, Ends
<1>6. \A k \in CapIds : Left(c)[p][k].type \in {"Null", "Region"}
  <2> SUFFICES ASSUME NEW k \in CapIds
               PROVE  Left(c)[p][k].type \in {"Null", "Region"}
    OBVIOUS
  <2>1. Left(c)[p][k] = IF EndAt(p, k) \in Gone(c) THEN NullCap ELSE caps[p][k]
    BY <1>2 DEF Left
  <2> QED
    BY <1>1, <1>4, <1>5, <2>1 DEF NullCap, Cap
<1>7. ~HoldsMmio(Left(c)[p])
  BY <1>6 DEF HoldsMmio
<1> QED
  BY <1>7 DEF WindowLeft

WindowInv == \A p \in Procs : state[p] # Free => Covers(caps[p], window[p])

LEMMA WindowStep ==
  ASSUME SafeState, LedgerInv, WindowInv, [Next]_vars
  PROVE  WindowInv'
<1>1. /\ caps \in [Procs -> Spaces] /\ state \in [Procs -> States]
      /\ window \in [Procs -> [phys : Nat \cup {NoProc}, write : BOOLEAN]]
  BY DEF SafeState, InSync, SchedTypeOK, DataTypeOK
<1>2. Running => current \in Procs
  BY SomebodyRuns DEF SafeState
<1>3. ASSUME \A p \in Procs : Keeps(caps[p], caps'[p]), window' = window,
             LiveIn(state') \in SUBSET LiveIn(state)
      PROVE  WindowInv'
  <2> SUFFICES ASSUME NEW p \in Procs, state'[p] # Free
               PROVE  Covers(caps'[p], window'[p])
    BY DEF WindowInv, Covers
  <2>1. state[p] # Free
    BY <1>3 DEF LiveIn
  <2> QED
    BY <1>3, <2>1, CoversKept DEF WindowInv
<1>4. CASE Quiet /\ window' = window
  BY <1>3, <1>4, QuietStep, SameKeeps
<1>5. ASSUME NEW c \in CapIds, NEW answered \in BOOLEAN, MapBar(c, answered)
      PROVE  WindowInv'
  <2> DEFINE new == [phys |-> caps[current][c].object,
                     write |-> WRITE \in caps[current][c].rights]
  <2>1. /\ Running /\ Presents(c, "Mmio", READ) /\ state' = state /\ caps' = caps
        /\ \/ window' = [window EXCEPT ![current] = new]
           \/ window' = [window EXCEPT ![current] = NoWindow]
    BY <1>5 DEF MapBar
  <2>2. Covers(caps[current], new)
    BY <2>1 DEF Covers, Presents
  <2> HIDE DEF new
  <2> SUFFICES ASSUME NEW p \in Procs, state[p] # Free
               PROVE  Covers(caps[p], window'[p])
    BY <2>1 DEF WindowInv, Covers
  <2>3. \/ window'[p] = window[p]
        \/ p = current /\ window'[p] \in {new, NoWindow}
    BY <1>1, <1>2, <2>1
  <2> QED
    BY <2>2, <2>3, NoWindowCovered DEF WindowInv
<1>6. Quiet => \/ window' = window
               \/ \E c \in CapIds, answered \in BOOLEAN : MapBar(c, answered)
  <2>1. CASE Yield \/ TimerIrq \/ ConsoleIrq \/ UNCHANGED vars
    BY <2>1 DEF Yield, TimerIrq, ConsoleIrq, PreemptTrap, DeviceTrap,
                IdleInterrupt, Deliver, vars, procVars
  <2>2. ASSUME NEW c \in CapIds,
               \/ Send(c) \/ Recv(c) \/ CollectIrq(c) \/ WaitIrq(c)
               \/ MapRegion(c) \/ UnmapRegion(c)
               \/ \E d \in CapIds \cup {NoDelegate} : SpawnNoMem(c, d)
        PROVE  window' = window
    BY <2>2 DEF Send, Recv, CollectIrq, WaitIrq, MapRegion, UnmapRegion,
                SpawnNoMem, ipcUnchanged, procVars
  <2> QED
    BY <2>1, <2>2 DEF Quiet
<1>7. ASSUME NEW c \in CapIds, NEW pages, MakeRegion(c, pages) PROVE WindowInv'
  <2>1. \A q \in Procs : Keeps(caps[q], caps'[q])
    BY <1>7, MakeRegionKeeps
  <2> QED
    BY <1>3, <1>7, <2>1 DEF MakeRegion, LiveIn
<1>8. ASSUME NEW c \in CapIds, FreeRegion(c) PROVE WindowInv'
  <2>1. \A q \in Procs : Keeps(caps[q], caps'[q])
    BY <1>8, ForgetKeeps, SameKeeps DEF FreeRegion
  <2> QED
    BY <1>3, <1>8, <2>1 DEF FreeRegion, LiveIn
<1>9. ASSUME NEW c \in CapIds, NEW d \in CapIds \cup {NoDelegate},
             NEW request \in Requests, Spawn(c, d, request)
      PROVE  WindowInv'
  <2>1. /\ ChildSlot \in Procs /\ state' = [state EXCEPT ![ChildSlot] = Ready]
        /\ caps' = [caps EXCEPT ![ChildSlot] = ChildSpace(d, request)]
    BY <1>9, SpawnStep
  <2>2. window' = [window EXCEPT ![ChildSlot] = NoWindow]
    BY <1>9 DEF Spawn, ChildSlot
  <2> SUFFICES ASSUME NEW p \in Procs, state'[p] # Free
               PROVE  Covers(caps'[p], window'[p])
    BY DEF WindowInv, Covers
  <2>3. CASE p = ChildSlot
    BY <1>1, <2>2, <2>3, NoWindowCovered
  <2>4. CASE p # ChildSlot
    BY <1>1, <2>1, <2>2, <2>4 DEF WindowInv
  <2> QED
    BY <2>3, <2>4
<1>10. ASSUME NEW c \in CapIds, Revoke(c) PROVE WindowInv'
  <2>1. /\ Running /\ caps' = Left(c) /\ LiveIn(state') = LiveIn(state)
        /\ window' = [p \in Procs |->
             IF p \in Hit(c) THEN WindowLeft(p, Left(c)[p]) ELSE window[p]]
    BY <1>10, RevokeStep, RevokeLive
  <2> SUFFICES ASSUME NEW p \in Procs, state'[p] # Free
               PROVE  Covers(Left(c)[p], window'[p])
    BY <2>1 DEF WindowInv, Covers
  <2>2. CASE p \in Hit(c)
    BY <2>1, <2>2, HitLosesWindows, NoWindowCovered
  <2>3. CASE p \notin Hit(c)
    <3>1. Keeps(caps[p], Left(c)[p])
      BY <2>3, LeftSpaces DEF Keeps
    <3>2. window'[p] = window[p] /\ state[p] # Free
      BY <2>1, <2>3 DEF LiveIn
    <3> QED
      BY <3>1, <3>2, CoversKept DEF WindowInv
  <2> QED
    BY <2>2, <2>3
<1>11. ASSUME Running, Teardown PROVE WindowInv'
  <2>1. /\ caps' = Spared /\ window' = [window EXCEPT ![current] = NoWindow]
        /\ LiveIn(state') = LiveIn(state) \ {current}
    BY <1>11, TeardownStep, TeardownLive
  <2> SUFFICES ASSUME NEW p \in Procs, state'[p] # Free
               PROVE  Covers(Spared[p], window'[p])
    BY <2>1 DEF WindowInv, Covers
  <2>2. p # current /\ state[p] # Free
    BY <2>1 DEF LiveIn
  <2>3. window'[p] = window[p]
    BY <1>1, <2>1, <2>2
  <2>4. Keeps(caps[p], Spared[p])
    BY ForgetKeeps, SameKeeps DEF Spared
  <2> QED
    BY <2>2, <2>3, <2>4, CoversKept DEF WindowInv
<1> QED
  BY <1>4, <1>5, <1>6, <1>7, <1>8, <1>9, <1>10, <1>11, StepCases

(* Whatever the boot tables grant and however authority travels: a process *)
(* that can touch a device window holds a capability for that very window. *)
(* `holds_mmio` asks only for some window; it suffices because a process   *)
(* that can lose a capability to REVOKE has no other one to be asked       *)
(* about, which is what LedgerShape adds.                                  *)
THEOREM WindowAlwaysAuthorized == Spec => []WindowAuthorized
<1>1. SafeState /\ LedgerInv /\ WindowInv /\ [Next]_vars => WindowInv'
  BY WindowStep
<1>2. WindowInv => WindowAuthorized
  BY DEF WindowInv, Covers, WindowAuthorized, Alive, LiveIn
<1>3. Init => WindowInv
  BY NoWindowCovered DEF Init, WindowInv
<1> QED
  BY <1>1, <1>2, <1>3, KernelSafe, LedgerSafe, PTL DEF Spec

-----------------------------------------------------------------------------
(* Sums over finite sets.  `MapThenSumSet` is a recursive function over    *)
(* the subsets; what is wanted of it is that it is additive.               *)

(* The element the fold takes out next, and the equation of the fold. *)
Taken(s) == CHOOSE x \in s : TRUE
Folds(f, S, g) ==
  g = [s \in SUBSET S |-> IF s = {} THEN 0 ELSE f[Taken(s)] + g[s \ {Taken(s)}]]

(* g assigns every subset its sum, whichever element is taken out. *)
Measure(f, S, g) ==
  /\ g \in [SUBSET S -> Nat] /\ g[{}] = 0
  /\ \A s \in SUBSET S : \A x \in s : g[s] = f[x] + g[s \ {x}]

(* A measure exists: add the elements one by one. *)
LEMMA MeasureExists ==
  ASSUME NEW S, IsFiniteSet(S), NEW f, \A x \in S : f[x] \in Nat
  PROVE  \E g : Measure(f, S, g)
<1> DEFINE Bad == {s \in SUBSET S : ~\E g : Measure(f, s, g)}
<1> SUFFICES ASSUME Bad # {} PROVE FALSE
  OBVIOUS
<1>1. \E s \in Bad : \A t \in Bad : ~(<<t, s>> \in StrictSubsetOrdering(S))
  <2>1. FiniteSubsetsOf(S) = SUBSET S
    BY FS_FiniteSubsetsOfFinite
  <2>2. IsWellFoundedOn(StrictSubsetOrdering(S), SUBSET S)
    BY <2>1, FS_StrictSubsetOrderingWellFounded
  <2>3. Bad \subseteq SUBSET S
    OBVIOUS
  <2> HIDE DEF Bad
  <2> QED
    BY <2>2, <2>3, WFMin
<1>2. PICK s \in Bad : \A t \in Bad : ~(<<t, s>> \in StrictSubsetOrdering(S))
  BY <1>1
<1>3. s \in SUBSET S /\ ~\E g : Measure(f, s, g)
  OBVIOUS
<1>4. ASSUME NEW t \in SUBSET s, t # s PROVE \E g : Measure(f, t, g)
  <2>1. <<t, s>> \in StrictSubsetOrdering(S)
    BY <1>3, <1>4 DEF StrictSubsetOrdering
  <2> QED
    BY <1>2, <1>3, <2>1
<1> HIDE DEF Bad
<1>5. CASE s = {}
  <2> DEFINE g == [t \in SUBSET s |-> 0]
  <2>1. Measure(f, s, g)
    BY <1>5 DEF Measure
  <2> QED
    BY <1>3, <2>1
<1>6. CASE s # {}
  <2>1. PICK x \in s : TRUE
    BY <1>6
  <2>2. PICK g : Measure(f, s \ {x}, g)
    BY <1>4, <2>1
  <2> DEFINE h == [t \in SUBSET s |-> IF x \in t THEN f[x] + g[t \ {x}] ELSE g[t]]
  <2>3. \A t \in SUBSET (s \ {x}) : g[t] \in Nat
    BY <2>2 DEF Measure
  <2>4. f[x] \in Nat
    BY <1>3, <2>1
  <2>5. h \in [SUBSET s -> Nat]
    <3>1. ASSUME NEW t \in SUBSET s
          PROVE  (IF x \in t THEN f[x] + g[t \ {x}] ELSE g[t]) \in Nat
      <4>1. t \ {x} \in SUBSET (s \ {x}) /\ (x \notin t => t \in SUBSET (s \ {x}))
        OBVIOUS
      <4> QED
        BY <2>3, <2>4, <4>1
    <3> QED
      BY <3>1
  <2>6. h[{}] = 0
    BY <2>2 DEF Measure
  <2>7. ASSUME NEW t \in SUBSET s, NEW y \in t
        PROVE  h[t] = f[y] + h[t \ {y}]
    <3>0. t \ {y} \in SUBSET s /\ t \ {x} \in SUBSET s
      OBVIOUS
    <3>1. CASE y = x
      BY <2>7, <3>0, <3>1
    <3>2. CASE y # x /\ x \in t
      <4>1. h[t] = f[x] + g[t \ {x}] /\ h[t \ {y}] = f[x] + g[(t \ {y}) \ {x}]
        BY <3>0, <3>2
      <4>2. t \ {x} \in SUBSET (s \ {x}) /\ y \in t \ {x}
        BY <3>2
      <4>3. g[t \ {x}] = f[y] + g[(t \ {x}) \ {y}]
        BY <2>2, <4>2 DEF Measure
      <4>4. (t \ {x}) \ {y} = (t \ {y}) \ {x} /\ (t \ {x}) \ {y} \in SUBSET (s \ {x})
        OBVIOUS
      <4>5. g[(t \ {x}) \ {y}] \in Nat /\ f[y] \in Nat
        BY <1>3, <2>3, <4>4
      <4> HIDE DEF h
      <4>6. PICK z \in Nat : z = g[(t \ {x}) \ {y}]
        BY <4>5
      <4>7. h[t] = f[x] + (f[y] + z)
        BY <4>1, <4>3, <4>6
      <4>8. h[t \ {y}] = f[x] + z
        BY <4>1, <4>4, <4>6
      <4> QED
        BY <2>4, <4>5, <4>7, <4>8
    <3>3. CASE x \notin t
      <4>1. h[t] = g[t] /\ h[t \ {y}] = g[t \ {y}] /\ t \in SUBSET (s \ {x})
        BY <3>0, <3>3
      <4> HIDE DEF h
      <4> QED
        BY <2>2, <4>1 DEF Measure
    <3> QED
      BY <3>1, <3>2, <3>3
  <2> HIDE DEF h
  <2>8. Measure(f, s, h)
    BY <2>5, <2>6, <2>7 DEF Measure
  <2> QED
    BY <1>3, <2>8
<1> QED
  BY <1>5, <1>6

(* The fold's equation has one solution. *)
LEMMA FoldUnique ==
  ASSUME NEW S, IsFiniteSet(S), NEW f, NEW g, NEW h, Folds(f, S, g), Folds(f, S, h)
  PROVE  g = h
<1> DEFINE Bad == {s \in SUBSET S : g[s] # h[s]}
<1>1. ASSUME Bad # {} PROVE FALSE
  <2>1. FiniteSubsetsOf(S) = SUBSET S
    BY FS_FiniteSubsetsOfFinite
  <2>2. IsWellFoundedOn(StrictSubsetOrdering(S), SUBSET S)
    BY <2>1, FS_StrictSubsetOrderingWellFounded
  <2>3. Bad \subseteq SUBSET S
    OBVIOUS
  <2>4. \E s \in Bad : \A t \in Bad : ~(<<t, s>> \in StrictSubsetOrdering(S))
    <3> HIDE DEF Bad
    <3> QED
      BY <1>1, <2>2, <2>3, WFMin
  <2>5. PICK s \in Bad : \A t \in Bad : ~(<<t, s>> \in StrictSubsetOrdering(S))
    BY <2>4
  <2>6. s \in SUBSET S /\ g[s] # h[s]
    OBVIOUS
  <2>7. /\ g[s] = IF s = {} THEN 0 ELSE f[Taken(s)] + g[s \ {Taken(s)}]
        /\ h[s] = IF s = {} THEN 0 ELSE f[Taken(s)] + h[s \ {Taken(s)}]
    BY <2>6 DEF Folds
  <2>8. s # {} /\ Taken(s) \in s
    BY <2>6, <2>7 DEF Taken
  <2>9. <<s \ {Taken(s)}, s>> \in StrictSubsetOrdering(S)
    BY <2>6, <2>8 DEF StrictSubsetOrdering
  <2>10. g[s \ {Taken(s)}] = h[s \ {Taken(s)}]
    BY <2>5, <2>6, <2>9
  <2> QED
    BY <2>6, <2>7, <2>8, <2>10
<1>2. \A s \in SUBSET S : g[s] = h[s]
  BY <1>1
<1> HIDE DEF Bad
<1>3. DOMAIN g = SUBSET S /\ DOMAIN h = SUBSET S
      /\ g = [s \in SUBSET S |-> g[s]] /\ h = [s \in SUBSET S |-> h[s]]
  BY DEF Folds
<1> QED
  BY <1>2, <1>3

LEMMA MeasureFolds ==
  ASSUME NEW S, NEW f, NEW g, Measure(f, S, g)
  PROVE  Folds(f, S, g)
<1>1. ASSUME NEW s \in SUBSET S
      PROVE  g[s] = IF s = {} THEN 0 ELSE f[Taken(s)] + g[s \ {Taken(s)}]
  <2>1. s # {} => Taken(s) \in s
    BY DEF Taken
  <2> QED
    BY <2>1 DEF Measure
<1>2. g = [s \in SUBSET S |-> g[s]]
  BY DEF Measure
<1> QED
  BY <1>1, <1>2 DEF Folds

(* The sum of f over S, and of the pages of a set of regions. *)
Total(f, S) == MapThenSumSet(LAMBDA x : f[x], S)
Pages(S) == MapThenSumSet(LAMBDA r : r.pages, S)

LEMMA TotalIsMeasure ==
  ASSUME NEW S, IsFiniteSet(S), NEW f, NEW g, Measure(f, S, g)
  PROVE  Total(f, S) = g[S]
<1>1. Folds(f, S, g)
  BY MeasureFolds
<1>2. \E it : Folds(f, S, it) /\ Total(f, S) = it[S]
  BY <1>1 DEF Folds, Taken, Total, MapThenSumSet, MapThenFoldSet
<1> QED
  BY <1>1, <1>2, FoldUnique

LEMMA PagesIsMeasure ==
  ASSUME NEW S, IsFiniteSet(S), NEW f, \A r \in S : f[r] = r.pages,
         NEW g, Measure(f, S, g)
  PROVE  Pages(S) = g[S]
<1> DEFINE Eqn(it) ==
      it = [s \in SUBSET S |-> IF s = {} THEN 0
                               ELSE Taken(s).pages + it[s \ {Taken(s)}]]
<1>1. \A s \in SUBSET S : s # {} => f[Taken(s)] = Taken(s).pages
  BY DEF Taken
<1>2. \A it : Folds(f, S, it) <=> Eqn(it)
  BY <1>1 DEF Folds
<1>3. Eqn(g)
  BY <1>2, MeasureFolds
<1>4. \E it : Eqn(it) /\ Pages(S) = it[S]
  BY <1>3 DEF Taken, Pages, MapThenSumSet, MapThenFoldSet
<1> HIDE DEF Eqn
<1> QED
  BY <1>2, <1>3, <1>4, FoldUnique

(* A measure measures the subsets, and is additive. *)
LEMMA MeasureRestricts ==
  ASSUME NEW S, NEW f, NEW g, Measure(f, S, g), NEW T \in SUBSET S
  PROVE  Measure(f, T, [s \in SUBSET T |-> g[s]])
<1> DEFINE h == [s \in SUBSET T |-> g[s]]
<1>1. h \in [SUBSET T -> Nat] /\ h[{}] = 0
  BY DEF Measure
<1>2. ASSUME NEW s \in SUBSET T, NEW x \in s PROVE h[s] = f[x] + h[s \ {x}]
  <2>1. h[s] = g[s] /\ h[s \ {x}] = g[s \ {x}]
    OBVIOUS
  <2> HIDE DEF h
  <2> QED
    BY <2>1 DEF Measure
<1> HIDE DEF h
<1>3. Measure(f, T, h)
  BY <1>1, <1>2 DEF Measure
<1> QED
  BY <1>3 DEF h

LEMMA MeasureAdds ==
  ASSUME NEW S, IsFiniteSet(S), NEW f, \A x \in S : f[x] \in Nat,
         NEW g, Measure(f, S, g), NEW A \in SUBSET S
  PROVE  g[S] = g[A] + g[S \ A]
<1> DEFINE Bad == {t \in SUBSET (S \ A) : g[A \cup t] # g[A] + g[t]}
<1>1. ASSUME Bad # {} PROVE FALSE
  <2>1. FiniteSubsetsOf(S) = SUBSET S
    BY FS_FiniteSubsetsOfFinite
  <2>2. IsWellFoundedOn(StrictSubsetOrdering(S), SUBSET S)
    BY <2>1, FS_StrictSubsetOrderingWellFounded
  <2>3. Bad \subseteq SUBSET S
    OBVIOUS
  <2>4. \E s \in Bad : \A t \in Bad : ~(<<t, s>> \in StrictSubsetOrdering(S))
    <3> HIDE DEF Bad
    <3> QED
      BY <1>1, <2>2, <2>3, WFMin
  <2>5. PICK s \in Bad : \A t \in Bad : ~(<<t, s>> \in StrictSubsetOrdering(S))
    BY <2>4
  <2>6. s \in SUBSET (S \ A) /\ g[A \cup s] # g[A] + g[s]
    OBVIOUS
  <2>7. \A t \in SUBSET (S \ A) :
          <<t, s>> \in StrictSubsetOrdering(S) => g[A \cup t] = g[A] + g[t]
    BY <2>5
  <2> HIDE DEF Bad
  <2>8. ASSUME s = {} PROVE FALSE
    <3>1. A \cup s = A /\ g[s] = 0 /\ g[A] \in Nat
      BY <2>8 DEF Measure
    <3> QED
      BY <2>6, <3>1
  <2>9. PICK x \in s : TRUE
    BY <2>8
  <2> DEFINE t == s \ {x}
  <2>10. /\ t \in SUBSET (S \ A) /\ <<t, s>> \in StrictSubsetOrdering(S)
         /\ A \cup s \in SUBSET S /\ (A \cup s) \ {x} = A \cup t /\ x \in A \cup s
         /\ s \in SUBSET S /\ t \in SUBSET S
    BY <2>6, <2>9 DEF StrictSubsetOrdering
  <2>11. g[A \cup t] = g[A] + g[t]
    BY <2>7, <2>10
  <2>12. g[A \cup s] = f[x] + g[(A \cup s) \ {x}] /\ g[s] = f[x] + g[t]
    BY <2>9, <2>10 DEF Measure
  <2>13. f[x] \in Nat /\ g[A] \in Nat /\ g[t] \in Nat
    BY <2>6, <2>9, <2>10 DEF Measure
  <2> HIDE DEF t
  <2>14. g[A \cup s] = f[x] + (g[A] + g[t])
    BY <2>10, <2>11, <2>12
  <2> QED
    BY <2>6, <2>12, <2>13, <2>14
<1>2. g[A \cup (S \ A)] = g[A] + g[S \ A]
  BY <1>1
<1>3. A \cup (S \ A) = S
  OBVIOUS
<1> HIDE DEF Bad
<1> QED
  BY <1>2, <1>3

(* Sums of natural numbers are natural numbers; an element can be taken    *)
(* out; and equal terms have equal sums.                                   *)
LEMMA TotalTakes ==
  ASSUME NEW S, IsFiniteSet(S), NEW f, \A x \in S : f[x] \in Nat
  PROVE  /\ Total(f, S) \in Nat
         /\ \A x \in S : Total(f, S) = f[x] + Total(f, S \ {x})
         /\ Total(f, {}) = 0
<1>1. PICK g : Measure(f, S, g)
  BY MeasureExists
<1>2. ASSUME NEW T \in SUBSET S PROVE Total(f, T) = g[T]
  <2> DEFINE h == [s \in SUBSET T |-> g[s]]
  <2>1. Measure(f, T, h)
    BY <1>1, MeasureRestricts
  <2>2. IsFiniteSet(T)
    BY FS_Subset
  <2>3. h[T] = g[T]
    OBVIOUS
  <2> HIDE DEF h
  <2> QED
    BY <2>1, <2>2, <2>3, TotalIsMeasure
<1>3. Total(f, S) = g[S] /\ Total(f, {}) = g[{}]
  BY <1>2
<1>4. \A x \in S : Total(f, S \ {x}) = g[S \ {x}]
  BY <1>2
<1> QED
  BY <1>1, <1>3, <1>4 DEF Measure

LEMMA TotalSame ==
  ASSUME NEW S, IsFiniteSet(S), NEW f, NEW h, \A x \in S : f[x] \in Nat,
         \A x \in S : h[x] = f[x]
  PROVE  Total(h, S) = Total(f, S)
<1>1. PICK g : Measure(f, S, g)
  BY MeasureExists
<1>2. Measure(h, S, g)
  BY <1>1 DEF Measure
<1> QED
  BY <1>1, <1>2, TotalIsMeasure

(* Changing one term changes the sum by as much. *)
LEMMA TotalChanges ==
  ASSUME NEW S, IsFiniteSet(S), NEW f, NEW h, NEW p \in S, NEW n \in Nat,
         \A x \in S : f[x] \in Nat, h[p] = n, \A x \in S \ {p} : h[x] = f[x]
  PROVE  Total(h, S) + f[p] = Total(f, S) + n
<1>1. \A x \in S : h[x] \in Nat
  OBVIOUS
<1>2. IsFiniteSet(S \ {p})
  BY FS_Subset
<1>3. Total(h, S \ {p}) = Total(f, S \ {p}) /\ Total(f, S \ {p}) \in Nat
  BY <1>1, <1>2, TotalSame, TotalTakes
<1>4. Total(h, S) = n + Total(h, S \ {p}) /\ Total(f, S) = f[p] + Total(f, S \ {p})
  BY <1>1, TotalTakes
<1> QED
  BY <1>3, <1>4

(* The pages of a set of regions are those of its two parts. *)
LEMMA PagesSplit ==
  ASSUME NEW S, IsFiniteSet(S), \A r \in S : r.pages \in Nat, NEW A \in SUBSET S
  PROVE  /\ Pages(S) = Pages(A) + Pages(S \ A)
         /\ Pages(S) \in Nat /\ Pages(A) \in Nat /\ Pages(S \ A) \in Nat
<1> DEFINE f == [r \in S |-> r.pages]
<1>1. \A r \in S : f[r] = r.pages /\ f[r] \in Nat
  OBVIOUS
<1> HIDE DEF f
<1>2. PICK g : Measure(f, S, g)
  BY <1>1, MeasureExists
<1>3. ASSUME NEW T \in SUBSET S PROVE Pages(T) = g[T]
  <2> DEFINE h == [s \in SUBSET T |-> g[s]]
  <2>1. Measure(f, T, h)
    BY <1>2, MeasureRestricts
  <2>2. IsFiniteSet(T)
    BY FS_Subset
  <2>3. h[T] = g[T]
    OBVIOUS
  <2> HIDE DEF h
  <2> QED
    BY <1>1, <2>1, <2>2, <2>3, PagesIsMeasure
<1>4. g[S] = g[A] + g[S \ A]
  BY <1>1, <1>2, MeasureAdds
<1>5. S \ A \in SUBSET S /\ S \in SUBSET S
  OBVIOUS
<1> QED
  BY <1>2, <1>3, <1>4, <1>5 DEF Measure

LEMMA PagesOfOne ==
  ASSUME NEW r, r.pages \in Nat
  PROVE  Pages({r}) = r.pages
<1> DEFINE f == [x \in {r} |-> x.pages]
<1>1. IsFiniteSet({r}) /\ \A x \in {r} : f[x] = x.pages /\ f[x] \in Nat
  BY FS_Singleton
<1> HIDE DEF f
<1>2. PICK g : Measure(f, {r}, g)
  BY <1>1, MeasureExists
<1>3. Pages({r}) = g[{r}]
  BY <1>1, <1>2, PagesIsMeasure
<1>4. {r} \ {r} = {} /\ g[{}] = 0 /\ g[{r}] = f[r] + g[{r} \ {r}]
  BY <1>2 DEF Measure
<1> QED
  BY <1>1, <1>3, <1>4

LEMMA PagesOfNone == Pages({}) = 0
<1>1. IsFiniteSet({})
  BY FS_EmptySet
<1> DEFINE f == [x \in {} |-> 0]
<1>2. PICK g : Measure(f, {}, g)
  BY <1>1, MeasureExists
<1>3. Pages({}) = g[{}]
  BY <1>1, <1>2, PagesIsMeasure
<1> QED
  BY <1>2, <1>3 DEF Measure

-----------------------------------------------------------------------------
(* Regions.                                                                *)

(* Identities are not reused: a region's is below the next one. *)
RegionsFresh == \A r \in regions : r.id \in Nat \ {0} /\ r.id < nextRegion

(* A region somebody names exists, ... *)
RegionsNamed ==
  \A p \in Procs, k \in CapIds :
    state[p] # Free /\ caps[p][k].type = "Region" => caps[p][k].object \in RegionIds

(* ... nobody names it twice, so that whoever loses a capability for it    *)
(* loses all its rights to it, ...                                         *)
OneCapEach ==
  \A p \in Procs, j, k \in CapIds :
    (/\ state[p] # Free /\ caps[p][j].type = "Region" /\ caps[p][k].type = "Region"
     /\ caps[p][j].object = caps[p][k].object) => j = k

(* ... it belongs to somebody alive, ...                                   *)
RegionsOwned == \A r \in regions : \E p \in Procs : state[p] # Free /\ pid[p] = r.owner

(* ... and a mapping is recorded and held.                                 *)
Maps(cs, sh, lf) ==
  \A s \in Shares : lf[s] # Unmapped =>
    /\ sh[s] = lf[s].region
    /\ HoldsRegion(cs, lf[s].region, READ)
    /\ lf[s].write => HoldsRegion(cs, lf[s].region, WRITE)

RegionsMapped ==
  \A p \in Procs :
    IF state[p] = Free THEN \A s \in Shares : leaf[p][s] = Unmapped
                       ELSE Maps(caps[p], shares[p], leaf[p])

RegionInv ==
  RegionsFresh /\ RegionsNamed /\ OneCapEach /\ RegionsOwned /\ RegionsMapped

LEMMA RegionInvIs == RegionInv => MappingAuthorized
<1> SUFFICES ASSUME RegionInv PROVE MappingAuthorized
  OBVIOUS
<1>1. ASSUME NEW p \in Procs, NEW s \in Shares, leaf[p][s] # Unmapped
      PROVE  /\ p \in Alive
             /\ shares[p][s] = leaf[p][s].region
             /\ HoldsRegion(caps[p], leaf[p][s].region, READ)
             /\ leaf[p][s].write => HoldsRegion(caps[p], leaf[p][s].region, WRITE)
  BY <1>1 DEF RegionInv, RegionsMapped, Maps, Alive, LiveIn
<1>2. \A p \in Alive, c \in CapIds :
        caps[p][c].type = "Region" => caps[p][c].object \in RegionIds
  BY DEF RegionInv, RegionsNamed, Alive, LiveIn
<1>3. \A r \in regions : \E p \in Alive : pid[p] = r.owner
  BY DEF RegionInv, RegionsOwned, Alive, LiveIn
<1> QED
  BY <1>1, <1>2, <1>3 DEF MappingAuthorized

(* A space that keeps the capabilities of the regions outside R keeps what *)
(* the mappings outside R rest on.                                         *)
LEMMA DropMaps ==
  ASSUME NEW p \in Procs, NEW R, NEW cs2, Maps(caps[p], shares[p], leaf[p]),
         \A k \in CapIds : caps[p][k].type = "Region" /\ caps[p][k].object \notin R
                             => cs2[k] = caps[p][k]
  PROVE  Maps(cs2, DropShares(p, R), DropLeaves(p, R))
<1> SUFFICES ASSUME NEW s \in Shares, DropLeaves(p, R)[s] # Unmapped
             PROVE  LET l == DropLeaves(p, R)[s]
                    IN  /\ DropShares(p, R)[s] = l.region
                        /\ HoldsRegion(cs2, l.region, READ)
                        /\ l.write => HoldsRegion(cs2, l.region, WRITE)
  BY DEF Maps
<1>1. /\ shares[p][s] \notin R /\ DropLeaves(p, R)[s] = leaf[p][s]
      /\ DropShares(p, R)[s] = shares[p][s]
  BY DEF DropLeaves, DropShares
<1>2. /\ shares[p][s] = leaf[p][s].region
      /\ HoldsRegion(caps[p], leaf[p][s].region, READ)
      /\ leaf[p][s].write => HoldsRegion(caps[p], leaf[p][s].region, WRITE)
  BY <1>1 DEF Maps
<1>3. \A right : HoldsRegion(caps[p], leaf[p][s].region, right)
                   => HoldsRegion(cs2, leaf[p][s].region, right)
  BY <1>1, <1>2 DEF HoldsRegion, Holds
<1> QED
  BY <1>1, <1>2, <1>3

(* Nothing mapped is trivially held. *)
LEMMA UnmappedMaps ==
  ASSUME NEW cs, NEW sh, NEW lf, \A s \in Shares : lf[s] = Unmapped
  PROVE  Maps(cs, sh, lf)
BY DEF Maps

(* The steps that touch neither a capability nor a mapping. *)
LEMMA RegionsAside ==
  ASSUME RegionInv, caps' = caps, pid' = pid, regions' = regions,
         nextRegion' = nextRegion, shares' = shares, leaf' = leaf,
         LiveIn(state') = LiveIn(state)
  PROVE  RegionInv'
<1>1. \A p \in Procs : state'[p] # Free <=> state[p] # Free
  BY DEF LiveIn
<1>2. RegionsFresh' /\ RegionsNamed' /\ OneCapEach' /\ RegionsOwned'
  BY <1>1 DEF RegionInv, RegionsFresh, RegionsNamed, OneCapEach, RegionsOwned,
              RegionIds
<1>3. RegionsMapped'
  BY <1>1 DEF RegionInv, RegionsMapped, Maps
<1> QED
  BY <1>2, <1>3 DEF RegionInv

LEMMA QuietAside ==
  ASSUME Quiet
  PROVE  \/ shares' = shares /\ leaf' = leaf
         \/ \E c \in CapIds : MapRegion(c) \/ UnmapRegion(c)
<1>1. CASE Yield \/ TimerIrq \/ ConsoleIrq \/ UNCHANGED vars
  BY <1>1 DEF Yield, TimerIrq, ConsoleIrq, PreemptTrap, DeviceTrap,
              IdleInterrupt, Deliver, vars, procVars
<1>2. ASSUME NEW c \in CapIds,
             \/ Send(c) \/ Recv(c) \/ CollectIrq(c) \/ WaitIrq(c)
             \/ \E answered \in BOOLEAN : MapBar(c, answered)
             \/ \E d \in CapIds \cup {NoDelegate} : SpawnNoMem(c, d)
      PROVE  shares' = shares /\ leaf' = leaf
  BY <1>2 DEF Send, Recv, CollectIrq, WaitIrq, MapBar, SpawnNoMem,
              ipcUnchanged, procVars
<1> QED
  BY <1>1, <1>2 DEF Quiet

(* MAP_REGION records what it maps and maps what the capability allows. *)
LEMMA RegionMap ==
  ASSUME SafeState, RegionInv, NEW c \in CapIds, MapRegion(c)
  PROVE  RegionInv'
<1> DEFINE id == caps[current][c].object
           s == Min(SlotsFor(id))
           new == [region |-> id, write |-> WRITE \in caps[current][c].rights]
<1>1. /\ Running /\ Presents(c, "Region", READ) /\ SlotsFor(id) # {}
      /\ id \in RegionIds
      /\ caps' = caps /\ pid' = pid /\ state' = state /\ regions' = regions
      /\ nextRegion' = nextRegion
      /\ \/ /\ shares' = [shares EXCEPT ![current][s] = id]
            /\ leaf' = [leaf EXCEPT ![current][s] = new]
         \/ /\ shares' = shares
            /\ leaf' = [leaf EXCEPT ![current][s] = Unmapped]
  BY DEF MapRegion, regionVars
<1>2. /\ current \in Procs /\ state[current] = Ready
      /\ shares \in [Procs -> [Shares -> Nat]]
      /\ leaf \in [Procs -> [Shares -> [region : Nat, write : BOOLEAN]]]
  BY <1>1, SomebodyRuns DEF SafeState, DataTypeOK
<1>3. s \in Shares
  <2>1. SlotsFor(id) \in SUBSET Shares /\ Shares \in SUBSET Nat
    BY KernelAssumption DEF SlotsFor, Shares
  <2> QED
    BY <1>1, <2>1, MinMember
<1>4. /\ HoldsRegion(caps[current], id, READ)
      /\ new.region = id /\ (new.write => HoldsRegion(caps[current], id, WRITE))
  BY <1>1 DEF Presents, HoldsRegion, Holds
<1> HIDE DEF s, id, new
<1>5. ASSUME NEW p \in Procs, state[p] # Free
      PROVE  Maps(caps[p], shares'[p], leaf'[p])
  <2> SUFFICES ASSUME NEW x \in Shares, leaf'[p][x] # Unmapped
               PROVE  /\ shares'[p][x] = leaf'[p][x].region
                      /\ HoldsRegion(caps[p], leaf'[p][x].region, READ)
                      /\ leaf'[p][x].write
                           => HoldsRegion(caps[p], leaf'[p][x].region, WRITE)
    BY DEF Maps
  <2>1. CASE p = current /\ x = s
    <3>1. shares'[p][x] = id /\ leaf'[p][x] = new
      BY <1>1, <1>2, <1>3, <2>1
    <3> QED
      BY <1>4, <2>1, <3>1
  <2>2. CASE ~(p = current /\ x = s)
    <3>1. shares'[p][x] = shares[p][x] /\ leaf'[p][x] = leaf[p][x]
      BY <1>1, <1>2, <1>3, <2>2
    <3> QED
      BY <1>5, <3>1 DEF RegionInv, RegionsMapped, Maps
  <2> QED
    BY <2>1, <2>2
<1>6. ASSUME NEW p \in Procs, state[p] = Free
      PROVE  \A x \in Shares : leaf'[p][x] = Unmapped
  <2>1. leaf'[p] = leaf[p]
    BY <1>1, <1>2, <1>6, PlainStates
  <2> QED
    BY <1>6, <2>1 DEF RegionInv, RegionsMapped
<1>7. RegionsMapped'
  BY <1>1, <1>5, <1>6 DEF RegionsMapped, Maps
<1> QED
  BY <1>1, <1>7 DEF RegionInv, RegionsFresh, RegionsNamed, OneCapEach,
                    RegionsOwned, RegionIds

LEMMA RegionUnmap ==
  ASSUME SafeState, RegionInv, NEW c \in CapIds, UnmapRegion(c)
  PROVE  RegionInv'
<1> DEFINE R == {caps[current][c].object}
<1>1. /\ Running
      /\ caps' = caps /\ pid' = pid /\ state' = state /\ regions' = regions
      /\ nextRegion' = nextRegion
      /\ shares' = [shares EXCEPT ![current] = DropShares(current, R)]
      /\ leaf' = [leaf EXCEPT ![current] = DropLeaves(current, R)]
  BY DEF UnmapRegion, regionVars
<1> HIDE DEF R
<1>2. /\ current \in Procs /\ state[current] = Ready
      /\ shares \in [Procs -> [Shares -> Nat]]
      /\ leaf \in [Procs -> [Shares -> [region : Nat, write : BOOLEAN]]]
  BY <1>1, SomebodyRuns DEF SafeState, DataTypeOK
<1>3. Maps(caps[current], DropShares(current, R), DropLeaves(current, R))
  BY <1>2, DropMaps, PlainStates DEF RegionInv, RegionsMapped
<1>4. ASSUME NEW p \in Procs
      PROVE  IF state[p] = Free THEN \A x \in Shares : leaf'[p][x] = Unmapped
                                ELSE Maps(caps[p], shares'[p], leaf'[p])
  <2>1. CASE p = current
    BY <1>1, <1>2, <1>3, <2>1, PlainStates
  <2>2. CASE p # current
    <3>1. shares'[p] = shares[p] /\ leaf'[p] = leaf[p]
      BY <1>1, <1>2, <2>2
    <3> QED
      BY <3>1 DEF RegionInv, RegionsMapped
  <2> QED
    BY <2>1, <2>2
<1>5. RegionsMapped'
  BY <1>1, <1>4 DEF RegionsMapped, Maps
<1> QED
  BY <1>1, <1>5 DEF RegionInv, RegionsFresh, RegionsNamed, OneCapEach,
                    RegionsOwned, RegionIds

(* MAKE_REGION names a region nobody could have named before. *)
LEMMA RegionMake ==
  ASSUME SafeState, RegionInv, NEW c \in CapIds, NEW pages, MakeRegion(c, pages)
  PROVE  RegionInv'
<1> DEFINE new == Cap("Region", caps[current][c].rights, nextRegion)
           r0 == [id |-> nextRegion, owner |-> pid[current], pages |-> pages]
<1>1. /\ Running /\ FreeCaps(caps[current]) # {}
      /\ caps' = [caps EXCEPT ![current] = Insert(caps[current], new)]
      /\ pid' = pid /\ state' = state /\ regions' = regions \cup {r0}
      /\ nextRegion' = nextRegion + 1 /\ shares' = shares /\ leaf' = leaf
  BY DEF MakeRegion
<1>2. /\ current \in Procs /\ state[current] = Ready /\ caps \in [Procs -> Spaces]
      /\ nextRegion \in Nat \ {0}
  BY <1>1, SomebodyRuns DEF SafeState, DataTypeOK
<1>3. /\ new.type = "Region" /\ new.object = nextRegion
      /\ r0.id = nextRegion /\ r0.owner = pid[current]
  BY DEF Cap
<1>4. NullCap.type = "Null"
  BY DEF NullCap, Cap
<1> DEFINE n == Min(FreeCaps(caps[current]))
<1>5. /\ n \in CapIds /\ caps[current][n] = NullCap
      /\ Insert(caps[current], new) = [caps[current] EXCEPT ![n] = new]
  BY <1>1, InsertFills
<1> HIDE DEF new, r0, n
<1>6. \A p \in Procs, k \in CapIds :
        caps'[p][k] = IF p = current /\ k = n THEN new ELSE caps[p][k]
  BY <1>1, <1>2, <1>5 DEF Spaces
<1>7. RegionsFresh'
  BY <1>1, <1>2, <1>3 DEF RegionInv, RegionsFresh
<1>8. RegionIds' = RegionIds \cup {nextRegion}
  BY <1>1, <1>3 DEF RegionIds
<1>9. RegionsNamed'
  BY <1>1, <1>3, <1>6, <1>8 DEF RegionInv, RegionsNamed
<1>10. OneCapEach'
  <2>1. \A p \in Procs, k \in CapIds :
          state[p] # Free /\ caps[p][k].type = "Region"
            => caps[p][k].object # nextRegion
    BY <1>2 DEF RegionInv, RegionsNamed, RegionsFresh, RegionIds
  <2> QED
    BY <1>1, <1>3, <1>6, <2>1 DEF RegionInv, OneCapEach
<1>11. RegionsOwned'
  BY <1>1, <1>2, <1>3, PlainStates DEF RegionInv, RegionsOwned
<1>12. RegionsMapped'
  <2>1. \A p \in Procs : \A id, right :
          HoldsRegion(caps[p], id, right) => HoldsRegion(caps'[p], id, right)
    BY <1>4, <1>5, <1>6 DEF HoldsRegion, Holds
  <2> QED
    BY <1>1, <2>1 DEF RegionInv, RegionsMapped, Maps
<1> QED
  BY <1>7, <1>9, <1>10, <1>11, <1>12 DEF RegionInv

(* Destroying regions: the mappings of each go with its capabilities, in   *)
(* every process that lives on.                                            *)
LEMMA RegionDestroy ==
  ASSUME RegionInv, NEW R, NEW st, st = state',
         \A p \in Procs : st[p] # Free =>
           /\ state[p] # Free /\ caps'[p] = ForgetCaps(p, R)
           /\ shares'[p] = DropShares(p, R) /\ leaf'[p] = DropLeaves(p, R),
         \A p \in Procs : st[p] = Free => \A s \in Shares : leaf'[p][s] = Unmapped,
         regions' = {r \in regions : r.id \notin R}, nextRegion' = nextRegion,
         \A r \in regions' : \E p \in Procs : st[p] # Free /\ pid'[p] = r.owner
  PROVE  RegionInv'
<1>1. RegionsFresh' /\ RegionsOwned'
  BY DEF RegionInv, RegionsFresh, RegionsOwned
<1>2. ASSUME NEW p \in Procs, NEW k \in CapIds, st[p] # Free,
             caps'[p][k].type = "Region"
      PROVE  caps'[p][k] = caps[p][k] /\ caps[p][k].object \notin R
  <2>1. caps'[p][k] = IF caps[p][k].type = "Region" /\ caps[p][k].object \in R
                      THEN NullCap ELSE caps[p][k]
    BY <1>2 DEF ForgetCaps
  <2>2. NullCap.type = "Null"
    BY DEF NullCap, Cap
  <2> QED
    BY <1>2, <2>1, <2>2
<1>3. RegionsNamed'
  <2>1. \A x \in RegionIds : x \notin R => x \in RegionIds'
    BY DEF RegionIds
  <2> QED
    BY <1>2, <2>1 DEF RegionInv, RegionsNamed
<1>4. OneCapEach'
  BY <1>2 DEF RegionInv, OneCapEach
<1>5. ASSUME NEW p \in Procs, st[p] # Free
      PROVE  Maps(caps'[p], shares'[p], leaf'[p])
  <2>1. Maps(caps[p], shares[p], leaf[p])
    BY <1>5 DEF RegionInv, RegionsMapped
  <2>2. \A k \in CapIds : caps[p][k].type = "Region" /\ caps[p][k].object \notin R
                            => ForgetCaps(p, R)[k] = caps[p][k]
    BY DEF ForgetCaps
  <2>3. Maps(ForgetCaps(p, R), DropShares(p, R), DropLeaves(p, R))
    BY <2>1, <2>2, DropMaps
  <2> QED
    BY <1>5, <2>3
<1>6. RegionsMapped'
  BY <1>5 DEF RegionsMapped, Maps
<1> QED
  BY <1>1, <1>3, <1>4, <1>6 DEF RegionInv

LEMMA RegionFree ==
  ASSUME SafeState, RegionInv, NEW c \in CapIds, FreeRegion(c)
  PROVE  RegionInv'
<1> DEFINE R == {caps[current][c].object}
<1>1. /\ shares' = [p \in Procs |-> IF p \in LiveIn(state)
                       THEN DropShares(p, R) ELSE shares[p]]
      /\ leaf' = [p \in Procs |-> IF p \in LiveIn(state)
                       THEN DropLeaves(p, R) ELSE leaf[p]]
      /\ caps' = [p \in Procs |-> IF p \in LiveIn(state)
                       THEN ForgetCaps(p, R) ELSE caps[p]]
      /\ pid' = pid /\ state' = state /\ nextRegion' = nextRegion
  BY DEF FreeRegion
<1>2. regions' = {r \in regions : r.id \notin R}
  BY DEF FreeRegion
<1> HIDE DEF R
<1>3. \A p \in Procs : state'[p] # Free =>
           /\ state[p] # Free /\ caps'[p] = ForgetCaps(p, R)
           /\ shares'[p] = DropShares(p, R) /\ leaf'[p] = DropLeaves(p, R)
  BY <1>1 DEF LiveIn
<1>4. \A p \in Procs : state'[p] = Free => \A s \in Shares : leaf'[p][s] = Unmapped
  BY <1>1 DEF LiveIn, RegionInv, RegionsMapped
<1>5. \A r \in regions' : \E p \in Procs : state'[p] # Free /\ pid'[p] = r.owner
  BY <1>1, <1>2 DEF RegionInv, RegionsOwned
<1> QED
  BY <1>1, <1>2, <1>3, <1>4, <1>5, RegionDestroy

LEMMA RegionTeardown ==
  ASSUME SafeState, RegionInv, Running, Teardown
  PROVE  RegionInv'
<1>1. /\ shares' = [p \in Procs |->
           IF p = current THEN [s \in Shares |-> NoRegion]
           ELSE IF p \in LiveIn(state) THEN DropShares(p, Own) ELSE shares[p]]
      /\ leaf' = [p \in Procs |->
           IF p = current THEN [s \in Shares |-> Unmapped]
           ELSE IF p \in LiveIn(state) THEN DropLeaves(p, Own) ELSE leaf[p]]
  BY DEF Teardown, Own
<1>2. /\ caps' = Spared /\ regions' = {r \in regions : r.id \notin Own}
      /\ pid' = pid /\ nextRegion' = nextRegion
      /\ LiveIn(state') = LiveIn(state) \ {current}
  BY TeardownStep, TeardownLive
<1>3. \A p \in Procs : state'[p] # Free <=> state[p] # Free /\ p # current
  BY <1>2 DEF LiveIn
<1>4. \A p \in Procs : state'[p] # Free =>
           /\ state[p] # Free /\ caps'[p] = ForgetCaps(p, Own)
           /\ shares'[p] = DropShares(p, Own) /\ leaf'[p] = DropLeaves(p, Own)
  BY <1>1, <1>2, <1>3 DEF LiveIn, Spared
<1>5. \A p \in Procs : state'[p] = Free => \A s \in Shares : leaf'[p][s] = Unmapped
  BY <1>1, <1>3 DEF LiveIn, RegionInv, RegionsMapped
<1>6. ASSUME NEW r \in regions'
      PROVE  \E p \in Procs : state'[p] # Free /\ pid'[p] = r.owner
  <2>1. r \in regions /\ r.owner # pid[current]
    BY <1>2 DEF Own
  <2> QED
    BY <1>2, <1>3, <2>1 DEF RegionInv, RegionsOwned
<1> QED
  BY <1>2, <1>4, <1>5, <1>6, RegionDestroy

(* A new process maps nothing and names what its parent names. *)
LEMMA RegionSpawn ==
  ASSUME SafeState, RegionInv, NEW c \in CapIds,
         NEW d \in CapIds \cup {NoDelegate},
         NEW request \in Requests, Spawn(c, d, request)
  PROVE  RegionInv'
<1> DEFINE q == ChildSlot
<1>1. /\ current \in Procs /\ state[current] = Ready
      /\ q \in Procs /\ state[q] = Free
      /\ pid' = [pid EXCEPT ![q] = nextId]
      /\ state' = [state EXCEPT ![q] = Ready]
      /\ caps' = [caps EXCEPT ![q] = ChildSpace(d, request)]
      /\ d # NoDelegate => caps[current][d] # NullCap
      /\ regions' = regions /\ nextRegion' = nextRegion
  BY SpawnStep
<1>2. /\ shares' = [shares EXCEPT ![q] = [s \in Shares |-> NoRegion]]
      /\ leaf' = [leaf EXCEPT ![q] = [s \in Shares |-> Unmapped]]
  BY DEF Spawn, ChildSlot
<1>3. /\ pid \in [Procs -> Nat] /\ caps \in [Procs -> Spaces] /\ DataTypeOK
      /\ state \in [Procs -> States] /\ shares \in [Procs -> [Shares -> Nat]]
      /\ leaf \in [Procs -> [Shares -> [region : Nat, write : BOOLEAN]]]
  BY DEF SafeState, InSync, SchedTypeOK, DataTypeOK
<1>4. /\ \A k \in CapIds \ {0} : ChildSpace(d, request)[k] = NullCap
      /\ d = NoDelegate => ChildSpace(d, request) = EmptySpace
      /\ d # NoDelegate => ChildSpace(d, request)[0] =
           Cap(caps[current][d].type, caps[current][d].rights \cap request,
               caps[current][d].object)
  BY <1>1, <1>3, ChildSpaceFacts
<1> HIDE DEF q
<1>5. /\ \A p \in Procs \ {q} : /\ pid'[p] = pid[p] /\ state'[p] = state[p]
                                /\ caps'[p] = caps[p] /\ shares'[p] = shares[p]
                                /\ leaf'[p] = leaf[p]
      /\ caps'[q] = ChildSpace(d, request) /\ state'[q] = Ready
      /\ \A s \in Shares : leaf'[q][s] = Unmapped
  BY <1>1, <1>2, <1>3
<1>6. ASSUME NEW k \in CapIds, caps'[q][k].type = "Region"
      PROVE  k = 0 /\ caps'[q][k].object \in RegionIds
  <2>1. caps'[q][k] # NullCap
    BY <1>6 DEF NullCap, Cap
  <2>2. d # NoDelegate /\ k = 0
    BY <1>4, <1>5, <2>1 DEF EmptySpace
  <2>3. /\ caps'[q][k].type = caps[current][d].type
        /\ caps'[q][k].object = caps[current][d].object
        /\ d \in CapIds
    BY <1>4, <1>5, <2>2 DEF Cap
  <2> QED
    BY <1>1, <1>6, <2>2, <2>3, PlainStates DEF RegionInv, RegionsNamed
<1>7. RegionsFresh' /\ RegionIds' = RegionIds
  BY <1>1 DEF RegionInv, RegionsFresh, RegionIds
<1>8. RegionsNamed'
  BY <1>5, <1>6, <1>7 DEF RegionInv, RegionsNamed
<1>9. OneCapEach'
  BY <1>5, <1>6 DEF RegionInv, OneCapEach
<1>10. RegionsOwned'
  BY <1>1, <1>5 DEF RegionInv, RegionsOwned
<1>11. RegionsMapped'
  BY <1>5, PlainStates DEF RegionInv, RegionsMapped, Maps
<1> QED
  BY <1>7, <1>8, <1>9, <1>10, <1>11 DEF RegionInv

(* The mapped regions p may not even read any more after REVOKE. *)
Lost(c, p) ==
  {id \in {shares[p][s] : s \in Shares} :
     p \in Hit(c) /\ id # NoRegion /\ ~HoldsRegion(Left(c)[p], id, READ)}

(* REVOKE: whoever lost one of its rights to a region has lost them all,   *)
(* and with them the mapping.                                              *)
LEMMA RegionRevoke ==
  ASSUME SafeState, RegionInv, NEW c \in CapIds, Revoke(c)
  PROVE  RegionInv'
<1>1. /\ caps' = Left(c) /\ pid' = pid /\ nextRegion' = nextRegion
      /\ LiveIn(state') = LiveIn(state)
  BY RevokeStep, RevokeLive
<1>2. /\ shares' = [p \in Procs |-> DropShares(p, Lost(c, p))]
      /\ leaf' = [p \in Procs |-> DropLeaves(p, Lost(c, p))]
      /\ regions' = regions
  BY DEF Revoke, Gone, Hit, Left, Lost, regionVars
<1>3. \A p \in Procs : state'[p] # Free <=> state[p] # Free
  BY <1>1 DEF LiveIn
<1>4. NullCap.type = "Null"
  BY DEF NullCap, Cap
<1>5. \A p \in Procs, k \in CapIds : \/ caps'[p][k] = caps[p][k]
                                     \/ caps'[p][k].type = "Null"
  BY <1>1, <1>4, LeftSpaces
<1>6. RegionsFresh' /\ RegionsNamed' /\ OneCapEach' /\ RegionsOwned'
  BY <1>1, <1>2, <1>3, <1>5 DEF RegionInv, RegionsFresh, RegionsNamed,
     OneCapEach, RegionsOwned, RegionIds
<1>7. ASSUME NEW p \in Procs, state[p] # Free
      PROVE  Maps(Left(c)[p], DropShares(p, Lost(c, p)), DropLeaves(p, Lost(c, p)))
  <2> SUFFICES ASSUME NEW s \in Shares, DropLeaves(p, Lost(c, p))[s] # Unmapped
               PROVE  LET l == DropLeaves(p, Lost(c, p))[s]
                      IN  /\ DropShares(p, Lost(c, p))[s] = l.region
                          /\ HoldsRegion(Left(c)[p], l.region, READ)
                          /\ l.write => HoldsRegion(Left(c)[p], l.region, WRITE)
    BY DEF Maps
  <2> DEFINE id == shares[p][s]
  <2>1. /\ id \notin Lost(c, p) /\ DropLeaves(p, Lost(c, p))[s] = leaf[p][s]
        /\ DropShares(p, Lost(c, p))[s] = id
    BY DEF DropLeaves, DropShares
  <2>2. /\ id = leaf[p][s].region /\ HoldsRegion(caps[p], id, READ)
        /\ leaf[p][s].write => HoldsRegion(caps[p], id, WRITE)
    BY <1>7, <2>1 DEF RegionInv, RegionsMapped, Maps
  <2>3. CASE p \notin Hit(c)
    <3>1. \A k \in CapIds : Left(c)[p][k] = caps[p][k]
      BY <2>3, LeftSpaces
    <3>2. \A right : HoldsRegion(caps[p], id, right)
                       => HoldsRegion(Left(c)[p], id, right)
      BY <3>1 DEF HoldsRegion, Holds
    <3> QED
      BY <2>1, <2>2, <3>2
  <2>4. CASE p \in Hit(c)
    <3>1. id # NoRegion
      BY <1>7, <2>2 DEF HoldsRegion, Holds, RegionInv, RegionsNamed,
                        RegionsFresh, RegionIds, NoRegion
    <3>2. HoldsRegion(Left(c)[p], id, READ)
      BY <2>1, <2>4, <3>1 DEF Lost
    <3>3. PICK j \in CapIds : /\ Left(c)[p][j].type = "Region"
                              /\ Left(c)[p][j].object = id
      BY <3>2 DEF HoldsRegion, Holds
    <3>4. Left(c)[p][j] = caps[p][j]
      BY <1>1, <1>5, <3>3
    <3>5. HoldsRegion(caps[p], id, WRITE) => HoldsRegion(Left(c)[p], id, WRITE)
      BY <1>7, <3>3, <3>4 DEF HoldsRegion, Holds, RegionInv, OneCapEach
    <3> QED
      BY <2>1, <2>2, <3>2, <3>5
  <2> QED
    BY <2>3, <2>4
<1>8. ASSUME NEW p \in Procs, state[p] = Free
      PROVE  \A s \in Shares : DropLeaves(p, Lost(c, p))[s] = Unmapped
  BY <1>8 DEF DropLeaves, RegionInv, RegionsMapped
<1>9. RegionsMapped'
  BY <1>1, <1>2, <1>3, <1>7, <1>8 DEF RegionsMapped, Maps
<1> QED
  BY <1>6, <1>9 DEF RegionInv

LEMMA RegionStep ==
  ASSUME SafeState, RegionInv, [Next]_vars
  PROVE  RegionInv'
<1>1. CASE Quiet
  BY <1>1, QuietAside, QuietStep, RegionsAside, RegionMap, RegionUnmap
<1> QED
  BY <1>1, StepCases, RegionMake, RegionFree, RegionSpawn, RegionRevoke,
     RegionTeardown

LEMMA RegionInit == Init => RegionInv
<1> SUFFICES ASSUME Init PROVE RegionInv
  OBVIOUS
<1>1. ASSUME NEW p \in Procs, NEW k \in CapIds PROVE caps[p][k].type # "Region"
  <2>1. CASE p \in BootProcs /\ k < Len(BootGrants[p])
    <3>1. /\ caps[p][k] = BootGrants[p][k + 1] /\ BootGrants[p] \in Seq(Grants)
          /\ k \in Nat
      BY <2>1, KernelAssumption DEF Init, CapIds
    <3>2. k + 1 \in 1..Len(BootGrants[p])
      BY <2>1, <3>1
    <3>3. caps[p][k] \in Grants
      BY <3>1, <3>2
    <3> QED
      BY <3>3 DEF Grants
  <2>2. CASE ~(p \in BootProcs /\ k < Len(BootGrants[p]))
    BY <2>2 DEF Init, NullCap, Cap
  <2> QED
    BY <2>1, <2>2
<1>2. regions = {} /\ \A p \in Procs, s \in Shares : leaf[p][s] = Unmapped
  BY DEF Init
<1> QED
  BY <1>1, <1>2 DEF RegionInv, RegionsFresh, RegionsNamed, OneCapEach,
                    RegionsOwned, RegionsMapped, Maps

(* The regions' invariant holds in every reachable state. *)
LEMMA RegionsSafe == Spec => []RegionInv
<1>1. SafeState /\ RegionInv /\ [Next]_vars => RegionInv'
  BY RegionStep
<1> QED
  BY <1>1, RegionInit, KernelSafe, PTL DEF Spec

(* No access to a shared region survives its authority or its frames, for  *)
(* every number of processes, regions and share slots, through every order *)
(* of mapping, delegating, revoking, freeing and dying; and every region   *)
(* has a live owner, whose death will release it.                          *)
THEOREM MappingsAlwaysAuthorized == Spec => []MappingAuthorized
<1>1. RegionInv => MappingAuthorized
  BY RegionInvIs
<1> QED
  BY <1>1, RegionsSafe, PTL

-----------------------------------------------------------------------------
(* Frames.                                                                 *)

FrameTypeOK ==
  /\ nframes \in [Procs -> Nat] /\ free \in [general : Nat, dma : Nat]
  /\ tables \in [Procs -> [share : 0..TableFrames, mmio : 0..TableFrames]]
  /\ IsFiniteSet(regions) /\ \A r \in regions : r.pages \in Nat

(* What is charged to a process are its image and its page tables, and to  *)
(* an empty slot nothing.                                                  *)
FramesInUse(p) ==
  IF state[p] = Free THEN 0
  ELSE ImageFrames + tables[p].share + tables[p].mmio

FrameInv ==
  /\ FrameTypeOK
  /\ free.general + Total(nframes, Procs) = GeneralFrames
  /\ free.dma + Pages(regions) = DmaFrames
  /\ \A p \in Procs : nframes[p] = FramesInUse(p)

LEMMA FrameInvIs == FrameInv => FramesConserved
<1> SUFFICES ASSUME FrameInv PROVE FramesConserved
  OBVIOUS
<1>1. {r \in regions : r.id \in RegionIds} = regions
  BY DEF RegionIds
<1>2. PagesOf(RegionIds) = Pages(regions)
  BY <1>1 DEF PagesOf, Pages
<1>3. free.general + MapThenSumSet(LAMBDA p : nframes[p], Procs) = GeneralFrames
  BY DEF FrameInv, Total
<1>4. \A p \in Alive : nframes[p] = ImageFrames + tables[p].share + tables[p].mmio
  BY DEF FrameInv, FramesInUse, Alive, LiveIn
<1> QED
  BY <1>2, <1>3, <1>4 DEF FrameInv, FramesConserved

(* The steps that allocate nothing. *)
LEMMA FramesAside ==
  ASSUME FrameInv, nframes' = nframes, free' = free, tables' = tables,
         regions' = regions, LiveIn(state') = LiveIn(state)
  PROVE  FrameInv'
<1>1. \A p \in Procs : state'[p] = Free <=> state[p] = Free
  BY DEF LiveIn
<1>2. \A p \in Procs : nframes'[p] = FramesInUse(p)'
  BY <1>1 DEF FrameInv, FramesInUse
<1> QED
  BY <1>2 DEF FrameInv, FrameTypeOK

LEMMA QuietFrames ==
  ASSUME Quiet
  PROVE  \/ nframes' = nframes /\ free' = free /\ tables' = tables
         \/ Running /\ TakeTables("share") /\ state' = state /\ regions' = regions
         \/ Running /\ TakeTables("mmio") /\ state' = state /\ regions' = regions
<1>1. CASE Yield \/ TimerIrq \/ ConsoleIrq \/ UNCHANGED vars
  BY <1>1 DEF Yield, TimerIrq, ConsoleIrq, PreemptTrap, DeviceTrap,
              IdleInterrupt, Deliver, vars, procVars
<1>2. ASSUME NEW c \in CapIds,
             \/ Send(c) \/ Recv(c) \/ CollectIrq(c) \/ WaitIrq(c)
             \/ UnmapRegion(c)
             \/ \E d \in CapIds \cup {NoDelegate} : SpawnNoMem(c, d)
      PROVE  nframes' = nframes /\ free' = free /\ tables' = tables
  BY <1>2 DEF Send, Recv, CollectIrq, WaitIrq, UnmapRegion, SpawnNoMem,
              ipcUnchanged, procVars
<1>3. ASSUME NEW c \in CapIds, MapRegion(c)
      PROVE  Running /\ TakeTables("share") /\ state' = state /\ regions' = regions
  BY <1>3 DEF MapRegion, regionVars
<1>4. ASSUME NEW c \in CapIds, NEW answered, MapBar(c, answered)
      PROVE  Running /\ TakeTables("mmio") /\ state' = state /\ regions' = regions
  BY <1>4 DEF MapBar, regionVars
<1> QED
  BY <1>1, <1>2, <1>3, <1>4 DEF Quiet

(* Page tables: what the allocator gives is charged, also when it cannot   *)
(* give everything.                                                        *)
LEMMA FramesTables ==
  ASSUME SafeState, FrameInv, Running, NEW w \in {"share", "mmio"}, TakeTables(w),
         state' = state, regions' = regions
  PROVE  FrameInv'
<1> DEFINE got == TablesGot(w)
<1>1. /\ tables' = [tables EXCEPT ![current][w] = @ + got]
      /\ nframes' = [nframes EXCEPT ![current] = @ + got]
      /\ free' = [free EXCEPT !.general = @ - got]
  BY DEF TakeTables
<1>2. current \in Procs /\ state[current] # Free
  BY SomebodyRuns, PlainStates DEF SafeState
<1>3. /\ nframes \in [Procs -> Nat] /\ free \in [general : Nat, dma : Nat]
      /\ tables \in [Procs -> [share : 0..TableFrames, mmio : 0..TableFrames]]
      /\ TableFrames \in Nat /\ ImageFrames \in Nat
  BY KernelAssumption DEF FrameInv, FrameTypeOK
<1>4. tables[current][w] \in 0..TableFrames
  BY <1>2, <1>3
<1>5. /\ got \in Nat /\ got <= free.general
      /\ tables[current][w] + got \in 0..TableFrames
  <2>1. free.general \in Nat
    BY <1>3
  <2> QED
    BY <1>3, <1>4, <2>1 DEF TablesGot
<1> HIDE DEF got
<1>6. /\ free'.general = free.general - got /\ free'.general \in Nat
      /\ free'.dma = free.dma /\ free' \in [general : Nat, dma : Nat]
  BY <1>1, <1>3, <1>5
<1>7. nframes[current] \in Nat /\ nframes[current] + got \in Nat
  BY <1>2, <1>3, <1>5
<1>8. nframes' \in [Procs -> Nat]
  BY <1>1, <1>3, <1>7
<1>9. /\ tables' \in [Procs -> [share : 0..TableFrames, mmio : 0..TableFrames]]
      /\ \A p \in Procs \ {current} : tables'[p] = tables[p]
      /\ tables'[current].share + tables'[current].mmio
           = tables[current].share + tables[current].mmio + got
  <2>1. \A p \in Procs \ {current} : tables'[p] = tables[p]
    BY <1>1, <1>3
  <2>2. tables'[current] = [tables[current] EXCEPT ![w] = @ + got]
    BY <1>1, <1>2, <1>3
  <2>3. tables[current] \in [share : 0..TableFrames, mmio : 0..TableFrames]
    BY <1>2, <1>3
  <2>4. CASE w = "share"
    <3>1. tables'[current] = [tables[current] EXCEPT !.share = @ + got]
      BY <2>2, <2>4
    <3>2. /\ tables'[current].share = tables[current].share + got
          /\ tables'[current].mmio = tables[current].mmio
          /\ tables'[current] \in [share : 0..TableFrames, mmio : 0..TableFrames]
      BY <1>5, <2>3, <2>4, <3>1
    <3> QED
      BY <1>1, <1>2, <1>3, <1>5, <2>1, <2>3, <3>2
  <2>5. CASE w = "mmio"
    <3>1. tables'[current] = [tables[current] EXCEPT !.mmio = @ + got]
      BY <2>2, <2>5
    <3>2. /\ tables'[current].share = tables[current].share
          /\ tables'[current].mmio = tables[current].mmio + got
          /\ tables'[current] \in [share : 0..TableFrames, mmio : 0..TableFrames]
      BY <1>5, <2>3, <2>5, <3>1
    <3> QED
      BY <1>1, <1>2, <1>3, <1>5, <2>1, <2>3, <3>2
  <2> QED
    BY <2>4, <2>5
<1>10. free'.general + Total(nframes', Procs) = GeneralFrames
  <2>1. IsFiniteSet(Procs)
    BY ProcsFinite
  <2>2. Total(nframes', Procs) + nframes[current]
          = Total(nframes, Procs) + (nframes[current] + got)
    <3>1. /\ \A x \in Procs : nframes[x] \in Nat
          /\ nframes'[current] = nframes[current] + got
          /\ current \in Procs /\ nframes[current] + got \in Nat
          /\ \A x \in Procs \ {current} : nframes'[x] = nframes[x]
      BY <1>1, <1>2, <1>3, <1>7
    <3> QED
      BY <2>1, <3>1, TotalChanges
  <2>3. Total(nframes, Procs) \in Nat /\ Total(nframes', Procs) \in Nat
    BY <1>3, <1>8, <2>1, TotalTakes
  <2> QED
    BY <1>3, <1>5, <1>6, <1>7, <2>2, <2>3 DEF FrameInv
<1>11. \A p \in Procs : nframes'[p] = FramesInUse(p)'
  <2> SUFFICES ASSUME NEW p \in Procs
               PROVE  nframes'[p] = IF state[p] = Free THEN 0 ELSE
                        ImageFrames + tables'[p].share + tables'[p].mmio
    BY DEF FramesInUse
  <2>1. CASE p # current
    BY <1>1, <1>3, <1>9, <2>1 DEF FrameInv, FramesInUse
  <2>2. CASE p = current
    <3>1. nframes'[p] = nframes[current] + got
      BY <1>1, <1>2, <1>3, <2>2
    <3>2. nframes[current] = ImageFrames + tables[current].share + tables[current].mmio
      BY <1>2 DEF FrameInv, FramesInUse
    <3>3. /\ tables[current].share \in Nat /\ tables[current].mmio \in Nat
          /\ tables'[current].share \in Nat /\ tables'[current].mmio \in Nat
      BY <1>2, <1>3, <1>9
    <3> QED
      BY <1>2, <1>3, <1>5, <1>9, <2>2, <3>1, <3>2, <3>3
  <2> QED
    BY <2>1, <2>2
<1> QED
  BY <1>6, <1>8, <1>9, <1>10, <1>11 DEF FrameInv, FrameTypeOK

LEMMA FramesMakeRegion ==
  ASSUME SafeState, RegionInv, FrameInv, NEW c \in CapIds,
         NEW pages \in 1..RegionMaxPages, MakeRegion(c, pages)
  PROVE  FrameInv'
<1> DEFINE r0 == [id |-> nextRegion, owner |-> pid[current], pages |-> pages]
<1>1. /\ regions' = regions \cup {r0} /\ free.dma >= pages
      /\ free' = [free EXCEPT !.dma = @ - pages]
      /\ nframes' = nframes /\ tables' = tables /\ state' = state
  BY DEF MakeRegion
<1>2. pages \in Nat /\ free \in [general : Nat, dma : Nat] /\ DmaFrames \in Nat
      /\ IsFiniteSet(regions) /\ \A r \in regions : r.pages \in Nat
  BY KernelAssumption, SMTT(30) DEF FrameInv, FrameTypeOK
<1>3. r0.pages = pages /\ r0.id = nextRegion /\ nextRegion \in Nat
  BY DEF SafeState, DataTypeOK
<1> HIDE DEF r0
<1>4. r0 \notin regions
  BY <1>3 DEF RegionInv, RegionsFresh
<1>5. /\ IsFiniteSet(regions') /\ \A r \in regions' : r.pages \in Nat
  BY <1>1, <1>2, <1>3, FS_AddElement
<1>6. Pages(regions') = pages + Pages(regions) /\ Pages(regions) \in Nat
  <2>1. regions \in SUBSET regions' /\ regions' \ regions = {r0}
    BY <1>1, <1>4
  <2>2. /\ Pages(regions') = Pages(regions) + Pages({r0})
        /\ Pages(regions) \in Nat /\ Pages({r0}) \in Nat
    BY <1>5, <2>1, PagesSplit
  <2>3. Pages({r0}) = pages
    BY <1>2, <1>3, PagesOfOne
  <2> QED
    BY <1>2, <2>2, <2>3
<1>7. /\ free' \in [general : Nat, dma : Nat] /\ free'.general = free.general
      /\ free'.dma = free.dma - pages
  BY <1>1, <1>2
<1>8. free'.dma + Pages(regions') = DmaFrames
  BY <1>1, <1>2, <1>6, <1>7 DEF FrameInv
<1>9. \A p \in Procs : nframes'[p] = FramesInUse(p)'
  BY <1>1 DEF FrameInv, FramesInUse
<1> QED
  BY <1>1, <1>5, <1>7, <1>8, <1>9 DEF FrameInv, FrameTypeOK

(* The frames of the regions R go back to the arena. *)
LEMMA RegionsReleased ==
  ASSUME FrameInv, NEW R, regions' = {r \in regions : r.id \notin R},
         free'.dma = free.dma + PagesOf(R)
  PROVE  /\ IsFiniteSet(regions') /\ \A r \in regions' : r.pages \in Nat
         /\ PagesOf(R) \in Nat
         /\ free'.dma + Pages(regions') = DmaFrames
<1> DEFINE A == {r \in regions : r.id \in R}
<1>1. IsFiniteSet(regions) /\ (\A r \in regions : r.pages \in Nat) /\ free.dma \in Nat
  BY DEF FrameInv, FrameTypeOK
<1>2. A \in SUBSET regions /\ regions \ A = regions' /\ PagesOf(R) = Pages(A)
  BY DEF PagesOf, Pages
<1> HIDE DEF A
<1>3. /\ Pages(regions) = Pages(A) + Pages(regions') /\ Pages(A) \in Nat
      /\ Pages(regions') \in Nat
  BY <1>1, <1>2, PagesSplit
<1>4. IsFiniteSet(regions') /\ \A r \in regions' : r.pages \in Nat
  BY <1>1, FS_Subset
<1> QED
  BY <1>1, <1>2, <1>3, <1>4 DEF FrameInv

LEMMA FramesFreeRegion ==
  ASSUME SafeState, FrameInv, NEW c \in CapIds, FreeRegion(c)
  PROVE  FrameInv'
<1> DEFINE R == {caps[current][c].object}
<1>1. /\ free' = [free EXCEPT !.dma = @ + PagesOf(R)]
      /\ nframes' = nframes /\ tables' = tables /\ state' = state
  BY DEF FreeRegion
<1>2. regions' = {r \in regions : r.id \notin R}
  BY DEF FreeRegion
<1> HIDE DEF R
<1>3. free \in [general : Nat, dma : Nat]
  BY DEF FrameInv, FrameTypeOK
<1>4. free'.general = free.general /\ free'.dma = free.dma + PagesOf(R)
  BY <1>1, <1>3
<1>5. /\ IsFiniteSet(regions') /\ \A r \in regions' : r.pages \in Nat
      /\ PagesOf(R) \in Nat
      /\ free'.dma + Pages(regions') = DmaFrames
  BY <1>2, <1>4, RegionsReleased
<1>6. free' \in [general : Nat, dma : Nat]
  BY <1>1, <1>3, <1>5
<1>7. \A p \in Procs : nframes'[p] = FramesInUse(p)'
  BY <1>1 DEF FrameInv, FramesInUse
<1> QED
  BY <1>1, <1>4, <1>5, <1>6, <1>7 DEF FrameInv, FrameTypeOK

LEMMA FramesSpawn ==
  ASSUME SafeState, FrameInv, NEW c \in CapIds, NEW d \in CapIds \cup {NoDelegate},
         NEW request \in Requests, Spawn(c, d, request)
  PROVE  FrameInv'
<1> DEFINE q == ChildSlot
<1>1. /\ q \in Procs /\ state[q] = Free /\ regions' = regions
      /\ state' = [state EXCEPT ![q] = Ready]
  BY SpawnStep
<1>2. /\ tables' = [tables EXCEPT ![q] = [share |-> 0, mmio |-> 0]]
      /\ nframes' = [nframes EXCEPT ![q] = ImageFrames]
      /\ free' = [free EXCEPT !.general = @ - ImageFrames]
      /\ SpawnAnswer(c, d) = "OK"
  BY DEF Spawn, ChildSlot
<1>3. ~(free.general < ImageFrames)
  BY <1>2 DEF SpawnAnswer
<1> HIDE DEF q
<1>4. /\ nframes \in [Procs -> Nat] /\ free \in [general : Nat, dma : Nat]
      /\ tables \in [Procs -> [share : 0..TableFrames, mmio : 0..TableFrames]]
      /\ TableFrames \in Nat /\ ImageFrames \in Nat /\ state \in [Procs -> States]
  BY KernelAssumption DEF FrameInv, FrameTypeOK, SafeState, InSync, SchedTypeOK
<1>5. free.general \in Nat
  BY <1>4
<1>6. /\ free'.general = free.general - ImageFrames /\ free'.general \in Nat
      /\ free'.dma = free.dma /\ free' \in [general : Nat, dma : Nat]
  BY <1>2, <1>3, <1>4, <1>5
<1>7. /\ nframes' \in [Procs -> Nat]
      /\ tables' \in [Procs -> [share : 0..TableFrames, mmio : 0..TableFrames]]
  <2>1. [share |-> 0, mmio |-> 0] \in [share : 0..TableFrames, mmio : 0..TableFrames]
    BY <1>4
  <2> QED
    BY <1>2, <1>4, <2>1
<1>8. nframes[q] = 0
  BY <1>1 DEF FrameInv, FramesInUse
<1>9. free'.general + Total(nframes', Procs) = GeneralFrames
  <2>1. IsFiniteSet(Procs)
    BY ProcsFinite
  <2>2. Total(nframes', Procs) + nframes[q] = Total(nframes, Procs) + ImageFrames
    <3>1. /\ \A x \in Procs : nframes[x] \in Nat
          /\ nframes'[q] = ImageFrames /\ q \in Procs /\ ImageFrames \in Nat
          /\ \A x \in Procs \ {q} : nframes'[x] = nframes[x]
      BY <1>1, <1>2, <1>4
    <3> QED
      BY <2>1, <3>1, TotalChanges
  <2>3. Total(nframes, Procs) \in Nat /\ Total(nframes', Procs) \in Nat
    BY <1>4, <1>7, <2>1, TotalTakes
  <2> QED
    BY <1>4, <1>5, <1>6, <1>8, <2>2, <2>3 DEF FrameInv
<1>10. ASSUME NEW p \in Procs PROVE nframes'[p] = FramesInUse(p)'
  <2>1. CASE p # q
    <3>1. nframes'[p] = nframes[p] /\ tables'[p] = tables[p] /\ state'[p] = state[p]
      BY <1>1, <1>2, <1>4, <2>1
    <3> QED
      BY <3>1 DEF FrameInv, FramesInUse
  <2>2. CASE p = q
    <3>1. /\ nframes'[p] = ImageFrames /\ tables'[p].share = 0
          /\ tables'[p].mmio = 0 /\ state'[p] = Ready
      BY <1>1, <1>2, <1>4, <2>2
    <3> QED
      BY <1>4, <3>1, PlainStates DEF FramesInUse
  <2> QED
    BY <2>1, <2>2
<1> QED
  BY <1>1, <1>6, <1>7, <1>9, <1>10 DEF FrameInv, FrameTypeOK

LEMMA FramesTeardown ==
  ASSUME SafeState, FrameInv, Running, Teardown
  PROVE  FrameInv'
<1>1. /\ tables' = [tables EXCEPT ![current] = [share |-> 0, mmio |-> 0]]
      /\ nframes' = [nframes EXCEPT ![current] = 0]
      /\ free' = [general |-> free.general + nframes[current],
                  dma     |-> free.dma + PagesOf(Own)]
  BY DEF Teardown, Own
<1>2. /\ regions' = {r \in regions : r.id \notin Own}
      /\ LiveIn(state') = LiveIn(state) \ {current}
  BY TeardownStep, TeardownLive
<1>3. /\ nframes \in [Procs -> Nat] /\ free \in [general : Nat, dma : Nat]
      /\ tables \in [Procs -> [share : 0..TableFrames, mmio : 0..TableFrames]]
      /\ TableFrames \in Nat /\ current \in Procs
  BY KernelAssumption, SomebodyRuns DEF FrameInv, FrameTypeOK, SafeState
<1>4. /\ free'.general = free.general + nframes[current]
      /\ free'.dma = free.dma + PagesOf(Own)
  BY <1>1
<1>5. /\ IsFiniteSet(regions') /\ \A r \in regions' : r.pages \in Nat
      /\ PagesOf(Own) \in Nat
      /\ free'.dma + Pages(regions') = DmaFrames
  BY <1>2, <1>4, RegionsReleased
<1>6. /\ free.general \in Nat /\ nframes[current] \in Nat
      /\ free' \in [general : Nat, dma : Nat]
  BY <1>1, <1>3, <1>5
<1>7. /\ nframes' \in [Procs -> Nat]
      /\ tables' \in [Procs -> [share : 0..TableFrames, mmio : 0..TableFrames]]
  BY <1>1, <1>3
<1>8. free'.general + Total(nframes', Procs) = GeneralFrames
  <2>1. IsFiniteSet(Procs)
    BY ProcsFinite
  <2>2. Total(nframes', Procs) + nframes[current] = Total(nframes, Procs) + 0
    <3>1. /\ \A x \in Procs : nframes[x] \in Nat
          /\ nframes'[current] = 0 /\ current \in Procs
          /\ \A x \in Procs \ {current} : nframes'[x] = nframes[x]
      BY <1>1, <1>3
    <3> QED
      BY <2>1, <3>1, TotalChanges
  <2>3. Total(nframes, Procs) \in Nat /\ Total(nframes', Procs) \in Nat
    BY <1>3, <1>7, <2>1, TotalTakes
  <2> QED
    BY <1>4, <1>6, <2>2, <2>3 DEF FrameInv
<1>9. ASSUME NEW p \in Procs PROVE nframes'[p] = FramesInUse(p)'
  <2>1. state'[p] # Free <=> state[p] # Free /\ p # current
    BY <1>2 DEF LiveIn
  <2>2. CASE p # current
    <3>1. nframes'[p] = nframes[p] /\ tables'[p] = tables[p]
      BY <1>1, <1>3, <2>2
    <3> QED
      BY <2>1, <2>2, <3>1 DEF FrameInv, FramesInUse
  <2>3. CASE p = current
    BY <1>1, <1>3, <2>1, <2>3 DEF FramesInUse
  <2> QED
    BY <2>2, <2>3
<1> QED
  BY <1>5, <1>6, <1>7, <1>8, <1>9 DEF FrameInv, FrameTypeOK

LEMMA FrameStep ==
  ASSUME SafeState, RegionInv, FrameInv, [Next]_vars
  PROVE  FrameInv'
<1>1. CASE Quiet
  BY <1>1, QuietFrames, QuietStep, FramesAside, FramesTables
<1>2. ASSUME NEW c \in CapIds, Revoke(c) PROVE FrameInv'
  <2>1. nframes' = nframes /\ free' = free /\ tables' = tables /\ regions' = regions
    BY <1>2 DEF Revoke, regionVars
  <2> QED
    BY <1>2, <2>1, RevokeLive, FramesAside
<1> QED
  BY <1>1, <1>2, StepCases, FramesMakeRegion, FramesFreeRegion, FramesSpawn,
     FramesTeardown

(* The boot processes are charged one image each. *)
LEMMA BootFrames ==
  ASSUME NEW f, f = [p \in Procs |-> IF p \in BootProcs THEN ImageFrames ELSE 0]
  PROVE  Total(f, Procs) = NumProcs * ImageFrames
<1> DEFINE n(s) == Cardinality(s \cap BootProcs)
           g == [s \in SUBSET Procs |-> n(s) * ImageFrames]
<1>1. ImageFrames \in Nat /\ NumProcs \in Nat /\ MaxProcs \in Nat
      /\ NumProcs \in 1..MaxProcs
  BY KernelAssumption
<1>2. BootProcs \in SUBSET Procs /\ IsFiniteSet(BootProcs)
      /\ Cardinality(BootProcs) = NumProcs
  <2>1. 0 \in Int /\ NumProcs - 1 \in Int /\ (0 > NumProcs - 1 <=> FALSE)
    BY <1>1
  <2>2. IsFiniteSet(BootProcs) /\ Cardinality(BootProcs) = (NumProcs - 1) - 0 + 1
    BY <2>1, FS_Interval DEF BootProcs
  <2> QED
    BY <1>1, <2>2 DEF BootProcs, Procs
<1>3. \A s \in SUBSET Procs : n(s) \in Nat
  BY <1>2, FS_Subset, FS_CardinalityType
<1>4. \A m \in Nat : m * ImageFrames \in Nat
                     /\ (m + 1) * ImageFrames = ImageFrames + m * ImageFrames
  BY <1>1
<1>5. \A s \in SUBSET Procs : g[s] = n(s) * ImageFrames
  OBVIOUS
<1>6. g \in [SUBSET Procs -> Nat]
  BY <1>3, <1>4
<1>7. g[{}] = 0
  <2>1. n({}) = 0
    BY FS_EmptySet
  <2> QED
    BY <1>1, <1>5, <2>1
<1>8. ASSUME NEW s \in SUBSET Procs, NEW x \in s PROVE g[s] = f[x] + g[s \ {x}]
  <2>1. s \ {x} \in SUBSET Procs /\ x \in Procs /\ g[s \ {x}] = n(s \ {x}) * ImageFrames
    BY <1>5
  <2>2. CASE x \in BootProcs
    <3>1. /\ (s \ {x}) \cap BootProcs = (s \cap BootProcs) \ {x}
          /\ x \in s \cap BootProcs /\ IsFiniteSet(s \cap BootProcs)
      BY <1>2, <2>2, FS_Subset
    <3>2. Cardinality((s \cap BootProcs) \ {x}) = Cardinality(s \cap BootProcs) - 1
      BY <3>1, FS_RemoveElement
    <3>3. n(s) = n(s \ {x}) + 1
      <4>1. n(s \ {x}) = n(s) - 1
        BY ONLY <3>1, <3>2
      <4>2. n(s) \in Nat
        BY ONLY <1>3, s \in SUBSET Procs
      <4> HIDE DEF n, g
      <4> QED
        BY <4>1, <4>2
    <3>4. f[x] = ImageFrames
      BY <2>1, <2>2
    <3> HIDE DEF n, g
    <3> QED
      BY <1>3, <1>4, <1>5, <2>1, <3>3, <3>4
  <2>3. CASE x \notin BootProcs
    <3>1. (s \ {x}) \cap BootProcs = s \cap BootProcs
      BY <2>3
    <3>2. n(s \ {x}) = n(s) /\ f[x] = 0
      BY <2>1, <2>3, <3>1
    <3>3. g[s] \in Nat /\ g[s] = n(s) * ImageFrames
      BY <1>5, <1>6
    <3> HIDE DEF n, g
    <3> QED
      BY <2>1, <3>2, <3>3
  <2> QED
    BY <2>2, <2>3
<1>9. g[Procs] = NumProcs * ImageFrames
  <2>1. Procs \cap BootProcs = BootProcs
    BY <1>2
  <2>2. n(Procs) = NumProcs
    BY <1>2, <2>1
  <2> HIDE DEF n, g
  <2> QED
    BY <1>5, <2>2
<1> HIDE DEF n, g
<1>10. Measure(f, Procs, g)
  BY <1>6, <1>7, <1>8 DEF Measure
<1> QED
  BY <1>9, <1>10, ProcsFinite, TotalIsMeasure

LEMMA FrameInit == Init => FrameInv
<1> SUFFICES ASSUME Init PROVE FrameInv
  OBVIOUS
<1>1. /\ ImageFrames \in Nat /\ TableFrames \in Nat /\ DmaFrames \in Nat
      /\ GeneralFrames \in Nat /\ NumProcs \in Nat
      /\ NumProcs * ImageFrames <= GeneralFrames
  BY KernelAssumption
<1>2. /\ nframes = [p \in Procs |-> IF p \in BootProcs THEN ImageFrames ELSE 0]
      /\ tables = [p \in Procs |-> [share |-> 0, mmio |-> 0]]
      /\ state = [p \in Procs |-> IF p \in BootProcs THEN Ready ELSE Free]
      /\ regions = {}
      /\ free = [general |-> GeneralFrames - NumProcs * ImageFrames,
                 dma     |-> DmaFrames]
  BY DEF Init
<1>3. PICK n \in Nat : n = NumProcs * ImageFrames
  BY <1>1
<1>4. /\ free.general = GeneralFrames - n /\ free.dma = DmaFrames
      /\ free \in [general : Nat, dma : Nat]
  BY <1>1, <1>2, <1>3
<1>5. Total(nframes, Procs) = n
  BY <1>2, <1>3, BootFrames
<1>6. free.general + Total(nframes, Procs) = GeneralFrames
  BY <1>1, <1>4, <1>5
<1>7. free.dma + Pages(regions) = DmaFrames
  BY <1>1, <1>2, <1>4, PagesOfNone
<1>8. FrameTypeOK
  <2>1. [share |-> 0, mmio |-> 0] \in [share : 0..TableFrames, mmio : 0..TableFrames]
    BY <1>1
  <2>2. /\ nframes \in [Procs -> Nat]
        /\ tables \in [Procs -> [share : 0..TableFrames, mmio : 0..TableFrames]]
    BY <1>1, <1>2, <2>1
  <2> QED
    BY <1>2, <1>4, <2>2, FS_EmptySet DEF FrameTypeOK
<1>9. ASSUME NEW p \in Procs PROVE nframes[p] = FramesInUse(p)
  <2>1. /\ tables[p].share = 0 /\ tables[p].mmio = 0
        /\ nframes[p] = IF p \in BootProcs THEN ImageFrames ELSE 0
        /\ state[p] = IF p \in BootProcs THEN Ready ELSE Free
    BY <1>2
  <2> QED
    BY <1>1, <2>1, PlainStates DEF FramesInUse
<1> QED
  BY <1>6, <1>7, <1>8, <1>9 DEF FrameInv

(* The frames' invariant holds in every reachable state. *)
LEMMA FramesSafe == Spec => []FrameInv
<1>1. SafeState /\ RegionInv /\ FrameInv /\ [Next]_vars => FrameInv'
  BY FrameStep
<1> QED
  BY <1>1, FrameInit, KernelSafe, RegionsSafe, PTL DEF Spec

(* For every size of the two pools: a frame is free, charged to a live     *)
(* process or part of a live region, through refused spawns, half-built    *)
(* page tables, freed regions and deaths.                                  *)
THEOREM FramesAlwaysConserved == Spec => []FramesConserved
<1>1. FrameInv => FramesConserved
  BY FrameInvIs
<1> QED
  BY <1>1, FramesSafe, PTL

-----------------------------------------------------------------------------
(* The verdict.                                                            *)

(* Halting is decided by the dispatcher, from the state it leaves. *)
LEMMA HaltCases ==
  ASSUME SafeState, [Next]_vars
  PROVE  \/ halt' = halt /\ (halt = "no" \/ UNCHANGED vars)
         \/ halt = "no" /\ IsEmptyQueue(queue') /\ halt' = Verdict(state', caps', free')
<1>1. ASSUME NEW st, NEW cs, NEW q, NEW res, Dispatch(st, cs, q, res, free'),
             caps' = cs
      PROVE  \/ halt' = halt
             \/ IsEmptyQueue(queue') /\ halt' = Verdict(state', caps', free')
  BY <1>1 DEF Dispatch
<1>2. CASE UNCHANGED vars
  BY <1>2 DEF vars, schedVars
<1>3. ASSUME Running, Teardown
      PROVE  /\ halt = "no"
             /\ \/ halt' = halt
                \/ IsEmptyQueue(queue') /\ halt' = Verdict(state', caps', free')
  BY <1>1, <1>3, TeardownStep DEF Running
<1>4. ASSUME NEW b, BlockCurrent(b), UNCHANGED ipcUnchanged
      PROVE  \/ halt' = halt
             \/ IsEmptyQueue(queue') /\ halt' = Verdict(state', caps', free')
  BY <1>1, <1>4 DEF BlockCurrent, ipcUnchanged
<1>5. ASSUME NEW c \in CapIds, Send(c) \/ Recv(c) \/ WaitIrq(c)
      PROVE  /\ halt = "no"
             /\ \/ halt' = halt
                \/ IsEmptyQueue(queue') /\ halt' = Verdict(state', caps', free')
  BY <1>4, <1>5 DEF Send, Recv, WaitIrq, Answer, Running
<1>6. CASE Yield \/ TimerIrq \/ ConsoleIrq
  BY <1>6, SMTT(30) DEF Yield, TimerIrq, ConsoleIrq, PreemptTrap, DeviceTrap,
              IdleInterrupt, Deliver, Running
<1>7. ASSUME NEW c \in CapIds,
             \/ CollectIrq(c) \/ MapRegion(c) \/ UnmapRegion(c) \/ FreeRegion(c)
             \/ \E pages \in 1..RegionMaxPages : MakeRegion(c, pages)
             \/ \E answered \in BOOLEAN : MapBar(c, answered)
             \/ \E d \in CapIds \cup {NoDelegate} :
                  \/ SpawnNoMem(c, d)
                  \/ \E request \in Requests : Spawn(c, d, request)
             \/ Revoke(c)
      PROVE  halt = "no" /\ halt' = halt
  BY <1>7 DEF CollectIrq, MapRegion, UnmapRegion, FreeRegion, MakeRegion, MapBar,
              SpawnNoMem, Spawn, Revoke, schedVars, Running
<1>8. CASE Quiet
  BY <1>2, <1>5, <1>6, <1>7, <1>8 DEF Quiet
<1> QED
  BY <1>3, <1>7, <1>8, StepCases

(* A machine that has stopped shows the verdict on the state it stopped in. *)
StoppedWith ==
  halt # "no" => IsEmptyQueue(queue) /\ halt = Verdict(state, caps, free)

LEMMA StoppedSafe == Spec => []StoppedWith
<1>1. Init => StoppedWith
  BY DEF Init, StoppedWith
<1>2. ASSUME SafeState, StoppedWith, [Next]_vars PROVE StoppedWith'
  <2>1. CASE halt' = halt /\ halt = "no"
    BY <2>1 DEF StoppedWith
  <2>2. CASE UNCHANGED vars
    BY <1>2, <2>2 DEF StoppedWith, vars, schedVars, procVars, regionVars
  <2>3. CASE IsEmptyQueue(queue') /\ halt' = Verdict(state', caps', free')
    BY <2>3 DEF StoppedWith
  <2> QED
    BY <1>2, <2>1, <2>2, <2>3, HaltCases
<1> QED
  BY <1>1, <1>2, KernelSafe, PTL DEF Spec

(* With nobody left the frames are back where they were at the start.      *)
LEMMA NobodyLeftFrames ==
  ASSUME LedgerInv, RegionInv, FrameInv, Alive = {}
  PROVE  /\ edges = {} /\ regions = {}
         /\ free.general + free.dma = GeneralFrames + DmaFrames
<1>1. \A p \in Procs : state[p] = Free
  BY DEF Alive, LiveIn
<1>2. edges = {}
  BY DEF LedgerInv, LedgerBacked, LiveEnd
<1>3. regions = {}
  BY <1>1 DEF RegionInv, RegionsOwned
<1>4. \A p \in Procs : nframes[p] = 0
  BY <1>1 DEF FrameInv, FramesInUse
<1>5. Total(nframes, Procs) = 0
  <2> DEFINE g == [s \in SUBSET Procs |-> 0]
  <2>1. Measure(nframes, Procs, g)
    BY <1>4 DEF Measure
  <2>2. g[Procs] = 0
    OBVIOUS
  <2> HIDE DEF g
  <2> QED
    BY <2>1, <2>2, ProcsFinite, TotalIsMeasure
<1>6. Pages(regions) = 0
  BY <1>3, PagesOfNone
<1>7. free.general \in Nat /\ free.dma \in Nat
  BY DEF FrameInv, FrameTypeOK
<1> QED
  BY <1>2, <1>3, <1>5, <1>6, <1>7 DEF FrameInv

LEMMA VerdictSound ==
  ASSUME SafeState, WaitInv, LedgerInv, RegionInv, FrameInv, StoppedWith
  PROVE  VerdictHonest
<1>1. CASE halt = "no"
  BY <1>1 DEF VerdictHonest
<1>2. CASE halt # "no"
  <2>1. IsEmptyQueue(queue) /\ halt = Verdict(state, caps, free)
    BY <1>2 DEF StoppedWith
  <2>2. \A p \in Procs : state[p] # Ready
    <3>1. Queued(queue) = {}
      BY <2>1 DEF SafeState, InSync, QueueInSync, WellFormedQueue, IsEmptyQueue, Queued
    <3> QED
      BY <3>1 DEF SafeState, InSync, QueueInSync
  <2>3. \A p \in Procs : state[p].kind = "Irq" => Creditable(caps[p], state[p].on)
    BY DEF WaitInv, NobodyStranded, Stranded
  <2>4. ~\E p \in Procs : state[p].kind = "Irq" /\ Creditable(caps[p], state[p].on)
    BY <1>2, <2>1 DEF Verdict, Classify
  <2>5. halt = IF Alive # {} THEN "deadlock"
               ELSE IF free.general + free.dma = GeneralFrames + DmaFrames
                    THEN "ok" ELSE "leak"
    BY <2>1, <2>4 DEF Verdict, Classify, Alive
  <2>6. CASE Alive # {}
    <3>1. ASSUME NEW p \in Alive PROVE state[p].kind \in {"Send", "Recv"}
      <4>1. p \in Procs /\ state[p] \in States /\ state[p] # Free /\ state[p] # Ready
        BY <2>2 DEF Alive, LiveIn, SafeState, InSync, SchedTypeOK
      <4>2. state[p].kind # "Irq"
        BY <2>3, <2>4, <4>1
      <4> QED
        BY <4>1, <4>2 DEF States
    <3> QED
      BY <2>5, <2>6, <3>1 DEF VerdictHonest
  <2>7. CASE Alive = {}
    BY <2>5, <2>7, NobodyLeftFrames DEF VerdictHonest
  <2> QED
    BY <2>6, <2>7
<1> QED
  BY <1>1, <1>2

(* For every machine and every schedule: the kernel reports a deadlock     *)
(* only when every survivor is parked in a rendezvous, BOOT OK only with   *)
(* nobody left, the ledger and the region table empty, and its leak check  *)
(* is never what stops it.                                                 *)
THEOREM VerdictAlwaysHonest == Spec => []VerdictHonest
<1>1. SafeState /\ WaitInv /\ LedgerInv /\ RegionInv /\ FrameInv /\ StoppedWith
        => VerdictHonest
  BY VerdictSound
<1> QED
  BY <1>1, KernelSafe, WaitsSafe, LedgerSafe, RegionsSafe, FramesSafe,
     StoppedSafe, PTL
=============================================================================
