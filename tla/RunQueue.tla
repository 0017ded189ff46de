------------------------------ MODULE RunQueue ------------------------------
(***************************************************************************)
(* The run queue of crates/sched driven the way the kernel drives it.      *)
(*                                                                         *)
(*   - the thread under the cursor is the one that runs;                   *)
(*   - a thread leaves the queue only while it runs, by blocking, exiting  *)
(*     or faulting (`sched().remove(cur)` in syscall_trap and              *)
(*     teardown_process; the kernel never removes another thread);         *)
(*   - any thread outside the queue may be put back at any moment, by a    *)
(*     rendezvous, a revocation, a death or an interrupt (`sched().add`);  *)
(*   - a timer tick or a YIELD calls `next`.                               *)
(***************************************************************************)
EXTENDS Sched, FiniteSets

CONSTANTS Threads,   \* thread identifiers (process-table slots)
          Capacity   \* N of Scheduler<N>; the kernel uses MAX_PROCS

ASSUME CapacityAssumption == Capacity \in Nat

VARIABLE runQueue

queueVars == <<runQueue>>

QueueInit == runQueue = EmptyQueue

(* `add` of a thread that was blocked or has just been spawned. *)
AddThread(t) == runQueue' = Add(runQueue, t, Capacity)

(* `next`, from the timer tick or from YIELD. *)
NextThread == runQueue' = Advance(runQueue)

(* `remove` of the running thread. *)
RemoveCurrent ==
  /\ ~IsEmptyQueue(runQueue)
  /\ runQueue' = Remove(runQueue, Current(runQueue))

QueueNext ==
  \/ \E t \in Threads : AddThread(t)
  \/ NextThread
  \/ RemoveCurrent

QueueSpec == QueueInit /\ [][QueueNext]_queueVars

-----------------------------------------------------------------------------
(* The type invariant, which here is the representation invariant of the   *)
(* array: no thread twice, never more than N, cursor always on a live slot *)
(* (`current` and `next` index slots[cur] without a check).                *)
QueueOK == WellFormedQueue(runQueue, Threads, Capacity)

(* Removing a thread never costs another its turn: the survivors keep the  *)
(* order in which they would have been visited, whichever of the cursor    *)
(* repairs of `remove` applies.                                            *)
RemovalKeepsOrder ==
  [][RemoveCurrent => \A a, b \in Queued(runQueue') :
                        Before(runQueue, a, b) => Before(runQueue', a, b)]_queueVars
=============================================================================
