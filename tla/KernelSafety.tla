---------------------------- MODULE KernelSafety ----------------------------
(***************************************************************************)
(* What the nucleus promises: the invariants, action properties and        *)
(* liveness properties of the Kernel module.                               *)
(***************************************************************************)
EXTENDS Kernel

Alive == LiveIn(state)

-----------------------------------------------------------------------------
(* Scheduling.                                                             *)

(* `CURRENT == SCHED.current()` at every trap boundary (the comment on the *)
(* process table), and the queue holds exactly the Ready processes: a      *)
(* blocked process is never resumed, a Ready one is never forgotten, over  *)
(* every way of blocking, waking, dying and reusing a slot.                *)
QueueInSync ==
  /\ WellFormedQueue(queue, Procs, MaxProcs)
  /\ Queued(queue) = {p \in Procs : state[p] = Ready}
  /\ Running => ~IsEmptyQueue(queue) /\ current = Current(queue)

(* The CPU is parked only for a waiter some interrupt will answer, and a   *)
(* waiter that lost its line never lingers: either way the machine would   *)
(* sleep for an event that cannot arrive.                                  *)
ParkIsHopeful ==
  /\ idling => /\ IsEmptyQueue(queue)
               /\ \E p \in Procs : /\ state[p].kind = "Irq"
                                   /\ Creditable(caps[p], state[p].on)
  /\ \A p \in Procs : state[p].kind = "Irq" => Creditable(caps[p], state[p].on)

(* The verdict is honest: "deadlock" is declared only when every survivor  *)
(* waits in a rendezvous, BOOT OK only when nobody is left, and the leak   *)
(* check never fires.                                                      *)
VerdictHonest ==
  /\ halt = "deadlock" => /\ Alive # {}
                          /\ \A p \in Alive : state[p].kind \in {"Send", "Recv"}
  /\ halt = "ok" => Alive = {} /\ edges = {} /\ regions = {}
  /\ halt # "leak"

-----------------------------------------------------------------------------
(* Rendezvous.                                                             *)

(* A parked process still holds the capability its rendezvous needs: the   *)
(* matcher looks only at the blocked state, so a wait outliving its        *)
(* capability would send or receive without authority.  Interrupt credits  *)
(* likewise are never readable by a process that could not be credited now.*)
WaitAuthorized ==
  \A p \in Procs :
    /\ state[p].kind = "Send" => HoldsEndpoint(caps[p], state[p].on, WRITE)
    /\ state[p].kind = "Recv" => HoldsEndpoint(caps[p], state[p].on, READ)
    /\ p \in Alive => \A l \in Lines : irqPending[p][l] > 0
                                        => HoldsIrq(caps[p], l)

(* No step takes the last possible peer away from a parked process and     *)
(* leaves it parked: a death wakes it with NO_CAP, and a revocation always *)
(* leaves the revoker itself, who holds at least what it took back.        *)
NeverStranded ==
  [][\A p \in Procs :
       (/\ state[p].kind \in {"Send", "Recv"} /\ state'[p] = state[p]
        /\ Answerable(state, caps, p))
         => Answerable(state', caps', p)]_vars

-----------------------------------------------------------------------------
(* Authority.                                                              *)

CapAt(end) == caps[end.proc][end.cap]
LiveEnd(end) == /\ end.proc \in Alive
                /\ pid[end.proc] = end.id
                /\ CapAt(end) # NullCap

(* The ledger describes capabilities that exist: both ends of an edge are  *)
(* live incarnations holding the same object, the child never with more    *)
(* rights, and no capability has two sources (`splice_out`'s precondition).*)
LedgerBacked ==
  /\ \A e \in edges : /\ LiveEnd(e.parent) /\ LiveEnd(e.child)
                      /\ CapAt(e.child).type = CapAt(e.parent).type
                      /\ CapAt(e.child).object = CapAt(e.parent).object
                      /\ CapAt(e.child).rights \subseteq CapAt(e.parent).rights
  /\ SingleSource(edges)
  /\ Cardinality(edges) <= MaxDelegations

BootCaps == UNION {{BootGrants[p][k] : k \in 1..Len(BootGrants[p])} :
                     p \in BootProcs}

(* Authority is never amplified: whatever is held, other than a region     *)
(* made since, is a boot grant with the same object and no more rights, in *)
(* any hands and after any history of recycled slots.                      *)
AuthorityFromBoot ==
  \A p \in Alive, c \in CapIds :
    caps[p][c].type \notin {"Null", "Region"} =>
      \E g \in BootCaps : /\ g.type = caps[p][c].type
                          /\ g.object = caps[p][c].object
                          /\ caps[p][c].rights \subseteq g.rights

Grantees(ep, right) ==
  {b \in BootProcs : \E k \in 1..Len(BootGrants[b]) :
     LET g == BootGrants[b][k]
     IN  g.type = "Endpoint" /\ g.object = ep /\ right \in g.rights}
MaySpawn(b) ==
  \E k \in 1..Len(BootGrants[b]) :
    BootGrants[b][k].type = "Untyped" /\ WRITE \in BootGrants[b][k].rights

(* The rights on endpoints that only processes which cannot spawn are      *)
(* given, as pairs of an endpoint and a right.                             *)
Exclusive ==
  {x \in {g.object : g \in BootCaps} \X Rights :
     \A b \in Grantees(x[1], x[2]) : ~MaySpawn(b)}

(* The roles stay apart: a right on an endpoint that boot gives only to    *)
(* processes which cannot spawn is never held by anyone else, whoever is   *)
(* loaded into their slots after they are gone (the reason `load_process`  *)
(* takes the role as a parameter).  With the shipped tables only the boot  *)
(* producer ever sends on the shared endpoint and only the boot consumer   *)
(* receives.                                                               *)
RolesApart ==
  \A p \in Alive, c \in CapIds :
    caps[p][c].type = "Endpoint" =>
      \A right \in caps[p][c].rights :
        <<caps[p][c].object, right>> \in Exclusive
          => pid[p] \in Grantees(caps[p][c].object, right)

(* The device window a process can touch is one it holds a capability for, *)
(* writable only with WRITE.  The kernel itself only asks `holds_mmio`,    *)
(* whether any window is still held.                                       *)
WindowAuthorized ==
  \A p \in Alive : window[p] # NoWindow =>
    \E c \in CapIds :
      /\ caps[p][c].type = "Mmio" /\ caps[p][c].object = window[p].phys
      /\ READ \in caps[p][c].rights
      /\ window[p].write => WRITE \in caps[p][c].rights

-----------------------------------------------------------------------------
(* Memory.                                                                 *)

(* No access survives its authority or its frames: every share-window      *)
(* entry is recorded (or teardown would miss it) and a capability held now *)
(* covers it; every region a capability names still exists; and every      *)
(* region belongs to a live process, whose death will release it.          *)
MappingAuthorized ==
  /\ \A p \in Procs, s \in Shares : leaf[p][s] # Unmapped =>
       /\ p \in Alive
       /\ shares[p][s] = leaf[p][s].region
       /\ HoldsRegion(caps[p], leaf[p][s].region, READ)
       /\ leaf[p][s].write => HoldsRegion(caps[p], leaf[p][s].region, WRITE)
  /\ \A p \in Alive, c \in CapIds :
       caps[p][c].type = "Region" => caps[p][c].object \in RegionIds
  /\ \A r \in regions : \E p \in Alive : pid[p] = r.owner

(* Frames are conserved: each is free, charged to a live process, or part  *)
(* of a live region, through refused spawns and failed mappings.           *)
FramesConserved ==
  /\ free.general + MapThenSumSet(LAMBDA p : nframes[p], Procs) = GeneralFrames
  /\ free.dma + PagesOf(RegionIds) = DmaFrames
  /\ \A p \in Alive :
       nframes[p] = ImageFrames + tables[p].share + tables[p].mmio

-----------------------------------------------------------------------------
(* Progress.                                                               *)

(* Every Ready process runs (or the machine stops): no combination of      *)
(* wake-ups, deaths and yields of the others keeps it from the CPU.        *)
ReadyRuns ==
  \A p \in Procs : (state[p] = Ready) ~> (current = p \/ halt # "no")

(* A process waiting for the timer is woken, from the idle park too.       *)
TimerWaitEnds ==
  \A p \in Procs : (state[p] = BlockedIrq(Timer))
                     ~> (state[p] # BlockedIrq(Timer) \/ halt # "no")
=============================================================================
