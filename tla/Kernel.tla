------------------------------- MODULE Kernel -------------------------------
(***************************************************************************)
(* The nucleus of crates/kernel/src/lib.rs: the process table, capability  *)
(* spaces, delegation ledger, run queue, interrupt credits, shared regions *)
(* and the device window, with one action per trap handler.                *)
(*                                                                         *)
(* One CPU, and every handler runs to its end with interrupts masked, so a *)
(* handler is one atomic action; what interleaves is user processes (which *)
(* may issue any call at any time, or fault), the timer and the console    *)
(* device.  A handler that refuses its caller changes nothing but the      *)
(* caller's return register: such a call is a stuttering step, and the     *)
(* conditions under which it happens are the guards below.                 *)
(*                                                                         *)
(* The build modelled is the one without an IOMMU (riscv64), where MAP_DMA *)
(* and UNMAP_DMA always refuse.  Messages are abstracted to their arrival: *)
(* what is kept is who waits for whom and which result awaits a process    *)
(* that was woken but has not run yet.                                     *)
(***************************************************************************)
EXTENDS Sched, Ledger, FiniteSetsExt

CONSTANTS
  MaxProcs,        \* MAX_PROCS: slots of the process table
  CapSlots,        \* CAP_SLOTS: capability slots per process
  NumProcs,        \* NUM_PROCS: processes loaded at boot
  BootGrants,      \* grants_for(boot_role(i)), one grant table per boot process
  MaxDelegations,  \* MAX_DELEGATIONS: edges of the ledger
  Lines,           \* interrupt lines the kernel accounts for
  Delivered,       \* DELIVERED_IRQ_LINES, those it credits
  Timer, Console,  \* IRQ_TIMER and IRQ_CONSOLE
  CreditMax,       \* where the saturating credit counter stops (u64::MAX)
  Apertures,       \* physical windows map_device accepts
  MaxRegions,      \* MAX_REGIONS
  RegionQuota,     \* REGION_QUOTA
  RegionMaxPages,  \* REGION_MAX_PAGES
  RegionIdMax,     \* where NEXT_REGION_ID stops (u64::MAX)
  ShareSlots,      \* SHARE_SLOTS: share-window slots per process
  ImageFrames,     \* frames of a freshly loaded process
  TableFrames,     \* page-table frames a first mapping of a window takes
  GeneralFrames,   \* general pool when userland starts
  DmaFrames,       \* DMA arena when userland starts
  Requests,        \* bound: the rights a SPAWN caller may ask to hand over
  MaxId            \* bound: process identities handed out

Procs == 0..(MaxProcs - 1)
CapIds == 0..(CapSlots - 1)
Shares == 0..(ShareSlots - 1)
BootProcs == 0..(NumProcs - 1)

READ == "READ"
WRITE == "WRITE"
GRANT == "GRANT"
Rights == {READ, WRITE, GRANT}
CapTypes == {"Endpoint", "Untyped", "Mmio", "Irq", "IommuDomain", "Region"}

Cap(type, rights, object) ==
  [type |-> type, rights |-> rights, object |-> object]
NullCap == Cap("Null", {}, 0)
Grants == [type : CapTypes \ {"Region"}, rights : SUBSET Rights, object : Nat]

(* The boot tables are checked before any process is loaded: they fit, a   *)
(* mint source names no extent, and every interrupt line is one that the   *)
(* kernel delivers.                                                        *)
ASSUME KernelAssumption ==
  /\ MaxProcs \in Nat \ {0} /\ CapSlots \in Nat /\ ShareSlots \in Nat
  /\ MaxDelegations \in Nat /\ CreditMax \in Nat \ {0}
  /\ MaxRegions \in Nat /\ RegionQuota \in Nat /\ RegionMaxPages \in Nat
  /\ RegionIdMax \in Nat
  /\ ImageFrames \in Nat /\ TableFrames \in Nat
  /\ GeneralFrames \in Nat /\ DmaFrames \in Nat /\ MaxId \in Nat
  /\ Delivered \subseteq Lines /\ {Timer, Console} \subseteq Delivered
  /\ Requests \subseteq SUBSET Rights
  /\ NumProcs \in 1..MaxProcs /\ DOMAIN BootGrants = BootProcs
  /\ NumProcs * ImageFrames <= GeneralFrames
  /\ \A p \in BootProcs :
       /\ BootGrants[p] \in Seq(Grants) /\ Len(BootGrants[p]) <= CapSlots
       /\ \A k \in 1..Len(BootGrants[p]) :
            LET g == BootGrants[p][k]
            IN  /\ g.type = "Irq" => g.object \in Delivered
                /\ g.type = "Untyped" => g.object = 0

VARIABLES
  pid,         \* Process.id
  state,       \* Process.state
  caps,        \* Process.caps
  irqPending,  \* Process.irq_pending
  shares,      \* Process.shares: the region each share slot maps, 0 if none
  leaf,        \* the page-table entries of the share window
  window,      \* the page-table entries of the device window
  tables,      \* page-table frames built for each window
  nframes,     \* Process.nframes: frames charged to the process
  result,      \* what a woken process finds when it is next resumed
  queue,       \* SCHED
  current,     \* CURRENT
  idling,      \* IDLING
  halt,        \* "no", or the verdict the machine stopped with
  edges,       \* the delegation ledger
  nextId,      \* NEXT_ID
  regions,     \* REGIONS, its live entries
  nextRegion,  \* NEXT_REGION_ID
  free         \* FA: free frames of the two pools

procVars == <<pid, state, caps, irqPending, shares, leaf, window, tables,
              nframes, result>>
schedVars == <<queue, current, idling, halt>>
regionVars == <<regions, nextRegion>>
vars == <<procVars, schedVars, edges, nextId, regionVars, free>>

NoProc == -1
NoRegion == 0
Unmapped == [region |-> NoRegion, write |-> FALSE]
NoWindow == [phys |-> NoProc, write |-> FALSE]

Free == [kind |-> "Free", on |-> 0]
Ready == [kind |-> "Ready", on |-> 0]
BlockedSend(ep) == [kind |-> "Send", on |-> ep]
BlockedRecv(ep) == [kind |-> "Recv", on |-> ep]
BlockedIrq(line) == [kind |-> "Irq", on |-> line]

-----------------------------------------------------------------------------
(* Authority predicates: each asks a capability space.                     *)

Holds(cs, type, object, right) ==
  \E c \in CapIds : /\ cs[c].type = type
                    /\ cs[c].object = object
                    /\ right \in cs[c].rights

HoldsEndpoint(cs, ep, right) == Holds(cs, "Endpoint", ep, right)
HoldsIrq(cs, line) == Holds(cs, "Irq", line, READ)
HoldsRegion(cs, id, right) == Holds(cs, "Region", id, right)

(* Any device window at all: keyed on the type only. *)
HoldsMmio(cs) == \E c \in CapIds : cs[c].type = "Mmio" /\ READ \in cs[c].rights

(* Can a wait of this process on this line ever be answered? *)
Creditable(cs, line) == line \in Delivered /\ HoldsIrq(cs, line)

(* The running process presents capability c, of this type, with `right`.  *)
Presents(c, type, right) ==
  /\ caps[current][c].type = type
  /\ right \in caps[current][c].rights

(* `CapSpace::insert`: the first free slot. *)
FreeCaps(cs) == {c \in CapIds : cs[c] = NullCap}
Insert(cs, cap) == [cs EXCEPT ![Min(FreeCaps(cs))] = cap]

LiveIn(st) == {p \in Procs : st[p] # Free}

EndAt(p, c) == End(p, pid[p], c)

-----------------------------------------------------------------------------
(* Waking and scheduling.                                                  *)

Ascending(S) ==
  [k \in 1..Cardinality(S) |->
     CHOOSE x \in S : Cardinality({y \in S : y < x}) = k - 1]

(* `sched().add` of several threads, one after the other.  The queue has   *)
(* room for every process, so only a duplicate is refused.                 *)
EnqueueSet(q, S) == Enqueue(q, Ascending(S \ Queued(q)))

(* The processes in W become Ready and will find `code`. *)
WakeStates(st, W) == [p \in Procs |-> IF p \in W THEN Ready ELSE st[p]]
WakeResults(res, W, code) ==
  [p \in Procs |-> IF p \in W THEN code ELSE res[p]]

(* `resume_process`: the resumed process consumes its result. *)
Resume(p, res) ==
  /\ current' = p
  /\ result' = [res EXCEPT ![p] = "none"]

(* Faulty variant of Classify: survivors are a deadlock before anyone asks *)
(* what they wait for.                                                     *)
ClassifyHasty(st, cs) == IF LiveIn(st) # {} THEN "Deadlock" ELSE "AllDone"

(* `runstate::classify`. *)
Classify(st, cs) ==
  IF \E p \in Procs : st[p].kind = "Irq" /\ Creditable(cs[p], st[p].on)
  THEN "Park"
  ELSE IF LiveIn(st) # {} THEN "Deadlock" ELSE "AllDone"

(* What the machine stops with.  `AllDone` still has to pass the leak      *)
(* check against FREE_AT_START.                                            *)
Verdict(st, cs, fr) ==
  CASE Classify(st, cs) = "Park" -> "no"
    [] Classify(st, cs) = "Deadlock" -> "deadlock"
    [] Classify(st, cs) = "AllDone" ->
         IF fr.general + fr.dma = GeneralFrames + DmaFrames
         THEN "ok" ELSE "leak"

(* The tail of every handler after the running process has left the queue: *)
(* `sched().current()`, or else `nothing_runnable`, which first wakes the  *)
(* interrupt waiters nobody can credit, then parks, reports a deadlock or  *)
(* finishes.                                                               *)
Dispatch(st, cs, q, res, fr) ==
  LET hopeless == {p \in Procs : /\ IsEmptyQueue(q)
                                 /\ st[p].kind = "Irq"
                                 /\ ~Creditable(cs[p], st[p].on)}
      st2 == WakeStates(st, hopeless)
      q2 == EnqueueSet(q, hopeless)
      res2 == WakeResults(res, hopeless, "NO_CAP")
  IN  /\ state' = st2
      /\ queue' = q2
      /\ IF ~IsEmptyQueue(q2)
         THEN Resume(Current(q2), res2) /\ UNCHANGED <<idling, halt>>
         ELSE /\ result' = res2
              /\ idling' = (Classify(st2, cs) = "Park")
              /\ current' = NoProc
              /\ halt' = Verdict(st2, cs, fr)

Running == halt = "no" /\ ~idling

(* Faulty variant of BlockCurrent: the process stays in the run queue.     *)
BlockStillQueued(b) ==
  Dispatch([state EXCEPT ![current] = b], caps, Advance(queue), result, free)

(* The running process blocks in state b and gives up the CPU. *)
BlockCurrent(b) ==
  Dispatch([state EXCEPT ![current] = b], caps, Remove(queue, current),
           result, free)

(* The running process goes on; the process w has been answered. *)
Answer(w, code) ==
  /\ state' = [state EXCEPT ![w] = Ready]
  /\ result' = [result EXCEPT ![w] = code]
  /\ queue' = Add(queue, w, MaxProcs)
  /\ UNCHANGED <<current, idling, halt>>

-----------------------------------------------------------------------------
(* YIELD. *)
Yield ==
  /\ Running
  /\ queue' = Advance(queue)
  /\ Resume(Current(queue'), result)
  /\ UNCHANGED <<pid, state, caps, irqPending, shares, leaf, window, tables,
                 nframes, idling, halt, edges, nextId, regionVars, free>>

(* The processes blocked in state b, and the one the matcher picks.        *)
Waiters(b) == {p \in Procs : state[p] = b}

ipcUnchanged == <<pid, caps, irqPending, shares, leaf, window, tables,
                  nframes, edges, nextId, regionVars, free>>

(* SEND: WRITE on an endpoint; deliver to the lowest waiting receiver and  *)
(* go on, or block.  A payload the kernel cannot read refuses the call     *)
(* with the receiver left waiting.                                         *)
Send(c) ==
  /\ Running
  /\ Presents(c, "Endpoint", WRITE)
  /\ LET ep == caps[current][c].object
         waiting == Waiters(BlockedRecv(ep))
     IN  IF waiting # {} THEN Answer(Min(waiting), "MSG")
                         ELSE BlockCurrent(BlockedSend(ep))
  /\ UNCHANGED ipcUnchanged

(* RECV: READ on an endpoint; take the lowest waiting sender's message, or *)
(* block.                                                                  *)
Recv(c) ==
  /\ Running
  /\ Presents(c, "Endpoint", READ)
  /\ LET ep == caps[current][c].object
         waiting == Waiters(BlockedSend(ep))
     IN  IF waiting # {} THEN Answer(Min(waiting), "OK")
                         ELSE BlockCurrent(BlockedRecv(ep))
  /\ UNCHANGED ipcUnchanged

-----------------------------------------------------------------------------
(* WAIT_IRQ and POLL_IRQ: READ on a line; take its credits, and only its.  *)
CollectIrq(c) ==
  LET line == caps[current][c].object
  IN  /\ Running
      /\ Presents(c, "Irq", READ)
      /\ line \in Lines
      /\ irqPending[current][line] > 0
      /\ irqPending' = [irqPending EXCEPT ![current][line] = 0]
      /\ UNCHANGED <<pid, state, caps, shares, leaf, window, tables, nframes,
                     result, schedVars, edges, nextId, regionVars, free>>

(* WAIT_IRQ with nothing pending parks, but only on a delivered line. *)
WaitIrq(c) ==
  LET line == caps[current][c].object
  IN  /\ Running
      /\ Presents(c, "Irq", READ)
      /\ line \in Delivered
      /\ irqPending[current][line] = 0
      /\ BlockCurrent(BlockedIrq(line))
      /\ UNCHANGED ipcUnchanged

(* Faulty variant of CreditHolders: only the interrupted process is        *)
(* credited.                                                               *)
CreditRunning(line) ==
  {p \in LiveIn(state) : p = current /\ HoldsIrq(caps[p], line)}

(* `credit_irq`: every live holder of the line is credited; one that waits *)
(* for it is answered and its credit consumed.                             *)
CreditHolders(line) == {p \in LiveIn(state) : HoldsIrq(caps[p], line)}
Credited(line) == {p \in CreditHolders(line) : state[p] = BlockedIrq(line)}

CreditIrq(line) ==
  irqPending' =
    [p \in Procs |-> [irqPending[p] EXCEPT ![line] =
       CASE p \in Credited(line) -> 0
         [] p \in CreditHolders(line) \ Credited(line) ->
              IF @ < CreditMax THEN @ + 1 ELSE @
         [] OTHER -> @]]

(* What every interrupt handler does first: credit the line, wake the      *)
(* answered waiters.                                                       *)
Deliver(line) ==
  /\ CreditIrq(line)
  /\ state' = WakeStates(state, Credited(line))
  /\ UNCHANGED <<pid, caps, shares, leaf, window, tables, nframes, halt,
                 edges, nextId, regionVars, free>>
DeliveredQueue(line) == EnqueueSet(queue, Credited(line))
DeliveredResults(line) == WakeResults(result, Credited(line), "COUNT")

(* The first branch of `preempt_trap` and of `device_trap`: the interrupt  *)
(* hit the idle park, so run whoever it woke or park again.                *)
IdleInterrupt(line) ==
  /\ halt = "no" /\ idling
  /\ Deliver(line)
  /\ queue' = DeliveredQueue(line)
  /\ IF IsEmptyQueue(queue')
     THEN result' = DeliveredResults(line) /\ UNCHANGED <<current, idling>>
     ELSE Resume(Current(queue'), DeliveredResults(line)) /\ idling' = FALSE

(* `preempt_trap`: the quantum is over. *)
PreemptTrap ==
  /\ Running
  /\ Deliver(Timer)
  /\ queue' = Advance(DeliveredQueue(Timer))
  /\ Resume(Current(queue'), DeliveredResults(Timer))
  /\ UNCHANGED idling

(* `device_trap`: the interrupted process keeps the CPU while it is        *)
(* runnable.                                                               *)
DeviceTrap ==
  /\ Running
  /\ Deliver(Console)
  /\ LET q == DeliveredQueue(Console)
     IN  IF Contains(q, current)
         THEN queue' = q /\ Resume(current, DeliveredResults(Console))
         ELSE /\ queue' = Advance(q)
              /\ Resume(Current(queue'), DeliveredResults(Console))
  /\ UNCHANGED idling

-----------------------------------------------------------------------------
(* Shared regions.  A mapping is two things: the record in `shares`, which *)
(* teardown plans from, and the page-table entries in `leaf`, which are    *)
(* the access itself.                                                      *)

RegionIds == {r.id : r \in regions}

(* Faulty variant of DropLeaves: the record goes, the page-table entries   *)
(* stay.                                                                   *)
LeavesStay(p, R) == leaf[p]

(* The share slots of p, as seen after dropping the mappings of regions R. *)
DropShares(p, R) ==
  [s \in Shares |-> IF shares[p][s] \in R THEN NoRegion ELSE shares[p][s]]
DropLeaves(p, R) ==
  [s \in Shares |-> IF shares[p][s] \in R THEN Unmapped ELSE leaf[p][s]]

(* Faulty variant of ForgetEdges: it is not done. *)
EdgesStay(R) == edges

(* The capabilities naming a region of R, among live processes, and the    *)
(* spaces once `ForgetCaps` has emptied them.                              *)
RegionCapEnds(R) ==
  {EndAt(x[1], x[2]) : x \in
     {x \in LiveIn(state) \X CapIds :
        caps[x[1]][x[2]].type = "Region" /\ caps[x[1]][x[2]].object \in R}}
ForgetCaps(p, R) ==
  [c \in CapIds |->
     IF caps[p][c].type = "Region" /\ caps[p][c].object \in R
     THEN NullCap ELSE caps[p][c]]
ForgetEdges(R) ==
  {e \in edges : {e.parent, e.child} \cap RegionCapEnds(R) = {}}

PagesOf(R) == MapThenSumSet(LAMBDA r : r.pages, {r \in regions : r.id \in R})

(* MAKE_REGION: WRITE on a mint source.  Quota, table slot, identity,      *)
(* frames and a capability slot must all be there, or nothing happens.     *)
MakeRegion(c, pages) ==
  /\ Running
  /\ Presents(c, "Untyped", WRITE)
  /\ Cardinality({r \in regions : r.owner = pid[current]}) < RegionQuota
  /\ Cardinality(regions) < MaxRegions
  /\ nextRegion < RegionIdMax
  /\ free.dma >= pages
  /\ FreeCaps(caps[current]) # {}
  /\ caps' = [caps EXCEPT ![current] =
       Insert(@, Cap("Region", caps[current][c].rights, nextRegion))]
  /\ regions' = regions \cup {[id    |-> nextRegion,
                                owner |-> pid[current],
                                pages |-> pages]}
  /\ nextRegion' = nextRegion + 1
  /\ free' = [free EXCEPT !.dma = @ - pages]
  /\ UNCHANGED <<pid, state, irqPending, shares, leaf, window, tables, nframes,
                 result, schedVars, edges, nextId>>

(* Page-table frames a mapping in window w still needs, and those the      *)
(* allocator can give: what it gives stays charged to the process.         *)
TablesGot(w) ==
  LET need == TableFrames - tables[current][w]
  IN  IF free.general < need THEN free.general ELSE need

(* Faulty variant of TakeTables: the frames are taken and not charged.     *)
TablesUncharged(w) ==
  /\ tables' = [tables EXCEPT ![current][w] = @ + TablesGot(w)]
  /\ free' = [free EXCEPT !.general = @ - TablesGot(w)]
  /\ UNCHANGED nframes

TakeTables(w) ==
  /\ tables' = [tables EXCEPT ![current][w] = @ + TablesGot(w)]
  /\ nframes' = [nframes EXCEPT ![current] = @ + TablesGot(w)]
  /\ free' = [free EXCEPT !.general = @ - TablesGot(w)]

TablesComplete(w) == tables[current][w] + TablesGot(w) = TableFrames

(* The share slot MAP_REGION uses: the one already mapping the region, or  *)
(* the first free one.                                                     *)
SlotsFor(id) ==
  LET mapping == {s \in Shares : shares[current][s] = id}
  IN  IF mapping # {} THEN mapping
                      ELSE {s \in Shares : shares[current][s] = NoRegion}

(* MAP_REGION: READ on a region that still exists.  The slot's old entries *)
(* are dropped first; the new ones carry the capability's own rights.      *)
MapRegion(c) ==
  LET id == caps[current][c].object
      s == Min(SlotsFor(id))
  IN  /\ Running
      /\ Presents(c, "Region", READ)
      /\ id \in RegionIds
      /\ SlotsFor(id) # {}
      /\ TakeTables("share")
      /\ IF TablesComplete("share")
         THEN /\ shares' = [shares EXCEPT ![current][s] = id]
              /\ leaf' = [leaf EXCEPT ![current][s] =
                   [region |-> id, write |-> WRITE \in caps[current][c].rights]]
         ELSE /\ leaf' = [leaf EXCEPT ![current][s] = Unmapped]
              /\ UNCHANGED shares
      /\ UNCHANGED <<pid, state, caps, irqPending, window, result, schedVars,
                     edges, nextId, regionVars>>

(* UNMAP_REGION: any capability for the region. *)
UnmapRegion(c) ==
  LET id == caps[current][c].object
  IN  /\ Running
      /\ caps[current][c].type = "Region"
      /\ \E s \in Shares : shares[current][s] = id
      /\ shares' = [shares EXCEPT ![current] = DropShares(current, {id})]
      /\ leaf' = [leaf EXCEPT ![current] = DropLeaves(current, {id})]
      /\ UNCHANGED <<pid, state, caps, irqPending, window, tables, nframes,
                     result, schedVars, edges, nextId, regionVars, free>>

(* FREE_REGION: WRITE on a region this very process owns.  The plan of     *)
(* `regions::destroy`: unmap every holder, empty every capability naming   *)
(* it with its ledger edges, release the frames.                           *)
FreeRegion(c) ==
  LET id == caps[current][c].object
  IN  /\ Running
      /\ Presents(c, "Region", WRITE)
      /\ \E r \in regions : r.id = id /\ r.owner = pid[current]
      /\ shares' = [p \in Procs |-> IF p \in LiveIn(state)
                       THEN DropShares(p, {id}) ELSE shares[p]]
      /\ leaf' = [p \in Procs |-> IF p \in LiveIn(state)
                       THEN DropLeaves(p, {id}) ELSE leaf[p]]
      /\ caps' = [p \in Procs |-> IF p \in LiveIn(state)
                       THEN ForgetCaps(p, {id}) ELSE caps[p]]
      /\ edges' = ForgetEdges({id})
      /\ regions' = {r \in regions : r.id # id}
      /\ free' = [free EXCEPT !.dma = @ + PagesOf({id})]
      /\ UNCHANGED <<pid, state, irqPending, window, tables, nframes, result,
                     schedVars, nextId, nextRegion>>

-----------------------------------------------------------------------------
(* MAP_BAR: READ on a device window; whatever was mapped there is dropped, *)
(* and the new entry is writable only if the capability is.  When the      *)
(* answer cannot be written to the caller the window is dropped again.     *)
MapBar(c, answered) ==
  LET cap == caps[current][c]
  IN  /\ Running
      /\ Presents(c, "Mmio", READ)
      /\ cap.object \in Apertures
      /\ TakeTables("mmio")
      /\ window' = [window EXCEPT ![current] =
           IF TablesComplete("mmio") /\ answered
           THEN [phys |-> cap.object, write |-> WRITE \in cap.rights]
           ELSE NoWindow]
      /\ UNCHANGED <<pid, state, caps, irqPending, shares, leaf, result,
                     schedVars, edges, nextId, regionVars>>

-----------------------------------------------------------------------------
(* SPAWN.  The refusals in the order of the code; anything else creates a  *)
(* process with no authority but the one capability handed over.           *)
NoDelegate == -1

SpawnAnswer(c, d) ==
  IF ~Presents(c, "Untyped", WRITE) THEN "NO_CAP"
  ELSE IF d # NoDelegate /\ (\/ caps[current][d] = NullCap
                             \/ Cardinality(edges) >= MaxDelegations)
  THEN "NO_DELEGATE"
  ELSE IF LiveIn(state) = Procs THEN "NO_SLOT"
  ELSE IF free.general < ImageFrames THEN "NO_MEM"
  ELSE "OK"

EmptySpace == [c \in CapIds |-> NullCap]

(* The image did not fit: the partial build is rolled back, the identity   *)
(* is spent all the same.                                                  *)
SpawnNoMem(c, d) ==
  /\ Running
  /\ nextId <= MaxId
  /\ SpawnAnswer(c, d) = "NO_MEM"
  /\ nextId' = nextId + 1
  /\ UNCHANGED <<procVars, schedVars, edges, regionVars, free>>

(* Faulty variants of ChildSpace: the requested rights are handed over as  *)
(* they are; and the grants are those of the boot process that had the     *)
(* slot.                                                                   *)
ChildUnattenuated(d, request) ==
  IF d = NoDelegate THEN EmptySpace
  ELSE Insert(EmptySpace, Cap(caps[current][d].type, request,
                              caps[current][d].object))
ChildOfSlot(d, request) ==
  LET p == Min(Procs \ LiveIn(state))
  IN  [c \in CapIds |-> IF p \in BootProcs /\ c < Len(BootGrants[p])
                        THEN BootGrants[p][c + 1] ELSE NullCap]

(* What the child starts with: nothing of its own (Role::Child grants      *)
(* nothing), and the delegated capability, attenuated to the request.      *)
ChildSpace(d, request) ==
  IF d = NoDelegate THEN EmptySpace
  ELSE Insert(EmptySpace, Cap(caps[current][d].type,
                              caps[current][d].rights \cap request,
                              caps[current][d].object))

(* `load_process(Role::Child)` into the lowest free slot, the delegated    *)
(* capability into the child's first slot, the edge into the ledger.       *)
Spawn(c, d, request) ==
  LET p == Min(Procs \ LiveIn(state))
  IN  /\ Running
      /\ nextId <= MaxId
      /\ SpawnAnswer(c, d) = "OK"
      /\ pid' = [pid EXCEPT ![p] = nextId]
      /\ nextId' = nextId + 1
      /\ state' = [state EXCEPT ![p] = Ready]
      /\ caps' = [caps EXCEPT ![p] = ChildSpace(d, request)]
      /\ edges' = IF d = NoDelegate THEN edges
                  ELSE edges \cup {Edge(EndAt(current, d),
                                        End(p, nextId, Min(FreeCaps(EmptySpace))))}
      /\ irqPending' = [irqPending EXCEPT ![p] = [l \in Lines |-> 0]]
      /\ shares' = [shares EXCEPT ![p] = [s \in Shares |-> NoRegion]]
      /\ leaf' = [leaf EXCEPT ![p] = [s \in Shares |-> Unmapped]]
      /\ window' = [window EXCEPT ![p] = NoWindow]
      /\ tables' = [tables EXCEPT ![p] = [share |-> 0, mmio |-> 0]]
      /\ nframes' = [nframes EXCEPT ![p] = ImageFrames]
      /\ free' = [free EXCEPT !.general = @ - ImageFrames]
      /\ result' = [result EXCEPT ![p] = "none"]
      /\ queue' = Add(queue, p, MaxProcs)
      /\ UNCHANGED <<current, idling, halt, regionVars>>

-----------------------------------------------------------------------------
(* REVOKE: everything derived from one of the caller's capabilities, and   *)
(* with each capability the access it conferred: the device window, the    *)
(* share mappings, the interrupt credits and the wait it was parked in.    *)

(* The reached capabilities whose slot still holds the same process. *)
Revoked(root) ==
  {d \in Reach(edges, root) : d.proc \in LiveIn(state) /\ pid[d.proc] = d.id}

(* Faulty variants of Stranded: parked senders, or interrupt waiters, are  *)
(* overlooked.                                                             *)
StrandedNotSending(st, cs, p) ==
  \/ st[p].kind = "Recv" /\ ~HoldsEndpoint(cs, st[p].on, READ)
  \/ st[p].kind = "Irq" /\ ~Creditable(cs, st[p].on)
StrandedIpcOnly(st, cs, p) ==
  \/ st[p].kind = "Send" /\ ~HoldsEndpoint(cs, st[p].on, WRITE)
  \/ st[p].kind = "Recv" /\ ~HoldsEndpoint(cs, st[p].on, READ)

Stranded(st, cs, p) ==
  \/ st[p].kind = "Send" /\ ~HoldsEndpoint(cs, st[p].on, WRITE)
  \/ st[p].kind = "Recv" /\ ~HoldsEndpoint(cs, st[p].on, READ)
  \/ st[p].kind = "Irq" /\ ~Creditable(cs, st[p].on)

(* Faulty variant of WindowLeft: nothing is taken away. *)
WindowStays(p, cs) == window[p]

(* What a holder keeps of its device window and of its interrupt credits   *)
(* when the capability space left to it is cs.                             *)
WindowLeft(p, cs) == IF HoldsMmio(cs) THEN window[p] ELSE NoWindow
CreditsLeft(p, cs) ==
  [l \in Lines |-> IF HoldsIrq(cs, l) THEN irqPending[p][l] ELSE 0]

(* The stranded holders rejoin the queue in the order the ledger's table   *)
(* reports them, which is any order as far as this model is concerned.     *)
Orders(S) ==
  {f \in [1..Cardinality(S) -> S] : \A x \in S : \E k \in DOMAIN f : f[k] = x}

Revoke(c) ==
  LET root == EndAt(current, c)
      gone == Revoked(root)
      hit == {d.proc : d \in gone}
      left == [p \in Procs |-> [k \in CapIds |->
                 IF EndAt(p, k) \in gone THEN NullCap ELSE caps[p][k]]]
      lost(p) == {id \in {shares[p][s] : s \in Shares} :
                    /\ p \in hit
                    /\ id # NoRegion
                    /\ ~HoldsRegion(left[p], id, READ)}
      woken == {p \in hit : Stranded(state, left[p], p)}
  IN  /\ Running
      /\ caps[current][c] # NullCap
      /\ edges' = RevokeFrom(edges, root)
      /\ caps' = left
      /\ window' = [p \in Procs |->
           IF p \in hit THEN WindowLeft(p, left[p]) ELSE window[p]]
      /\ shares' = [p \in Procs |-> DropShares(p, lost(p))]
      /\ leaf' = [p \in Procs |-> DropLeaves(p, lost(p))]
      /\ irqPending' = [p \in Procs |->
           IF p \in hit THEN CreditsLeft(p, left[p]) ELSE irqPending[p]]
      /\ state' = WakeStates(state, woken)
      /\ result' = WakeResults(result, woken, "NO_CAP")
      /\ \E ts \in Orders(woken \ Queued(queue)) : queue' = Enqueue(queue, ts)
      /\ UNCHANGED <<pid, tables, nframes, current, idling, halt, nextId,
                     regionVars, free>>

-----------------------------------------------------------------------------
(* `teardown_process` of the running process, in the order of the code:    *)
(* regions it owns (and its own mappings of others'), its frames, its      *)
(* place in the ledger, its slot, its place in the queue; then the peers   *)
(* whose rendezvous no live process can answer any more are woken.         *)

(* Some process of st other than p could answer p's rendezvous. *)
Answerable(st, cs, p) ==
  LET needed == IF st[p].kind = "Send" THEN READ ELSE WRITE
  IN  \E q \in LiveIn(st) \ {p} : HoldsEndpoint(cs[q], st[p].on, needed)

(* Faulty variant of Orphaned: parked senders are overlooked.              *)
OrphanedReceivers(st, cs) ==
  {p \in Procs : st[p].kind = "Recv" /\ ~Answerable(st, cs, p)}

(* The parked processes nobody can answer. *)
Orphaned(st, cs) ==
  {p \in Procs : st[p].kind \in {"Send", "Recv"} /\ ~Answerable(st, cs, p)}

Teardown ==
  LET own == {r.id : r \in {r \in regions : r.owner = pid[current]}}
      cs == [p \in Procs |-> IF p \in LiveIn(state)
                             THEN ForgetCaps(p, own) ELSE caps[p]]
      st == [state EXCEPT ![current] = Free]
      woken == Orphaned(st, cs)
      fr == [general |-> free.general + nframes[current],
             dma     |-> free.dma + PagesOf(own)]
  IN  /\ shares' = [p \in Procs |->
           IF p = current THEN [s \in Shares |-> NoRegion]
           ELSE IF p \in LiveIn(state) THEN DropShares(p, own) ELSE shares[p]]
      /\ leaf' = [p \in Procs |->
           IF p = current THEN [s \in Shares |-> Unmapped]
           ELSE IF p \in LiveIn(state) THEN DropLeaves(p, own) ELSE leaf[p]]
      /\ window' = [window EXCEPT ![current] = NoWindow]
      /\ tables' = [tables EXCEPT ![current] = [share |-> 0, mmio |-> 0]]
      /\ caps' = cs
      /\ regions' = {r \in regions : r.id \notin own}
      /\ free' = fr
      /\ nframes' = [nframes EXCEPT ![current] = 0]
      /\ edges' = SpliceOut(ForgetEdges(own), current, pid[current])
      /\ Dispatch(WakeStates(st, woken), cs,
                  EnqueueSet(Remove(queue, current), woken),
                  WakeResults(result, woken, "NO_CAP"), fr)
      /\ UNCHANGED <<pid, irqPending, nextId, nextRegion>>

(* EXIT. *)
Exit == Running /\ Teardown

(* `fault_trap`: a CPU fault in user code kills the process likewise. *)
FaultTrap == Running /\ Teardown

(* `A::exit`: the machine has stopped. *)
Halted == halt # "no" /\ UNCHANGED vars

-----------------------------------------------------------------------------
(* `run` has loaded the boot processes and resumes the first one. *)
Init ==
  /\ pid = [p \in Procs |-> IF p \in BootProcs THEN p ELSE 0]
  /\ state = [p \in Procs |-> IF p \in BootProcs THEN Ready ELSE Free]
  /\ caps = [p \in Procs |-> [c \in CapIds |->
       IF p \in BootProcs /\ c < Len(BootGrants[p])
       THEN BootGrants[p][c + 1] ELSE NullCap]]
  /\ irqPending = [p \in Procs |-> [l \in Lines |-> 0]]
  /\ shares = [p \in Procs |-> [s \in Shares |-> NoRegion]]
  /\ leaf = [p \in Procs |-> [s \in Shares |-> Unmapped]]
  /\ window = [p \in Procs |-> NoWindow]
  /\ tables = [p \in Procs |-> [share |-> 0, mmio |-> 0]]
  /\ nframes = [p \in Procs |-> IF p \in BootProcs THEN ImageFrames ELSE 0]
  /\ result = [p \in Procs |-> "none"]
  /\ queue = [slots |-> [k \in 1..NumProcs |-> k - 1], cur |-> 0]
  /\ current = 0
  /\ idling = FALSE
  /\ halt = "no"
  /\ edges = {}
  /\ nextId = NumProcs
  /\ regions = {}
  /\ nextRegion = 1
  /\ free = [general |-> GeneralFrames - NumProcs * ImageFrames,
             dma     |-> DmaFrames]

Syscall ==
  \/ Yield
  \/ \E c \in CapIds :
       \/ Send(c) \/ Recv(c)
       \/ CollectIrq(c) \/ WaitIrq(c)
       \/ \E pages \in 1..RegionMaxPages : MakeRegion(c, pages)
       \/ MapRegion(c) \/ UnmapRegion(c) \/ FreeRegion(c)
       \/ \E answered \in BOOLEAN : MapBar(c, answered)
       \/ \E d \in CapIds \cup {NoDelegate} :
            \/ SpawnNoMem(c, d)
            \/ \E request \in Requests : Spawn(c, d, request)
       \/ Revoke(c)
  \/ Exit

TimerIrq == PreemptTrap \/ IdleInterrupt(Timer)

ConsoleIrq == DeviceTrap \/ IdleInterrupt(Console)

Next == Syscall \/ FaultTrap \/ TimerIrq \/ ConsoleIrq \/ Halted

Spec == Init /\ [][Next]_vars

(* The timer is periodic and unmasked whenever user code runs or the CPU   *)
(* is parked.  Nothing obliges a process to make a call or the console to  *)
(* receive a byte.                                                         *)
FairSpec == Spec /\ WF_vars(TimerIrq)
=============================================================================
