--------------------------------- MODULE Dma ---------------------------------
(***************************************************************************)
(* Device DMA on x86: MAKE_REGION, FREE_REGION, MAP_DMA, UNMAP_DMA and the *)
(* death of a process, against an AMD IOMMU that works on its own clock.   *)
(*                                                                         *)
(* Four accounts of what a device may reach have to agree: the capability  *)
(* side (`regions`, and the attribution slots `dma` of each process), the  *)
(* model (`doms`, the crate iommu), the I/O page table (`l1`) that the     *)
(* unit walks, and the translations the unit has cached (`cached`).  The   *)
(* kernel writes the first three; only an invalidation the unit has        *)
(* executed empties the last.                                              *)
(*                                                                         *)
(* A handler runs on the one CPU without interruption, but the unit and    *)
(* the devices do not wait for it, so a handler is split where they can    *)
(* tell: `work` holds the steps it has left.  Clearing several leaves is   *)
(* one step, since a walk between two of them could as well come first.    *)
(*                                                                         *)
(* Who may map: MAP_DMA takes an IommuDomain and a Region capability.  A   *)
(* spawned process receives one capability, so with any boot table only    *)
(* the owner of a region can hold both, in one slot with fixed rights;     *)
(* Drivers are the processes booted with the domain capability.            *)
(***************************************************************************)
EXTENDS Iommu, Sequences, SequencesExt

CONSTANTS Procs,         \* process table slots in use
          Drivers,       \* those that hold the IommuDomain capabilities
          Domains,       \* claimed slots of DOMAIN_SLOTS
          Frames,        \* the DMA arena, 1..n
          Iovas,         \* slots of the IOVA window, 1..n
          Pages,         \* region sizes asked for
          RegionQuota,   \* abi::REGION_QUOTA
          Slots,         \* SHARE_SLOTS: attribution slots of a process
          GrantSlots,    \* capacity of Domain::grants
          MapSlots,      \* capacity of Domain::maps
          RingCommands,  \* commands the ring takes before it would wrap
          MaxRegionId,   \* bound: regions ever created
          MaxTimeouts    \* bound: invalidations the unit answers too late

ASSUME DmaAssumption ==
  /\ Drivers \subseteq Procs
  /\ {RingCommands, MaxRegionId, MaxTimeouts, Slots} \subseteq Nat
  /\ Frames = 1..Cardinality(Frames) /\ Cardinality(Frames) \in Nat
  /\ Domains = 1..Cardinality(Domains) /\ Cardinality(Domains) \in Nat
  /\ Iovas \subseteq Nat /\ Pages \subseteq Nat \ {0}

VARIABLES alive,     \* processes whose slot is not Free
          regions,   \* live regions: [id, owner, frames]
          nextId,    \* NEXT_REGION_ID
          pool,      \* free frames of the DMA arena
          dma,       \* Process::dma: [1..Slots -> record or NoRecord]
          doms,      \* DEVICE_DOMAINS
          l1,        \* the I/O page tables: [Iovas -> frame or 0]
          cached,    \* per domain, the translations the unit has cached
          ring,      \* commands the unit has not executed yet
          tail,      \* CMD_TAIL, in commands
          store,     \* CMD_STORE holds DONE
          work,      \* the steps left of the running handler
          unacked,   \* INVALIDATE_TIMEOUTS
          undone,    \* history: the leaves refused calls took back
          panicked   \* an assert! has failed

cpu == <<alive, regions, nextId, pool, dma, doms, l1>>
unit == <<cached, ring, tail, store>>
vars == <<cpu, unit, work, unacked, undone, panicked>>

NoRecord == [region |-> 0]
Record(r, d) == [region |-> r, domain |-> d]
Rights == {"READ", "WRITE"}

Idle == work = << >> /\ ~panicked

-----------------------------------------------------------------------------
(* Steps a handler may have left. *)
FlushStep(d) == [do |-> "flush", domain |-> d]
AwaitStep(d) == [do |-> "await", domain |-> d]
ReleaseStep(r) == [do |-> "release", region |-> r]
FreeStep(r) == [do |-> "free", region |-> r]
ReapStep(p) == [do |-> "reap", proc |-> p]
UndoStep(d, first, frames) ==
  [do |-> "undo", domain |-> d, first |-> first, frames |-> frames]

Doing(what) == ~panicked /\ work # << >> /\ Head(work).do = what
Step == Head(work)

(* Faulty variant of FlushAll: the first domain stands for all of them. *)
FlushFirst == <<FlushStep(1)>>

(* `invalidate_all_domains`. *)
FlushAll == [d \in Domains |-> FlushStep(d)]

FramesOf(r) == Range(r.frames)

(* `clear_io_mappings_in`: the table without the leaves of these frames... *)
Leaves(tab, F) == {v \in Iovas : tab[v] \in F}

Cleared(tab, F) == [v \in Iovas |-> IF v \in Leaves(tab, F) THEN 0 ELSE tab[v]]

(* ...and the model without them: `withdraw_region_from_domain` and        *)
(* `Release` revoke each frame after its leaves are gone.                  *)
RevokeAll(dom, F) ==
  [grants |-> UNION {GrantsOf(dom, f) : f \in Frames \ F},
   maps   |-> {m \in dom.maps : m.frame \notin F}]

Init ==
  /\ alive = Procs
  /\ regions = {} /\ nextId = 1
  /\ pool = Frames
  /\ dma = [p \in Procs |-> [s \in 1..Slots |-> NoRecord]]
  /\ doms = [d \in Domains |-> EmptyDomain]
  /\ l1 = [d \in Domains |-> [v \in Iovas |-> 0]]
  /\ cached = [d \in Domains |-> {}]
  /\ ring = << >> /\ tail = 0 /\ store = FALSE
  /\ work = << >> /\ unacked = 0 /\ undone = {} /\ panicked = FALSE

-----------------------------------------------------------------------------
(* MAKE_REGION: quota, then the lowest free frames of the arena, then the  *)
(* tripwire: no domain may authorize a frame that was just handed out.     *)
NthFree(k) == Min({f \in pool : Cardinality({g \in pool : g < f}) >= k - 1})

MakeRegion(p, n) ==
  LET got == [k \in 1..n |-> NthFree(k)]
  IN  /\ Idle
      /\ p \in alive
      /\ Cardinality({r \in regions : r.owner = p}) < RegionQuota
      /\ nextId <= MaxRegionId
      /\ n <= Cardinality(pool)
      /\ nextId' = nextId + 1
      /\ pool' = pool \ Range(got)
      /\ IF \E d \in Domains, f \in Range(got) : Granted(doms[d], f)
         THEN /\ panicked' = TRUE
              /\ UNCHANGED regions
         ELSE /\ regions' = regions \cup
                   {[id |-> nextId, owner |-> p, frames |-> got]}
              /\ UNCHANGED panicked
      /\ UNCHANGED <<alive, dma, doms, l1, unit, work, unacked, undone>>

(* MAP_DMA: the first run of free IOVA slots that is long enough. *)
Runs(d, n) == {v \in Iovas : \A k \in 0..(n - 1) : v + k \in Iovas
                                                /\ l1[d][v + k] = 0}
FreeSlots(p) == {s \in 1..Slots : dma[p][s] = NoRecord}

(* Grant a page and map it, page after page: the domain after k pages...   *)
GrantPage(dom, r, k) == Grant(dom, r.frames[k], Rights, GrantSlots)
PagesMapped(dom, r, first) ==
  LET after[k \in 0..Len(r.frames)] ==
        IF k = 0 THEN dom
        ELSE Map(GrantPage(after[k - 1], r, k), first + k - 1, r.frames[k],
                 Rights, MapSlots)
  IN  after

(* ...and the pages at which `Domain::map` would refuse. *)
Refusals(dom, r, first) ==
  LET after == PagesMapped(dom, r, first)
  IN  {k \in 1..Len(r.frames) :
         MapAnswer(GrantPage(after[k - 1], r, k), first + k - 1, r.frames[k],
                   Rights, MapSlots) # "Ok"}

(* The table with the leaves of the first k pages. *)
Installed(tab, r, first, k) ==
  [v \in Iovas |-> IF v \in first..(first + k - 1)
                   THEN r.frames[v - first + 1] ELSE tab[v]]

MapDma(p, d, r) ==
  /\ Idle
  /\ p \in alive \cap Drivers
  /\ r.owner = p
  /\ Runs(d, Len(r.frames)) # {}
  /\ FreeSlots(p) # {}
  /\ LET first == Min(Runs(d, Len(r.frames)))
         after == PagesMapped(doms[d], r, first)
         bad == Refusals(doms[d], r, first)
     IN  IF bad = {}
         THEN /\ doms' = [doms EXCEPT ![d] = after[Len(r.frames)]]
              /\ l1' = [l1 EXCEPT ![d] =
                          Installed(@, r, first, Len(r.frames))]
              /\ dma' = [dma EXCEPT ![p][Min(FreeSlots(p))] = Record(r.id, d)]
              /\ UNCHANGED work
         ELSE LET k == Min(bad)
              IN  /\ doms' = [doms EXCEPT ![d] = GrantPage(after[k - 1], r, k)]
                  /\ l1' = [l1 EXCEPT ![d] = Installed(@, r, first, k - 1)]
                  /\ work' = <<UndoStep(d, first, SubSeq(r.frames, 1, k))>>
                  /\ UNCHANGED dma
  /\ UNCHANGED <<alive, regions, nextId, pool, unit, unacked, undone,
                 panicked>>

(* Faulty variant of UndoMap: every translation of the frames is revoked,  *)
(* older ones included.                                                    *)
UndoTooBroad ==
  /\ Doing("undo")
  /\ LET d == Step.domain
         vs == Step.first..(Step.first + Len(Step.frames) - 1)
     IN  /\ doms' = [doms EXCEPT ![d] = RevokeAll(@, Range(Step.frames))]
         /\ l1' = [l1 EXCEPT ![d] =
                     [v \in Iovas |-> IF v \in vs THEN 0 ELSE @[v]]]
         /\ undone' = undone \cup {<<d, v, l1[d][v]>> : v \in vs}
  /\ work' = Tail(work)
  /\ UNCHANGED <<alive, regions, nextId, pool, dma, unit, unacked, panicked>>

(* The refused page: what this call installed goes, and the grants nothing *)
(* rests on.  The unit is not told.                                        *)
UndoMap ==
  /\ Doing("undo")
  /\ LET d == Step.domain
         vs == Step.first..(Step.first + Len(Step.frames) - 1)
         kept == {m \in doms[d].maps : m.iova \notin vs}
     IN  /\ doms' = [doms EXCEPT ![d] =
               [grants |-> {g \in @.grants : g.frame \in Range(Step.frames)
                              => \E m \in kept : m.frame = g.frame},
                maps   |-> kept]]
         /\ l1' = [l1 EXCEPT ![d] =
                     [v \in Iovas |-> IF v \in vs THEN 0 ELSE @[v]]]
         /\ undone' = undone \cup {<<d, v, l1[d][v]>> : v \in vs}
  /\ work' = Tail(work)
  /\ UNCHANGED <<alive, regions, nextId, pool, dma, unit, unacked, panicked>>

(* UNMAP_DMA: the table, the model and the caller's records, then one      *)
(* invalidation of that domain whatever was found.                         *)
UnmapDma(p, d, r) ==
  /\ Idle
  /\ p \in alive \cap Drivers
  /\ r.owner = p
  /\ l1' = [l1 EXCEPT ![d] = Cleared(@, FramesOf(r))]
  /\ doms' = [doms EXCEPT ![d] = RevokeAll(@, FramesOf(r))]
  /\ dma' = [dma EXCEPT ![p] = [s \in 1..Slots |->
               IF @[s] = Record(r.id, d) THEN NoRecord ELSE @[s]]]
  /\ work' = <<FlushStep(d)>>
  /\ UNCHANGED <<alive, regions, nextId, pool, unit, unacked, undone,
                 panicked>>

(* FREE_REGION, by its owner. *)
FreeRegion(p, r) ==
  /\ Idle
  /\ p \in alive
  /\ r.owner = p
  /\ work' = <<ReleaseStep(r)>>
  /\ UNCHANGED <<cpu, unit, unacked, undone, panicked>>

(* EXIT or a fault: `withdraw_all_dma_of`, and if that cleared anything    *)
(* every domain is flushed; then the regions it owns, in the order of a    *)
(* table that no property looks at; then the slot.                         *)
Mapped(p, d) == UNION {FramesOf(r) : r \in {r \in regions :
                  \E s \in 1..Slots : dma[p][s] = Record(r.id, d)}}
Teardown(p) ==
  LET owned == {r \in regions : r.owner = p}
      any == \E d \in Domains : Leaves(l1[d], Mapped(p, d)) # {}
  IN  /\ Idle
      /\ p \in alive
      /\ l1' = [d \in Domains |-> Cleared(l1[d], Mapped(p, d))]
      /\ doms' = [d \in Domains |-> RevokeAll(doms[d], Mapped(p, d))]
      /\ dma' = [dma EXCEPT ![p] = [s \in 1..Slots |-> NoRecord]]
      /\ work' = (IF any THEN FlushAll ELSE << >>)
                 \o SetToSeq({ReleaseStep(r) : r \in owned})
                 \o <<ReapStep(p)>>
      /\ UNCHANGED <<alive, regions, nextId, pool, unit, unacked, undone,
                     panicked>>

-----------------------------------------------------------------------------
(* The steps of `Release`: the leaves and grants of the region's frames,   *)
(* in every domain; the unit is told if there were any leaves...           *)
Release ==
  /\ Doing("release")
  /\ LET F == FramesOf(Step.region)
         touched == \E d \in Domains : Leaves(l1[d], F) # {}
     IN  /\ l1' = [d \in Domains |-> Cleared(l1[d], F)]
         /\ doms' = [d \in Domains |-> RevokeAll(doms[d], F)]
         /\ work' = (IF touched THEN FlushAll ELSE << >>)
                    \o <<FreeStep(Step.region)>> \o Tail(work)
  /\ UNCHANGED <<alive, regions, nextId, pool, dma, unit, unacked, undone,
                 panicked>>

(* Faulty variant of FreeFrames: the attribution slots are left alone. *)
FreeKeepsRecords ==
  /\ Doing("free")
  /\ pool' = pool \cup FramesOf(Step.region)
  /\ regions' = regions \ {Step.region}
  /\ work' = Tail(work)
  /\ UNCHANGED <<alive, nextId, dma, doms, l1, unit, unacked, undone,
                 panicked>>

(* ...then every attribution slot that names it, its frames, its entry. *)
FreeFrames ==
  /\ Doing("free")
  /\ dma' = [p \in Procs |-> IF p \notin alive THEN dma[p]
               ELSE [s \in 1..Slots |->
                       IF dma[p][s].region = Step.region.id THEN NoRecord
                                                            ELSE dma[p][s]]]
  /\ pool' = pool \cup FramesOf(Step.region)
  /\ regions' = regions \ {Step.region}
  /\ work' = Tail(work)
  /\ UNCHANGED <<alive, nextId, doms, l1, unit, unacked, undone, panicked>>

Reap ==
  /\ Doing("reap")
  /\ alive' = alive \ {Step.proc}
  /\ work' = Tail(work)
  /\ UNCHANGED <<regions, nextId, pool, dma, doms, l1, unit, unacked, undone,
                 panicked>>

(* `iommu_invalidate`: clear the store, queue the three commands (the      *)
(* domain's pages, its device's table entry, a completion wait), spin.     *)
(* The assert of `iommu_cmd` refuses a ring that would wrap.               *)
Invalidate ==
  /\ Doing("flush")
  /\ IF tail + 3 > RingCommands
     THEN /\ panicked' = TRUE
          /\ UNCHANGED <<unit, work>>
     ELSE /\ store' = FALSE
          /\ ring' = ring \o << [pages |-> Step.domain], [wait |-> TRUE] >>
          /\ tail' = tail + 3
          /\ work' = <<AwaitStep(Step.domain)>> \o Tail(work)
          /\ UNCHANGED <<cached, panicked>>
  /\ UNCHANGED <<cpu, unacked, undone>>

Acknowledged ==
  /\ Doing("await")
  /\ store
  /\ work' = Tail(work)
  /\ UNCHANGED <<cpu, unit, unacked, undone, panicked>>

(* Ten million reads and the store is not there: counted, and the handler  *)
(* goes on all the same.                                                   *)
TimedOut ==
  /\ Doing("await")
  /\ ~store
  /\ unacked < MaxTimeouts
  /\ unacked' = unacked + 1
  /\ work' = Tail(work)
  /\ UNCHANGED <<cpu, unit, undone, panicked>>

-----------------------------------------------------------------------------
(* The unit executes its commands in order.  The device-table entry does   *)
(* not change, so the command that invalidates it has nothing to undo.     *)
UnitStep ==
  /\ ring # << >>
  /\ ring' = Tail(ring)
  /\ IF "pages" \in DOMAIN Head(ring)
     THEN /\ cached' = [cached EXCEPT ![Head(ring).pages] = {}]
          /\ UNCHANGED store
     ELSE /\ store' = TRUE
          /\ UNCHANGED cached
  /\ UNCHANGED <<cpu, tail, work, unacked, undone, panicked>>

(* A device uses an address: the unit walks the table and keeps the        *)
(* translation.                                                            *)
Walk(d, v) ==
  /\ l1[d][v] # 0
  /\ cached' = [cached EXCEPT ![d] = @ \cup {<<v, l1[d][v]>>}]
  /\ UNCHANGED <<cpu, ring, tail, store, work, unacked, undone, panicked>>

Syscall(p) ==
  \/ \E n \in Pages : MakeRegion(p, n)
  \/ \E r \in regions : FreeRegion(p, r)
  \/ \E d \in Domains, r \in regions : MapDma(p, d, r) \/ UnmapDma(p, d, r)
  \/ Teardown(p)

Handler == \/ UndoMap \/ Release \/ FreeFrames \/ Reap
           \/ Invalidate \/ Acknowledged \/ TimedOut

Next == \/ \E p \in Procs : Syscall(p)
        \/ Handler
        \/ UnitStep
        \/ \E d \in Domains, v \in Iovas : Walk(d, v)

Spec == Init /\ [][Next]_vars

-----------------------------------------------------------------------------
Present(d) == {<<v, l1[d][v]>> : v \in {v \in Iovas : l1[d][v] # 0}}

(* Between two calls the page table the device walks and the model that    *)
(* decides about it hold the same translations, in every domain: the check *)
(* of the boot's end (STALE HARDWARE MAPPING), in both directions and      *)
(* after every call, the ones that were refused half way included.         *)
HardwareAgrees ==
  Idle => \A d \in Domains :
            Present(d) = {<<m.iova, m.frame>> : m \in doms[d].maps}

(* Between two calls reach, authority and attribution are one thing.       *)
(* Every leaf of a region is one some live process has a record of, so     *)
(* that its death can find it; a record has leaves, and names a region     *)
(* that still exists, so that cycles of mapping, freeing and dying do not  *)
(* use up a process's slots; and a frame is authorized only while a live   *)
(* region holds it and something is mapped to it, with nothing left over   *)
(* from a request that was refused.                                        *)
ReachAttributed ==
  Idle => /\ \A d \in Domains, r \in regions :
               Leaves(l1[d], FramesOf(r)) # {}
                 <=> \E p \in alive, s \in 1..Slots :
                       dma[p][s] = Record(r.id, d)
          /\ \A p \in Procs, s \in 1..Slots : dma[p][s] # NoRecord =>
               p \in alive /\ \E r \in regions : r.id = dma[p][s].region
          /\ \A d \in Domains : \A g \in doms[d].grants :
               /\ \E r \in regions : g.frame \in FramesOf(r)
               /\ \E m \in doms[d].maps : m.frame = g.frame

(* A frame in the pool is reached by no device: never by a walk, and by a  *)
(* cached translation only if an invalidation went unanswered, which the   *)
(* end of the boot reports as a failure, or if the translation is one that *)
(* a refused MAP_DMA took back without telling the unit.                   *)
ReclaimedUnreached ==
  \A d \in Domains :
    /\ Leaves(l1[d], pool) = {}
    /\ unacked = 0 =>
         \A e \in cached[d] : e[2] \in pool => <<d, e[1], e[2]>> \in undone

(* Between two calls, and with every invalidation answered, the unit       *)
(* holds no translation the page table does not: what a caller was told    *)
(* is unmapped, or was never mapped, is out of the device's reach.         *)
NothingLingers ==
  Idle /\ unacked = 0 => \A d \in Domains : cached[d] \subseteq Present(d)

=============================================================================
