----------------------------- MODULE AddressSpaces -----------------------------
(***************************************************************************)
(* The address spaces of the processes, down to the entries of their page  *)
(* tables: `load_process`, the device and share windows, the destruction   *)
(* of regions by plan, and the death of a process, as the kernel runs them *)
(* on the crates vspace, loader and regions.                               *)
(*                                                                         *)
(* Who may do what is the Kernel module's subject; here any process may    *)
(* hold a capability for any live region.  What is added is where things   *)
(* are: which frame holds which table, what a page contains, and which     *)
(* tree the CPU is walking (`active`), which a switch changes and a death  *)
(* does not.                                                               *)
(***************************************************************************)
EXTENDS VSpace, Regions

CONSTANTS Machines,          \* builds and images to boot
          MAX_PROCS,         \* process slots, 1..MAX_PROCS
          NUM_PROCS,         \* boot processes
          MAX_REGIONS,       \* entries of the region table
          REGION_QUOTA,      \* regions a process may own
          REGION_MAX_PAGES,  \* pages a region may have
          SHARE_SLOTS,       \* share windows of a process
          ArenaFrames,       \* frames of the DMA arena
          MaxId,             \* bound: processes ever created
          MaxRegionId        \* bound: regions ever created

(* The pages of the share windows. *)
ShareRange(m) == m.shareBase..(m.shareBase + SHARE_SLOTS * REGION_MAX_PAGES - 1)

(* What every build satisfies: the pages of the image, of the stack and of *)
(* the device window are user pages, which the levels tell apart and which *)
(* are none of the pages that the kernel's entries of the root lead to;    *)
(* and the image, which is linked low, and the stack lie outside the       *)
(* windows as far as `run` does not check it.                              *)
MachineOk(m) ==
  /\ m.levels \in Nat \ {0, 1} /\ m.fanout \in Nat \ {0}
  /\ m.user \subseteq Nat /\ m.shared \subseteq 0..(m.fanout - 1)
  /\ \A v \in m.user : Digit(v, m.fanout, m.levels - 1) \notin m.shared
  /\ \A v, w \in m.user :
       v # w => \E l \in 0..(m.levels - 1) :
                  Digit(v, m.fanout, l) # Digit(w, m.fanout, l)
  /\ {m.general, m.stackTop, m.stackPages, m.shareBase} \subseteq Nat
  /\ {m.mmioBase} \cup {m.stackTop - k : k \in 1..m.stackPages} \subseteq m.user
  /\ m.mmioBase \notin {m.stackTop - k : k \in 1..m.stackPages}
  /\ Len(m.image.segments) \in Nat
  /\ DOMAIN m.image.segments = 1..Len(m.image.segments)
  /\ \A k \in 1..Len(m.image.segments) :
       LET s == m.image.segments[k]
       IN  /\ s.kind \in {"load", "other", "outside"}
           /\ s.kind = "load" =>
                /\ {s.vaddr, s.memsz, s.filesz, s.offset} \subseteq Nat
                /\ SegmentPages(s) \in Seq(m.user)
                /\ Range(SegmentPages(s)) \cap (ShareRange(m) \cup {m.mmioBase}) = {}

ASSUME SpacesAssumption ==
  /\ {MAX_PROCS, NUM_PROCS, MAX_REGIONS, REGION_QUOTA, REGION_MAX_PAGES,
      SHARE_SLOTS, ArenaFrames, MaxId, MaxRegionId} \subseteq Nat
  /\ 0 < NUM_PROCS /\ NUM_PROCS <= MAX_PROCS
  /\ \A m \in Machines : MachineOk(m)

VARIABLES pt,        \* frames read as tables
          bytes,     \* frames read as pages
          free,      \* free frames of the general pool
          arena,     \* free frames of the arena
          space,     \* Process::token: the root, 0 for a Free slot
          frames,    \* Process::frames
          id,        \* Process::id
          shares,    \* Process::shares: region ids, 0 for none
          regions,   \* REGIONS
          nextId, nextRegion,
          phase,     \* "boot", "run", or "halt" after a failed assertion
          current,   \* the process that runs, 0 if none
          active,    \* the root the CPU walks
          plan,      \* the steps left of a teardown plan
          dying      \* the process being torn down, 0 if none

memory == <<pt, bytes, free>>
process == <<space, frames, id, shares, nextId>>
shared == <<arena, regions, nextRegion>>
cpu == <<phase, current, active>>
vars == <<machine, memory, process, shared, cpu, plan, dying>>

Procs == 1..MAX_PROCS
Shares == 1..SHARE_SLOTS
Live == {p \in Procs : space[p] # 0}

(* Physical memory: the kernel's root, the table its first entry links to, *)
(* the general pool, the arena, the registers of the device.               *)
KROOT == 1
KTABLE == 2
General == 3..(2 + machine.general)
Arena == (3 + machine.general)..(2 + machine.general + ArenaFrames)
DEVICE == 3 + machine.general + ArenaFrames
AllFrames == 1..DEVICE

NoRegion == [live |-> FALSE]
DIRT == 99

(* `share_va`. *)
ShareWindow(s) == [k \in 1..REGION_MAX_PAGES |->
                     machine.shareBase + (s - 1) * REGION_MAX_PAGES + k - 1]
DeviceWindow == <<machine.mmioBase>>

(* The geometry `run` checks before anything is loaded. *)
GeometryOk(m) ==
  /\ ShareRange(m) \subseteq m.user
  /\ ShareRange(m) \cap ((m.stackTop - m.stackPages)..(m.stackTop - 1)) = {}
  /\ m.mmioBase \notin ShareRange(m)

Init ==
  /\ machine \in Machines
  /\ GeometryOk(machine)
  /\ pt = [f \in AllFrames |->
             CASE f = KROOT -> [i \in Slots |->
                    IF i \notin machine.shared THEN EMPTY
                    ELSE IF machine.kernelLink THEN Link(KTABLE)
                    ELSE Leaf(KROOT, {"write", "exec"})]
               [] f = KTABLE -> [i \in Slots |-> Leaf(KROOT, {"write", "exec"})]
               [] OTHER -> NewTable]
  /\ bytes = [f \in AllFrames |-> [b \in 0..(PAGE_SIZE - 1) |-> DIRT]]
  /\ free = General
  /\ arena = Arena
  /\ space = [p \in Procs |-> 0]
  /\ frames = [p \in Procs |-> << >>]
  /\ id = [p \in Procs |-> 0]
  /\ shares = [p \in Procs |-> [s \in Shares |-> 0]]
  /\ regions = [i \in 1..MAX_REGIONS |-> NoRegion]
  /\ nextId = 1 /\ nextRegion = 1
  /\ phase = "boot" /\ current = 0 /\ active = KROOT
  /\ plan = << >> /\ dying = 0

InCall == phase = "run" /\ current # 0 /\ dying = 0 /\ plan = << >>

MemoryFor(p) == [pt |-> pt, bytes |-> bytes, free |-> free, frames |-> frames[p],
                 got |-> 0, at |-> 0, ok |-> TRUE]

-----------------------------------------------------------------------------
(* Loading.                                                                *)

(* Faulty variant of LoadProcess: a failed build keeps its frames. *)
LoadLeaking(p) ==
  LET m == Build([MemoryFor(p) EXCEPT !.frames = << >>], KROOT)
  IN  /\ space[p] = 0
      /\ nextId <= MaxId
      /\ pt' = m.pt
      /\ bytes' = m.bytes
      /\ free' = m.free
      /\ IF m.ok
         THEN /\ space' = [space EXCEPT ![p] = m.frames[1]]
              /\ frames' = [frames EXCEPT ![p] = m.frames]
              /\ id' = [id EXCEPT ![p] = nextId]
              /\ nextId' = nextId + 1
              /\ shares' = [shares EXCEPT ![p] = [s \in Shares |-> 0]]
         ELSE UNCHANGED process
      /\ UNCHANGED <<machine, shared, plan, dying>>

(* `load_process`: build in a fresh list of frames; keep it all, or give   *)
(* it all back.                                                            *)
LoadProcess(p) ==
  LET m == Build([MemoryFor(p) EXCEPT !.frames = << >>], KROOT)
  IN  /\ space[p] = 0
      /\ nextId <= MaxId
      /\ pt' = m.pt
      /\ bytes' = m.bytes
      /\ IF m.ok
         THEN /\ free' = m.free
              /\ space' = [space EXCEPT ![p] = m.frames[1]]
              /\ frames' = [frames EXCEPT ![p] = m.frames]
              /\ id' = [id EXCEPT ![p] = nextId]
              /\ nextId' = nextId + 1
              /\ shares' = [shares EXCEPT ![p] = [s \in Shares |-> 0]]
         ELSE /\ free' = m.free \cup Range(m.frames)
              /\ UNCHANGED process
      /\ UNCHANGED <<machine, shared, plan, dying>>

(* The boot processes, on the kernel's own tables; a failure is fatal. *)
Boot ==
  /\ phase = "boot"
  /\ nextId <= NUM_PROCS
  /\ LoadProcess(nextId)
  /\ phase' = IF nextId' = nextId THEN "halt" ELSE phase
  /\ UNCHANGED <<current, active>>

Start ==
  /\ phase = "boot"
  /\ nextId > NUM_PROCS
  /\ phase' = "run"
  /\ current' = 1
  /\ active' = space[1]
  /\ UNCHANGED <<machine, memory, process, shared, plan, dying>>

(* SPAWN, on the spawner's tables, into the first free slot. *)
Spawn ==
  /\ InCall
  /\ Live # Procs
  /\ LoadProcess(Min(Procs \ Live))
  /\ UNCHANGED cpu

-----------------------------------------------------------------------------
(* Scheduling: a resume reloads the paging base.  Nothing else does: with  *)
(* nobody to resume, the CPU parks on the tree of whoever ran last.        *)
Resume(p) ==
  /\ phase = "run" /\ dying = 0 /\ plan = << >>
  /\ p \in Live \ {current}
  /\ current' = p
  /\ active' = space[p]
  /\ UNCHANGED <<machine, memory, process, shared, phase, plan, dying>>

-----------------------------------------------------------------------------
(* Windows.                                                                *)

(* Map frames F from the first page of window w on, once whatever was      *)
(* there is gone; take all of it back if a page fails.  Tables made on the *)
(* way stay, charged to the process.                                       *)
MapEach(m, root, w, F, perms) ==
  LET after[k \in 0..Len(F)] ==
        IF k = 0 THEN m
        ELSE IF after[k - 1].ok THEN Map(after[k - 1], root, w[k], F[k], perms)
        ELSE after[k - 1]
  IN  after[Len(F)]

Cleared(m, root, w) == [m EXCEPT !.pt = UnmapAll(m.pt, root, Range(w))]

Remap(p, w, F, perms) ==
  LET m == MapEach(Cleared(MemoryFor(p), space[p], w), space[p], w, F, perms)
  IN  IF m.ok THEN m ELSE Cleared(m, space[p], w)

Takes(p, m) ==
  /\ pt' = m.pt
  /\ bytes' = m.bytes
  /\ free' = m.free
  /\ frames' = [frames EXCEPT ![p] = m.frames]

(* MAP_BAR, `map_device`: the stand-in page, cached, or the registers of a *)
(* real device, uncached, which exist on x86 only.                         *)
MapDevice(write) ==
  /\ InCall
  /\ Takes(current,
           Remap(current, DeviceWindow, <<DEVICE>>,
                 (IF write THEN USER_RW ELSE USER_RO)
                   \cup (IF machine.bar THEN {"device"} ELSE {})))
  /\ UNCHANGED <<machine, space, id, shares, nextId, shared, cpu, plan, dying>>

(* `unmap_device_window`, in the caller's space or in another's (REVOKE). *)
UnmapDevice(p) ==
  /\ InCall
  /\ p \in Live
  /\ pt' = UnmapAll(pt, space[p], Range(DeviceWindow))
  /\ UNCHANGED <<machine, bytes, free, process, shared, cpu, plan, dying>>

(* MAKE_REGION: within the quota, frames of the arena, zeroed. *)
MakeRegion(n) ==
  LET got == {f \in arena : Cardinality({g \in arena : g <= f}) <= n}
      empty == {i \in 1..MAX_REGIONS : ~regions[i].live}
      owned == {i \in 1..MAX_REGIONS : /\ regions[i].live
                                       /\ regions[i].owner = id[current]}
  IN  /\ InCall
      /\ Cardinality(owned) < REGION_QUOTA
      /\ empty # {}
      /\ nextRegion <= MaxRegionId
      /\ Cardinality(got) = n
      /\ pt' = [f \in AllFrames |-> IF f \in got THEN NewTable ELSE pt[f]]
      /\ bytes' = [f \in AllFrames |-> IF f \in got THEN NewPage ELSE bytes[f]]
      /\ arena' = arena \ got
      /\ regions' = [regions EXCEPT ![Min(empty)] =
                       [live |-> TRUE, id |-> nextRegion, owner |-> id[current],
                        frames |-> Ascending(got, DEVICE)]]
      /\ nextRegion' = nextRegion + 1
      /\ UNCHANGED <<machine, free, process, cpu, plan, dying>>

(* MAP_REGION, `map_region`: the slot that has it already, else the first  *)
(* free one; recorded only if every page went in.                          *)
MapRegion(i, write) ==
  LET r == regions[i]
      own == {s \in Shares : shares[current][s] = r.id}
      none == {s \in Shares : shares[current][s] = 0}
  IN  /\ InCall
      /\ r.live
      /\ own \cup none # {}
      /\ LET s == Min(IF own # {} THEN own ELSE none)
             m == Remap(current, ShareWindow(s), r.frames,
                        IF write THEN USER_RW ELSE USER_RO)
         IN  /\ Takes(current, m)
             /\ shares' = IF m.ok THEN [shares EXCEPT ![current][s] = r.id]
                                  ELSE shares
      /\ UNCHANGED <<machine, space, id, nextId, shared, cpu, plan, dying>>

(* `unmap_region_from`: UNMAP_REGION, or REVOKE in another's space. *)
UnmapRegion(p, r) ==
  LET held == {s \in Shares : shares[p][s] = r}
  IN  /\ InCall
      /\ p \in Live
      /\ held # {}
      /\ pt' = UnmapAll(pt, space[p], UNION {Range(ShareWindow(s)) : s \in held})
      /\ shares' = [shares EXCEPT ![p] =
                      [s \in Shares |-> IF s \in held THEN 0 ELSE @[s]]]
      /\ UNCHANGED <<machine, bytes, free, space, frames, id, nextId, shared, cpu,
                     plan, dying>>

-----------------------------------------------------------------------------
(* Destruction, by plan.                                                   *)

(* What a program wrote matters when its frames are used again.  So before *)
(* it gives memory back it has written every page it can write, itself or  *)
(* through the kernel's `user_range_mapped`.                               *)
Scribbled(root) ==
  LET hit == {LeafOf(pt, root, v).frame :
                v \in {v \in machine.user : UserWritable(pt, root, v)}}
  IN  [f \in AllFrames |-> IF f \in hit THEN [b \in DOMAIN bytes[f] |-> DIRT]
                           ELSE bytes[f]]

(* `region_view`. *)
Holders == [p \in Procs |-> [live |-> p \in Live, id |-> id[p],
                             slots |-> shares[p]]]

PLAN_STEPS == MAX_PROCS * SHARE_SLOTS + 2 * MAX_REGIONS + SHARE_SLOTS

(* FREE_REGION, by its owner. *)
FreeRegion(i) ==
  /\ InCall
  /\ regions[i].live
  /\ regions[i].owner = id[current]
  /\ plan' = Destroy(regions, Holders, regions[i].id)
  /\ bytes' = Scribbled(active)
  /\ UNCHANGED <<machine, pt, free, process, shared, cpu, dying>>

(* EXIT or a fault: `destroy_regions_owned_by`... *)
Exit ==
  /\ InCall
  /\ plan' = TeardownPlan(regions, Holders, current, id[current])
  /\ dying' = current
  /\ bytes' = Scribbled(active)
  /\ UNCHANGED <<machine, pt, free, process, shared, cpu>>

(* `run_region_plan`, step by step.  `unmap_share_slot` passes over a slot *)
(* that is empty by now; the capabilities are not modelled here.           *)
RunUnmap ==
  /\ plan # << >> /\ Head(plan).do = "unmap"
  /\ LET p == Head(plan).proc
         s == Head(plan).slot
     IN  IF shares[p][s] = 0 THEN UNCHANGED <<pt, shares>>
         ELSE /\ pt' = UnmapAll(pt, space[p], Range(ShareWindow(s)))
              /\ shares' = [shares EXCEPT ![p][s] = 0]
  /\ plan' = Tail(plan)
  /\ UNCHANGED <<machine, bytes, free, space, frames, id, nextId, shared, cpu,
                 dying>>

RunForgetCaps ==
  /\ plan # << >> /\ Head(plan).do = "forget"
  /\ plan' = Tail(plan)
  /\ UNCHANGED <<machine, memory, process, shared, cpu, dying>>

RunRelease ==
  /\ plan # << >> /\ Head(plan).do = "release"
  /\ LET gone == {i \in 1..MAX_REGIONS : /\ regions[i].live
                                         /\ regions[i].id = Head(plan).region}
     IN  /\ arena' = arena \cup UNION {Range(regions[i].frames) : i \in gone}
         /\ regions' = [i \in 1..MAX_REGIONS |->
                          IF i \in gone THEN NoRegion ELSE regions[i]]
  /\ plan' = Tail(plan)
  /\ UNCHANGED <<machine, memory, process, nextRegion, cpu, dying>>

(* Faulty variant of Reap: the frames are scrubbed when they are released, *)
(* not when they are taken.                                                *)
ReapScrubs ==
  /\ dying # 0 /\ plan = << >>
  /\ free' = free \cup Range(frames[dying])
  /\ pt' = [f \in AllFrames |-> IF f \in Range(frames[dying]) THEN NewTable
                                ELSE pt[f]]
  /\ space' = [space EXCEPT ![dying] = 0]
  /\ frames' = [frames EXCEPT ![dying] = << >>]
  /\ current' = 0
  /\ dying' = 0
  /\ UNCHANGED <<machine, bytes, id, shares, nextId, shared, phase, active, plan>>

(* ...then every frame it was charged, the tables the CPU is still walking *)
(* among them, and the slot.                                               *)
Reap ==
  /\ dying # 0 /\ plan = << >>
  /\ free' = free \cup Range(frames[dying])
  /\ space' = [space EXCEPT ![dying] = 0]
  /\ frames' = [frames EXCEPT ![dying] = << >>]
  /\ current' = 0
  /\ dying' = 0
  /\ UNCHANGED <<machine, pt, bytes, id, shares, nextId, shared, phase, active,
                 plan>>

-----------------------------------------------------------------------------
Syscall ==
  \/ Spawn
  \/ \E write \in machine.rights : MapDevice(write)
  \/ \E p \in Procs : UnmapDevice(p)
  \/ \E n \in 1..REGION_MAX_PAGES : MakeRegion(n)
  \/ \E i \in 1..MAX_REGIONS, write \in machine.rights : MapRegion(i, write)
  \/ \E p \in Procs, r \in 1..MaxRegionId : UnmapRegion(p, r)
  \/ \E i \in 1..MAX_REGIONS : FreeRegion(i)
  \/ Exit

Next ==
  \/ Boot \/ Start
  \/ \E p \in Procs : Resume(p)
  \/ Syscall
  \/ RunUnmap \/ RunForgetCaps \/ RunRelease \/ Reap

Spec == Init /\ [][Next]_vars
=============================================================================
