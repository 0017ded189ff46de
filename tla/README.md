# rustproof in TLA+

rustproof is a capability microkernel ("nucleus") in Rust: processes reach
everything they use, another process, a device window, an interrupt line, a
range of memory, a device's DMA domain, through a capability, and every
capability can be delegated once at spawn and taken back with its whole
derivation tree. This directory models the parts of it that decide, checks them
with TLC on small instances, and proves with TLAPS what can be proved for every
size.

Paths below are relative to `src/crates/`; `kernel` stands for
`kernel/src/lib.rs`.

## 1. The system

### Components, their state and their operations

| Component (code) | State | Operations | Correct when |
|---|---|---|---|
| Run queue (`sched`) | array of thread ids, live length, cursor | `add`, `next`, `remove`, `current` | live prefix has no duplicates, cursor names a live slot, removals keep the rotation |
| Endpoint (`ipc`) | two ring buffers | `send`, `recv` | two bounded FIFO lines, never both non-empty |
| Ledger (`deleg`) | array of derivation edges | `record`, `revoke_from`, `splice_out`, `forget` | edges are exactly the live derivations; a revoke reaches all descendants and only those |
| Run states (`runstate`) | none (decisions over a snapshot) | `classify`, `find_blocked_*`, `well_formed` | the machine parks, halts or ends for the true reason |
| Capability space (`capabilities`) | slots of a process | `insert`, `lookup`, `revoke` | first free slot, nothing overwritten |
| Traps (`kernel`) | process table, `SCHED`, `CURRENT`, `IDLING`, ledger, regions, shares, credits, frame pools | system calls, faults, timer and device interrupts, idle park, teardown | no access outlives the capability that conferred it |
| Region plans (`regions`) | none (plans over a view) | `destroy`, `teardown` | unmap everywhere before release, at every step |
| DMA (`kernel`, x86) | I/O page table, attribution slots, command ring | `MAP_DMA`, `UNMAP_DMA`, Release step, invalidation | a device reaches only what its owner mapped and the region still owns |
| IOMMU model (`iommu`) | grants and translations of a domain | `grant`, `revoke`, `map`, `unmap` | reach stays inside live grants |
| Frames (`mm`) | bitmap, free count, search hint | construction, `alloc_frame`, `alloc_dma_frame`, `alloc_contiguous`, `free_frame` | no frame twice, none lost, pools apart |
| Address spaces (`vspace`, `vspace-riscv`, `arch_*`) | page tables, the tree the CPU walks | `create`, `map`, `unmap`, `translate`, `share_kernel`, `user_range_mapped` | the walk is a map that only its own operations change; every table is charged to its process |
| Loaders (`loader`, `loader-riscv`) | none | `load_elf`, `load_segment` | exactly the segments' pages, with their bytes, zeros and permissions; all or nothing |
| Firmware (`kernel/src/acpi.rs`, `pci.rs`, `pvh.rs`) | none (reads the machine) | ACPI lookup, bus walk, device choice | only tables that check out are believed; every function is found or the scan says it was truncated |
| IOMMU bring-up and containment proof (`kernel`, x86) | device table, domain slots, unit registers, the proof's frames | `program_dte`, `prove_containment` | nothing is published before every function is bounded; a verdict is printed only if it could have failed |
| User programs (`init`, `riscv-init`) | their registers and what they wrote | the scripts of producer, consumer, worker and children | what they check of the kernel holds, and every boot ends |
| Trap entry, context switch, drivers of the interrupt controllers | | | not modelled, see section 7 |

### How they interact

There is one CPU and no kernel thread: a trap handler runs to its end with
interrupts off, so handlers are atomic with respect to one another, and the
model has one action per trap. What is concurrent is *which* trap comes next:
any process may issue any system call with any arguments, fault, or be
interrupted at any time, and interrupts also arrive while the CPU is parked.
Outside the CPU run the devices and the IOMMU, which do not wait for a handler;
there the model splits the handlers (module `Dma`).

A handler ends in the same tail everywhere: take what the scheduler names as
current, or, when the queue is empty, decide between park, deadlock and
completion (`nothing_runnable`). The scheduler, the ledger and the capability
spaces are libraries that the handlers call; a process's death runs the region
plan, the ledger's `splice_out`, the wake-up of abandoned peers and the
scheduler's `remove` in one trap.

### What is hard

Process slots, capability slots and frames are recycled, so every stored name
can go stale; authority is held in one place (capability spaces) and exercised
in several others (parked waits, mappings, device windows, interrupt credits,
I/O page tables, the IOMMU's cache), each undone by a different path; several
handlers and the loader fail half way; a dead process's tables are walked after
they are freed; the run queue and `CURRENT` are two records of one fact;
invalidations time out and are answered late; the boot draws conclusions from
hardware it cannot trust, with probes that share one device and one cache; the
user programs wait for one another in bounded loops. `PROJECT.json` lists these hazards
at their lines with the properties that watch them.

## 2. Modules

| Module | Models | Notes |
|---|---|---|
| `Sched` | operators of `sched::Scheduler` | array as a sequence, cursor 0-based as in the code |
| `RunQueue` | the scheduler alone under any calls its callers make | one action per operation |
| `RunQueueProofs` | lemmas about the operators of `Sched`, theorems about `RunQueue` | used by `KernelProofs` |
| `Endpoint` | what an endpoint promises | abstract: two sequences |
| `Ipc` | the ring buffers, `send`, `recv`, `copy_words` | refines `Endpoint` |
| `IpcProofs` | the refinement of `Endpoint`, as a theorem | |
| `Ledger` | the ledger as a set of edges, with closure, splice, forget | used by `Kernel` |
| `LedgerTable` | the array and its loops, one iteration per step | each loop shown to compute its `Ledger` operator |
| `LedgerProofs` | theorems about `LedgerTable`: each loop computes its operator | |
| `Kernel` | process table, capabilities, traps | uses `Sched` and `Ledger` |
| `KernelSafety` | the properties of `Kernel` | |
| `KernelProofs` | theorems about `Kernel`: scheduling, the ledger, waiting, authority, mappings, frames, verdict | extends `KernelSafety` and `RunQueueProofs` |
| `Iommu` | operators of `iommu::Domain` | used by `IommuDomain` and `Dma` |
| `IommuDomain` | one domain under any calls | used by `IommuBoot` |
| `IommuProofs` | theorems about `IommuDomain` and about `IommuBoot` | extends `IommuBoot` |
| `Dma` | the DMA calls, the unit and the devices | uses `Iommu` |
| `DmaProofs` | theorems about `Dma` | |
| `Mm` | `mm::BitmapAllocator` | operation names as in the code |
| `MmProofs` | theorems about `Mm` | |
| `VSpace` | operators of both `vspace` crates and both loaders on a memory | used by `AddressSpaces` |
| `Regions` | operators of `regions`: the planner | used by `AddressSpaces` |
| `AddressMap` | what address spaces promise | abstract: a map from pages to leaves per process |
| `AddressSpaces` | loading, windows, plans and death, down to the table entries | |
| `SpacesSafety` | the properties of `AddressSpaces` | refines `AddressMap` |
| `SpacesProofs` | theorems about `AddressSpaces` | extends `SpacesSafety` |
| `Firmware` | operators: ACPI tables, PCI functions, bus walk | used by `IommuBoot` |
| `IommuBoot` | finding, programming and enabling the unit, the containment proof, then the calls of `IommuDomain` | extends `IommuDomain` and `Firmware` |
| `UserProgram` | the vocabulary of the user programs: one instruction per system-call wrapper | |
| `X86Init`, `RiscvInit` | the scripts of both programs, as sequences of instructions | |
| `Userland` | an interpreter of the scripts on the nucleus | extends `Kernel` and `RiscvInit` |
| `MC*` | TLC instances | give constants their values |

`PROJECT.json` maps every definition to the lines it stands for.

### `Sched`, `RunQueue`

`slots` is the live prefix `threads[0..len]`, `cur` the cursor. `Remove` is
`position` followed by the shift and the four-case cursor repair, `Advance` is
`next`, `Add` refuses duplicates and overflow. `RunQueue` removes only the
current thread, because that is the only thread the kernel ever removes
(blocking and teardown act on the running process); the rotation order is
stated under that use. The repair for a removal before the cursor is translated
with the rest of `remove`, but no run reaches it.

### `Ipc`, `Endpoint`

A ring is `[buf, head, len]`, with the popped cell emptied as `take()` does.
`copy_words` truncates a message to the register count; it is part of `Send`.
The refinement maps each ring to the sequence read from `head`. Threads that are
parked make no calls, which is the calling convention `Endpoint` documents. The
kernel itself does not use this crate's queues: its matcher scans the process
table and takes the lowest slot, so the FIFO promise is the crate's, not the
kernel's, and `Kernel` models the scan.

### `Ledger`, `LedgerTable`

`Ledger` states what the operations mean on a set of edges: `Reach` is the least
set closed under derivation, `SpliceOut` re-parents the children of a dead
process's capabilities to their parents. `LedgerTable` runs the loops of
`revoke_from` and `splice_out` one array cell at a time, next to a small world
of processes that receive, pass on, lose and refill capabilities and die, whose
slots are recycled. `ancestors` is a history variable: the true derivation
chain of every live capability, against which the table is compared.

### `Kernel`

State: per process `pid`, run state, capability space, saved result register,
interrupt credits, share slots and the leaves mapped under them, device window,
page-table frames charged; globally the run queue, `current`, `idling`, the
verdict, ledger edges, regions and the two frame pools. Actions: `Yield`,
`Send`, `Recv`, `WaitIrq`, `Spawn` (and its out-of-memory form), `Revoke`,
`MakeRegion`, `MapRegion`, `UnmapRegion`, `FreeRegion`, `MapBar`, `Exit`,
`FaultTrap`, `PreemptTrap`, `DeviceTrap`, `IdleInterrupt`.

* A refused call changes only the caller's result register, which the caller
  overwrites with its next call; refusals that change nothing else are stutters.
* Frames are counted, not named, per pool; which frame is handed out is `Mm`'s
  concern. Page-table frames for a share or device window may be granted in
  part, as `map_page` takes them level by level.
* The build modelled is the one without IOMMU (riscv64); the x86 DMA calls are
  `Dma`.
* A spawned process receives at most one capability. Hence only a region's
  owner can hold both a `Region` and an `IommuDomain` capability.
* A freed process slot keeps its old capabilities, as in the code; every search
  filters by run state first.
* After `REVOKE` the stranded processes are requeued in the order the ledger's
  output array lists them; the model allows any order.
* The wake-up of hopeless interrupt waiters in `nothing_runnable` does not
  appear as an action: `ParkIsHopeful` shows that no such waiter exists, since
  `REVOKE` already wakes it.

### `Iommu`, `IommuDomain`, `Dma`

`IommuDomain` is the crate. `Dma` adds the kernel's part: page table `l1`,
attribution slots `dma`, region table, the command ring, and two actors of
which the kernel has no control: devices walk the table and fill `cached`
(`Walk`), the unit executes queued commands in order (`UnitStep`). A handler is
a list of steps (`work`); it is split at the points the other two can observe:
between clearing leaves and queueing commands, between queueing and waiting,
between waiting and releasing frames. A wait may give up before the unit
answers (`TimedOut`); the kernel counts it in `unacked` and goes on, as the code
does. The rights of a region are fixed, since its only possible mapper is its
owner. Left out: REVOKE's DMA branch, which no boot table reaches (the revoked
process would need both capabilities).

### `Firmware`, `IommuBoot`

A firmware table is a record of what its checks look at, a PCI function of what
config space answers for it. `boot` is the machine: its functions, its tables,
its frames, which registers take a store, and one fault of its IOMMU, or none.
`BringUp` is `program_dte` with one action per stage: every store to a device
table entry may fail to take, and every allocation may find no frame.

`prove_containment` is 700 lines of straight code: fill a frame, program the
device, poll it, look, print. It is data here. `Script` lists its instructions
phase by phase, and there is one action per kind of instruction, so that
transfers that are given up and land later (`TransferStuck`, `TransferLate`) and
flushes that are answered late (`FlushUnanswered`, `FlushLate`) meet every
instruction of it. The unit (`Reached`, `Land`, `Execute`) caches
translations and the device's entry, and is external: it is modelled from what
the code expects of it, and from the eight ways of being broken that the proof is
there to notice. `lines` is what was printed.

After a boot that found nothing wrong the operations of `IommuDomain` follow on
the domain the proof has used, so what is checked of the domain holds from the
state the machine really leaves it in.

### `UserProgram`, `X86Init`, `RiscvInit`, `Userland`

Both programs are scripts: a sequence of system calls, each followed by a check
that prints a line ending in "(bug)" when the answer is wrong. `X86Init` and
`RiscvInit` list the calls in the program's order, with capability numbers, share
slots and the expected answers; `Userland` executes them. An instruction is the
action of `Kernel` it calls, if the kernel grants the call, and nothing
otherwise, and then the check (`Accuse` is a line printed without one). The processes a script spawns find out from their
first answers what they are for, as in `child`. A page fault on an access the
program meant to survive ends the process and is recorded in `killed`.

A call and its check are one step: they concern only the caller, and the timer
may hit between any two steps (`Preempt`). Loops that wait for another process
are a test and a `YIELD` with a budget of rounds. The machine is one without an
IOMMU, where the DMA calls answer `NO_MEM`.

### `Mm`

Byte addresses, pages of `PAGE_SIZE` bytes, bitmap words of `WordBits` bits.
`Tracked` and `FreeAtBoot` are the constructor over a boot map (inward rounding
of usable regions, outward rounding of the others). Searches are stated as "the
lowest frame such that"; `FirstFreeScan` and `RunScan` are the code's
word-at-a-time and striding searches as recursive functions, compared with the
former in `ScansExact`. `held` and `lent` are history variables: frames handed
out of each pool.

### `VSpace`, `Regions`, `AddressSpaces`, `AddressMap`

`machine` is the build and the image it boots: number of levels, fanout, whether
the kernel's share of a root is a link (x86) or a leaf (riscv), whether pages can
be uncached, where the windows are. Entries are links or leaves with their
permissions; a leaf above the last level is a huge page. A frame is read as a
table (`pt`) or as bytes (`bytes`), and zeroing clears both. An operation takes
a memory and returns one, with `ok` false from the first failure on, so that
`map`'s half-made paths, the loader's half-mapped images and the rollbacks are
what the code leaves behind. The allocator hands out the lowest free frame,
which is what `Mm` does when no runs are taken.

One action per operation: `Boot`, `Start`, `Spawn`, `Resume`, `MapDevice`,
`UnmapDevice`, `MakeRegion`, `MapRegion`, `UnmapRegion`, `FreeRegion`, `Exit`.
The last two compute a plan with the operators of `Regions`, which `RunUnmap`,
`RunForgetCaps` and `RunRelease` execute a step at a time, with the properties
checked between the steps; nothing else runs meanwhile, as in the kernel.
`Reap` frees the frames of the dead. `active` is the root the CPU walks; only
`Resume` changes it (activations in the code reload the same root), so after
`Reap` it is a tree of free frames, until somebody is resumed.

Who may call what is left to `Kernel`; here any process may map any live
region. Programs write to memory between calls; since what they wrote matters
only when frames are used again, `Exit` and `FreeRegion` find every writable
page overwritten (`Scribbled`).

`AddressMap` says what `load_elf` has to produce address by address
(`Covers`, `ByteAt`), not page by page as the code does. It is the abstract map
that the comments marked `PROOF(later)` in both `vspace` crates and both loaders
ask for.

## 3. Runs

With two workers a run takes from a second to about two minutes.

| Run | Question | Bounds and why they suffice |
|---|---|---|
| `run_queue` | array and cursor well formed; removal keeps the order of the others | 4 threads, capacity 4: every position of the cursor relative to the removed slot, full and empty queue |
| `ipc` | rings implement two FIFO lines of which one is always empty; a parked sender is served | rings of 3, 4 threads: full queue, wrapped head, refused sender; messages shorter and longer than the register count |
| `ledger_table` | loops compute closure and splice exactly and no derivation is lost or invented | table of 3, 4 process slots, two root capabilities, 4 process ids: an edge lying before the one that reaches its parent, a chain with its middle dead, a recycled slot, a full table |
| `kernel_ipc` | queue holds exactly the Ready processes; no wait or interrupt credit without authority; nobody abandoned by a last peer; every Ready process runs; a timer wait ends; park only for an event that can come; true verdict | 3 processes of which one is spawned and recycled, timer and console line, ledger of 2 |
| `kernel_boot` | the shipped grant tables: no authority beyond boot grants; roles never inherited by a recycled slot; device windows never outlive their capability | the three boot roles and a fourth slot, one spawn into whichever slot is free, two apertures |
| `kernel_regions` | mappings, regions, ledger and frames agree | 3 processes, 2 regions, quota 1, 3 DMA frames, 2 share slots, region ids to 3: each limit is met alone and with others |
| `iommu_boot` | no domain is published before every function on every bus is bounded; each verdict of the proof notices the fault it is about and none comes out badly on a sound machine; the proof leaves nothing standing; afterwards containment, no ambiguity, no address changes meaning | 46 machines: every number of frames from 0 to 16, eight faults of the unit, each register refusing, topologies with bridges, loops, too many buses or functions, no edu, nothing; good and bad tables under both ways of booting. One stuck transfer, one unanswered flush, one lost store each: two of a kind would only repeat what one shows, since a probe has one outcome. Domain capacities 3, which the proof fills; the calls after it use two frames and two addresses, and what happens at a full table is the theorems' part, which hold for every capacity |
| `userland` | every check of both programs holds under every schedule, apart from the lines and deaths that are a fact about the schedule; every boot ends with BOOT OK | both builds with the real grant tables, 6 process slots; two preemptions anywhere. Loop counts are scaled (`Budget` 1 for 400 rounds and more, `HelperWaits`, `TickGoal` and `WaitBound` 2, `Quota` 4), which makes each wait as short as a slow machine would; 10 regions against a quota of 4 keep the slack of 6 that 12 against 6 have. A third preemption (about 970 000 states, not kept) only adds "could not test delegation" to what is printed, a line of `Races` |
| `address_spaces` | tables implement the abstract maps; frames charged once and none lost; no page dangles at any step of a plan; the kernel is always mapped; new memory is new | pages of 2 bytes; four levels with fanout 2 and three with fanout 3; 2 process slots and 3 processes, so that a slot and its frames are used again; regions of 2 pages that cross a table; frames for two processes, or for one and a bit, and a process limit that the second page of a region meets; an image with unaligned data and .bss, one with more file than memory, and four that are refused at different points |
| `dma` | no reclaimed frame is reached without a counted timeout; page table, model, grants and attribution agree between calls, refused ones included | 2 processes, 2 domains, 2 frames, 4 addresses, model capacity 3 so that a second mapping of a mapped region is refused at its second page, ring of 9 commands (three invalidations), one late answer |
| `mm` | conservation, partition, only usable memory, scans exact | pages of 2 bytes so that regions end inside pages; two words of 3 bits so that runs cross words; overlapping boot maps |
| `dma_rollback` | violated: section 6 | |

Every counter that the code lets grow (process ids, region ids, credits,
timeouts) is capped by a named constant: `MaxId`, `RegionIdMax`, `MaxRegionId`,
`CreditMax`, `MaxTimeouts`, `MaxStuck`, `MaxLost`, `MaxPreempts`. `RegionIdMax` and `CreditMax` also exist in the code
(saturation and refusal); the others are bounds of the model. `AddressSpaces`
has `MaxId` and `MaxRegionId` as well.

`LedgerTable`, `Dma`, `AddressSpaces` and `IommuBoot` are run without the
deadlock check: all may stop at a bound, a boot that stops is over, `Dma` models the kernel's panic as a stop, and a machine
whose boot image is refused halts. The kernel and userland runs keep it: a
halted machine stutters explicitly, so a stuck state would be an error of the
model or the code.

## 4. Fairness

* `Kernel`: weak fairness of the timer interrupt only (`TimerIrq`, running or
  parked): the kernel arms a periodic timer before the first process runs, and a
  process cannot mask it. No fairness for system calls: a process may loop for ever. No
  fairness for the console.
* `Ipc`: weak fairness of receives while senders wait. It is an assumption on
  the clients: the crate promises service only to those who are asked for.
* `Userland`: while a process runs the CPU executes its instructions (weak
  fairness of `Exec`, which is enabled whenever a process runs, with that
  condition written out), the timer ticks while the CPU is parked, and the
  harness sends its console byte once it is asked to. Preemptions are not fair,
  and need not be: no program loops for ever.
* `LedgerTable`, `Dma`, `AddressSpaces` and the rest are checked for safety only.

## 5. Proofs

Each theorem holds for every value of the constants that its assumption admits;
the runs of section 3 check the same definitions on small instances.

| Theorem | States | Rests on |
|---|---|---|
| `RunQueueProofs!QueueTypeOK` | for any threads and capacity the array holds distinct threads and the cursor is live | `Capacity \in Nat` |
| `RunQueueProofs!TurnsKept` | removing the running thread leaves the others' turns in order (`RemovalKeepsOrder`) | |
| `IpcProofs!EndpointImplemented` | the rings implement `Endpoint` | `IpcAssumption`: `N` and `MaxWords` natural numbers, zero included |
| `IpcProofs!RingsAlwaysOK` | the rings stay well formed | |
| `IommuProofs!Containment` | a device never reaches beyond a live grant | `G, M \in Nat` |
| `IommuProofs!NoAmbiguity` | one grant per frame, one translation per address, tables never overflow | |
| `IommuProofs!AddressesKeepMeaning` | a translation keeps frame and rights until it is removed | |
| `IommuProofs!PublishedAlwaysBounded` | `PublishedBounded`: translation is on with every reachable function bounded or denied | `BootAssumption` |
| `IommuProofs!BootContainment`, `BootNoAmbiguity`, `BootKeepsMeaning` | the three above from the boot on, over the scripted proof | |
| `MmProofs!FramesConserved` | no frame handed out twice, none lost, over single frames, runs and returns | `MmAssumption`, `BootMapAssumption` (natural numbers, positive page and word size) |
| `MmProofs!PoolsNeverMix` | arena and general frames stay apart | |
| `MmProofs!FreeCountExact` | the count is the number of clear bits | |
| `MmProofs!OnlyUsableEver` | what is handed out is usable memory of the boot map and nothing else (`OnlyUsableMemory`) | |
| `MmProofs!ScansAlwaysExact` | both scans find the lowest answer (`ScansExact`) | |
| `MmProofs!HintHidesNothing` | without runs, `alloc_frame` fails only when no general frame is free | |
| `KernelProofs!KernelSafe` | the types of the kernel's state, with the agreement of queue and process table | `KernelAssumption` |
| `KernelProofs!QueueAlwaysInSync` | `QueueInSync` | |
| `KernelProofs!LedgerAlwaysBacked` | `LedgerBacked` | |
| `KernelProofs!WaitsAlwaysAuthorized`, `ParkAlwaysHopeful` | `WaitAuthorized`, `ParkIsHopeful` | |
| `KernelProofs!NobodyLeftWaiting` | `NeverStranded`, an action property | |
| `KernelProofs!AuthorityAlwaysFromBoot` | `AuthorityFromBoot` | |
| `KernelProofs!WindowAlwaysAuthorized` | `WindowAuthorized` | |
| `KernelProofs!MappingsAlwaysAuthorized` | `MappingAuthorized` | |
| `KernelProofs!FramesAlwaysConserved` | `FramesConserved` | |
| `KernelProofs!VerdictAlwaysHonest` | `VerdictHonest` | |
| `KernelProofs!RolesAlwaysApart` | `RolesApart`, for every boot table | |
| `LedgerProofs!LedgerSafe` | the inductive invariant of the array and its loops | `TableAssumption` |
| `LedgerProofs!RevokeAlwaysExact` | `RevokeExact`: the rounds of `revoke_from` compute the closure | |
| `LedgerProofs!SpliceAlwaysExact` | `SpliceExact`: one pass computes the splice, an action property | |
| `LedgerProofs!LedgerAlwaysComplete` | `LedgerComplete`: the array reaches what was really derived | |
| `SpacesProofs!KernelAlwaysMapped` | `KernelMapped` | `SpacesAssumption`, `VSpaceAssumption` |
| `SpacesProofs!NothingDangles` | `NoDanglingPage`, plans fit and are ordered | |
| `SpacesProofs!FramesAlwaysCharged` | `FramesCharged` | |
| `SpacesProofs!SpacesImplementMap` | `ImplementsAddressMap`: the page tables implement `AddressMap` | |
| `SpacesProofs!MemoryFresh` | `FreshMemory`, an action property | |
| `DmaProofs!DmaSafe` | the inductive invariant of `Dma` | `DmaAssumption` |
| `DmaProofs!HardwareAlwaysAgrees` | `HardwareAgrees` | |
| `DmaProofs!ReachAlwaysAttributed` | `ReachAttributed` | |
| `DmaProofs!ReclaimedNeverReached` | `ReclaimedUnreached` | |

The assumptions: `KernelAssumption` says that the sizes are natural numbers, that
the boot grants fit a capability space and that the boot images fit memory, which
the boot asserts before the first process runs. `DmaAssumption` numbers frames
and domains from one, as indices into the code's arrays, and lets a request ask
for at least one page. `TableAssumption` says that the sizes of the ledger array
are natural numbers. `BootAssumption` says of every machine the boot may meet what `enumerate`
takes for granted about configuration space (`TopologyOk`): functions have
different BDFs, and a device has further functions only if its function 0
announces them. `SpacesAssumption` says of every build (`MachineOk`) that the indices
of the levels tell its user pages apart, that no user page is under a root entry
shared with the kernel, and that image, stack and device window do not overlap each
other or the share windows as far as `run` does not check it itself; the comment
there (`kernel`, line 3878) says why the image is not checked: it is linked low.
A segment that is loaded has natural numbers for its addresses and sizes, as the
fields of a program header are unsigned.
`VSpaceAssumption` says that a page has bytes and that a process may be charged a
frame. TLC evaluates each in every run of these modules.

*Run queue.* `WellFormedQueue` is inductive. The work is in `remove`: the shift
keeps the entries distinct (`CompactDistinct`) and the repaired cursor is below
the new length in all four cases (`CursorInRange`).

*Endpoint.* The mapping reads each line off its ring from `head`. It is a
refinement only while the ring is well formed (`RingsOK`: `head` is a cell, the
cells in use hold items), since otherwise the push into the cell after the last
one would overwrite the line. With it, push appends, pop takes the head, and each
action of `Ipc` is the action of `Endpoint` of the same name.

*Ledger array.* The edges form a forest over the living and the dead
(`World`, `Forest`): authority goes to processes younger than the giver, and no
capability has two sources. Hence what an edge set reaches is what has the root
among its ancestors (`ForestReach`, by the youngest counterexample). In the
middle of `revoke_from` (`Revoking`) what was reported is reached, what was
removed was reported, and a round that has found nothing so far has met no edge
it should follow; when such a round ends the reported set is closed, and being
inside the least closed set it is that set (`RevokeDone`). In the middle of
`splice_out` (`Splicing`) either the edge into the dead process is still to come
and nothing was changed, or it was met and all that hung below hangs above now;
the loop needs no order of the array because there is only one such edge.

*IOMMU domain.* Containment alone is not inductive: `granted` answers with the rights
of *some* grant of a frame, so a narrowing re-grant that drops uncovered
translations is sound only if the frame has a single grant. `Sound` is the
conjunction of types, finiteness and capacity, uniqueness, and containment, and
each of the four operations preserves it (`GrantSound`, `RevokeSound`,
`MapSound`, `UnmapSound`).

*IOMMU boot.* `PublishedBounded` compares what the code enumerated with what is
reachable through bridges, so it needs the bus walk to be complete. The walk
is two nested loops over a worklist that grows meanwhile. Its invariants say that a walk only grows (`Grown`), that a function that was
asked is listed and its bus queued unless `truncated` says otherwise (`Done`),
and that everything on a bus taken from the list is done; a reachable bus that is
not in the list would have a first bridge on its way that was not done
(`WalkComplete`). The loops are recursive functions, whose equation is shown to have
a solution (`PrimRec`), and what is proved along them by a least counterexample
over a set of indices (`Induct`). `BootInv` then goes through the phases: a
staged slot holds a function of the root bus, no two the same (`Placed`); after
the sweep each entry is the one wanted, in spite of stores that did not take,
since a function whose entry reads back wrong ends the boot there; slots are published
only after the enable (`Published`). The scripted proof swaps the entry of the
device it drives, so `Control` ties the program counter to the script and shows
that device to be the one of domain 1 (`CandidatesAre`: edu first). `BootContainment`
and its two companions need that every instruction of the script which edits a
domain is an operation of `Iommu` on sound arguments (`ScriptFine`), for both
domains at once (`BothSound`).

*Allocator.* `Sound` conjoins the type of the state, conservation, partition
and exact count. They need each other: that a
returned frame goes back to its own pool uses the partition, the count after a
return uses conservation. The lowest free frame exists by well-foundedness of `<`
(`LowestExists`), and the run search stays clear of the arena because it starts
at the general floor (`FloorClearsArena`). The scans are recursive functions; no
induction theorem can be instantiated here, so the proof exhibits a solution of
the recursive equation (the lowest answer as a function of the start) and shows
that two solutions agree, by a least counterexample counted from the far end
(`AgreeFromTheEnd`). The hint needs one more invariant, `CursorSound`, which
only the operations on single frames preserve (section 6); the theorem is about
`SpecFrames`, the allocator without runs.

*Kernel.* Everything rests on `SafeState`: the types (`SchedTypeOK`,
`DataTypeOK`) and `QueueInSync`. These are proved first, one lemma per trap, from
lemmas on what parking, waking, handing over and reaping do to the queue. On top
of it stand the others, each inductive given those before it:

* `LedgerInv` for the ledger: process identities are below `NEXT_ID`
  (`IdsFresh`), a delegation goes to a younger process into its first slot, which
  otherwise holds only regions (`LedgerShape`), and both ends of an edge exist
  (`LedgerBacked`). The shape is what makes splicing sound: edges lead from older
  to younger, so the closure a `REVOKE` follows cannot return to the revoker, and
  a slot recycled under the same index has another identity.
* `WaitInv` for waiting: nobody is stranded, credits belong to lines held, and a
  parked CPU has somebody it can be woken for. `WaitAuthorized` and
  `ParkIsHopeful` are read off it. `NeverStranded` follows step by step from
  `SafeState` and `LedgerInv`: a revocation leaves the revoker, whose rights
  include what it took back, and a death wakes those it orphans.
* `AllGranted`, about dead slots too, for `AuthorityFromBoot`.
* `RoleInv` for `RolesApart`: a boot process that may not spawn never comes to
  hold the mint right. With it every step leaves a live process either as it was,
  regions apart (`Older`), or new with part of what a process that may spawn holds
  (`Younger`); a right nobody who may spawn was given is then passed on by nobody.
* `WindowInv` for windows. The kernel drops a window when `holds_mmio` says no
  window is held at all, which would be too little for a process with two; it is
  enough because a process that can lose one by revocation holds, by
  `LedgerShape`, only the one it was handed.
* `RegionInv` for mappings: identities not reused, each name live and held at
  most once per process (so that losing it loses all rights), each region owned
  by somebody alive, each mapping recorded and covered. `FrameInv` for frames:
  free plus charged is the total of each pool, and each charge is what the
  process uses; sums over processes and regions are handled through an additive
  measure that exists and is unique (`MeasureExists`).
* `StoppedWith` for the verdict: the machine stopped with what `Verdict` says of
  its state. With `RegionsOwned` an empty process table has no regions, with
  `LedgerBacked` no edges, and with `FrameInv` no frames, so the leak check of
  the code cannot fire.

*Address spaces.* The CPU walks a tree of tables that are ordinary frames of the
pool, so that the kernel stays mapped is a statement about all the memory there
is. `SpacesInv` says that each frame of the pool is free or charged to one
process, once (`FramesOk`), and that the root of each live process is the root of
a tree (`Trees`, `SpaceOk`): every table is reached by one path, in the frames the
process is charged, with the kernel's entries shared into the root; the leaves are
the pages of the image and the stack, each on a charged frame of its own, and
apart from them there are only windows onto memory outside the pool. A path to a
user page never enters the kernel's part of the root, so whatever `map` and
`unmap` write goes to the process's own tables (`WalkTree`, `AddTable`, `PutLeaf`,
`UnmapTree`). From the entry the proof goes up through the loops, each a recursive
function whose equation is solved as above: the descent, the pages of a window
and its rollback, a segment, the image, the stack, the whole build (`BuildIs`).
`KernelMapped` then follows because only an allocation scrubs a frame, and nobody
allocates between a death and the next resume: a call needs a live process
(`CpuOk`), which walks its own tree, and `Reap` writes to no table. `PlanOk` and
the lemmas on `Destroy` and `TeardownPlan` (`PlanShape`) say what a plan consists
of: only slots of live processes, each at most once, within `PLAN_STEPS`.

`FramesCharged` is read off `SpacesInv`: the tables are what the walks of a tree
meet (`TablesMet`), the pages are the leaves outside the windows, one frame each
(`OneEach`), and the list a process is charged is both together, without repetition,
so its length is the sum.

`NoDanglingPage` needs `DangleInv`. Each page of a share window leads nowhere or to
the frame at its place in a live region with the identity recorded in that slot
(`Backed`); and a plan that is being run still has, before it releases a region, the
unmapping of every slot that records the region (`Orderly`), which is what the
planner promises (`OrderlyMade`) and each executed step leaves of it. A refused
`MAP_REGION` leaves the window blank (`RemapShows`), a load brings in empty windows,
and identities of regions are not reused.

The refinement of `AddressMap` says what the operations mean: each step gives one
process another map, or stutters. `load_process` brings in a space with exactly the
pages of the image and the stack, with the right permissions, on frames that no
other map shows (`LoadShows`, `CreateFrom`; the pages of the image are found by
division with the page size, `PagesCover`, `WantedIs`); a mapping or unmapping
changes one window of one process, whole or not at all (`RemapShows`, `UnmapShows`,
`ChangeFrom`); a death takes the map away (`ReapShows`); and because the trees of
two processes share no table, no step shows in another's map.

For `FreshMemory`: every operation is `Tame`, it writes to frames that were free
when it began and to no others, so what a page was filled with stays. A page that is
new starts as zeros, and `LoadPageWrites` compares the bytes copied with what the
image supplies at each address of the page. A second segment that meets the first in
a page is refused, since `map` finds the page mapped, so each page has one segment;
`WrittenUpTo` says that the pages of the segments loaded so far show what their
segment fills in (`Filled`), and `WantedFilled` that this is `PageAt` of
`AddressMap`, byte by byte.

*DMA.* `HardwareAgrees` and `ReachAttributed` speak of the state between calls,
so the induction needs what holds in the middle of one. `DmaInv` conjoins
`TablesInv` (types, regions and pool disjoint, page tables and domain model
equal, neither naming a frame of no region), `ReachInv` (a grant has a mapping, a
region is reached exactly through the domains its owner has records of, relative
to what a pending rollback is about to take back), `WorkOK` (the order of the
handler's remaining steps and what each relies on: a region about to be freed is
unreached, a slot about to be reaped has no records) and `UnitInv` (with every
invalidation answered the command ring is empty unless the handler waits, and a
cached translation is in the table, or was taken back by a refused call, or is
about to be flushed). The page loop of `MAP_DMA` is solved as the scans are
(`LoopSolved`, `PagesMappedIs`). `ReclaimedUnreached` is as strong as the code
allows: its exception is the finding of section 6.

Only model-checked:

* every liveness property (`ReadyRuns`, `TimerWaitEnds`, `ParkedSenderServed` and
  the user programs' end): fairness and `ENABLED` are beyond the prover;
* `ProbesDiscriminate` and `NothingStands` of `IommuBoot`: what the instructions of the
  script leave in memory and in the caches, one after another. There is no
  invariant shorter than the script itself, and TLC runs the script against
  each fault;
* `OnlyRacesAccuse` of `Userland`, for the same reason: it is about two fixed
  programs.

## 6. Where code and comments disagree

* **Rollback without invalidation** (`dma_rollback`). A `MAP_DMA` refused at a
  later page clears the leaves it wrote, but a device may have used one
  meanwhile; no invalidation follows, and with no leaf left a later
  `FREE_REGION` sees nothing to invalidate. The comment calls the operation all
  or nothing.

Five more are part of the model without a violated run of their own.

* *Hint beyond free frames.* `alloc_contiguous` moves the search hint to the end
  of its run although free frames may precede the run; `alloc_frame` then answers
  `None` with memory free. `HintHidesNothing` is therefore proved for the
  allocator without runs.
* *Lines that accuse the kernel.* `docs/verification.md` (line 225) says of the
  programs that every bounded wait "was enumerated and inspected", so that a wait
  that runs out is called inconclusive and not "(bug)". `Races` in `Userland` is
  what `userland` finds left: the worker spins and then reads the mailbox, and "the
  borrower never reported back (bug)" (`init/src/main.rs` line 968) is printed
  when the borrower has not run yet, likewise the refused late spawn "(bug)" when
  no slot is free yet, and on x86 "could not test revocation -- out of regions
  (bug)" (line 1987), which the riscv program calls inconclusive. On x86 that boot
  goes on to print "delegated cap still usable after revoke (bug)" (line 2000),
  although its loop ended before it could see a revocation: the last branch takes
  whatever is neither revoked nor out of budget. `docs/verification.md` (line 248)
  names this line among three that accused the kernel of what "had not happened"
  and calls them fixed, and the riscv program suppresses it in this case as "a
  fabrication" (`riscv-init/src/main.rs` line 1483); the x86 one keeps it. So the
  passing `userland` run does not say that these lines are right: it says that no
  others are printed, per build, and that the last one never appears without the
  out-of-regions line that shows it to be untested.
  The runner fails a boot that prints "(bug)". A borrower or
  driver can also be overtaken by the worker's `REVOKE` and die of its next
  access; a reader overtaken before it counts its pages goes on as the writer.
* *Verdicts without their transfers.* `CONTAINED` says that "the transfer
  completed at the device" and `REVOKED` that the device "can no longer reach" the
  frame; both are printed from the frame alone, and a transfer that never
  finished leaves it as untouched as a refused one. `ProbesDiscriminate` claims
  these two, and `PER-DEVICE`, only for boots in which every transfer finished. In
  the deny probe the buffer still holds the sentinel if the read before it never
  ran, and then the line `DENY WORKS` (`DENY_WORKS` in the model) shows nothing; the read probe's own line is what
  reports such a boot.
* *One store for all waits.* Completion waits all store the same constant in the
  same word, so after a timeout the store of the old wait ends the next one
  (`Acknowledged` asks only for the store); `ReclaimedUnreached` shows that the
  effect stays within boots that report the timeout.
* *A ring that is used up.* Each `UNMAP_DMA` appends three commands to a ring
  whose tail is never reset: after 85 calls the assert that it never wraps stops
  the kernel (`panicked`), and the model explores nothing beyond.

`dma` meets the same rollback: `ReclaimedUnreached` exempts the translations of
leaves that a refused `MAP_DMA` took back (`undone`), and nothing else.

A remark on a comment. `zero_frame` (`kernel`, line 350) says that scrubbing on
release "would work equally well" but for frames never allocated. It would not:
`teardown_process` frees the tables the CPU is walking, and scrubbing them there
takes the kernel's own mapping away. The mutant `ReapScrubs` of `KernelMapped`
is that change.

## 7. Not modelled

Of the boot: console and trap set-up, the built-in self-tests, the boot memory
map of `multiboot.rs` and `pvh.rs` (its result is a constant of `Mm`), and the
load of the first processes, which is the loader of `AddressSpaces`; otherwise
its result is `Init` of `Kernel`. Of the IOMMU bring-up: register bits, the
contents of the event log, and walks that are only printed. Trap entry and
register frames, privileged instructions, the context switch: straight-line code
over registers. Of the user programs: driving edu through the DMA calls, which
needs `Dma` under `Userland`; the checks that look at bytes or registers and not
at the kernel's decisions (zeroed memory, stack, flags). Message contents in `Kernel`,
console output and logging carry no state a property depends on. Of the page
tables and the loader: the bit layout of entries, the fields of the ELF header
(one flag), 64-bit overflow of segment bounds, and images that are linked outside
the user window, which the loader does not refuse and the repository does not
build. Translation caches of the CPU: a change to the active tree is followed
by a reload in the same handler, except in a refused `MAP_BAR`, which had no
window to drop.

## 8. Plan

In order:

1. `Kernel` with the DMA calls composed in, so that the process table and
   `Dma` share one region table; `Kernel`'s frame counts as a projection of
   `AddressSpaces`; then `Userland` on a machine with an IOMMU.
2. Proofs: `ProbesDiscriminate` and `NothingStands`, with the script of the
   probes as a function from its position to the contents of memory and caches,
   of which each instruction is a step.
3. The fields of a program header as 64-bit numbers, with the overflow checks of
   `load_segment`.
