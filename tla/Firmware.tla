------------------------------- MODULE Firmware -------------------------------
(***************************************************************************)
(* What the x86 nucleus reads about its machine before it trusts any of    *)
(* it: the ACPI tables that name the IOMMU's registers (kernel/src/acpi.rs *)
(* and report_ivrs) and the PCI functions that could master the bus        *)
(* (kernel/src/pci.rs).                                                    *)
(*                                                                         *)
(* A table is a record of what its checks look at: signature, declared     *)
(* length, whether the bytes sum to zero, and its payload.  A function is  *)
(* a record of what config space answers for it.                           *)
(***************************************************************************)
EXTENDS Integers, FiniteSets, Sequences, SequencesExt

CONSTANTS IDENTITY_LIMIT,   \* pvh::IDENTITY_LIMIT, the mapped low memory
          MaxBuses,         \* length of the worklist of `enumerate`
          MaxFunctions      \* length of the array it fills

HEADER == 36        \* bytes of an ACPI table header, and of a whole RSDP
IVRS_BLOCKS == 48   \* where the blocks of an IVRS start
IVHD_MIN == 24      \* the shortest block it accepts

-----------------------------------------------------------------------------
(* `parse_rsdp`, given all 36 bytes. *)
RsdpOk(r) == /\ r.signature
             /\ r.sum
             /\ r.revision >= 2 => r.extendedSum

(* `scan_for_rsdp`: under firmware, the first candidate that checks out... *)
ScannedRsdp(window) ==
  LET good == {i \in DOMAIN window : RsdpOk(window[i])}
  IN  IF good = {} THEN << >> ELSE <<window[Min(good)]>>

(* ...and `pvh::rsdp`: without it, the pointer the loader passed. *)
HandedRsdp(info) ==
  IF info.magic /\ info.rsdp # 0 /\ info.rsdp < IDENTITY_LIMIT
  THEN <<info.at>> ELSE << >>

FoundRsdp(acpi) == IF acpi.firmware THEN ScannedRsdp(acpi.window)
                                    ELSE HandedRsdp(acpi.info)

(* `reachable` and `parse_table`: a table is read at its declared length,  *)
(* inside the window, before its checksum is believed.                     *)
InWindow(at, len) == at # 0 /\ len >= HEADER /\ at + len < IDENTITY_LIMIT
TableOk(at, t) == InWindow(at, t.len) /\ t.sum

(* `ivrs_first_base`: the first block, if it lies inside the table. *)
IvrsBase(t) ==
  IF /\ IVRS_BLOCKS + IVHD_MIN <= t.len
     /\ t.block.len \in IVHD_MIN..(t.len - IVRS_BLOCKS)
  THEN t.block.base ELSE 0

(* `report_ivrs`: the first reachable entry that calls itself IVRS decides, *)
(* whether or not it checks out.                                           *)
ReportIvrs(acpi, rsdt) ==
  LET entries == acpi.tables[rsdt].entries
      named == {i \in DOMAIN entries :
                  /\ InWindow(entries[i], HEADER)
                  /\ acpi.tables[entries[i]].signature = "IVRS"}
      at == entries[Min(named)]
  IN  IF /\ InWindow(rsdt, HEADER)
         /\ TableOk(rsdt, acpi.tables[rsdt])
         /\ named # {}
         /\ TableOk(at, acpi.tables[at])
      THEN IvrsBase(acpi.tables[at]) ELSE 0

(* The boot's AMDVI_BASE, 0 if none is named. *)
AmdViBase(acpi) ==
  LET found == FoundRsdp(acpi)
  IN  IF found # << >> /\ RsdpOk(found[1]) THEN ReportIvrs(acpi, found[1].rsdt)
                                           ELSE 0

-----------------------------------------------------------------------------
(* `Function::bdf`. *)
Bdf(f) == f.bus * 256 + f.dev * 8 + f.func

(* Config space is read in the order of the BDFs. *)
ScanOrder(F) ==
  [k \in 1..Cardinality(F) |->
     CHOOSE f \in F : Cardinality({g \in F : Bdf(g) < Bdf(f)}) = k - 1]
FirstOf(F) == IF F = {} THEN << >> ELSE <<ScanOrder(F)[1]>>

IsEdu(f) == f.kind = "edu"
DmaCapable(f) == f.kind \in {"edu", "ethernet"}

(* `find_class`: on bus 0, past devices that have no function 0. *)
FindClass(fns, kind) ==
  FirstOf({f \in fns : /\ f.bus = 0 /\ f.kind = kind
                       /\ \E z \in fns : z.bus = 0 /\ z.dev = f.dev
                                                   /\ z.func = 0})

(* `find_dma_device`: edu by identity, or else any ethernet function. *)
FindDmaDevice(fns) ==
  LET edu == {f \in fns : f.bus = 0 /\ IsEdu(f)}
  IN  IF edu # {} THEN FirstOf(edu) ELSE FindClass(fns, "ethernet")

(* The functions `enumerate` asks on one bus: a device that says it has    *)
(* one function is not asked for the others.                               *)
Asked(fns, bus) ==
  {f \in fns : /\ f.bus = bus
               /\ f.func = 0 \/ ~ \E z \in fns :
                    z.bus = bus /\ z.dev = f.dev /\ z.func = 0 /\ ~z.multi}

(* Faulty variant of Visit: a bridge is an entry like any other. *)
VisitFlat(walk, f) ==
  [walk EXCEPT !.out = Append(@, f)]

(* One answer: a bridge queues its secondary bus unless that is known, and *)
(* the function is written; what finds no room is what `truncated` says.   *)
Visit(walk, f) ==
  LET new == f.kind = "bridge" /\ f.secondary # 0
                               /\ f.secondary \notin ToSet(walk.buses)
      room == Len(walk.buses) < MaxBuses
      write == Len(walk.out) < MaxFunctions
  IN  [buses     |-> IF new /\ room THEN Append(walk.buses, f.secondary)
                                    ELSE walk.buses,
       out       |-> IF write THEN Append(walk.out, f) ELSE walk.out,
       truncated |-> walk.truncated \/ (new /\ ~room) \/ ~write]

(* The answers of one bus, one after the other. *)
VisitAll(walk, found) ==
  LET after[k \in 0..Len(found)] ==
        IF k = 0 THEN walk ELSE Visit(after[k - 1], found[k])
  IN  after[Len(found)]

(* The k-th bus of the worklist, if it is that long. *)
ScanBus(fns, walk, k) ==
  IF k > Len(walk.buses) THEN walk
  ELSE VisitAll(walk, ScanOrder(Asked(fns, walk.buses[k])))

(* `enumerate`: the worklist, bus after bus. *)
NoWalk == [buses |-> <<0>>, out |-> << >>, truncated |-> FALSE]
Enumerate(fns) ==
  LET after[k \in 0..MaxBuses] ==
        IF k = 0 THEN NoWalk ELSE ScanBus(fns, after[k - 1], k)
  IN  after[MaxBuses]

(* The functions of T in the order they were found. *)
Among(out, T) ==
  LET after[k \in 0..Len(out)] ==
        IF k = 0 THEN << >>
        ELSE IF out[k] \in T THEN Append(after[k - 1], out[k]) ELSE after[k - 1]
  IN  after[Len(out)]

(* The order in which program_dte binds devices: root bus only, edu first. *)
Bindable(out) ==
  LET capable == {f \in ToSet(out) : f.bus = 0 /\ DmaCapable(f)}
      edus == {f \in capable : IsEdu(f)}
  IN  Among(out, edus) \o Among(out, capable \ edus)
=============================================================================
