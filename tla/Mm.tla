---------------------------------- MODULE Mm ----------------------------------
(***************************************************************************)
(* crates/mm: `BitmapAllocator`, built over the boot memory map and then   *)
(* driven by the kernel.  Addresses are bytes and a frame has PAGE_SIZE of *)
(* them, so that regions, the reserve and the arena may end inside a page. *)
(* The bitmap is the set of its set bits, in words of WordBits bits.       *)
(*                                                                         *)
(* The two searches are written twice: as the lowest frame that will do,   *)
(* which the actions use, and as the loops of the code (FirstFreeScan,     *)
(* RunScan); an invariant says that they agree in every reachable bitmap.  *)
(***************************************************************************)
EXTENDS Integers, FiniteSets

CONSTANTS PAGE_SIZE,      \* bytes of a frame
          WordBits,       \* bits of a bitmap word
          CapacityWords,  \* words of the bitmap that is handed in
          BootMaps,       \* memory maps: sets of [usable, start, len]
          reserve_below,  \* address below which nothing is handed out
          dma_top,        \* address below which frames are the DMA arena
          RunSizes        \* bound: run lengths asked of alloc_contiguous

ASSUME MmAssumption ==
  /\ PAGE_SIZE \in Nat \ {0} /\ WordBits \in Nat \ {0} /\ CapacityWords \in Nat
  /\ reserve_below \in Nat /\ dma_top \in Nat /\ RunSizes \subseteq Nat
  /\ BootMaps \subseteq SUBSET [usable : BOOLEAN, start : Nat, len : Nat]

VARIABLES map,     \* the boot memory map
          total,   \* frames tracked
          used,    \* bits set in the bitmap
          free,    \* the free count
          cursor,  \* the search hint
          held,    \* frames the general pool has given to callers
          lent     \* frames the arena has given to callers

vars == <<map, total, used, free, cursor, held, lent>>

None == -1
Lowest(S) == IF S = {} THEN None ELSE CHOOSE x \in S : \A y \in S : x <= y

Up(addr) == (addr + PAGE_SIZE - 1) \div PAGE_SIZE
Down(addr) == addr \div PAGE_SIZE
Higher(a, b) == IF a > b THEN a ELSE b

general_floor == Up(dma_top)
Bits == 0..(CapacityWords * WordBits - 1)

-----------------------------------------------------------------------------
(* `new`.  A Usable region frees the frames it contains, rounding inward;  *)
(* every other region takes back the frames it touches, rounding outward;  *)
(* then the frames below the reserve are taken back.                       *)
End(r) == r.start + r.len
Contained(r) == IF End(r) < PAGE_SIZE THEN {} ELSE Up(r.start)..(Down(End(r)) - 1)

(* Faulty variant of Touched: rounds inward like the Usable pass. *)
TouchedInward(r) == IF r.len = 0 THEN {} ELSE Up(r.start)..(Down(End(r)) - 1)

Touched(r) == IF r.len = 0 THEN {}
              ELSE Down(r.start)..(Higher(Up(End(r)), 1) - 1)

Usable(m) == {r \in m : r.usable}
HighestUsable(m) == LET all == UNION {Contained(r) : r \in Usable(m)}
                    IN  CHOOSE f \in all : \A g \in all : g <= f

(* A boot map is a finite list, so that its highest frame exists. *)
ASSUME BootMapAssumption ==
  \A m \in BootMaps :
    (\E r \in Usable(m) : Contained(r) # {}) => HighestUsable(m) \in Nat

(* `total`: one more than the highest usable frame, as far as bits go.     *)
Tracked(m) ==
  LET wanted == IF \A r \in Usable(m) : Contained(r) = {} THEN 0
                ELSE HighestUsable(m) + 1
  IN  IF wanted < CapacityWords * WordBits THEN wanted
      ELSE CapacityWords * WordBits

Reserved == {f \in Bits : f * PAGE_SIZE < reserve_below}
FreeAtBoot(m) ==
  LET freed == UNION {Contained(r) : r \in Usable(m)}
      taken == UNION {Touched(r) : r \in m \ Usable(m)}
  IN  (freed \cap 0..(Tracked(m) - 1)) \ (taken \cup Reserved)

Init ==
  /\ map \in BootMaps
  /\ total = Tracked(map)
  /\ used = Bits \ FreeAtBoot(map)
  /\ free = Cardinality(FreeAtBoot(map))
  /\ cursor = 0
  /\ held = {} /\ lent = {}

-----------------------------------------------------------------------------
Frames == 0..(total - 1)
FreeFrom(from) == {f \in Frames : f >= from /\ f \notin used}

(* `first_free`, by what it finds... *)
FirstFree(from) == Lowest(FreeFrom(from))

(* ...and as it goes, a word at a time. *)
FirstFreeScan(from) ==
  LET word(w) == {f \in Bits : f \div WordBits = w}
      scan[w \in 0..CapacityWords] ==
        IF w * WordBits >= total THEN None
        ELSE LET clear == {f \in word(w) : f >= from /\ f \notin used}
             IN  IF clear = {} THEN scan[w + 1]
                 ELSE IF Lowest(clear) < total THEN Lowest(clear) ELSE None
  IN  IF from >= total THEN None ELSE scan[from \div WordBits]

(* Faulty variants of alloc_frame: the bit is not set; and the floor of    *)
(* the general pool is forgotten.                                          *)
AllocUnmarked ==
  LET f == FirstFree(Higher(cursor, general_floor))
  IN  /\ f # None
      /\ free' = free - 1
      /\ cursor' = f + 1
      /\ held' = held \cup {f}
      /\ UNCHANGED <<map, total, used, lent>>

AllocFromCursor ==
  LET f == FirstFree(cursor)
  IN  /\ f # None
      /\ used' = used \cup {f}
      /\ free' = free - 1
      /\ cursor' = f + 1
      /\ held' = held \cup {f}
      /\ UNCHANGED <<map, total, lent>>

(* `alloc_frame`: from the hint, or from the floor of the general pool if  *)
(* an arena free has pulled the hint below it.                             *)
alloc_frame ==
  LET f == FirstFree(Higher(cursor, general_floor))
  IN  /\ f # None
      /\ used' = used \cup {f}
      /\ free' = free - 1
      /\ cursor' = f + 1
      /\ held' = held \cup {f}
      /\ UNCHANGED <<map, total, lent>>

(* `alloc_dma_frame`: the lowest free frame of the arena. *)
ArenaFree == {f \in FreeFrom(Down(reserve_below)) : f * PAGE_SIZE < dma_top}
alloc_dma_frame ==
  /\ ArenaFree # {}
  /\ used' = used \cup {Lowest(ArenaFree)}
  /\ free' = free - 1
  /\ lent' = lent \cup {Lowest(ArenaFree)}
  /\ UNCHANGED <<map, total, cursor, held>>

(* `alloc_contiguous`: the lowest run of n free frames of the general      *)
(* pool...                                                                 *)
RunFloor == Higher(general_floor, Down(reserve_below))
RunStarts(n) == {s \in Frames : /\ s >= RunFloor /\ s + n <= total
                                /\ (s..(s + n - 1)) \cap used = {}}

(* Faulty variant of RunScan: restarts a whole window further on. *)
RunScanStrides(n) ==
  LET scan[s \in 0..(RunFloor + 2 * total)] ==
        IF s + n > total THEN None
        ELSE IF (s..(s + n - 1)) \cap used = {} THEN s ELSE scan[s + n]
  IN  IF n = 0 \/ n > total THEN None ELSE scan[RunFloor]

(* ...and the scan for it, which restarts past the first used frame.       *)
RunScan(n) ==
  LET scan[s \in 0..(RunFloor + total)] ==
        IF s + n > total THEN None
        ELSE LET bad == (s..(s + n - 1)) \cap used
             IN  IF bad = {} THEN s ELSE scan[Lowest(bad) + 1]
  IN  IF n = 0 \/ n > total THEN None ELSE scan[RunFloor]

alloc_contiguous(n) ==
  LET s == Lowest(RunStarts(n))
  IN  /\ n # 0
      /\ RunStarts(n) # {}
      /\ used' = used \cup s..(s + n - 1)
      /\ free' = free - n
      /\ cursor' = Higher(cursor, s + n)
      /\ held' = held \cup s..(s + n - 1)
      /\ UNCHANGED <<map, total, lent>>

(* `free_frame` of what a caller holds, or has already returned: a frame   *)
(* below the reserve, out of range or free already is ignored.             *)
free_frame(f) ==
  /\ f \in held \cup lent \/ f \notin used
  /\ IF f * PAGE_SIZE < reserve_below \/ f >= total \/ f \notin used
     THEN UNCHANGED vars
     ELSE /\ used' = used \ {f}
          /\ free' = free + 1
          /\ cursor' = IF f < cursor THEN f ELSE cursor
          /\ held' = held \ {f}
          /\ lent' = lent \ {f}
          /\ UNCHANGED <<map, total>>

-----------------------------------------------------------------------------
(* The calls of the frame-allocator contract, and with the contiguous runs *)
(* the x86 boot adds.                                                      *)
NextFrames == \/ alloc_frame
              \/ alloc_dma_frame
              \/ \E f \in Bits : free_frame(f)
Next == NextFrames \/ \E n \in RunSizes : alloc_contiguous(n)

SpecFrames == Init /\ [][NextFrames]_vars
Spec == Init /\ [][Next]_vars

-----------------------------------------------------------------------------
(* Nothing is handed out twice and nothing is lost: over allocations,      *)
(* runs, returns and repeated returns the set bits are exactly the frames  *)
(* that were never allocatable and the ones a caller holds, each held by   *)
(* one of the two pools.                                                   *)
Conserved ==
  /\ held \cap lent = {}
  /\ held \cup lent \subseteq FreeAtBoot(map)
  /\ used = (Bits \ FreeAtBoot(map)) \cup held \cup lent

(* The free count is the number of clear bits. *)
CountExact == free = Cardinality(Frames \ used)

(* The arena and the general pool are a partition: a frame a device may    *)
(* reach never becomes a page table or a stack, however the hint moves.    *)
Partitioned ==
  /\ \A f \in held : f * PAGE_SIZE >= dma_top
  /\ \A f \in lent : f * PAGE_SIZE < dma_top

(* Bytes that some frame handed out contains are all Usable memory of one  *)
(* region and none is claimed by another kind of region or by the kernel   *)
(* image, whatever the overlaps and alignments of the boot map.            *)
OnlyUsableMemory ==
  \A f \in held \cup lent :
    LET bytes == (f * PAGE_SIZE)..((f + 1) * PAGE_SIZE - 1)
        extent(r) == r.start..(End(r) - 1)
    IN  /\ \E r \in map : r.usable /\ bytes \subseteq extent(r)
        /\ \A r \in map : ~r.usable => bytes \cap extent(r) = {}
        /\ bytes \cap 0..(reserve_below - 1) = {}

(* The word scan of `first_free` and the jumping scan of                   *)
(* `alloc_contiguous` find the lowest answer whenever there is one.        *)
ScansExact ==
  /\ \A from \in 0..total : FirstFreeScan(from) = FirstFree(from)
  /\ \A n \in RunSizes :
       RunScan(n) = IF n = 0 THEN None ELSE Lowest(RunStarts(n))

(* "no free frame is known to exist below this frame index": the hint of   *)
(* the search never passes a free frame of the general pool.               *)
CursorSound == \A f \in Frames : f >= general_floor /\ f < cursor => f \in used

(* "Allocate one physical 4 KiB frame, or `None` if out of memory".        *)
NoneOnlyWhenEmpty ==
  FreeFrom(general_floor) # {}
    => FirstFree(Higher(cursor, general_floor)) # None
=============================================================================
