------------------------------- MODULE MmProofs -------------------------------
(***************************************************************************)
(* The allocator for every boot map, every page and bitmap size and every  *)
(* placement of the reserve and the arena: no frame is handed out twice or *)
(* lost, the two pools never mix, and, as long as no contiguous run is     *)
(* asked for, the search hint never hides a free frame.                    *)
(***************************************************************************)
EXTENDS Mm, WellFoundedInduction, FiniteSetTheorems, TLAPS

(* A non-empty set of naturals has a lowest element, and Lowest is it. *)
LEMMA LowestExists ==
  ASSUME NEW S, S \subseteq Nat, S # {}
  PROVE  /\ Lowest(S) \in S
         /\ \A y \in S : Lowest(S) <= y
         /\ Lowest(S) # None
  <1>1. \E m \in S : \A y \in S : ~(<<y, m>> \in OpToRel(<, Nat))
    BY NatLessThanWellFounded, WFMin
  <1>2. \A y, m \in Nat : y < m => <<y, m>> \in OpToRel(<, Nat)
    BY DEF OpToRel
  <1>4. PICK m \in S : \A y \in S : ~(y < m)
    BY <1>1, <1>2
  <1>5. \A y \in S : m <= y
    BY <1>4
  <1>6. Lowest(S) \in S /\ \A y \in S : Lowest(S) <= y
    BY <1>4, <1>5 DEF Lowest
  <1>7. QED
    BY <1>6 DEF None

(* The number of bits, kept opaque: it is a product. *)
Capacity == CapacityWords * WordBits

LEMMA CapacityType == Capacity \in Nat
  BY MmAssumption DEF Capacity

LEMMA BitsAre == Bits = 0..(Capacity - 1)
  BY DEF Bits, Capacity

(* No more frames are tracked than the bitmap has bits. *)
LEMMA TrackedFits ==
  ASSUME NEW m \in BootMaps
  PROVE  Tracked(m) \in 0..Capacity
  <1> DEFINE wanted == IF \A r \in Usable(m) : Contained(r) = {} THEN 0
                       ELSE HighestUsable(m) + 1
  <1>1. wanted \in Nat
    BY BootMapAssumption
  <1>2. Tracked(m) = IF wanted < Capacity THEN wanted ELSE Capacity
    BY DEF Tracked, Capacity
  <1> HIDE DEF wanted
  <1>3. QED
    BY <1>1, <1>2, CapacityType

(* Rounding: where the frames past Up(a), and the ones below Down(a), lie.  *)
LEMMA UpRounds ==
  ASSUME NEW a \in Nat
  PROVE  /\ Up(a) \in Nat
         /\ \A f \in Nat : f >= Up(a) => f * PAGE_SIZE >= a
  <1> DEFINE q == (a + PAGE_SIZE - 1) \div PAGE_SIZE
  <1>1. q \in Nat /\ q * PAGE_SIZE >= a
    BY MmAssumption, SMTT(30)
  <1>2. Up(a) = q
    BY DEF Up
  <1> HIDE DEF q
  <1>3. ASSUME NEW f \in Nat, f >= q
        PROVE  f * PAGE_SIZE >= a
    <2>1. f * PAGE_SIZE >= q * PAGE_SIZE
      BY <1>1, <1>3, MmAssumption, SMTT(30)
    <2>2. QED
      BY <1>1, <2>1, MmAssumption
  <1>4. QED
    BY <1>1, <1>2, <1>3

LEMMA DownRounds ==
  ASSUME NEW a \in Nat
  PROVE  /\ Down(a) \in Nat
         /\ \A f \in Nat : f < Down(a) => (f + 1) * PAGE_SIZE <= a
  <1> DEFINE q == a \div PAGE_SIZE
  <1>1. q \in Nat /\ q * PAGE_SIZE <= a
    BY MmAssumption, SMTT(30)
  <1>2. Down(a) = q
    BY DEF Down
  <1> HIDE DEF q
  <1>3. ASSUME NEW f \in Nat, f < q
        PROVE  (f + 1) * PAGE_SIZE <= a
    <2>1. (f + 1) * PAGE_SIZE <= q * PAGE_SIZE
      BY <1>1, <1>3, MmAssumption, SMTT(30)
    <2>2. QED
      BY <1>1, <2>1, MmAssumption
  <1>4. QED
    BY <1>1, <1>2, <1>3

(* A frame at or above the floor starts at or above dma_top, and the floor *)
(* is the number of a frame.                                               *)
LEMMA FloorClearsArena ==
  /\ general_floor \in Nat
  /\ \A f \in Nat : f >= general_floor => f * PAGE_SIZE >= dma_top
  BY UpRounds, MmAssumption DEF general_floor

-----------------------------------------------------------------------------
(* The inductive invariant of the bitmap and its counters.  Conserved is   *)
(* what carries the others: it says which frames can be free at all.       *)
Sound ==
  /\ map \in BootMaps /\ total = Tracked(map)
  /\ cursor \in Nat
  /\ Conserved /\ Partitioned /\ CountExact

(* What Sound says about a frame the searches may return. *)
LEMMA FreeFrames ==
  ASSUME Sound
  PROVE  /\ total \in 0..Capacity
         /\ FreeAtBoot(map) \subseteq Frames
         /\ Frames \subseteq Bits /\ Bits \subseteq Nat
         /\ Frames \ used = FreeAtBoot(map) \ (held \cup lent)
         /\ IsFiniteSet(Frames \ used)
  <1>1. total \in 0..Capacity
    BY TrackedFits DEF Sound
  <1>2. FreeAtBoot(map) \subseteq Frames
    BY DEF Sound, FreeAtBoot, Frames
  <1>3. Frames \subseteq Bits /\ Bits \subseteq Nat
    BY <1>1, CapacityType, BitsAre DEF Frames
  <1>4. Frames \ used = FreeAtBoot(map) \ (held \cup lent)
    BY <1>2, <1>3 DEF Sound, Conserved
  <1>5. IsFiniteSet(Frames)
    BY <1>1, CapacityType, FS_Interval DEF Frames
  <1>6. IsFiniteSet(Frames \ used)
    BY <1>5, FS_Difference
  <1>7. QED
    BY <1>1, <1>2, <1>3, <1>4, <1>6

(* Handing out one free frame, from either pool. *)
LEMMA TakeOne ==
  ASSUME Sound, NEW f \in Frames \ used,
         used' = used \cup {f}, free' = free - 1, cursor' \in Nat,
         UNCHANGED <<map, total>>,
         \/ held' = held \cup {f} /\ lent' = lent /\ f * PAGE_SIZE >= dma_top
         \/ lent' = lent \cup {f} /\ held' = held /\ f * PAGE_SIZE < dma_top
  PROVE  Sound'
  <1>1. f \in FreeAtBoot(map) /\ f \notin held \cup lent
    BY FreeFrames
  <1>2. Conserved'
    BY <1>1, FreeFrames DEF Sound, Conserved, FreeAtBoot, Tracked
  <1>3. Partitioned'
    BY DEF Sound, Partitioned
  <1>4. CountExact'
    <2>1. (Frames \ used)' = (Frames \ used) \ {f}
      BY DEF Frames
    <2>2. Cardinality((Frames \ used) \ {f}) = Cardinality(Frames \ used) - 1
      BY FreeFrames, FS_RemoveElement
    <2>3. QED
      BY <2>1, <2>2 DEF Sound, CountExact
  <1>5. QED
    BY <1>2, <1>3, <1>4 DEF Sound

LEMMA AllocFrameSound ==
  ASSUME Sound, alloc_frame
  PROVE  Sound'
  <1> DEFINE from == Higher(cursor, general_floor)
             f == FirstFree(from)
  <1>1. from \in Nat /\ from >= general_floor
    BY FloorClearsArena DEF Sound, Higher
  <1> HIDE DEF from
  <1>2. FreeFrom(from) \subseteq Nat /\ FreeFrom(from) # {}
    BY FreeFrames DEF FreeFrom, alloc_frame, FirstFree, Lowest, from
  <1>3. f \in FreeFrom(from)
    BY <1>2, LowestExists DEF FirstFree
  <1> HIDE DEF f
  <1>4. f \in Frames \ used /\ f \in Nat /\ f >= general_floor
    BY <1>1, <1>2, <1>3, FloorClearsArena DEF FreeFrom
  <1>5. f * PAGE_SIZE >= dma_top
    BY <1>4, FloorClearsArena
  <1>6. /\ used' = used \cup {f} /\ free' = free - 1 /\ cursor' = f + 1
        /\ held' = held \cup {f} /\ lent' = lent
        /\ UNCHANGED <<map, total>>
    BY DEF alloc_frame, f, from
  <1>7. cursor' \in Nat
    BY <1>4, <1>6
  <1>8. QED
    BY <1>4, <1>5, <1>6, <1>7, TakeOne

LEMMA AllocDmaSound ==
  ASSUME Sound, alloc_dma_frame
  PROVE  Sound'
  <1> DEFINE f == Lowest(ArenaFree)
  <1>1. ArenaFree \subseteq Nat /\ ArenaFree # {}
    BY FreeFrames DEF ArenaFree, FreeFrom, alloc_dma_frame
  <1>2. f \in ArenaFree
    BY <1>1, LowestExists
  <1>3. /\ used' = used \cup {f} /\ free' = free - 1
        /\ lent' = lent \cup {f} /\ held' = held
        /\ UNCHANGED <<map, total>>
        /\ cursor' = cursor
    BY DEF alloc_dma_frame
  <1> HIDE DEF f
  <1>4. f \in Frames \ used /\ f * PAGE_SIZE < dma_top
    BY <1>2 DEF ArenaFree, FreeFrom
  <1>5. cursor' \in Nat
    BY <1>3 DEF Sound
  <1>6. QED
    BY <1>3, <1>4, <1>5, TakeOne

(* A run is n free frames above the floor. *)
LEMMA AllocContiguousSound ==
  ASSUME Sound, NEW n \in RunSizes, alloc_contiguous(n)
  PROVE  Sound'
  <1> DEFINE s == Lowest(RunStarts(n))
             run == s..(s + n - 1)
  <1>1. n \in Nat /\ n # 0
    BY MmAssumption DEF alloc_contiguous
  <1>2. RunStarts(n) \subseteq Nat /\ RunStarts(n) # {}
    BY FreeFrames DEF RunStarts, alloc_contiguous
  <1>3. s \in RunStarts(n)
    BY <1>2, LowestExists
  <1>4. /\ used' = used \cup run /\ free' = free - n
        /\ cursor' = Higher(cursor, s + n)
        /\ held' = held \cup run /\ lent' = lent
        /\ map' = map /\ total' = total
    BY DEF alloc_contiguous
  <1> HIDE DEF s
  <1>5. s \in Nat /\ s >= RunFloor /\ s + n <= total /\ run \cap used = {}
    BY <1>2, <1>3 DEF RunStarts
  <1>6. RunFloor >= general_floor /\ RunFloor \in Nat
    <2>1. Down(reserve_below) \in Nat
      BY MmAssumption DEF Down
    <2>2. QED
      BY <2>1, FloorClearsArena DEF RunFloor, Higher
  <1>7. \A f \in run : f \in Nat /\ f >= general_floor /\ f \in Frames
    BY <1>1, <1>5, <1>6, FreeFrames, FloorClearsArena, CapacityType DEF Frames
  <1>8. run \subseteq Frames \ used
    BY <1>5, <1>7
  <1>9. run \subseteq FreeAtBoot(map) /\ run \cap (held \cup lent) = {}
    BY <1>8, FreeFrames
  <1>10. \A f \in run : f * PAGE_SIZE >= dma_top
    BY <1>7, FloorClearsArena
  <1>11. IsFiniteSet(run) /\ Cardinality(run) = n
    <2> DEFINE last == s + n - 1
    <2>1. s \in Int /\ last \in Int /\ ~(s > last) /\ last - s + 1 = n
      BY <1>1, <1>5
    <2>2. run = s..last
      OBVIOUS
    <2> HIDE DEF last, run
    <2>3. IsFiniteSet(s..last) /\ Cardinality(s..last) = last - s + 1
      BY <2>1, FS_Interval
    <2>4. QED
      BY <2>1, <2>2, <2>3
  <1> HIDE DEF run
  <1>12. Conserved'
    BY <1>4, <1>9, FreeFrames DEF Sound, Conserved, FreeAtBoot, Tracked
  <1>13. Partitioned'
    BY <1>4, <1>10 DEF Sound, Partitioned
  <1>14. CountExact'
    <2>1. (Frames \ used)' = (Frames \ used) \ run
      BY <1>4 DEF Frames
    <2>2. (Frames \ used) \cap run = run
      BY <1>8
    <2>3. Cardinality((Frames \ used) \ run) = Cardinality(Frames \ used) - n
      <3> DEFINE F == Frames \ used
      <3>1. IsFiniteSet(F) /\ F \cap run = run
        BY <2>2, FreeFrames
      <3> HIDE DEF F
      <3>2. Cardinality(F \ run) = Cardinality(F) - Cardinality(F \cap run)
        BY <1>11, <3>1, FS_Difference
      <3>3. Cardinality(F \ run) = Cardinality(F) - n
        BY <1>11, <3>1, <3>2
      <3>4. QED
        BY <3>3 DEF F
    <2>4. QED
      BY <1>4, <2>1, <2>3 DEF Sound, CountExact
  <1>15. cursor' \in Nat
    BY <1>1, <1>4, <1>5 DEF Sound, Higher
  <1>16. QED
    BY <1>4, <1>12, <1>13, <1>14, <1>15 DEF Sound

(* A return: of a frame that is held, the one case that changes anything. *)
LEMMA FreeFrameSound ==
  ASSUME Sound, NEW f \in Bits, free_frame(f)
  PROVE  Sound'
  <1>1. CASE UNCHANGED vars
    BY <1>1 DEF Sound, vars, Conserved, Partitioned, CountExact, Frames,
                FreeAtBoot, Tracked
  <1>2. CASE ~UNCHANGED vars
    <2>1. /\ f \in held \cup lent /\ f \in used
          /\ used' = used \ {f} /\ free' = free + 1
          /\ cursor' = IF f < cursor THEN f ELSE cursor
          /\ held' = held \ {f} /\ lent' = lent \ {f}
          /\ map' = map /\ total' = total
      BY <1>2 DEF free_frame
    <2>2. f \in FreeAtBoot(map) /\ f \in Frames /\ f \in Nat
      BY <2>1, FreeFrames DEF Sound, Conserved
    <2>3. Conserved'
      BY <2>1, <2>2, FreeFrames DEF Sound, Conserved, FreeAtBoot, Tracked
    <2>4. Partitioned'
      BY <2>1 DEF Sound, Partitioned
    <2>5. CountExact'
      <3>1. (Frames \ used)' = (Frames \ used) \cup {f}
        BY <2>1, <2>2 DEF Frames
      <3>2. Cardinality((Frames \ used) \cup {f})
              = Cardinality(Frames \ used) + 1
        BY <2>1, FreeFrames, FS_AddElement
      <3>3. QED
        BY <2>1, <3>1, <3>2 DEF Sound, CountExact
    <2>6. cursor' \in Nat
      BY <2>1, <2>2 DEF Sound
    <2>7. QED
      BY <2>1, <2>3, <2>4, <2>5, <2>6 DEF Sound
  <1>3. QED
    BY <1>1, <1>2

LEMMA InitSound == Init => Sound
  <1> SUFFICES ASSUME Init PROVE Sound
    OBVIOUS
  <1>1. Conserved
    BY DEF Init, Conserved
  <1>2. Partitioned
    BY DEF Init, Partitioned
  <1>3. CountExact
    <2>1. total \in 0..Capacity
      BY TrackedFits DEF Init
    <2>2. FreeAtBoot(map) \subseteq Frames
      BY DEF Init, FreeAtBoot, Frames
    <2>3. Frames \subseteq Bits
      BY <2>1, CapacityType, BitsAre DEF Frames
    <2>4. Frames \ used = FreeAtBoot(map)
      BY <2>2, <2>3 DEF Init
    <2>5. QED
      BY <2>4 DEF Init, CountExact
  <1>4. QED
    BY <1>1, <1>2, <1>3 DEF Init, Sound

LEMMA NextSound == Sound /\ [Next]_vars => Sound'
  <1> SUFFICES ASSUME Sound, [Next]_vars PROVE Sound'
    OBVIOUS
  <1>1. CASE alloc_frame
    BY <1>1, AllocFrameSound
  <1>2. CASE alloc_dma_frame
    BY <1>2, AllocDmaSound
  <1>3. CASE \E f \in Bits : free_frame(f)
    BY <1>3, FreeFrameSound
  <1>4. CASE \E n \in RunSizes : alloc_contiguous(n)
    BY <1>4, AllocContiguousSound
  <1>5. CASE UNCHANGED vars
    BY <1>5 DEF Sound, vars, Conserved, Partitioned, CountExact, Frames,
                FreeAtBoot, Tracked
  <1>6. QED
    BY <1>1, <1>2, <1>3, <1>4, <1>5 DEF Next, NextFrames

(* Over any sequence of allocations, runs and returns the set bits are the *)
(* frames never allocatable and the ones a caller holds: `alloc_frame`,    *)
(* `alloc_dma_frame` and `alloc_contiguous` never give a frame to two      *)
(* callers, and `free_frame` loses none.                                   *)
THEOREM FramesConserved == Spec => []Conserved
  <1>1. Sound => Conserved
    BY DEF Sound
  <1>2. QED
    BY <1>1, InitSound, NextSound, PTL DEF Spec

(* A frame of the DMA arena never comes out of `alloc_frame` or            *)
(* `alloc_contiguous`, and no other frame out of `alloc_dma_frame`.        *)
THEOREM PoolsNeverMix == Spec => []Partitioned
  <1>1. Sound => Partitioned
    BY DEF Sound
  <1>2. QED
    BY <1>1, InitSound, NextSound, PTL DEF Spec

(* The bytes of a frame, and those of a region. *)
Bytes(f) == (f * PAGE_SIZE)..((f + 1) * PAGE_SIZE - 1)
Extent(r) == r.start..(End(r) - 1)

(* A frame that is free at boot is inside a Usable region and clear of     *)
(* every other region and of the reserve.                                  *)
LEMMA BootFrameClear ==
  ASSUME NEW m \in BootMaps, NEW f \in FreeAtBoot(m)
  PROVE  /\ \E r \in m : r.usable /\ Bytes(f) \subseteq Extent(r)
         /\ \A r \in m : ~r.usable => Bytes(f) \cap Extent(r) = {}
         /\ Bytes(f) \cap 0..(reserve_below - 1) = {}
  <1>1. /\ f \in UNION {Contained(r) : r \in Usable(m)}
        /\ f \in 0..(Tracked(m) - 1)
        /\ f \notin UNION {Touched(r) : r \in m \ Usable(m)}
        /\ f \notin Reserved
    BY DEF FreeAtBoot
  <1>2. f \in Bits /\ f \in Nat
    BY <1>1, TrackedFits, CapacityType, BitsAre
  <1>3. PICK lo \in Nat, hi \in Nat :
          lo = f * PAGE_SIZE /\ hi = (f + 1) * PAGE_SIZE /\ lo < hi
    BY <1>2, MmAssumption, SMTT(30)
  <1>4. Bytes(f) = lo..(hi - 1)
    BY <1>3 DEF Bytes
  <1>5. ASSUME NEW r \in m
        PROVE  r.start \in Nat /\ r.len \in Nat /\ r.usable \in BOOLEAN
               /\ End(r) \in Nat /\ End(r) = r.start + r.len
    BY MmAssumption DEF End
  <1>6. \E r \in m : r.usable /\ Bytes(f) \subseteq Extent(r)
    <2>1. PICK r \in Usable(m) : f \in Contained(r)
      BY <1>1
    <2>2. r \in m /\ r.usable
      BY <2>1 DEF Usable
    <2>3. f >= Up(r.start) /\ f <= Down(End(r)) - 1
      <3>1. f \in Up(r.start)..(Down(End(r)) - 1)
        BY <2>1 DEF Contained
      <3>2. QED
        BY <1>5, <2>2, <3>1, UpRounds, DownRounds
    <2>4. lo >= r.start
      BY <1>2, <1>3, <1>5, <2>2, <2>3, UpRounds
    <2>5. hi <= End(r)
      <3>1. f < Down(End(r))
        BY <1>2, <1>5, <2>2, <2>3, DownRounds
      <3>2. QED
        BY <1>2, <1>3, <1>5, <2>2, <3>1, DownRounds
    <2>6. Bytes(f) \subseteq Extent(r)
      BY <1>3, <1>4, <1>5, <2>2, <2>4, <2>5 DEF Extent
    <2>7. QED
      BY <2>2, <2>6
  <1>7. ASSUME NEW r \in m, ~r.usable
        PROVE  Bytes(f) \cap Extent(r) = {}
    <2>1. f \notin Touched(r)
      BY <1>1, <1>7 DEF Usable
    <2>2. CASE r.len = 0
      BY <1>5, <2>2 DEF Extent
    <2>3. CASE r.len # 0
      <3>1. Up(End(r)) \in Nat /\ Down(r.start) \in Nat
        BY <1>5, UpRounds, DownRounds
      <3>2. PICK top \in Nat : top = Higher(Up(End(r)), 1) /\ top >= Up(End(r))
        BY <3>1 DEF Higher
      <3>3. f < Down(r.start) \/ f >= top
        <4>1. f \notin Down(r.start)..(top - 1)
          BY <2>1, <2>3, <3>2 DEF Touched
        <4>2. QED
          BY <1>2, <3>1, <3>2, <4>1
      <3>4. CASE f < Down(r.start)
        <4>1. hi <= r.start
          BY <1>2, <1>3, <1>5, <3>4, DownRounds
        <4>2. QED
          BY <1>3, <1>4, <1>5, <4>1 DEF Extent
      <3>5. CASE f >= top
        <4>1. f >= Up(End(r))
          BY <1>2, <3>1, <3>2, <3>5
        <4>2. lo >= End(r)
          BY <1>2, <1>3, <1>5, <4>1, UpRounds
        <4>3. QED
          BY <1>3, <1>4, <1>5, <4>2 DEF Extent
      <3>6. QED
        BY <3>3, <3>4, <3>5
    <2>4. QED
      BY <2>2, <2>3
  <1>8. Bytes(f) \cap 0..(reserve_below - 1) = {}
    <2>1. lo >= reserve_below
      BY <1>1, <1>2, <1>3, MmAssumption DEF Reserved
    <2>2. QED
      BY <1>3, <1>4, <2>1, MmAssumption
  <1>9. QED
    BY <1>6, <1>7, <1>8

(* Whatever the overlaps and alignments of the boot map and the size of a  *)
(* page: every byte of a frame that `alloc_frame`, `alloc_dma_frame` or    *)
(* `alloc_contiguous` has handed out is Usable memory, claimed by no other *)
(* region and not part of the kernel's reserve.                            *)
THEOREM OnlyUsableEver == Spec => []OnlyUsableMemory
  <1>1. Sound => OnlyUsableMemory
    <2> SUFFICES ASSUME Sound, NEW f \in held \cup lent
                 PROVE  /\ \E r \in map : r.usable /\ Bytes(f) \subseteq Extent(r)
                        /\ \A r \in map : ~r.usable => Bytes(f) \cap Extent(r) = {}
                        /\ Bytes(f) \cap 0..(reserve_below - 1) = {}
      BY DEF OnlyUsableMemory, Bytes, Extent
    <2>1. map \in BootMaps /\ f \in FreeAtBoot(map)
      BY DEF Sound, Conserved
    <2>2. QED
      BY <2>1, BootFrameClear
  <1>2. QED
    BY <1>1, InitSound, NextSound, PTL DEF Spec

(* `free_count` is the number of clear bits: the shutdown check that       *)
(* compares it with its value at boot compares the bitmaps.                *)
THEOREM FreeCountExact == Spec => []CountExact
  <1>1. Sound => CountExact
    BY DEF Sound
  <1>2. QED
    BY <1>1, InitSound, NextSound, PTL DEF Spec

-----------------------------------------------------------------------------
(* The hint, for the two single-frame allocations and returns. *)
LEMMA NextFramesCursor ==
  ASSUME Sound, CursorSound, [NextFrames]_vars
  PROVE  CursorSound'
  <1>1. CASE alloc_frame
    <2> DEFINE from == Higher(cursor, general_floor)
               f == FirstFree(from)
    <2>1. from \in Nat /\ (from = cursor \/ from = general_floor)
          /\ from >= cursor /\ from >= general_floor
      BY FloorClearsArena DEF Sound, Higher
    <2>2. used' = used \cup {f} /\ cursor' = f + 1 /\ total' = total
      BY <1>1 DEF alloc_frame
    <2> HIDE DEF from
    <2>3. FreeFrom(from) \subseteq Nat /\ FreeFrom(from) # {}
      BY <1>1, FreeFrames DEF FreeFrom, alloc_frame, FirstFree, Lowest, from
    <2>4. f \in FreeFrom(from) /\ \A g \in FreeFrom(from) : f <= g
      BY <2>3, LowestExists DEF FirstFree
    <2> HIDE DEF f
    <2>5. ASSUME NEW g \in Frames, g >= general_floor, g < f + 1
          PROVE  g \in used \cup {f}
      <3>1. g \in Nat /\ f \in Nat
        BY <2>3, <2>4, FreeFrames
      <3>2. CASE g < cursor
        BY <3>2, <2>5 DEF CursorSound
      <3>3. CASE g >= cursor /\ g \notin used
        <4>1. g >= from
          BY <2>1, <2>5, <3>3
        <4>2. g \in FreeFrom(from)
          BY <4>1, <3>3 DEF FreeFrom
        <4>3. QED
          BY <2>4, <2>5, <3>1, <4>2
      <3>4. QED
        BY <3>1, <3>2, <3>3 DEF Sound
    <2>6. QED
      BY <2>2, <2>5 DEF CursorSound, Frames
  <1>2. CASE alloc_dma_frame
    BY <1>2 DEF CursorSound, alloc_dma_frame, Frames
  <1>3. ASSUME NEW f \in Bits, free_frame(f)
        PROVE  CursorSound'
    <2>1. f \in Nat
      BY FreeFrames
    <2>2. \/ used' = used /\ cursor' = cursor /\ total' = total
          \/ /\ used' = used \ {f} /\ total' = total
             /\ cursor' = IF f < cursor THEN f ELSE cursor
      BY <1>3 DEF free_frame, vars
    <2>3. \A g \in Frames : g \in Nat
      BY FreeFrames
    <2>4. QED
      BY <2>1, <2>2, <2>3 DEF CursorSound, Frames, Sound
  <1>4. CASE UNCHANGED vars
    BY <1>4 DEF CursorSound, vars, Frames
  <1>5. QED
    BY <1>1, <1>2, <1>3, <1>4 DEF NextFrames

(* Where the hint is sound, `first_free` from it misses nothing. *)
LEMMA SoundHintFinds ==
  ASSUME Sound, CursorSound
  PROVE  NoneOnlyWhenEmpty
  <1> DEFINE from == Higher(cursor, general_floor)
  <1> SUFFICES ASSUME FreeFrom(general_floor) # {}
               PROVE  FirstFree(from) # None
    BY DEF NoneOnlyWhenEmpty
  <1>1. PICK g \in FreeFrom(general_floor) : TRUE
    OBVIOUS
  <1>2. g \in Frames /\ g \in Nat /\ g >= general_floor /\ g \notin used
    BY <1>1, FreeFrames DEF FreeFrom
  <1>3. g >= from
    BY <1>2, FloorClearsArena DEF CursorSound, Sound, Higher
  <1>4. g \in FreeFrom(from) /\ FreeFrom(from) \subseteq Nat
    BY <1>2, <1>3, FreeFrames DEF FreeFrom
  <1>5. QED
    BY <1>4, LowestExists DEF FirstFree

(* With single-frame allocations and returns only, in any order, the       *)
(* cursor never passes a free frame of the general pool, so `alloc_frame`  *)
(* answers None only when there is none.                                   *)
THEOREM HintHidesNothing == SpecFrames => [](CursorSound /\ NoneOnlyWhenEmpty)
  <1>1. Init => CursorSound
    BY DEF Init, CursorSound, Frames
  <1>2. Sound /\ [NextFrames]_vars => Sound'
    BY NextSound DEF Next
  <1>3. Sound /\ CursorSound /\ [NextFrames]_vars => CursorSound'
    BY NextFramesCursor
  <1>4. Sound /\ CursorSound => CursorSound /\ NoneOnlyWhenEmpty
    BY SoundHintFinds
  <1>5. QED
    BY <1>1, <1>2, <1>3, <1>4, InitSound, PTL DEF SpecFrames

-----------------------------------------------------------------------------
(* The two scans.  Each is a recursive function that calls itself only     *)
(* further on, so it is what its equation determines: the lowest answer,   *)
(* as a function of where the scan starts, is a solution, and two          *)
(* solutions agree from the far end back.                                  *)

LEMMA AgreeFromTheEnd ==
  ASSUME NEW T \in Nat, NEW g, NEW h,
         \A w \in 0..T : (\A v \in (w + 1)..T : g[v] = h[v]) => g[w] = h[w]
  PROVE  \A w \in 0..T : g[w] = h[w]
  <1> DEFINE bad == {k \in 0..T : g[T - k] # h[T - k]}
  <1>1. bad = {}
    <2> SUFFICES ASSUME bad # {} PROVE FALSE
      OBVIOUS
    <2>1. PICK k : k \in bad /\ \A j \in bad : k <= j
      <3>1. bad \subseteq Nat
        OBVIOUS
      <3> HIDE DEF bad
      <3>2. Lowest(bad) \in bad /\ \A j \in bad : Lowest(bad) <= j
        BY <3>1, LowestExists
      <3>3. QED
        BY <3>2
    <2>2. T - k \in 0..T
      BY <2>1
    <2>3. ASSUME NEW v \in (T - k + 1)..T PROVE g[v] = h[v]
      <3>1. T - v \in 0..T /\ T - v < k /\ T - (T - v) = v
        BY <2>1
      <3>2. T - v \notin bad
        BY <2>1, <3>1
      <3>3. QED
        BY <3>1, <3>2
    <2>4. g[T - k] = h[T - k]
      BY <2>2, <2>3
    <2>5. QED
      BY <2>1, <2>4
  <1>2. ASSUME NEW w \in 0..T PROVE g[w] = h[w]
    <2>1. T - w \in 0..T /\ T - (T - w) = w
      OBVIOUS
    <2>2. QED
      BY <1>1, <2>1
  <1>3. QED
    BY <1>2

LEMMA LowestIs ==
  ASSUME NEW S, S \subseteq Nat, NEW x \in S, \A y \in S : x <= y
  PROVE  Lowest(S) = x
  <1>1. Lowest(S) \in S /\ Lowest(S) <= x
    BY LowestExists
  <1>2. x <= Lowest(S) /\ x \in Nat /\ Lowest(S) \in Nat
    BY <1>1
  <1>3. QED
    BY <1>1, <1>2

(* Words of the bitmap: the word of a bit, and where a word begins. *)
Begin(w) == w * WordBits
LEMMA Words ==
  ASSUME NEW f \in Nat, NEW w \in Nat
  PROVE  /\ f \div WordBits \in Nat
         /\ f \div WordBits >= w <=> f >= Begin(w)
         /\ Begin(w) \in Nat /\ Begin(w) < Begin(w + 1)
  <1> DEFINE q == f \div WordBits
  <1>1. q \in Nat /\ q * WordBits <= f /\ f < (q + 1) * WordBits
    BY MmAssumption, SMTT(30)
  <1>2. Begin(w) \in Nat /\ Begin(w) < Begin(w + 1)
    BY MmAssumption, SMTT(30) DEF Begin
  <1> HIDE DEF q
  <1>3. ASSUME q >= w PROVE f >= Begin(w)
    <2>1. q * WordBits >= w * WordBits
      BY <1>1, <1>3, MmAssumption, SMTT(30)
    <2>2. q * WordBits \in Nat /\ w * WordBits \in Nat
      BY <1>1, MmAssumption
    <2>3. QED
      BY <1>1, <2>1, <2>2 DEF Begin
  <1>4. ASSUME q < w PROVE f < Begin(w)
    <2>1. (q + 1) * WordBits <= w * WordBits
      BY <1>1, <1>4, MmAssumption, SMTT(30)
    <2>2. (q + 1) * WordBits \in Nat /\ w * WordBits \in Nat
      BY <1>1, MmAssumption
    <2>3. QED
      BY <1>1, <2>1, <2>2 DEF Begin
  <1>5. QED
    BY <1>1, <1>2, <1>3, <1>4 DEF q

(* The step of the word scan, given what it finds further on. *)
ClearIn(w, from) ==
  {f \in {b \in Bits : b \div WordBits = w} : f >= from /\ f \notin used}
WordStep(g, from, w) ==
  IF w * WordBits >= total THEN None
  ELSE IF ClearIn(w, from) = {} THEN g[w + 1]
       ELSE IF Lowest(ClearIn(w, from)) < total THEN Lowest(ClearIn(w, from))
            ELSE None
WordScan(from) ==
  CHOOSE g : g = [w \in 0..CapacityWords |-> WordStep(g, from, w)]

LEMMA FirstFreeScanIs ==
  ASSUME NEW from
  PROVE  FirstFreeScan(from) = IF from >= total THEN None
                               ELSE WordScan(from)[from \div WordBits]
  BY DEF FirstFreeScan, WordScan, WordStep, ClearIn

(* What a scan from word w on should find. *)
FreeInWords(from, w) == {f \in FreeFrom(from) : f \div WordBits >= w}

LEMMA WordStepFinds ==
  ASSUME Sound, NEW from \in Nat, NEW w \in 0..CapacityWords, NEW g,
         w < CapacityWords => g[w + 1] = Lowest(FreeInWords(from, w + 1))
  PROVE  WordStep(g, from, w) = Lowest(FreeInWords(from, w))
  <1> DEFINE S == FreeInWords(from, w)
             c == ClearIn(w, from)
  <1>1. total \in Nat /\ total <= Begin(CapacityWords) /\ CapacityWords \in Nat
        /\ Frames \subseteq Bits /\ Bits \subseteq Nat
    BY FreeFrames, CapacityType, MmAssumption DEF Begin, Capacity
  <1>2. ASSUME NEW f \in S
        PROVE  /\ f \in Nat /\ f < total /\ f \in Bits /\ f >= from /\ f \notin used
               /\ f \div WordBits \in Nat /\ f \div WordBits >= w
    BY <1>1, Words DEF FreeInWords, FreeFrom, Frames
  <1>3. ASSUME NEW f \in c
        PROVE  /\ f \in Nat /\ f \in Bits /\ f >= from /\ f \notin used
               /\ f \div WordBits = w /\ f < Begin(w + 1)
    <2>1. f \in Nat /\ f \in Bits /\ f >= from /\ f \notin used /\ f \div WordBits = w
      BY <1>1 DEF ClearIn
    <2>2. ~(f \div WordBits >= w + 1) /\ w + 1 \in Nat /\ Begin(w + 1) \in Nat
      BY <1>1, <2>1, Words
    <2>3. QED
      BY <2>1, <2>2, Words
  <1>4. c \subseteq Nat /\ S \subseteq Nat
    BY <1>2, <1>3
  <1>5. CASE Begin(w) >= total
    <2>1. S = {}
      <3> SUFFICES ASSUME NEW f \in S PROVE FALSE
        OBVIOUS
      <3>1. f >= Begin(w) /\ Begin(w) \in Nat
        BY <1>1, <1>2, Words
      <3>2. QED
        BY <1>1, <1>2, <1>5, <3>1
    <2>2. QED
      BY <1>5, <2>1 DEF WordStep, Begin, Lowest
  <1>6. CASE Begin(w) < total /\ c = {}
    <2>1. w < CapacityWords
      <3>1. Begin(CapacityWords) \in Nat /\ Begin(w) \in Nat
        BY <1>1, Words, SMTT(30)
      <3>2. w # CapacityWords
        BY <1>1, <1>6, <3>1
      <3>3. QED
        BY <1>1, <3>2
    <2>2. S = FreeInWords(from, w + 1)
      <3>1. ASSUME NEW f \in S PROVE f \div WordBits >= w + 1
        <4>1. f \div WordBits # w
          BY <1>2, <1>6 DEF ClearIn
        <4>2. QED
          BY <1>1, <1>2, <4>1
      <3>2. ASSUME NEW f \in FreeInWords(from, w + 1) PROVE f \in S
        <4>1. f \in FreeFrom(from) /\ f \div WordBits >= w + 1 /\ f \in Nat
          BY <1>1 DEF FreeInWords, FreeFrom
        <4>2. f \div WordBits >= w
          BY <1>1, <4>1, Words
        <4>3. QED
          BY <4>1, <4>2 DEF FreeInWords
      <3>3. QED
        BY <3>1, <3>2 DEF FreeInWords
    <2>3. ~(w * WordBits >= total)
      BY <1>1, <1>6, Words DEF Begin
    <2>4. QED
      BY <1>6, <2>1, <2>2, <2>3 DEF WordStep
  <1>7. CASE Begin(w) < total /\ c # {}
    <2>1. Lowest(c) \in c /\ \A f \in c : Lowest(c) <= f
      BY <1>4, <1>7, LowestExists
    <2>2. ~(w * WordBits >= total)
      BY <1>1, <1>7, Words DEF Begin
    <2>3. ASSUME NEW f \in S PROVE Lowest(c) <= f
      <3>1. CASE f \div WordBits = w
        <4>1. f \in c
          BY <1>2, <3>1 DEF ClearIn
        <4>2. QED
          BY <2>1, <4>1
      <3>2. CASE f \div WordBits # w
        <4>1. f \div WordBits >= w + 1 /\ w + 1 \in Nat
          BY <1>1, <1>2, <3>2
        <4>2. f >= Begin(w + 1) /\ Begin(w + 1) \in Nat
          BY <1>2, <4>1, Words
        <4>3. QED
          BY <1>2, <1>3, <2>1, <4>2
      <3>3. QED
        BY <3>1, <3>2
    <2>4. CASE Lowest(c) < total
      <3>1. Lowest(c) \in S
        <4>1. Lowest(c) \in Nat /\ Lowest(c) \div WordBits = w
              /\ Lowest(c) >= from /\ Lowest(c) \notin used
          BY <1>3, <2>1
        <4>2. Lowest(c) \in Frames
          BY <1>1, <2>4, <4>1 DEF Frames
        <4>3. w >= w
          BY <1>1
        <4>4. QED
          BY <4>1, <4>2, <4>3 DEF FreeInWords, FreeFrom
      <3>2. Lowest(S) = Lowest(c)
        BY <1>4, <2>3, <3>1, LowestIs
      <3>3. QED
        BY <1>7, <2>2, <2>4, <3>2 DEF WordStep
    <2>5. CASE ~(Lowest(c) < total)
      <3>1. S = {}
        BY <1>1, <1>2, <1>3, <2>1, <2>3, <2>5
      <3>2. QED
        BY <1>7, <2>2, <2>5, <3>1 DEF WordStep, Lowest
    <2>6. QED
      BY <2>4, <2>5
  <1>8. Begin(w) \in Nat
    BY <1>1, Words, SMTT(30)
  <1>9. QED
    BY <1>1, <1>5, <1>6, <1>7, <1>8

LEMMA FirstFreeScanExact ==
  ASSUME Sound, NEW from \in 0..total
  PROVE  FirstFreeScan(from) = FirstFree(from)
  <1> DEFINE D == 0..CapacityWords
             found == [w \in D |-> Lowest(FreeInWords(from, w))]
             g == WordScan(from)
  <1>1. total \in Nat /\ from \in Nat /\ CapacityWords \in Nat
        /\ total <= Begin(CapacityWords) /\ Frames \subseteq Nat
    BY FreeFrames, CapacityType, MmAssumption DEF Begin, Capacity
  <1>2. \A w \in D : found[w] = Lowest(FreeInWords(from, w))
    OBVIOUS
  <1>3. ASSUME NEW w \in D PROVE WordStep(found, from, w) = found[w]
    <2>1. w < CapacityWords => w + 1 \in D
      BY <1>1
    <2>2. w < CapacityWords => found[w + 1] = Lowest(FreeInWords(from, w + 1))
      BY <1>2, <2>1
    <2> HIDE DEF found
    <2>3. QED
      BY <1>1, <1>2, <2>2, WordStepFinds
  <1>4. found = [w \in D |-> WordStep(found, from, w)]
    <2>1. found = [w \in D |-> found[w]]
      OBVIOUS
    <2> HIDE DEF found
    <2>2. QED
      BY <1>3, <2>1
  <1> HIDE DEF found
  <1>5. g = [w \in D |-> WordStep(g, from, w)]
    BY <1>4 DEF WordScan
  <1> HIDE DEF g
  <1>6. \A w \in D : g[w] = WordStep(g, from, w)
    BY <1>5
  <1>7. ASSUME NEW w \in D, \A v \in (w + 1)..CapacityWords : g[v] = found[v]
        PROVE  g[w] = found[w]
    <2>1. ASSUME w < CapacityWords PROVE g[w + 1] = Lowest(FreeInWords(from, w + 1))
      <3>1. w + 1 \in D /\ w + 1 \in (w + 1)..CapacityWords
        BY <1>1, <2>1
      <3>2. QED
        BY <1>2, <1>7, <3>1
    <2>2. WordStep(g, from, w) = Lowest(FreeInWords(from, w))
      BY <1>1, <2>1, WordStepFinds
    <2>3. QED
      BY <1>2, <1>6, <2>2
  <1>8. \A w \in D : g[w] = found[w]
    BY <1>1, <1>7, AgreeFromTheEnd
  <1>9. CASE from >= total
    <2>1. FreeFrom(from) = {}
      BY <1>1, <1>9 DEF FreeFrom, Frames
    <2>2. QED
      BY <1>9, <2>1, FirstFreeScanIs DEF FirstFree, Lowest
  <1>10. CASE from < total
    <2> DEFINE w == from \div WordBits
    <2>1. w \in Nat /\ Begin(w) <= from
      <3>1. w \in Nat /\ w >= w
        BY <1>1, Words, SMTT(30)
      <3>2. QED
        BY <1>1, <3>1, Words
    <2>2. w \in D
      <3>1. ~(from >= Begin(CapacityWords)) /\ Begin(CapacityWords) \in Nat
        BY <1>1, <1>10, Words
      <3>2. ~(w >= CapacityWords)
        BY <1>1, <3>1, Words
      <3> HIDE DEF w
      <3>3. QED
        BY <1>1, <2>1, <3>2
    <2>3. FreeInWords(from, w) = FreeFrom(from)
      <3> SUFFICES ASSUME NEW f \in FreeFrom(from) PROVE f \div WordBits >= w
        BY DEF FreeInWords
      <3>1. f \in Nat /\ f >= from
        BY <1>1 DEF FreeFrom
      <3> HIDE DEF w
      <3>2. f >= Begin(w) /\ Begin(w) \in Nat
        BY <1>1, <2>1, <3>1, Words
      <3>3. QED
        BY <2>1, <3>1, <3>2, Words
    <2>4. FirstFreeScan(from) = g[w]
      <3>1. ~(from >= total)
        BY <1>1, <1>10
      <3>2. QED
        BY <3>1, FirstFreeScanIs DEF g
    <2> HIDE DEF w
    <2>5. QED
      BY <1>2, <1>8, <2>2, <2>3, <2>4 DEF FirstFree
  <1>11. QED
    BY <1>1, <1>9, <1>10

-----------------------------------------------------------------------------
(* The run scan, likewise. *)
Taken(s, n) == (s..(s + n - 1)) \cap used
RunStep(g, n, s) ==
  IF s + n > total THEN None
  ELSE IF Taken(s, n) = {} THEN s ELSE g[Lowest(Taken(s, n)) + 1]
JumpScan(n) ==
  CHOOSE g : g = [s \in 0..(RunFloor + total) |-> RunStep(g, n, s)]

LEMMA RunScanIs ==
  ASSUME NEW n
  PROVE  RunScan(n) = IF n = 0 \/ n > total THEN None ELSE JumpScan(n)[RunFloor]
  BY DEF RunScan, JumpScan, RunStep, Taken

RunsFrom(n, s) ==
  {t \in Frames : t >= s /\ t + n <= total /\ (t..(t + n - 1)) \cap used = {}}

LEMMA RunStepFinds ==
  ASSUME total \in Nat, NEW n \in Nat \ {0}, NEW s \in Nat, NEW g,
         \A v \in (s + 1)..total : g[v] = Lowest(RunsFrom(n, v))
  PROVE  RunStep(g, n, s) = Lowest(RunsFrom(n, s))
  <1>1. RunsFrom(n, s) \subseteq Nat
    BY DEF RunsFrom, Frames
  <1>2. CASE s + n > total
    <2>1. RunsFrom(n, s) = {}
      BY <1>2 DEF RunsFrom, Frames
    <2>2. QED
      BY <1>2, <2>1 DEF RunStep, Lowest
  <1>3. CASE s + n <= total /\ Taken(s, n) = {}
    <2>1. s \in RunsFrom(n, s) /\ \A t \in RunsFrom(n, s) : s <= t
      BY <1>3 DEF RunsFrom, Frames, Taken
    <2>2. Lowest(RunsFrom(n, s)) = s
      BY <1>1, <2>1, LowestIs
    <2>3. ~(s + n > total)
      BY <1>3
    <2>4. QED
      BY <1>3, <2>2, <2>3 DEF RunStep
  <1>4. CASE s + n <= total /\ Taken(s, n) # {}
    <2>1. PICK b : b = Lowest(Taken(s, n)) /\ b \in Taken(s, n)
      <3>1. Taken(s, n) \subseteq Nat
        BY DEF Taken
      <3>2. QED
        BY <1>4, <3>1, LowestExists
    <2>2. b \in s..(s + n - 1) /\ b \in used
      BY <2>1 DEF Taken
    <2>3. b + 1 \in (s + 1)..total
      BY <1>4, <2>2
    <2>4. RunsFrom(n, s) = RunsFrom(n, b + 1)
      <3>1. ASSUME NEW t \in RunsFrom(n, s) PROVE t >= b + 1
        <4>1. t \in Nat /\ t >= s /\ b \notin t..(t + n - 1)
          BY <2>2, <3>1 DEF RunsFrom, Frames
        <4>2. QED
          BY <2>2, <4>1
      <3>2. ASSUME NEW t \in RunsFrom(n, b + 1) PROVE t >= s
        <4>1. t \in Nat /\ t >= b + 1
          BY <3>2 DEF RunsFrom, Frames
        <4>2. QED
          BY <2>2, <4>1
      <3>3. QED
        BY <3>1, <3>2 DEF RunsFrom
    <2>5. ~(s + n > total)
      BY <1>4
    <2>6. RunStep(g, n, s) = g[b + 1]
      BY <1>4, <2>1, <2>5 DEF RunStep
    <2>7. QED
      BY <2>3, <2>4, <2>6
  <1>5. QED
    BY <1>2, <1>3, <1>4

LEMMA RunScanExact ==
  ASSUME Sound, NEW n \in Nat
  PROVE  RunScan(n) = IF n = 0 THEN None ELSE Lowest(RunStarts(n))
  <1>1. total \in Nat /\ RunFloor \in Nat
    <2>1. Down(reserve_below) \in Nat
      BY MmAssumption, DownRounds
    <2>2. QED
      BY <2>1, FreeFrames, CapacityType, FloorClearsArena DEF RunFloor, Higher
  <1>2. CASE n = 0
    BY <1>2, RunScanIs
  <1>3. CASE n > total
    <2>1. RunStarts(n) = {}
      BY <1>1, <1>3 DEF RunStarts, Frames
    <2>2. n # 0
      BY <1>1, <1>3
    <2>3. QED
      BY <1>3, <2>1, <2>2, RunScanIs DEF Lowest
  <1>4. CASE n # 0 /\ ~(n > total)
    <2> DEFINE T == RunFloor + total
               found == [s \in 0..T |-> Lowest(RunsFrom(n, s))]
               g == JumpScan(n)
    <2>1. T \in Nat /\ total <= T /\ RunFloor \in 0..T
      BY <1>1
    <2>2. \A s \in 0..T : found[s] = Lowest(RunsFrom(n, s))
      OBVIOUS
    <2>3. found = [s \in 0..T |-> found[s]]
      OBVIOUS
    <2> HIDE DEF found, T
    <2>4. ASSUME NEW s \in 0..T PROVE RunStep(found, n, s) = found[s]
      <3>1. \A v \in (s + 1)..total : found[v] = Lowest(RunsFrom(n, v))
        BY <1>1, <2>1, <2>2
      <3>2. QED
        BY <1>1, <1>4, <2>1, <2>2, <3>1, RunStepFinds
    <2>5. found = [s \in 0..T |-> RunStep(found, n, s)]
      BY <2>3, <2>4
    <2>6. g = [s \in 0..T |-> RunStep(g, n, s)]
      BY <2>5 DEF JumpScan, T
    <2> HIDE DEF g
    <2>7. \A s \in 0..T : g[s] = RunStep(g, n, s)
      BY <2>6
    <2>8. ASSUME NEW s \in 0..T, \A v \in (s + 1)..T : g[v] = found[v]
          PROVE  g[s] = found[s]
      <3>1. ASSUME NEW v \in (s + 1)..total PROVE g[v] = Lowest(RunsFrom(n, v))
        <4>1. v \in (s + 1)..T /\ v \in 0..T
          BY <1>1, <2>1, <3>1
        <4>2. QED
          BY <2>2, <2>8, <4>1
      <3>2. RunStep(g, n, s) = Lowest(RunsFrom(n, s))
        BY <1>1, <1>4, <2>1, <3>1, RunStepFinds
      <3>3. QED
        BY <2>2, <2>7, <3>2
    <2>9. g[RunFloor] = found[RunFloor]
      BY <2>1, <2>8, AgreeFromTheEnd
    <2>10. RunsFrom(n, RunFloor) = RunStarts(n)
      BY DEF RunsFrom, RunStarts
    <2>11. QED
      BY <1>4, <2>1, <2>2, <2>9, <2>10, RunScanIs DEF g
  <1>5. QED
    BY <1>2, <1>3, <1>4

(* For every bitmap the allocator can reach: the word-by-word scan of      *)
(* `first_free` and the scan of `alloc_contiguous` that jumps past a used  *)
(* frame stop at the lowest frame, or the lowest run, that will do, and    *)
(* find none only when there is none.                                      *)
THEOREM ScansAlwaysExact == Spec => []ScansExact
  <1>1. Sound => ScansExact
    BY FirstFreeScanExact, RunScanExact, MmAssumption DEF ScansExact
  <1>2. QED
    BY <1>1, InitSound, NextSound, PTL DEF Spec
=============================================================================
