------------------------------ MODULE DmaProofs ------------------------------
(***************************************************************************)
(* The four accounts of what a device may reach, for every number of       *)
(* processes, domains, frames and addresses, every capacity of the tables  *)
(* and every interleaving of the handlers with the unit and the devices.   *)
(*                                                                         *)
(* What is claimed of the moments between two calls is not inductive: a    *)
(* handler has the accounts apart while it works.  The invariant therefore *)
(* says what `work` still owes: which leaves a refused MAP_DMA is about to *)
(* take back, which region has been cleared and not yet freed, and which   *)
(* domains have a flush ahead of them.                                     *)
(***************************************************************************)
EXTENDS Dma, FiniteSetTheorems, SequenceTheorems, WellFoundedInduction, TLAPS

-----------------------------------------------------------------------------
(* Types. *)
RegionRecords == [id : Nat \ {0}, owner : Procs, frames : Seq(Frames)]
DmaRecords == [region : Nat \ {0}, domain : Domains] \cup {NoRecord}
Grants == [frame : Frames, rights : SUBSET Rights]
Maps == [iova : Iovas, frame : Frames, rights : SUBSET Rights]
DomainRecords == [grants : SUBSET Grants, maps : SUBSET Maps]
Commands == [pages : Domains] \cup [wait : {TRUE}]
Steps == [do : {"flush", "await"}, domain : Domains]
         \cup [do : {"release", "free"}, region : RegionRecords]
         \cup [do : {"reap"}, proc : Procs]
         \cup [do : {"undo"}, domain : Domains, first : Nat, frames : Seq(Frames)]

CpuTypeOK ==
  /\ alive \subseteq Procs /\ pool \subseteq Frames /\ nextId \in Nat \ {0}
  /\ regions \subseteq RegionRecords /\ IsFiniteSet(regions)
  /\ dma \in [Procs -> [1..Slots -> DmaRecords]]
  /\ doms \in [Domains -> DomainRecords]
  /\ l1 \in [Domains -> [Iovas -> Frames \cup {0}]]

UnitTypeOK ==
  /\ cached \in [Domains -> SUBSET (Iovas \X Frames)]
  /\ ring \in Seq(Commands) /\ store \in BOOLEAN
  /\ unacked \in Nat /\ panicked \in BOOLEAN

(* The regions, the pool and each other are disjoint. *)
Apart(r, s) == r.id # s.id /\ FramesOf(r) \cap FramesOf(s) = {}
RegionsApart ==
  /\ \A r \in regions : /\ r.id < nextId /\ r.frames # << >>
                        /\ FramesOf(r) \cap pool = {}
  /\ \A r, s \in regions : r # s => Apart(r, s)

(* The page table and the model say the same... *)
TablesAgree ==
  \A d \in Domains, v \in Iovas, f \in Frames :
    l1[d][v] = f <=> \E m \in doms[d].maps : m.iova = v /\ m.frame = f

(* ...and neither names a frame of no region. *)
ReachLive ==
  \A d \in Domains :
    /\ \A v \in Iovas : l1[d][v] # 0 => \E r \in regions : l1[d][v] \in FramesOf(r)
    /\ \A g \in doms[d].grants : \E r \in regions : g.frame \in FramesOf(r)

(* What the handler is about to take back: addresses, and frames whose     *)
(* grants it will reconsider.                                              *)
Undoing(x, d) == x.do = "undo" /\ x.domain = d
Span(x) == x.first..(x.first + Len(x.frames) - 1)
Doomed(d, v) == \E x \in Range(work) : Undoing(x, d) /\ v \in Span(x)
Suspect(d, f) == \E x \in Range(work) : Undoing(x, d) /\ f \in Range(x.frames)

GrantsMapped ==
  \A d \in Domains : \A g \in doms[d].grants :
    \/ Suspect(d, g.frame)
    \/ \E m \in doms[d].maps : m.frame = g.frame /\ ~Doomed(d, m.iova)

(* A region is reached through a domain when its owner has a record of it, *)
(* unless it is about to be freed; and records are of regions one owns.    *)
Reached(d, r) == \E v \in Iovas : ~Doomed(d, v) /\ l1[d][v] \in FramesOf(r)
Recorded(d, r) == \E s \in 1..Slots : dma[r.owner][s] = Record(r.id, d)
Attributed ==
  \A d \in Domains, r \in regions :
    FreeStep(r) \notin Range(work) => (Reached(d, r) <=> Recorded(d, r))
RecordsOwned ==
  \A p \in Procs, s \in 1..Slots : dma[p][s] # NoRecord =>
    p \in alive /\ \E r \in regions : r.id = dma[p][s].region /\ r.owner = p

(* The handler's steps: flushes come first, the one being waited for at    *)
(* the head, and the rollback of a refused call is alone.                  *)
Flushing(x) == x.do \in {"flush", "await"}
Shape(w) ==
  \A i \in 1..Len(w) :
    /\ w[i].do = "undo" => Len(w) = 1
    /\ w[i].do = "await" => i = 1
    /\ Flushing(w[i]) => \A j \in 1..i : Flushing(w[j])

(* What a step relies on. *)
Unreached(r) ==
  \A d \in Domains : /\ \A v \in Iovas : l1[d][v] \notin FramesOf(r)
                     /\ \A g \in doms[d].grants : g.frame \notin FramesOf(r)
Owed(x) ==
  /\ x.do \in {"release", "free"} => \A s \in regions : s # x.region => Apart(x.region, s)
  /\ x.do = "free" => Unreached(x.region)
  /\ x.do = "reap" => \A s \in 1..Slots : dma[x.proc][s] = NoRecord
WorkOK == work \in Seq(Steps) /\ Shape(work) /\ \A x \in Range(work) : Owed(x)

(* The unit.  With every invalidation answered, its ring holds commands    *)
(* only while the handler waits for them.                                  *)
PagesCommand(d) == [pages |-> d]
WaitCommand == [wait |-> TRUE]
Waiting(w) == w # << >> /\ Head(w).do = "await"
RingOK ==
  unacked = 0 =>
    IF Waiting(work)
    THEN \/ ~store /\ ring = <<PagesCommand(Head(work).domain), WaitCommand>>
         \/ ~store /\ ring = <<WaitCommand>>
         \/ store /\ ring = << >>
    ELSE ring = << >>

(* A cached translation is still in the table, or a refused MAP_DMA took   *)
(* it back, or its domain is about to be flushed.                          *)
Pending(d) ==
  \/ FlushStep(d) \in Range(work)
  \/ ring # << >> /\ Head(ring) = PagesCommand(d)
CachedKnown ==
  unacked = 0 =>
    \A d \in Domains, v \in Iovas, f \in Frames : <<v, f>> \in cached[d] =>
      \/ l1[d][v] = f \/ <<d, v, f>> \in undone \/ Pending(d)
PoolCached ==
  unacked = 0 =>
    \A d \in Domains, v \in Iovas, f \in pool :
      <<v, f>> \in cached[d] => <<d, v, f>> \in undone

TablesInv == CpuTypeOK /\ RegionsApart /\ TablesAgree /\ ReachLive
ReachInv == GrantsMapped /\ Attributed /\ RecordsOwned
UnitInv == UnitTypeOK /\ RingOK /\ CachedKnown /\ PoolCached
DmaInv == TablesInv /\ ReachInv /\ WorkOK /\ UnitInv

-----------------------------------------------------------------------------
(* Numbers, sequences and steps. *)

LEMMA Sizes ==
  /\ Frames \subseteq Nat \ {0} /\ 0 \notin Frames /\ IsFiniteSet(Frames)
  /\ Domains = 1..Cardinality(Domains) /\ Cardinality(Domains) \in Nat
  /\ Iovas \subseteq Nat /\ Pages \subseteq Nat \ {0} /\ Slots \in Nat
<1>1. Frames = 1..Cardinality(Frames) /\ Cardinality(Frames) \in Nat
  BY DmaAssumption
<1>2. IsFiniteSet(1..Cardinality(Frames))
  BY <1>1, FS_Interval
<1> QED
  BY <1>1, <1>2, DmaAssumption

LEMMA RangeIs ==
  ASSUME NEW S, NEW w \in Seq(S)
  PROVE  /\ Range(w) = {w[i] : i \in 1..Len(w)} /\ Range(w) \subseteq S
         /\ Range(w) = {} <=> w = << >>
         /\ Len(w) \in Nat /\ (w = << >> <=> Len(w) = 0)
<1>1. Len(w) \in Nat /\ DOMAIN w = 1..Len(w) /\ \A i \in 1..Len(w) : w[i] \in S
  BY LenProperties
<1>2. w = << >> <=> Len(w) = 0
  OBVIOUS
<1>3. Range(w) = {w[i] : i \in 1..Len(w)}
  BY <1>1 DEF Range
<1>4. ASSUME Len(w) # 0 PROVE w[1] \in Range(w)
  <2>1. 1 \in 1..Len(w)
    BY <1>1, <1>4
  <2> QED
    BY <1>3, <2>1
<1>5. Len(w) = 0 => 1..Len(w) = {}
  OBVIOUS
<1> QED
  BY <1>1, <1>2, <1>3, <1>4, <1>5

LEMMA RangeTail ==
  ASSUME NEW S, NEW w \in Seq(S), w # << >>
  PROVE  /\ Tail(w) \in Seq(S) /\ Head(w) \in Range(w) /\ Head(w) = w[1]
         /\ Len(w) \in Nat \ {0} /\ Len(Tail(w)) = Len(w) - 1
         /\ \A i \in 1..Len(Tail(w)) : Tail(w)[i] = w[i + 1]
         /\ Range(w) = {Head(w)} \cup Range(Tail(w))
<1>1. /\ Tail(w) \in Seq(S) /\ Head(w) = w[1]
      /\ Len(w) \in Nat \ {0} /\ Len(Tail(w)) = Len(w) - 1
      /\ \A i \in 1..Len(Tail(w)) : Tail(w)[i] = w[i + 1]
  BY HeadTailProperties
<1>2. /\ Range(w) = {w[i] : i \in 1..Len(w)}
      /\ Range(Tail(w)) = {Tail(w)[i] : i \in 1..Len(Tail(w))}
  BY <1>1, RangeIs
<1>3. ASSUME NEW i \in 1..Len(w) PROVE w[i] = Head(w) \/ w[i] \in Range(Tail(w))
  <2>1. CASE i = 1
    BY <1>1, <2>1
  <2>2. CASE i # 1
    <3>1. i - 1 \in 1..Len(Tail(w)) /\ (i - 1) + 1 = i
      BY <1>1, <2>2
    <3>2. Tail(w)[i - 1] = w[i]
      BY <1>1, <3>1
    <3> QED
      BY <1>2, <3>1, <3>2
  <2> QED
    BY <2>1, <2>2
<1>4. ASSUME NEW i \in 1..Len(Tail(w)) PROVE Tail(w)[i] \in Range(w)
  <2>1. i + 1 \in 1..Len(w)
    BY <1>1
  <2> QED
    BY <1>1, <1>2, <2>1
<1>5. Head(w) \in Range(w)
  <2>1. 1 \in 1..Len(w)
    BY <1>1
  <2> QED
    BY <1>1, <1>2, <2>1
<1> QED
  BY <1>1, <1>2, <1>3, <1>4, <1>5

LEMMA RangeConcat ==
  ASSUME NEW S, NEW u \in Seq(S), NEW w \in Seq(S)
  PROVE  /\ u \o w \in Seq(S) /\ Len(u \o w) = Len(u) + Len(w)
         /\ Len(u) \in Nat /\ Len(w) \in Nat
         /\ \A i \in 1..(Len(u) + Len(w)) :
              (u \o w)[i] = IF i <= Len(u) THEN u[i] ELSE w[i - Len(u)]
         /\ Range(u \o w) = Range(u) \cup Range(w)
<1>1. /\ u \o w \in Seq(S) /\ Len(u \o w) = Len(u) + Len(w)
      /\ Len(u) \in Nat /\ Len(w) \in Nat
      /\ \A i \in 1..(Len(u) + Len(w)) :
           (u \o w)[i] = IF i <= Len(u) THEN u[i] ELSE w[i - Len(u)]
  BY ConcatProperties, LenProperties
<1> DEFINE c == u \o w
<1> HIDE DEF c
<1>2. /\ Range(u) = {u[i] : i \in 1..Len(u)} /\ Range(w) = {w[i] : i \in 1..Len(w)}
      /\ Range(c) = {c[i] : i \in 1..Len(c)}
  BY <1>1, RangeIs DEF c
<1>3. ASSUME NEW i \in 1..Len(c) PROVE c[i] \in Range(u) \cup Range(w)
  <2>1. CASE i <= Len(u)
    <3>1. i \in 1..Len(u) /\ c[i] = u[i]
      BY <1>1, <2>1 DEF c
    <3> QED
      BY <1>2, <3>1
  <2>2. CASE ~(i <= Len(u))
    <3>1. i - Len(u) \in 1..Len(w) /\ c[i] = w[i - Len(u)]
      BY <1>1, <2>2 DEF c
    <3> QED
      BY <1>2, <3>1
  <2> QED
    BY <2>1, <2>2
<1>4. ASSUME NEW i \in 1..Len(u) PROVE u[i] \in Range(c)
  <2>1. i \in 1..Len(c) /\ c[i] = u[i]
    BY <1>1 DEF c
  <2> QED
    BY <1>2, <2>1
<1>5. ASSUME NEW i \in 1..Len(w) PROVE w[i] \in Range(c)
  <2>1. i + Len(u) \in 1..Len(c) /\ (i + Len(u)) - Len(u) = i /\ ~(i + Len(u) <= Len(u))
    BY <1>1 DEF c
  <2>2. c[i + Len(u)] = w[i]
    BY <1>1, <2>1 DEF c
  <2> QED
    BY <1>2, <2>1, <2>2
<1>6. Range(c) = Range(u) \cup Range(w)
  BY <1>2, <1>3, <1>4, <1>5
<1> QED
  BY <1>1, <1>6 DEF c

LEMMA RangeOne ==
  ASSUME NEW S, NEW x \in S
  PROVE  /\ <<x>> \in Seq(S) /\ Len(<<x>>) = 1 /\ <<x>>[1] = x
         /\ <<x>> # << >> /\ Head(<<x>>) = x
         /\ Range(<<x>>) = {x}
<1>1. /\ <<x>> \in Seq(S) /\ Len(<<x>>) = 1 /\ <<x>>[1] = x
      /\ <<x>> # << >> /\ Head(<<x>>) = x
  OBVIOUS
<1>2. Range(<<x>>) = {<<x>>[i] : i \in 1..1}
  BY <1>1, RangeIs
<1> QED
  BY <1>1, <1>2

LEMMA RangeNone == << >> \in Seq(Steps) /\ Range(<< >>) = {} /\ Len(<< >>) = 0
<1>1. << >> \in Seq(Steps) /\ Len(<< >>) = 0
  OBVIOUS
<1> QED
  BY <1>1, RangeIs

(* What is left of a handler's work once its head is done. *)
LEMMA ShapeTail ==
  ASSUME NEW w \in Seq(Steps), w # << >>, Shape(w)
  PROVE  /\ Tail(w) \in Seq(Steps) /\ Shape(Tail(w)) /\ ~Waiting(Tail(w))
         /\ Range(w) = {Head(w)} \cup Range(Tail(w))
         /\ \A x \in Range(Tail(w)) : x.do # "undo" /\ x.do # "await"
         /\ ~Flushing(Head(w)) => \A x \in Range(w) : ~Flushing(x)
         /\ Head(w).do # "undo" => \A x \in Range(w) : x.do # "undo"
<1> DEFINE t == Tail(w)
<1>1. /\ t \in Seq(Steps) /\ Head(w) \in Range(w) /\ Head(w) = w[1]
      /\ Len(w) \in Nat \ {0} /\ Len(t) = Len(w) - 1
      /\ \A i \in 1..Len(t) : t[i] = w[i + 1]
      /\ Range(w) = {Head(w)} \cup Range(t)
  BY RangeTail
<1>2. /\ Range(w) = {w[i] : i \in 1..Len(w)} /\ Range(t) = {t[i] : i \in 1..Len(t)}
  BY <1>1, RangeIs
<1> HIDE DEF t
<1>3. ASSUME NEW i \in 1..Len(t)
      PROVE  /\ i + 1 \in 1..Len(w) /\ t[i] = w[i + 1]
             /\ t[i].do # "undo" /\ t[i].do # "await"
             /\ Flushing(t[i]) => \A j \in 1..i : Flushing(t[j])
  <2>1. i + 1 \in 1..Len(w) /\ t[i] = w[i + 1] /\ i + 1 # 1 /\ Len(w) # 1
    BY <1>1
  <2>2. t[i].do # "undo" /\ t[i].do # "await"
    BY <2>1 DEF Shape
  <2>3. ASSUME Flushing(t[i]), NEW j \in 1..i PROVE Flushing(t[j])
    <3>1. j + 1 \in 1..(i + 1) /\ t[j] = w[j + 1]
      BY <1>1, <2>1
    <3> QED
      BY <2>1, <2>3, <3>1 DEF Shape
  <2> QED
    BY <2>1, <2>2, <2>3
<1>4. Shape(t)
  BY <1>3 DEF Shape
<1>5. \A x \in Range(t) : x.do # "undo" /\ x.do # "await"
  BY <1>2, <1>3
<1>6. ~Waiting(t)
  <2>1. ASSUME t # << >> PROVE Head(t) \in Range(t)
    BY <1>1, <2>1, RangeTail
  <2> QED
    BY <1>5, <2>1 DEF Waiting
<1>7. ASSUME ~Flushing(Head(w)), NEW i \in 1..Len(w) PROVE ~Flushing(w[i])
  <2>1. 1 \in 1..i
    BY <1>1
  <2> QED
    BY <1>1, <1>7, <2>1 DEF Shape
<1>8. ASSUME Head(w).do # "undo", NEW x \in Range(w) PROVE x.do # "undo"
  BY <1>1, <1>5, <1>8
<1> QED
  BY <1>1, <1>2, <1>4, <1>5, <1>6, <1>7, <1>8 DEF t

(* The steps a handler puts down. *)
LEMMA StepsAre ==
  /\ \A d \in Domains : /\ FlushStep(d) \in Steps /\ FlushStep(d).do = "flush"
                        /\ AwaitStep(d) \in Steps /\ AwaitStep(d).do = "await"
                        /\ AwaitStep(d).domain = d /\ FlushStep(d).domain = d
  /\ \A r \in RegionRecords : /\ ReleaseStep(r) \in Steps
                              /\ ReleaseStep(r).do = "release"
                              /\ FreeStep(r) \in Steps /\ FreeStep(r).do = "free"
                              /\ FreeStep(r).region = r /\ ReleaseStep(r).region = r
  /\ \A p \in Procs : /\ ReapStep(p) \in Steps /\ ReapStep(p).do = "reap"
                      /\ ReapStep(p).proc = p
BY DEF Steps, FlushStep, AwaitStep, ReleaseStep, FreeStep, ReapStep

(* ...and are recognised by what they do. *)
LEMMA StepKinds ==
  ASSUME NEW x \in Steps
  PROVE  /\ x.do = "flush" => x.domain \in Domains /\ x = FlushStep(x.domain)
         /\ x.do = "await" => x.domain \in Domains /\ x = AwaitStep(x.domain)
         /\ x.do = "release" => x.region \in RegionRecords
         /\ x.do = "free" => x.region \in RegionRecords /\ x = FreeStep(x.region)
         /\ x.do = "reap" => x.proc \in Procs /\ x = ReapStep(x.proc)
         /\ x.do = "undo" => /\ x.domain \in Domains /\ x.first \in Nat
                             /\ x.frames \in Seq(Frames)
<1>1. CASE x \in [do : {"flush", "await"}, domain : Domains]
  BY <1>1 DEF FlushStep, AwaitStep
<1>2. CASE x \in [do : {"release", "free"}, region : RegionRecords]
  BY <1>2 DEF FreeStep
<1>3. CASE x \in [do : {"reap"}, proc : Procs]
  BY <1>3 DEF ReapStep
<1>4. CASE x \in [do : {"undo"}, domain : Domains, first : Nat, frames : Seq(Frames)]
  BY <1>4
<1> QED
  BY <1>1, <1>2, <1>3, <1>4 DEF Steps

LEMMA FlushAllIs ==
  /\ FlushAll \in Seq(Steps) /\ Range(FlushAll) = {FlushStep(d) : d \in Domains}
<1>1. PICK n \in Nat : Domains = 1..n
  BY Sizes
<1>2. FlushAll \in [1..n -> Steps]
  BY <1>1, StepsAre DEF FlushAll
<1>3. FlushAll \in Seq(Steps) /\ Len(FlushAll) = n
  BY <1>2
<1>4. Range(FlushAll) = {FlushAll[i] : i \in 1..n}
  BY <1>3, RangeIs
<1>5. \A d \in 1..n : FlushAll[d] = FlushStep(d)
  BY <1>1 DEF FlushAll
<1> QED
  BY <1>1, <1>3, <1>4, <1>5

(* Flushes first, then steps that are not. *)
LEMMA ShapePlan ==
  ASSUME NEW u \in Seq(Steps), NEW w \in Seq(Steps),
         \A x \in Range(u) : x.do = "flush",
         \A x \in Range(w) : ~Flushing(x) /\ x.do # "undo"
  PROVE  /\ u \o w \in Seq(Steps) /\ Shape(u \o w) /\ ~Waiting(u \o w)
         /\ Range(u \o w) = Range(u) \cup Range(w)
<1> DEFINE c == u \o w
<1>1. /\ c \in Seq(Steps) /\ Len(c) = Len(u) + Len(w)
      /\ Len(u) \in Nat /\ Len(w) \in Nat
      /\ \A i \in 1..(Len(u) + Len(w)) :
           c[i] = IF i <= Len(u) THEN u[i] ELSE w[i - Len(u)]
      /\ Range(c) = Range(u) \cup Range(w)
  BY RangeConcat
<1> HIDE DEF c
<1>2. /\ \A i \in 1..Len(u) : u[i] \in Range(u)
      /\ \A i \in 1..Len(w) : w[i] \in Range(w)
  BY RangeIs
<1>3. \A x \in Range(c) : x.do # "undo" /\ x.do # "await"
  BY <1>1 DEF Flushing
<1>4. ASSUME NEW i \in 1..Len(c), Flushing(c[i]), NEW j \in 1..i PROVE Flushing(c[j])
  <2>1. i <= Len(u)
    <3> SUFFICES ASSUME ~(i <= Len(u)) PROVE FALSE
      OBVIOUS
    <3>1. i - Len(u) \in 1..Len(w) /\ c[i] = w[i - Len(u)]
      BY <1>1
    <3> QED
      BY <1>2, <1>4, <3>1
  <2>2. j \in 1..Len(u) /\ c[j] = u[j]
    BY <1>1, <2>1
  <2>3. u[j].do = "flush"
    BY <1>2, <2>2
  <2> QED
    BY <2>2, <2>3 DEF Flushing
<1>5. \A i \in 1..Len(c) : c[i] \in Range(c)
  BY <1>1, RangeIs
<1>6. Shape(c)
  BY <1>3, <1>4, <1>5 DEF Shape
<1>7. ~Waiting(c)
  <2>1. ASSUME c # << >> PROVE Head(c) \in Range(c)
    BY <1>1, <2>1, RangeTail
  <2> QED
    BY <1>3, <2>1 DEF Waiting
<1> QED
  BY <1>1, <1>6, <1>7 DEF c

(* A flush that is being waited for takes the place of the flush. *)
LEMMA ShapeAwait ==
  ASSUME NEW w \in Seq(Steps), w # << >>, Shape(w), Head(w).do = "flush",
         NEW d \in Domains
  PROVE  LET c == <<AwaitStep(d)>> \o Tail(w)
         IN  /\ c \in Seq(Steps) /\ Shape(c) /\ Waiting(c) /\ Head(c) = AwaitStep(d)
             /\ Range(c) = {AwaitStep(d)} \cup Range(Tail(w))
<1> DEFINE u == <<AwaitStep(d)>>
           t == Tail(w)
           c == u \o t
<1>1. /\ t \in Seq(Steps) /\ Shape(t) /\ Len(t) = Len(w) - 1 /\ Len(w) \in Nat \ {0}
      /\ Head(w) = w[1] /\ \A i \in 1..Len(t) : t[i] = w[i + 1]
      /\ \A x \in Range(t) : x.do # "undo" /\ x.do # "await"
  BY ShapeTail, RangeTail
<1>2. AwaitStep(d) \in Steps /\ AwaitStep(d).do = "await"
  BY StepsAre
<1>3. u \in Seq(Steps) /\ Len(u) = 1 /\ u[1] = AwaitStep(d) /\ Range(u) = {AwaitStep(d)}
  BY <1>2, RangeOne
<1> HIDE DEF u, t
<1>4. /\ c \in Seq(Steps) /\ Len(c) = 1 + Len(t) /\ Len(t) \in Nat
      /\ \A i \in 1..(1 + Len(t)) : c[i] = IF i <= 1 THEN u[i] ELSE t[i - 1]
      /\ Range(c) = Range(u) \cup Range(t)
  <2>1. /\ c \in Seq(Steps) /\ Len(c) = Len(u) + Len(t) /\ Len(t) \in Nat
        /\ \A i \in 1..(Len(u) + Len(t)) :
             c[i] = IF i <= Len(u) THEN u[i] ELSE t[i - Len(u)]
        /\ Range(c) = Range(u) \cup Range(t)
    <3>1. u \in Seq(Steps) /\ t \in Seq(Steps)
      BY <1>1, <1>3
    <3> QED
      BY <3>1, RangeConcat
  <2> HIDE DEF c
  <2> QED
    BY <1>3, <2>1
<1> HIDE DEF c
<1>5. c[1] = AwaitStep(d) /\ c # << >> /\ Head(c) = AwaitStep(d)
  <2>1. c[1] = AwaitStep(d)
    BY <1>3, <1>4
  <2>2. Len(c) # 0
    BY <1>4
  <2>3. c # << >>
    BY <1>4, <2>2, RangeIs
  <2> QED
    BY <1>4, <2>1, <2>3, RangeTail
<1>6. ASSUME NEW i \in 1..Len(c)
      PROVE  /\ c[i].do # "undo" /\ (c[i].do = "await" => i = 1)
             /\ Flushing(c[i]) => \A j \in 1..i : Flushing(c[j])
  <2>1. CASE i = 1
    BY <1>2, <1>5, <2>1 DEF Flushing
  <2>2. CASE i # 1
    <3>1. i - 1 \in 1..Len(t) /\ c[i] = t[i - 1] /\ t[i - 1] \in Range(t)
      BY <1>1, <1>4, <2>2, RangeIs
    <3>2. ASSUME Flushing(c[i]), NEW j \in 1..i PROVE Flushing(c[j])
      <4>1. CASE j = 1
        BY <1>2, <1>5, <4>1 DEF Flushing
      <4>2. CASE j # 1
        <5>1. j - 1 \in 1..(i - 1) /\ c[j] = t[j - 1]
          BY <1>4, <4>2
        <5> QED
          BY <1>1, <3>1, <3>2, <5>1 DEF Shape
      <4> QED
        BY <4>1, <4>2
    <3> QED
      BY <1>1, <3>1, <3>2
  <2> QED
    BY <2>1, <2>2
<1>7. Shape(c)
  BY <1>6 DEF Shape
<1> QED
  BY <1>2, <1>3, <1>4, <1>5, <1>7 DEF Waiting, c, u, t

(* The head of a handler's work. *)
LEMMA DoingIs ==
  ASSUME WorkOK, NEW what, Doing(what)
  PROVE  /\ work \in Seq(Steps) /\ work # << >> /\ Shape(work)
         /\ Step \in Steps /\ Step \in Range(work) /\ Step.do = what
         /\ Tail(work) \in Seq(Steps) /\ Shape(Tail(work)) /\ ~Waiting(Tail(work))
         /\ Range(work) = {Step} \cup Range(Tail(work))
         /\ \A x \in Range(Tail(work)) : x.do # "undo" /\ x.do # "await"
         /\ what \notin {"flush", "await"} => \A x \in Range(work) : ~Flushing(x)
         /\ what # "undo" => \A x \in Range(work) : x.do # "undo"
         /\ \A x \in Range(work) : Owed(x)
         /\ Waiting(work) <=> what = "await"
<1>1. /\ work \in Seq(Steps) /\ work # << >> /\ Shape(work) /\ Step.do = what
      /\ Step = Head(work) /\ \A x \in Range(work) : Owed(x)
  BY DEF WorkOK, Doing, Step
<1>2. Step \in Range(work) /\ Range(work) \subseteq Steps
  BY <1>1, RangeTail, RangeIs
<1>3. Flushing(Step) <=> what \in {"flush", "await"}
  BY <1>1 DEF Flushing
<1> QED
  BY <1>1, <1>2, <1>3, ShapeTail DEF Waiting

-----------------------------------------------------------------------------
(* The unit and the devices. *)

(* Nothing but the unit's own state moves. *)
LEMMA UnitAside ==
  ASSUME DmaInv, UNCHANGED <<cpu, work>>
  PROVE  TablesInv' /\ ReachInv' /\ WorkOK'
<1>1. /\ alive' = alive /\ regions' = regions /\ nextId' = nextId /\ pool' = pool
      /\ dma' = dma /\ doms' = doms /\ l1' = l1 /\ work' = work
  BY DEF cpu
<1>2. TablesInv'
  BY <1>1 DEF DmaInv, TablesInv, CpuTypeOK, RegionsApart, TablesAgree, ReachLive
<1>3. \A d, v : Doomed(d, v)' <=> Doomed(d, v)
  BY <1>1 DEF Doomed
<1>4. \A d, f : Suspect(d, f)' <=> Suspect(d, f)
  BY <1>1 DEF Suspect
<1>5. GrantsMapped'
  BY <1>1, <1>3, <1>4 DEF DmaInv, ReachInv, GrantsMapped
<1>6. Attributed'
  BY <1>1, <1>3 DEF DmaInv, ReachInv, Attributed, Reached, Recorded
<1>7. RecordsOwned'
  BY <1>1 DEF DmaInv, ReachInv, RecordsOwned
<1>8. \A x : Owed(x)' <=> Owed(x)
  BY <1>1 DEF Owed, Unreached
<1>9. WorkOK'
  BY <1>1, <1>8 DEF DmaInv, WorkOK
<1> QED
  BY <1>2, <1>5, <1>6, <1>7, <1>9 DEF ReachInv

LEMMA CommandsAre ==
  /\ \A d \in Domains : /\ PagesCommand(d) \in Commands
                        /\ "pages" \in DOMAIN PagesCommand(d)
                        /\ PagesCommand(d).pages = d
  /\ WaitCommand \in Commands /\ "pages" \notin DOMAIN WaitCommand
  /\ \A c \in Commands : IF "pages" \in DOMAIN c
                         THEN c.pages \in Domains /\ c = PagesCommand(c.pages)
                         ELSE c = WaitCommand
<1>1. \A d \in Domains : DOMAIN PagesCommand(d) = {"pages"}
  BY DEF PagesCommand
<1>2. DOMAIN WaitCommand = {"wait"}
  BY DEF WaitCommand
<1>3. ASSUME NEW c \in Commands
      PROVE  \/ c.pages \in Domains /\ c = PagesCommand(c.pages)
             \/ c = WaitCommand
  BY DEF Commands, PagesCommand, WaitCommand
<1>4. /\ \A d \in Domains : PagesCommand(d) \in Commands /\ PagesCommand(d).pages = d
      /\ WaitCommand \in Commands
  BY DEF Commands, PagesCommand, WaitCommand
<1>5. "pages" \in {"pages"} /\ "pages" \notin {"wait"}
  OBVIOUS
<1> QED
  BY <1>1, <1>2, <1>3, <1>4, <1>5

LEMMA DmaUnitStep ==
  ASSUME DmaInv, UnitStep
  PROVE  DmaInv'
<1>1. /\ UNCHANGED <<cpu, work>> /\ unacked' = unacked /\ undone' = undone
      /\ panicked' = panicked /\ l1' = l1 /\ pool' = pool /\ work' = work
      /\ ring # << >> /\ ring' = Tail(ring)
  BY DEF UnitStep, cpu
<1>2. /\ ring \in Seq(Commands) /\ store \in BOOLEAN /\ unacked \in Nat
      /\ cached \in [Domains -> SUBSET (Iovas \X Frames)] /\ panicked \in BOOLEAN
      /\ pool \subseteq Frames
  BY DEF DmaInv, UnitInv, UnitTypeOK, TablesInv, CpuTypeOK
<1>3. Head(ring) \in Commands /\ ring' \in Seq(Commands)
  BY <1>1, <1>2, HeadTailProperties
<1>4. CASE Head(ring) = WaitCommand
  <2>1. store' = TRUE /\ cached' = cached
    BY <1>4, CommandsAre DEF UnitStep
  <2>2. UnitTypeOK'
    BY <1>1, <1>2, <1>3, <2>1 DEF UnitTypeOK
  <2>3. RingOK'
    <3> SUFFICES ASSUME unacked = 0 PROVE Waiting(work) /\ ring' = << >>
      BY <1>1, <2>1 DEF RingOK
    <3>1. Waiting(work)
      BY <1>1 DEF DmaInv, UnitInv, RingOK
    <3>2. PagesCommand(Head(work).domain) # WaitCommand
      BY DEF PagesCommand, WaitCommand
    <3>3. ring = <<WaitCommand>>
      <4>1. \/ ring = <<PagesCommand(Head(work).domain), WaitCommand>>
            \/ ring = <<WaitCommand>>
        BY <1>1, <3>1 DEF DmaInv, UnitInv, RingOK
      <4>2. ring = <<PagesCommand(Head(work).domain), WaitCommand>>
              => Head(ring) = PagesCommand(Head(work).domain)
        OBVIOUS
      <4> QED
        BY <1>4, <3>2, <4>1, <4>2
    <3> QED
      BY <1>1, <3>1, <3>3
  <2>4. \A d \in Domains : Pending(d) => Pending(d)'
    <3> SUFFICES ASSUME NEW d \in Domains PROVE Head(ring) # PagesCommand(d)
      BY <1>1 DEF Pending
    <3> QED
      BY <1>4 DEF WaitCommand, PagesCommand
  <2>5. CachedKnown' /\ PoolCached'
    BY <1>1, <2>1, <2>4 DEF DmaInv, UnitInv, CachedKnown, PoolCached
  <2> QED
    BY <1>1, <2>2, <2>3, <2>5, UnitAside DEF DmaInv, UnitInv
<1>5. ASSUME NEW e \in Domains, Head(ring) = PagesCommand(e) PROVE DmaInv'
  <2>1. store' = store /\ cached' = [cached EXCEPT ![e] = {}]
    BY <1>5, CommandsAre DEF UnitStep
  <2>2. /\ cached'[e] = {} /\ \A d \in Domains : d # e => cached'[d] = cached[d]
        /\ cached' \in [Domains -> SUBSET (Iovas \X Frames)]
    BY <1>2, <2>1
  <2>3. UnitTypeOK'
    BY <1>1, <1>2, <1>3, <2>1, <2>2 DEF UnitTypeOK
  <2>4. RingOK'
    <3> SUFFICES ASSUME unacked = 0
                 PROVE  Waiting(work) /\ ~store /\ ring' = <<WaitCommand>>
      BY <1>1, <2>1 DEF RingOK
    <3>1. Waiting(work)
      BY <1>1 DEF DmaInv, UnitInv, RingOK
    <3>2. PagesCommand(e) # WaitCommand
      BY DEF PagesCommand, WaitCommand
    <3>3. ~store /\ ring = <<PagesCommand(Head(work).domain), WaitCommand>>
      <4>1. \/ ~store /\ ring = <<PagesCommand(Head(work).domain), WaitCommand>>
            \/ ring = <<WaitCommand>>
        BY <1>1, <3>1 DEF DmaInv, UnitInv, RingOK
      <4>2. ring = <<WaitCommand>> => Head(ring) = WaitCommand
        OBVIOUS
      <4> QED
        BY <1>5, <3>2, <4>1, <4>2
    <3> QED
      BY <1>1, <3>1, <3>3
  <2>5. ASSUME NEW d \in Domains, d # e, Pending(d) PROVE Pending(d)'
    <3>1. PagesCommand(d) # PagesCommand(e)
      BY <2>5 DEF PagesCommand
    <3> QED
      BY <1>1, <1>5, <2>5, <3>1 DEF Pending
  <2>6. CachedKnown' /\ PoolCached'
    BY <1>1, <2>2, <2>5 DEF DmaInv, UnitInv, CachedKnown, PoolCached
  <2> QED
    BY <1>1, <2>3, <2>4, <2>6, UnitAside DEF DmaInv, UnitInv
<1> QED
  BY <1>3, <1>4, <1>5, CommandsAre

LEMMA DmaWalk ==
  ASSUME DmaInv, NEW e \in Domains, NEW a \in Iovas, Walk(e, a)
  PROVE  DmaInv'
<1>1. /\ UNCHANGED <<cpu, work>> /\ unacked' = unacked /\ undone' = undone
      /\ panicked' = panicked /\ l1' = l1 /\ pool' = pool /\ work' = work
      /\ ring' = ring /\ store' = store
      /\ cached' = [cached EXCEPT ![e] = @ \cup {<<a, l1[e][a]>>}] /\ l1[e][a] # 0
  BY DEF Walk, cpu
<1>2. /\ cached \in [Domains -> SUBSET (Iovas \X Frames)] /\ l1[e][a] \in Frames
      /\ l1[e][a] \notin pool
  <2>1. l1[e][a] \in Frames /\ cached \in [Domains -> SUBSET (Iovas \X Frames)]
    BY <1>1 DEF DmaInv, TablesInv, UnitInv, UnitTypeOK, CpuTypeOK
  <2>2. PICK r \in regions : l1[e][a] \in FramesOf(r)
    BY <1>1 DEF DmaInv, TablesInv, ReachLive
  <2> QED
    BY <2>1, <2>2 DEF DmaInv, TablesInv, RegionsApart
<1>3. /\ cached' \in [Domains -> SUBSET (Iovas \X Frames)]
      /\ \A d \in Domains : \A v, f : <<v, f>> \in cached'[d] =>
           <<v, f>> \in cached[d] \/ (d = e /\ v = a /\ f = l1[e][a])
  BY <1>1, <1>2
<1>4. UnitTypeOK'
  BY <1>1, <1>3 DEF DmaInv, UnitInv, UnitTypeOK
<1>5. RingOK'
  BY <1>1 DEF DmaInv, UnitInv, RingOK
<1>6. \A d : Pending(d)' <=> Pending(d)
  BY <1>1 DEF Pending
<1>7. CachedKnown'
  BY <1>1, <1>3, <1>6 DEF DmaInv, UnitInv, CachedKnown
<1>8. PoolCached'
  BY <1>1, <1>2, <1>3 DEF DmaInv, UnitInv, PoolCached
<1> QED
  BY <1>1, <1>4, <1>5, <1>7, <1>8, UnitAside DEF DmaInv, UnitInv

-----------------------------------------------------------------------------
(* What a step of a handler has to show. *)

(* Neither table moves, and no rollback is pending before or after. *)
LEMMA CpuAside ==
  ASSUME DmaInv, UNCHANGED <<regions, nextId, pool, dma, doms, l1>>,
         alive' \subseteq alive,
         \A p \in alive : \A s \in 1..Slots : p \in alive' \/ dma[p][s] = NoRecord,
         work' \in Seq(Steps), Shape(work'),
         \A x \in Range(work) : x.do # "undo",
         \A x \in Range(work') : x.do # "undo" /\ (x \in Range(work) \/ Owed(x)),
         \A r \in regions : FreeStep(r) \in Range(work) => FreeStep(r) \in Range(work')
  PROVE  TablesInv' /\ ReachInv' /\ WorkOK'
<1>1. /\ regions' = regions /\ nextId' = nextId /\ pool' = pool
      /\ dma' = dma /\ doms' = doms /\ l1' = l1
  OBVIOUS
<1>2. TablesInv'
  BY <1>1 DEF DmaInv, TablesInv, CpuTypeOK, RegionsApart, TablesAgree, ReachLive
<1>3. \A d, v : ~Doomed(d, v) /\ ~Doomed(d, v)'
  BY DEF Doomed, Undoing
<1>4. \A d, f : ~Suspect(d, f) /\ ~Suspect(d, f)'
  BY DEF Suspect, Undoing
<1>5. GrantsMapped'
  BY <1>1, <1>3, <1>4 DEF DmaInv, ReachInv, GrantsMapped
<1>6. Attributed'
  BY <1>1, <1>3 DEF DmaInv, ReachInv, Attributed, Reached, Recorded
<1>7. RecordsOwned'
  BY <1>1 DEF DmaInv, ReachInv, RecordsOwned
<1>8. \A x : Owed(x) => Owed(x)'
  BY <1>1 DEF Owed, Unreached
<1>9. WorkOK'
  BY <1>1, <1>8 DEF DmaInv, WorkOK
<1> QED
  BY <1>2, <1>5, <1>6, <1>7, <1>9 DEF ReachInv

(* The unit has nothing to do before or after the step, a leaf that goes   *)
(* is remembered or its domain has a flush ahead of it, and a frame joins  *)
(* the pool only when nothing leads to it.                                 *)
LEMMA UnitAfter ==
  ASSUME DmaInv, UNCHANGED <<cached, ring, store, unacked>>, panicked' \in BOOLEAN,
         undone \subseteq undone', ~Waiting(work), ~Waiting(work'),
         \A d \in Domains, v \in Iovas : l1[d][v] # 0 =>
           \/ l1'[d][v] = l1[d][v] \/ <<d, v, l1[d][v]>> \in undone'
           \/ FlushStep(d) \in Range(work'),
         \A d \in Domains : FlushStep(d) \in Range(work) => FlushStep(d) \in Range(work'),
         \A f \in pool' : \/ f \in pool
                          \/ f \in Frames /\ \A d \in Domains :
                               /\ FlushStep(d) \notin Range(work)
                               /\ \A v \in Iovas : l1[d][v] # f
  PROVE  UnitInv'
<1>1. cached' = cached /\ ring' = ring /\ store' = store /\ unacked' = unacked
  OBVIOUS
<1>2. UnitTypeOK'
  BY <1>1 DEF DmaInv, UnitInv, UnitTypeOK
<1>3. unacked = 0 => ring = << >>
  BY DEF DmaInv, UnitInv, RingOK
<1>4. RingOK'
  BY <1>1, <1>3 DEF RingOK
<1>5. \A d \in Domains : unacked = 0 /\ Pending(d) => FlushStep(d) \in Range(work)
  BY <1>3 DEF Pending
<1>6. \A d \in Domains : FlushStep(d) \in Range(work') => Pending(d)'
  BY DEF Pending
<1>7. 0 \notin Frames
  BY Sizes
<1>8. CachedKnown'
  <2> SUFFICES ASSUME unacked = 0, NEW d \in Domains, NEW v \in Iovas, NEW f \in Frames,
                      <<v, f>> \in cached[d]
               PROVE  l1'[d][v] = f \/ <<d, v, f>> \in undone' \/ Pending(d)'
    BY <1>1 DEF CachedKnown
  <2>1. l1[d][v] = f \/ <<d, v, f>> \in undone \/ Pending(d)
    BY DEF DmaInv, UnitInv, CachedKnown
  <2>2. CASE l1[d][v] = f
    BY <1>6, <1>7, <2>2
  <2> QED
    BY <1>5, <1>6, <2>1, <2>2
<1>9. PoolCached'
  <2> SUFFICES ASSUME unacked = 0, NEW d \in Domains, NEW v \in Iovas, NEW f \in pool',
                      <<v, f>> \in cached[d]
               PROVE  <<d, v, f>> \in undone'
    BY <1>1 DEF PoolCached
  <2>1. CASE f \in pool
    BY <2>1 DEF DmaInv, UnitInv, PoolCached
  <2>2. CASE f \notin pool
    <3>1. f \in Frames /\ l1[d][v] # f /\ FlushStep(d) \notin Range(work)
      BY <2>2
    <3>2. l1[d][v] = f \/ <<d, v, f>> \in undone \/ Pending(d)
      BY <3>1 DEF DmaInv, UnitInv, CachedKnown
    <3> QED
      BY <1>5, <3>1, <3>2
  <2> QED
    BY <2>1, <2>2
<1> QED
  BY <1>2, <1>4, <1>8, <1>9 DEF UnitInv

(* Between two calls nothing is owed. *)
LEMMA IdleIs ==
  ASSUME DmaInv, Idle
  PROVE  /\ work = << >> /\ work \in Seq(Steps) /\ Range(work) = {} /\ ~Waiting(work)
         /\ \A d, v : ~Doomed(d, v) /\ ~Suspect(d, v)
         /\ \A d \in Domains, r \in regions : Reached(d, r) <=> Recorded(d, r)
<1>1. work = << >> /\ Range(work) = {} /\ work \in Seq(Steps)
  BY RangeNone DEF Idle
<1>2. \A d, v : ~Doomed(d, v) /\ ~Suspect(d, v)
  BY <1>1 DEF Doomed, Suspect
<1> QED
  BY <1>1, <1>2 DEF Waiting, DmaInv, ReachInv, Attributed

LEMMA ShapeOne ==
  ASSUME NEW x \in Steps
  PROVE  /\ <<x>> \in Seq(Steps) /\ Range(<<x>>) = {x}
         /\ x.do # "await" => Shape(<<x>>) /\ ~Waiting(<<x>>)
<1>1. /\ <<x>> \in Seq(Steps) /\ Len(<<x>>) = 1 /\ <<x>>[1] = x
      /\ Head(<<x>>) = x /\ Range(<<x>>) = {x}
  BY RangeOne
<1>2. PICK w \in Seq(Steps) : w = <<x>>
  BY <1>1
<1>3. \A i \in 1..Len(w) : i = 1 /\ w[i] = x /\ Len(w) = 1
  BY <1>1, <1>2
<1>4. x.do # "await" => Shape(w)
  BY <1>3 DEF Shape
<1> QED
  BY <1>1, <1>2, <1>4 DEF Waiting

-----------------------------------------------------------------------------
(* The steps that only move the work along. *)

LEMMA DmaFreeRegion ==
  ASSUME DmaInv, NEW p \in Procs, NEW r \in regions, FreeRegion(p, r)
  PROVE  DmaInv'
<1>1. /\ Idle /\ work' = <<ReleaseStep(r)>> /\ UNCHANGED <<cpu, unit, unacked, undone, panicked>>
  BY DEF FreeRegion
<1>2. /\ regions \subseteq RegionRecords
      /\ ReleaseStep(r) \in Steps /\ ReleaseStep(r).do = "release" /\ ReleaseStep(r).region = r
  BY StepsAre DEF DmaInv, TablesInv, CpuTypeOK
<1>3. work' \in Seq(Steps) /\ Shape(work') /\ ~Waiting(work') /\ Range(work') = {ReleaseStep(r)}
  BY <1>1, <1>2, ShapeOne
<1>4. Range(work) = {} /\ ~Waiting(work)
  BY <1>1, IdleIs
<1>5. Owed(ReleaseStep(r))
  BY <1>2 DEF Owed, DmaInv, TablesInv, RegionsApart
<1>6. /\ UNCHANGED <<regions, nextId, pool, dma, doms, l1>> /\ alive' = alive
      /\ UNCHANGED <<cached, ring, store, unacked>> /\ undone' = undone /\ panicked' = panicked
  BY <1>1 DEF cpu, unit
<1>7. TablesInv' /\ ReachInv' /\ WorkOK'
  BY <1>2, <1>3, <1>4, <1>5, <1>6, CpuAside
<1>8. UnitInv'
  <2>1. panicked' \in BOOLEAN /\ pool' = pool /\ l1' = l1
    BY <1>6 DEF DmaInv, UnitInv, UnitTypeOK
  <2> QED
    BY <1>3, <1>4, <1>6, <2>1, UnitAfter
<1> QED
  BY <1>7, <1>8 DEF DmaInv

LEMMA DmaReap ==
  ASSUME DmaInv, Reap
  PROVE  DmaInv'
<1>1. /\ Doing("reap") /\ alive' = alive \ {Step.proc} /\ work' = Tail(work)
      /\ UNCHANGED <<regions, nextId, pool, dma, doms, l1>> /\ UNCHANGED <<cached, ring, store, unacked>>
      /\ undone' = undone /\ panicked' = panicked /\ l1' = l1 /\ pool' = pool
  BY DEF Reap, unit
<1>2. /\ Step \in Range(work) /\ Step.do = "reap"
      /\ Tail(work) \in Seq(Steps) /\ Shape(Tail(work)) /\ ~Waiting(Tail(work))
      /\ Range(work) = {Step} \cup Range(Tail(work))
      /\ \A x \in Range(work) : ~Flushing(x) /\ x.do # "undo" /\ Owed(x)
      /\ ~Waiting(work)
  BY <1>1, DoingIs DEF DmaInv
<1>3. \A s \in 1..Slots : dma[Step.proc][s] = NoRecord
  BY <1>2 DEF Owed
<1>4. \A r \in RegionRecords : FreeStep(r) # Step
  BY <1>2, StepsAre
<1>5. \A d \in Domains : FlushStep(d) # Step
  BY <1>2, StepsAre
<1>6. regions \subseteq RegionRecords /\ panicked \in BOOLEAN
  BY DEF DmaInv, TablesInv, CpuTypeOK, UnitInv, UnitTypeOK
<1>7. TablesInv' /\ ReachInv' /\ WorkOK'
  BY <1>1, <1>2, <1>3, <1>4, <1>6, CpuAside
<1>8. UnitInv'
  BY <1>1, <1>2, <1>5, <1>6, UnitAfter
<1> QED
  BY <1>7, <1>8 DEF DmaInv

LEMMA DmaInvalidate ==
  ASSUME DmaInv, Invalidate
  PROVE  DmaInv'
<1>1. /\ Doing("flush") /\ UNCHANGED <<regions, nextId, pool, dma, doms, l1>> /\ alive' = alive
      /\ unacked' = unacked /\ undone' = undone /\ l1' = l1 /\ pool' = pool
  BY DEF Invalidate, cpu
<1>2. /\ work \in Seq(Steps) /\ work # << >> /\ Shape(work) /\ Head(work) = Step
      /\ Step \in Steps /\ Step \in Range(work) /\ Step.do = "flush"
      /\ Range(work) = {Step} \cup Range(Tail(work))
      /\ \A x \in Range(work) : x.do # "undo" /\ Owed(x)
      /\ ~Waiting(work)
  BY <1>1, DoingIs DEF DmaInv, Step
<1>3. PICK e \in Domains : Step = FlushStep(e) /\ Step.domain = e
  BY <1>2, StepKinds
<1>4. CASE tail + 3 > RingCommands
  <2>1. panicked' = TRUE /\ UNCHANGED <<cached, ring, store, unacked>> /\ work' = work
    BY <1>1, <1>4 DEF Invalidate, unit
  <2>2. TablesInv' /\ ReachInv' /\ WorkOK'
    BY <1>1, <1>2, <2>1, CpuAside
  <2>3. UnitInv'
    BY <1>1, <1>2, <2>1, UnitAfter
  <2> QED
    BY <2>2, <2>3 DEF DmaInv
<1>5. CASE ~(tail + 3 > RingCommands)
  <2>1. /\ store' = FALSE /\ ring' = ring \o <<PagesCommand(e), WaitCommand>>
        /\ work' = <<AwaitStep(e)>> \o Tail(work) /\ cached' = cached /\ panicked' = panicked
    BY <1>3, <1>5 DEF Invalidate, PagesCommand, WaitCommand
  <2>2. /\ work' \in Seq(Steps) /\ Shape(work') /\ Waiting(work') /\ Head(work') = AwaitStep(e)
        /\ Range(work') = {AwaitStep(e)} \cup Range(Tail(work))
    BY <1>2, <2>1, ShapeAwait
  <2>3. AwaitStep(e) \in Steps /\ AwaitStep(e).do = "await" /\ AwaitStep(e).domain = e
    BY StepsAre
  <2>4. Owed(AwaitStep(e))
    BY <2>3 DEF Owed
  <2>5. \A r \in regions : FreeStep(r) # Step
    <3>1. \A r \in RegionRecords : FreeStep(r).do = "free"
      BY StepsAre
    <3> QED
      BY <1>2, <3>1 DEF DmaInv, TablesInv, CpuTypeOK
  <2>6. TablesInv' /\ ReachInv' /\ WorkOK'
    BY <1>1, <1>2, <2>2, <2>3, <2>4, <2>5, CpuAside
  <2>7. ring \in Seq(Commands) /\ ring' \in Seq(Commands)
    <3>1. ring \in Seq(Commands) /\ <<PagesCommand(e), WaitCommand>> \in Seq(Commands)
      BY CommandsAre DEF DmaInv, UnitInv, UnitTypeOK
    <3> QED
      BY <2>1, <3>1, ConcatProperties
  <2>8. UnitTypeOK'
    BY <1>1, <2>1, <2>7 DEF DmaInv, UnitInv, UnitTypeOK
  <2>9. ASSUME unacked = 0
        PROVE  ring = << >> /\ ring' = <<PagesCommand(e), WaitCommand>>
    <3>1. ring = << >>
      BY <1>2, <2>9 DEF DmaInv, UnitInv, RingOK
    <3> QED
      BY <2>1, <3>1
  <2>10. RingOK'
    BY <1>1, <2>1, <2>2, <2>3, <2>9 DEF RingOK
  <2>11. ASSUME unacked = 0, NEW d \in Domains, Pending(d) PROVE Pending(d)'
    <3>1. FlushStep(d) \in Range(work)
      BY <2>9, <2>11 DEF Pending
    <3>2. CASE FlushStep(d) = Step
      <4>1. d = e
        BY <1>3, <3>2 DEF FlushStep
      <4> QED
        BY <2>9, <2>11, <4>1 DEF Pending
    <3>3. CASE FlushStep(d) # Step
      BY <1>2, <2>2, <3>1, <3>3 DEF Pending
    <3> QED
      BY <3>2, <3>3
  <2>12. CachedKnown' /\ PoolCached'
    BY <1>1, <2>1, <2>11 DEF DmaInv, UnitInv, CachedKnown, PoolCached
  <2> QED
    BY <2>6, <2>8, <2>10, <2>12 DEF DmaInv, UnitInv
<1> QED
  BY <1>4, <1>5

(* The handler goes on: the head of the work was an `await`. *)
LEMMA DmaAwaited ==
  ASSUME DmaInv, Acknowledged \/ TimedOut
  PROVE  DmaInv'
<1>1. /\ Doing("await") /\ UNCHANGED <<regions, nextId, pool, dma, doms, l1>> /\ alive' = alive
      /\ undone' = undone /\ l1' = l1 /\ pool' = pool /\ work' = Tail(work)
      /\ cached' = cached /\ ring' = ring /\ store' = store /\ panicked' = panicked
  BY DEF Acknowledged, TimedOut, cpu, unit
<1>2. /\ Step \in Range(work) /\ Step.do = "await"
      /\ Tail(work) \in Seq(Steps) /\ Shape(Tail(work)) /\ ~Waiting(Tail(work))
      /\ Range(work) = {Step} \cup Range(Tail(work))
      /\ \A x \in Range(work) : x.do # "undo" /\ Owed(x)
      /\ Waiting(work)
  BY <1>1, DoingIs DEF DmaInv
<1>3. /\ \A r \in regions : FreeStep(r) # Step
      /\ \A d \in Domains : FlushStep(d) # Step
  <2>1. \A r \in RegionRecords : FreeStep(r).do = "free"
    BY StepsAre
  <2>2. \A d \in Domains : FlushStep(d).do = "flush"
    BY StepsAre
  <2> QED
    BY <1>2, <2>1, <2>2 DEF DmaInv, TablesInv, CpuTypeOK
<1>4. TablesInv' /\ ReachInv' /\ WorkOK'
  BY <1>1, <1>2, <1>3, CpuAside
<1>5. unacked \in Nat /\ unacked' \in Nat /\ (unacked' = 0 => unacked = 0 /\ store)
  BY DEF DmaInv, UnitInv, UnitTypeOK, Acknowledged, TimedOut
<1>6. UnitTypeOK'
  BY <1>1, <1>5 DEF DmaInv, UnitInv, UnitTypeOK
<1>7. unacked' = 0 => ring = << >>
  BY <1>2, <1>5 DEF DmaInv, UnitInv, RingOK
<1>8. RingOK'
  BY <1>1, <1>2, <1>7 DEF RingOK
<1>9. ASSUME unacked' = 0, NEW d \in Domains, Pending(d) PROVE Pending(d)'
  BY <1>1, <1>2, <1>3, <1>7, <1>9 DEF Pending
<1>10. CachedKnown' /\ PoolCached'
  BY <1>1, <1>5, <1>9 DEF DmaInv, UnitInv, CachedKnown, PoolCached
<1> QED
  BY <1>4, <1>6, <1>8, <1>10 DEF DmaInv, UnitInv

-----------------------------------------------------------------------------
(* Taking frames out of a domain: the leaves, then the model's account.    *)

LEMMA FramesOfIs ==
  ASSUME NEW r \in RegionRecords
  PROVE  /\ r.id \in Nat \ {0} /\ r.owner \in Procs /\ r.frames \in Seq(Frames)
         /\ FramesOf(r) \subseteq Frames /\ 0 \notin FramesOf(r)
<1>1. r.id \in Nat \ {0} /\ r.owner \in Procs /\ r.frames \in Seq(Frames)
  BY DEF RegionRecords
<1>2. Range(r.frames) \subseteq Frames
  BY <1>1, RangeIs
<1> QED
  BY <1>1, <1>2, Sizes DEF FramesOf

LEMMA ClearedIs ==
  ASSUME NEW tab \in [Iovas -> Frames \cup {0}], NEW F
  PROVE  /\ Cleared(tab, F) \in [Iovas -> Frames \cup {0}]
         /\ \A v \in Iovas : Cleared(tab, F)[v] = IF tab[v] \in F THEN 0 ELSE tab[v]
BY DEF Cleared, Leaves

LEMMA RevokeAllIs ==
  ASSUME NEW dom \in DomainRecords, NEW F
  PROVE  /\ RevokeAll(dom, F) \in DomainRecords
         /\ \A g : g \in RevokeAll(dom, F).grants <=> g \in dom.grants /\ g.frame \notin F
         /\ \A m : m \in RevokeAll(dom, F).maps <=> m \in dom.maps /\ m.frame \notin F
<1>1. dom.grants \subseteq Grants /\ dom.maps \subseteq Maps
  BY DEF DomainRecords
<1>2. \A g \in dom.grants : g.frame \in Frames
  BY <1>1 DEF Grants
<1> DEFINE gs == UNION {GrantsOf(dom, f) : f \in Frames \ F}
           ms == {m \in dom.maps : m.frame \notin F}
<1>3. \A g : g \in gs <=> g \in dom.grants /\ g.frame \notin F
  BY <1>2 DEF GrantsOf
<1>4. RevokeAll(dom, F) = [grants |-> gs, maps |-> ms]
  BY DEF RevokeAll
<1>5. gs \subseteq Grants /\ ms \subseteq Maps
  BY <1>1, <1>3
<1>6. \A m : m \in ms <=> m \in dom.maps /\ m.frame \notin F
  OBVIOUS
<1> HIDE DEF gs, ms
<1>7. RevokeAll(dom, F).grants = gs /\ RevokeAll(dom, F).maps = ms
  BY <1>4
<1>8. RevokeAll(dom, F) \in DomainRecords
  BY <1>4, <1>5 DEF DomainRecords
<1> QED
  BY <1>3, <1>6, <1>7, <1>8

(* The frames G[d] are taken out of each domain d, in both accounts. *)
LEMMA Clearing ==
  ASSUME DmaInv, NEW G,
         UNCHANGED <<alive, regions, nextId, pool>>,
         dma' \in [Procs -> [1..Slots -> DmaRecords]],
         l1' \in [Domains -> [Iovas -> Frames \cup {0}]],
         doms' \in [Domains -> DomainRecords],
         \A d \in Domains : /\ l1'[d] = Cleared(l1[d], G[d])
                            /\ doms'[d] = RevokeAll(doms[d], G[d]),
         \A x \in Range(work) : x.do # "undo",
         \A x \in Range(work') : x.do # "undo"
  PROVE  /\ TablesInv' /\ GrantsMapped'
         /\ \A r \in RegionRecords : Unreached(r) => Unreached(r)'
         /\ \A r \in RegionRecords : (\A d \in Domains : FramesOf(r) \subseteq G[d]) => Unreached(r)'
         /\ \A d \in Domains, r \in RegionRecords : Reached(d, r)' <=>
              \E v \in Iovas : l1[d][v] \in FramesOf(r) /\ l1[d][v] \notin G[d]
         /\ \A d \in Domains, r \in RegionRecords : Reached(d, r) <=> \E v \in Iovas : l1[d][v] \in FramesOf(r)
         /\ \A d \in Domains, v \in Iovas : l1[d][v] \in G[d] \/ l1'[d][v] = l1[d][v]
         /\ \A d \in Domains : Leaves(l1[d], G[d]) = {} =>
              \A v \in Iovas : l1[d][v] \notin G[d]
<1>1. /\ l1 \in [Domains -> [Iovas -> Frames \cup {0}]] /\ doms \in [Domains -> DomainRecords]
      /\ 0 \notin Frames
  BY Sizes DEF DmaInv, TablesInv, CpuTypeOK
<1>2. \A d \in Domains, v \in Iovas : l1'[d][v] = IF l1[d][v] \in G[d] THEN 0 ELSE l1[d][v]
  BY <1>1, ClearedIs
<1>3. \A d \in Domains : \A g : g \in doms'[d].grants <=> g \in doms[d].grants /\ g.frame \notin G[d]
  BY <1>1, RevokeAllIs
<1>4. \A d \in Domains : \A m : m \in doms'[d].maps <=> m \in doms[d].maps /\ m.frame \notin G[d]
  BY <1>1, RevokeAllIs
<1>5. \A d, v : ~Doomed(d, v) /\ ~Doomed(d, v)'
  BY DEF Doomed, Undoing
<1>6. \A d, f : ~Suspect(d, f) /\ ~Suspect(d, f)'
  BY DEF Suspect, Undoing
<1>7. alive' = alive /\ regions' = regions /\ nextId' = nextId /\ pool' = pool
  OBVIOUS
<1>8. CpuTypeOK' /\ RegionsApart'
  BY <1>7 DEF DmaInv, TablesInv, CpuTypeOK, RegionsApart
<1>9. TablesAgree'
  <2> SUFFICES ASSUME NEW d \in Domains, NEW v \in Iovas, NEW f \in Frames
               PROVE  l1'[d][v] = f <=> \E m \in doms'[d].maps : m.iova = v /\ m.frame = f
    BY DEF TablesAgree
  <2>1. l1[d][v] = f <=> \E m \in doms[d].maps : m.iova = v /\ m.frame = f
    BY DEF DmaInv, TablesInv, TablesAgree
  <2>2. l1'[d][v] = f <=> l1[d][v] = f /\ f \notin G[d]
    BY <1>1, <1>2
  <2> QED
    BY <1>4, <2>1, <2>2
<1>10. ReachLive'
  BY <1>2, <1>3, <1>7 DEF DmaInv, TablesInv, ReachLive
<1>11. GrantsMapped'
  <2> SUFFICES ASSUME NEW d \in Domains, NEW g \in doms'[d].grants
               PROVE  \E m \in doms'[d].maps : m.frame = g.frame
    BY <1>5 DEF GrantsMapped
  <2>1. g \in doms[d].grants /\ g.frame \notin G[d]
    BY <1>3
  <2>2. PICK m \in doms[d].maps : m.frame = g.frame
    BY <1>6, <2>1 DEF DmaInv, ReachInv, GrantsMapped
  <2> QED
    BY <1>4, <2>1, <2>2
<1>12. \A r \in RegionRecords : Unreached(r) => Unreached(r)'
  <2> SUFFICES ASSUME NEW r \in RegionRecords, Unreached(r), NEW d \in Domains
               PROVE  /\ \A v \in Iovas : l1'[d][v] \notin FramesOf(r)
                      /\ \A g \in doms'[d].grants : g.frame \notin FramesOf(r)
    BY DEF Unreached
  <2>1. \A g \in doms'[d].grants : g.frame \notin FramesOf(r)
    BY <1>3 DEF Unreached
  <2>2. ASSUME NEW v \in Iovas, l1'[d][v] \in FramesOf(r) PROVE FALSE
    BY <1>2, <2>2, FramesOfIs DEF Unreached
  <2> QED
    BY <2>1, <2>2
<1>13. ASSUME NEW r \in RegionRecords, \A d \in Domains : FramesOf(r) \subseteq G[d] PROVE Unreached(r)'
  <2> SUFFICES ASSUME NEW d \in Domains
               PROVE  /\ \A v \in Iovas : l1'[d][v] \notin FramesOf(r)
                      /\ \A g \in doms'[d].grants : g.frame \notin FramesOf(r)
    BY DEF Unreached
  <2> QED
    BY <1>2, <1>3, <1>13, FramesOfIs
<1>14. \A d \in Domains, r \in RegionRecords : Reached(d, r)' <=>
              \E v \in Iovas : l1[d][v] \in FramesOf(r) /\ l1[d][v] \notin G[d]
  BY <1>1, <1>2, <1>5, FramesOfIs DEF Reached
<1>15. \A d \in Domains, r \in RegionRecords : Reached(d, r) <=> \E v \in Iovas : l1[d][v] \in FramesOf(r)
  BY <1>5 DEF Reached
<1>16. \A d \in Domains : Leaves(l1[d], G[d]) = {} => \A v \in Iovas : l1[d][v] \notin G[d]
  BY DEF Leaves
<1> QED
  BY <1>2, <1>8, <1>9, <1>10, <1>11, <1>12, <1>13, <1>14, <1>15, <1>16 DEF TablesInv

LEMMA RecordsAre ==
  /\ NoRecord \in DmaRecords /\ NoRecord.region = 0
  /\ \A i \in Nat \ {0}, d \in Domains :
       /\ Record(i, d) \in DmaRecords /\ Record(i, d) # NoRecord /\ Record(i, d).region = i
  /\ \A i, j, d, e : Record(i, d) = Record(j, e) => i = j /\ d = e
<1>1. \A i, j, d, e : Record(i, d) = Record(j, e) => i = j /\ d = e
  <2> SUFFICES ASSUME NEW i, NEW j, NEW d, NEW e, Record(i, d) = Record(j, e)
               PROVE  i = j /\ d = e
    OBVIOUS
  <2>1. /\ Record(i, d).region = i /\ Record(i, d).domain = d
        /\ Record(j, e).region = j /\ Record(j, e).domain = e
    BY DEF Record
  <2> QED
    BY <2>1
<1>2. NoRecord.region = 0 /\ \A i, d : Record(i, d).region = i
  BY DEF NoRecord, Record
<1>3. NoRecord \in DmaRecords /\ \A i \in Nat \ {0}, d \in Domains : Record(i, d) \in DmaRecords
  BY DEF NoRecord, DmaRecords, Record
<1> QED
  BY <1>1, <1>2, <1>3

LEMMA DmaUnmapDma ==
  ASSUME DmaInv, NEW p \in Procs, NEW e \in Domains, NEW q \in regions, UnmapDma(p, e, q)
  PROVE  DmaInv'
<1>1. /\ Idle /\ q.owner = p /\ work' = <<FlushStep(e)>>
      /\ l1' = [l1 EXCEPT ![e] = Cleared(@, FramesOf(q))]
      /\ doms' = [doms EXCEPT ![e] = RevokeAll(@, FramesOf(q))]
      /\ UNCHANGED <<alive, regions, nextId, pool>>
      /\ UNCHANGED <<cached, ring, store, unacked>> /\ undone' = undone /\ panicked' = panicked
  BY DEF UnmapDma, unit
<1>2. dma' = [dma EXCEPT ![p] = [s \in 1..Slots |->
               IF @[s] = Record(q.id, e) THEN NoRecord ELSE @[s]]]
  BY DEF UnmapDma
<1>3. /\ regions \subseteq RegionRecords /\ dma \in [Procs -> [1..Slots -> DmaRecords]]
      /\ l1 \in [Domains -> [Iovas -> Frames \cup {0}]] /\ doms \in [Domains -> DomainRecords]
      /\ panicked \in BOOLEAN
  BY DEF DmaInv, TablesInv, CpuTypeOK, UnitInv, UnitTypeOK
<1>4. /\ dma' \in [Procs -> [1..Slots -> DmaRecords]]
      /\ \A a \in Procs, s \in 1..Slots :
           dma'[a][s] = IF a = p /\ dma[a][s] = Record(q.id, e) THEN NoRecord ELSE dma[a][s]
  <2> DEFINE row == [s \in 1..Slots |->
                       IF dma[p][s] = Record(q.id, e) THEN NoRecord ELSE dma[p][s]]
  <2>1. dma' = [dma EXCEPT ![p] = row]
    BY <1>2
  <2>2. dma[p] \in [1..Slots -> DmaRecords]
    BY <1>3
  <2>3. /\ row \in [1..Slots -> DmaRecords]
        /\ \A s \in 1..Slots :
             row[s] = IF dma[p][s] = Record(q.id, e) THEN NoRecord ELSE dma[p][s]
    BY <2>2, RecordsAre
  <2> HIDE DEF row
  <2>4. /\ dma' \in [Procs -> [1..Slots -> DmaRecords]] /\ dma'[p] = row
        /\ \A a \in Procs : a # p => dma'[a] = dma[a]
    BY <1>3, <2>1, <2>3
  <2> QED
    BY <2>3, <2>4
<1>5. PICK G \in [Domains -> SUBSET Frames] :
         \A d \in Domains : G[d] = IF d = e THEN FramesOf(q) ELSE {}
  <2>1. FramesOf(q) \subseteq Frames
    BY <1>3, FramesOfIs
  <2>2. [d \in Domains |-> IF d = e THEN FramesOf(q) ELSE {}] \in [Domains -> SUBSET Frames]
    BY <2>1
  <2> QED
    BY <2>2
<1>6. /\ l1' \in [Domains -> [Iovas -> Frames \cup {0}]] /\ l1'[e] = Cleared(l1[e], FramesOf(q))
      /\ \A d \in Domains : d # e => l1'[d] = l1[d]
  BY <1>1, <1>3, ClearedIs
<1>7. /\ doms' \in [Domains -> DomainRecords] /\ doms'[e] = RevokeAll(doms[e], FramesOf(q))
      /\ \A d \in Domains : d # e => doms'[d] = doms[d]
  BY <1>1, <1>3, RevokeAllIs
<1>8. ASSUME NEW d \in Domains, d # e
      PROVE  Cleared(l1[d], {}) = l1[d] /\ RevokeAll(doms[d], {}) = doms[d]
  <2>1. l1[d] \in [Iovas -> Frames \cup {0}] /\ doms[d] \in DomainRecords
    BY <1>3
  <2>2. Cleared(l1[d], {}) = l1[d]
    BY <2>1, ClearedIs
  <2>3. /\ RevokeAll(doms[d], {}).grants = doms[d].grants
        /\ RevokeAll(doms[d], {}).maps = doms[d].maps
        /\ RevokeAll(doms[d], {}) \in DomainRecords
    <3>1. /\ RevokeAll(doms[d], {}) \in DomainRecords
          /\ \A g : g \in RevokeAll(doms[d], {}).grants <=> g \in doms[d].grants
          /\ \A m : m \in RevokeAll(doms[d], {}).maps <=> m \in doms[d].maps
      BY <2>1, RevokeAllIs
    <3>2. /\ RevokeAll(doms[d], {}).grants \subseteq Grants
          /\ RevokeAll(doms[d], {}).maps \subseteq Maps
          /\ doms[d].grants \subseteq Grants /\ doms[d].maps \subseteq Maps
      BY <2>1, <3>1 DEF DomainRecords
    <3>3. RevokeAll(doms[d], {}).grants = doms[d].grants
      BY <3>1, <3>2
    <3>4. RevokeAll(doms[d], {}).maps = doms[d].maps
      BY <3>1, <3>2
    <3> QED
      BY <3>1, <3>3, <3>4
  <2>4. RevokeAll(doms[d], {}) = doms[d]
    BY <2>1, <2>3 DEF DomainRecords
  <2> QED
    BY <2>2, <2>4
<1>9. \A d \in Domains : l1'[d] = Cleared(l1[d], G[d]) /\ doms'[d] = RevokeAll(doms[d], G[d])
  BY <1>5, <1>6, <1>7, <1>8
<1>10. /\ FlushStep(e) \in Steps /\ FlushStep(e).do = "flush"
       /\ work' \in Seq(Steps) /\ Shape(work') /\ ~Waiting(work') /\ Range(work') = {FlushStep(e)}
  <2>1. FlushStep(e) \in Steps /\ FlushStep(e).do = "flush"
    BY StepsAre
  <2> QED
    BY <1>1, <2>1, ShapeOne
<1>11. /\ Range(work) = {} /\ ~Waiting(work)
       /\ \A d \in Domains, r \in regions : Reached(d, r) <=> Recorded(d, r)
  BY <1>1, IdleIs
<1>12. /\ TablesInv' /\ GrantsMapped'
       /\ \A d \in Domains, r \in RegionRecords : Reached(d, r)' <=>
            \E v \in Iovas : l1[d][v] \in FramesOf(r) /\ l1[d][v] \notin G[d]
       /\ \A d \in Domains, r \in RegionRecords :
            Reached(d, r) <=> \E v \in Iovas : l1[d][v] \in FramesOf(r)
       /\ \A d \in Domains, v \in Iovas : l1[d][v] \in G[d] \/ l1'[d][v] = l1[d][v]
  BY <1>1, <1>4, <1>6, <1>7, <1>9, <1>10, <1>11, Clearing
<1>13. Attributed'
  <2> SUFFICES ASSUME NEW d \in Domains, NEW r \in regions
               PROVE  Reached(d, r)' <=> Recorded(d, r)'
    BY <1>1 DEF Attributed
  <2>1. r \in RegionRecords /\ q \in RegionRecords /\ r.owner \in Procs
    BY <1>3, FramesOfIs
  <2>2. CASE d # e
    <3>1. Reached(d, r)' <=> Reached(d, r)
      BY <1>5, <1>12, <2>1, <2>2
    <3>2. Record(r.id, d) # Record(q.id, e) /\ Record(r.id, d) # NoRecord
      BY <2>1, <2>2, RecordsAre, FramesOfIs
    <3>3. Recorded(d, r)' <=> Recorded(d, r)
      BY <1>4, <2>1, <3>2 DEF Recorded
    <3> QED
      BY <1>11, <3>1, <3>3
  <2>3. CASE d = e /\ r = q
    <3>1. ~Reached(d, r)'
      BY <1>5, <1>12, <2>1, <2>3
    <3>2. ~Recorded(d, r)'
      <4>1. Record(r.id, d) # NoRecord
        BY <2>1, RecordsAre, FramesOfIs
      <4> QED
        BY <1>1, <1>4, <2>1, <2>3, <4>1 DEF Recorded
    <3> QED
      BY <3>1, <3>2
  <2>4. CASE d = e /\ r # q
    <3>1. Apart(r, q)
      BY <2>4 DEF DmaInv, TablesInv, RegionsApart
    <3>2. Reached(d, r)' <=> Reached(d, r)
      BY <1>5, <1>12, <2>1, <2>4, <3>1 DEF Apart
    <3>3. Record(r.id, d) # Record(q.id, e) /\ Record(r.id, d) # NoRecord
      BY <2>1, <3>1, RecordsAre, FramesOfIs DEF Apart
    <3>4. Recorded(d, r)' <=> Recorded(d, r)
      BY <1>4, <2>1, <3>3 DEF Recorded
    <3> QED
      BY <1>11, <3>2, <3>4
  <2> QED
    BY <2>2, <2>3, <2>4
<1>14. RecordsOwned'
  BY <1>1, <1>4 DEF DmaInv, ReachInv, RecordsOwned
<1>15. WorkOK'
  BY <1>10 DEF WorkOK, Owed
<1>16. UnitInv'
  <2>1. pool' = pool
    BY <1>1
  <2>2. \A d \in Domains, v \in Iovas :
          l1'[d][v] = l1[d][v] \/ FlushStep(d) \in Range(work')
    BY <1>5, <1>10, <1>12
  <2> QED
    BY <1>1, <1>3, <1>10, <1>11, <2>1, <2>2, UnitAfter
<1> QED
  BY <1>12, <1>13, <1>14, <1>15, <1>16 DEF DmaInv, ReachInv

(* Perhaps a flush of every domain, then the steps of two parts. *)
LEMMA FlushThen ==
  ASSUME NEW flush, flush = FlushAll \/ flush = << >>,
         NEW a \in Seq(Steps), NEW b \in Seq(Steps),
         \A x \in Range(a) \cup Range(b) : ~Flushing(x) /\ x.do # "undo"
  PROVE  /\ flush \o a \o b \in Seq(Steps) /\ Shape(flush \o a \o b)
         /\ ~Waiting(flush \o a \o b)
         /\ Range(flush \o a \o b) = Range(flush) \cup Range(a) \cup Range(b)
         /\ flush = FlushAll => Range(flush) = {FlushStep(d) : d \in Domains}
         /\ flush = << >> => Range(flush) = {}
<1>1. flush \in Seq(Steps) /\ \A x \in Range(flush) : x.do = "flush"
  <2>1. CASE flush = << >>
    BY <2>1, RangeNone
  <2>2. CASE flush = FlushAll
    <3>1. flush \in Seq(Steps) /\ Range(flush) = {FlushStep(d) : d \in Domains}
      BY <2>2, FlushAllIs
    <3> QED
      BY <3>1, StepsAre
  <2> QED
    BY <2>1, <2>2
<1>2. PICK c : c = a \o b
  OBVIOUS
<1>3. c \in Seq(Steps) /\ Range(c) = Range(a) \cup Range(b)
  BY <1>2, RangeConcat
<1>4. flush \o a \o b = flush \o c
  BY <1>1, <1>2, ConcatAssociative
<1>5. /\ flush \o c \in Seq(Steps) /\ Shape(flush \o c) /\ ~Waiting(flush \o c)
      /\ Range(flush \o c) = Range(flush) \cup Range(c)
  BY <1>1, <1>3, ShapePlan
<1>6. /\ flush = FlushAll => Range(flush) = {FlushStep(d) : d \in Domains}
      /\ flush = << >> => Range(flush) = {}
  BY FlushAllIs, RangeNone
<1> QED
  BY <1>3, <1>4, <1>5, <1>6

LEMMA DmaRelease ==
  ASSUME DmaInv, Release
  PROVE  DmaInv'
<1>1. /\ Doing("release")
      /\ l1' = [d \in Domains |-> Cleared(l1[d], FramesOf(Step.region))]
      /\ doms' = [d \in Domains |-> RevokeAll(doms[d], FramesOf(Step.region))]
      /\ UNCHANGED <<alive, regions, nextId, pool>> /\ dma' = dma
      /\ UNCHANGED <<cached, ring, store, unacked>> /\ undone' = undone /\ panicked' = panicked
  BY DEF Release, unit
<1>2. work' = (IF \E d \in Domains : Leaves(l1[d], FramesOf(Step.region)) # {}
               THEN FlushAll ELSE << >>) \o <<FreeStep(Step.region)>> \o Tail(work)
  BY DEF Release
<1>3. /\ Step \in Steps /\ Step \in Range(work) /\ Step.do = "release"
      /\ Tail(work) \in Seq(Steps)
      /\ Range(work) = {Step} \cup Range(Tail(work))
      /\ \A x \in Range(work) : ~Flushing(x) /\ x.do # "undo" /\ Owed(x)
      /\ ~Waiting(work)
  BY <1>1, DoingIs DEF DmaInv
<1>4. PICK q \in RegionRecords : q = Step.region
  BY <1>3, StepKinds
<1>5. /\ regions \subseteq RegionRecords /\ dma \in [Procs -> [1..Slots -> DmaRecords]]
      /\ l1 \in [Domains -> [Iovas -> Frames \cup {0}]] /\ doms \in [Domains -> DomainRecords]
      /\ panicked \in BOOLEAN
  BY DEF DmaInv, TablesInv, CpuTypeOK, UnitInv, UnitTypeOK
<1>6. FreeStep(q) \in Steps /\ FreeStep(q).do = "free" /\ FreeStep(q).region = q
  BY StepsAre
<1>7. PICK flush : /\ flush = FlushAll \/ flush = << >>
                   /\ flush = << >> => \A d \in Domains : Leaves(l1[d], FramesOf(q)) = {}
                   /\ work' = flush \o <<FreeStep(q)>> \o Tail(work)
  <2>1. PICK flush : /\ work' = flush \o <<FreeStep(q)>> \o Tail(work)
                     /\ flush = IF \E d \in Domains : Leaves(l1[d], FramesOf(q)) # {}
                                THEN FlushAll ELSE << >>
    BY <1>2, <1>4
  <2>2. CASE \E d \in Domains : Leaves(l1[d], FramesOf(q)) # {}
    <3>1. flush = FlushAll /\ FlushAll # << >>
      <4>1. FlushAll \in Seq(Steps) /\ Range(FlushAll) # {}
        BY <2>2, FlushAllIs
      <4> QED
        BY <2>1, <2>2, <4>1, RangeIs
    <3> QED
      BY <2>1, <3>1
  <2>3. CASE ~\E d \in Domains : Leaves(l1[d], FramesOf(q)) # {}
    BY <2>1, <2>3
  <2> QED
    BY <2>2, <2>3
<1>8. /\ work' \in Seq(Steps) /\ Shape(work') /\ ~Waiting(work')
      /\ Range(work') = Range(flush) \cup {FreeStep(q)} \cup Range(Tail(work))
      /\ flush = FlushAll => Range(flush) = {FlushStep(d) : d \in Domains}
      /\ flush = << >> => Range(flush) = {}
  <2>1. /\ <<FreeStep(q)>> \in Seq(Steps) /\ Range(<<FreeStep(q)>>) = {FreeStep(q)}
        /\ ~Flushing(FreeStep(q)) /\ FreeStep(q).do # "undo"
    BY <1>6, ShapeOne DEF Flushing
  <2>2. PICK a \in Seq(Steps), b \in Seq(Steps) : a = <<FreeStep(q)>> /\ b = Tail(work)
    BY <1>3, <2>1
  <2>3. \A x \in Range(a) \cup Range(b) : ~Flushing(x) /\ x.do # "undo"
    BY <1>3, <2>1, <2>2
  <2>4. work' = flush \o a \o b
    BY <1>7, <2>2
  <2>5. /\ work' \in Seq(Steps) /\ Shape(work') /\ ~Waiting(work')
        /\ Range(work') = Range(flush) \cup Range(a) \cup Range(b)
        /\ flush = FlushAll => Range(flush) = {FlushStep(d) : d \in Domains}
        /\ flush = << >> => Range(flush) = {}
    <3>1. flush = FlushAll \/ flush = << >>
      BY <1>7
    <3>2. /\ flush \o a \o b \in Seq(Steps) /\ Shape(flush \o a \o b)
          /\ ~Waiting(flush \o a \o b)
          /\ Range(flush \o a \o b) = Range(flush) \cup Range(a) \cup Range(b)
      BY <2>3, <3>1, FlushThen
    <3>3. /\ flush = FlushAll => Range(flush) = {FlushStep(d) : d \in Domains}
          /\ flush = << >> => Range(flush) = {}
      BY FlushAllIs, RangeNone
    <3> QED
      BY <2>4, <3>2, <3>3
  <2> QED
    BY <2>1, <2>2, <2>5
<1>9. \A x \in Range(flush) : x.do = "flush"
  BY <1>7, <1>8, StepsAre
<1>10. PICK G \in [Domains -> SUBSET Frames] : \A d \in Domains : G[d] = FramesOf(q)
  <2>1. FramesOf(q) \subseteq Frames
    BY FramesOfIs
  <2>2. [d \in Domains |-> FramesOf(q)] \in [Domains -> SUBSET Frames]
    BY <2>1
  <2> QED
    BY <2>2
<1>11. /\ l1' \in [Domains -> [Iovas -> Frames \cup {0}]]
       /\ \A d \in Domains : l1'[d] = Cleared(l1[d], G[d])
  BY <1>1, <1>4, <1>5, <1>10, ClearedIs
<1>12. /\ doms' \in [Domains -> DomainRecords]
       /\ \A d \in Domains : doms'[d] = RevokeAll(doms[d], G[d])
  BY <1>1, <1>4, <1>5, <1>10, RevokeAllIs
<1>13. /\ \A x \in Range(work) : x.do # "undo"
       /\ \A x \in Range(work') : x.do # "undo"
  BY <1>3, <1>6, <1>8, <1>9
<1>14. /\ TablesInv' /\ GrantsMapped'
       /\ \A r \in RegionRecords : Unreached(r) => Unreached(r)'
       /\ Unreached(q)'
       /\ \A d \in Domains, r \in RegionRecords : Reached(d, r)' <=>
            \E v \in Iovas : l1[d][v] \in FramesOf(r) /\ l1[d][v] \notin G[d]
       /\ \A d \in Domains, r \in RegionRecords :
            Reached(d, r) <=> \E v \in Iovas : l1[d][v] \in FramesOf(r)
       /\ \A d \in Domains, v \in Iovas : l1[d][v] \in G[d] \/ l1'[d][v] = l1[d][v]
       /\ \A d \in Domains : Leaves(l1[d], G[d]) = {} => \A v \in Iovas : l1[d][v] \notin G[d]
  <2>1. dma' \in [Procs -> [1..Slots -> DmaRecords]] /\ \A d \in Domains : FramesOf(q) \subseteq G[d]
    BY <1>1, <1>5, <1>10
  <2>2. UNCHANGED <<alive, regions, nextId, pool>>
    BY <1>1
  <2> QED
    BY <1>11, <1>12, <1>13, <2>1, <2>2, Clearing
<1>15. \A s \in regions : s # q => Apart(q, s)
  BY <1>3, <1>4 DEF Owed
<1>16. Attributed'
  <2> SUFFICES ASSUME NEW d \in Domains, NEW r \in regions, FreeStep(r) \notin Range(work')
               PROVE  Reached(d, r)' <=> Recorded(d, r)'
    BY <1>1 DEF Attributed
  <2>1. r \in RegionRecords /\ r # q /\ FreeStep(r).do = "free"
    BY <1>5, <1>8, StepsAre
  <2>2. FreeStep(r) \notin Range(work)
    BY <1>3, <1>8, <2>1
  <2>3. Reached(d, r) <=> Recorded(d, r)
    BY <2>2 DEF DmaInv, ReachInv, Attributed
  <2>4. Recorded(d, r)' <=> Recorded(d, r)
    BY <1>1 DEF Recorded
  <2>5. Reached(d, r)' <=> Reached(d, r)
    BY <1>10, <1>14, <1>15, <2>1 DEF Apart
  <2> QED
    BY <2>3, <2>4, <2>5
<1>17. RecordsOwned'
  BY <1>1 DEF DmaInv, ReachInv, RecordsOwned
<1>18. WorkOK'
  <2>1. ASSUME NEW x \in Range(Tail(work)) PROVE Owed(x)'
    <3>1. x \in Steps /\ Owed(x)
      BY <1>3, RangeIs
    <3>2. x.do = "free" => Unreached(x.region)'
      BY <1>14, <3>1, StepKinds DEF Owed
    <3> QED
      BY <1>1, <3>1, <3>2 DEF Owed
  <2>2. Owed(FreeStep(q))'
    BY <1>1, <1>6, <1>14, <1>15 DEF Owed
  <2>3. \A x \in Range(flush) : Owed(x)'
    BY <1>9 DEF Owed
  <2> QED
    BY <1>8, <2>1, <2>2, <2>3 DEF WorkOK
<1>19. UnitInv'
  <2>1. pool' = pool
    BY <1>1
  <2>2. \A d \in Domains, v \in Iovas :
          l1'[d][v] = l1[d][v] \/ FlushStep(d) \in Range(work')
    BY <1>7, <1>8, <1>10, <1>14
  <2>3. \A d \in Domains : FlushStep(d) \notin Range(work)
    BY <1>3, StepsAre DEF Flushing
  <2> QED
    BY <1>1, <1>3, <1>5, <1>8, <2>1, <2>2, <2>3, UnitAfter
<1> QED
  BY <1>14, <1>16, <1>17, <1>18, <1>19 DEF DmaInv, ReachInv

LEMMA DmaFreeFrames ==
  ASSUME DmaInv, FreeFrames
  PROVE  DmaInv'
<1>1. /\ Doing("free") /\ pool' = pool \cup FramesOf(Step.region)
      /\ regions' = regions \ {Step.region} /\ work' = Tail(work)
      /\ alive' = alive /\ nextId' = nextId /\ doms' = doms /\ l1' = l1
      /\ UNCHANGED <<cached, ring, store, unacked>> /\ undone' = undone /\ panicked' = panicked
  BY DEF FreeFrames, unit
<1>2. dma' = [p \in Procs |-> IF p \notin alive THEN dma[p]
               ELSE [s \in 1..Slots |->
                       IF dma[p][s].region = Step.region.id THEN NoRecord
                                                            ELSE dma[p][s]]]
  BY DEF FreeFrames
<1>3. /\ Step \in Steps /\ Step \in Range(work) /\ Step.do = "free"
      /\ Tail(work) \in Seq(Steps) /\ Shape(Tail(work)) /\ ~Waiting(Tail(work))
      /\ Range(work) = {Step} \cup Range(Tail(work))
      /\ \A x \in Range(work) : ~Flushing(x) /\ x.do # "undo" /\ Owed(x)
      /\ ~Waiting(work)
  BY <1>1, DoingIs DEF DmaInv
<1>4. PICK q \in RegionRecords : q = Step.region /\ Step = FreeStep(q)
  BY <1>3, StepKinds
<1>5. /\ regions \subseteq RegionRecords /\ dma \in [Procs -> [1..Slots -> DmaRecords]]
      /\ l1 \in [Domains -> [Iovas -> Frames \cup {0}]] /\ doms \in [Domains -> DomainRecords]
      /\ panicked \in BOOLEAN /\ IsFiniteSet(regions) /\ pool \subseteq Frames
  BY DEF DmaInv, TablesInv, CpuTypeOK, UnitInv, UnitTypeOK
<1>6. /\ Unreached(q) /\ \A s \in regions : s # q => Apart(q, s)
  BY <1>3, <1>4 DEF Owed
<1>7. /\ q.id \in Nat \ {0} /\ FramesOf(q) \subseteq Frames /\ 0 \notin FramesOf(q)
  BY FramesOfIs
<1>8. \A p \in Procs, s \in 1..Slots : dma[p][s] # NoRecord =>
         p \in alive /\ \E r \in regions : r.id = dma[p][s].region /\ r.owner = p
  BY DEF DmaInv, ReachInv, RecordsOwned
<1>9. /\ dma' \in [Procs -> [1..Slots -> DmaRecords]]
      /\ \A p \in Procs, s \in 1..Slots :
           dma'[p][s] = IF p \in alive /\ dma[p][s].region = q.id THEN NoRecord ELSE dma[p][s]
  <2> DEFINE row(p) == [s \in 1..Slots |->
                          IF dma[p][s].region = q.id THEN NoRecord ELSE dma[p][s]]
  <2>1. dma' = [p \in Procs |-> IF p \notin alive THEN dma[p] ELSE row(p)]
    BY <1>2, <1>4
  <2>2. ASSUME NEW p \in Procs
        PROVE  /\ row(p) \in [1..Slots -> DmaRecords]
               /\ \A s \in 1..Slots :
                    row(p)[s] = IF dma[p][s].region = q.id THEN NoRecord ELSE dma[p][s]
    BY <1>5, RecordsAre
  <2> HIDE DEF row
  <2>3. /\ dma' \in [Procs -> [1..Slots -> DmaRecords]]
        /\ \A p \in Procs : dma'[p] = IF p \notin alive THEN dma[p] ELSE row(p)
    BY <1>5, <2>1, <2>2
  <2> QED
    BY <2>2, <2>3
<1>10. \A d, v : ~Doomed(d, v) /\ ~Doomed(d, v)' /\ ~Suspect(d, v) /\ ~Suspect(d, v)'
  BY <1>1, <1>3 DEF Doomed, Suspect, Undoing
<1>11. CpuTypeOK'
  <2>1. IsFiniteSet(regions')
    BY <1>1, <1>5, FS_Difference
  <2> QED
    BY <1>1, <1>4, <1>5, <1>7, <1>9, <2>1 DEF DmaInv, TablesInv, CpuTypeOK
<1>12. RegionsApart'
  BY <1>1, <1>4, <1>6 DEF DmaInv, TablesInv, RegionsApart, Apart
<1>13. TablesAgree'
  BY <1>1 DEF DmaInv, TablesInv, TablesAgree
<1>14. ReachLive'
  BY <1>1, <1>4, <1>6 DEF DmaInv, TablesInv, ReachLive, Unreached
<1>15. GrantsMapped'
  BY <1>1, <1>10 DEF DmaInv, ReachInv, GrantsMapped
<1>16. Attributed'
  <2> SUFFICES ASSUME NEW d \in Domains, NEW r \in regions, r # q,
                      FreeStep(r) \notin Range(work')
               PROVE  Reached(d, r)' <=> Recorded(d, r)'
    BY <1>1, <1>4 DEF Attributed
  <2>1. r \in RegionRecords /\ r.owner \in Procs /\ r.id \in Nat \ {0} /\ FreeStep(r).region = r
    BY <1>5, StepsAre, FramesOfIs
  <2>2. FreeStep(q).region = q
    BY StepsAre
  <2>3. FreeStep(r) \notin Range(work)
    BY <1>1, <1>3, <1>4, <2>1, <2>2
  <2>4. Reached(d, r) <=> Recorded(d, r)
    BY <2>3 DEF DmaInv, ReachInv, Attributed
  <2>5. Reached(d, r)' <=> Reached(d, r)
    BY <1>1, <1>10 DEF Reached
  <2>6. Record(r.id, d).region # q.id /\ Record(r.id, d) # NoRecord
    BY <1>6, <2>1, RecordsAre DEF Apart
  <2>7. Recorded(d, r)' <=> Recorded(d, r)
    BY <1>9, <2>1, <2>6 DEF Recorded
  <2> QED
    BY <2>4, <2>5, <2>7
<1>17. RecordsOwned'
  <2> SUFFICES ASSUME NEW p \in Procs, NEW s \in 1..Slots, dma'[p][s] # NoRecord
               PROVE  p \in alive /\ \E r \in regions' : r.id = dma'[p][s].region /\ r.owner = p
    BY <1>1 DEF RecordsOwned
  <2>1. dma'[p][s] = dma[p][s] /\ p \in alive /\ dma[p][s].region # q.id
    BY <1>8, <1>9
  <2>2. PICK r \in regions : r.id = dma[p][s].region /\ r.owner = p
    BY <1>8, <2>1
  <2> QED
    BY <1>1, <1>4, <2>1, <2>2
<1>18. WorkOK'
  <2>1. ASSUME NEW x \in Range(Tail(work)) PROVE Owed(x)'
    <3>1. x \in Steps /\ Owed(x)
      BY <1>3, RangeIs
    <3>2. x.do = "free" => Unreached(x.region)'
      BY <1>1, <3>1 DEF Owed, Unreached
    <3>3. x.do = "reap" => \A s \in 1..Slots : dma'[x.proc][s] = NoRecord
      BY <1>9, <3>1, StepKinds DEF Owed
    <3> QED
      BY <1>1, <3>1, <3>2, <3>3 DEF Owed
  <2> QED
    BY <1>1, <1>3, <2>1 DEF WorkOK
<1>19. UnitInv'
  <2>1. \A f \in FramesOf(q) : f \in Frames /\ \A d \in Domains, v \in Iovas : l1[d][v] # f
    BY <1>6, <1>7 DEF Unreached
  <2>2. \A d \in Domains : FlushStep(d) \notin Range(work)
    BY <1>3, StepsAre DEF Flushing
  <2> QED
    BY <1>1, <1>3, <1>4, <1>5, <2>1, <2>2, UnitAfter
<1> QED
  BY <1>11, <1>12, <1>13, <1>14, <1>15, <1>16, <1>17, <1>18, <1>19 DEF DmaInv, TablesInv, ReachInv

-----------------------------------------------------------------------------
(* The death of a process. *)

LEMMA SequencedIs ==
  ASSUME NEW S, IsFiniteSet(S), S \subseteq Steps
  PROVE  SetToSeq(S) \in Seq(Steps) /\ Range(SetToSeq(S)) \subseteq S
<1>1. Cardinality(S) \in Nat /\ Bijection(1..Cardinality(S), S) # {}
  BY FS_CardinalityType DEF ExistsBijection
<1>2. \E f \in [1..Cardinality(S) -> S] : IsInjective(f)
  BY <1>1 DEF Bijection, Injection
<1>3. SetToSeq(S) \in [1..Cardinality(S) -> S]
  BY <1>2 DEF SetToSeq
<1>4. SetToSeq(S) \in Seq(S) /\ Range(SetToSeq(S)) \subseteq S
  <2>1. SetToSeq(S) \in Seq(S)
    BY <1>1, <1>3
  <2> QED
    BY <2>1, RangeIs
<1>5. SetToSeq(S) \in [1..Cardinality(S) -> Steps]
  BY <1>3
<1> QED
  BY <1>1, <1>4, <1>5

(* A record a process has is of a region it owns. *)
LEMMA MappedIs ==
  ASSUME DmaInv, NEW p \in Procs, NEW d \in Domains
  PROVE  /\ Mapped(p, d) \subseteq Frames
         /\ \A r \in regions : r.owner = p /\ Recorded(d, r) => FramesOf(r) \subseteq Mapped(p, d)
         /\ \A r \in regions : r.owner # p => FramesOf(r) \cap Mapped(p, d) = {}
<1>1. /\ regions \subseteq RegionRecords /\ dma \in [Procs -> [1..Slots -> DmaRecords]]
      /\ \A r, s \in regions : r # s => Apart(r, s)
  BY DEF DmaInv, TablesInv, CpuTypeOK, RegionsApart
<1>2. \A f : f \in Mapped(p, d) <=>
        \E r \in regions : f \in FramesOf(r) /\ \E s \in 1..Slots : dma[p][s] = Record(r.id, d)
  BY DEF Mapped
<1>3. Mapped(p, d) \subseteq Frames
  BY <1>1, <1>2, FramesOfIs
<1>4. \A r \in regions : r.owner = p /\ Recorded(d, r) => FramesOf(r) \subseteq Mapped(p, d)
  BY <1>2 DEF Recorded
<1>5. ASSUME NEW r \in regions, NEW s \in 1..Slots, dma[p][s] = Record(r.id, d)
      PROVE  r.owner = p
  <2>1. r.id \in Nat \ {0} /\ Record(r.id, d) # NoRecord /\ Record(r.id, d).region = r.id
    BY <1>1, FramesOfIs, RecordsAre
  <2>2. PICK q \in regions : q.id = r.id /\ q.owner = p
    BY <1>5, <2>1 DEF DmaInv, ReachInv, RecordsOwned
  <2> QED
    BY <1>1, <2>2 DEF Apart
<1>6. ASSUME NEW r \in regions, r.owner # p, NEW f \in FramesOf(r), f \in Mapped(p, d)
      PROVE  FALSE
  <2>1. PICK q \in regions : f \in FramesOf(q) /\ q.owner = p
    BY <1>2, <1>5, <1>6
  <2> QED
    BY <1>1, <1>6, <2>1 DEF Apart
<1> QED
  BY <1>3, <1>4, <1>6

LEMMA DmaTeardown ==
  ASSUME DmaInv, NEW p \in Procs, Teardown(p)
  PROVE  DmaInv'
<1>1. /\ Idle
      /\ l1' = [d \in Domains |-> Cleared(l1[d], Mapped(p, d))]
      /\ doms' = [d \in Domains |-> RevokeAll(doms[d], Mapped(p, d))]
      /\ UNCHANGED <<alive, regions, nextId, pool>>
      /\ dma' = [dma EXCEPT ![p] = [s \in 1..Slots |-> NoRecord]]
      /\ UNCHANGED <<cached, ring, store, unacked>> /\ undone' = undone /\ panicked' = panicked
  BY DEF Teardown, unit
<1>2. work' = (IF \E d \in Domains : Leaves(l1[d], Mapped(p, d)) # {} THEN FlushAll ELSE << >>)
              \o SetToSeq({ReleaseStep(r) : r \in {r \in regions : r.owner = p}})
              \o <<ReapStep(p)>>
  BY DEF Teardown
<1>3. /\ regions \subseteq RegionRecords /\ dma \in [Procs -> [1..Slots -> DmaRecords]]
      /\ l1 \in [Domains -> [Iovas -> Frames \cup {0}]] /\ doms \in [Domains -> DomainRecords]
      /\ panicked \in BOOLEAN /\ IsFiniteSet(regions)
  BY DEF DmaInv, TablesInv, CpuTypeOK, UnitInv, UnitTypeOK
<1>4. PICK G \in [Domains -> SUBSET Frames] : \A d \in Domains : G[d] = Mapped(p, d)
  <2>1. \A d \in Domains : Mapped(p, d) \subseteq Frames
    BY MappedIs
  <2>2. [d \in Domains |-> Mapped(p, d)] \in [Domains -> SUBSET Frames]
    BY <2>1
  <2> QED
    BY <2>2
<1>5. /\ dma' \in [Procs -> [1..Slots -> DmaRecords]]
      /\ \A s \in 1..Slots : dma'[p][s] = NoRecord
      /\ \A a \in Procs : a # p => dma'[a] = dma[a]
  BY <1>1, <1>3, RecordsAre
<1>6. PICK flush : /\ flush = FlushAll \/ flush = << >>
                   /\ flush = << >> => \A d \in Domains : Leaves(l1[d], G[d]) = {}
                   /\ work' = flush \o SetToSeq({ReleaseStep(r) : r \in {r \in regions : r.owner = p}})
                                    \o <<ReapStep(p)>>
  <2>1. PICK flush : /\ work' = flush \o SetToSeq({ReleaseStep(r) : r \in {r \in regions : r.owner = p}})
                                      \o <<ReapStep(p)>>
                     /\ flush = IF \E d \in Domains : Leaves(l1[d], Mapped(p, d)) # {}
                                THEN FlushAll ELSE << >>
    BY <1>2
  <2>2. CASE \E d \in Domains : Leaves(l1[d], Mapped(p, d)) # {}
    <3>1. flush = FlushAll /\ FlushAll # << >>
      <4>1. FlushAll \in Seq(Steps) /\ Range(FlushAll) # {}
        BY <2>2, FlushAllIs
      <4> QED
        BY <2>1, <2>2, <4>1, RangeIs
    <3> QED
      BY <2>1, <3>1
  <2>3. CASE ~\E d \in Domains : Leaves(l1[d], Mapped(p, d)) # {}
    BY <1>4, <2>1, <2>3
  <2> QED
    BY <2>2, <2>3
<1>7. PICK R \in SUBSET Steps :
        /\ R = {ReleaseStep(r) : r \in {r \in regions : r.owner = p}} /\ IsFiniteSet(R)
        /\ \A x \in R : x.do = "release" /\ x.region \in regions
  <2> DEFINE owned == {r \in regions : r.owner = p}
             S == {ReleaseStep(r) : r \in owned}
             f == [r \in owned |-> ReleaseStep(r)]
  <2>1. IsFiniteSet(owned)
    BY <1>3, FS_Subset
  <2>2. f \in Surjection(owned, S)
    BY DEF Surjection
  <2>3. IsFiniteSet(S)
    <3> HIDE DEF owned, S, f
    <3> QED
      BY <2>1, <2>2, FS_Surjection
  <2>4. S \subseteq Steps /\ \A x \in S : x.do = "release" /\ x.region \in regions
    BY <1>3, StepsAre
  <2> QED
    BY <2>3, <2>4
<1>8. /\ work' \in Seq(Steps) /\ Shape(work') /\ ~Waiting(work')
      /\ Range(work') \subseteq Range(flush) \cup R \cup {ReapStep(p)}
      /\ flush = FlushAll => {FlushStep(d) : d \in Domains} \subseteq Range(work')
      /\ \A x \in Range(flush) : x.do = "flush"
  <2>1. ReapStep(p) \in Steps /\ ReapStep(p).do = "reap"
    BY StepsAre
  <2>2. <<ReapStep(p)>> \in Seq(Steps) /\ Range(<<ReapStep(p)>>) = {ReapStep(p)}
    BY <2>1, ShapeOne
  <2>3. SetToSeq(R) \in Seq(Steps) /\ Range(SetToSeq(R)) \subseteq R
    BY <1>7, SequencedIs
  <2>4. PICK a \in Seq(Steps), b \in Seq(Steps) : a = SetToSeq(R) /\ b = <<ReapStep(p)>>
    BY <2>2, <2>3
  <2>5. \A x \in Range(a) \cup Range(b) : ~Flushing(x) /\ x.do # "undo"
    BY <1>7, <2>1, <2>2, <2>3, <2>4 DEF Flushing
  <2>6. work' = flush \o a \o b
    BY <1>6, <1>7, <2>4
  <2>7. flush = FlushAll \/ flush = << >>
    BY <1>6
  <2>8. /\ flush \o a \o b \in Seq(Steps) /\ Shape(flush \o a \o b)
        /\ ~Waiting(flush \o a \o b)
        /\ Range(flush \o a \o b) = Range(flush) \cup Range(a) \cup Range(b)
    BY <2>5, <2>7, FlushThen
  <2>9. /\ flush = FlushAll => Range(flush) = {FlushStep(d) : d \in Domains}
        /\ flush = << >> => Range(flush) = {}
    BY FlushAllIs, RangeNone
  <2>10. \A x \in Range(flush) : x.do = "flush"
    BY <2>7, <2>9, StepsAre
  <2> QED
    BY <2>2, <2>3, <2>4, <2>6, <2>8, <2>9, <2>10
<1>9. ReapStep(p) \in Steps /\ ReapStep(p).do = "reap" /\ ReapStep(p).proc = p
  BY StepsAre
<1>10. /\ Range(work) = {} /\ ~Waiting(work)
       /\ \A d \in Domains, r \in regions : Reached(d, r) <=> Recorded(d, r)
  BY <1>1, IdleIs
<1>11. /\ l1' \in [Domains -> [Iovas -> Frames \cup {0}]]
       /\ \A d \in Domains : l1'[d] = Cleared(l1[d], G[d])
  BY <1>1, <1>3, <1>4, ClearedIs
<1>12. /\ doms' \in [Domains -> DomainRecords]
       /\ \A d \in Domains : doms'[d] = RevokeAll(doms[d], G[d])
  BY <1>1, <1>3, <1>4, RevokeAllIs
<1>13. /\ \A x \in Range(work) : x.do # "undo"
       /\ \A x \in Range(work') : x.do \in {"flush", "release", "reap"}
  BY <1>7, <1>8, <1>9, <1>10
<1>14. /\ TablesInv' /\ GrantsMapped'
       /\ \A d \in Domains, r \in RegionRecords : Reached(d, r)' <=>
            \E v \in Iovas : l1[d][v] \in FramesOf(r) /\ l1[d][v] \notin G[d]
       /\ \A d \in Domains, r \in RegionRecords :
            Reached(d, r) <=> \E v \in Iovas : l1[d][v] \in FramesOf(r)
       /\ \A d \in Domains, v \in Iovas : l1[d][v] \in G[d] \/ l1'[d][v] = l1[d][v]
       /\ \A d \in Domains : Leaves(l1[d], G[d]) = {} => \A v \in Iovas : l1[d][v] \notin G[d]
  <2>1. UNCHANGED <<alive, regions, nextId, pool>> /\ \A x \in Range(work') : x.do # "undo"
    BY <1>1, <1>13
  <2> QED
    BY <1>5, <1>11, <1>12, <1>13, <2>1, Clearing
<1>15. Attributed'
  <2> SUFFICES ASSUME NEW d \in Domains, NEW r \in regions
               PROVE  Reached(d, r)' <=> Recorded(d, r)'
    BY <1>1 DEF Attributed
  <2>1. /\ r \in RegionRecords /\ r.owner \in Procs /\ r.id \in Nat \ {0}
        /\ Record(r.id, d) # NoRecord
    BY <1>3, FramesOfIs, RecordsAre
  <2>2. CASE r.owner = p
    <3>1. ~Recorded(d, r)'
      BY <1>1, <1>5, <2>1, <2>2 DEF Recorded
    <3>2. Recorded(d, r) => FramesOf(r) \subseteq G[d]
      BY <1>4, <2>2, MappedIs
    <3>3. ~Reached(d, r)'
      BY <1>10, <1>14, <2>1, <3>2
    <3> QED
      BY <3>1, <3>3
  <2>3. CASE r.owner # p
    <3>1. Recorded(d, r)' <=> Recorded(d, r)
      BY <1>1, <1>5, <2>1, <2>3 DEF Recorded
    <3>2. FramesOf(r) \cap G[d] = {}
      BY <1>4, <2>3, MappedIs
    <3>3. Reached(d, r)' <=> Reached(d, r)
      BY <1>14, <2>1, <3>2
    <3> QED
      BY <1>10, <3>1, <3>3
  <2> QED
    BY <2>2, <2>3
<1>16. RecordsOwned'
  BY <1>1, <1>5 DEF DmaInv, ReachInv, RecordsOwned
<1>17. WorkOK'
  <2>1. ASSUME NEW x \in R PROVE Owed(x)'
    <3>1. x.do = "release" /\ x.region \in regions
      BY <1>7
    <3>2. \A s \in regions : s # x.region => Apart(x.region, s)
      BY <3>1 DEF DmaInv, TablesInv, RegionsApart
    <3> QED
      BY <1>1, <3>1, <3>2 DEF Owed
  <2>2. Owed(ReapStep(p))'
    BY <1>5, <1>9 DEF Owed
  <2>3. \A x \in Range(flush) : Owed(x)'
    BY <1>8 DEF Owed
  <2> QED
    BY <1>8, <2>1, <2>2, <2>3 DEF WorkOK
<1>18. UnitInv'
  <2>1. pool' = pool
    BY <1>1
  <2>2. \A d \in Domains, v \in Iovas :
          l1'[d][v] = l1[d][v] \/ FlushStep(d) \in Range(work')
    BY <1>6, <1>8, <1>14
  <2> QED
    BY <1>1, <1>3, <1>8, <1>10, <2>1, <2>2, UnitAfter
<1> QED
  BY <1>14, <1>15, <1>16, <1>17, <1>18 DEF DmaInv, ReachInv

-----------------------------------------------------------------------------
(* MAKE_REGION. *)

LEMMA MinIs ==
  ASSUME NEW S, S \subseteq Nat, S # {}
  PROVE  Min(S) \in S /\ \A y \in S : Min(S) <= y
<1>1. \E m \in S : \A y \in S : ~(<<y, m>> \in OpToRel(<, Nat))
  BY NatLessThanWellFounded, WFMin
<1>2. \A y, m \in Nat : y < m => <<y, m>> \in OpToRel(<, Nat)
  BY DEF OpToRel
<1>3. PICK m \in S : \A y \in S : ~(y < m)
  BY <1>1, <1>2
<1>4. \A y \in S : m <= y
  BY <1>3
<1> QED
  BY <1>4 DEF Min

(* A pool of n frames has an n-th free frame: all the others are below its *)
(* highest one.                                                            *)
LEMMA NthFreeIs ==
  ASSUME pool \subseteq Frames, NEW k \in 1..Cardinality(pool)
  PROVE  NthFree(k) \in pool
<1>1. /\ IsFiniteSet(pool) /\ pool \subseteq Nat
  BY Sizes, FS_Subset
<1>2. Cardinality(pool) \in Nat /\ pool # {}
  BY <1>1, FS_CardinalityType, FS_EmptySet
<1>3. PICK n \in Nat : Frames = 1..n
  BY DmaAssumption
<1>4. PICK top \in pool : \A f \in pool : f <= top
  <2> DEFINE S == {n - f : f \in pool}
  <2>1. S \subseteq Nat /\ S # {}
    <3>1. \A f \in pool : n - f \in Nat
      BY <1>3
    <3>2. PICK f \in pool : TRUE
      BY <1>2
    <3>3. n - f \in S
      BY <3>2
    <3> QED
      BY <3>1, <3>3
  <2>2. PICK m \in S : \A y \in S : m <= y
    <3> HIDE DEF S
    <3> QED
      BY <2>1, MinIs
  <2>3. PICK t \in pool : m = n - t
    BY <2>2
  <2>4. \A f \in pool : n - t <= n - f
    BY <2>2, <2>3
  <2>5. \A f \in pool : f <= t
    BY <1>1, <2>4
  <2> QED
    BY <2>5
<1> DEFINE below == {g \in pool : g < top}
<1>5. below = pool \ {top}
  <2>1. \A f \in pool : f \in Nat /\ top \in Nat /\ f <= top
    BY <1>1, <1>4
  <2>2. \A f \in pool : f < top <=> f # top
    BY <2>1
  <2> QED
    BY <2>2
<1>6. Cardinality(below) = Cardinality(pool) - 1
  BY <1>1, <1>5, FS_RemoveElement
<1>7. top \in {f \in pool : Cardinality({g \in pool : g < f}) >= k - 1}
  BY <1>2, <1>6
<1> DEFINE high == {f \in pool : Cardinality({g \in pool : g < f}) >= k - 1}
<1>8. high # {} /\ high \subseteq Nat /\ high \subseteq pool
  BY <1>1, <1>7
<1>9. NthFree(k) = Min(high)
  BY DEF NthFree
<1> HIDE DEF high
<1> QED
  BY <1>8, <1>9, MinIs

LEMMA DmaMakeRegion ==
  ASSUME DmaInv, NEW p \in Procs, NEW n \in Pages, MakeRegion(p, n)
  PROVE  DmaInv'
<1>1. PICK got : got = [k \in 1..n |-> NthFree(k)]
  OBVIOUS
<1>2. /\ Idle /\ n <= Cardinality(pool) /\ nextId' = nextId + 1 /\ pool' = pool \ Range(got)
      /\ UNCHANGED <<alive, dma, doms, l1, unit, work, unacked, undone>>
      /\ \/ panicked' = TRUE /\ regions' = regions
         \/ /\ regions' = regions \cup {[id |-> nextId, owner |-> p, frames |-> got]}
            /\ panicked' = panicked
  BY <1>1 DEF MakeRegion
<1>3. /\ alive' = alive /\ dma' = dma /\ doms' = doms /\ l1' = l1 /\ work' = work
      /\ undone' = undone /\ UNCHANGED <<cached, ring, store, unacked>>
  BY <1>2 DEF unit
<1>4. /\ regions \subseteq RegionRecords /\ IsFiniteSet(regions) /\ pool \subseteq Frames
      /\ nextId \in Nat \ {0} /\ panicked \in BOOLEAN
  BY DEF DmaInv, TablesInv, CpuTypeOK, UnitInv, UnitTypeOK
<1>5. n \in Nat \ {0} /\ Cardinality(pool) \in Nat
  BY <1>4, Sizes, FS_Subset, FS_CardinalityType
<1>6. got \in [1..n -> pool]
  <2>1. \A k \in 1..n : NthFree(k) \in pool
    BY <1>2, <1>4, <1>5, NthFreeIs
  <2> QED
    BY <1>1, <2>1
<1>7. /\ got \in Seq(Frames) /\ got # << >> /\ Range(got) \subseteq pool
  <2>1. got \in Seq(pool) /\ Len(got) = n
    BY <1>5, <1>6
  <2>2. got \in Seq(Frames)
    BY <1>4, <1>5, <1>6
  <2>3. Range(got) \subseteq pool
    BY <2>1, RangeIs
  <2>4. got # << >>
    BY <1>5, <2>1, RangeIs
  <2> QED
    BY <2>2, <2>3, <2>4
<1>8. PICK new : new = [id |-> nextId, owner |-> p, frames |-> got]
  OBVIOUS
<1>9. /\ new \in RegionRecords /\ new.id = nextId /\ new.owner = p /\ new.frames = got
      /\ FramesOf(new) = Range(got)
  BY <1>4, <1>7, <1>8 DEF RegionRecords, FramesOf
<1>10. /\ regions' \subseteq regions \cup {new} /\ regions \subseteq regions'
       /\ (regions' = regions \/ regions' = regions \cup {new}) /\ panicked' \in BOOLEAN
  BY <1>2, <1>4, <1>8
<1>11. /\ Range(work) = {} /\ ~Waiting(work) /\ work \in Seq(Steps)
       /\ \A d, v : ~Doomed(d, v) /\ ~Suspect(d, v)
       /\ \A d \in Domains, r \in regions : Reached(d, r) <=> Recorded(d, r)
  BY <1>2, IdleIs
<1>12. CpuTypeOK'
  <2>1. IsFiniteSet(regions')
    BY <1>4, <1>10, FS_AddElement
  <2>2. nextId' \in Nat \ {0} /\ pool' \subseteq Frames
    BY <1>2, <1>4
  <2> QED
    BY <1>3, <1>4, <1>9, <1>10, <2>1, <2>2 DEF DmaInv, TablesInv, CpuTypeOK
<1>13. RegionsApart'
  <2>1. \A r \in regions : /\ r.id < nextId /\ r.frames # << >> /\ FramesOf(r) \cap pool = {}
                           /\ r.id \in Nat
    BY <1>4, FramesOfIs DEF DmaInv, TablesInv, RegionsApart
  <2>2. \A r \in regions' : /\ r.id < nextId' /\ r.frames # << >> /\ FramesOf(r) \cap pool' = {}
    BY <1>2, <1>4, <1>7, <1>9, <1>10, <2>1
  <2>3. \A r \in regions : Apart(r, new) /\ Apart(new, r)
    BY <1>4, <1>7, <1>9, <2>1 DEF Apart
  <2>4. \A r, s \in regions : r # s => Apart(r, s)
    BY DEF DmaInv, TablesInv, RegionsApart
  <2>5. \A r, s \in regions' : r # s => Apart(r, s)
    BY <1>10, <2>3, <2>4
  <2> QED
    BY <2>2, <2>5 DEF RegionsApart
<1>14. TablesAgree'
  BY <1>3 DEF DmaInv, TablesInv, TablesAgree
<1>15. ReachLive'
  BY <1>3, <1>10 DEF DmaInv, TablesInv, ReachLive
<1>16. \A d, v : ~Doomed(d, v)'
  BY <1>3, <1>11 DEF Doomed
<1>17. GrantsMapped'
  BY <1>3, <1>11, <1>16 DEF DmaInv, ReachInv, GrantsMapped
<1>18. Attributed'
  <2> SUFFICES ASSUME NEW d \in Domains, NEW r \in regions' PROVE Reached(d, r)' <=> Recorded(d, r)'
    BY DEF Attributed
  <2>1. CASE r \in regions
    <3>1. (Reached(d, r)' <=> Reached(d, r)) /\ (Recorded(d, r)' <=> Recorded(d, r))
      BY <1>3, <1>11, <1>16 DEF Reached, Recorded
    <3> QED
      BY <1>11, <2>1, <3>1
  <2>2. CASE r = new
    <3>1. ~Reached(d, r)'
      <4> SUFFICES ASSUME NEW v \in Iovas, l1[d][v] \in Range(got) PROVE FALSE
        BY <1>3, <1>9, <2>2 DEF Reached
      <4>1. l1[d][v] \in pool /\ l1[d][v] # 0
        BY <1>4, <1>7, Sizes
      <4>2. PICK s \in regions : l1[d][v] \in FramesOf(s)
        BY <4>1 DEF DmaInv, TablesInv, ReachLive
      <4> QED
        BY <4>1, <4>2 DEF DmaInv, TablesInv, RegionsApart
    <3>2. ~Recorded(d, r)'
      <4> SUFFICES ASSUME NEW s \in 1..Slots, dma[p][s] = Record(nextId, d) PROVE FALSE
        BY <1>3, <1>9, <2>2 DEF Recorded
      <4>1. dma[p][s] # NoRecord /\ dma[p][s].region = nextId
        BY <1>4, RecordsAre
      <4>2. PICK q \in regions : q.id = nextId
        BY <4>1 DEF DmaInv, ReachInv, RecordsOwned
      <4>3. q.id < nextId
        BY DEF DmaInv, TablesInv, RegionsApart
      <4> QED
        BY <1>4, <4>2, <4>3
    <3> QED
      BY <3>1, <3>2
  <2> QED
    BY <1>10, <2>1, <2>2
<1>19. RecordsOwned'
  BY <1>3, <1>10 DEF DmaInv, ReachInv, RecordsOwned
<1>20. WorkOK'
  BY <1>3, <1>11 DEF DmaInv, WorkOK
<1>21. UnitInv'
  <2>1. pool' \subseteq pool
    BY <1>2
  <2> QED
    BY <1>3, <1>10, <1>11, <2>1, UnitAfter
<1> QED
  BY <1>12, <1>13, <1>14, <1>15, <1>17, <1>18, <1>19, <1>20, <1>21 DEF DmaInv, TablesInv, ReachInv

-----------------------------------------------------------------------------
(* MAP_DMA: the domain page after page. *)

Page(r, first, k) == [iova |-> first + k - 1, frame |-> r.frames[k], rights |-> Rights]

LEMMA GrantIs ==
  ASSUME NEW dom \in DomainRecords, NEW f \in Frames
  PROVE  /\ Grant(dom, f, Rights, GrantSlots) \in DomainRecords
         /\ Grant(dom, f, Rights, GrantSlots).maps = dom.maps
         /\ \A g \in Grant(dom, f, Rights, GrantSlots).grants :
              g \in dom.grants \/ g.frame = f
<1>1. PICK gs, ms : gs = dom.grants /\ ms = dom.maps /\ dom = [grants |-> gs, maps |-> ms]
                    /\ gs \subseteq Grants /\ ms \subseteq Maps
  BY DEF DomainRecords
<1>2. PICK new \in Grants : new = [frame |-> f, rights |-> Rights]
  BY DEF Grants
<1>3. new.frame = f
  BY <1>2
<1>4. Covered(dom.maps, f, Rights) = dom.maps
  <2>1. \A m \in dom.maps : m.rights \subseteq Rights
    BY <1>1 DEF Maps
  <2> QED
    BY <2>1 DEF Covered
<1>5. PICK old : old = GrantsOf(dom, f)
  OBVIOUS
<1>6. \/ Grant(dom, f, Rights, GrantSlots) = [grants |-> (gs \ old) \cup {new}, maps |-> ms]
      \/ Grant(dom, f, Rights, GrantSlots) = [grants |-> gs \cup {new}, maps |-> ms]
      \/ Grant(dom, f, Rights, GrantSlots) = dom
  <2>1. [dom EXCEPT !.grants = @ \cup {new}] = [grants |-> gs \cup {new}, maps |-> ms]
    BY <1>1
  <2> QED
    BY <1>1, <1>2, <1>4, <1>5, <2>1 DEF Grant
<1>7. CASE Grant(dom, f, Rights, GrantSlots) = [grants |-> (gs \ old) \cup {new}, maps |-> ms]
  BY <1>1, <1>3, <1>7 DEF DomainRecords
<1>8. CASE Grant(dom, f, Rights, GrantSlots) = [grants |-> gs \cup {new}, maps |-> ms]
  BY <1>1, <1>3, <1>8 DEF DomainRecords
<1>9. CASE Grant(dom, f, Rights, GrantSlots) = dom
  BY <1>9
<1> QED
  BY <1>6, <1>7, <1>8, <1>9

LEMMA MapIs ==
  ASSUME NEW dom \in DomainRecords, NEW v \in Iovas, NEW f \in Frames
  PROVE  /\ Map(dom, v, f, Rights, MapSlots) \in DomainRecords
         /\ Map(dom, v, f, Rights, MapSlots).grants = dom.grants
         /\ MapAnswer(dom, v, f, Rights, MapSlots) = "Ok" =>
              Map(dom, v, f, Rights, MapSlots).maps =
                dom.maps \cup {[iova |-> v, frame |-> f, rights |-> Rights]}
<1>1. PICK gs, ms : gs = dom.grants /\ ms = dom.maps /\ dom = [grants |-> gs, maps |-> ms]
                    /\ gs \subseteq Grants /\ ms \subseteq Maps
  BY DEF DomainRecords
<1>2. PICK new \in Maps : new = [iova |-> v, frame |-> f, rights |-> Rights]
  BY DEF Maps
<1>3. [dom EXCEPT !.maps = @ \cup {new}] = [grants |-> gs, maps |-> ms \cup {new}]
  BY <1>1
<1>4. CASE MapAnswer(dom, v, f, Rights, MapSlots) = "Ok"
  <2>1. Map(dom, v, f, Rights, MapSlots) = [grants |-> gs, maps |-> ms \cup {new}]
    BY <1>2, <1>3, <1>4 DEF Map
  <2> QED
    BY <1>1, <1>2, <2>1 DEF DomainRecords
<1>5. CASE MapAnswer(dom, v, f, Rights, MapSlots) # "Ok"
  <2>1. Map(dom, v, f, Rights, MapSlots) = dom
    BY <1>5 DEF Map
  <2> QED
    BY <1>5, <2>1
<1> QED
  BY <1>4, <1>5

(* One page, kept as one operator so that the loop can be reasoned about. *)
PageDone(dom, r, first, k) ==
  Map(GrantPage(dom, r, k), first + k - 1, r.frames[k], Rights, MapSlots)
PageOk(dom, r, first, k) ==
  MapAnswer(GrantPage(dom, r, k), first + k - 1, r.frames[k], Rights, MapSlots) = "Ok"

LEMMA PageDoneIs ==
  ASSUME NEW r \in RegionRecords, NEW first \in Nat, NEW k \in 1..Len(r.frames),
         first + k - 1 \in Iovas, NEW dom \in DomainRecords
  PROVE  /\ GrantPage(dom, r, k) \in DomainRecords
         /\ GrantPage(dom, r, k).maps = dom.maps
         /\ \A g \in GrantPage(dom, r, k).grants : g \in dom.grants \/ g.frame = r.frames[k]
         /\ PageDone(dom, r, first, k) \in DomainRecords
         /\ \A g \in PageDone(dom, r, first, k).grants :
              g \in dom.grants \/ g.frame = r.frames[k]
         /\ PageOk(dom, r, first, k) =>
              PageDone(dom, r, first, k).maps = dom.maps \cup {Page(r, first, k)}
<1>1. PICK f \in Frames : f = r.frames[k]
  BY FramesOfIs
<1>2. PICK v \in Iovas : v = first + k - 1
  OBVIOUS
<1>3. PICK g \in DomainRecords : g = GrantPage(dom, r, k)
  BY <1>1, GrantIs DEF GrantPage
<1>4. g.maps = dom.maps /\ \A x \in g.grants : x \in dom.grants \/ x.frame = f
  BY <1>1, <1>3, GrantIs DEF GrantPage
<1>5. /\ PageDone(dom, r, first, k) = Map(g, v, f, Rights, MapSlots)
      /\ PageOk(dom, r, first, k) <=> MapAnswer(g, v, f, Rights, MapSlots) = "Ok"
      /\ Page(r, first, k) = [iova |-> v, frame |-> f, rights |-> Rights]
  BY <1>1, <1>2, <1>3 DEF PageDone, PageOk, Page
<1>6. /\ Map(g, v, f, Rights, MapSlots) \in DomainRecords
      /\ Map(g, v, f, Rights, MapSlots).grants = g.grants
      /\ MapAnswer(g, v, f, Rights, MapSlots) = "Ok" =>
           Map(g, v, f, Rights, MapSlots).maps =
             g.maps \cup {[iova |-> v, frame |-> f, rights |-> Rights]}
  BY MapIs
<1> QED
  BY <1>1, <1>3, <1>4, <1>5, <1>6

(* The loop over the pages has a solution, page after page... *)
Loop(f, dom, r, first, j) ==
  f = [k \in 0..j |-> IF k = 0 THEN dom ELSE PageDone(f[k - 1], r, first, k)]

LEMMA LoopSolved ==
  ASSUME NEW dom, NEW r, NEW first, NEW n \in Nat
  PROVE  \E f : Loop(f, dom, r, first, n)
<1> DEFINE S == {j \in Nat : ~\E f : Loop(f, dom, r, first, j)}
<1> SUFFICES ASSUME S # {} PROVE FALSE
  OBVIOUS
<1>1. PICK j \in Nat : j \in S /\ \A i \in S : j <= i
  <2>1. S \subseteq Nat
    OBVIOUS
  <2> HIDE DEF S
  <2> QED
    BY <2>1, MinIs
<1>2. CASE j = 0
  <2> DEFINE f == [k \in 0..0 |-> dom]
  <2>1. f = [k \in 0..0 |-> IF k = 0 THEN dom ELSE PageDone(f[k - 1], r, first, k)]
    OBVIOUS
  <2>2. Loop(f, dom, r, first, 0)
    BY <2>1 DEF Loop
  <2> QED
    BY <1>1, <1>2, <2>2
<1>3. CASE j # 0
  <2>1. j - 1 \in Nat /\ j - 1 \notin S
    BY <1>1, <1>3
  <2>2. PICK h : Loop(h, dom, r, first, j - 1)
    BY <2>1
  <2> DEFINE f == [k \in 0..j |-> IF k = j THEN PageDone(h[j - 1], r, first, j) ELSE h[k]]
  <2>3. \A k \in 0..(j - 1) : h[k] = IF k = 0 THEN dom ELSE PageDone(h[k - 1], r, first, k)
    BY <2>2 DEF Loop
  <2>4. \A k \in 0..(j - 1) : f[k] = h[k]
    OBVIOUS
  <2>5. f[j] = PageDone(h[j - 1], r, first, j)
    OBVIOUS
  <2>6. DOMAIN f = 0..j /\ f = [k \in 0..j |-> f[k]]
    OBVIOUS
  <2> HIDE DEF f
  <2>7. ASSUME NEW k \in 0..j
        PROVE  f[k] = IF k = 0 THEN dom ELSE PageDone(f[k - 1], r, first, k)
    <3>1. CASE k = j
      <4>1. f[k - 1] = h[j - 1]
        BY <2>1, <2>4, <3>1
      <4> QED
        BY <1>3, <2>5, <3>1, <4>1
    <3>2. CASE k # j /\ k # 0
      <4>1. k \in 0..(j - 1) /\ k - 1 \in 0..(j - 1)
        BY <3>2
      <4>2. f[k] = h[k] /\ f[k - 1] = h[k - 1]
        BY <2>4, <4>1
      <4> QED
        BY <2>3, <3>2, <4>1, <4>2
    <3>3. CASE k = 0
      <4>1. k \in 0..(j - 1) /\ k # j
        BY <1>3, <3>3
      <4> QED
        BY <2>3, <2>4, <3>3, <4>1
    <3> QED
      BY <3>1, <3>2, <3>3
  <2>8. f = [k \in 0..j |-> IF k = 0 THEN dom ELSE PageDone(f[k - 1], r, first, k)]
    BY <2>6, <2>7
  <2>9. Loop(f, dom, r, first, j)
    BY <2>8 DEF Loop
  <2> QED
    BY <1>1, <2>9
<1> QED
  BY <1>2, <1>3

(* ...and after the pages that were not refused the domain has those and   *)
(* no other translation more, and no grant of another frame.               *)
LEMMA PagesMappedIs ==
  ASSUME NEW dom \in DomainRecords, NEW r \in RegionRecords, NEW first \in Nat,
         \A k \in 1..Len(r.frames) : first + k - 1 \in Iovas,
         NEW n \in 0..Len(r.frames), \A k \in Refusals(dom, r, first) : n < k
  PROVE  /\ PagesMapped(dom, r, first)[n] \in DomainRecords
         /\ \A m : m \in PagesMapped(dom, r, first)[n].maps <=>
              m \in dom.maps \/ \E k \in 1..n : m = Page(r, first, k)
         /\ \A g \in PagesMapped(dom, r, first)[n].grants :
              g \in dom.grants \/ \E k \in 1..n : g.frame = r.frames[k]
<1>1. Len(r.frames) \in Nat /\ r.frames \in Seq(Frames)
  BY FramesOfIs
<1>2. PICK a : a = PagesMapped(dom, r, first)
  OBVIOUS
<1>3. PICK z \in Nat : z = Len(r.frames)
  BY <1>1
<1>4. a = CHOOSE f : Loop(f, dom, r, first, z)
  BY <1>2, <1>3 DEF PagesMapped, Loop, PageDone
<1>5. Loop(a, dom, r, first, z)
  BY <1>4, LoopSolved
<1>6. \A k \in 0..z : a[k] = IF k = 0 THEN dom ELSE PageDone(a[k - 1], r, first, k)
  BY <1>5 DEF Loop
<1>7. \A k \in 1..z : PageOk(a[k - 1], r, first, k) \/ k \in Refusals(dom, r, first)
  BY <1>2, <1>3 DEF PageOk, Refusals
<1>8. \A k \in 1..n : PageOk(a[k - 1], r, first, k)
  BY <1>1, <1>3, <1>7
<1> DEFINE Good(k) == /\ a[k] \in DomainRecords
                      /\ \A m : m \in a[k].maps <=>
                           m \in dom.maps \/ \E i \in 1..k : m = Page(r, first, i)
                      /\ \A g \in a[k].grants :
                           g \in dom.grants \/ \E i \in 1..k : g.frame = r.frames[i]
           S == {k \in 0..n : ~Good(k)}
<1>9. Good(0)
  BY <1>6
<1>10. ASSUME NEW k \in 1..n, Good(k - 1) PROVE Good(k)
  <2>1. k \in 1..Len(r.frames) /\ k \in 0..z /\ k # 0 /\ first + k - 1 \in Iovas
    BY <1>1, <1>3
  <2>2. a[k] = PageDone(a[k - 1], r, first, k)
    BY <1>6, <2>1
  <2>3. /\ a[k] \in DomainRecords
        /\ \A g \in a[k].grants : g \in a[k - 1].grants \/ g.frame = r.frames[k]
        /\ a[k].maps = a[k - 1].maps \cup {Page(r, first, k)}
    <3>1. PICK b \in DomainRecords : b = a[k - 1]
      BY <1>10
    <3>2. PageOk(b, r, first, k)
      BY <1>8, <3>1
    <3> HIDE DEF Good
    <3>3. /\ PageDone(b, r, first, k) \in DomainRecords
          /\ \A g \in PageDone(b, r, first, k).grants :
               g \in b.grants \/ g.frame = r.frames[k]
          /\ PageDone(b, r, first, k).maps = b.maps \cup {Page(r, first, k)}
      BY <2>1, <3>2, PageDoneIs
    <3> QED
      BY <2>2, <3>1, <3>3
  <2>4. /\ \A i : i \in 1..k <=> i \in 1..(k - 1) \/ i = k
    BY <2>1
  <2> QED
    BY <1>10, <2>3, <2>4
<1>11. S = {}
  <2> SUFFICES ASSUME S # {} PROVE FALSE
    OBVIOUS
  <2>1. PICK k \in 0..n : k \in S /\ \A i \in S : k <= i
    <3>1. S \subseteq Nat /\ S \subseteq 0..n
      OBVIOUS
    <3> HIDE DEF S
    <3> QED
      BY <3>1, MinIs
  <2>2. k # 0
    BY <1>9, <2>1
  <2>3. k - 1 \in 0..n /\ k \in 1..n /\ ~(k <= k - 1)
    BY <1>1, <2>2
  <2>4. Good(k - 1)
    <3> HIDE DEF Good
    <3> QED
      BY <2>1, <2>3
  <2>5. Good(k)
    BY <1>10, <2>3, <2>4
  <2> QED
    BY <2>1, <2>5
<1>12. Good(n)
  <2>1. n \in 0..n
    BY <1>1
  <2> HIDE DEF Good
  <2> QED
    BY <1>11, <2>1
<1> QED
  BY <1>2, <1>12

(* The domain has the translations of the first k pages and no other more, *)
(* and no grant of a frame of another region.                              *)
PagesIn(dom, old, r, first, k) ==
  /\ \A m : m \in dom.maps <=> m \in old.maps \/ \E i \in 1..k : m = Page(r, first, i)
  /\ \A g \in dom.grants : g \in old.grants \/ g.frame \in FramesOf(r)

(* The addresses of the first k pages are free. *)
FreeAt(e, first, k) == \A i \in 1..k : first + i - 1 \in Iovas /\ l1[e][first + i - 1] = 0

(* The first k pages of q are in domain e, in both accounts, at addresses  *)
(* that were free.                                                         *)
LEMMA Mapping ==
  ASSUME DmaInv, NEW e \in Domains, NEW q \in regions, NEW first \in Nat,
         NEW k \in 0..Len(q.frames), NEW dom \in DomainRecords,
         FreeAt(e, first, k), PagesIn(dom, doms[e], q, first, k),
         doms' = [d \in Domains |-> IF d = e THEN dom ELSE doms[d]],
         NEW tab, tab = Installed(l1[e], q, first, k),
         l1' = [d \in Domains |-> IF d = e THEN tab ELSE l1[d]],
         UNCHANGED <<alive, regions, nextId, pool>>,
         dma' \in [Procs -> [1..Slots -> DmaRecords]]
  PROVE  /\ TablesInv' /\ doms'[e] = dom
         /\ \A d \in Domains : d # e => l1'[d] = l1[d] /\ doms'[d] = doms[d]
         /\ \A v \in Iovas : v \notin first..(first + k - 1) => l1'[e][v] = l1[e][v]
         /\ \A v \in Iovas : v \in first..(first + k - 1) =>
              l1[e][v] = 0 /\ l1'[e][v] \in FramesOf(q)
<1>0. /\ \A i \in 1..k : first + i - 1 \in Iovas /\ l1[e][first + i - 1] = 0
      /\ \A m : m \in dom.maps <=>
           m \in doms[e].maps \/ \E i \in 1..k : m = Page(q, first, i)
      /\ \A g \in dom.grants : g \in doms[e].grants \/ g.frame \in FramesOf(q)
  BY DEF FreeAt, PagesIn
<1>1. /\ regions \subseteq RegionRecords /\ l1 \in [Domains -> [Iovas -> Frames \cup {0}]]
      /\ doms \in [Domains -> DomainRecords] /\ Iovas \subseteq Nat /\ 0 \notin Frames
  BY Sizes DEF DmaInv, TablesInv, CpuTypeOK
<1>2. /\ q \in RegionRecords /\ q.frames \in Seq(Frames) /\ Len(q.frames) \in Nat
      /\ FramesOf(q) \subseteq Frames
  BY <1>1, FramesOfIs
<1>3. \A i \in 1..k : q.frames[i] \in Frames /\ q.frames[i] \in FramesOf(q)
  BY <1>2, RangeIs DEF FramesOf
<1>4. ASSUME NEW v \in Iovas, v \in first..(first + k - 1)
      PROVE  /\ v - first + 1 \in 1..k /\ first + (v - first + 1) - 1 = v
             /\ l1[e][v] = 0
  <2>1. v - first + 1 \in 1..k /\ first + (v - first + 1) - 1 = v
    BY <1>1, <1>2, <1>4
  <2> QED
    BY <1>0, <2>1
<1>6. /\ tab \in [Iovas -> Frames \cup {0}]
      /\ \A v \in Iovas : tab[v] = IF v \in first..(first + k - 1)
                                   THEN q.frames[v - first + 1] ELSE l1[e][v]
  <2>1. \A v \in Iovas : v \in first..(first + k - 1) => q.frames[v - first + 1] \in Frames
    BY <1>3, <1>4
  <2> QED
    BY <1>1, <2>1 DEF Installed
<1>8. /\ l1' \in [Domains -> [Iovas -> Frames \cup {0}]] /\ l1'[e] = tab
      /\ \A d \in Domains : d # e => l1'[d] = l1[d]
  BY <1>1, <1>6
<1>9. /\ doms' \in [Domains -> DomainRecords] /\ doms'[e] = dom
      /\ \A d \in Domains : d # e => doms'[d] = doms[d]
  BY <1>1
<1>10. /\ \A v \in Iovas : v \notin first..(first + k - 1) => l1'[e][v] = l1[e][v]
       /\ \A v \in Iovas : v \in first..(first + k - 1) =>
            l1[e][v] = 0 /\ l1'[e][v] = q.frames[v - first + 1] /\ l1'[e][v] \in FramesOf(q)
  BY <1>3, <1>4, <1>6, <1>8
<1>11. alive' = alive /\ regions' = regions /\ nextId' = nextId /\ pool' = pool
  OBVIOUS
<1>12. CpuTypeOK' /\ RegionsApart'
  BY <1>8, <1>9, <1>11 DEF DmaInv, TablesInv, CpuTypeOK, RegionsApart
<1>13. TablesAgree'
  <2> SUFFICES ASSUME NEW d \in Domains, NEW v \in Iovas, NEW f \in Frames
               PROVE  l1'[d][v] = f <=> \E m \in doms'[d].maps : m.iova = v /\ m.frame = f
    BY DEF TablesAgree
  <2>1. l1[d][v] = f <=> \E m \in doms[d].maps : m.iova = v /\ m.frame = f
    BY DEF DmaInv, TablesInv, TablesAgree
  <2>2. CASE d # e
    BY <1>8, <1>9, <2>1, <2>2
  <2>3. ASSUME NEW i \in 1..k
        PROVE  Page(q, first, i).iova = first + i - 1 /\ Page(q, first, i).frame = q.frames[i]
    BY DEF Page
  <2>4. CASE d = e /\ v \notin first..(first + k - 1)
    <3>1. \A i \in 1..k : Page(q, first, i).iova # v
      BY <1>1, <1>2, <2>3, <2>4
    <3>2. (\E m \in dom.maps : m.iova = v /\ m.frame = f)
            <=> \E m \in doms[d].maps : m.iova = v /\ m.frame = f
      BY <1>0, <2>4, <3>1
    <3> QED
      BY <1>9, <1>10, <2>1, <2>4, <3>2
  <2>5. CASE d = e /\ v \in first..(first + k - 1)
    <3>1. PICK j \in 1..k : j = v - first + 1 /\ first + j - 1 = v
      BY <1>4, <2>5
    <3>2. l1'[d][v] = q.frames[j] /\ l1[d][v] = 0
      BY <1>10, <2>5, <3>1
    <3>3. ~\E m \in doms[d].maps : m.iova = v /\ m.frame = f
      BY <1>1, <2>1, <3>2
    <3>4. \A i \in 1..k : Page(q, first, i).iova = v <=> i = j
      BY <1>2, <2>3, <3>1
    <3>5. (\E m \in dom.maps : m.iova = v /\ m.frame = f) <=> Page(q, first, j).frame = f
      BY <1>0, <2>5, <3>3, <3>4
    <3> QED
      BY <1>9, <2>3, <2>5, <3>2, <3>5
  <2> QED
    BY <2>2, <2>4, <2>5
<1>14. ReachLive'
  <2> SUFFICES ASSUME NEW d \in Domains
               PROVE  /\ \A v \in Iovas : l1'[d][v] # 0 =>
                           \E r \in regions : l1'[d][v] \in FramesOf(r)
                      /\ \A g \in doms'[d].grants : \E r \in regions : g.frame \in FramesOf(r)
    BY <1>11 DEF ReachLive
  <2>1. /\ \A v \in Iovas : l1[d][v] # 0 => \E r \in regions : l1[d][v] \in FramesOf(r)
        /\ \A g \in doms[d].grants : \E r \in regions : g.frame \in FramesOf(r)
    BY DEF DmaInv, TablesInv, ReachLive
  <2>2. CASE d # e
    BY <1>8, <1>9, <2>1, <2>2
  <2>3. CASE d = e
    <3>1. \A v \in Iovas : l1'[d][v] # 0 => \E r \in regions : l1'[d][v] \in FramesOf(r)
      BY <1>10, <2>1, <2>3
    <3>2. \A g \in doms'[d].grants : \E r \in regions : g.frame \in FramesOf(r)
      BY <1>0, <1>9, <2>1, <2>3
    <3> QED
      BY <3>1, <3>2
  <2> QED
    BY <2>2, <2>3
<1> QED
  BY <1>8, <1>9, <1>10, <1>12, <1>13, <1>14 DEF TablesInv

LEMMA RunsIs ==
  ASSUME DmaInv, NEW e \in Domains, NEW q \in regions,
         Runs(e, Len(q.frames)) # {}, NEW first, first = Min(Runs(e, Len(q.frames)))
  PROVE  /\ first \in Iovas /\ first \in Nat /\ Len(q.frames) \in Nat \ {0}
         /\ \A i \in 1..Len(q.frames) :
              first + i - 1 \in Iovas /\ l1[e][first + i - 1] = 0
<1>1. regions \subseteq RegionRecords /\ Iovas \subseteq Nat /\ q.frames # << >>
  BY Sizes DEF DmaInv, TablesInv, CpuTypeOK, RegionsApart
<1>2. Len(q.frames) \in Nat \ {0}
  BY <1>1, FramesOfIs, RangeIs
<1>3. PICK n \in Nat : n = Len(q.frames)
  BY <1>2
<1>4. Runs(e, n) \subseteq Nat
  BY <1>1 DEF Runs
<1>5. first \in Runs(e, n)
  BY <1>3, <1>4, MinIs
<1>6. first \in Iovas /\ \A j \in 0..(n - 1) : first + j \in Iovas /\ l1[e][first + j] = 0
  BY <1>5 DEF Runs
<1>7. ASSUME NEW i \in 1..n PROVE first + i - 1 \in Iovas /\ l1[e][first + i - 1] = 0
  <2>1. i - 1 \in 0..(n - 1) /\ first + (i - 1) = first + i - 1
    BY <1>1, <1>6
  <2> QED
    BY <1>6, <2>1
<1> QED
  BY <1>1, <1>2, <1>3, <1>6, <1>7

(* Every page went in: the caller has a record of it. *)
LEMMA MapDmaDone ==
  ASSUME DmaInv, NEW p \in Procs, NEW e \in Domains, NEW q \in regions, MapDma(p, e, q),
         NEW first, first = Min(Runs(e, Len(q.frames))),
         Refusals(doms[e], q, first) = {}
  PROVE  DmaInv'
<1>1. /\ Idle /\ p \in alive /\ q.owner = p /\ Runs(e, Len(q.frames)) # {} /\ FreeSlots(p) # {}
      /\ UNCHANGED <<alive, regions, nextId, pool>>
      /\ UNCHANGED <<cached, ring, store, unacked>> /\ undone' = undone /\ panicked' = panicked
  BY DEF MapDma, unit
<1>2. /\ doms' = [doms EXCEPT ![e] = PagesMapped(doms[e], q, first)[Len(q.frames)]]
      /\ l1' = [l1 EXCEPT ![e] = Installed(@, q, first, Len(q.frames))]
      /\ dma' = [dma EXCEPT ![p][Min(FreeSlots(p))] = Record(q.id, e)]
      /\ work' = work
  BY DEF MapDma
<1>3. /\ regions \subseteq RegionRecords /\ dma \in [Procs -> [1..Slots -> DmaRecords]]
      /\ doms \in [Domains -> DomainRecords] /\ panicked \in BOOLEAN
      /\ l1 \in [Domains -> [Iovas -> Frames \cup {0}]]
  BY DEF DmaInv, TablesInv, CpuTypeOK, UnitInv, UnitTypeOK
<1>4. /\ first \in Iovas /\ first \in Nat /\ Len(q.frames) \in Nat \ {0}
      /\ \A i \in 1..Len(q.frames) : first + i - 1 \in Iovas /\ l1[e][first + i - 1] = 0
  BY <1>1, RunsIs
<1>5. PICK n \in Nat \ {0} : n = Len(q.frames)
  BY <1>4
<1>6. PICK slot \in 1..Slots : slot = Min(FreeSlots(p)) /\ dma[p][slot] = NoRecord
  <2>1. FreeSlots(p) \subseteq Nat
    BY DEF FreeSlots
  <2>2. Min(FreeSlots(p)) \in FreeSlots(p)
    BY <1>1, <2>1, MinIs
  <2> QED
    BY <2>2 DEF FreeSlots
<1>7. q \in RegionRecords /\ q.id \in Nat \ {0} /\ q.frames \in Seq(Frames)
  BY <1>3, FramesOfIs
<1>8. PICK record \in DmaRecords : record = Record(q.id, e) /\ record # NoRecord /\ record.region = q.id
  BY <1>7, RecordsAre
<1>9. /\ dma' \in [Procs -> [1..Slots -> DmaRecords]]
      /\ \A a \in Procs, s \in 1..Slots :
           dma'[a][s] = IF a = p /\ s = slot THEN record ELSE dma[a][s]
  <2>1. dma' = [dma EXCEPT ![p][slot] = record]
    BY <1>2, <1>6, <1>8
  <2> QED
    BY <1>3, <2>1
<1>10. PICK dom \in DomainRecords :
         /\ dom = PagesMapped(doms[e], q, first)[n]
         /\ \A m : m \in dom.maps <=> m \in doms[e].maps \/ \E i \in 1..n : m = Page(q, first, i)
         /\ \A g \in dom.grants : g \in doms[e].grants \/ \E i \in 1..n : g.frame = q.frames[i]
  <2>1. doms[e] \in DomainRecords /\ n \in 0..Len(q.frames)
    BY <1>3, <1>5
  <2> QED
    BY <1>4, <1>7, <2>1, PagesMappedIs
<1>11. \A i \in 1..n : q.frames[i] \in FramesOf(q)
  BY <1>5, <1>7, RangeIs DEF FramesOf
<1>12. /\ TablesInv' /\ doms'[e] = dom
       /\ \A d \in Domains : d # e => l1'[d] = l1[d] /\ doms'[d] = doms[d]
       /\ \A v \in Iovas : v \notin first..(first + n - 1) => l1'[e][v] = l1[e][v]
       /\ \A v \in Iovas : v \in first..(first + n - 1) =>
            l1[e][v] = 0 /\ l1'[e][v] \in FramesOf(q)
  <2>1. /\ n \in 0..Len(q.frames) /\ FreeAt(e, first, n) /\ PagesIn(dom, doms[e], q, first, n)
    <3>1. /\ n \in 0..Len(q.frames)
          /\ \A i \in 1..n : first + i - 1 \in Iovas /\ l1[e][first + i - 1] = 0
      BY <1>4, <1>5
    <3>2. \A g \in dom.grants : g \in doms[e].grants \/ g.frame \in FramesOf(q)
      BY <1>10, <1>11
    <3> QED
      BY <1>10, <3>1, <3>2 DEF FreeAt, PagesIn
  <2>2. doms' = [d \in Domains |-> IF d = e THEN dom ELSE doms[d]]
    BY <1>2, <1>3, <1>5, <1>10
  <2>3. PICK tab : /\ tab = Installed(l1[e], q, first, n)
                   /\ l1' = [d \in Domains |-> IF d = e THEN tab ELSE l1[d]]
    BY <1>2, <1>3, <1>5
  <2> QED
    <3>1. /\ UNCHANGED <<alive, regions, nextId, pool>> /\ first \in Nat
          /\ dma' \in [Procs -> [1..Slots -> DmaRecords]]
      BY <1>1, <1>4, <1>9
    <3>2. /\ TablesInv'
          /\ \A d \in Domains : d # e => l1'[d] = l1[d] /\ doms'[d] = doms[d]
          /\ \A v \in Iovas : v \in first..(first + n - 1) =>
               l1[e][v] = 0 /\ l1'[e][v] \in FramesOf(q)
      BY <2>1, <2>2, <2>3, <3>1, Mapping
    <3>3. \A v \in Iovas : v \notin first..(first + n - 1) => l1'[e][v] = l1[e][v]
      BY <2>1, <2>2, <2>3, <3>1, Mapping
    <3>4. doms'[e] = dom
      BY <1>3, <2>2
    <3> QED
      BY <3>2, <3>3, <3>4
<1>13. /\ Range(work) = {} /\ ~Waiting(work) /\ work \in Seq(Steps)
       /\ \A d, v : ~Doomed(d, v) /\ ~Suspect(d, v)
       /\ \A d \in Domains, r \in regions : Reached(d, r) <=> Recorded(d, r)
  BY <1>1, IdleIs
<1>14. \A d, v : ~Doomed(d, v)' /\ ~Suspect(d, v)'
  BY <1>2, <1>13 DEF Doomed, Suspect
<1>15. GrantsMapped'
  <2> SUFFICES ASSUME NEW d \in Domains, NEW g \in doms'[d].grants
               PROVE  \E m \in doms'[d].maps : m.frame = g.frame
    BY <1>14 DEF GrantsMapped
  <2>1. \A x \in doms[d].grants : \E m \in doms[d].maps : m.frame = x.frame
    BY <1>13 DEF DmaInv, ReachInv, GrantsMapped
  <2>2. CASE d # e
    BY <1>12, <2>1, <2>2
  <2>3. CASE d = e /\ g \in doms[e].grants
    BY <1>10, <1>12, <2>1, <2>3
  <2>4. CASE d = e /\ g \notin doms[e].grants
    <3>1. PICK i \in 1..n : g.frame = q.frames[i]
      BY <1>10, <1>12, <2>4
    <3>2. Page(q, first, i) \in dom.maps /\ Page(q, first, i).frame = q.frames[i]
      BY <1>10 DEF Page
    <3> QED
      BY <1>12, <2>4, <3>1, <3>2
  <2> QED
    BY <2>2, <2>3, <2>4
<1>16. Attributed'
  <2> SUFFICES ASSUME NEW d \in Domains, NEW r \in regions
               PROVE  Reached(d, r)' <=> Recorded(d, r)'
    BY <1>1 DEF Attributed
  <2>1. r \in RegionRecords /\ r.owner \in Procs /\ r.id \in Nat \ {0} /\ 0 \notin FramesOf(r)
    BY <1>3, FramesOfIs
  <2>2. Record(r.id, d) # NoRecord
    BY <2>1, RecordsAre
  <2>3. CASE d = e /\ r = q
    <3>1. first \in first..(first + n - 1)
      BY <1>4
    <3>2. Reached(d, r)'
      BY <1>4, <1>12, <1>14, <2>3, <3>1 DEF Reached
    <3>3. dma'[r.owner][slot] = Record(r.id, d)
      BY <1>1, <1>8, <1>9, <2>3
    <3>4. Recorded(d, r)'
      BY <1>1, <3>3 DEF Recorded
    <3> QED
      BY <3>2, <3>4
  <2>4. CASE ~(d = e /\ r = q)
    <3>1. Record(r.id, d) # record
      <4>1. r # q => r.id # q.id
        BY DEF DmaInv, TablesInv, RegionsApart, Apart
      <4> QED
        BY <1>8, <2>4, <4>1, RecordsAre
    <3>2. Recorded(d, r)' <=> Recorded(d, r)
      <4>1. \A s \in 1..Slots : dma'[r.owner][s] = Record(r.id, d) <=> dma[r.owner][s] = Record(r.id, d)
        BY <1>6, <1>9, <2>1, <2>2, <3>1
      <4> QED
        BY <4>1 DEF Recorded
    <3>3. ASSUME NEW v \in Iovas
          PROVE  l1'[d][v] \in FramesOf(r) <=> l1[d][v] \in FramesOf(r)
      <4>1. CASE d # e
        BY <1>12, <4>1
      <4>2. CASE d = e
        <5>1. FramesOf(r) \cap FramesOf(q) = {}
          BY <2>4, <4>2 DEF DmaInv, TablesInv, RegionsApart, Apart
        <5> QED
          BY <1>12, <2>1, <4>2, <5>1
      <4> QED
        BY <4>1, <4>2
    <3>4. Reached(d, r)' <=> Reached(d, r)
      BY <1>13, <1>14, <3>3 DEF Reached
    <3> QED
      BY <1>13, <3>2, <3>4
  <2> QED
    BY <2>3, <2>4
<1>17. RecordsOwned'
  <2> SUFFICES ASSUME NEW a \in Procs, NEW s \in 1..Slots, dma'[a][s] # NoRecord
               PROVE  a \in alive /\ \E r \in regions : r.id = dma'[a][s].region /\ r.owner = a
    BY <1>1 DEF RecordsOwned
  <2>1. CASE a = p /\ s = slot
    BY <1>1, <1>8, <1>9, <2>1
  <2>2. CASE ~(a = p /\ s = slot)
    BY <1>9, <2>2 DEF DmaInv, ReachInv, RecordsOwned
  <2> QED
    BY <2>1, <2>2
<1>18. WorkOK'
  BY <1>2, <1>13 DEF DmaInv, WorkOK
<1>19. UnitInv'
  <2>1. pool' = pool
    BY <1>1
  <2>2. \A d \in Domains, v \in Iovas : l1[d][v] # 0 => l1'[d][v] = l1[d][v]
    BY <1>12
  <2> QED
    BY <1>1, <1>2, <1>3, <1>13, <2>1, <2>2, UnitAfter
<1> QED
  BY <1>12, <1>15, <1>16, <1>17, <1>18, <1>19 DEF DmaInv, ReachInv

(* A page was refused: the rollback is still to come, and what it will     *)
(* take back does not count as reach.                                      *)
LEMMA MapDmaRefused ==
  ASSUME DmaInv, NEW p \in Procs, NEW e \in Domains, NEW q \in regions, MapDma(p, e, q),
         NEW first, first = Min(Runs(e, Len(q.frames))),
         Refusals(doms[e], q, first) # {}
  PROVE  DmaInv'
<1>1. /\ Idle /\ p \in alive /\ q.owner = p /\ Runs(e, Len(q.frames)) # {}
      /\ UNCHANGED <<alive, regions, nextId, pool>>
      /\ UNCHANGED <<cached, ring, store, unacked>> /\ undone' = undone /\ panicked' = panicked
  BY DEF MapDma, unit
<1>2. PICK k : k = Min(Refusals(doms[e], q, first))
  OBVIOUS
<1>3. /\ doms' = [doms EXCEPT ![e] = GrantPage(PagesMapped(doms[e], q, first)[k - 1], q, k)]
      /\ l1' = [l1 EXCEPT ![e] = Installed(@, q, first, k - 1)]
      /\ work' = <<UndoStep(e, first, SubSeq(q.frames, 1, k))>>
      /\ dma' = dma
  BY <1>2 DEF MapDma
<1>4. /\ regions \subseteq RegionRecords /\ dma \in [Procs -> [1..Slots -> DmaRecords]]
      /\ doms \in [Domains -> DomainRecords] /\ panicked \in BOOLEAN
      /\ l1 \in [Domains -> [Iovas -> Frames \cup {0}]] /\ 0 \notin Frames
      /\ Iovas \subseteq Nat
  BY Sizes DEF DmaInv, TablesInv, CpuTypeOK, UnitInv, UnitTypeOK
<1>5. /\ first \in Iovas /\ first \in Nat /\ Len(q.frames) \in Nat \ {0}
      /\ \A i \in 1..Len(q.frames) : first + i - 1 \in Iovas /\ l1[e][first + i - 1] = 0
  BY <1>1, RunsIs
<1>6. /\ k \in 1..Len(q.frames) /\ \A b \in Refusals(doms[e], q, first) : k <= b
  <2>1. Refusals(doms[e], q, first) \subseteq 1..Len(q.frames)
    BY DEF Refusals
  <2>2. PICK bad : bad = Refusals(doms[e], q, first) /\ bad \subseteq Nat /\ bad # {}
    BY <2>1
  <2>3. Min(bad) \in bad /\ \A b \in bad : Min(bad) <= b
    BY <2>2, MinIs
  <2> QED
    BY <1>2, <2>1, <2>2, <2>3
<1>7. q \in RegionRecords /\ q.frames \in Seq(Frames)
  BY <1>4, FramesOfIs
<1>8. PICK n \in 0..Len(q.frames) : n = k - 1 /\ n \in Nat /\ n + 1 = k
  BY <1>5, <1>6
<1>9. PICK base \in DomainRecords :
        /\ base = PagesMapped(doms[e], q, first)[n]
        /\ \A m : m \in base.maps <=> m \in doms[e].maps \/ \E i \in 1..n : m = Page(q, first, i)
        /\ \A g \in base.grants : g \in doms[e].grants \/ \E i \in 1..n : g.frame = q.frames[i]
  <2>1. \A b \in Refusals(doms[e], q, first) : n < b
    <3>1. Refusals(doms[e], q, first) \subseteq 1..Len(q.frames)
      BY DEF Refusals
    <3> QED
      BY <1>5, <1>6, <1>8, <3>1
  <2>2. doms[e] \in DomainRecords
    BY <1>4
  <2> QED
    BY <1>5, <1>7, <2>1, <2>2, PagesMappedIs
<1>10. PICK dom \in DomainRecords :
         /\ dom = GrantPage(base, q, k) /\ dom.maps = base.maps
         /\ \A g \in dom.grants : g \in base.grants \/ g.frame = q.frames[k]
  BY <1>5, <1>6, <1>7, PageDoneIs
<1>11. /\ \A i \in 1..k : q.frames[i] \in FramesOf(q)
       /\ \A g \in dom.grants : g \in doms[e].grants \/ \E i \in 1..k : g.frame = q.frames[i]
  <2>1. \A i \in 1..k : q.frames[i] \in FramesOf(q)
    BY <1>5, <1>6, <1>7, RangeIs DEF FramesOf
  <2>2. k \in 1..k /\ \A i \in 1..n : i \in 1..k
    BY <1>5, <1>6, <1>8
  <2> QED
    BY <1>9, <1>10, <2>1, <2>2
<1>12. /\ TablesInv' /\ doms'[e] = dom
       /\ \A d \in Domains : d # e => l1'[d] = l1[d] /\ doms'[d] = doms[d]
       /\ \A v \in Iovas : v \notin first..(first + n - 1) => l1'[e][v] = l1[e][v]
       /\ \A v \in Iovas : v \in first..(first + n - 1) => l1[e][v] = 0
  <2>1. FreeAt(e, first, n)
    BY <1>5, <1>8 DEF FreeAt
  <2>2. PagesIn(dom, doms[e], q, first, n)
    BY <1>9, <1>10, <1>11 DEF PagesIn
  <2>3. doms' = [d \in Domains |-> IF d = e THEN dom ELSE doms[d]]
    BY <1>3, <1>4, <1>8, <1>9, <1>10
  <2>4. PICK tab : /\ tab = Installed(l1[e], q, first, n)
                   /\ l1' = [d \in Domains |-> IF d = e THEN tab ELSE l1[d]]
    BY <1>3, <1>4, <1>8
  <2>5. /\ UNCHANGED <<alive, regions, nextId, pool>> /\ first \in Nat
        /\ dma' \in [Procs -> [1..Slots -> DmaRecords]]
    BY <1>1, <1>3, <1>4, <1>5
  <2> QED
    BY <2>1, <2>2, <2>3, <2>4, <2>5, Mapping
<1>13. /\ Range(work) = {} /\ ~Waiting(work) /\ work \in Seq(Steps)
       /\ \A d, v : ~Doomed(d, v) /\ ~Suspect(d, v)
       /\ \A d \in Domains, r \in regions : Reached(d, r) <=> Recorded(d, r)
  BY <1>1, IdleIs
<1>14. PICK fs \in Seq(Frames) :
         /\ fs = SubSeq(q.frames, 1, k) /\ Len(fs) = k /\ Range(fs) = {q.frames[i] : i \in 1..k}
  <2>1. /\ SubSeq(q.frames, 1, k) \in Seq(Frames) /\ Len(SubSeq(q.frames, 1, k)) = k
        /\ \A i \in 1..k : SubSeq(q.frames, 1, k)[i] = q.frames[i]
    BY <1>5, <1>6, <1>7
  <2>2. PICK fs \in Seq(Frames) : /\ fs = SubSeq(q.frames, 1, k) /\ Len(fs) = k
                                  /\ \A i \in 1..k : fs[i] = q.frames[i]
    BY <2>1
  <2>3. Range(fs) = {fs[i] : i \in 1..k}
    <3>1. Range(fs) = {fs[i] : i \in 1..Len(fs)}
      BY RangeIs
    <3>2. Len(fs) = k
      BY <2>2
    <3> QED
      BY <3>1, <3>2
  <2>4. {fs[i] : i \in 1..k} = {q.frames[i] : i \in 1..k}
    BY <2>2
  <2> QED
    BY <2>2, <2>3, <2>4
<1>15. PICK x \in Steps : /\ x = UndoStep(e, first, fs) /\ x.do = "undo" /\ x.domain = e
                          /\ x.first = first /\ x.frames = fs
  <2>1. PICK x : x = UndoStep(e, first, fs)
    OBVIOUS
  <2>2. x \in [do : {"undo"}, domain : Domains, first : Nat, frames : Seq(Frames)]
    BY <1>5, <2>1 DEF UndoStep
  <2>3. x.do = "undo" /\ x.domain = e /\ x.first = first /\ x.frames = fs
    BY <2>1 DEF UndoStep
  <2> QED
    BY <2>1, <2>2, <2>3 DEF Steps
<1>16. /\ work' \in Seq(Steps) /\ Shape(work') /\ ~Waiting(work') /\ Range(work') = {x}
  <2>1. work' = <<x>>
    BY <1>3, <1>14, <1>15
  <2> QED
    BY <1>15, <2>1, ShapeOne
<1>17. Span(x) = first..(first + k - 1)
  BY <1>14, <1>15 DEF Span
<1>18. /\ \A d, v : Doomed(d, v)' <=> d = e /\ v \in first..(first + k - 1)
       /\ \A d, f : Suspect(d, f)' <=> d = e /\ \E i \in 1..k : f = q.frames[i]
  <2>1. \A d, v : Doomed(d, v)' <=> d = e /\ v \in Span(x)
    BY <1>15, <1>16 DEF Doomed, Undoing
  <2>2. \A d, f : Suspect(d, f)' <=> d = e /\ f \in Range(fs)
    BY <1>15, <1>16 DEF Suspect, Undoing
  <2> QED
    BY <1>14, <1>17, <2>1, <2>2
<1>19. ASSUME NEW v \in Iovas, v \in first..(first + k - 1) PROVE l1[e][v] = 0
  <2>1. v - first + 1 \in 1..Len(q.frames) /\ first + (v - first + 1) - 1 = v
    BY <1>4, <1>5, <1>6, <1>19
  <2> QED
    BY <1>5, <2>1
<1>20. GrantsMapped'
  <2> SUFFICES ASSUME NEW d \in Domains, NEW g \in doms'[d].grants
               PROVE  \/ Suspect(d, g.frame)'
                      \/ \E m \in doms'[d].maps : m.frame = g.frame /\ ~Doomed(d, m.iova)'
    BY DEF GrantsMapped
  <2>1. \A y \in doms[d].grants : \E m \in doms[d].maps : m.frame = y.frame
    BY <1>13 DEF DmaInv, ReachInv, GrantsMapped
  <2>2. CASE d # e
    BY <1>12, <1>18, <2>1, <2>2
  <2>3. CASE d = e /\ g \in doms[e].grants
    <3>1. PICK m \in doms[e].maps : m.frame = g.frame
      BY <2>1, <2>3
    <3>2. m.iova \in Iovas /\ m.frame \in Frames
      BY <1>4 DEF DomainRecords, Maps
    <3>3. l1[e][m.iova] = m.frame
      BY <3>2 DEF DmaInv, TablesInv, TablesAgree
    <3>4. ~Doomed(e, m.iova)'
      BY <1>4, <1>18, <1>19, <3>2, <3>3
    <3> QED
      BY <1>9, <1>10, <1>12, <2>3, <3>1, <3>4
  <2>4. CASE d = e /\ g \notin doms[e].grants
    BY <1>11, <1>12, <1>18, <2>4
  <2> QED
    BY <2>2, <2>3, <2>4
<1>21. ASSUME NEW d \in Domains, NEW v \in Iovas
       PROVE  IF d = e /\ v \in first..(first + k - 1) THEN l1[d][v] = 0
              ELSE l1'[d][v] = l1[d][v]
  <2>1. v \in first..(first + n - 1) => v \in first..(first + k - 1)
    BY <1>5, <1>8
  <2> QED
    BY <1>12, <1>19, <2>1
<1>22. Attributed'
  <2> SUFFICES ASSUME NEW d \in Domains, NEW r \in regions
               PROVE  Reached(d, r)' <=> Recorded(d, r)'
    BY <1>1 DEF Attributed
  <2>1. 0 \notin FramesOf(r)
    BY <1>4, FramesOfIs
  <2>2. Reached(d, r)' <=> Reached(d, r)
    BY <1>13, <1>18, <1>21, <2>1 DEF Reached
  <2>3. Recorded(d, r)' <=> Recorded(d, r)
    BY <1>3 DEF Recorded
  <2> QED
    BY <1>13, <2>2, <2>3
<1>23. RecordsOwned'
  BY <1>1, <1>3 DEF DmaInv, ReachInv, RecordsOwned
<1>24. WorkOK'
  BY <1>15, <1>16 DEF WorkOK, Owed
<1>25. UnitInv'
  <2>1. pool' = pool
    BY <1>1
  <2>2. \A d \in Domains, v \in Iovas : l1[d][v] # 0 => l1'[d][v] = l1[d][v]
    BY <1>21
  <2> QED
    BY <1>1, <1>4, <1>13, <1>16, <2>1, <2>2, UnitAfter
<1> QED
  BY <1>12, <1>20, <1>22, <1>23, <1>24, <1>25 DEF DmaInv, ReachInv

LEMMA DmaMapDma ==
  ASSUME DmaInv, NEW p \in Procs, NEW e \in Domains, NEW q \in regions, MapDma(p, e, q)
  PROVE  DmaInv'
<1>1. PICK first : first = Min(Runs(e, Len(q.frames)))
  OBVIOUS
<1>2. CASE Refusals(doms[e], q, first) = {}
  BY <1>1, <1>2, MapDmaDone
<1>3. CASE Refusals(doms[e], q, first) # {}
  BY <1>1, <1>3, MapDmaRefused
<1> QED
  BY <1>2, <1>3

LEMMA DmaUndoMap ==
  ASSUME DmaInv, UndoMap
  PROVE  DmaInv'
<1>1. /\ Doing("undo") /\ work' = Tail(work)
      /\ UNCHANGED <<alive, regions, nextId, pool>> /\ dma' = dma
      /\ UNCHANGED <<cached, ring, store, unacked>> /\ panicked' = panicked
  BY DEF UndoMap, unit
<1>2. /\ work \in Seq(Steps) /\ work # << >> /\ Shape(work)
      /\ Step \in Steps /\ Step \in Range(work) /\ Step.do = "undo"
      /\ Tail(work) \in Seq(Steps) /\ Shape(Tail(work)) /\ ~Waiting(Tail(work))
      /\ Range(work) = {Step} \cup Range(Tail(work))
      /\ \A x \in Range(work) : Owed(x) /\ ~Flushing(x)
      /\ ~Waiting(work)
  BY <1>1, DoingIs DEF DmaInv
<1>3. Range(Tail(work)) = {}
  <2>1. /\ Step = work[1] /\ Len(work) \in Nat \ {0} /\ Len(Tail(work)) = Len(work) - 1
    BY <1>2, RangeTail DEF Step
  <2>2. Len(work) = 1
    BY <1>2, <2>1 DEF Shape
  <2>3. PICK t \in Seq(Steps) : t = Tail(work) /\ Len(t) = 0
    <3>1. PICK t \in Seq(Steps) : t = Tail(work)
      BY <1>2
    <3>2. Len(t) = Len(work) - 1
      BY <2>1, <3>1
    <3> QED
      BY <2>2, <3>1, <3>2
  <2>4. Range(t) = {}
    BY <2>3, RangeIs
  <2> QED
    BY <2>3, <2>4
<1>dom. PICK e \in Domains : e = Step.domain
  BY <1>2, StepKinds
<1>4. PICK vs, F : e = Step.domain /\ vs = Span(Step) /\ F = Range(Step.frames)
  BY <1>dom
<1>5. PICK kept : kept = {m \in doms[e].maps : m.iova \notin vs}
  OBVIOUS
<1>6. PICK left : left = {g \in doms[e].grants : g.frame \in F => \E m \in kept : m.frame = g.frame}
  OBVIOUS
<1>7. PICK tab : tab = [v \in Iovas |-> IF v \in vs THEN 0 ELSE l1[e][v]]
  OBVIOUS
<1>8. /\ doms' = [doms EXCEPT ![e] = [grants |-> left, maps |-> kept]]
      /\ l1' = [l1 EXCEPT ![e] = tab]
      /\ undone' = undone \cup {<<e, v, l1[e][v]>> : v \in vs}
  BY <1>4, <1>5, <1>6, <1>7 DEF UndoMap, Span
<1>9. /\ regions \subseteq RegionRecords /\ dma \in [Procs -> [1..Slots -> DmaRecords]]
      /\ doms \in [Domains -> DomainRecords] /\ panicked \in BOOLEAN
      /\ l1 \in [Domains -> [Iovas -> Frames \cup {0}]] /\ 0 \notin Frames
  BY Sizes DEF DmaInv, TablesInv, CpuTypeOK, UnitInv, UnitTypeOK
<1>10. /\ tab \in [Iovas -> Frames \cup {0}]
       /\ \A v \in Iovas : tab[v] = IF v \in vs THEN 0 ELSE l1[e][v]
  BY <1>7, <1>9
<1>11. PICK dom \in DomainRecords :
         dom = [grants |-> left, maps |-> kept] /\ dom.grants = left /\ dom.maps = kept
  <2>1. doms[e].grants \subseteq Grants /\ doms[e].maps \subseteq Maps
    BY <1>9 DEF DomainRecords
  <2>2. left \subseteq Grants /\ kept \subseteq Maps
    BY <1>5, <1>6, <2>1
  <2>3. PICK dom : dom = [grants |-> left, maps |-> kept]
    OBVIOUS
  <2>4. dom.grants = left /\ dom.maps = kept
    BY <2>3
  <2>5. dom \in DomainRecords
    BY <2>2, <2>3 DEF DomainRecords
  <2> QED
    BY <2>3, <2>4, <2>5
<1>12. /\ doms' \in [Domains -> DomainRecords] /\ doms'[e] = dom
       /\ \A d \in Domains : d # e => doms'[d] = doms[d]
  <2>1. doms' = [doms EXCEPT ![e] = dom]
    BY <1>8, <1>11
  <2> QED
    BY <1>9, <2>1
<1>13. /\ l1' \in [Domains -> [Iovas -> Frames \cup {0}]] /\ l1'[e] = tab
       /\ \A d \in Domains : d # e => l1'[d] = l1[d]
  BY <1>8, <1>9, <1>10
<1>14. /\ \A d, v : Doomed(d, v) <=> d = e /\ v \in vs
       /\ \A d, f : Suspect(d, f) <=> d = e /\ f \in F
       /\ \A d, v : ~Doomed(d, v)' /\ ~Suspect(d, v)'
  <2>1. Range(work) = {Step} /\ Range(work') = {}
    BY <1>1, <1>2, <1>3
  <2> QED
    BY <1>2, <1>4, <2>1 DEF Doomed, Suspect, Undoing
<1>15. alive' = alive /\ regions' = regions /\ nextId' = nextId /\ pool' = pool
  BY <1>1
<1>16. CpuTypeOK' /\ RegionsApart'
  BY <1>1, <1>9, <1>12, <1>13, <1>15 DEF DmaInv, TablesInv, CpuTypeOK, RegionsApart
<1>17. TablesAgree'
  <2> SUFFICES ASSUME NEW d \in Domains, NEW v \in Iovas, NEW f \in Frames
               PROVE  l1'[d][v] = f <=> \E m \in doms'[d].maps : m.iova = v /\ m.frame = f
    BY DEF TablesAgree
  <2>1. l1[d][v] = f <=> \E m \in doms[d].maps : m.iova = v /\ m.frame = f
    BY DEF DmaInv, TablesInv, TablesAgree
  <2>2. CASE d # e
    BY <1>12, <1>13, <2>1, <2>2
  <2>3. CASE d = e
    <3>1. l1'[d][v] = f <=> l1[d][v] = f /\ v \notin vs
      BY <1>9, <1>10, <1>13, <2>3
    <3>2. (\E m \in doms'[d].maps : m.iova = v /\ m.frame = f)
            <=> v \notin vs /\ \E m \in doms[d].maps : m.iova = v /\ m.frame = f
      BY <1>5, <1>11, <1>12, <2>3
    <3> QED
      BY <2>1, <3>1, <3>2
  <2> QED
    BY <2>2, <2>3
<1>18. ReachLive'
  <2> SUFFICES ASSUME NEW d \in Domains
               PROVE  /\ \A v \in Iovas : l1'[d][v] # 0 =>
                           \E r \in regions : l1'[d][v] \in FramesOf(r)
                      /\ \A g \in doms'[d].grants : \E r \in regions : g.frame \in FramesOf(r)
    BY <1>15 DEF ReachLive
  <2>1. /\ \A v \in Iovas : l1[d][v] # 0 => \E r \in regions : l1[d][v] \in FramesOf(r)
        /\ \A g \in doms[d].grants : \E r \in regions : g.frame \in FramesOf(r)
    BY DEF DmaInv, TablesInv, ReachLive
  <2>2. CASE d # e
    BY <1>12, <1>13, <2>1, <2>2
  <2>3. CASE d = e
    <3>1. \A v \in Iovas : l1'[d][v] # 0 => l1'[d][v] = l1[d][v]
      BY <1>10, <1>13, <2>3
    <3>2. \A g \in doms'[d].grants : g \in doms[d].grants
      BY <1>6, <1>11, <1>12, <2>3
    <3> QED
      BY <2>1, <3>1, <3>2
  <2> QED
    BY <2>2, <2>3
<1>19. GrantsMapped'
  <2> SUFFICES ASSUME NEW d \in Domains, NEW g \in doms'[d].grants
               PROVE  \E m \in doms'[d].maps : m.frame = g.frame
    BY <1>14 DEF GrantsMapped
  <2>1. \A y \in doms[d].grants :
          Suspect(d, y.frame) \/ \E m \in doms[d].maps : m.frame = y.frame /\ ~Doomed(d, m.iova)
    BY DEF DmaInv, ReachInv, GrantsMapped
  <2>2. CASE d # e
    BY <1>12, <1>14, <2>1, <2>2
  <2>3. CASE d = e /\ g.frame \in F
    BY <1>6, <1>11, <1>12, <2>3
  <2>4. CASE d = e /\ g.frame \notin F
    <3>1. g \in doms[e].grants
      BY <1>6, <1>11, <1>12, <2>4
    <3>2. PICK m \in doms[e].maps : m.frame = g.frame /\ m.iova \notin vs
      BY <1>14, <2>1, <2>4, <3>1
    <3> QED
      BY <1>5, <1>11, <1>12, <2>4, <3>2
  <2> QED
    BY <2>2, <2>3, <2>4
<1>20. Attributed'
  <2> SUFFICES ASSUME NEW d \in Domains, NEW r \in regions
               PROVE  Reached(d, r)' <=> Recorded(d, r)'
    BY <1>1 DEF Attributed
  <2>1. r \in RegionRecords /\ 0 \notin FramesOf(r) /\ FreeStep(r).do = "free"
    BY <1>9, FramesOfIs, StepsAre
  <2>2. FreeStep(r) \notin Range(work)
    BY <1>2, <1>3, <2>1
  <2>3. Reached(d, r) <=> Recorded(d, r)
    BY <2>2 DEF DmaInv, ReachInv, Attributed
  <2>4. Reached(d, r)' <=> Reached(d, r)
    <3>1. \A v \in Iovas : l1'[d][v] \in FramesOf(r) <=> l1[d][v] \in FramesOf(r) /\ ~Doomed(d, v)
      BY <1>10, <1>13, <1>14, <2>1
    <3> QED
      BY <1>14, <3>1 DEF Reached
  <2>5. Recorded(d, r)' <=> Recorded(d, r)
    BY <1>1 DEF Recorded
  <2> QED
    BY <2>3, <2>4, <2>5
<1>21. RecordsOwned'
  BY <1>1 DEF DmaInv, ReachInv, RecordsOwned
<1>22. WorkOK'
  BY <1>1, <1>2, <1>3 DEF WorkOK
<1>23. UnitInv'
  <2>1. \A d \in Domains, v \in Iovas :
          l1'[d][v] = l1[d][v] \/ <<d, v, l1[d][v]>> \in undone'
    BY <1>8, <1>10, <1>13
  <2>2. undone \subseteq undone'
    BY <1>8
  <2>3. \A d \in Domains : FlushStep(d) \notin Range(work)
    BY <1>2, StepsAre DEF Flushing
  <2> QED
    BY <1>1, <1>2, <1>9, <1>15, <2>1, <2>2, <2>3, UnitAfter
<1> QED
  BY <1>16, <1>17, <1>18, <1>19, <1>20, <1>21, <1>22, <1>23 DEF DmaInv, TablesInv, ReachInv

-----------------------------------------------------------------------------
(* The theorems. *)

LEMMA DmaStart == Init => DmaInv
<1> SUFFICES ASSUME Init PROVE DmaInv
  OBVIOUS
<1>1. /\ alive = Procs /\ regions = {} /\ nextId = 1 /\ pool = Frames
      /\ dma = [p \in Procs |-> [s \in 1..Slots |-> NoRecord]]
      /\ doms = [d \in Domains |-> EmptyDomain]
      /\ l1 = [d \in Domains |-> [v \in Iovas |-> 0]]
      /\ cached = [d \in Domains |-> {}]
      /\ ring = << >> /\ store = FALSE /\ work = << >> /\ unacked = 0 /\ panicked = FALSE
  BY DEF Init
<1>2. EmptyDomain \in DomainRecords /\ EmptyDomain.grants = {} /\ EmptyDomain.maps = {}
  BY DEF EmptyDomain, DomainRecords
<1>3. CpuTypeOK
  BY <1>1, <1>2, RecordsAre, FS_EmptySet DEF CpuTypeOK
<1>4. RegionsApart /\ ReachLive /\ GrantsMapped /\ Attributed /\ RecordsOwned
  BY <1>1, <1>2 DEF RegionsApart, ReachLive, GrantsMapped, Attributed, RecordsOwned
<1>5. TablesAgree
  BY <1>1, <1>2, Sizes DEF TablesAgree
<1>6. WorkOK
  <2>1. work \in Seq(Steps) /\ Range(work) = {} /\ Len(work) = 0
    BY <1>1, RangeNone
  <2> QED
    BY <2>1 DEF WorkOK, Shape
<1>7. UnitInv
  <2>1. UnitTypeOK
    <3>1. cached \in [Domains -> SUBSET (Iovas \X Frames)]
      BY <1>1
    <3>2. ring \in Seq(Commands) /\ unacked \in Nat
      BY <1>1
    <3>3. store \in BOOLEAN /\ panicked \in BOOLEAN
      BY <1>1
    <3> QED
      BY <3>1, <3>2, <3>3 DEF UnitTypeOK
  <2>2. RingOK
    BY <1>1 DEF RingOK, Waiting
  <2>3. CachedKnown /\ PoolCached
    BY <1>1 DEF CachedKnown, PoolCached
  <2> QED
    BY <2>1, <2>2, <2>3 DEF UnitInv
<1> QED
  BY <1>3, <1>4, <1>5, <1>6, <1>7 DEF DmaInv, TablesInv, ReachInv

LEMMA DmaStutter == DmaInv /\ UNCHANGED vars => DmaInv'
<1> SUFFICES ASSUME DmaInv, UNCHANGED vars PROVE DmaInv'
  OBVIOUS
<1>1. /\ UNCHANGED <<cpu, work>> /\ cached' = cached /\ ring' = ring /\ store' = store
      /\ unacked' = unacked /\ undone' = undone /\ panicked' = panicked /\ l1' = l1
      /\ pool' = pool /\ work' = work
  BY DEF vars, cpu, unit
<1>2. UnitInv'
  BY <1>1 DEF DmaInv, UnitInv, UnitTypeOK, RingOK, CachedKnown, PoolCached, Pending
<1> QED
  BY <1>1, <1>2, UnitAside DEF DmaInv

(* The accounts of reach stay in the relation DmaInv states, at every step *)
(* of every handler and whenever the unit or a device moves.               *)
THEOREM DmaSafe == Spec => []DmaInv
<1>1. ASSUME DmaInv, Next PROVE DmaInv'
  <2>1. ASSUME NEW p \in Procs, Syscall(p) PROVE DmaInv'
    BY <1>1, <2>1, DmaMakeRegion, DmaFreeRegion, DmaMapDma, DmaUnmapDma, DmaTeardown DEF Syscall
  <2>2. CASE Handler
    BY <1>1, <2>2, DmaUndoMap, DmaRelease, DmaFreeFrames, DmaReap, DmaInvalidate, DmaAwaited
       DEF Handler
  <2> QED
    BY <1>1, <2>1, <2>2, DmaUnitStep, DmaWalk DEF Next
<1> QED
  BY <1>1, DmaStart, DmaStutter, PTL DEF Spec

(* Between two calls the page table a device walks and the domain model    *)
(* that decides about it hold the same translations, after refused and     *)
(* rolled back MAP_DMA calls and deaths as well.                           *)
THEOREM HardwareAlwaysAgrees == Spec => []HardwareAgrees
<1>1. DmaInv => HardwareAgrees
  <2> SUFFICES ASSUME DmaInv, NEW d \in Domains
               PROVE  Present(d) = {<<m.iova, m.frame>> : m \in doms[d].maps}
    BY DEF HardwareAgrees
  <2>1. l1[d] \in [Iovas -> Frames \cup {0}] /\ doms[d] \in DomainRecords /\ 0 \notin Frames
    BY Sizes DEF DmaInv, TablesInv, CpuTypeOK
  <2>2. \A m \in doms[d].maps : m.iova \in Iovas /\ m.frame \in Frames
    BY <2>1 DEF DomainRecords, Maps
  <2>3. \A v \in Iovas, f \in Frames :
          l1[d][v] = f <=> \E m \in doms[d].maps : m.iova = v /\ m.frame = f
    BY DEF DmaInv, TablesInv, TablesAgree
  <2>4. ASSUME NEW v \in Iovas, l1[d][v] # 0
        PROVE  \E m \in doms[d].maps : m.iova = v /\ m.frame = l1[d][v]
    BY <2>1, <2>3, <2>4
  <2>5. ASSUME NEW m \in doms[d].maps
        PROVE  m.iova \in Iovas /\ l1[d][m.iova] = m.frame /\ l1[d][m.iova] # 0
    BY <2>1, <2>2, <2>3
  <2> QED
    BY <2>4, <2>5 DEF Present
<1> QED
  BY <1>1, DmaSafe, PTL

(* Between two calls reach, authority and attribution are one thing: a     *)
(* region has leaves in a domain exactly when its owner has a record of    *)
(* it, records are of live processes and regions, and no grant outlives    *)
(* the translations that rest on it.                                       *)
THEOREM ReachAlwaysAttributed == Spec => []ReachAttributed
<1>1. DmaInv => ReachAttributed
  <2> SUFFICES ASSUME DmaInv, Idle
               PROVE  /\ \A d \in Domains, r \in regions :
                           Leaves(l1[d], FramesOf(r)) # {}
                             <=> \E p \in alive, s \in 1..Slots : dma[p][s] = Record(r.id, d)
                      /\ \A p \in Procs, s \in 1..Slots : dma[p][s] # NoRecord =>
                           p \in alive /\ \E r \in regions : r.id = dma[p][s].region
                      /\ \A d \in Domains : \A g \in doms[d].grants :
                           /\ \E r \in regions : g.frame \in FramesOf(r)
                           /\ \E m \in doms[d].maps : m.frame = g.frame
    BY DEF ReachAttributed
  <2>1. /\ \A d, v : ~Doomed(d, v) /\ ~Suspect(d, v)
        /\ \A d \in Domains, r \in regions : Reached(d, r) <=> Recorded(d, r)
    BY IdleIs
  <2>2. \A p \in Procs, s \in 1..Slots : dma[p][s] # NoRecord =>
          p \in alive /\ \E r \in regions : r.id = dma[p][s].region /\ r.owner = p
    BY DEF DmaInv, ReachInv, RecordsOwned
  <2>3. \A d \in Domains : \A g \in doms[d].grants :
          /\ \E r \in regions : g.frame \in FramesOf(r)
          /\ \E m \in doms[d].maps : m.frame = g.frame
    BY <2>1 DEF DmaInv, TablesInv, ReachLive, ReachInv, GrantsMapped
  <2>4. ASSUME NEW d \in Domains, NEW r \in regions
        PROVE  Leaves(l1[d], FramesOf(r)) # {}
                 <=> \E p \in alive, s \in 1..Slots : dma[p][s] = Record(r.id, d)
    <3>1. r \in RegionRecords /\ r.owner \in Procs /\ r.id \in Nat \ {0} /\ alive \subseteq Procs
      BY FramesOfIs DEF DmaInv, TablesInv, CpuTypeOK
    <3>2. Record(r.id, d) # NoRecord /\ Record(r.id, d).region = r.id
      BY <3>1, RecordsAre
    <3>3. Leaves(l1[d], FramesOf(r)) # {} <=> Reached(d, r)
      BY <2>1 DEF Leaves, Reached
    <3>4. ASSUME NEW s \in 1..Slots, dma[r.owner][s] = Record(r.id, d) PROVE r.owner \in alive
      BY <2>2, <3>1, <3>2, <3>4
    <3>5. ASSUME NEW p \in alive, NEW s \in 1..Slots, dma[p][s] = Record(r.id, d)
          PROVE  p = r.owner
      <4>1. PICK q \in regions : q.id = r.id /\ q.owner = p
        BY <2>2, <3>1, <3>2, <3>5
      <4> QED
        BY <4>1 DEF DmaInv, TablesInv, RegionsApart, Apart
    <3> QED
      BY <2>1, <3>3, <3>4, <3>5 DEF Recorded
  <2> QED
    BY <2>2, <2>3, <2>4
<1> QED
  BY <1>1, DmaSafe, PTL

(* A frame back in the pool is reached by no walk, and by a cached         *)
(* translation only after an unanswered invalidation or a rolled back      *)
(* MAP_DMA.                                                                *)
THEOREM ReclaimedNeverReached == Spec => []ReclaimedUnreached
<1>1. DmaInv => ReclaimedUnreached
  <2> SUFFICES ASSUME DmaInv, NEW d \in Domains
               PROVE  /\ Leaves(l1[d], pool) = {}
                      /\ unacked = 0 =>
                           \A x \in cached[d] : x[2] \in pool => <<d, x[1], x[2]>> \in undone
    BY DEF ReclaimedUnreached
  <2>1. pool \subseteq Frames /\ 0 \notin Frames
    BY Sizes DEF DmaInv, TablesInv, CpuTypeOK
  <2>2. ASSUME NEW v \in Iovas, l1[d][v] \in pool PROVE FALSE
    <3>1. PICK r \in regions : l1[d][v] \in FramesOf(r)
      BY <2>1, <2>2 DEF DmaInv, TablesInv, ReachLive
    <3> QED
      BY <2>2, <3>1 DEF DmaInv, TablesInv, RegionsApart
  <2>3. Leaves(l1[d], pool) = {}
    BY <2>2 DEF Leaves
  <2>4. ASSUME unacked = 0, NEW x \in cached[d], x[2] \in pool
        PROVE  <<d, x[1], x[2]>> \in undone
    <3>1. x \in Iovas \X Frames
      BY DEF DmaInv, UnitInv, UnitTypeOK
    <3>2. x = <<x[1], x[2]>> /\ x[1] \in Iovas
      BY <3>1
    <3> QED
      BY <2>4, <3>2 DEF DmaInv, UnitInv, PoolCached
  <2> QED
    BY <2>3, <2>4
<1> QED
  BY <1>1, DmaSafe, PTL
=============================================================================
