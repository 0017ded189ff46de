----------------------------- MODULE IommuProofs -----------------------------
(***************************************************************************)
(* The containment property of crates/iommu for every set of frames,       *)
(* addresses and rights and every capacity.                                *)
(*                                                                         *)
(* Contained is not inductive alone: `granted` answers with the rights of  *)
(* SOME grant of a frame, so a narrowing re-grant is sound only because    *)
(* the frame has one grant.  The induction is on all three invariants.     *)
(***************************************************************************)
EXTENDS IommuBoot, FiniteSetTheorems, SequenceTheorems, WellFoundedInduction, TLAPS

Entries(FF, RR) == [frame : FF, rights : SUBSET RR]
Translations(FF, VV, RR) == [iova : VV, frame : FF, rights : SUBSET RR]

(* The inductive invariant, of one domain d over some frames, addresses and *)
(* rights.                                                                 *)
Sound(d, FF, VV, RR) ==
  /\ d \in [grants : SUBSET Entries(FF, RR), maps : SUBSET Translations(FF, VV, RR)]
  /\ IsFiniteSet(d.grants) /\ Cardinality(d.grants) <= G
  /\ IsFiniteSet(d.maps) /\ Cardinality(d.maps) <= M
  /\ \A g, h \in d.grants : g.frame = h.frame => g = h
  /\ \A m, n \in d.maps : m.iova = n.iova => m = n
  /\ \A m \in d.maps : \E g \in d.grants : /\ g.frame = m.frame
                                           /\ m.rights \subseteq g.rights

(* Where a frame has one grant, `granted` answers with that grant's rights. *)
LEMMA OneGrant ==
  ASSUME NEW FF, NEW VV, NEW RR, NEW d, Sound(d, FF, VV, RR), NEW g \in d.grants
  PROVE  /\ Granted(d, g.frame)
         /\ RightsOn(d, g.frame) = g.rights
  <1>1. GrantsOf(d, g.frame) = {g}
    BY DEF Sound, GrantsOf
  <1>2. QED
    BY <1>1 DEF Granted, RightsOn

(* Sound is TypeOK, Unambiguous and Contained together. *)
LEMMA SoundContained ==
  ASSUME NEW FF, NEW VV, NEW RR, NEW d, Sound(d, FF, VV, RR)
  PROVE  Contained(d)
  <1>1. ASSUME NEW m \in d.maps
        PROVE  /\ Granted(d, m.frame)
               /\ m.rights \subseteq RightsOn(d, m.frame)
    <2>1. PICK g \in d.grants : g.frame = m.frame /\ m.rights \subseteq g.rights
      BY DEF Sound
    <2>2. QED
      BY <2>1, OneGrant
  <1>2. QED
    BY <1>1 DEF Contained

LEMMA SoundMeaning ==
  ASSUME Sound(dom, Frames, Iovas, Rights)
  PROVE  TypeOK /\ Unambiguous /\ ReachWithinGrants
  <1>1. TypeOK
    BY DEF Sound, TypeOK, Entries, Translations
  <1>2. Unambiguous
    BY DEF Sound, Unambiguous
  <1>3. QED
    BY <1>1, <1>2, SoundContained DEF ReachWithinGrants

(* A smaller table is finite and fits. *)
LEMMA Shrink ==
  ASSUME NEW S, IsFiniteSet(S), NEW T, T \subseteq S, NEW n \in Nat,
         Cardinality(S) <= n
  PROVE  IsFiniteSet(T) /\ Cardinality(T) <= n
  <1>1. IsFiniteSet(T) /\ Cardinality(T) <= Cardinality(S)
    BY FS_Subset
  <1>2. Cardinality(S) \in Nat /\ Cardinality(T) \in Nat
    BY <1>1, FS_CardinalityType
  <1>3. QED
    BY <1>1, <1>2

(* A table that is not full has room for one more entry. *)
LEMMA Grow ==
  ASSUME NEW S, IsFiniteSet(S), NEW x, NEW n \in Nat, Cardinality(S) < n
  PROVE  IsFiniteSet(S \cup {x}) /\ Cardinality(S \cup {x}) <= n
  <1>1. IsFiniteSet(S \cup {x})
    BY FS_AddElement
  <1>2. Cardinality(S \cup {x}) = Cardinality(S)
          \/ Cardinality(S \cup {x}) = Cardinality(S) + 1
    BY FS_AddElement
  <1>3. Cardinality(S) \in Nat
    BY FS_CardinalityType
  <1>4. QED
    BY <1>1, <1>2, <1>3

(* `unmap` and `revoke` only remove; what stays keeps its grant. *)
LEMMA UnmapSound ==
  ASSUME NEW FF, NEW VV, NEW RR, NEW d, Sound(d, FF, VV, RR), NEW v
  PROVE  Sound(Unmap(d, v), FF, VV, RR)
  <1> DEFINE ms == {m \in d.maps : m.iova # v}
  <1>1. Unmap(d, v).grants = d.grants /\ Unmap(d, v).maps = ms
    BY DEF Unmap, Sound
  <1>2. Unmap(d, v) \in [grants : SUBSET Entries(FF, RR), maps : SUBSET Translations(FF, VV, RR)]
    BY DEF Unmap, Sound
  <1>3. IsFiniteSet(ms) /\ Cardinality(ms) <= M
    BY Shrink, DomainAssumption DEF Sound
  <1>4. QED
    BY <1>1, <1>2, <1>3 DEF Sound

LEMMA RevokeSound ==
  ASSUME NEW FF, NEW VV, NEW RR, NEW d, Sound(d, FF, VV, RR), NEW f
  PROVE  Sound(RevokeFrame(d, f), FF, VV, RR)
  <1> DEFINE gs == {g \in d.grants : g.frame # f}
             ms == {m \in d.maps : m.frame # f}
  <1>1. RevokeFrame(d, f) = [grants |-> gs, maps |-> ms]
    BY DEF RevokeFrame, GrantsOf
  <1>2. gs \in SUBSET Entries(FF, RR) /\ ms \in SUBSET Translations(FF, VV, RR)
    BY DEF Sound
  <1>3. /\ IsFiniteSet(ms) /\ Cardinality(ms) <= M
        /\ IsFiniteSet(gs) /\ Cardinality(gs) <= G
    BY Shrink, DomainAssumption DEF Sound
  <1>4. ASSUME NEW m \in ms
        PROVE  \E g \in gs : g.frame = m.frame /\ m.rights \subseteq g.rights
    BY DEF Sound
  <1>5. \A g, h \in gs : g.frame = h.frame => g = h
    BY DEF Sound
  <1>6. \A m, n \in ms : m.iova = n.iova => m = n
    BY DEF Sound
  <1> HIDE DEF gs, ms
  <1>7. QED
    BY <1>1, <1>2, <1>3, <1>4, <1>5, <1>6 DEF Sound

(* `grant`: replacing keeps one grant per frame, and withdraws what the    *)
(* new rights no longer cover.                                             *)
LEMMA GrantSound ==
  ASSUME NEW FF, NEW VV, NEW RR, NEW d, Sound(d, FF, VV, RR), NEW f \in FF, NEW r \in SUBSET RR
  PROVE  Sound(Grant(d, f, r, G), FF, VV, RR)
  <1> DEFINE new == [frame |-> f, rights |-> r]
  <1>1. new \in Entries(FF, RR) /\ new.frame = f /\ new.rights = r
    BY DEF Entries
  <1>2. CASE Granted(d, f)
    <2> DEFINE rest == {g \in d.grants : g.frame # f}
               gs == rest \cup {new}
               ms == Covered(d.maps, f, r)
    <2>1. Grant(d, f, r, G) = [grants |-> gs, maps |-> ms]
      BY <1>2 DEF Grant, GrantsOf
    <2>2. gs \in SUBSET Entries(FF, RR) /\ ms \in SUBSET Translations(FF, VV, RR)
      BY <1>1 DEF Sound, Covered
    <2>3. IsFiniteSet(ms) /\ Cardinality(ms) <= M
      BY Shrink, DomainAssumption DEF Sound, Covered
    <2>4. IsFiniteSet(gs) /\ Cardinality(gs) <= G
      <3>1. PICK g \in d.grants : g.frame = f
        BY <1>2 DEF Granted, GrantsOf
      <3>2. rest \subseteq d.grants \ {g}
        BY <3>1
      <3>3. /\ IsFiniteSet(d.grants \ {g})
            /\ Cardinality(d.grants \ {g}) = Cardinality(d.grants) - 1
        BY <3>1, FS_RemoveElement DEF Sound
      <3>4. IsFiniteSet(rest) /\ Cardinality(rest) <= Cardinality(d.grants) - 1
        BY <3>2, <3>3, FS_Subset
      <3>5. Cardinality(rest) \in Nat /\ Cardinality(d.grants) \in Nat
        BY <3>4, FS_CardinalityType DEF Sound
      <3>6. Cardinality(rest) < G
        BY <3>4, <3>5, DomainAssumption DEF Sound
      <3> HIDE DEF rest, new
      <3>7. QED
        BY <3>4, <3>6, Grow, DomainAssumption
    <2>5. ASSUME NEW m \in ms
          PROVE  \E g \in gs : g.frame = m.frame /\ m.rights \subseteq g.rights
      <3>1. CASE m.frame = f
        BY <3>1, <1>1 DEF Covered
      <3>2. CASE m.frame # f
        BY <3>2 DEF Covered, Sound
      <3>3. QED
        BY <3>1, <3>2
    <2>6. \A g, h \in gs : g.frame = h.frame => g = h
      BY <1>1 DEF Sound
    <2>7. \A m, n \in ms : m.iova = n.iova => m = n
      BY DEF Sound, Covered
    <2> HIDE DEF gs, ms
    <2>8. QED
      BY <2>1, <2>2, <2>3, <2>4, <2>5, <2>6, <2>7 DEF Sound
  <1>3. CASE ~Granted(d, f) /\ Cardinality(d.grants) < G
    <2> DEFINE gs == d.grants \cup {new}
    <2>1. /\ Grant(d, f, r, G).grants = gs
          /\ Grant(d, f, r, G).maps = d.maps
          /\ Grant(d, f, r, G) \in [grants : SUBSET Entries(FF, RR),
                                    maps : SUBSET Translations(FF, VV, RR)]
      BY <1>1, <1>3 DEF Grant, Sound
    <2>2. IsFiniteSet(gs) /\ Cardinality(gs) <= G
      BY <1>3, Grow, DomainAssumption DEF Sound
    <2>3. \A g \in d.grants : g.frame # f
      BY <1>3 DEF Granted, GrantsOf
    <2>4. \A g, h \in gs : g.frame = h.frame => g = h
      BY <2>3, <1>1 DEF Sound
    <2>5. \A m \in d.maps : \E g \in gs : /\ g.frame = m.frame
                                          /\ m.rights \subseteq g.rights
      BY DEF Sound
    <2> HIDE DEF gs
    <2>6. QED
      BY <2>1, <2>2, <2>4, <2>5 DEF Sound
  <1>4. CASE ~Granted(d, f) /\ ~(Cardinality(d.grants) < G)
    BY <1>4 DEF Grant
  <1>5. QED
    BY <1>2, <1>3, <1>4

(* `map`: only what a grant covers, and only at a free address. *)
LEMMA MapSound ==
  ASSUME NEW FF, NEW VV, NEW RR, NEW d, Sound(d, FF, VV, RR), NEW v \in VV, NEW f \in FF,
         NEW r \in SUBSET RR
  PROVE  Sound(Map(d, v, f, r, M), FF, VV, RR)
  <1> DEFINE new == [iova |-> v, frame |-> f, rights |-> r]
             ms == d.maps \cup {new}
  <1>1. CASE MapAnswer(d, v, f, r, M) = "Ok"
    <2>1. /\ Granted(d, f)
          /\ r \subseteq RightsOn(d, f)
          /\ \A m \in d.maps : m.iova # v
          /\ ~(Cardinality(d.maps) >= M)
      BY <1>1 DEF MapAnswer
    <2>2. PICK g \in d.grants : g.frame = f
      BY <2>1 DEF Granted, GrantsOf
    <2>3. r \subseteq g.rights
      BY <2>1, <2>2, OneGrant
    <2>4. /\ Map(d, v, f, r, M).grants = d.grants
          /\ Map(d, v, f, r, M).maps = ms
          /\ Map(d, v, f, r, M) \in [grants : SUBSET Entries(FF, RR),
                                     maps : SUBSET Translations(FF, VV, RR)]
      BY <1>1 DEF Map, Sound, Translations
    <2>5. Cardinality(d.maps) < M
      BY <2>1, FS_CardinalityType, DomainAssumption DEF Sound
    <2>6. IsFiniteSet(ms) /\ Cardinality(ms) <= M
      BY <2>5, Grow, DomainAssumption DEF Sound
    <2>7. \A m, n \in ms : m.iova = n.iova => m = n
      BY <2>1 DEF Sound
    <2>8. \A m \in ms : \E h \in d.grants : /\ h.frame = m.frame
                                            /\ m.rights \subseteq h.rights
      BY <2>2, <2>3 DEF Sound
    <2> HIDE DEF ms
    <2>9. QED
      BY <2>4, <2>6, <2>7, <2>8 DEF Sound
  <1>2. CASE MapAnswer(d, v, f, r, M) # "Ok"
    BY <1>2 DEF Map
  <1>3. QED
    BY <1>1, <1>2

(* Each of the four operations keeps a domain sound; a stuttering step does *)
(* so because Sound speaks of the domain alone.                             *)
LEMMA StepSound ==
  ASSUME Sound(dom, Frames, Iovas, Rights), [Next]_vars
  PROVE  Sound(dom', Frames, Iovas, Rights)
  <1> USE DEF vars
  <1>stutter. dom' = dom => Sound(dom', Frames, Iovas, Rights)
    OBVIOUS
  <1>grant. (\E f \in Frames, r \in SUBSET Rights : DoGrant(f, r)) => Sound(dom', Frames, Iovas, Rights)
    BY GrantSound DEF DoGrant
  <1>revoke. (\E f \in Frames : DoRevoke(f)) => Sound(dom', Frames, Iovas, Rights)
    BY RevokeSound DEF DoRevoke
  <1>map. (\E v \in Iovas, f \in Frames, r \in SUBSET Rights : DoMap(v, f, r))
            => Sound(dom', Frames, Iovas, Rights)
    BY MapSound DEF DoMap
  <1>unmap. (\E v \in Iovas : DoUnmap(v)) => Sound(dom', Frames, Iovas, Rights)
    BY UnmapSound DEF DoUnmap
  <1> QED
    BY <1>stutter, <1>grant, <1>revoke, <1>map, <1>unmap DEF Next

LEMMA SoundInvariant == Spec => []Sound(dom, Frames, Iovas, Rights)
  <1>start. Init => Sound(dom, Frames, Iovas, Rights)
    <2>none. IsFiniteSet({}) /\ Cardinality({}) = 0
      BY FS_EmptySet
    <2> QED
      BY <2>none, DomainAssumption DEF Init, EmptyDomain, Sound
  <1>keep. Sound(dom, Frames, Iovas, Rights) /\ [Next]_vars => Sound(dom, Frames, Iovas, Rights)'
    BY StepSound DEF Sound
  <1> QED
    BY <1>start, <1>keep, PTL DEF Spec

(* No device reaches an address beyond its grants, for every capacity and  *)
(* every history of grants, narrowings, revocations and mappings.          *)
THEOREM Containment == Spec => []ReachWithinGrants
  <1>1. Sound(dom, Frames, Iovas, Rights) => ReachWithinGrants
    BY SoundMeaning
  <1>2. QED
    BY <1>1, SoundInvariant, PTL

(* Neither a frame's grant nor an address's translation is ambiguous. *)
THEOREM NoAmbiguity == Spec => [](TypeOK /\ Unambiguous)
  <1>1. Sound(dom, Frames, Iovas, Rights) => TypeOK /\ Unambiguous
    BY SoundMeaning
  <1>2. QED
    BY <1>1, SoundInvariant, PTL

(* No operation changes what an address of the device means. *)
SameMeaning(d, e) == \A m \in d.maps, n \in e.maps : m.iova = n.iova => m = n

LEMMA OperationsKeepMeaning ==
  ASSUME NEW FF, NEW VV, NEW RR, NEW d, Sound(d, FF, VV, RR), NEW v, NEW f, NEW r
  PROVE  /\ SameMeaning(d, d)
         /\ SameMeaning(d, Grant(d, f, r, G))
         /\ SameMeaning(d, RevokeFrame(d, f))
         /\ SameMeaning(d, Map(d, v, f, r, M))
         /\ SameMeaning(d, Unmap(d, v))
  <1>1. SameMeaning(d, d)
    BY DEF Sound, SameMeaning
  <1>2. ASSUME NEW e, e.maps \subseteq d.maps PROVE SameMeaning(d, e)
    BY <1>1, <1>2 DEF SameMeaning
  <1>3. Grant(d, f, r, G).maps \subseteq d.maps
    BY DEF Grant, Covered, Sound
  <1>4. RevokeFrame(d, f).maps \subseteq d.maps
    BY DEF RevokeFrame
  <1>5. Unmap(d, v).maps \subseteq d.maps
    BY DEF Unmap, Sound
  <1>6. SameMeaning(d, Map(d, v, f, r, M))
    <2>1. CASE MapAnswer(d, v, f, r, M) = "Ok"
      <3>1. \A m \in d.maps : m.iova # v
        BY <2>1 DEF MapAnswer
      <3>2. Map(d, v, f, r, M).maps = d.maps \cup {[iova |-> v, frame |-> f, rights |-> r]}
        BY <2>1 DEF Map, Sound
      <3>3. QED
        BY <1>1, <3>1, <3>2 DEF SameMeaning
    <2>2. CASE MapAnswer(d, v, f, r, M) # "Ok"
      BY <1>1, <2>2 DEF Map
    <2>3. QED
      BY <2>1, <2>2
  <1>7. QED
    BY <1>1, <1>2, <1>3, <1>4, <1>5, <1>6

LEMMA CallKeepsMeaning ==
  ASSUME NEW FF, NEW VV, NEW RR, Sound(dom, FF, VV, RR), Next
  PROVE  SameMeaning(dom, dom')
BY OperationsKeepMeaning DEF Next, DoGrant, DoRevoke, DoMap, DoUnmap

THEOREM AddressesKeepMeaning == Spec => NeverRepointed
  <1> DEFINE Same == \A m \in dom.maps, n \in dom'.maps : m.iova = n.iova => m = n
  <1>1. Sound(dom, Frames, Iovas, Rights) /\ [Next]_vars => [Same]_vars
    BY CallKeepsMeaning DEF SameMeaning
  <1>2. QED
    BY <1>1, SoundInvariant, PTL DEF Spec, NeverRepointed

-----------------------------------------------------------------------------
(* Recursion over positions.                                               *)

(* What holds at 0 and goes from each position to the next holds at all. *)
LEMMA Induct ==
  ASSUME NEW n \in Nat, NEW P, 0 \in P, \A k \in 1..n : k - 1 \in P => k \in P
  PROVE  \A k \in 0..n : k \in P
<1> SUFFICES ASSUME NEW j \in 0..n, j \notin P PROVE FALSE
  OBVIOUS
<1> DEFINE Bad == {k \in 0..n : k \notin P}
<1>1. Bad \in SUBSET Nat /\ j \in Bad
  OBVIOUS
<1>2. \E m \in Bad : \A k \in Bad : ~(<<k, m>> \in OpToRel(<, Nat))
  BY <1>1, NatLessThanWellFounded, WFMin
<1>3. PICK m \in Bad : \A k \in Bad : ~(<<k, m>> \in OpToRel(<, Nat))
  BY <1>2
<1>4. m \in 1..n
  <2>1. m \in 0..n /\ m \notin P
    BY <1>3
  <2>2. m # 0
    BY <2>1
  <2> QED
    BY <2>1, <2>2
<1>5. m - 1 \in 0..n /\ m - 1 < m /\ m \in Nat
  BY <1>4
<1>6. <<m - 1, m>> \in OpToRel(<, Nat)
  BY <1>5 DEF OpToRel
<1> QED
  BY <1>3, <1>4, <1>5, <1>6

(* A recursive function over positions exists. *)
StepFns(S, n) == [(1..n) \X S -> S]
Recurs(f, S, n, s0, h) ==
  f \in [0..n -> S] /\ f[0] = s0 /\ \A k \in 1..n : f[k] = h[<<k, f[k - 1]>>]

LEMMA PrimRec ==
  ASSUME NEW S, NEW n \in Nat, NEW s0 \in S, NEW h \in StepFns(S, n)
  PROVE  \E f : Recurs(f, S, n, s0, h)
<1> DEFINE Upto(m, f) == /\ f \in [0..m -> S] /\ f[0] = s0
                         /\ \A k \in 1..m : f[k] = h[<<k, f[k - 1]>>]
           P == {m \in 0..n : \E f : Upto(m, f)}
<1>1. 0 \in P
  <2>1. Upto(0, [k \in 0..0 |-> s0])
    OBVIOUS
  <2> HIDE DEF Upto
  <2> QED
    BY <2>1
<1>2. ASSUME NEW m \in 1..n, m - 1 \in P PROVE m \in P
  <2>1. PICK f : Upto(m - 1, f)
    BY <1>2
  <2> DEFINE g == [k \in 0..m |-> IF k = m THEN h[<<m, f[m - 1]>>] ELSE f[k]]
  <2>2. f[m - 1] \in S /\ m - 1 \in 0..(m - 1)
    BY <2>1
  <2>3. h[<<m, f[m - 1]>>] \in S
    BY <2>2 DEF StepFns
  <2>4. g \in [0..m -> S]
    BY <2>1, <2>3
  <2>5. g[0] = s0
    BY <2>1
  <2>6. \A k \in 1..m : g[k] = h[<<k, g[k - 1]>>]
    <3> SUFFICES ASSUME NEW k \in 1..m PROVE g[k] = h[<<k, g[k - 1]>>]
      OBVIOUS
    <3>1. k - 1 \in 0..(m - 1) /\ g[k - 1] = f[k - 1]
      OBVIOUS
    <3>2. CASE k = m
      <4>1. g[m] = h[<<m, f[m - 1]>>]
        OBVIOUS
      <4> HIDE DEF g
      <4> QED
        BY <3>1, <3>2, <4>1
    <3>3. CASE k # m
      <4>1. k \in 1..(m - 1) /\ g[k] = f[k]
        BY <3>3
      <4> QED
        BY <2>1, <3>1, <4>1
    <3> QED
      BY <3>2, <3>3
  <2>7. Upto(m, g)
    BY <2>4, <2>5, <2>6
  <2> HIDE DEF Upto, g
  <2> QED
    BY <2>7
<1> HIDE DEF P
<1>3. n \in P
  BY <1>1, <1>2, Induct
<1> QED
  BY <1>3 DEF P, Recurs

-----------------------------------------------------------------------------
(* The walk over config space.                                             *)

(* Every function has a number of its own. *)
Numbered(F) == /\ IsFiniteSet(F)
               /\ \A f \in F : Bdf(f) \in Nat
               /\ \A f, g \in F : Bdf(f) = Bdf(g) => f = g

(* A sequence in the order of the numbers. *)
Rising(s) == \A i, j \in 1..Len(s) : i < j => Bdf(s[i]) < Bdf(s[j])

Has(s, x) == \E i \in 1..Len(s) : s[i] = x

(* The scan asks every function once, lowest number first. *)
LEMMA ScanOrderLists ==
  ASSUME NEW F, Numbered(F)
  PROVE  /\ ScanOrder(F) \in Seq(F) /\ Rising(ScanOrder(F))
         /\ \A x \in F : Has(ScanOrder(F), x)
<1> DEFINE n == Cardinality(F)
           Below(x) == {y \in F : Bdf(y) < Bdf(x)}
           rank == [x \in F |-> Cardinality(Below(x))]
<1>1. /\ IsFiniteSet(F) /\ n \in Nat
      /\ \A x \in F : Bdf(x) \in Nat
  BY FS_CardinalityType DEF Numbered
<1>1a. \A x \in F : IsFiniteSet(Below(x)) /\ Cardinality(Below(x)) \in Nat
  BY <1>1, FS_Subset, FS_CardinalityType
<1>2. ASSUME NEW x \in F PROVE Cardinality(Below(x)) \in 0..(n - 1)
  <2>1. /\ Cardinality(Below(x)) <= n
        /\ n = Cardinality(Below(x)) => F = Below(x)
    BY <1>1, FS_Subset
  <2>2. x \notin Below(x)
    BY <1>1
  <2> HIDE DEF Below
  <2>3. n # Cardinality(Below(x))
    BY <2>1, <2>2
  <2> QED
    BY <1>1, <1>1a, <2>1, <2>3
<1>3. ASSUME NEW u \in F, NEW v \in F, Bdf(u) < Bdf(v)
      PROVE  Cardinality(Below(u)) < Cardinality(Below(v))
  <2>1. Below(u) \in SUBSET Below(v)
    BY <1>1, <1>3
  <2>2. u \in Below(v) /\ u \notin Below(u)
    BY <1>1, <1>3
  <2>3. /\ Cardinality(Below(u)) <= Cardinality(Below(v))
        /\ Cardinality(Below(u)) = Cardinality(Below(v)) => Below(u) = Below(v)
    BY <1>1a, <2>1, FS_Subset
  <2> HIDE DEF Below
  <2> QED
    BY <1>1a, <2>2, <2>3
<1>4. ASSUME NEW x \in F, NEW z \in F,
             Cardinality(Below(x)) = Cardinality(Below(z))
      PROVE  x = z
  <2>1. Bdf(x) < Bdf(z) \/ Bdf(z) < Bdf(x) \/ Bdf(x) = Bdf(z)
    BY <1>1
  <2> HIDE DEF Below
  <2>2. CASE Bdf(x) < Bdf(z)
    BY <1>1a, <1>3, <1>4, <2>2
  <2>3. CASE Bdf(z) < Bdf(x)
    BY <1>1a, <1>3, <1>4, <2>3
  <2>4. CASE Bdf(x) = Bdf(z)
    BY <2>4 DEF Numbered
  <2> QED
    BY <2>1, <2>2, <2>3, <2>4
<1> HIDE DEF Below
<1>5. rank \in Surjection(F, 0..(n - 1))
  <2>1. rank \in Injection(F, 0..(n - 1))
    BY <1>2, <1>4 DEF Injection, IsInjective
  <2>2. IsFiniteSet(0..(n - 1)) /\ Cardinality(0..(n - 1)) = n
    BY <1>1, FS_Interval
  <2> QED
    BY <1>1, <2>1, <2>2, FS_Injection
<1> DEFINE s == ScanOrder(F)
<1>6. ASSUME NEW k \in 1..n
      PROVE  s[k] \in F /\ Cardinality(Below(s[k])) = k - 1
  <2>1. k - 1 \in 0..(n - 1)
    BY <1>1
  <2>2. \E x \in F : rank[x] = k - 1
    BY <1>5, <2>1 DEF Surjection
  <2>3. \E x \in F : Cardinality(Below(x)) = k - 1
    BY <2>2
  <2>4. s[k] = CHOOSE x \in F : Cardinality(Below(x)) = k - 1
    BY DEF ScanOrder, Below
  <2> HIDE DEF s
  <2> QED
    BY <2>3, <2>4
<1>7. s = [k \in 1..n |-> s[k]]
  <2> DEFINE E(k) == CHOOSE x \in F : Cardinality({y \in F : Bdf(y) < Bdf(x)}) = k - 1
  <2>1. s = [k \in 1..n |-> E(k)]
    BY DEF ScanOrder
  <2> HIDE DEF s, n, E
  <2> QED
    BY <2>1
<1> HIDE DEF s, n
<1>8. s \in [1..n -> F]
  BY <1>6, <1>7
<1>9. s \in Seq(F) /\ Len(s) = n
  BY <1>1, <1>8 DEF n
<1>10. Rising(s)
  <2> SUFFICES ASSUME NEW i \in 1..n, NEW j \in 1..n, i < j
               PROVE  Bdf(s[i]) < Bdf(s[j])
    BY <1>9 DEF Rising
  <2>1. s[i] \in F /\ s[j] \in F /\ Bdf(s[i]) \in Nat /\ Bdf(s[j]) \in Nat
    BY <1>1, <1>6
  <2>2. Cardinality(Below(s[i])) = i - 1 /\ Cardinality(Below(s[j])) = j - 1
    BY <1>6
  <2>3. n \in Nat
    BY <1>1 DEF n
  <2>4. i \in Nat /\ j \in Nat /\ i - 1 < j - 1
    BY <2>3
  <2>5. CASE Bdf(s[j]) < Bdf(s[i])
    <3>1. Cardinality(Below(s[j])) < Cardinality(Below(s[i]))
      BY <1>3, <2>1, <2>5
    <3> QED
      BY <2>2, <2>4, <3>1
  <2>6. CASE Bdf(s[j]) = Bdf(s[i])
    <3>1. s[i] = s[j]
      BY <2>1, <2>6 DEF Numbered
    <3> QED
      BY <2>2, <2>4, <3>1
  <2> QED
    BY <2>1, <2>5, <2>6
<1>11. ASSUME NEW x \in F PROVE Has(s, x)
  <2> DEFINE k == Cardinality(Below(x)) + 1
  <2>1. k \in 1..n /\ k - 1 = Cardinality(Below(x))
    BY <1>1, <1>1a, <1>2 DEF n
  <2> HIDE DEF k
  <2>2. s[k] = x
    BY <1>4, <1>6, <2>1
  <2> QED
    BY <1>9, <2>1, <2>2 DEF Has
<1> QED
  BY <1>9, <1>10, <1>11 DEF s

(* What a walk over the functions F may have come to. *)
Walks(F) == [buses : Seq(Nat), out : Seq(F), truncated : BOOLEAN]
Wired(F) == \A f \in F : f.secondary \in Nat

(* A later walk: longer, and no bus it adds is the root bus. *)
Grown(v, w) ==
  /\ Len(v.buses) <= Len(w.buses)
  /\ \A j \in 1..Len(v.buses) : w.buses[j] = v.buses[j]
  /\ \A j \in 1..Len(w.buses) : j > Len(v.buses) => w.buses[j] # 0
  /\ Len(v.buses) <= MaxBuses => Len(w.buses) <= MaxBuses
  /\ Len(v.out) <= Len(w.out)
  /\ \A j \in 1..Len(v.out) : w.out[j] = v.out[j]
  /\ v.truncated => w.truncated

(* A function that the walk has, with the bus behind it. *)
Done(w, f) ==
  \/ w.truncated
  \/ /\ Has(w.out, f)
     /\ f.kind = "bridge" /\ f.secondary # 0 => Has(w.buses, f.secondary)

LEMMA SetOfSeq ==
  ASSUME NEW S, NEW s \in Seq(S), NEW x
  PROVE  x \in ToSet(s) <=> Has(s, x)
BY DEF ToSet, Has

LEMMA GrownRefl ==
  ASSUME NEW F, NEW w \in Walks(F)
  PROVE  Grown(w, w)
BY DEF Grown, Walks

LEMMA GrownTrans ==
  ASSUME NEW F, NEW u \in Walks(F), NEW v \in Walks(F), NEW w \in Walks(F),
         Grown(u, v), Grown(v, w)
  PROVE  Grown(u, w)
<1>1. /\ Len(u.buses) \in Nat /\ Len(v.buses) \in Nat /\ Len(w.buses) \in Nat
      /\ Len(u.out) \in Nat /\ Len(v.out) \in Nat /\ Len(w.out) \in Nat
  BY DEF Walks
<1>2. /\ Len(u.buses) <= Len(w.buses)
      /\ \A j \in 1..Len(u.buses) : w.buses[j] = u.buses[j]
  BY <1>1 DEF Grown
<1>3. \A j \in 1..Len(w.buses) : j > Len(u.buses) => w.buses[j] # 0
  BY <1>1 DEF Grown
<1>4. /\ Len(u.out) <= Len(w.out)
      /\ \A j \in 1..Len(u.out) : w.out[j] = u.out[j]
  BY <1>1 DEF Grown
<1>5. /\ Len(u.buses) <= MaxBuses => Len(w.buses) <= MaxBuses
      /\ u.truncated => w.truncated
  BY DEF Grown
<1> QED
  BY <1>2, <1>3, <1>4, <1>5 DEF Grown

(* What the walk has it keeps. *)
LEMMA DoneKept ==
  ASSUME NEW F, NEW v \in Walks(F), NEW w \in Walks(F), Grown(v, w), NEW f,
         Done(v, f)
  PROVE  Done(w, f)
<1>1. /\ Len(v.buses) \in Nat /\ Len(w.buses) \in Nat
      /\ Len(v.out) \in Nat /\ Len(w.out) \in Nat
  BY DEF Walks
<1>2. ASSUME NEW x, Has(v.out, x) PROVE Has(w.out, x)
  BY <1>1, <1>2 DEF Has, Grown
<1>3. ASSUME NEW x, Has(v.buses, x) PROVE Has(w.buses, x)
  BY <1>1, <1>3 DEF Has, Grown
<1>4. v.truncated => w.truncated
  BY DEF Grown
<1> QED
  BY <1>2, <1>3, <1>4 DEF Done

(* Appending, as the walk sees it. *)
LEMMA AppendIs ==
  ASSUME NEW S, NEW s \in Seq(S), NEW x \in S
  PROVE  /\ Append(s, x) \in Seq(S) /\ Len(Append(s, x)) = Len(s) + 1
         /\ \A j \in 1..Len(s) : Append(s, x)[j] = s[j]
         /\ Append(s, x)[Len(s) + 1] = x
         /\ Len(s) \in Nat
OBVIOUS

(* One answer makes the walk grow and is done with. *)
LEMMA VisitGrows ==
  ASSUME NEW F, Wired(F), NEW w \in Walks(F), NEW f \in F
  PROVE  /\ Visit(w, f) \in Walks(F)
         /\ Grown(w, Visit(w, f))
         /\ Done(Visit(w, f), f)
         /\ \A j \in 1..Len(Visit(w, f).out) :
              j > Len(w.out) => j = Len(w.out) + 1 /\ Visit(w, f).out[j] = f
<1> DEFINE new == f.kind = "bridge" /\ f.secondary # 0
                               /\ f.secondary \notin ToSet(w.buses)
           room == Len(w.buses) < MaxBuses
           write == Len(w.out) < MaxFunctions
           B == IF new /\ room THEN Append(w.buses, f.secondary) ELSE w.buses
           O == IF write THEN Append(w.out, f) ELSE w.out
           T == w.truncated \/ (new /\ ~room) \/ ~write
<1>1. Visit(w, f) = [buses |-> B, out |-> O, truncated |-> T]
  BY DEF Visit
<1>2. /\ w.buses \in Seq(Nat) /\ w.out \in Seq(F) /\ w.truncated \in BOOLEAN
      /\ f.secondary \in Nat /\ Len(w.buses) \in Nat /\ Len(w.out) \in Nat
  BY DEF Walks, Wired
<1>3. MaxBuses \in Nat /\ MaxFunctions \in Nat
  BY BootAssumption
<1>4. /\ B \in Seq(Nat)
      /\ Len(w.buses) <= Len(B)
      /\ \A j \in 1..Len(w.buses) : B[j] = w.buses[j]
      /\ \A j \in 1..Len(B) : j > Len(w.buses) => B[j] # 0
      /\ Len(w.buses) <= MaxBuses => Len(B) <= MaxBuses
  <2>1. CASE new /\ room
    <3>1. B = Append(w.buses, f.secondary)
      BY <2>1
    <3>2. f.secondary # 0 /\ room
      BY <2>1
    <3> HIDE DEF B, new
    <3>3. Len(B) = Len(w.buses) + 1
      BY <1>2, <3>1, AppendIs
    <3> QED
      BY <1>2, <1>3, <3>1, <3>2, <3>3, AppendIs
  <2>2. CASE ~(new /\ room)
    BY <1>2, <2>2
  <2> QED
    BY <2>1, <2>2
<1>5. /\ O \in Seq(F)
      /\ Len(w.out) <= Len(O)
      /\ \A j \in 1..Len(w.out) : O[j] = w.out[j]
      /\ \A j \in 1..Len(O) : j > Len(w.out) => j = Len(w.out) + 1 /\ O[j] = f
  <2>1. CASE write
    <3>1. O = Append(w.out, f)
      BY <2>1
    <3> HIDE DEF O
    <3>2. Len(O) = Len(w.out) + 1
      BY <1>2, <3>1, AppendIs
    <3> QED
      BY <1>2, <3>1, <3>2, AppendIs
  <2>2. CASE ~write
    BY <1>2, <2>2
  <2> QED
    BY <2>1, <2>2
<1>6. T \in BOOLEAN /\ (w.truncated => T)
  BY <1>2
<1>7. T \/ /\ Has(O, f)
           /\ f.kind = "bridge" /\ f.secondary # 0 => Has(B, f.secondary)
  <2> SUFFICES ASSUME ~T
               PROVE  /\ Has(O, f)
                      /\ f.kind = "bridge" /\ f.secondary # 0 => Has(B, f.secondary)
    OBVIOUS
  <2>1. write /\ (new => room)
    OBVIOUS
  <2>2. Has(O, f)
    <3>1. O = Append(w.out, f)
      BY <2>1
    <3>2. Len(w.out) + 1 \in 1..Len(O) /\ O[Len(w.out) + 1] = f
      BY <1>2, <3>1, AppendIs
    <3> HIDE DEF O
    <3> QED
      BY <3>2 DEF Has
  <2>3. ASSUME f.kind = "bridge", f.secondary # 0 PROVE Has(B, f.secondary)
    <3>1. CASE new
      <4>1. B = Append(w.buses, f.secondary)
        BY <2>1, <3>1
      <4>2. Len(w.buses) + 1 \in 1..Len(B) /\ B[Len(w.buses) + 1] = f.secondary
        BY <1>2, <4>1, AppendIs
      <4> HIDE DEF B
      <4> QED
        BY <4>2 DEF Has
    <3>2. CASE ~new
      <4>1. f.secondary \in ToSet(w.buses) /\ B = w.buses
        BY <2>3, <3>2
      <4> HIDE DEF B
      <4> QED
        BY <1>2, <4>1, SetOfSeq
    <3> QED
      BY <3>1, <3>2
  <2> QED
    BY <2>2, <2>3
<1> HIDE DEF B, O, T
<1>8. Visit(w, f) \in Walks(F)
  BY <1>1, <1>4, <1>5, <1>6 DEF Walks
<1>9. Grown(w, Visit(w, f))
  BY <1>1, <1>4, <1>5, <1>6 DEF Grown
<1>10. Done(Visit(w, f), f)
  BY <1>1, <1>7 DEF Done
<1> QED
  BY <1>1, <1>5, <1>8, <1>9, <1>10

(* The walks one bus goes through. *)
Answers(a, w, s) ==
  a = [k \in 0..Len(s) |-> IF k = 0 THEN w ELSE Visit(a[k - 1], s[k])]

LEMMA VisitAllIs ==
  ASSUME NEW F, Wired(F), NEW w \in Walks(F), NEW s \in Seq(F)
  PROVE  \E a \in [0..Len(s) -> Walks(F)] :
           /\ a[0] = w
           /\ \A k \in 1..Len(s) : a[k] = Visit(a[k - 1], s[k])
           /\ VisitAll(w, s) = a[Len(s)]
<1>1. PICK n \in Nat : n = Len(s)
  OBVIOUS
<1> DEFINE h == [x \in (1..n) \X Walks(F) |-> Visit(x[2], s[x[1]])]
<1>2. h \in [(1..n) \X Walks(F) -> Walks(F)]
  <2> SUFFICES ASSUME NEW x \in (1..n) \X Walks(F)
               PROVE  Visit(x[2], s[x[1]]) \in Walks(F)
    OBVIOUS
  <2>1. x[2] \in Walks(F) /\ x[1] \in 1..n
    OBVIOUS
  <2>2. s[x[1]] \in F
    BY <1>1, <2>1
  <2> QED
    BY <2>1, <2>2, VisitGrows
<1>3. ASSUME NEW k \in 1..n, NEW v \in Walks(F) PROVE h[<<k, v>>] = Visit(v, s[k])
  OBVIOUS
<1> HIDE DEF h
<1>4. PICK f \in [0..n -> Walks(F)] :
        f[0] = w /\ \A k \in 1..n : f[k] = h[<<k, f[k - 1]>>]
  <2>1. h \in StepFns(Walks(F), n)
    BY <1>2 DEF StepFns
  <2>2. \E f : Recurs(f, Walks(F), n, w, h)
    BY <2>1, PrimRec
  <2> QED
    BY <2>2 DEF Recurs
<1>5. ASSUME NEW k \in 0..n
      PROVE  f[k] = IF k = 0 THEN w ELSE Visit(f[k - 1], s[k])
  <2>1. CASE k = 0
    BY <1>4, <2>1
  <2>2. CASE k # 0
    <3>1. k \in 1..n /\ k - 1 \in 0..n
      BY <2>2
    <3> QED
      BY <1>3, <1>4, <2>2, <3>1
  <2> QED
    BY <2>1, <2>2
<1>6. Answers(f, w, s)
  BY <1>1, <1>4, <1>5 DEF Answers
<1>7. PICK a : a = CHOOSE x : Answers(x, w, s)
  OBVIOUS
<1>8. VisitAll(w, s) = a[n]
  BY <1>1, <1>7 DEF VisitAll, Answers
<1>9. Answers(a, w, s)
  BY <1>6, <1>7
<1>10. a = [k \in 0..n |-> IF k = 0 THEN w ELSE Visit(a[k - 1], s[k])]
  BY <1>1, <1>9 DEF Answers
<1>11. a[0] = w /\ \A k \in 1..n : a[k] = Visit(a[k - 1], s[k])
  BY <1>10
<1> DEFINE P == {k \in 0..n : a[k] \in Walks(F)}
<1>12. 0 \in P
  BY <1>11
<1>13. ASSUME NEW k \in 1..n, k - 1 \in P PROVE k \in P
  <2>1. a[k - 1] \in Walks(F) /\ s[k] \in F
    BY <1>1, <1>13
  <2> QED
    BY <1>11, <2>1, VisitGrows
<1> HIDE DEF P
<1>14. \A k \in 0..n : k \in P
  BY <1>12, <1>13, Induct
<1>15. a \in [0..n -> Walks(F)]
  BY <1>10, <1>14 DEF P
<1> QED
  BY <1>1, <1>8, <1>11, <1>15

(* Root bus functions in the order of their numbers. *)
Ordered(s) ==
  \A i, j \in 1..Len(s) :
    i < j /\ s[i].bus = 0 /\ s[j].bus = 0 => Bdf(s[i]) < Bdf(s[j])

(* No root bus function of s from position k on comes before one of t. *)
Ahead(t, s, k) ==
  \A i \in 1..Len(t), j \in 1..Len(s) :
    j >= k /\ t[i].bus = 0 /\ s[j].bus = 0 => Bdf(t[i]) < Bdf(s[j])

LEMMA VisitOrders ==
  ASSUME NEW F, Wired(F), Numbered(F), NEW w \in Walks(F), NEW s \in Seq(F),
         Rising(s), NEW k \in 1..Len(s), Ordered(w.out), Ahead(w.out, s, k)
  PROVE  /\ Ordered(Visit(w, s[k]).out)
         /\ Ahead(Visit(w, s[k]).out, s, k + 1)
<1>1. s[k] \in F
  OBVIOUS
<1>2. PICK t : t = Visit(w, s[k]).out
  OBVIOUS
<1>3. PICK m \in Nat : m = Len(w.out)
  BY DEF Walks
<1>4. /\ t \in Seq(F) /\ Len(t) \in Nat /\ m <= Len(t)
      /\ \A j \in 1..m : t[j] = w.out[j]
      /\ \A j \in 1..Len(t) : j > m => j = m + 1 /\ t[j] = s[k]
  <2>1. Visit(w, s[k]) \in Walks(F) /\ Grown(w, Visit(w, s[k]))
    BY <1>1, VisitGrows
  <2>2. \A j \in 1..Len(t) : j > m => j = m + 1 /\ t[j] = s[k]
    BY <1>1, <1>2, <1>3, VisitGrows
  <2> QED
    BY <1>2, <1>3, <2>1, <2>2 DEF Walks, Grown
<1>5. Ordered(t)
  <2> SUFFICES ASSUME NEW i \in 1..Len(t), NEW j \in 1..Len(t), i < j,
                      t[i].bus = 0, t[j].bus = 0
               PROVE  Bdf(t[i]) < Bdf(t[j])
    BY DEF Ordered
  <2>1. CASE j <= m
    BY <1>3, <1>4, <2>1 DEF Ordered
  <2>2. CASE j > m
    <3>1. j = m + 1 /\ t[j] = s[k] /\ i \in 1..m /\ t[i] = w.out[i]
      BY <1>4, <2>2
    <3> QED
      BY <1>3, <3>1 DEF Ahead
  <2> QED
    BY <1>3, <1>4, <2>1, <2>2
<1>6. Ahead(t, s, k + 1)
  <2> SUFFICES ASSUME NEW i \in 1..Len(t), NEW j \in 1..Len(s), j >= k + 1,
                      t[i].bus = 0, s[j].bus = 0
               PROVE  Bdf(t[i]) < Bdf(s[j])
    BY DEF Ahead
  <2>1. CASE i <= m
    BY <1>3, <1>4, <2>1 DEF Ahead
  <2>2. CASE i > m
    BY <1>4, <2>2 DEF Rising
  <2> QED
    BY <1>3, <1>4, <2>1, <2>2
<1> QED
  BY <1>2, <1>5, <1>6

(* All answers of a bus: the walk grows, and is done with each. *)
LEMMA VisitAllGrows ==
  ASSUME NEW F, Wired(F), Numbered(F), NEW w \in Walks(F), NEW s \in Seq(F)
  PROVE  /\ VisitAll(w, s) \in Walks(F)
         /\ Grown(w, VisitAll(w, s))
         /\ \A f : Has(s, f) => Done(VisitAll(w, s), f)
         /\ Rising(s) /\ Ordered(w.out) /\ Ahead(w.out, s, 1)
              => Ordered(VisitAll(w, s).out)
<1>1. PICK n \in Nat : n = Len(s)
  OBVIOUS
<1>2. PICK a \in [0..n -> Walks(F)] :
           /\ a[0] = w
           /\ \A k \in 1..n : a[k] = Visit(a[k - 1], s[k])
           /\ VisitAll(w, s) = a[n]
  BY <1>1, VisitAllIs
<1> DEFINE Ok(k) == /\ Grown(w, a[k])
                    /\ \A j \in 1..k : Done(a[k], s[j])
           P == {k \in 0..n : Ok(k)}
<1>3. 0 \in P
  BY <1>2, GrownRefl
<1>4. ASSUME NEW k \in 1..n, k - 1 \in P PROVE k \in P
  <2>1. /\ a[k - 1] \in Walks(F) /\ a[k] \in Walks(F) /\ s[k] \in F
        /\ a[k] = Visit(a[k - 1], s[k])
    BY <1>1, <1>2
  <2>2. Grown(a[k - 1], a[k]) /\ Done(a[k], s[k])
    BY <2>1, VisitGrows
  <2>3. Grown(w, a[k - 1]) /\ \A j \in 1..(k - 1) : Done(a[k - 1], s[j])
    BY <1>4
  <2>4. Grown(w, a[k])
    BY <2>1, <2>2, <2>3, GrownTrans
  <2>5. ASSUME NEW j \in 1..k PROVE Done(a[k], s[j])
    <3>1. CASE j = k
      BY <2>2, <3>1
    <3>2. CASE j # k
      <4>1. j \in 1..(k - 1)
        BY <3>2
      <4>2. Done(a[k - 1], s[j])
        BY <2>3, <4>1
      <4> QED
        BY <2>1, <2>2, <4>2, DoneKept
    <3> QED
      BY <3>1, <3>2
  <2> QED
    BY <2>4, <2>5
<1> HIDE DEF P
<1>5. \A k \in 0..n : k \in P
  BY <1>3, <1>4, Induct
<1>6. Ok(n)
  BY <1>5 DEF P
<1>7. ASSUME NEW f, Has(s, f) PROVE Done(VisitAll(w, s), f)
  BY <1>1, <1>2, <1>6, <1>7 DEF Has
<1>8. ASSUME Rising(s), Ordered(w.out), Ahead(w.out, s, 1)
      PROVE  Ordered(VisitAll(w, s).out)
  <2> DEFINE Q == {k \in 0..n : Ordered(a[k].out) /\ Ahead(a[k].out, s, k + 1)}
  <2>1. 0 \in Q
    BY <1>2, <1>8
  <2>2. ASSUME NEW k \in 1..n, k - 1 \in Q PROVE k \in Q
    <3>1. /\ a[k - 1] \in Walks(F) /\ k \in 1..Len(s)
          /\ a[k] = Visit(a[k - 1], s[k])
      BY <1>1, <1>2
    <3>2. Ordered(a[k - 1].out) /\ Ahead(a[k - 1].out, s, k - 1 + 1) /\ k - 1 + 1 = k
      BY <2>2
    <3>3. Ordered(a[k].out) /\ Ahead(a[k].out, s, k + 1)
      BY <1>8, <3>1, <3>2, VisitOrders
    <3> QED
      BY <3>3
  <2> HIDE DEF Q
  <2>3. \A k \in 0..n : k \in Q
    BY <2>1, <2>2, Induct
  <2> QED
    BY <1>2, <2>3 DEF Q
<1> QED
  BY <1>2, <1>6, <1>7, <1>8

(* One bus of the worklist. *)
LEMMA ScanBusGrows ==
  ASSUME NEW F, Wired(F), Numbered(F), NEW w \in Walks(F), NEW k \in Nat \ {0}
  PROVE  /\ ScanBus(F, w, k) \in Walks(F)
         /\ Grown(w, ScanBus(F, w, k))
         /\ k <= Len(w.buses) =>
              \A f \in Asked(F, w.buses[k]) : Done(ScanBus(F, w, k), f)
         /\ /\ Ordered(w.out)
            /\ w.buses[k] # 0 \/ w.out = << >>
            => Ordered(ScanBus(F, w, k).out)
<1>0. w.buses \in Seq(Nat) /\ w.out \in Seq(F) /\ Len(w.buses) \in Nat
  BY DEF Walks
<1>1. CASE k > Len(w.buses)
  <2>1. ScanBus(F, w, k) = w /\ ~(k <= Len(w.buses))
    BY <1>0, <1>1 DEF ScanBus
  <2> QED
    BY <2>1, GrownRefl
<1>2. CASE k <= Len(w.buses)
  <2>1. PICK A : A = Asked(F, w.buses[k])
    OBVIOUS
  <2>2. A \subseteq F /\ \A f \in A : f.bus = w.buses[k]
    BY <2>1 DEF Asked
  <2>3. Numbered(A)
    BY <2>2, FS_Subset DEF Numbered
  <2>4. PICK s : s = ScanOrder(A)
    OBVIOUS
  <2>5. s \in Seq(A) /\ Rising(s) /\ \A x \in A : Has(s, x)
    BY <2>3, <2>4, ScanOrderLists
  <2>6. s \in Seq(F)
    BY <2>2, <2>5
  <2>7. ScanBus(F, w, k) = VisitAll(w, s)
    BY <1>0, <1>2, <2>1, <2>4 DEF ScanBus
  <2>8. ASSUME w.buses[k] # 0 \/ w.out = << >> PROVE Ahead(w.out, s, 1)
    <3>1. \A j \in 1..Len(s) : s[j].bus = w.buses[k]
      BY <2>2, <2>5
    <3>2. CASE w.buses[k] # 0
      BY <3>1, <3>2 DEF Ahead
    <3>3. CASE w.out = << >>
      BY <3>3 DEF Ahead
    <3> QED
      BY <2>8, <3>2, <3>3
  <2>9. /\ VisitAll(w, s) \in Walks(F) /\ Grown(w, VisitAll(w, s))
        /\ \A f : Has(s, f) => Done(VisitAll(w, s), f)
        /\ Rising(s) /\ Ordered(w.out) /\ Ahead(w.out, s, 1)
              => Ordered(VisitAll(w, s).out)
    BY <2>6, VisitAllGrows
  <2>10. \A f \in A : Done(VisitAll(w, s), f)
    BY <2>5, <2>9
  <2> QED
    BY <2>1, <2>5, <2>7, <2>8, <2>9, <2>10
<1> QED
  BY <1>0, <1>1, <1>2

(* The walks `enumerate` goes through, bus after bus. *)
Buses(a, F) ==
  a = [k \in 0..MaxBuses |-> IF k = 0 THEN NoWalk ELSE ScanBus(F, a[k - 1], k)]

LEMMA NoWalkIs ==
  ASSUME NEW F
  PROVE  NoWalk \in Walks(F) /\ Ordered(NoWalk.out)
<1>1. << >> \in Seq(F) /\ <<0>> \in Seq(Nat) /\ Len(<< >>) = 0
  OBVIOUS
<1> QED
  BY <1>1 DEF NoWalk, Walks, Ordered

LEMMA EnumerateIs ==
  ASSUME NEW F, Wired(F), Numbered(F)
  PROVE  \E a \in [0..MaxBuses -> Walks(F)] :
           /\ a[0] = NoWalk
           /\ \A k \in 1..MaxBuses : a[k] = ScanBus(F, a[k - 1], k)
           /\ Enumerate(F) = a[MaxBuses]
<1>1. PICK n \in Nat : n = MaxBuses
  BY BootAssumption
<1>0. NoWalk \in Walks(F)
  BY NoWalkIs
<1> DEFINE h == [x \in (1..n) \X Walks(F) |-> ScanBus(F, x[2], x[1])]
<1>2. h \in StepFns(Walks(F), n)
  <2> SUFFICES ASSUME NEW x \in (1..n) \X Walks(F)
               PROVE  ScanBus(F, x[2], x[1]) \in Walks(F)
    BY DEF StepFns
  <2>1. x[2] \in Walks(F) /\ x[1] \in Nat \ {0}
    OBVIOUS
  <2> QED
    BY <2>1, ScanBusGrows
<1>3. ASSUME NEW k \in 1..n, NEW v \in Walks(F) PROVE h[<<k, v>>] = ScanBus(F, v, k)
  OBVIOUS
<1> HIDE DEF h
<1>4. PICK f : Recurs(f, Walks(F), n, NoWalk, h)
  BY <1>0, <1>2, PrimRec
<1>5. ASSUME NEW k \in 0..n
      PROVE  f[k] = IF k = 0 THEN NoWalk ELSE ScanBus(F, f[k - 1], k)
  <2>0. /\ f \in [0..n -> Walks(F)] /\ f[0] = NoWalk
        /\ \A j \in 1..n : f[j] = h[<<j, f[j - 1]>>]
    BY <1>4 DEF Recurs
  <2>1. CASE k = 0
    BY <2>0, <2>1
  <2>2. CASE k # 0
    <3>1. k \in 1..n /\ k - 1 \in 0..n
      BY <2>2
    <3> QED
      BY <1>3, <2>0, <2>2, <3>1
  <2> QED
    BY <2>1, <2>2
<1>6. Buses(f, F)
  <2>1. f = [k \in 0..n |-> f[k]]
    BY <1>4 DEF Recurs
  <2> QED
    BY <1>1, <1>5, <2>1 DEF Buses
<1>7. PICK a : a = CHOOSE x : Buses(x, F)
  OBVIOUS
<1>8. Enumerate(F) = a[n]
  BY <1>1, <1>7 DEF Enumerate, Buses
<1>9. Buses(a, F)
  BY <1>6, <1>7
<1>10. a = [k \in 0..n |-> IF k = 0 THEN NoWalk ELSE ScanBus(F, a[k - 1], k)]
  BY <1>1, <1>9 DEF Buses
<1>11. a[0] = NoWalk /\ \A k \in 1..n : a[k] = ScanBus(F, a[k - 1], k)
  BY <1>10
<1> DEFINE P == {k \in 0..n : a[k] \in Walks(F)}
<1>12. 0 \in P
  BY <1>0, <1>11
<1>13. ASSUME NEW k \in 1..n, k - 1 \in P PROVE k \in P
  <2>1. a[k - 1] \in Walks(F) /\ k \in Nat \ {0}
    BY <1>13
  <2> QED
    BY <1>11, <2>1, ScanBusGrows
<1> HIDE DEF P
<1>14. \A k \in 0..n : k \in P
  BY <1>12, <1>13, Induct
<1>15. a \in [0..n -> Walks(F)]
  BY <1>10, <1>14 DEF P
<1> QED
  BY <1>1, <1>8, <1>11, <1>15

(* The root bus comes first and only once. *)
Rooted(w) == /\ 1 <= Len(w.buses) /\ w.buses[1] = 0
             /\ \A j \in 2..Len(w.buses) : w.buses[j] # 0
             /\ Len(w.buses) <= MaxBuses

LEMMA RootedGrown ==
  ASSUME NEW F, NEW v \in Walks(F), NEW w \in Walks(F), Rooted(v), Grown(v, w)
  PROVE  Rooted(w)
<1>1. Len(v.buses) \in Nat /\ Len(w.buses) \in Nat
  BY DEF Walks
<1>2. 1 <= Len(w.buses) /\ w.buses[1] = 0 /\ Len(w.buses) <= MaxBuses
  BY <1>1 DEF Rooted, Grown
<1>3. ASSUME NEW j \in 2..Len(w.buses) PROVE w.buses[j] # 0
  <2>1. CASE j <= Len(v.buses)
    BY <1>1, <2>1 DEF Rooted, Grown
  <2>2. CASE j > Len(v.buses)
    BY <1>1, <2>2 DEF Grown
  <2> QED
    BY <1>1, <2>1, <2>2
<1> QED
  BY <1>2, <1>3 DEF Rooted

(* What `enumerate` comes back with: every function of every bus it knows, *)
(* with every bus behind them, or the word that it is not all.             *)
LEMMA EnumerateFinds ==
  ASSUME NEW F, Wired(F), Numbered(F)
  PROVE  /\ Enumerate(F) \in Walks(F) /\ Rooted(Enumerate(F))
         /\ Ordered(Enumerate(F).out)
         /\ \A j \in 1..Len(Enumerate(F).buses) :
              \A f \in Asked(F, Enumerate(F).buses[j]) : Done(Enumerate(F), f)
<1>1. PICK n \in Nat \ {0} : n = MaxBuses
  BY BootAssumption
<1>2. PICK a \in [0..n -> Walks(F)] :
           /\ a[0] = NoWalk
           /\ \A k \in 1..n : a[k] = ScanBus(F, a[k - 1], k)
           /\ Enumerate(F) = a[n]
  BY <1>1, EnumerateIs
<1> DEFINE Ok(k) == /\ Rooted(a[k]) /\ Ordered(a[k].out)
                    /\ k = 0 => a[k].out = << >>
                    /\ \A j \in 1..k : j <= Len(a[k].buses) =>
                         \A f \in Asked(F, a[k].buses[j]) : Done(a[k], f)
           P == {k \in 0..n : Ok(k)}
<1>3. 0 \in P
  <2>1. NoWalk.out = << >> /\ NoWalk.buses = <<0>> /\ Len(<<0>>) = 1 /\ <<0>>[1] = 0
    BY DEF NoWalk
  <2>2. Rooted(NoWalk)
    BY <1>1, <2>1 DEF Rooted
  <2>3. Ordered(NoWalk.out)
    BY NoWalkIs
  <2> QED
    BY <1>2, <2>1, <2>2, <2>3
<1>4. ASSUME NEW k \in 1..n, k - 1 \in P PROVE k \in P
  <2>1. PICK v \in Walks(F) : v = a[k - 1]
    BY <1>2
  <2>2. PICK w \in Walks(F) : w = a[k]
    BY <1>2
  <2>3. w = ScanBus(F, v, k) /\ k \in Nat \ {0}
    BY <1>2, <2>1, <2>2
  <2>4. /\ Rooted(v) /\ Ordered(v.out) /\ (k = 1 => v.out = << >>)
        /\ \A j \in 1..(k - 1) : j <= Len(v.buses) =>
             \A f \in Asked(F, v.buses[j]) : Done(v, f)
    BY <1>4, <2>1
  <2>5. /\ Grown(v, w)
        /\ k <= Len(v.buses) => \A f \in Asked(F, v.buses[k]) : Done(w, f)
        /\ Ordered(v.out) /\ (v.buses[k] # 0 \/ v.out = << >>) => Ordered(w.out)
    BY <2>3, ScanBusGrows
  <2>6. Len(v.buses) \in Nat /\ Len(w.buses) \in Nat
    BY DEF Walks
  <2>7. Rooted(w)
    BY <2>4, <2>5, RootedGrown
  <2>8. Ordered(w.out)
    <3>1. CASE k > Len(v.buses)
      <4>1. w = v
        BY <2>3, <3>1 DEF ScanBus
      <4> QED
        BY <2>4, <4>1
    <3>2. CASE k <= Len(v.buses) /\ k # 1
      <4>1. k \in 2..Len(v.buses)
        BY <2>6, <3>2
      <4> QED
        BY <2>4, <2>5, <4>1 DEF Rooted
    <3>3. CASE k = 1
      BY <2>4, <2>5, <3>3
    <3> QED
      BY <2>6, <3>1, <3>2, <3>3
  <2>9. ASSUME NEW j \in 1..k, j <= Len(w.buses), NEW f \in Asked(F, w.buses[j])
        PROVE  Done(w, f)
    <3>1. CASE k > Len(v.buses)
      <4>1. w = v /\ j \in 1..(k - 1)
        BY <2>3, <2>6, <2>9, <3>1 DEF ScanBus
      <4> QED
        BY <2>4, <2>9, <4>1
    <3>2. CASE k <= Len(v.buses)
      <4>1. j \in 1..Len(v.buses) /\ w.buses[j] = v.buses[j]
        BY <2>5, <2>6, <3>2 DEF Grown
      <4>2. CASE j = k
        BY <2>5, <2>9, <3>2, <4>1, <4>2
      <4>3. CASE j # k
        <5>1. j \in 1..(k - 1)
          BY <4>3
        <5>2. Done(v, f)
          BY <2>4, <2>9, <4>1, <5>1
        <5> QED
          BY <2>5, <5>2, DoneKept
      <4> QED
        BY <4>2, <4>3
    <3> QED
      BY <2>6, <3>1, <3>2
  <2>10. Ok(k)
    BY <2>2, <2>7, <2>8, <2>9
  <2> QED
    BY <2>10
<1> HIDE DEF P
<1>5. n \in P
  BY <1>3, <1>4, Induct
<1>6. Ok(n)
  BY <1>5 DEF P
<1>7. PICK w \in Walks(F) : w = Enumerate(F)
  BY <1>2
<1>8. /\ Rooted(w) /\ Ordered(w.out)
      /\ \A j \in 1..n : j <= Len(w.buses) =>
           \A f \in Asked(F, w.buses[j]) : Done(w, f)
  BY <1>2, <1>6, <1>7
<1>9. Len(w.buses) \in Nat /\ Len(w.buses) <= n
  BY <1>1, <1>8 DEF Rooted, Walks
<1> QED
  BY <1>7, <1>8, <1>9

(* Config space as the walk takes it for granted. *)
LEMMA TopologyIs ==
  ASSUME NEW F, TopologyOk(F)
  PROVE  /\ Wired(F) /\ Numbered(F)
         /\ \A f \in F : f \in Asked(F, f.bus)
<1>1. \A f \in F : f.secondary \in Nat /\ f.bus \in Nat /\ f.dev \in Nat /\ f.func \in Nat
  BY DEF TopologyOk
<1>2. \A f \in F : Bdf(f) \in Nat
  BY <1>1 DEF Bdf
<1>3. ASSUME NEW f \in F PROVE f \in Asked(F, f.bus)
  <2>1. CASE f.func = 0
    BY <2>1 DEF Asked
  <2>2. CASE f.func # 0
    <3>1. PICK z \in F : z.bus = f.bus /\ z.dev = f.dev /\ z.func = 0 /\ z.multi
      BY <2>2 DEF TopologyOk
    <3>2. ASSUME NEW y \in F, y.bus = f.bus, y.dev = f.dev, y.func = 0, ~y.multi
          PROVE  FALSE
      <4>1. Bdf(y) = Bdf(z)
        BY <3>1, <3>2 DEF Bdf
      <4> QED
        BY <3>1, <3>2, <4>1 DEF TopologyOk
    <3> QED
      BY <3>2 DEF Asked
  <2> QED
    BY <2>1, <2>2
<1> QED
  BY <1>1, <1>2, <1>3 DEF Wired, Numbered, TopologyOk

(* The buses some chain of at most k bridges leads to. *)
Beyond(F, R) == R \cup {f.secondary : f \in {f \in F : f.kind = "bridge" /\ f.bus \in R}}
Chains(a, F) == a = [k \in 0..Cardinality(F) |-> IF k = 0 THEN {0} ELSE Beyond(F, a[k - 1])]

LEMMA ChainsExist ==
  ASSUME NEW F, IsFiniteSet(F), Wired(F)
  PROVE  \E a : Chains(a, F)
<1>1. PICK n \in Nat : n = Cardinality(F)
  BY FS_CardinalityType
<1>2. PICK S : S = SUBSET Nat
  OBVIOUS
<1> DEFINE h == [x \in (1..n) \X S |-> Beyond(F, x[2])]
<1>3. h \in StepFns(S, n)
  <2> SUFFICES ASSUME NEW x \in (1..n) \X S PROVE Beyond(F, x[2]) \in S
    BY DEF StepFns
  <2>1. x[2] \in SUBSET Nat
    BY <1>2
  <2> QED
    BY <1>2, <2>1 DEF Beyond, Wired
<1>4. ASSUME NEW k \in 1..n, NEW v \in S PROVE h[<<k, v>>] = Beyond(F, v)
  OBVIOUS
<1> HIDE DEF h
<1>5. PICK f : Recurs(f, S, n, {0}, h)
  <2>1. {0} \in S
    BY <1>2
  <2> QED
    BY <1>3, <2>1, PrimRec
<1>6. ASSUME NEW k \in 0..n
      PROVE  f[k] = IF k = 0 THEN {0} ELSE Beyond(F, f[k - 1])
  <2>0. /\ f \in [0..n -> S] /\ f[0] = {0}
        /\ \A j \in 1..n : f[j] = h[<<j, f[j - 1]>>]
    BY <1>5 DEF Recurs
  <2>1. CASE k = 0
    BY <2>0, <2>1
  <2>2. CASE k # 0
    <3>1. k \in 1..n /\ k - 1 \in 0..n
      BY <2>2
    <3> QED
      BY <1>4, <2>0, <2>2, <3>1
  <2> QED
    BY <2>1, <2>2
<1>7. f = [k \in 0..n |-> f[k]]
  BY <1>5 DEF Recurs
<1>8. Chains(f, F)
  BY <1>1, <1>6, <1>7 DEF Chains
<1> QED
  BY <1>8

(* A walk that is complete has everything behind any chain of bridges. *)
LEMMA WalkComplete ==
  ASSUME NEW F, TopologyOk(F), ~Enumerate(F).truncated
  PROVE  /\ \A f \in Behind(F) : f \in F /\ Has(Enumerate(F).out, f)
         /\ \A f \in F : f.bus = 0 => Has(Enumerate(F).out, f)
<1>0. Wired(F) /\ Numbered(F) /\ IsFiniteSet(F)
  BY TopologyIs DEF TopologyOk
<1>1. PICK w \in Walks(F) : w = Enumerate(F)
  BY <1>0, EnumerateFinds
<1>2. Rooted(w) /\ Len(w.buses) \in Nat
  BY <1>0, <1>1, EnumerateFinds DEF Walks
<1>3. ASSUME NEW f \in F, Has(w.buses, f.bus)
      PROVE  /\ Has(w.out, f)
             /\ f.kind = "bridge" /\ f.secondary # 0 => Has(w.buses, f.secondary)
  <2>1. PICK j \in 1..Len(w.buses) : w.buses[j] = f.bus
    BY <1>3 DEF Has
  <2>2. f \in Asked(F, w.buses[j])
    BY <2>1, TopologyIs
  <2>3. Done(w, f)
    BY <1>0, <1>1, <2>2, EnumerateFinds
  <2> QED
    BY <1>1, <2>3 DEF Done
<1>4. Has(w.buses, 0)
  BY <1>2 DEF Rooted, Has
<1>5. PICK n \in Nat : n = Cardinality(F)
  BY <1>0, FS_CardinalityType
<1>6. PICK a : a = CHOOSE x : Chains(x, F)
  OBVIOUS
<1>7. Chains(a, F)
  BY <1>0, <1>6, ChainsExist
<1>8. Behind(F) = {f \in F : f.bus \in a[n]}
  BY <1>5, <1>6 DEF Behind, Chains, Beyond
<1>9. a[0] = {0} /\ \A k \in 1..n : a[k] = Beyond(F, a[k - 1])
  <2>1. a = [k \in 0..n |-> IF k = 0 THEN {0} ELSE Beyond(F, a[k - 1])]
    BY <1>5, <1>7 DEF Chains
  <2>0. PICK z : z = {0}
    OBVIOUS
  <2>2. a = [k \in 0..n |-> IF k = 0 THEN z ELSE Beyond(F, a[k - 1])]
    BY <2>0, <2>1
  <2>3. a[0] = z /\ \A k \in 1..n : a[k] = Beyond(F, a[k - 1])
    BY <2>2
  <2> QED
    BY <2>0, <2>3
<1> DEFINE P == {k \in 0..n : \A b \in a[k] : Has(w.buses, b)}
<1>10. 0 \in P
  BY <1>4, <1>9
<1>11. ASSUME NEW k \in 1..n, k - 1 \in P PROVE k \in P
  <2> SUFFICES ASSUME NEW b \in a[k] PROVE Has(w.buses, b)
    OBVIOUS
  <2>1. \A c \in a[k - 1] : Has(w.buses, c)
    BY <1>11
  <2>2. b \in Beyond(F, a[k - 1])
    BY <1>9
  <2>3. b \in a[k - 1] \/ \E f \in F : f.kind = "bridge" /\ f.bus \in a[k - 1] /\ b = f.secondary
    BY <2>2 DEF Beyond
  <2> QED
    BY <1>3, <1>4, <2>1, <2>3
<1> HIDE DEF P
<1>12. n \in P
  BY <1>10, <1>11, Induct
<1>13. ASSUME NEW f \in Behind(F) PROVE f \in F /\ Has(w.out, f)
  <2>1. f \in F /\ f.bus \in a[n]
    BY <1>8
  <2> QED
    BY <1>3, <1>12, <2>1 DEF P
<1>14. ASSUME NEW f \in F, f.bus = 0 PROVE Has(w.out, f)
  BY <1>3, <1>4, <1>14
<1> QED
  BY <1>1, <1>13, <1>14

(* The functions picked out of the walk, one after the other. *)
Picked(s, T, x, k) == IF s[k] \in T THEN Append(x, s[k]) ELSE x
Picks(a, s, T) == a = [k \in 0..Len(s) |-> IF k = 0 THEN << >> ELSE Picked(s, T, a[k - 1], k)]

(* They are picked in their order, and none is left out. *)
LEMMA AmongIs ==
  ASSUME NEW F, NEW s \in Seq(F), NEW T
  PROVE  /\ Among(s, T) \in Seq(F)
         /\ \A x : Has(Among(s, T), x) <=> Has(s, x) /\ x \in T
         /\ Ordered(s) /\ (\A x \in T : x.bus = 0) => Rising(Among(s, T))
<1>1. PICK n \in Nat : n = Len(s)
  OBVIOUS
<1>2. PICK S : S = Seq(F)
  OBVIOUS
<1>3. ASSUME NEW x \in S, NEW k \in 1..n PROVE Picked(s, T, x, k) \in S
  <2>1. s[k] \in F /\ x \in Seq(F)
    BY <1>1, <1>2
  <2> QED
    BY <1>2, <2>1 DEF Picked
<1> DEFINE h == [x \in (1..n) \X S |-> Picked(s, T, x[2], x[1])]
<1>4. h \in StepFns(S, n)
  <2> SUFFICES ASSUME NEW x \in (1..n) \X S PROVE Picked(s, T, x[2], x[1]) \in S
    BY DEF StepFns
  <2>1. x[2] \in S /\ x[1] \in 1..n
    OBVIOUS
  <2> QED
    BY <1>3, <2>1
<1>5. ASSUME NEW k \in 1..n, NEW v \in S PROVE h[<<k, v>>] = Picked(s, T, v, k)
  OBVIOUS
<1> HIDE DEF h
<1>6. << >> \in S
  BY <1>2
<1>7. PICK f : Recurs(f, S, n, << >>, h)
  BY <1>4, <1>6, PrimRec
<1>8. ASSUME NEW k \in 0..n
      PROVE  f[k] = IF k = 0 THEN << >> ELSE Picked(s, T, f[k - 1], k)
  <2>0. /\ f \in [0..n -> S] /\ f[0] = << >>
        /\ \A j \in 1..n : f[j] = h[<<j, f[j - 1]>>]
    BY <1>7 DEF Recurs
  <2>1. CASE k = 0
    BY <2>0, <2>1
  <2>2. CASE k # 0
    <3>1. k \in 1..n /\ k - 1 \in 0..n
      BY <2>2
    <3> QED
      BY <1>5, <2>0, <2>2, <3>1
  <2> QED
    BY <2>1, <2>2
<1>9. f = [k \in 0..n |-> f[k]]
  BY <1>7 DEF Recurs
<1>10. Picks(f, s, T)
  BY <1>1, <1>8, <1>9 DEF Picks
<1>11. PICK a : a = CHOOSE x : Picks(x, s, T)
  OBVIOUS
<1>12. Picks(a, s, T)
  BY <1>10, <1>11
<1>13. Among(s, T) = a[n]
  BY <1>1, <1>11 DEF Among, Picks, Picked
<1>14. a[0] = << >> /\ \A k \in 1..n : a[k] = Picked(s, T, a[k - 1], k)
  <2>1. a = [k \in 0..n |-> IF k = 0 THEN << >> ELSE Picked(s, T, a[k - 1], k)]
    BY <1>1, <1>12 DEF Picks
  <2> QED
    BY <2>1
<1> DEFINE Tidy == Ordered(s) /\ \A x \in T : x.bus = 0
           Seen(k) == \A x : Has(a[k], x) <=> x \in T /\ \E i \in 1..k : s[i] = x
           Up(k) == Tidy => /\ Rising(a[k])
                            /\ \A i \in 1..Len(a[k]), j \in (k + 1)..n :
                                 s[j] \in T => Bdf(a[k][i]) < Bdf(s[j])
           P == {k \in 0..n : a[k] \in Seq(F) /\ Seen(k) /\ Up(k)}
<1>15. 0 \in P
  <2>1. Len(<< >>) = 0 /\ << >> \in Seq(F)
    OBVIOUS
  <2>2. Seen(0)
    BY <1>14, <2>1 DEF Has
  <2>3. Up(0)
    BY <1>14, <2>1 DEF Rising
  <2>4. a[0] \in Seq(F) /\ 0 \in 0..n
    BY <1>14, <2>1
  <2> HIDE DEF Seen, Up
  <2> QED
    BY <2>2, <2>3, <2>4
<1>16. ASSUME NEW k \in 1..n, k - 1 \in P PROVE k \in P
  <2>1. PICK b \in Seq(F) : b = a[k - 1]
    BY <1>16
  <2>2. Seen(k - 1) /\ Up(k - 1)
    BY <1>16
  <2>3. s[k] \in F
    BY <1>1
  <2>4. CASE s[k] \notin T
    <3>1. a[k] = b
      BY <1>14, <2>1, <2>4 DEF Picked
    <3>2. Seen(k)
      BY <2>1, <2>2, <2>4, <3>1
    <3>3. Up(k)
      BY <2>1, <2>2, <3>1
    <3> QED
      BY <3>1, <3>2, <3>3
  <2>5. CASE s[k] \in T
    <3>1. a[k] = Append(b, s[k])
      BY <1>14, <2>1, <2>5 DEF Picked
    <3>2. PICK c : c = a[k]
      OBVIOUS
    <3>3. /\ c \in Seq(F) /\ Len(c) = Len(b) + 1 /\ Len(b) \in Nat
          /\ \A j \in 1..Len(b) : c[j] = b[j]
          /\ c[Len(b) + 1] = s[k]
      BY <2>3, <3>1, <3>2, AppendIs
    <3>4. Seen(k)
      <4>1. ASSUME NEW x PROVE Has(c, x) <=> Has(b, x) \/ x = s[k]
        BY <3>3 DEF Has
      <4>2. ASSUME NEW x PROVE Has(b, x) <=> x \in T /\ \E i \in 1..(k - 1) : s[i] = x
        BY <2>1, <2>2
      <4>3. ASSUME NEW x PROVE (\E i \in 1..k : s[i] = x) <=>
                                 (\E i \in 1..(k - 1) : s[i] = x) \/ x = s[k]
        OBVIOUS
      <4> QED
        BY <2>5, <3>2, <4>1, <4>2, <4>3
    <3>5. ASSUME Tidy
          PROVE  /\ Rising(c)
                 /\ \A i \in 1..Len(c), j \in (k + 1)..n :
                      s[j] \in T => Bdf(c[i]) < Bdf(s[j])
      <4>1. /\ Rising(b)
            /\ \A i \in 1..Len(b), j \in k..n : s[j] \in T => Bdf(b[i]) < Bdf(s[j])
        BY <2>1, <2>2, <3>5
      <4>2. \A j \in (k + 1)..n : s[j] \in T => Bdf(s[k]) < Bdf(s[j])
        BY <1>1, <2>5, <3>5 DEF Ordered
      <4>3. Rising(c)
        <5> SUFFICES ASSUME NEW i \in 1..Len(c), NEW j \in 1..Len(c), i < j
                     PROVE  Bdf(c[i]) < Bdf(c[j])
          BY DEF Rising
        <5>1. CASE j = Len(c)
          BY <2>5, <3>3, <4>1, <5>1
        <5>2. CASE j # Len(c)
          <6>1. i \in 1..Len(b) /\ j \in 1..Len(b)
            BY <3>3, <5>2
          <6>2. Bdf(b[i]) < Bdf(b[j])
            BY <4>1, <6>1 DEF Rising
          <6> QED
            BY <3>3, <6>1, <6>2
        <5> QED
          BY <5>1, <5>2
      <4>4. ASSUME NEW i \in 1..Len(c), NEW j \in (k + 1)..n, s[j] \in T
            PROVE  Bdf(c[i]) < Bdf(s[j])
        <5>1. CASE i = Len(c)
          BY <3>3, <4>2, <4>4, <5>1
        <5>2. CASE i # Len(c)
          BY <3>3, <4>1, <4>4, <5>2
        <5> QED
          BY <5>1, <5>2
      <4> QED
        BY <4>3, <4>4
    <3> HIDE DEF Tidy
    <3>6. Up(k)
      BY <3>2, <3>5
    <3> HIDE DEF Seen, Up
    <3> QED
      BY <3>2, <3>3, <3>4, <3>6
  <2> QED
    BY <2>4, <2>5
<1> HIDE DEF P
<1>17. \A k \in 0..n : k \in P
  <2> HIDE DEF Seen, Up
  <2> QED
    BY <1>15, <1>16, Induct
<1>18. a[n] \in Seq(F) /\ Seen(n) /\ Up(n)
  <2>1. n \in P
    BY <1>17
  <2> HIDE DEF Seen, Up
  <2> QED
    BY <2>1 DEF P
<1>19. \A x : Has(a[n], x) <=> Has(s, x) /\ x \in T
  BY <1>1, <1>18 DEF Has
<1> QED
  BY <1>13, <1>18, <1>19

(* Of two lists of the same functions in order, the first is the same. *)
LEMMA SameFirst ==
  ASSUME NEW F, Numbered(F), NEW s \in Seq(F), NEW t \in Seq(F), Rising(s),
         Rising(t), \A x : Has(s, x) <=> Has(t, x), NEW y, Has(s, y)
  PROVE  Len(s) >= 1 /\ Len(t) >= 1 /\ s[1] = t[1]
<1>1. /\ Len(s) \in Nat /\ Len(t) \in Nat
      /\ \A i \in 1..Len(s) : s[i] \in F /\ Bdf(s[i]) \in Nat
      /\ \A i \in 1..Len(t) : t[i] \in F /\ Bdf(t[i]) \in Nat
  BY DEF Numbered
<1>2. Len(s) >= 1 /\ Len(t) >= 1
  <2>1. Has(t, y)
    OBVIOUS
  <2> QED
    BY <1>1, <2>1 DEF Has
<1>3. 1 \in 1..Len(s) /\ 1 \in 1..Len(t)
  BY <1>1, <1>2
<1>4. Has(s, s[1]) /\ Has(t, t[1])
  BY <1>3 DEF Has
<1>5. Has(t, s[1]) /\ Has(s, t[1])
  BY <1>4
<1>6. Bdf(s[1]) <= Bdf(t[1])
  <2>1. PICK i \in 1..Len(s) : s[i] = t[1]
    BY <1>5 DEF Has
  <2>2. CASE i = 1
    BY <1>1, <1>3, <2>1, <2>2
  <2>3. CASE i # 1
    BY <1>1, <1>3, <2>1, <2>3 DEF Rising
  <2> QED
    BY <2>2, <2>3
<1>7. Bdf(t[1]) <= Bdf(s[1])
  <2>1. PICK i \in 1..Len(t) : t[i] = s[1]
    BY <1>5 DEF Has
  <2>2. CASE i = 1
    BY <1>1, <1>3, <2>1, <2>2
  <2>3. CASE i # 1
    BY <1>1, <1>3, <2>1, <2>3 DEF Rising
  <2> QED
    BY <2>2, <2>3
<1>8. Bdf(s[1]) = Bdf(t[1]) /\ s[1] \in F /\ t[1] \in F
  BY <1>1, <1>3, <1>6, <1>7
<1> QED
  BY <1>2, <1>8 DEF Numbered

(* A concatenation, position by position. *)
LEMMA ConcatIs ==
  ASSUME NEW S, NEW s \in Seq(S), NEW t \in Seq(S)
  PROVE  /\ s \o t \in Seq(S) /\ Len(s \o t) = Len(s) + Len(t)
         /\ \A i \in 1..Len(s \o t) :
              (s \o t)[i] = IF i <= Len(s) THEN s[i] ELSE t[i - Len(s)]
         /\ Len(s) \in Nat /\ Len(t) \in Nat
OBVIOUS

(* Lists in order of different functions: no number comes twice. *)
LEMMA ConcatDistinct ==
  ASSUME NEW F, Numbered(F), NEW s \in Seq(F), NEW t \in Seq(F), Rising(s),
         Rising(t), \A x : ~(Has(s, x) /\ Has(t, x)),
         NEW i \in 1..Len(s \o t), NEW j \in 1..Len(s \o t),
         Bdf((s \o t)[i]) = Bdf((s \o t)[j])
  PROVE  i = j
<1>1. PICK u : u = s \o t
  OBVIOUS
<1>2. PICK m \in Nat : m = Len(s)
  OBVIOUS
<1>3. /\ u \in Seq(F) /\ Len(u) = m + Len(t) /\ Len(t) \in Nat
      /\ \A k \in 1..Len(u) : u[k] = IF k <= m THEN s[k] ELSE t[k - m]
  BY <1>1, <1>2, ConcatIs
<1>4. ASSUME NEW a \in 1..Len(u), NEW b \in 1..Len(u), a < b
      PROVE  Bdf(u[a]) # Bdf(u[b])
  <2>0. u[a] \in F /\ u[b] \in F /\ Bdf(u[a]) \in Nat /\ Bdf(u[b]) \in Nat
    BY <1>3, SMTT(30) DEF Numbered
  <2>1. CASE b <= m
    <3>1. a \in 1..m /\ b \in 1..m /\ u[a] = s[a] /\ u[b] = s[b]
      BY <1>3, <1>4, <2>1
    <3>2. Bdf(s[a]) < Bdf(s[b])
      BY <1>2, <1>4, <3>1 DEF Rising
    <3> QED
      BY <2>0, <3>1, <3>2
  <2>2. CASE a > m
    <3>1. /\ a - m \in 1..Len(t) /\ b - m \in 1..Len(t) /\ a - m < b - m
          /\ u[a] = t[a - m] /\ u[b] = t[b - m]
      BY <1>3, <1>4, <2>2
    <3>2. Bdf(t[a - m]) < Bdf(t[b - m])
      BY <3>1 DEF Rising
    <3> QED
      BY <2>0, <3>1, <3>2
  <2>3. CASE a <= m /\ b > m
    <3>1. /\ a \in 1..m /\ b - m \in 1..Len(t)
          /\ u[a] = s[a] /\ u[b] = t[b - m]
      BY <1>3, <2>3
    <3>2. Has(s, u[a]) /\ Has(t, u[b])
      BY <1>2, <3>1 DEF Has
    <3>3. u[a] # u[b]
      BY <3>2
    <3> QED
      BY <2>0, <3>3 DEF Numbered
  <2> QED
    BY <1>2, <1>3, <2>1, <2>2, <2>3
<1>5. i \in 1..Len(u) /\ j \in 1..Len(u) /\ Bdf(u[i]) = Bdf(u[j]) /\ Len(u) \in Nat
  BY <1>1, <1>3
<1>6. i < j \/ j < i \/ i = j
  BY <1>5
<1> QED
  BY <1>4, <1>5, <1>6

(* The first of a set in the order of the scan is one of it. *)
LEMMA FirstOfIs ==
  ASSUME NEW E, Numbered(E), FirstOf(E) # << >>
  PROVE  /\ FirstOf(E)[1] \in E /\ FirstOf(E)[1] = ScanOrder(E)[1]
<1>1. E # {}
  BY DEF FirstOf
<1>2. FirstOf(E) = <<ScanOrder(E)[1]>>
  BY <1>1 DEF FirstOf
<1>3. PICK x \in E : TRUE
  BY <1>1
<1>4. Has(ScanOrder(E), x) /\ ScanOrder(E) \in Seq(E)
  BY ScanOrderLists
<1>5. Len(ScanOrder(E)) \in Nat /\ 1 \in 1..Len(ScanOrder(E))
  BY <1>4 DEF Has
<1> QED
  BY <1>2, <1>4, <1>5

LEMMA NumberedSub ==
  ASSUME NEW F, Numbered(F), NEW E \in SUBSET F
  PROVE  Numbered(E)
BY FS_Subset DEF Numbered

(* What program_dte binds: functions of the root bus, each once, and the   *)
(* device it will drive first.                                             *)
LEMMA BindableIs ==
  ASSUME NEW F, TopologyOk(F), NEW w, w = Enumerate(F), ~w.truncated,
         NEW B, B = Bindable(w.out)
  PROVE  /\ B \in Seq(F)
         /\ \A i \in 1..Len(B) : B[i] \in F /\ B[i].bus = 0
         /\ \A i, j \in 1..Len(B) : Bdf(B[i]) = Bdf(B[j]) => i = j
         /\ FindDmaDevice(F) # << >> /\ IsEdu(FindDmaDevice(F)[1]) =>
              \A i \in 1..Len(B) : i = 1 => B[1] = FindDmaDevice(F)[1]
<1>0. Wired(F) /\ Numbered(F)
  BY TopologyIs
<1>1. w \in Walks(F) /\ Ordered(w.out)
  BY <1>0, EnumerateFinds
<1>2. PICK o \in Seq(F) : o = w.out
  BY <1>1 DEF Walks
<1>3. \A x : x \in ToSet(o) <=> Has(o, x)
  BY SetOfSeq
<1>4. \A x : Has(o, x) => x \in F
  BY DEF Has
<1>5. PICK capable : capable = {f \in ToSet(o) : f.bus = 0 /\ DmaCapable(f)}
  OBVIOUS
<1>6. PICK edus : edus = {f \in capable : IsEdu(f)}
  OBVIOUS
<1>7. PICK s : s = Among(o, edus)
  OBVIOUS
<1>8. PICK t : t = Among(o, capable \ edus)
  OBVIOUS
<1>9. B = s \o t
  BY <1>2, <1>5, <1>6, <1>7, <1>8 DEF Bindable
<1>10. /\ \A x \in edus : x.bus = 0
       /\ \A x \in capable \ edus : x.bus = 0
  BY <1>5, <1>6
<1>11. s \in Seq(F) /\ Rising(s) /\ \A x : Has(s, x) <=> Has(o, x) /\ x \in edus
  BY <1>1, <1>2, <1>7, <1>10, AmongIs
<1>12. /\ t \in Seq(F) /\ Rising(t)
       /\ \A x : Has(t, x) <=> Has(o, x) /\ x \in capable \ edus
  BY <1>1, <1>2, <1>8, <1>10, AmongIs
<1>13. B \in Seq(F)
  BY <1>9, <1>11, <1>12
<1>14. ASSUME NEW i \in 1..Len(B) PROVE B[i] \in F /\ B[i].bus = 0
  <2>1. /\ Len(B) = Len(s) + Len(t) /\ Len(s) \in Nat /\ Len(t) \in Nat
        /\ B[i] = IF i <= Len(s) THEN s[i] ELSE t[i - Len(s)]
    BY <1>9, <1>11, <1>12, ConcatIs
  <2>2. Has(s, B[i]) \/ Has(t, B[i])
    <3>1. CASE i <= Len(s)
      BY <2>1, <3>1 DEF Has
    <3>2. CASE i > Len(s)
      <4>1. i - Len(s) \in 1..Len(t) /\ B[i] = t[i - Len(s)]
        BY <2>1, <3>2
      <4> QED
        BY <4>1 DEF Has
    <3> QED
      BY <2>1, <3>1, <3>2
  <2> QED
    BY <1>4, <1>10, <1>11, <1>12, <2>2
<1>15. ASSUME NEW i \in 1..Len(B), NEW j \in 1..Len(B), Bdf(B[i]) = Bdf(B[j])
       PROVE  i = j
  <2>1. \A x : ~(Has(s, x) /\ Has(t, x))
    BY <1>11, <1>12
  <2> QED
    BY <1>0, <1>9, <1>11, <1>12, <1>15, <2>1, ConcatDistinct
<1>16. ASSUME FindDmaDevice(F) # << >>, IsEdu(FindDmaDevice(F)[1]),
              1 \in 1..Len(B)
       PROVE  B[1] = FindDmaDevice(F)[1]
  <2>1. PICK E : E = {f \in F : f.bus = 0 /\ IsEdu(f)}
    OBVIOUS
  <2>2. CASE E = {}
    <3> DEFINE C == {f \in F : /\ f.bus = 0 /\ f.kind = "ethernet"
                               /\ \E z \in F : z.bus = 0 /\ z.dev = f.dev
                                                         /\ z.func = 0}
    <3>1. FindDmaDevice(F) = FirstOf(C)
      BY <2>1, <2>2 DEF FindDmaDevice, FindClass
    <3>2. C \in SUBSET F
      OBVIOUS
    <3>3. \A f \in C : f.kind = "ethernet"
      OBVIOUS
    <3> HIDE DEF C
    <3>4. Numbered(C)
      BY <1>0, <3>2, NumberedSub
    <3>5. FindDmaDevice(F)[1] \in C
      BY <1>16, <3>1, <3>4, FirstOfIs
    <3> QED
      BY <1>16, <3>3, <3>5 DEF IsEdu
  <2>3. CASE E # {}
    <3>1. FindDmaDevice(F) = FirstOf(E)
      BY <2>1, <2>3 DEF FindDmaDevice
    <3>2. E \in SUBSET F
      BY <2>1
    <3>3. Numbered(E)
      BY <1>0, <3>2, NumberedSub
    <3>4. FindDmaDevice(F)[1] = ScanOrder(E)[1]
      BY <1>16, <3>1, <3>3, FirstOfIs
    <3>5. PICK z : z = ScanOrder(E)
      OBVIOUS
    <3>6. z \in Seq(E) /\ Rising(z) /\ \A x \in E : Has(z, x)
      BY <3>3, <3>5, ScanOrderLists
    <3>7. z \in Seq(F)
      BY <3>2, <3>6
    <3>8. \A x : Has(z, x) => x \in E
      BY <3>6 DEF Has
    <3>9. \A x \in E : Has(o, x)
      BY <1>2, <2>1, WalkComplete
    <3>10. \A x : x \in edus <=> x \in E
      BY <1>3, <1>4, <1>5, <1>6, <2>1, <3>9 DEF IsEdu, DmaCapable
    <3>11. \A x : Has(s, x) <=> Has(z, x)
      BY <1>11, <3>6, <3>8, <3>9, <3>10
    <3>12. PICK y \in E : TRUE
      BY <2>3
    <3>13. Has(s, y)
      BY <3>6, <3>11, <3>12
    <3>14. Len(s) >= 1 /\ s[1] = z[1]
      BY <1>0, <1>11, <3>6, <3>7, <3>11, <3>13, SameFirst
    <3>15. B[1] = s[1]
      BY <1>9, <1>11, <1>12, <1>16, <3>14, ConcatIs
    <3> QED
      BY <3>4, <3>5, <3>14, <3>15
  <2> QED
    BY <2>2, <2>3
<1> QED
  BY <1>13, <1>14, <1>15, <1>16

-----------------------------------------------------------------------------
(* The containment proof as a program: its instructions.                   *)
Ends == {"done", "perdevice", "controls"}

(* An instruction that gives up goes to a later phase or to the end, and   *)
(* the entry is never stored as one that passes everything.                *)
Fine(i) == /\ i.op \in {"alloc", "need"} => i.orelse \in Ends
           /\ i.op = "entry" => i.root \in {DENY, 1, RESERVED}
FineList(t) == /\ \E S : t \in Seq(S)
               /\ Len(t) # 0
               /\ \A i \in 1..Len(t) : Fine(t[i])

LEMMA FineConcat ==
  ASSUME NEW s, NEW t, FineList(s), FineList(t)
  PROVE  FineList(s \o t)
<1>1. PICK S, T : s \in Seq(S) /\ t \in Seq(T)
  BY DEF FineList
<1>2. PICK U : U = S \cup T
  OBVIOUS
<1>3. s \in Seq(U) /\ t \in Seq(U)
  BY <1>1, <1>2
<1>4. /\ s \o t \in Seq(U) /\ Len(s \o t) = Len(s) + Len(t)
      /\ \A i \in 1..Len(s \o t) :
           (s \o t)[i] = IF i <= Len(s) THEN s[i] ELSE t[i - Len(s)]
      /\ Len(s) \in Nat /\ Len(t) \in Nat
  BY <1>3, ConcatIs
<1>5. ASSUME NEW i \in 1..Len(s \o t) PROVE Fine((s \o t)[i])
  <2>1. CASE i <= Len(s)
    BY <1>4, <2>1 DEF FineList
  <2>2. CASE i > Len(s)
    <3>1. i - Len(s) \in 1..Len(t) /\ (s \o t)[i] = t[i - Len(s)]
      BY <1>4, <2>2
    <3> QED
      BY <3>1 DEF FineList
  <2> QED
    BY <1>4, <2>1, <2>2
<1> QED
  BY <1>4, <1>5 DEF FineList

LEMMA Parts ==
  /\ FineList(Attempted) /\ FineList(Mapped) /\ FineList(Probed)
  /\ FineList(Withdrawn) /\ FineList(Revoked) /\ FineList(DenyRead)
  /\ FineList(DenyWrite) /\ FineList(PerDevice) /\ FineList(Controls)
<1>1. FineList(Attempted)
  <2>1. PICK S : S = {Attempted[i] : i \in 1..7}
    OBVIOUS
  <2>3. Attempted \in Seq(S) /\ Len(Attempted) = 7
    BY <2>1 DEF Attempted
  <2>2. \A i \in 1..7 : Fine(Attempted[i])
    BY DEF Attempted, Fine, Ends, alloc, fill, see, in, out
  <2>4. \E Z : Attempted \in Seq(Z)
    BY <2>3
  <2> QED
    BY <2>2, <2>3, <2>4 DEF FineList
<1>2. FineList(Mapped)
  <2>1. PICK S : S = {Mapped[i] : i \in 1..12}
    OBVIOUS
  <2>3. Mapped \in Seq(S) /\ Len(Mapped) = 12
    BY <2>1 DEF Mapped
  <2>2. \A i \in 1..12 : Fine(Mapped[i])
    BY DEF Mapped, Fine, Ends, alloc, fill, need, grant, leaf, Op
  <2>4. \E Z : Mapped \in Seq(Z)
    BY <2>3
  <2> QED
    BY <2>2, <2>3, <2>4 DEF FineList
<1>3. FineList(Probed)
  <2>1. PICK S : S = {Probed[i] : i \in 1..13}
    OBVIOUS
  <2>3. Probed \in Seq(S) /\ Len(Probed) = 13
    BY <2>1 DEF Probed
  <2>2. \A i \in 1..13 : Fine(Probed[i])
    BY DEF Probed, Fine, Ends, fill, see, leaf, in, out, say
  <2>4. \E Z : Probed \in Seq(Z)
    BY <2>3
  <2> QED
    BY <2>2, <2>3, <2>4 DEF FineList
<1>4. FineList(Withdrawn)
  <2>1. PICK S : S = {Withdrawn[i] : i \in 1..6}
    OBVIOUS
  <2>3. Withdrawn \in Seq(S) /\ Len(Withdrawn) = 6
    BY <2>1 DEF Withdrawn
  <2>2. \A i \in 1..6 : Fine(Withdrawn[i])
    BY DEF Withdrawn, Fine, Ends, revoke, clear
  <2>4. \E Z : Withdrawn \in Seq(Z)
    BY <2>3
  <2> QED
    BY <2>2, <2>3, <2>4 DEF FineList
<1>5. FineList(Revoked)
  <2>1. PICK S : S = {Revoked[i] : i \in 1..5}
    OBVIOUS
  <2>3. Revoked \in Seq(S) /\ Len(Revoked) = 5
    BY <2>1 DEF Revoked
  <2>2. \A i \in 1..5 : Fine(Revoked[i])
    BY DEF Revoked, Fine, Ends, fill, see, out, flush, say
  <2>4. \E Z : Revoked \in Seq(Z)
    BY <2>3
  <2> QED
    BY <2>2, <2>3, <2>4 DEF FineList
<1>6. FineList(DenyRead)
  <2>1. PICK S : S = {DenyRead[i] : i \in 1..17}
    OBVIOUS
  <2>3. DenyRead \in Seq(S) /\ Len(DenyRead) = 17
    BY <2>1 DEF DenyRead
  <2>2. \A i \in 1..17 : Fine(DenyRead[i])
    BY DEF DenyRead, Fine, Ends, fill, see, grant, revoke, put, clear, unmap, in, out, entry, flush, say
  <2>4. \E Z : DenyRead \in Seq(Z)
    BY <2>3
  <2> QED
    BY <2>2, <2>3, <2>4 DEF FineList
<1>7. FineList(DenyWrite)
  <2>1. PICK S : S = {DenyWrite[i] : i \in 1..10}
    OBVIOUS
  <2>3. DenyWrite \in Seq(S) /\ Len(DenyWrite) = 10
    BY <2>1 DEF DenyWrite
  <2>2. \A i \in 1..10 : Fine(DenyWrite[i])
    BY DEF DenyWrite, Fine, Ends, fill, see, out, entry, flush, say
  <2>4. \E Z : DenyWrite \in Seq(Z)
    BY <2>3
  <2> QED
    BY <2>2, <2>3, <2>4 DEF FineList
<1>8. FineList(PerDevice)
  <2>1. PICK S : S = {PerDevice[i] : i \in 1..20}
    OBVIOUS
  <2>3. PerDevice \in Seq(S) /\ Len(PerDevice) = 20
    BY <2>1 DEF PerDevice
  <2>2. \A i \in 1..20 : Fine(PerDevice[i])
    BY DEF PerDevice, Fine, Ends, alloc, fill, see, need, grant, revoke, put, clear, unmap, out, flush, say
  <2>4. \E Z : PerDevice \in Seq(Z)
    BY <2>3
  <2> QED
    BY <2>2, <2>3, <2>4 DEF FineList
<1>9. FineList(Controls)
  <2>1. PICK S : S = {Controls[i] : i \in 1..5}
    OBVIOUS
  <2>3. Controls \in Seq(S) /\ Len(Controls) = 5
    BY <2>1 DEF Controls
  <2>2. \A i \in 1..5 : Fine(Controls[i])
    BY DEF Controls, Fine, Ends, out, entry, say, Op
  <2>4. \E Z : Controls \in Seq(Z)
    BY <2>3
  <2> QED
    BY <2>2, <2>3, <2>4 DEF FineList
<1> QED
  BY <1>1, <1>2, <1>3, <1>4, <1>5, <1>6, <1>7, <1>8, <1>9

(* Every phase of the program is such a list, and leads to another or ends. *)
LEMMA ScriptFine ==
  ASSUME NEW p \in DOMAIN Script
  PROVE  FineList(Script[p]) /\ Following[p] \in (DOMAIN Script) \cup {"done"}
<1>1. /\ FineList(Mapped \o Probed) /\ FineList(Withdrawn \o Revoked)
      /\ FineList(DenyRead \o DenyWrite)
  BY Parts, FineConcat
<1>2. DOMAIN Script = {"contained", "translated", "withdraw", "denied", "perdevice",
                       "controls"}
  BY DEF Script
<1>3. /\ Script["contained"] = Attempted /\ Script["translated"] = Mapped \o Probed
      /\ Script["withdraw"] = Withdrawn \o Revoked
      /\ Script["denied"] = DenyRead \o DenyWrite
      /\ Script["perdevice"] = PerDevice /\ Script["controls"] = Controls
  BY DEF Script
<1>4. Following[p] \in (DOMAIN Script) \cup {"done"}
  BY <1>2 DEF Following
<1> QED
  BY <1>1, <1>2, <1>3, <1>4, Parts

-----------------------------------------------------------------------------
(* The boot: what holds from the first frame to the last call.             *)
Bdfs == {Bdf(f) : f \in boot.fns}
Scanned == walk = Enumerate(boot.fns) /\ ~walk.truncated
Drivable == Target # << >> /\ IsEdu(Target[1])
AllNone(x) == \A d \in Doms : x[d] = NoBdf
Raising == {"find", "scan", "bind", "deny", "sweep", "arm", "enable"}

(* A slot is built for the candidate of its number, after a whole scan. *)
Placed == \A d \in Doms : staged[d] # NoBdf =>
            /\ Scanned
            /\ d <= Len(Candidates) /\ staged[d] = Bdf(Candidates[d])

(* Every entry is what it has to be, but for the root of the driven one's. *)
AsWanted == \A f \in Present : table[Bdf(f)] = Wanted(Bdf(f))
Guarded ==
  \A f \in Present :
    IF Bdf(f) # staged[1] THEN table[Bdf(f)] = Wanted(Bdf(f))
    ELSE /\ table[Bdf(f)].domain = 1
         /\ \/ table[Bdf(f)].root = 1
            \/ table[Bdf(f)].root \in {DENY, RESERVED} /\ staged[1] = Edu

Published == slots = staged /\ "CTRL" \in unit /\ Guarded

Machine ==
  /\ boot \in Boots /\ walk \in Walks(boot.fns)
  /\ table \in [Bdfs -> [root : Int, domain : Nat]]
  /\ staged \in [Doms -> Int] /\ slots \in [Doms -> Int]
  /\ Placed
  /\ AllNone(slots) \/ Published

Control ==
  /\ pc = [phase |-> pc.phase, at |-> pc.at]
  /\ pc.phase \in {"find", "scan"} => AllNone(staged)
  /\ pc.phase \in Raising => AllNone(slots)
  /\ pc.phase = "bind" => Scanned /\ pc.at \in Nat \ {0}
  /\ pc.phase \in {"arm", "enable"} => AsWanted
  /\ pc.phase \in DOMAIN Script =>
       pc.at \in 1..Len(Script[pc.phase]) /\ Drivable

BootInv == Machine /\ Control

(* The boot's config space. *)
LEMMA BootTopology ==
  ASSUME boot \in Boots
  PROVE  TopologyOk(boot.fns) /\ Wired(boot.fns) /\ Numbered(boot.fns)
BY BootAssumption, TopologyIs

(* The devices the domains go to. *)
LEMMA CandidatesAre ==
  ASSUME boot \in Boots, Scanned
  PROVE  /\ Len(Candidates) \in Nat /\ Len(Candidates) <= MAX_DOMAINS
         /\ \A i \in 1..Len(Candidates) : /\ Candidates[i] \in boot.fns
                                          /\ Candidates[i].bus = 0
                                          /\ Bdf(Candidates[i]) \in Nat
         /\ \A i, j \in 1..Len(Candidates) :
              Bdf(Candidates[i]) = Bdf(Candidates[j]) => i = j
         /\ Drivable /\ 1 <= Len(Candidates) => Candidates[1] = Target[1]
<1>1. PICK F : F = boot.fns
  OBVIOUS
<1>2. TopologyOk(F) /\ Numbered(F)
  BY <1>1, BootTopology
<1>3. PICK w : w = walk
  OBVIOUS
<1>4. w = Enumerate(F) /\ ~w.truncated
  BY <1>1, <1>3 DEF Scanned
<1>5. PICK B : B = Bindable(w.out)
  OBVIOUS
<1>6. /\ B \in Seq(F)
      /\ \A i \in 1..Len(B) : B[i] \in F /\ B[i].bus = 0
      /\ \A i, j \in 1..Len(B) : Bdf(B[i]) = Bdf(B[j]) => i = j
      /\ FindDmaDevice(F) # << >> /\ IsEdu(FindDmaDevice(F)[1]) =>
           \A i \in 1..Len(B) : i = 1 => B[1] = FindDmaDevice(F)[1]
  BY <1>2, <1>4, <1>5, BindableIs
<1>7. PICK m : m = IF Len(B) < MAX_DOMAINS THEN Len(B) ELSE MAX_DOMAINS
  OBVIOUS
<1>8. m \in Nat /\ m <= Len(B) /\ m <= MAX_DOMAINS /\ Len(B) \in Nat
  BY <1>6, <1>7, BootAssumption
<1>9. PICK c : c = SubSeq(B, 1, m)
  OBVIOUS
<1>10. Candidates = c
  BY <1>3, <1>5, <1>7, <1>9 DEF Candidates
<1>11. Len(c) = m /\ \A i \in 1..m : c[i] = B[i]
  BY <1>6, <1>8, <1>9
<1>12. \A i \in 1..m : i \in 1..Len(B) /\ B[i] \in F /\ B[i].bus = 0 /\ Bdf(B[i]) \in Nat
  BY <1>2, <1>6, <1>8 DEF Numbered
<1>13. \A i, j \in 1..m : Bdf(c[i]) = Bdf(c[j]) => i = j
  BY <1>6, <1>11, <1>12
<1>14. \A i \in 1..m : c[i] \in F /\ c[i].bus = 0 /\ Bdf(c[i]) \in Nat
  BY <1>11, <1>12
<1>15. ASSUME Drivable, 1 <= m PROVE c[1] = Target[1]
  <2>1. FindDmaDevice(F) # << >> /\ IsEdu(FindDmaDevice(F)[1])
    BY <1>1, <1>15 DEF Drivable, Target
  <2>2. 1 \in 1..m /\ 1 \in 1..Len(B)
    BY <1>8, <1>15
  <2> QED
    BY <1>1, <1>6, <1>11, <2>1, <2>2 DEF Target
<1> QED
  BY <1>1, <1>8, <1>10, <1>11, <1>13, <1>14, <1>15

(* No device has two slots. *)
LEMMA OneSlot ==
  ASSUME Machine, NEW d \in Doms, NEW e \in Doms, staged[d] = staged[e],
         staged[d] # NoBdf
  PROVE  d = e
<1>1. Scanned /\ d <= Len(Candidates) /\ staged[d] = Bdf(Candidates[d])
  BY DEF Machine, Placed
<1>2. e <= Len(Candidates) /\ staged[e] = Bdf(Candidates[e])
  BY DEF Machine, Placed
<1>3. Len(Candidates) \in Nat /\ MAX_DOMAINS \in Nat
  BY <1>1, CandidatesAre, BootAssumption DEF Machine
<1>4. d \in 1..Len(Candidates) /\ e \in 1..Len(Candidates)
  BY <1>1, <1>2, <1>3 DEF Doms
<1> QED
  BY <1>1, <1>2, <1>4, CandidatesAre DEF Machine

(* What the entry of a device with a slot has to be. *)
LEMMA WantedIs ==
  ASSUME Machine, NEW b
  PROVE  /\ \A d \in Doms : staged[d] = b /\ b # NoBdf => Wanted(b) = Entry(d, d)
         /\ (\A d \in Doms : staged[d] # b) => Wanted(b) = DenyEntry
<1>1. ASSUME NEW d \in Doms, staged[d] = b, b # NoBdf PROVE Wanted(b) = Entry(d, d)
  <2>1. b \in Bound
    BY <1>1 DEF Bound
  <2>2. PICK e : e = CHOOSE x \in Doms : staged[x] = b
    OBVIOUS
  <2>3. e \in Doms /\ staged[e] = b
    BY <1>1, <2>2
  <2>4. e = d
    BY <1>1, <2>3, OneSlot
  <2> QED
    BY <2>1, <2>2, <2>4 DEF Wanted
<1>2. ASSUME \A d \in Doms : staged[d] # b PROVE Wanted(b) = DenyEntry
  <2>1. b \notin Bound
    BY <1>2 DEF Bound
  <2> QED
    BY <2>1 DEF Wanted
<1> QED
  BY <1>1, <1>2

(* The functions that are present are functions of the machine. *)
LEMMA PresentIs ==
  ASSUME Machine
  PROVE  /\ \A f \in Present : f \in boot.fns /\ Bdf(f) \in Nat /\ Bdf(f) \in Bdfs
         /\ \A f : f \in Present <=> Has(walk.out, f)
<1>1. walk.out \in Seq(boot.fns)
  BY DEF Machine, Walks
<1>2. \A f : f \in Present <=> Has(walk.out, f)
  BY <1>1, SetOfSeq DEF Present
<1>3. \A f : Has(walk.out, f) => f \in boot.fns
  BY <1>1 DEF Has
<1>4. Numbered(boot.fns)
  BY BootTopology DEF Machine
<1> QED
  BY <1>2, <1>3, <1>4 DEF Numbered, Bdfs

(* The invariant says that what is published is bounded. *)
LEMMA BootBounded ==
  ASSUME BootInv
  PROVE  PublishedBounded
<1> SUFFICES ASSUME NEW k \in Doms, slots[k] # NoBdf
             PROVE  /\ "CTRL" \in unit
                    /\ \A f \in Behind(boot.fns) :
                         LET e == table[Bdf(f)]
                             mine == {d \in Doms : slots[d] = Bdf(f)}
                         IN  /\ e.root # PASS
                             /\ mine = {} => e = DenyEntry
                             /\ \A d \in mine : /\ f.bus = 0 /\ e.domain = d
                                                /\ e.root = d \/ (d = 1 /\ Bdf(f) = Edu)
  BY DEF PublishedBounded
<1>1. Machine /\ slots = staged /\ "CTRL" \in unit /\ Guarded
  BY DEF BootInv, Machine, Published, AllNone
<1>2. Scanned
  BY <1>1 DEF Machine, Placed
<1>3. TopologyOk(boot.fns) /\ Numbered(boot.fns)
  BY <1>1, BootTopology DEF Machine
<1>4. ASSUME NEW f \in Behind(boot.fns)
      PROVE  LET e == table[Bdf(f)]
                 mine == {d \in Doms : slots[d] = Bdf(f)}
             IN  /\ e.root # PASS
                 /\ mine = {} => e = DenyEntry
                 /\ \A d \in mine : /\ f.bus = 0 /\ e.domain = d
                                    /\ e.root = d \/ (d = 1 /\ Bdf(f) = Edu)
  <2>1. f \in boot.fns /\ Has(walk.out, f)
    BY <1>2, <1>3, WalkComplete DEF Scanned
  <2>2. f \in Present /\ Bdf(f) \in Nat
    BY <1>1, <2>1, PresentIs
  <2>3. PICK b : b = Bdf(f)
    OBVIOUS
  <2>4. b # NoBdf /\ b \in Nat
    BY <2>2, <2>3 DEF NoBdf
  <2>5. PICK e : e = table[b]
    OBVIOUS
  <2>6. PICK mine : mine = {d \in Doms : slots[d] = b}
    OBVIOUS
  <2>7. ASSUME NEW d \in mine PROVE f.bus = 0 /\ d \in Doms /\ staged[d] = b
    <3>1. d \in Doms /\ staged[d] = b
      BY <1>1, <2>6
    <3>2. d <= Len(Candidates) /\ b = Bdf(Candidates[d])
      BY <1>1, <2>4, <3>1 DEF Machine, Placed
    <3>3. Len(Candidates) \in Nat
      BY <1>1, <1>2, CandidatesAre DEF Machine
    <3>4. d \in 1..Len(Candidates)
      BY <3>1, <3>2, <3>3, BootAssumption DEF Doms
    <3>5. Candidates[d] \in boot.fns /\ Candidates[d].bus = 0
      BY <1>1, <1>2, <3>4, CandidatesAre DEF Machine
    <3>6. Candidates[d] = f
      BY <1>3, <2>1, <2>3, <3>2, <3>5 DEF Numbered
    <3> QED
      BY <3>1, <3>5, <3>6
  <2>8. 1 \in Doms
    BY BootAssumption DEF Doms
  <2>9. CASE b = staged[1]
    <3>1. /\ e.domain = 1
          /\ e.root = 1 \/ (e.root \in {DENY, RESERVED} /\ b = Edu)
      BY <1>1, <2>2, <2>3, <2>5, <2>9 DEF Guarded
    <3>2. 1 \in mine
      BY <1>1, <2>6, <2>8, <2>9
    <3>3. \A d \in mine : d = 1
      BY <1>1, <2>4, <2>7, <2>8, <2>9, OneSlot
    <3>4. e.root # PASS
      BY <3>1 DEF PASS, DENY, RESERVED
    <3> QED
      BY <2>3, <2>5, <2>6, <2>7, <3>1, <3>2, <3>3, <3>4
  <2>10. CASE b # staged[1]
    <3>1. e = Wanted(b)
      BY <1>1, <2>2, <2>3, <2>5, <2>10 DEF Guarded
    <3>2. CASE mine = {}
      <4>1. \A d \in Doms : staged[d] # b
        BY <1>1, <2>6, <3>2
      <4>2. e = DenyEntry
        BY <1>1, <3>1, <4>1, WantedIs
      <4>3. e.root # PASS
        BY <4>2 DEF DenyEntry, Entry, PASS, DENY
      <4> QED
        BY <2>3, <2>5, <2>6, <3>2, <4>2, <4>3
    <3>3. CASE mine # {}
      <4>1. \A d \in mine : e = Entry(d, d)
        BY <1>1, <2>4, <2>7, <3>1, WantedIs
      <4>2. \A d \in mine : e.root = d /\ e.domain = d
        BY <4>1 DEF Entry
      <4>3. \A d \in mine : d # PASS
        BY <2>7, BootAssumption DEF Doms, PASS
      <4> QED
        BY <2>3, <2>5, <2>6, <2>7, <3>3, <4>2, <4>3
    <3> QED
      BY <3>2, <3>3
  <2> QED
    BY <2>9, <2>10
<1> QED
  BY <1>1, <1>4

LEMMA BootStarts ==
  ASSUME BootInit
  PROVE  BootInv
<1>1. /\ boot \in Boots /\ pc = At("find") /\ slots = staged
      /\ staged = [d \in Doms |-> NoBdf]
      /\ walk = [buses |-> << >>, out |-> << >>, truncated |-> FALSE]
      /\ table = [b \in Bdfs |-> Entry(PASS, 0)]
  BY DEF BootInit, Bdfs
<1>2. AllNone(staged) /\ AllNone(slots)
  BY <1>1 DEF AllNone
<1>3. walk \in Walks(boot.fns)
  BY <1>1 DEF Walks
<1>4. table \in [Bdfs -> [root : Int, domain : Nat]]
  <2>1. Entry(PASS, 0) \in [root : Int, domain : Nat]
    BY DEF Entry, PASS
  <2> QED
    BY <1>1, <2>1
<1>5. staged \in [Doms -> Int] /\ slots \in [Doms -> Int]
  BY <1>1 DEF NoBdf
<1>6. Placed
  BY <1>2 DEF Placed, AllNone
<1>7. Machine
  BY <1>1, <1>2, <1>3, <1>4, <1>5, <1>6 DEF Machine
<1>8. pc = [phase |-> "find", at |-> 1]
  BY <1>1 DEF At
<1>9. DOMAIN Script = {"contained", "translated", "withdraw", "denied", "perdevice",
                       "controls"}
  BY DEF Script
<1>10. Control
  BY <1>2, <1>8, <1>9 DEF Control
<1> QED
  BY <1>7, <1>10 DEF BootInv

Phases == {"contained", "translated", "withdraw", "denied", "perdevice", "controls"}
LEMMA ScriptPhases == DOMAIN Script = Phases
BY DEF Script, Phases

(* Most steps leave the tables alone. *)
LEMMA MachineKept ==
  ASSUME Machine, UNCHANGED <<boot, walk, tables>>
  PROVE  Machine'
<1>1. boot' = boot /\ walk' = walk /\ staged' = staged /\ slots' = slots
      /\ table' = table /\ unit' = unit
  BY DEF tables
<1> QED
  BY <1>1 DEF Machine, Placed, Published, Guarded, AllNone, Scanned, Bdfs, Candidates,
              Present, Wanted, Bound, Edu, Target

(* Where nothing is asked of a phase. *)
LEMMA ControlFree ==
  ASSUME NEW phase \in {"done", "exit", "drive", "calls"}, pc' = At(phase)
  PROVE  Control'
<1>1. pc' = [phase |-> phase, at |-> 1]
  BY DEF At
<1>2. (DOMAIN Script)' = DOMAIN Script
  BY DEF Script
<1>3. phase \notin Raising /\ phase \notin DOMAIN Script
  BY ScriptPhases DEF Raising, Phases
<1> QED
  BY <1>1, <1>3 DEF Control, Raising

(* A step of the program stays in it or ends it. *)
LEMMA ControlAdvance ==
  ASSUME Control, pc.phase \in DOMAIN Script, boot' = boot,
         Advance \/ \E e \in Ends : Goto(e)
  PROVE  Control'
<1>1. FineList(Script[pc.phase]) /\ Following[pc.phase] \in (DOMAIN Script) \cup {"done"}
  BY ScriptFine
<1>2. /\ pc.at \in 1..Len(Script[pc.phase]) /\ Drivable
      /\ pc = [phase |-> pc.phase, at |-> pc.at]
  BY DEF Control
<1>3. Len(Script[pc.phase]) \in Nat
  BY <1>1 DEF FineList
<1>4. Drivable'
  BY <1>2 DEF Drivable, Target
<1>5. ASSUME NEW phase \in Phases, NEW n \in Nat, pc' = [phase |-> phase, at |-> n],
             n \in 1..Len(Script[phase])
      PROVE  Control'
  <2>1. pc'.phase = phase /\ pc'.at = n
    BY <1>5
  <2>2. phase \notin Raising
    BY DEF Phases, Raising
  <2> QED
    BY <1>4, <1>5, <2>1, <2>2 DEF Control, Raising
<1>6. ASSUME NEW phase \in Phases, pc' = At(phase) PROVE Control'
  <2>1. FineList(Script[phase])
    BY ScriptFine, ScriptPhases
  <2>2. Len(Script[phase]) \in Nat /\ Len(Script[phase]) # 0
    BY <2>1 DEF FineList
  <2>3. 1 \in 1..Len(Script[phase])
    BY <2>2
  <2> QED
    BY <1>5, <1>6, <2>3 DEF At
<1>7. CASE Advance /\ pc.at < Len(Script[pc.phase])
  <2>1. pc' = [phase |-> pc.phase, at |-> pc.at + 1]
    BY <1>2, <1>7 DEF Advance
  <2>2. pc.at + 1 \in 1..Len(Script[pc.phase]) /\ pc.at + 1 \in Nat
    BY <1>2, <1>3, <1>7
  <2> QED
    BY <1>5, <2>1, <2>2, ScriptPhases
<1>8. CASE Advance /\ ~(pc.at < Len(Script[pc.phase]))
  <2>1. pc' = At(Following[pc.phase])
    BY <1>8 DEF Advance
  <2> QED
    BY <1>1, <1>6, <2>1, ScriptPhases, ControlFree
<1>9. CASE \E e \in Ends : Goto(e)
  <2>1. PICK e \in Ends : pc' = At(e)
    BY <1>9 DEF Goto
  <2>2. e \in Phases \/ e = "done"
    BY DEF Ends, Phases
  <2> QED
    BY <1>6, <2>1, <2>2, ControlFree
<1> QED
  BY <1>7, <1>8, <1>9

(* The instruction about to be executed. *)
LEMMA StepFine ==
  ASSUME Control, NEW op, Doing(op)
  PROVE  pc.phase \in DOMAIN Script /\ Step.op = op /\ Fine(Step)
<1>1. pc.phase \in DOMAIN Script /\ Step.op = op
  BY DEF Doing
<1>2. FineList(Script[pc.phase]) /\ pc.at \in 1..Len(Script[pc.phase])
  BY <1>1, ScriptFine DEF Control
<1> QED
  BY <1>1, <1>2 DEF FineList, Step

(* The instructions that leave the device table and the registers alone. *)
LEMMA InstructionKeeps ==
  ASSUME BootInv, \/ Alloc \/ Fill \/ See \/ Check \/ Domain \/ TransferDone
                  \/ TransferStuck \/ TransferSkipped \/ FlushAnswered
                  \/ FlushUnanswered \/ Say
  PROVE  BootInv'
<1>1. Machine /\ Control
  BY DEF BootInv
<1>2. UNCHANGED <<boot, walk, tables>>
  BY DEF Alloc, Fill, See, Check, Domain, TransferDone, TransferStuck, TransferSkipped,
         FlushAnswered, FlushUnanswered, Say, tables
<1>3. pc.phase \in DOMAIN Script
  BY DEF Alloc, Fill, See, Check, Domain, TransferDone, TransferStuck, TransferSkipped,
         FlushAnswered, FlushUnanswered, Say, Doing, Asks
<1>4. Advance \/ \E e \in Ends : Goto(e)
  <2>1. CASE Alloc
    <3>1. Doing("alloc") /\ (Advance \/ Goto(Step.orelse))
      BY <2>1 DEF Alloc
    <3>2. Step.orelse \in Ends
      BY <1>1, <3>1, StepFine DEF Fine
    <3> QED
      BY <3>1, <3>2
  <2>2. CASE Check
    <3>1. CASE Step.op = "need"
      <4>1. Doing("need")
        BY <1>3, <3>1 DEF Doing
      <4>2. Step.orelse \in Ends
        BY <1>1, <4>1, StepFine DEF Fine
      <4>3. Advance \/ Goto(Step.orelse)
        BY <2>2, <3>1 DEF Check
      <4> QED
        BY <4>2, <4>3
    <3>2. CASE Step.op # "need"
      <4>1. Advance \/ Goto("perdevice")
        BY <2>2, <3>2 DEF Check
      <4> QED
        BY <4>1 DEF Ends
    <3> QED
      BY <3>1, <3>2
  <2>3. CASE ~Alloc /\ ~Check
    BY <2>3 DEF Fill, See, Domain, TransferDone, TransferStuck, TransferSkipped,
                FlushAnswered, FlushUnanswered, Say
  <2> QED
    BY <2>1, <2>2, <2>3
<1>5. boot' = boot
  BY <1>2
<1>6. Machine' /\ Control'
  BY <1>1, <1>2, <1>3, <1>4, <1>5, MachineKept, ControlAdvance
<1> QED
  BY <1>6 DEF BootInv

(* A command the unit does not know leaves the tables as they are. *)
LEMMA IllegalKeeps ==
  ASSUME BootInv, IllegalCommand
  PROVE  BootInv'
<1>1. Machine /\ Control
  BY DEF BootInv
<1>2. /\ boot' = boot /\ walk' = walk /\ staged' = staged /\ slots' = slots
      /\ table' = table /\ (unit' = unit \/ unit' = unit \ {"store"})
      /\ pc.phase \in DOMAIN Script /\ Advance
  BY DEF IllegalCommand, Doing
<1>3. "CTRL" \in unit => "CTRL" \in unit'
  BY <1>2
<1>4. Machine'
  BY <1>1, <1>2, <1>3
     DEF Machine, Placed, Published, Guarded, AllNone, Scanned, Bdfs, Candidates,
         Present, Wanted, Bound, Edu, Target
<1>5. Control'
  BY <1>1, <1>2, ControlAdvance
<1> QED
  BY <1>4, <1>5 DEF BootInv

(* Word 0 of the driven device's entry: whatever is stored, the rest of    *)
(* the table is as it has to be.                                           *)
LEMMA StoreKeeps ==
  ASSUME BootInv, StoreEntry
  PROVE  BootInv'
<1>1. Machine /\ Control
  BY DEF BootInv
<1>2. /\ boot' = boot /\ walk' = walk /\ staged' = staged /\ slots' = slots
      /\ unit' = unit /\ Doing("entry") /\ Advance
      /\ table' = IF staged[1] = NoBdf THEN table
                  ELSE [table EXCEPT ![staged[1]].root = Step.root]
  BY DEF StoreEntry
<1>3. pc.phase \in DOMAIN Script /\ Step.root \in {DENY, 1, RESERVED}
  BY <1>1, <1>2, StepFine DEF Fine
<1>4. Control'
  BY <1>1, <1>2, <1>3, ControlAdvance
<1>5. CASE staged[1] = NoBdf
  <2>1. UNCHANGED <<boot, walk, tables>>
    BY <1>2, <1>5 DEF tables
  <2> QED
    BY <1>1, <1>4, <2>1, MachineKept DEF BootInv
<1>6. CASE staged[1] # NoBdf
  <2>1. 1 \in Doms
    BY BootAssumption DEF Doms
  <2>2. Scanned /\ 1 <= Len(Candidates) /\ staged[1] = Bdf(Candidates[1])
    BY <1>1, <1>6, <2>1 DEF Machine, Placed
  <2>3. Drivable
    BY <1>1, <1>3 DEF Control
  <2>4. staged[1] = Edu
    BY <1>1, <2>2, <2>3, CandidatesAre DEF Machine, Edu
  <2>5. 1 \in 1..Len(Candidates)
    BY <1>1, <2>2, CandidatesAre DEF Machine
  <2>6. Candidates[1] \in boot.fns
    BY <1>1, <2>2, <2>5, CandidatesAre DEF Machine
  <2>7. staged[1] \in Bdfs
    BY <2>2, <2>6 DEF Bdfs
  <2>8. PICK t : t = table
    OBVIOUS
  <2>9. PICK k : k = staged[1]
    OBVIOUS
  <2>10. PICK r : r = Step.root
    OBVIOUS
  <2>11. t \in [Bdfs -> [root : Int, domain : Nat]] /\ k \in Bdfs
    BY <1>1, <2>7, <2>8, <2>9 DEF Machine
  <2>12. r \in Int
    BY <1>3, <2>10 DEF DENY, RESERVED
  <2>13. table' = [t EXCEPT ![k].root = r]
    BY <1>2, <1>6, <2>8, <2>9, <2>10
  <2>14. /\ table' \in [Bdfs -> [root : Int, domain : Nat]]
         /\ table'[k].root = r /\ table'[k].domain = t[k].domain
         /\ \A b \in Bdfs : b # k => table'[b] = t[b]
    BY <2>11, <2>12, <2>13
  <2>15. Bdfs' = Bdfs /\ Edu' = Edu /\ Present' = Present
    BY <1>2 DEF Bdfs, Edu, Target, Present
  <2>16. \A b : Wanted(b)' = Wanted(b)
    BY <1>2 DEF Wanted, Bound
  <2>17. ASSUME Guarded PROVE Guarded'
    <3>1. \A f \in Present : Bdf(f) \in Bdfs
      BY <1>1, PresentIs
    <3>2. ASSUME NEW f \in Present, Bdf(f) # k PROVE table'[Bdf(f)] = Wanted(Bdf(f))
      BY <2>8, <2>9, <2>14, <2>17, <3>1, <3>2 DEF Guarded
    <3>3. ASSUME NEW f \in Present, Bdf(f) = k
          PROVE  /\ table'[k].domain = 1
                 /\ \/ table'[k].root = 1
                    \/ table'[k].root \in {DENY, RESERVED} /\ k = Edu
      <4>1. t[k].domain = 1
        BY <2>8, <2>9, <2>17, <3>3 DEF Guarded
      <4> QED
        BY <1>3, <2>4, <2>9, <2>10, <2>14, <4>1
    <3> QED
      BY <1>2, <2>9, <2>15, <2>16, <3>2, <3>3 DEF Guarded
  <2>18. AllNone(slots)' \/ Published'
    <3>1. CASE AllNone(slots)
      BY <1>2, <3>1 DEF AllNone
    <3>2. CASE Published
      BY <1>2, <2>17, <3>2 DEF Published
    <3> QED
      BY <1>1, <3>1, <3>2 DEF Machine
  <2>19. Placed'
    BY <1>1, <1>2 DEF Machine, Placed, Scanned, Candidates
  <2>20. Machine'
    BY <1>1, <1>2, <2>14, <2>15, <2>18, <2>19 DEF Machine
  <2> QED
    BY <1>4, <2>20 DEF BootInv
<1> QED
  BY <1>5, <1>6

(* In a phase of bringing the unit up nothing is published. *)
LEMMA NothingYet ==
  ASSUME Control, NEW phase \in Raising, In(phase)
  PROVE  AllNone(slots)
BY DEF Control, In

LEMMA FindUnitKeeps ==
  ASSUME BootInv, FindUnit
  PROVE  BootInv'
<1>1. Machine /\ Control /\ In("find")
  BY DEF BootInv, FindUnit
<1>2. UNCHANGED <<boot, walk, tables>> /\ (Goto("scan") \/ Goto("done"))
  BY DEF FindUnit, tables
<1>3. AllNone(staged) /\ AllNone(slots)
  BY <1>1 DEF Control, In, Raising
<1>4. AllNone(staged)' /\ AllNone(slots)'
  BY <1>2, <1>3 DEF AllNone, tables
<1>5. ASSUME Goto("scan") PROVE Control'
  <2>1. pc' = [phase |-> "scan", at |-> 1]
    BY <1>5 DEF Goto, At
  <2>2. "scan" \notin DOMAIN Script
    BY ScriptPhases DEF Phases
  <2> QED
    BY <1>4, <2>1, <2>2 DEF Control
<1>6. Control'
  BY <1>2, <1>5, ControlFree DEF Goto
<1> QED
  BY <1>1, <1>2, <1>6, MachineKept DEF BootInv

LEMMA ScanKeeps ==
  ASSUME BootInv, Scan
  PROVE  BootInv'
<1>1. Machine /\ Control /\ In("scan")
  BY DEF BootInv, Scan
<1>2. /\ boot' = boot /\ staged' = staged /\ slots' = slots /\ table' = table
      /\ walk' = Enumerate(boot.fns)
  BY DEF Scan, tables
<1>3. AllNone(staged) /\ AllNone(slots)
  BY <1>1 DEF Control, In, Raising
<1>4. AllNone(staged)' /\ AllNone(slots)'
  BY <1>2, <1>3 DEF AllNone
<1>5. walk' \in Walks(boot.fns)
  BY <1>1, <1>2, BootTopology, EnumerateFinds DEF Machine
<1>6. Placed'
  BY <1>4 DEF Placed, AllNone
<1>7. Machine'
  BY <1>1, <1>2, <1>4, <1>5, <1>6 DEF Machine, Bdfs
<1>8. Goto("done") \/ (Goto("bind") /\ ~walk'.truncated)
  BY DEF Scan
<1>9. ASSUME Goto("bind"), ~walk'.truncated PROVE Control'
  <2>1. pc' = [phase |-> "bind", at |-> 1]
    BY <1>9 DEF Goto, At
  <2>2. "bind" \notin DOMAIN Script
    BY ScriptPhases DEF Phases
  <2>3. Scanned'
    BY <1>2, <1>9 DEF Scanned
  <2> QED
    BY <1>4, <2>1, <2>2, <2>3 DEF Control
<1>10. Control'
  BY <1>8, <1>9, ControlFree DEF Goto
<1> QED
  BY <1>7, <1>10 DEF BootInv

LEMMA BindKeeps ==
  ASSUME BootInv, NEW takes \in BOOLEAN, BindDevice(takes)
  PROVE  BootInv'
<1>1. Machine /\ Control /\ In("bind")
  BY DEF BootInv, BindDevice
<1>2. boot' = boot /\ walk' = walk /\ slots' = slots /\ pc.at <= Len(Candidates)
  BY DEF BindDevice
<1>3. AllNone(slots) /\ Scanned /\ pc.at \in Nat \ {0}
  BY <1>1 DEF Control, In, Raising
<1>4. AllNone(slots)' /\ Scanned' /\ Candidates' = Candidates /\ Bdfs' = Bdfs
  BY <1>2, <1>3 DEF AllNone, Scanned, Candidates, Bdfs
<1>5. PICK n \in Nat \ {0} : n = pc.at
  BY <1>3
<1>6. n \in 1..Len(Candidates) /\ n \in Doms
  BY <1>1, <1>2, <1>3, <1>5, CandidatesAre, BootAssumption, SMTT(30) DEF Machine, Doms
<1>7. PICK b : b = Bdf(Candidates[n])
  OBVIOUS
<1>8. b \in Bdfs /\ b \in Nat
  BY <1>1, <1>3, <1>6, <1>7, CandidatesAre DEF Machine, Bdfs
<1>9. pc' = [phase |-> "bind", at |-> n + 1]
  BY <1>1, <1>5 DEF BindDevice, Control, In
<1>10. Control'
  <2>1. "bind" \notin DOMAIN Script
    BY ScriptPhases DEF Phases
  <2> QED
    BY <1>4, <1>9, <2>1 DEF Control
<1>11. /\ table' \in [Bdfs -> [root : Int, domain : Nat]]
       /\ staged' \in [Doms -> Int]
       /\ \A d \in Doms : staged'[d] = staged[d] \/ (d = n /\ staged'[d] = b)
  <2>0. /\ table \in [Bdfs -> [root : Int, domain : Nat]] /\ staged \in [Doms -> Int]
    BY <1>1 DEF Machine
  <2>1. CASE takes
    <3>1. /\ table' = [table EXCEPT ![b] = Entry(n, n)]
          /\ staged' = [staged EXCEPT ![n] = b]
      BY <1>5, <1>7, <2>1 DEF BindDevice
    <3>2. Entry(n, n) \in [root : Int, domain : Nat]
      BY DEF Entry
    <3> QED
      BY <1>6, <1>8, <2>0, <3>1, <3>2
  <2>2. CASE ~takes
    <3>1. table' = table /\ staged' = staged
      BY <2>2 DEF BindDevice
    <3> QED
      BY <2>0, <3>1
  <2> QED
    BY <2>1, <2>2
<1>12. Placed'
  <2> SUFFICES ASSUME NEW d \in Doms, staged'[d] # NoBdf
               PROVE  d <= Len(Candidates) /\ staged'[d] = Bdf(Candidates[d])
    BY <1>4 DEF Placed
  <2>1. CASE staged'[d] = staged[d]
    BY <1>1, <2>1 DEF Machine, Placed
  <2>2. CASE d = n /\ staged'[d] = b
    BY <1>6, <1>7, <2>2
  <2> QED
    BY <1>11, <2>1, <2>2
<1>13. Machine'
  BY <1>1, <1>2, <1>4, <1>11, <1>12 DEF Machine
<1> QED
  BY <1>10, <1>13 DEF BootInv

(* A phase that asks for nothing but that nothing is published. *)
LEMMA ControlQuiet ==
  ASSUME NEW phase \in {"deny", "sweep"}, pc' = At(phase), AllNone(slots)'
  PROVE  Control'
<1>1. pc' = [phase |-> phase, at |-> 1]
  BY DEF At
<1>2. phase \notin DOMAIN Script
  BY ScriptPhases DEF Phases
<1> QED
  BY <1>1, <1>2 DEF Control

LEMMA BindEndsKeeps ==
  ASSUME BootInv, BindEnds
  PROVE  BootInv'
<1>1. Machine /\ Control /\ In("bind")
  BY DEF BootInv, BindEnds
<1>2. UNCHANGED <<boot, walk, tables>> /\ (Goto("done") \/ Goto("deny"))
  BY DEF BindEnds, tables
<1>3. AllNone(slots)
  BY <1>1, NothingYet DEF Raising
<1>4. AllNone(slots)'
  BY <1>2, <1>3 DEF AllNone, tables
<1>5. Control'
  BY <1>2, <1>4, ControlFree, ControlQuiet DEF Goto
<1> QED
  BY <1>1, <1>2, <1>5, MachineKept DEF BootInv

LEMMA DenyRestKeeps ==
  ASSUME BootInv, DenyRest
  PROVE  BootInv'
<1>1. Machine /\ Control /\ In("deny")
  BY DEF BootInv, DenyRest
<1>2. /\ boot' = boot /\ walk' = walk /\ slots' = slots /\ staged' = staged
      /\ Goto("done") \/ Goto("sweep")
  BY DEF DenyRest
<1>3. AllNone(slots)
  BY <1>1, NothingYet DEF Raising
<1>4. AllNone(slots)'
  BY <1>2, <1>3 DEF AllNone
<1>5. Control'
  BY <1>2, <1>4, ControlFree, ControlQuiet DEF Goto
<1>6. table \in [Bdfs -> [root : Int, domain : Nat]]
  BY <1>1 DEF Machine
<1>7. table' \in [Bdfs -> [root : Int, domain : Nat]]
  <2>1. \/ table' = table
        \/ \E missed \in SUBSET Unbound :
             table' = [b \in DOMAIN table |->
                         IF b \in Unbound \ missed THEN DenyEntry ELSE table[b]]
    BY DEF DenyRest
  <2>2. DenyEntry \in [root : Int, domain : Nat]
    BY BootAssumption DEF DenyEntry, Entry, DENY
  <2> QED
    BY <1>6, <2>1, <2>2
<1>8. Placed'
  BY <1>1, <1>2 DEF Machine, Placed, Scanned, Candidates
<1>9. Machine'
  BY <1>1, <1>2, <1>4, <1>7, <1>8 DEF Machine, Bdfs
<1> QED
  BY <1>5, <1>9 DEF BootInv

(* What the sweep found in order stays in order until it is enabled. *)
LEMMA ControlSwept ==
  ASSUME NEW phase \in {"arm", "enable"}, pc' = At(phase), AllNone(slots), AsWanted,
         boot' = boot, walk' = walk, staged' = staged, slots' = slots, table' = table
  PROVE  Control'
<1>1. pc' = [phase |-> phase, at |-> 1]
  BY DEF At
<1>2. phase \notin DOMAIN Script
  BY ScriptPhases DEF Phases
<1>3. AllNone(slots)' /\ AsWanted'
  BY DEF AllNone, AsWanted, Present, Wanted, Bound
<1> QED
  BY <1>1, <1>2, <1>3 DEF Control

LEMMA SweepKeeps ==
  ASSUME BootInv, Sweep
  PROVE  BootInv'
<1>1. Machine /\ Control /\ In("sweep")
  BY DEF BootInv, Sweep
<1>2. UNCHANGED <<boot, walk, tables>> /\ (Goto("exit") \/ (Goto("arm") /\ Swept = {}))
  BY DEF Sweep, tables
<1>3. AllNone(slots)
  BY <1>1, NothingYet DEF Raising
<1>4. Swept = {} => AsWanted
  BY DEF Swept, AsWanted
<1>5. Control'
  BY <1>2, <1>3, <1>4, ControlFree, ControlSwept DEF Goto, tables
<1> QED
  BY <1>1, <1>2, <1>5, MachineKept DEF BootInv

LEMMA ArmKeeps ==
  ASSUME BootInv, Arm
  PROVE  BootInv'
<1>1. Machine /\ Control /\ In("arm")
  BY DEF BootInv, Arm
<1>2. /\ boot' = boot /\ walk' = walk /\ slots' = slots /\ staged' = staged
      /\ table' = table /\ Goto("enable")
  BY DEF Arm
<1>3. AllNone(slots) /\ AsWanted
  BY <1>1 DEF Control, In, Raising
<1>4. Control'
  BY <1>2, <1>3, ControlSwept DEF Goto
<1>5. AllNone(slots)'
  BY <1>2, <1>3 DEF AllNone
<1>6. Placed'
  BY <1>1, <1>2 DEF Machine, Placed, Scanned, Candidates
<1>7. Machine'
  BY <1>1, <1>2, <1>5, <1>6 DEF Machine, Bdfs
<1> QED
  BY <1>4, <1>7 DEF BootInv

LEMMA EnableKeeps ==
  ASSUME BootInv, Enable
  PROVE  BootInv'
<1>1. Machine /\ Control /\ In("enable")
  BY DEF BootInv, Enable
<1>2. boot' = boot /\ walk' = walk /\ staged' = staged /\ table' = table
  BY DEF Enable
<1>3. AllNone(slots) /\ AsWanted
  BY <1>1 DEF Control, In, Raising
<1>4. Control'
  <2>1. Goto("drive") \/ Goto("done")
    BY DEF Enable
  <2> QED
    BY <2>1, ControlFree DEF Goto
<1>5. Guarded
  <2> SUFFICES ASSUME NEW f \in Present, Bdf(f) = staged[1]
               PROVE  table[Bdf(f)].domain = 1 /\ table[Bdf(f)].root = 1
    BY <1>3 DEF Guarded, AsWanted
  <2>1. Bdf(f) # NoBdf /\ 1 \in Doms
    BY <1>1, PresentIs, BootAssumption DEF NoBdf, Doms
  <2>2. Wanted(Bdf(f)) = Entry(1, 1)
    BY <1>1, <2>1, WantedIs
  <2> QED
    BY <1>3, <2>2 DEF AsWanted, Entry
<1>6. CASE slots' = staged /\ unit' = unit \cup {"CTRL"}
  <2>1. Guarded'
    BY <1>2, <1>5 DEF Guarded, Present, Wanted, Bound, Edu, Target
  <2>2. Published'
    BY <1>2, <1>6, <2>1 DEF Published
  <2>3. Placed'
    BY <1>1, <1>2 DEF Machine, Placed, Scanned, Candidates
  <2>4. Machine'
    BY <1>1, <1>2, <1>6, <2>2, <2>3 DEF Machine, Bdfs
  <2> QED
    BY <1>4, <2>4 DEF BootInv
<1>7. CASE slots' = slots /\ unit' = unit
  <2>1. UNCHANGED <<boot, walk, tables>>
    BY <1>2, <1>7 DEF tables
  <2> QED
    BY <1>1, <1>4, <2>1, MachineKept DEF BootInv
<1>8. (slots' = staged /\ unit' = unit \cup {"CTRL"}) \/ (slots' = slots /\ unit' = unit)
  BY DEF Enable
<1> QED
  BY <1>6, <1>7, <1>8

LEMMA DriveKeeps ==
  ASSUME BootInv, Drive
  PROVE  BootInv'
<1>1. Machine /\ Control
  BY DEF BootInv
<1>2. UNCHANGED <<boot, walk, tables>> /\ (Goto("done") \/ (Goto("contained") /\ Drivable))
  BY DEF Drive, tables, Drivable
<1>3. ASSUME Goto("contained"), Drivable PROVE Control'
  <2>1. pc' = [phase |-> "contained", at |-> 1]
    BY <1>3 DEF Goto, At
  <2>2. Script["contained"] = Attempted /\ FineList(Attempted)
    BY Parts DEF Script
  <2>3. 1 \in 1..Len(Script["contained"])
    BY <2>2 DEF FineList
  <2>4. Drivable'
    BY <1>2, <1>3 DEF Drivable, Target
  <2> QED
    BY <2>1, <2>3, <2>4 DEF Control, Raising
<1>4. Control'
  BY <1>2, <1>3, ControlFree DEF Goto
<1> QED
  BY <1>1, <1>2, <1>4, MachineKept DEF BootInv

LEMMA ControlKept ==
  ASSUME Control, pc' = pc, UNCHANGED <<boot, walk, tables>>
  PROVE  Control'
<1>1. boot' = boot /\ walk' = walk /\ staged' = staged /\ slots' = slots /\ table' = table
  BY DEF tables
<1>2. /\ AllNone(staged)' = AllNone(staged) /\ AllNone(slots)' = AllNone(slots)
      /\ Scanned' = Scanned /\ AsWanted' = AsWanted /\ Drivable' = Drivable
  BY <1>1 DEF AllNone, Scanned, AsWanted, Drivable, Target, Present, Wanted, Bound
<1> QED
  BY <1>2 DEF Control

(* One step per action. *)
LEMMA BootStep ==
  ASSUME BootInv, [BootNext]_bvars
  PROVE  BootInv'
<1>1. CASE BringUp
  BY <1>1, FindUnitKeeps, ScanKeeps, BindKeeps, BindEndsKeeps, DenyRestKeeps, SweepKeeps,
     ArmKeeps, EnableKeeps, DriveKeeps DEF BringUp
<1>2. CASE Proof
  BY <1>2, InstructionKeeps, IllegalKeeps, StoreKeeps DEF Proof
<1>3. CASE Hardware \/ UNCHANGED bvars
  <2>1. UNCHANGED <<boot, walk, tables>> /\ pc' = pc
    BY <1>3 DEF Hardware, TransferLate, FlushLate, bvars
  <2> QED
    BY <2>1, MachineKept, ControlKept DEF BootInv
<1>4. CASE Calls
  <2>1. UNCHANGED <<boot, walk, tables>> /\ pc' = At("calls")
    BY <1>4 DEF Calls, Goto
  <2> QED
    BY <2>1, MachineKept, ControlFree DEF BootInv
<1> QED
  BY <1>1, <1>2, <1>3, <1>4 DEF BootNext

LEMMA BootInvariant == BootSpec => []BootInv
<1>1. BootInit => BootInv
  BY BootStarts
<1>2. BootInv /\ [BootNext]_bvars => BootInv'
  BY BootStep
<1> QED
  BY <1>1, <1>2, PTL DEF BootSpec

(* Whatever machine is booted - any functions on any buses, any number of  *)
(* frames, whichever registers take and whichever stores do not - no       *)
(* function is passed through once DOMAIN_SLOTS names a device, and each   *)
(* is under its own table or under the one that denies.                    *)
THEOREM PublishedAlwaysBounded == BootSpec => []PublishedBounded
<1>1. BootInv => PublishedBounded
  BY BootBounded
<1> QED
  BY <1>1, BootInvariant, PTL

-----------------------------------------------------------------------------
(* The domains through the boot and after it.  The program names frames    *)
(* and addresses of its own besides those of the calls.                    *)
Steps == {Script[p][i] : p \in Phases, i \in Nat}
BootFrames == Frames \cup {s.frame : s \in Steps}
BootIovas == Iovas \cup {s.iova : s \in Steps}
BootRights == Rights \cup RW \cup UNION {s.rights : s \in Steps}
BothSound == /\ Sound(dom, BootFrames, BootIovas, BootRights)
             /\ Sound(dom2, BootFrames, BootIovas, BootRights)

(* The operands of an instruction are among them. *)
LEMMA StepNames ==
  ASSUME Control, pc.phase \in DOMAIN Script
  PROVE  /\ Step.frame \in BootFrames /\ Step.iova \in BootIovas
         /\ Step.rights \in SUBSET BootRights /\ RW \in SUBSET BootRights
<1>1. FineList(Script[pc.phase]) /\ pc.at \in 1..Len(Script[pc.phase])
  BY ScriptFine DEF Control
<1>2. pc.at \in Nat /\ pc.phase \in Phases
  BY <1>1, ScriptPhases DEF FineList
<1>3. Step \in Steps
  BY <1>2 DEF Step, Steps
<1> QED
  BY <1>3 DEF BootFrames, BootIovas, BootRights

(* Each step performs one operation on one of the domains, or none. *)
Touched(d, e) ==
  \/ e = d
  \/ \E f \in BootFrames : e = RevokeFrame(d, f)
  \/ \E f \in BootFrames, r \in SUBSET BootRights : e = Grant(d, f, r, G)
  \/ \E v \in BootIovas, f \in BootFrames, r \in SUBSET BootRights : e = Map(d, v, f, r, M)
  \/ \E v \in BootIovas : e = Unmap(d, v)

LEMMA TouchedSound ==
  ASSUME NEW d, NEW e, Sound(d, BootFrames, BootIovas, BootRights), Touched(d, e)
  PROVE  Sound(e, BootFrames, BootIovas, BootRights) /\ SameMeaning(d, e)
<1>1. CASE e = d
  BY <1>1, OperationsKeepMeaning
<1>2. CASE \E f \in BootFrames : e = RevokeFrame(d, f)
  BY <1>2, RevokeSound, OperationsKeepMeaning
<1>3. CASE \E f \in BootFrames, r \in SUBSET BootRights : e = Grant(d, f, r, G)
  BY <1>3, GrantSound, OperationsKeepMeaning
<1>4. CASE \E v \in BootIovas, f \in BootFrames, r \in SUBSET BootRights :
             e = Map(d, v, f, r, M)
  BY <1>4, MapSound, OperationsKeepMeaning
<1>5. CASE \E v \in BootIovas : e = Unmap(d, v)
  BY <1>5, UnmapSound, OperationsKeepMeaning
<1> QED
  BY <1>1, <1>2, <1>3, <1>4, <1>5 DEF Touched

LEMMA BootTouches ==
  ASSUME BootInv, [BootNext]_bvars
  PROVE  Touched(dom, dom') /\ Touched(dom2, dom2')
<1>1. CASE Domain
  <2>1. pc.phase \in DOMAIN Script
    BY <1>1 DEF Domain, Doing
  <2>2. /\ Step.frame \in BootFrames /\ Step.iova \in BootIovas
        /\ Step.rights \in SUBSET BootRights /\ RW \in SUBSET BootRights
    BY <2>1, StepNames DEF BootInv
  <2>3. CASE Doing("grant") \/ Doing("revoke")
    <3>1. CASE Step.op = "revoke"
      <4>1. \/ dom' = RevokeFrame(dom, Step.frame) /\ dom2' = dom2
            \/ dom2' = RevokeFrame(dom2, Step.frame) /\ dom' = dom
        BY <1>1, <3>1 DEF Domain, Doing
      <4> QED
        BY <2>2, <4>1 DEF Touched
    <3>2. CASE Step.op = "grant"
      <4>1. \/ dom' = Grant(dom, Step.frame, Step.rights, G) /\ dom2' = dom2
            \/ dom2' = Grant(dom2, Step.frame, Step.rights, G) /\ dom' = dom
        BY <1>1, <3>2 DEF Domain, Doing
      <4> QED
        BY <2>2, <4>1 DEF Touched
    <3> QED
      BY <2>3, <3>1, <3>2 DEF Doing
  <2>4. CASE Doing("leaf")
    <3>1. dom' = Map(dom, Step.iova, Step.frame, Step.rights, M) /\ dom2' = dom2
      BY <1>1, <2>4 DEF Domain, Doing
    <3> QED
      BY <2>2, <3>1 DEF Touched
  <2>5. CASE Doing("put")
    <3>1. \/ dom' = Map(dom, Step.iova, Step.frame, RW, M) /\ dom2' = dom2
          \/ dom2' = Map(dom2, Step.iova, Step.frame, RW, M) /\ dom' = dom
      BY <1>1, <2>5 DEF Domain, Doing
    <3> QED
      BY <2>2, <3>1 DEF Touched
  <2>6. CASE Doing("clear")
    BY <1>1, <2>6 DEF Domain, Doing, Touched
  <2>7. CASE Doing("unmap")
    <3>1. \/ dom' = Unmap(dom, Step.iova) /\ dom2' = dom2
          \/ dom2' = Unmap(dom2, Step.iova) /\ dom' = dom
      BY <1>1, <2>7 DEF Domain, Doing
    <3> QED
      BY <2>2, <3>1 DEF Touched
  <2> QED
    BY <1>1, <2>3, <2>4, <2>5, <2>6, <2>7 DEF Domain
<1>2. CASE Calls
  <2>1. Next /\ dom2' = dom2
    BY <1>2 DEF Calls
  <2>2. Frames \subseteq BootFrames /\ Iovas \subseteq BootIovas /\ Rights \subseteq BootRights
    BY DEF BootFrames, BootIovas, BootRights
  <2> QED
    BY <2>1, <2>2 DEF Next, DoGrant, DoRevoke, DoMap, DoUnmap, Touched
<1>3. CASE \/ BringUp \/ Hardware \/ UNCHANGED bvars
  <2>1. dom' = dom /\ dom2' = dom2
    BY <1>3 DEF BringUp, FindUnit, Scan, BindDevice, BindEnds, DenyRest, Sweep, Arm, Enable,
                Drive, Hardware, TransferLate, FlushLate, bvars, model
  <2> QED
    BY <2>1 DEF Touched
<1>4. CASE Proof /\ ~Domain
  <2>1. dom' = dom /\ dom2' = dom2
    BY <1>4 DEF Proof, Alloc, Fill, See, Check, StoreEntry, IllegalCommand, TransferDone,
                TransferStuck, TransferSkipped, FlushAnswered, FlushUnanswered, Say, model
  <2> QED
    BY <2>1 DEF Touched
<1> QED
  BY <1>1, <1>2, <1>3, <1>4 DEF BootNext

LEMMA BothSoundInvariant == BootSpec => []BothSound
<1>1. BootInit => BothSound
  <2>1. IsFiniteSet({}) /\ Cardinality({}) = 0
    BY FS_EmptySet
  <2> QED
    BY <2>1, DomainAssumption DEF BootInit, EmptyDomain, Sound, BothSound
<1>2. BootInv /\ BothSound /\ [BootNext]_bvars => BothSound'
  <2> SUFFICES ASSUME BootInv, BothSound, [BootNext]_bvars PROVE BothSound'
    OBVIOUS
  <2>1. Touched(dom, dom') /\ Touched(dom2, dom2')
    BY BootTouches
  <2>2. /\ Sound(dom', BootFrames, BootIovas, BootRights)
        /\ Sound(dom2', BootFrames, BootIovas, BootRights)
    BY <2>1, TouchedSound DEF BothSound
  <2> QED
    BY <2>2 DEF BothSound, Sound
<1> QED
  BY <1>1, <1>2, BootInvariant, PTL DEF BootSpec

(* No device reaches an address beyond its grants, from the first store of *)
(* the containment proof, over every way it can be cut short, to the calls *)
(* that follow it.                                                         *)
THEOREM BootContainment == BootSpec => []ReachWithinGrants
<1>1. BothSound => ReachWithinGrants
  BY SoundContained DEF BothSound, ReachWithinGrants
<1> QED
  BY <1>1, BothSoundInvariant, PTL

(* Nor is a grant or a translation ambiguous in all that time. *)
THEOREM BootNoAmbiguity == BootSpec => []Unambiguous
<1>1. BothSound => Unambiguous
  BY DEF BothSound, Sound, Unambiguous
<1> QED
  BY <1>1, BothSoundInvariant, PTL

(* And no address changes its meaning under the device. *)
THEOREM BootKeepsMeaning == BootSpec => NeverRepointed
<1> DEFINE Same == \A m \in dom.maps, n \in dom'.maps : m.iova = n.iova => m = n
<1>1. BootInv /\ BothSound /\ [BootNext]_bvars => [Same]_vars
  BY BootTouches, TouchedSound DEF BothSound, SameMeaning
<1> QED
  BY <1>1, BootInvariant, BothSoundInvariant, PTL DEF BootSpec, NeverRepointed

=============================================================================
