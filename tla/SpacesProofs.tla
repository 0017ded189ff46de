---------------------------- MODULE SpacesProofs ----------------------------
(***************************************************************************)
(* Theorems about AddressSpaces, for every build, every number of          *)
(* processes, regions and frames.                                          *)
(***************************************************************************)
EXTENDS SpacesSafety, NaturalsInduction, SequenceTheorems, FiniteSetTheorems, TLAPS

-----------------------------------------------------------------------------
(* Naturals.                                                               *)

(* What holds at 0 and goes from each position to the next holds at all. *)
LEMMA Induct ==
  ASSUME NEW n \in Nat, NEW P, 0 \in P, \A k \in 1..n : k - 1 \in P => k \in P
  PROVE  \A k \in 0..n : k \in P
<1> SUFFICES ASSUME NEW j \in 0..n, j \notin P PROVE FALSE
  OBVIOUS
<1> DEFINE Bad == {k \in 0..n : k \notin P}
<1>1. Bad \in SUBSET Nat /\ j \in Bad
  OBVIOUS
<1>2. \E m \in Bad : \A k \in Bad : ~(<<k, m>> \in OpToRel(<, Nat))
  BY <1>1, NatLessThanWellFounded, WFMin
<1>3. PICK m \in Bad : \A k \in Bad : ~(<<k, m>> \in OpToRel(<, Nat))
  BY <1>2
<1>4. m \in 1..n
  <2>1. m \in 0..n /\ m \notin P
    BY <1>3
  <2>2. m # 0
    BY <2>1
  <2> QED
    BY <2>1, <2>2
<1>5. m - 1 \in 0..n /\ m - 1 < m /\ m \in Nat
  BY <1>4
<1>6. <<m - 1, m>> \in OpToRel(<, Nat)
  BY <1>5 DEF OpToRel
<1> QED
  BY <1>3, <1>4, <1>5, <1>6

(* The lowest number of a set. *)
LEMMA MinIs ==
  ASSUME NEW S, S \subseteq Nat, S # {}
  PROVE  Min(S) \in S /\ \A y \in S : Min(S) <= y
<1>1. \E m \in S : \A y \in S : ~(<<y, m>> \in OpToRel(<, Nat))
  BY NatLessThanWellFounded, WFMin
<1>2. \A y, m \in Nat : y < m => <<y, m>> \in OpToRel(<, Nat)
  BY DEF OpToRel
<1>3. PICK m \in S : \A y \in S : ~(y < m)
  BY <1>1, <1>2
<1>4. \A y \in S : m <= y
  BY <1>3
<1> QED
  BY <1>3, <1>4 DEF Min

-----------------------------------------------------------------------------
(* The machine.                                                            *)

(* The index consulted for v after k steps down. *)
Turn(v, k) == Index(v, Top - k)

LEMMA DigitIs ==
  ASSUME NEW f \in Nat \ {0}, NEW k \in Nat, NEW v \in Nat
  PROVE  Digit(v, f, k) \in 0..(f - 1)
BY DEF Digit

LEMMA MachineIs ==
  ASSUME MachineOk(machine)
  PROVE  /\ Top \in Nat \ {0}
         /\ machine.user \subseteq Nat /\ machine.mmioBase \in machine.user
         /\ machine.shared \subseteq Slots
         /\ \A v \in machine.user : Turn(v, 0) \notin machine.shared
         /\ \A v \in machine.user, k \in 0..Top : Turn(v, k) \in Slots
         /\ \A v, w \in machine.user :
              (\A k \in 0..Top : Turn(v, k) = Turn(w, k)) => v = w
<1>1. /\ machine.levels \in Nat \ {0, 1} /\ machine.fanout \in Nat \ {0}
      /\ machine.user \subseteq Nat /\ machine.mmioBase \in machine.user
      /\ machine.shared \subseteq 0..(machine.fanout - 1)
      /\ \A v \in machine.user : Digit(v, machine.fanout, machine.levels - 1)
                                   \notin machine.shared
  BY DEF MachineOk
<1>2. Top \in Nat \ {0} /\ machine.shared \subseteq Slots
  BY <1>1 DEF Top, Slots
<1>3. \A v \in machine.user : Turn(v, 0) \notin machine.shared
  BY <1>1, <1>2 DEF Turn, Index, Top
<1>4. ASSUME NEW v \in machine.user, NEW k \in 0..Top PROVE Turn(v, k) \in Slots
  <2>1. PICK l \in Nat : l = Top - k
    BY <1>2
  <2>2. v \in Nat /\ machine.fanout \in Nat \ {0}
    BY <1>1
  <2>3. Digit(v, machine.fanout, l) \in 0..(machine.fanout - 1)
    BY <2>1, <2>2, DigitIs
  <2> QED
    BY <2>1, <2>3 DEF Turn, Index, Slots
<1>5. ASSUME NEW v \in machine.user, NEW w \in machine.user,
             \A k \in 0..Top : Turn(v, k) = Turn(w, k)
      PROVE  v = w
  <2> SUFFICES ASSUME v # w PROVE FALSE
    OBVIOUS
  <2>1. PICK l \in 0..(machine.levels - 1) :
          Digit(v, machine.fanout, l) # Digit(w, machine.fanout, l)
    BY DEF MachineOk
  <2>2. PICK k \in 0..Top : k = Top - l /\ Top - k = l
    <3>1. PICK n \in Nat : n = machine.levels /\ Top = n - 1
      BY <1>1 DEF Top
    <3>2. l \in 0..(n - 1)
      BY <2>1, <3>1
    <3>3. Top - l \in 0..Top /\ Top - (Top - l) = l
      BY <3>1, <3>2
    <3> QED
      BY <3>3
  <2>3. Turn(v, k) = Turn(w, k)
    BY <1>5
  <2> QED
    BY <2>1, <2>2, <2>3 DEF Turn, Index
<1> QED
  BY <1>1, <1>2, <1>3, <1>4, <1>5

-----------------------------------------------------------------------------
(* Walks.                                                                  *)

Walks(at, tab, root, v) ==
  at = [k \in 0..Top |->
          IF k = 0 THEN tab[root][Index(v, Top)]
          ELSE IF at[k - 1].kind = "table"
               THEN tab[at[k - 1].frame][Index(v, Top - k)]
               ELSE at[k - 1]]

(* The step from one entry to the next, opaque. *)
Onward(e, tab, v, k) == IF e.kind = "table" THEN tab[e.frame][Turn(v, k)] ELSE e

LEMMA WalkIs ==
  ASSUME MachineOk(machine), NEW pt1, NEW root, NEW v
  PROVE  /\ DOMAIN Walk(pt1, root, v) = 0..Top
         /\ Walk(pt1, root, v)[0] = pt1[root][Turn(v, 0)]
         /\ \A k \in 1..Top : Walk(pt1, root, v)[k]
                                = Onward(Walk(pt1, root, v)[k - 1], pt1, v, k)
<1> DEFINE first == pt1[root][Turn(v, 0)]
           Upto(m, f) == f = [k \in 0..m |-> IF k = 0 THEN first
                                             ELSE Onward(f[k - 1], pt1, v, k)]
           P == {m \in 0..Top : \E f : Upto(m, f)}
<1>0. Top \in Nat \ {0}
  BY MachineIs
<1> HIDE DEF first
<1>1. 0 \in P
  <2>1. Upto(0, [k \in 0..0 |-> first])
    OBVIOUS
  <2> HIDE DEF Upto
  <2> QED
    BY <1>0, <2>1
<1>2. ASSUME NEW m \in 1..Top, m - 1 \in P PROVE m \in P
  <2>1. PICK f : Upto(m - 1, f)
    BY <1>2
  <2> DEFINE g == [k \in 0..m |-> IF k = m THEN Onward(f[m - 1], pt1, v, m) ELSE f[k]]
  <2>2. \A k \in 0..m : g[k] = IF k = 0 THEN first ELSE Onward(g[k - 1], pt1, v, k)
    <3> SUFFICES ASSUME NEW k \in 0..m
                 PROVE  g[k] = IF k = 0 THEN first ELSE Onward(g[k - 1], pt1, v, k)
      OBVIOUS
    <3>1. CASE k = m
      <4>1. k # 0 /\ k - 1 \in 0..m /\ k - 1 # m
        BY <1>0, <3>1
      <4>2. g[k - 1] = f[m - 1] /\ g[k] = Onward(f[m - 1], pt1, v, m)
        BY <3>1, <4>1
      <4> HIDE DEF g
      <4> QED
        BY <3>1, <4>1, <4>2
    <3>2. CASE k # m
      <4>1. k \in 0..(m - 1) /\ g[k] = f[k]
        BY <1>0, <3>2
      <4>2. k # 0 => k - 1 \in 0..m /\ k - 1 # m /\ g[k - 1] = f[k - 1]
        BY <1>0, <3>2
      <4>3. f[k] = IF k = 0 THEN first ELSE Onward(f[k - 1], pt1, v, k)
        BY <2>1, <4>1
      <4> HIDE DEF g
      <4> QED
        BY <4>1, <4>2, <4>3
    <3> QED
      BY <3>1, <3>2
  <2>3. g = [k \in 0..m |-> g[k]]
    OBVIOUS
  <2>4. Upto(m, g)
    <3> HIDE DEF g
    <3> QED
      BY <2>2, <2>3
  <2> HIDE DEF Upto, g
  <2> QED
    BY <2>4
<1>3. PICK f : Upto(Top, f)
  <2> HIDE DEF P
  <2>1. Top \in P
    BY <1>0, <1>1, <1>2, Induct
  <2> QED
    BY <2>1 DEF P
<1>4. Walks(f, pt1, root, v)
  <2>1. \A k \in 0..Top : Turn(v, k) = Index(v, Top - k)
    BY DEF Turn
  <2>2. first = pt1[root][Index(v, Top)]
    BY <1>0 DEF first, Turn
  <2> QED
    BY <1>3, <2>1, <2>2, Zenon DEF Walks, Onward
<1>5. PICK a : a = CHOOSE at : Walks(at, pt1, root, v)
  OBVIOUS
<1>6. Walks(a, pt1, root, v)
  BY <1>4, <1>5
<1>7. Walk(pt1, root, v) = a
  BY <1>5 DEF Walk, Walks
<1>8. DOMAIN a = 0..Top /\ a[0] = pt1[root][Turn(v, 0)]
  BY <1>0, <1>6 DEF Walks, Turn
<1>9. ASSUME NEW k \in 1..Top PROVE a[k] = Onward(a[k - 1], pt1, v, k)
  <2>1. k \in 0..Top /\ k # 0
    BY <1>0
  <2>2. a[k] = IF a[k - 1].kind = "table" THEN pt1[a[k - 1].frame][Index(v, Top - k)]
               ELSE a[k - 1]
    BY <1>6, <2>1, Zenon DEF Walks
  <2> QED
    BY <2>2 DEF Turn, Onward
<1> QED
  BY <1>7, <1>8, <1>9

-----------------------------------------------------------------------------
(* Trees of tables.                                                        *)

LEMMA EntryKinds ==
  /\ EMPTY.kind = "none"
  /\ \A f : Link(f).kind = "table" /\ Link(f).frame = f /\ Link(f) # EMPTY
  /\ \A f, perms : /\ Leaf(f, perms).kind = "page" /\ Leaf(f, perms).frame = f
                   /\ Leaf(f, perms).perms = perms
<1>1. EMPTY.kind = "none"
  BY DEF EMPTY
<1>2. \A f : Link(f).kind = "table" /\ Link(f).frame = f
  BY DEF Link
<1>3. \A f, perms : /\ Leaf(f, perms).kind = "page" /\ Leaf(f, perms).frame = f
                   /\ Leaf(f, perms).perms = perms
  BY DEF Leaf
<1> QED
  BY <1>1, <1>2, <1>3

(* v and w are looked for through the same first k entries. *)
SamePath(v, w, k) == \A j \in 0..(k - 1) : Turn(v, j) = Turn(w, j)

LEMMA SamePathIs ==
  /\ \A v, k : SamePath(v, v, k)
  /\ \A v, w, k : SamePath(v, w, k) => SamePath(w, v, k)
  /\ \A v, w, x, k : SamePath(v, w, k) /\ SamePath(w, x, k) => SamePath(v, x, k)
  /\ \A v, w : SamePath(v, w, 0)
  /\ \A v, w : \A k \in Nat : SamePath(v, w, k + 1)
                                <=> SamePath(v, w, k) /\ Turn(v, k) = Turn(w, k)
<1>1. /\ \A v, k : SamePath(v, v, k)
      /\ \A v, w, k : SamePath(v, w, k) => SamePath(w, v, k)
      /\ \A v, w, x, k : SamePath(v, w, k) /\ SamePath(w, x, k) => SamePath(v, x, k)
  BY DEF SamePath
<1>2. \A v, w : SamePath(v, w, 0)
  BY DEF SamePath
<1>3. ASSUME NEW v, NEW w, NEW k \in Nat
      PROVE  SamePath(v, w, k + 1) <=> SamePath(v, w, k) /\ Turn(v, k) = Turn(w, k)
  <2>1. 0..((k + 1) - 1) = 0..(k - 1) \cup {k}
    OBVIOUS
  <2> QED
    BY <2>1 DEF SamePath
<1> QED
  BY <1>1, <1>2, <1>3

(* Table u is one level below table t, on the way to what u stands for. *)
Hangs(u, t, d, r) == d[u] = d[t] + 1 /\ SamePath(r[u], r[t], d[t])

EntryOk(e, t, i, T, d, r) ==
  \/ e = EMPTY
  \/ d[t] = Top /\ e.kind = "page"
  \/ d[t] # Top /\ \E u \in T : e = Link(u) /\ Hangs(u, t, d, r)
                                           /\ Turn(r[u], d[t]) = i

(* The tables T are a tree below root: table t is on the way to page r[t]  *)
(* and to those with the same first d[t] turns, and no other table is.     *)
(* The kernel's entries of the root lead elsewhere.                        *)
Unique(T, d, r) ==
  \A t, u \in T : d[t] = d[u] /\ SamePath(r[t], r[u], d[t]) => t = u
EntriesOk(tab, root, T, d, r) ==
  \A t \in T, i \in Slots :
    (t = root /\ i \in machine.shared) \/ EntryOk(tab[t][i], t, i, T, d, r)
Hung(tab, root, T, d, r) ==
  \A u \in T \ {root} : \E t \in T : Hangs(u, t, d, r)
                                     /\ tab[t][Turn(r[u], d[t])] = Link(u)
Tree(tab, root, T, d, r) ==
  /\ root \in T /\ d \in [T -> 0..Top] /\ r \in [T -> machine.user]
  /\ \A t \in T : d[t] = 0 <=> t = root
  /\ Unique(T, d, r)
  /\ EntriesOk(tab, root, T, d, r)
  /\ Hung(tab, root, T, d, r)

(* Table t is the k-th on the way to v. *)
On(t, v, k, T, d, r) == t \in T /\ d[t] = k /\ SamePath(r[t], v, k)

LEMMA OnUnique ==
  ASSUME NEW T, NEW d, NEW r, Unique(T, d, r), NEW v, NEW k,
         NEW t, On(t, v, k, T, d, r), NEW u, On(u, v, k, T, d, r)
  PROVE  t = u
BY SamePathIs DEF On, Unique

(* What a user page's entry in a table of the tree is. *)
LEMMA UserEntry ==
  ASSUME MachineOk(machine), NEW tab, NEW root, NEW T, NEW d, NEW r,
         Tree(tab, root, T, d, r),
         NEW v \in machine.user, NEW t, On(t, v, d[t], T, d, r)
  PROVE  EntryOk(tab[t][Turn(v, d[t])], t, Turn(v, d[t]), T, d, r)
<1>1. t \in T /\ d[t] \in 0..Top
  BY DEF On, Tree
<1>2. Turn(v, d[t]) \in Slots
  BY <1>1, MachineIs
<1>3. t = root => Turn(v, d[t]) \notin machine.shared
  BY <1>1, MachineIs DEF Tree
<1> QED
  BY <1>1, <1>2, <1>3 DEF Tree, EntriesOk

(* The next table on the way to v is the one the entry for v links to. *)
LEMMA NextTable ==
  ASSUME MachineOk(machine), NEW tab, NEW root, NEW T, NEW d, NEW r,
         Tree(tab, root, T, d, r),
         NEW v \in machine.user, NEW k \in 0..(Top - 1)
  PROVE  /\ \A t, u : On(t, v, k, T, d, r) /\ u \in T /\ tab[t][Turn(v, k)] = Link(u)
                        => On(u, v, k + 1, T, d, r)
         /\ \A u : On(u, v, k + 1, T, d, r) =>
              \E t \in T : On(t, v, k, T, d, r) /\ tab[t][Turn(v, k)] = Link(u)
         /\ \A t : On(t, v, k, T, d, r) =>
              \/ tab[t][Turn(v, k)] = EMPTY
              \/ \E u \in T : tab[t][Turn(v, k)] = Link(u)
<1>0. Top \in Nat \ {0}
  BY MachineIs
<1>1. ASSUME NEW t, On(t, v, k, T, d, r)
      PROVE  \/ tab[t][Turn(v, k)] = EMPTY
             \/ \E u \in T : tab[t][Turn(v, k)] = Link(u)
                             /\ On(u, v, k + 1, T, d, r)
  <2>1. d[t] = k /\ t \in T /\ k # Top /\ k \in Nat
    BY <1>0, <1>1 DEF On
  <2>2. EntryOk(tab[t][Turn(v, k)], t, Turn(v, k), T, d, r)
    BY <1>1, <2>1, UserEntry
  <2>3. \/ tab[t][Turn(v, k)] = EMPTY
        \/ \E u \in T : /\ tab[t][Turn(v, k)] = Link(u) /\ Hangs(u, t, d, r)
                        /\ Turn(r[u], k) = Turn(v, k)
    BY <2>1, <2>2 DEF EntryOk
  <2>4. ASSUME NEW u \in T, Hangs(u, t, d, r), Turn(r[u], k) = Turn(v, k)
        PROVE  On(u, v, k + 1, T, d, r)
    <3>1. d[u] = k + 1 /\ SamePath(r[u], r[t], k)
      BY <2>1, <2>4 DEF Hangs
    <3>2. SamePath(r[u], v, k)
      BY <1>1, <3>1, SamePathIs DEF On
    <3>3. SamePath(r[u], v, k + 1)
      BY <2>1, <2>4, <3>2, SamePathIs
    <3> QED
      BY <3>1, <3>3 DEF On
  <2> QED
    BY <2>3, <2>4
<1>2. ASSUME NEW t, NEW u, On(t, v, k, T, d, r), u \in T,
             tab[t][Turn(v, k)] = Link(u)
      PROVE  On(u, v, k + 1, T, d, r)
  <2>1. Link(u) # EMPTY /\ \A x \in T : Link(x) = Link(u) => x = u
    BY EntryKinds
  <2> QED
    BY <1>1, <1>2, <2>1
<1>3. ASSUME NEW u, On(u, v, k + 1, T, d, r)
      PROVE  \E t \in T : On(t, v, k, T, d, r) /\ tab[t][Turn(v, k)] = Link(u)
  <2>1. u \in T /\ d[u] = k + 1 /\ k \in Nat /\ SamePath(r[u], v, k + 1)
    BY <1>0, <1>3 DEF On
  <2>2. u # root
    BY <2>1 DEF Tree
  <2>3. PICK t \in T : Hangs(u, t, d, r) /\ tab[t][Turn(r[u], d[t])] = Link(u)
    BY <2>1, <2>2 DEF Tree, Hung
  <2>4. d[t] \in Nat
    BY <1>0 DEF Tree
  <2>5. d[t] = k
    BY <2>1, <2>3, <2>4 DEF Hangs
  <2>6. SamePath(r[u], v, k) /\ Turn(r[u], k) = Turn(v, k)
    BY <2>1, SamePathIs
  <2>7. SamePath(r[t], v, k)
    BY <2>3, <2>5, <2>6, SamePathIs DEF Hangs
  <2> QED
    BY <2>3, <2>5, <2>6, <2>7 DEF On
<1> QED
  BY <1>1, <1>2, <1>3

(* A walk meets the tables on the way, and then an entry that is empty. *)
Met(e, tab, v, k, T, d, r) ==
  \/ \E t \in T : On(t, v, k, T, d, r) /\ e = tab[t][Turn(v, k)]
  \/ (\A t \in T : ~On(t, v, k, T, d, r)) /\ e = EMPTY

LEMMA WalkTree ==
  ASSUME MachineOk(machine), NEW tab, NEW root, NEW T, NEW d, NEW r,
         Tree(tab, root, T, d, r), NEW v \in machine.user
  PROVE  \A k \in 0..Top : Met(Walk(tab, root, v)[k], tab, v, k, T, d, r)
<1> DEFINE W == Walk(tab, root, v)
           P == {k \in 0..Top : Met(W[k], tab, v, k, T, d, r)}
<1>0. Top \in Nat \ {0}
  BY MachineIs
<1>1. /\ W[0] = tab[root][Turn(v, 0)]
      /\ \A k \in 1..Top : W[k] = Onward(W[k - 1], tab, v, k)
  BY WalkIs
<1> HIDE DEF W
<1>2. 0 \in P
  <2>1. On(root, v, 0, T, d, r) /\ root \in T
    BY SamePathIs DEF On, Tree
  <2> QED
    BY <1>0, <1>1, <2>1 DEF Met
<1>3. ASSUME NEW k \in 1..Top, k - 1 \in P PROVE k \in P
  <2>1. PICK j \in 0..(Top - 1) : k = j + 1
    BY <1>0
  <2>2. W[k] = Onward(W[j], tab, v, k) /\ Met(W[j], tab, v, j, T, d, r)
    BY <1>1, <1>3, <2>1
  <2>3. CASE \E t \in T : On(t, v, j, T, d, r) /\ W[j] = tab[t][Turn(v, j)]
    <3>1. PICK t \in T : On(t, v, j, T, d, r) /\ W[j] = tab[t][Turn(v, j)]
      BY <2>3
    <3>2. CASE W[j] = EMPTY
      <4>1. W[k] = EMPTY
        BY <2>2, <3>2 DEF Onward, EMPTY
      <4>2. ASSUME NEW u \in T, On(u, v, k, T, d, r) PROVE FALSE
        <5>1. PICK x \in T : On(x, v, j, T, d, r) /\ tab[x][Turn(v, j)] = Link(u)
          BY <2>1, <4>2, NextTable
        <5>2. x = t
          BY <3>1, <5>1, OnUnique DEF Tree
        <5>3. EMPTY = Link(u)
          BY <3>1, <3>2, <5>1, <5>2
        <5> QED
          BY <5>3, EntryKinds
      <4> QED
        BY <4>1, <4>2 DEF Met
    <3>3. CASE \E u \in T : W[j] = Link(u)
      <4>1. PICK u \in T : W[j] = Link(u)
        BY <3>3
      <4>2. On(u, v, j + 1, T, d, r)
        <5>1. tab[t][Turn(v, j)] = Link(u)
          BY <3>1, <4>1
        <5> QED
          BY <3>1, <4>1, <5>1, NextTable
      <4>3. W[k] = tab[u][Turn(v, k)]
        BY <2>2, <4>1 DEF Onward, Link
      <4> QED
        BY <2>1, <4>2, <4>3 DEF Met
    <3> QED
      BY <2>1, <3>1, <3>2, <3>3, NextTable
  <2>4. CASE (\A t \in T : ~On(t, v, j, T, d, r)) /\ W[j] = EMPTY
    <3>1. W[k] = EMPTY
      BY <2>2, <2>4 DEF Onward, EMPTY
    <3>2. \A u \in T : ~On(u, v, k, T, d, r)
      BY <2>1, <2>4, NextTable
    <3> QED
      BY <3>1, <3>2 DEF Met
  <2> QED
    BY <2>2, <2>3, <2>4 DEF Met
<1> HIDE DEF P
<1>4. \A k \in 0..Top : k \in P
  BY <1>0, <1>2, <1>3, Induct
<1> QED
  BY <1>4 DEF P, W
(* Frames read as tables. *)
IsTables(tab) == tab = [f \in AllFrames |-> [i \in Slots |-> tab[f][i]]]

(* What is at the leaf of v: an entry of a table of the last level. *)
LEMMA LeafIs ==
  ASSUME MachineOk(machine), NEW tab, NEW root, NEW T, NEW d, NEW r,
         Tree(tab, root, T, d, r), NEW v \in machine.user
  PROVE  Met(LeafOf(tab, root, v), tab, v, Top, T, d, r)
<1>1. Top \in 0..Top
  BY MachineIs
<1> QED
  BY <1>1, WalkTree DEF LeafOf

(* Only the tables of a tree matter to it... *)
LEMMA TreeLocal ==
  ASSUME NEW tab, NEW root, NEW T, NEW d, NEW r, Tree(tab, root, T, d, r),
         NEW tab2, \A t \in T : tab2[t] = tab[t]
  PROVE  Tree(tab2, root, T, d, r)
<1>1. EntriesOk(tab2, root, T, d, r)
  BY DEF Tree, EntriesOk
<1>2. Hung(tab2, root, T, d, r)
  BY DEF Tree, Hung
<1> QED
  BY <1>1, <1>2 DEF Tree

(* ... and leaves come and go in the tables of the last level. *)
LEMMA TreeLeaves ==
  ASSUME MachineOk(machine), NEW tab, NEW root, NEW T, NEW d, NEW r,
         Tree(tab, root, T, d, r), NEW tab2,
         \A t \in T, i \in Slots :
           \/ tab2[t][i] = tab[t][i]
           \/ d[t] = Top /\ (tab2[t][i] = EMPTY \/ tab2[t][i].kind = "page")
  PROVE  /\ Tree(tab2, root, T, d, r)
         /\ \A i \in machine.shared \cap Slots : tab2[root][i] = tab[root][i]
<1>0. Top \in Nat \ {0}
  BY MachineIs
<1>1. EntriesOk(tab2, root, T, d, r)
  <2> SUFFICES ASSUME NEW t \in T, NEW i \in Slots,
                      ~(t = root /\ i \in machine.shared)
               PROVE  EntryOk(tab2[t][i], t, i, T, d, r)
    BY DEF EntriesOk
  <2>1. EntryOk(tab[t][i], t, i, T, d, r)
    BY DEF Tree, EntriesOk
  <2>2. CASE tab2[t][i] = tab[t][i]
    BY <2>1, <2>2
  <2>3. CASE d[t] = Top /\ (tab2[t][i] = EMPTY \/ tab2[t][i].kind = "page")
    BY <2>3 DEF EntryOk
  <2> QED
    BY <2>2, <2>3
<1>2. Hung(tab2, root, T, d, r)
  <2> SUFFICES ASSUME NEW u \in T \ {root}
               PROVE  \E t \in T : Hangs(u, t, d, r)
                                   /\ tab2[t][Turn(r[u], d[t])] = Link(u)
    BY DEF Hung
  <2>1. PICK t \in T : Hangs(u, t, d, r) /\ tab[t][Turn(r[u], d[t])] = Link(u)
    BY DEF Tree, Hung
  <2>2. d[t] \in 0..Top /\ d[u] \in 0..Top /\ d[u] = d[t] + 1 /\ r[u] \in machine.user
    BY <2>1 DEF Tree, Hangs
  <2>3. d[t] # Top
    BY <1>0, <2>2
  <2>4. Turn(r[u], d[t]) \in Slots
    BY <2>2, MachineIs
  <2>5. tab2[t][Turn(r[u], d[t])] = tab[t][Turn(r[u], d[t])]
    BY <2>3, <2>4
  <2> QED
    BY <2>1, <2>5
<1>3. d[root] # Top /\ root \in T
  BY <1>0 DEF Tree
<1> QED
  BY <1>1, <1>2, <1>3 DEF Tree

(* The pages of V that have a leaf, as places in tables. *)
LastTable(tab, root, v) == Walk(tab, root, v)[Top - 1]
Cut(tab, root, V) ==
  {<<LastTable(tab, root, v).frame, Index(v, 0)>> :
     v \in {v \in V : LastTable(tab, root, v).kind = "table"}}
IsCut(f, i, tab, root, V) == <<f, i>> \in Cut(tab, root, V)

LEMMA UnmapAllIs ==
  ASSUME NEW tab, IsTables(tab), NEW root, NEW V
  PROVE  /\ IsTables(UnmapAll(tab, root, V))
         /\ \A f \in AllFrames, i \in Slots :
              UnmapAll(tab, root, V)[f][i] =
                IF IsCut(f, i, tab, root, V) THEN EMPTY ELSE tab[f][i]
<1>1. /\ DOMAIN tab = AllFrames
      /\ \A f \in AllFrames : DOMAIN tab[f] = Slots
  BY DEF IsTables
<1>2. UnmapAll(tab, root, V) =
        [f \in DOMAIN tab |-> [i \in DOMAIN tab[f] |->
           IF <<f, i>> \in Cut(tab, root, V) THEN EMPTY ELSE tab[f][i]]]
  BY DEF UnmapAll, Cut, LastTable
<1> QED
  BY <1>1, <1>2 DEF IsTables, IsCut

LEMMA CutIs ==
  ASSUME MachineOk(machine), NEW tab, NEW root, NEW T, NEW d, NEW r,
         Tree(tab, root, T, d, r), NEW V \in SUBSET machine.user
  PROVE  \A f, i : IsCut(f, i, tab, root, V) <=>
           \E v \in V : On(f, v, Top, T, d, r) /\ i = Turn(v, Top)
<1>0. Top \in Nat \ {0} /\ Top - 1 \in 0..(Top - 1) /\ Top - 1 \in 0..Top
      /\ (Top - 1) + 1 = Top /\ Top - Top = 0
  BY MachineIs
<1>1. ASSUME NEW v \in V
      PROVE  \A f : On(f, v, Top, T, d, r) <=>
               LastTable(tab, root, v).kind = "table" /\ LastTable(tab, root, v).frame = f
  <2>1. Met(LastTable(tab, root, v), tab, v, Top - 1, T, d, r)
    BY <1>0, WalkTree DEF LastTable
  <2>2. CASE \E t \in T : On(t, v, Top - 1, T, d, r)
                          /\ LastTable(tab, root, v) = tab[t][Turn(v, Top - 1)]
    <3>1. PICK t \in T : On(t, v, Top - 1, T, d, r)
                         /\ LastTable(tab, root, v) = tab[t][Turn(v, Top - 1)]
      BY <2>2
    <3>2. ASSUME NEW f, On(f, v, Top, T, d, r)
          PROVE  LastTable(tab, root, v) = Link(f)
      <4>1. PICK x \in T : On(x, v, Top - 1, T, d, r)
                           /\ tab[x][Turn(v, Top - 1)] = Link(f)
        BY <1>0, <3>2, NextTable
      <4>2. x = t
        BY <3>1, <4>1, OnUnique DEF Tree
      <4> QED
        BY <3>1, <4>1, <4>2
    <3>3. ASSUME LastTable(tab, root, v).kind = "table"
          PROVE  On(LastTable(tab, root, v).frame, v, Top, T, d, r)
      <4>1. PICK u \in T : tab[t][Turn(v, Top - 1)] = Link(u)
        BY <1>0, <3>1, <3>3, NextTable, EntryKinds
      <4>2. On(u, v, (Top - 1) + 1, T, d, r)
        BY <1>0, <3>1, <4>1, NextTable
      <4> QED
        BY <1>0, <3>1, <4>1, <4>2, EntryKinds
    <3> QED
      BY <3>2, <3>3, EntryKinds
  <2>3. CASE /\ \A t \in T : ~On(t, v, Top - 1, T, d, r)
             /\ LastTable(tab, root, v) = EMPTY
    <3>1. ASSUME NEW f, On(f, v, Top, T, d, r) PROVE FALSE
      <4>0. PICK j \in 0..(Top - 1) : j = Top - 1 /\ j + 1 = Top
        BY <1>0
      <4>1. On(f, v, j + 1, T, d, r)
        BY <3>1, <4>0
      <4>2. \E t \in T : On(t, v, j, T, d, r)
        BY <4>1, NextTable
      <4> QED
        BY <2>3, <4>0, <4>2
    <3> QED
      BY <2>3, <3>1, EntryKinds
  <2> QED
    BY <2>1, <2>2, <2>3 DEF Met
<1>2. \A v : Turn(v, Top) = Index(v, 0)
  BY <1>0 DEF Turn
<1>3. \A f, i : IsCut(f, i, tab, root, V) <=>
         \E v \in V : /\ LastTable(tab, root, v).kind = "table"
                      /\ LastTable(tab, root, v).frame = f /\ i = Index(v, 0)
  BY DEF Cut, IsCut
<1> SUFFICES ASSUME NEW f, NEW i
             PROVE  IsCut(f, i, tab, root, V) <=>
                      \E v \in V : On(f, v, Top, T, d, r) /\ i = Turn(v, Top)
  OBVIOUS
<1>4. \A v \in V : On(f, v, Top, T, d, r) <=>
        LastTable(tab, root, v).kind = "table" /\ LastTable(tab, root, v).frame = f
  BY <1>1
<1> QED
  BY <1>2, <1>3, <1>4
-----------------------------------------------------------------------------
(* A new table on the way to a page, below a table that led nowhere.       *)

(* A way ends at table t, before level k + 1. *)
EndsAt(tab, t, v, k, T, d, r) ==
  k \in 0..(Top - 1) /\ On(t, v, k, T, d, r) /\ tab[t][Turn(v, k)] = EMPTY

(* Table f is added there. *)
Added(tab, tab2, f, t, v, k, T) ==
  /\ \A i \in Slots : tab2[f][i] = EMPTY
  /\ tab2[t][Turn(v, k)] = Link(f)
  /\ \A u \in T, i \in Slots : u # t \/ i # Turn(v, k) => tab2[u][i] = tab[u][i]
Extends(d2, d, x, f, T) ==
  d2[f] = x /\ \A u \in T : d2[u] = d[u]

SharedKept(tab, tab2, root) ==
  \A i \in machine.shared \cap Slots : tab2[root][i] = tab[root][i]
Grown(tab, tab2, t, f, v, k, T, d, r, d2, r2) ==
  /\ EndsAt(tab, t, v, k, T, d, r) /\ f \notin T /\ Added(tab, tab2, f, t, v, k, T)
  /\ d2 \in [T \cup {f} -> 0..Top] /\ Extends(d2, d, k + 1, f, T)
  /\ r2 \in [T \cup {f} -> machine.user] /\ Extends(r2, r, v, f, T)

LEMMA NoneBelow ==
  ASSUME MachineOk(machine), NEW tab, NEW root, NEW T, NEW d, NEW r,
         Tree(tab, root, T, d, r), NEW v \in machine.user, NEW k, NEW t,
         EndsAt(tab, t, v, k, T, d, r), NEW u
  PROVE  ~On(u, v, k + 1, T, d, r)
<1> SUFFICES ASSUME On(u, v, k + 1, T, d, r) PROVE FALSE
  OBVIOUS
<1>1. k \in 0..(Top - 1) /\ On(t, v, k, T, d, r) /\ tab[t][Turn(v, k)] = EMPTY
  BY DEF EndsAt
<1>2. PICK x \in T : On(x, v, k, T, d, r) /\ tab[x][Turn(v, k)] = Link(u)
  BY <1>1, NextTable
<1>3. x = t
  BY <1>1, <1>2, OnUnique DEF Tree
<1> QED
  BY <1>1, <1>2, <1>3, EntryKinds

LEMMA AddTable ==
  ASSUME MachineOk(machine), NEW tab, NEW root, NEW T, NEW d, NEW r,
         Tree(tab, root, T, d, r), NEW v \in machine.user, NEW k, NEW t, NEW f,
         NEW tab2, NEW d2, NEW r2, Grown(tab, tab2, t, f, v, k, T, d, r, d2, r2)
  PROVE  /\ Tree(tab2, root, T \cup {f}, d2, r2)
         /\ On(f, v, k + 1, T \cup {f}, d2, r2)
         /\ SharedKept(tab, tab2, root)
<1> /\ EndsAt(tab, t, v, k, T, d, r) /\ f \notin T /\ Added(tab, tab2, f, t, v, k, T)
    /\ d2 \in [T \cup {f} -> 0..Top] /\ Extends(d2, d, k + 1, f, T)
    /\ r2 \in [T \cup {f} -> machine.user] /\ Extends(r2, r, v, f, T)
  BY DEF Grown
<1>0. Top \in Nat \ {0}
  BY MachineIs
<1>1. /\ k \in 0..(Top - 1) /\ k \in Nat /\ k \in 0..Top /\ k # Top
      /\ t \in T /\ d[t] = k /\ SamePath(r[t], v, k)
      /\ tab[t][Turn(v, k)] = EMPTY
  BY <1>0 DEF EndsAt, On
<1>2. /\ root \in T /\ d \in [T -> 0..Top] /\ r \in [T -> machine.user]
      /\ \A u \in T : d[u] = 0 <=> u = root
  BY DEF Tree
<1>3. /\ d2[f] = k + 1 /\ r2[f] = v /\ \A u \in T : d2[u] = d[u] /\ r2[u] = r[u]
  BY DEF Extends
<1>4. Turn(v, k) \in Slots
  BY <1>1, MachineIs
<1>5. \A u, x \in T : Hangs(u, x, d2, r2) <=> Hangs(u, x, d, r)
  BY <1>3 DEF Hangs
<1>6. \A u \in T \cup {f} : d2[u] = 0 <=> u = root
  BY <1>1, <1>2, <1>3
<1>7. Unique(T \cup {f}, d2, r2)
  <2>1. ASSUME NEW u \in T, d[u] = k + 1, SamePath(r[u], v, k + 1) PROVE FALSE
    <3>1. On(u, v, k + 1, T, d, r)
      BY <2>1 DEF On
    <3> QED
      BY <3>1, NoneBelow
  <2> SUFFICES ASSUME NEW x \in T \cup {f}, NEW y \in T \cup {f},
                      d2[x] = d2[y], SamePath(r2[x], r2[y], d2[x])
               PROVE  x = y
    BY DEF Unique
  <2>2. CASE x \in T /\ y \in T
    BY <1>3, <2>2 DEF Tree, Unique
  <2>3. CASE x \in T /\ y = f
    BY <1>3, <2>1, <2>3
  <2>4. CASE x = f /\ y \in T
    <3>1. d[y] = k + 1 /\ SamePath(v, r[y], k + 1)
      BY <1>3, <2>4
    <3>2. SamePath(r[y], v, k + 1)
      BY <3>1, SamePathIs
    <3> QED
      BY <2>1, <2>4, <3>1, <3>2
  <2> QED
    BY <2>2, <2>3, <2>4
<1>8. EntriesOk(tab2, root, T \cup {f}, d2, r2)
  <2> SUFFICES ASSUME NEW x \in T \cup {f}, NEW i \in Slots,
                      ~(x = root /\ i \in machine.shared)
               PROVE  EntryOk(tab2[x][i], x, i, T \cup {f}, d2, r2)
    BY DEF EntriesOk
  <2>1. CASE x = f
    BY <2>1 DEF Added, EntryOk
  <2>2. CASE x = t /\ i = Turn(v, k)
    <3>1. Hangs(f, t, d2, r2)
      BY <1>1, <1>3, SamePathIs DEF Hangs
    <3>2. tab2[x][i] = Link(f) /\ d2[x] # Top /\ Turn(r2[f], d2[x]) = i
      BY <1>1, <1>3, <2>2 DEF Added
    <3> QED
      BY <2>2, <3>1, <3>2 DEF EntryOk
  <2>3. CASE x \in T /\ (x # t \/ i # Turn(v, k))
    <3>1. tab2[x][i] = tab[x][i]
      BY <2>3 DEF Added
    <3>2. EntryOk(tab[x][i], x, i, T, d, r)
      BY <2>3 DEF Tree, EntriesOk
    <3>3. EntryOk(tab[x][i], x, i, T \cup {f}, d2, r2)
      <4>1. CASE d[x] # Top /\ \E u \in T : /\ tab[x][i] = Link(u) /\ Hangs(u, x, d, r)
                                            /\ Turn(r[u], d[x]) = i
        <5>1. PICK u \in T : /\ tab[x][i] = Link(u) /\ Hangs(u, x, d, r)
                             /\ Turn(r[u], d[x]) = i
          BY <4>1
        <5>2. Hangs(u, x, d2, r2) /\ Turn(r2[u], d2[x]) = i /\ d2[x] # Top
          BY <1>3, <1>5, <2>3, <4>1, <5>1
        <5> QED
          BY <5>1, <5>2 DEF EntryOk
      <4>2. CASE tab[x][i] = EMPTY \/ (d[x] = Top /\ tab[x][i].kind = "page")
        BY <1>3, <2>3, <4>2 DEF EntryOk
      <4> QED
        BY <3>2, <4>1, <4>2 DEF EntryOk
    <3> QED
      BY <3>1, <3>3
  <2> QED
    BY <2>1, <2>2, <2>3
<1>9. Hung(tab2, root, T \cup {f}, d2, r2)
  <2> SUFFICES ASSUME NEW u \in (T \cup {f}) \ {root}
               PROVE  \E x \in T \cup {f} :
                        Hangs(u, x, d2, r2) /\ tab2[x][Turn(r2[u], d2[x])] = Link(u)
    BY DEF Hung
  <2>1. CASE u = f
    <3>1. Hangs(f, t, d2, r2)
      BY <1>1, <1>3, SamePathIs DEF Hangs
    <3>2. tab2[t][Turn(r2[f], d2[t])] = Link(f)
      BY <1>1, <1>3 DEF Added
    <3> QED
      BY <1>1, <2>1, <3>1, <3>2
  <2>2. CASE u \in T \ {root}
    <3>1. PICK x \in T : Hangs(u, x, d, r) /\ tab[x][Turn(r[u], d[x])] = Link(u)
      BY <2>2 DEF Tree, Hung
    <3>2. Turn(r[u], d[x]) \in Slots
      BY <1>2, <2>2, MachineIs
    <3>3. x # t \/ Turn(r[u], d[x]) # Turn(v, k)
      BY <1>1, <3>1, EntryKinds
    <3>4. tab2[x][Turn(r[u], d[x])] = Link(u)
      BY <3>1, <3>2, <3>3 DEF Added
    <3> QED
      BY <1>3, <1>5, <2>2, <3>1, <3>4
  <2> QED
    BY <2>1, <2>2
<1>10. On(f, v, k + 1, T \cup {f}, d2, r2)
  BY <1>3, SamePathIs DEF On
<1>11. \A i \in machine.shared \cap Slots : tab2[root][i] = tab[root][i]
  <2>1. t = root => Turn(v, k) \notin machine.shared
    BY <1>1, <1>2, MachineIs
  <2> QED
    BY <1>2, <2>1 DEF Added
<1>12. root \in T \cup {f}
  BY <1>2
<1> QED
  BY <1>6, <1>7, <1>8, <1>9, <1>10, <1>11, <1>12 DEF Tree, SharedKept

(* The new table maps nothing yet. *)
LEMMA AddTableLeaves ==
  ASSUME MachineOk(machine), NEW tab, NEW root, NEW T, NEW d, NEW r,
         Tree(tab, root, T, d, r), NEW v \in machine.user, NEW k, NEW t, NEW f,
         NEW tab2, NEW d2, NEW r2, Grown(tab, tab2, t, f, v, k, T, d, r, d2, r2)
  PROVE  \A w \in machine.user : LeafOf(tab2, root, w) = LeafOf(tab, root, w)
<1> /\ EndsAt(tab, t, v, k, T, d, r) /\ f \notin T /\ Added(tab, tab2, f, t, v, k, T)
    /\ d2 \in [T \cup {f} -> 0..Top] /\ Extends(d2, d, k + 1, f, T)
    /\ r2 \in [T \cup {f} -> machine.user] /\ Extends(r2, r, v, f, T)
  BY DEF Grown
<1> SUFFICES ASSUME NEW w \in machine.user
             PROVE  LeafOf(tab2, root, w) = LeafOf(tab, root, w)
  OBVIOUS
<1>0. Top \in Nat \ {0} /\ Turn(w, Top) \in Slots
  BY MachineIs
<1>1. /\ k \in 0..(Top - 1) /\ t \in T /\ d[t] = k /\ k # Top
  BY <1>0 DEF EndsAt, On
<1>2. /\ d2[f] = k + 1 /\ r2[f] = v /\ \A u \in T : d2[u] = d[u] /\ r2[u] = r[u]
  BY DEF Extends
<1>3. Tree(tab2, root, T \cup {f}, d2, r2)
  BY AddTable
<1>4. Met(LeafOf(tab, root, w), tab, w, Top, T, d, r)
  BY LeafIs
<1>5. Met(LeafOf(tab2, root, w), tab2, w, Top, T \cup {f}, d2, r2)
  BY <1>3, LeafIs
<1>6. \A u \in T : On(u, w, Top, T \cup {f}, d2, r2) <=> On(u, w, Top, T, d, r)
  BY <1>2 DEF On
<1>7. CASE \E u \in T : On(u, w, Top, T, d, r)
  <2>1. PICK u \in T : On(u, w, Top, T, d, r)
    BY <1>7
  <2>2. On(u, w, Top, T \cup {f}, d2, r2)
    BY <1>6, <2>1
  <2>3. LeafOf(tab, root, w) = tab[u][Turn(w, Top)]
    BY <1>4, <2>1, OnUnique DEF Met, Tree
  <2>4. LeafOf(tab2, root, w) = tab2[u][Turn(w, Top)]
    BY <1>3, <1>5, <2>2, OnUnique DEF Met, Tree
  <2>5. u # t
    BY <1>1, <2>1 DEF On
  <2> QED
    BY <1>0, <2>3, <2>4, <2>5 DEF Added
<1>8. CASE ~\E u \in T : On(u, w, Top, T, d, r)
  <2>1. LeafOf(tab, root, w) = EMPTY
    BY <1>4, <1>8 DEF Met
  <2>2. LeafOf(tab2, root, w) = EMPTY
    <3>1. CASE \E u \in T \cup {f} : On(u, w, Top, T \cup {f}, d2, r2)
                                     /\ LeafOf(tab2, root, w) = tab2[u][Turn(w, Top)]
      <4>1. LeafOf(tab2, root, w) = tab2[f][Turn(w, Top)]
        BY <1>6, <1>8, <3>1
      <4> QED
        BY <1>0, <4>1 DEF Added
    <3> QED
      BY <1>5, <3>1 DEF Met
  <2> QED
    BY <2>1, <2>2
<1> QED
  BY <1>7, <1>8

-----------------------------------------------------------------------------
(* Leaves.                                                                 *)

(* The leaf of a page is in the last table on the way to it. *)
LEMMA LeafValue ==
  ASSUME MachineOk(machine), NEW tab, NEW root, NEW T, NEW d, NEW r,
         Tree(tab, root, T, d, r), NEW v \in machine.user
  PROVE  /\ \A t : On(t, v, Top, T, d, r) => LeafOf(tab, root, v) = tab[t][Turn(v, Top)]
         /\ (\A t : ~On(t, v, Top, T, d, r)) => LeafOf(tab, root, v) = EMPTY
         /\ LeafOf(tab, root, v) = EMPTY \/ LeafOf(tab, root, v).kind = "page"
<1>0. Top \in Nat \ {0} /\ Top \in 0..Top
  BY MachineIs
<1>1. Met(LeafOf(tab, root, v), tab, v, Top, T, d, r)
  BY LeafIs
<1>2. ASSUME NEW t, On(t, v, Top, T, d, r)
      PROVE  LeafOf(tab, root, v) = tab[t][Turn(v, Top)]
  <2>1. t \in T
    BY <1>2 DEF On
  <2>2. PICK u \in T : /\ On(u, v, Top, T, d, r)
                       /\ LeafOf(tab, root, v) = tab[u][Turn(v, Top)]
    BY <1>1, <1>2, <2>1 DEF Met
  <2>3. u = t
    BY <1>2, <2>2, OnUnique DEF Tree
  <2> QED
    BY <2>2, <2>3
<1>3. ASSUME \A t : ~On(t, v, Top, T, d, r)
      PROVE  LeafOf(tab, root, v) = EMPTY
  BY <1>1, <1>3 DEF Met
<1>4. LeafOf(tab, root, v) = EMPTY \/ LeafOf(tab, root, v).kind = "page"
  <2>1. CASE \A t : ~On(t, v, Top, T, d, r)
    BY <1>3, <2>1
  <2>2. CASE \E t : On(t, v, Top, T, d, r)
    <3>1. PICK t : On(t, v, Top, T, d, r)
      BY <2>2
    <3>2. d[t] = Top
      BY <3>1 DEF On
    <3>3. EntryOk(tab[t][Turn(v, Top)], t, Turn(v, Top), T, d, r)
      BY <3>1, <3>2, UserEntry
    <3>4. LeafOf(tab, root, v) = tab[t][Turn(v, Top)]
      BY <1>2, <3>1
    <3> QED
      BY <3>2, <3>3, <3>4 DEF EntryOk
  <2> QED
    BY <2>1, <2>2
<1> QED
  BY <1>2, <1>3, <1>4

LEMMA LeavesLocal ==
  ASSUME MachineOk(machine), NEW tab, NEW root, NEW T, NEW d, NEW r,
         Tree(tab, root, T, d, r), NEW tab2, \A t \in T : tab2[t] = tab[t]
  PROVE  /\ Tree(tab2, root, T, d, r)
         /\ \A w \in machine.user : LeafOf(tab2, root, w) = LeafOf(tab, root, w)
<1>1. Tree(tab2, root, T, d, r)
  BY TreeLocal
<1> SUFFICES ASSUME NEW w \in machine.user
             PROVE  LeafOf(tab2, root, w) = LeafOf(tab, root, w)
  BY <1>1
<1>2. CASE \A t : ~On(t, w, Top, T, d, r)
  <2>1. LeafOf(tab, root, w) = EMPTY
    BY <1>2, LeafValue
  <2>2. LeafOf(tab2, root, w) = EMPTY
    BY <1>1, <1>2, LeafValue
  <2> QED
    BY <2>1, <2>2
<1>3. CASE \E t : On(t, w, Top, T, d, r)
  <2>1. PICK t : On(t, w, Top, T, d, r)
    BY <1>3
  <2>2. LeafOf(tab, root, w) = tab[t][Turn(w, Top)]
    BY <2>1, LeafValue
  <2>3. LeafOf(tab2, root, w) = tab2[t][Turn(w, Top)]
    BY <1>1, <2>1, LeafValue
  <2>4. t \in T
    BY <2>1 DEF On
  <2> QED
    BY <2>2, <2>3, <2>4
<1> QED
  BY <1>2, <1>3

(* Different pages have different places for their leaves. *)
LEMMA PlacesApart ==
  ASSUME MachineOk(machine), NEW T, NEW d, NEW r, NEW t,
         NEW v \in machine.user, NEW w \in machine.user,
         On(t, v, Top, T, d, r), On(t, w, Top, T, d, r), Turn(v, Top) = Turn(w, Top)
  PROVE  v = w
<1>0. Top \in Nat \ {0}
  BY MachineIs
<1>1. SamePath(r[t], v, Top) /\ SamePath(r[t], w, Top)
  BY DEF On
<1>2. \A j \in 0..(Top - 1) : Turn(v, j) = Turn(w, j)
  BY <1>1 DEF SamePath
<1>3. \A j \in 0..Top : Turn(v, j) = Turn(w, j)
  BY <1>0, <1>2
<1> QED
  BY <1>3, MachineIs

(* A leaf is put in its place. *)
PutLeaf(tab, tab2, t, i, e, T) ==
  /\ tab2[t][i] = e
  /\ \A u \in T, j \in Slots : u # t \/ j # i => tab2[u][j] = tab[u][j]

LEMMA PutLeafTree ==
  ASSUME MachineOk(machine), NEW tab, NEW root, NEW T, NEW d, NEW r,
         Tree(tab, root, T, d, r), NEW v \in machine.user, NEW t,
         On(t, v, Top, T, d, r), NEW e, e.kind = "page", NEW tab2,
         PutLeaf(tab, tab2, t, Turn(v, Top), e, T)
  PROVE  /\ Tree(tab2, root, T, d, r)
         /\ \A i \in machine.shared : tab2[root][i] = tab[root][i]
         /\ \A w \in machine.user :
              LeafOf(tab2, root, w) = IF w = v THEN e ELSE LeafOf(tab, root, w)
<1>0. Top \in Nat \ {0} /\ machine.shared \subseteq Slots
      /\ \A w \in machine.user : Turn(w, Top) \in Slots
  BY MachineIs
<1>1. t \in T /\ d[t] = Top
  BY DEF On
<1>2. \A u \in T, i \in Slots :
        \/ tab2[u][i] = tab[u][i]
        \/ d[u] = Top /\ (tab2[u][i] = EMPTY \/ tab2[u][i].kind = "page")
  BY <1>1 DEF PutLeaf
<1>3. /\ Tree(tab2, root, T, d, r)
      /\ \A i \in machine.shared \cap Slots : tab2[root][i] = tab[root][i]
  BY <1>2, TreeLeaves
<1>4. ASSUME NEW w \in machine.user
      PROVE  LeafOf(tab2, root, w) = IF w = v THEN e ELSE LeafOf(tab, root, w)
  <2>1. CASE \A u : ~On(u, w, Top, T, d, r)
    <3>1. w # v
      BY <2>1
    <3>2. LeafOf(tab, root, w) = EMPTY
      BY <2>1, LeafValue
    <3>3. LeafOf(tab2, root, w) = EMPTY
      BY <1>3, <2>1, LeafValue
    <3> QED
      BY <3>1, <3>2, <3>3
  <2>2. CASE \E u : On(u, w, Top, T, d, r)
    <3>1. PICK u : On(u, w, Top, T, d, r)
      BY <2>2
    <3>2. LeafOf(tab, root, w) = tab[u][Turn(w, Top)]
      BY <3>1, LeafValue
    <3>3. LeafOf(tab2, root, w) = tab2[u][Turn(w, Top)]
      BY <1>3, <3>1, LeafValue
    <3>4. u \in T
      BY <3>1 DEF On
    <3>5. CASE w = v
      <4>1. u = t
        BY <3>1, <3>5, OnUnique DEF Tree
      <4> QED
        BY <3>3, <3>5, <4>1 DEF PutLeaf
    <3>6. CASE w # v
      <4>1. u # t \/ Turn(w, Top) # Turn(v, Top)
        BY <3>1, <3>6, PlacesApart
      <4>2. tab2[u][Turn(w, Top)] = tab[u][Turn(w, Top)]
        BY <1>0, <3>4, <4>1 DEF PutLeaf
      <4> QED
        BY <3>2, <3>3, <3>6, <4>2
    <3> QED
      BY <3>5, <3>6
  <2> QED
    BY <2>1, <2>2
<1> QED
  BY <1>0, <1>3, <1>4

(* Pages are unmapped. *)
KeptOutside(tab, tab2, T) == \A f \in AllFrames \ T : tab2[f] = tab[f]

LEMMA UnmapTree ==
  ASSUME MachineOk(machine), NEW tab, IsTables(tab), NEW root,
         NEW T \in SUBSET AllFrames, NEW d, NEW r,
         Tree(tab, root, T, d, r), NEW V \in SUBSET machine.user
  PROVE  /\ IsTables(UnmapAll(tab, root, V))
         /\ Tree(UnmapAll(tab, root, V), root, T, d, r)
         /\ KeptOutside(tab, UnmapAll(tab, root, V), T)
         /\ SharedKept(tab, UnmapAll(tab, root, V), root)
         /\ \A w \in machine.user :
              LeafOf(UnmapAll(tab, root, V), root, w)
                = IF w \in V THEN EMPTY ELSE LeafOf(tab, root, w)
<1>0. Top \in Nat \ {0} /\ machine.shared \subseteq Slots
      /\ \A w \in machine.user : Turn(w, Top) \in Slots
  BY MachineIs
<1>1. PICK tab2 : tab2 = UnmapAll(tab, root, V)
  OBVIOUS
<1>2. /\ IsTables(tab2)
      /\ \A f \in AllFrames, i \in Slots :
           tab2[f][i] = IF IsCut(f, i, tab, root, V) THEN EMPTY ELSE tab[f][i]
  BY <1>1, UnmapAllIs
<1>3. \A f, i : IsCut(f, i, tab, root, V) <=>
        \E v \in V : On(f, v, Top, T, d, r) /\ i = Turn(v, Top)
  BY CutIs
<1>4. ASSUME NEW u \in T, NEW i \in Slots
      PROVE  \/ tab2[u][i] = tab[u][i]
             \/ d[u] = Top /\ tab2[u][i] = EMPTY
  <2>1. CASE IsCut(u, i, tab, root, V)
    <3>1. PICK v \in V : On(u, v, Top, T, d, r)
      BY <1>3, <2>1
    <3>2. d[u] = Top
      BY <3>1 DEF On
    <3> QED
      BY <1>2, <2>1, <3>2
  <2>2. CASE ~IsCut(u, i, tab, root, V)
    BY <1>2, <2>2
  <2> QED
    BY <2>1, <2>2
<1>5. /\ Tree(tab2, root, T, d, r)
      /\ \A i \in machine.shared \cap Slots : tab2[root][i] = tab[root][i]
  BY <1>4, TreeLeaves
<1>6. ASSUME NEW f \in AllFrames \ T PROVE tab2[f] = tab[f]
  <2>1. \A i \in Slots : tab2[f][i] = tab[f][i]
    <3> SUFFICES ASSUME NEW i \in Slots PROVE tab2[f][i] = tab[f][i]
      OBVIOUS
    <3>1. ~IsCut(f, i, tab, root, V)
      BY <1>3 DEF On
    <3> QED
      BY <1>2, <3>1
  <2>2. tab2[f] = [i \in Slots |-> tab2[f][i]] /\ tab[f] = [i \in Slots |-> tab[f][i]]
    BY <1>2 DEF IsTables
  <2> QED
    BY <2>1, <2>2
<1>7. ASSUME NEW w \in machine.user
      PROVE  LeafOf(tab2, root, w) = IF w \in V THEN EMPTY ELSE LeafOf(tab, root, w)
  <2>1. CASE \A u : ~On(u, w, Top, T, d, r)
    <3>1. LeafOf(tab, root, w) = EMPTY
      BY <2>1, LeafValue
    <3>2. LeafOf(tab2, root, w) = EMPTY
      BY <1>5, <2>1, LeafValue
    <3> QED
      BY <3>1, <3>2
  <2>2. CASE \E u : On(u, w, Top, T, d, r)
    <3>1. PICK u : On(u, w, Top, T, d, r)
      BY <2>2
    <3>2. LeafOf(tab, root, w) = tab[u][Turn(w, Top)]
      BY <3>1, LeafValue
    <3>3. LeafOf(tab2, root, w) = tab2[u][Turn(w, Top)]
      BY <1>5, <3>1, LeafValue
    <3>4. u \in AllFrames
      BY <3>1 DEF On
    <3>5. IsCut(u, Turn(w, Top), tab, root, V) <=> w \in V
      <4>1. ASSUME NEW v \in V, On(u, v, Top, T, d, r), Turn(w, Top) = Turn(v, Top)
            PROVE  w = v
        BY <3>1, <4>1, PlacesApart
      <4> QED
        BY <1>3, <3>1, <4>1
    <3> QED
      BY <1>0, <1>2, <3>2, <3>3, <3>4, <3>5
  <2> QED
    BY <2>1, <2>2
<1> QED
  BY <1>0, <1>1, <1>2, <1>5, <1>6, <1>7 DEF KeptOutside, SharedKept

-----------------------------------------------------------------------------
(* Memory.                                                                 *)

LEMMA FramesAre ==
  ASSUME MachineOk(machine)
  PROVE  /\ General \subseteq AllFrames /\ Arena \subseteq AllFrames
         /\ KROOT \in AllFrames /\ KROOT \notin General /\ KROOT \notin Arena
         /\ 0 \notin General /\ General \cap Arena = {} /\ General \subseteq Nat
         /\ AllFrames \subseteq Nat /\ DEVICE \in Nat
<1>1. machine.general \in Nat /\ ArenaFrames \in Nat
  BY SpacesAssumption DEF MachineOk
<1> QED
  BY <1>1 DEF General, Arena, AllFrames, KROOT, DEVICE

NoTwice(F) == \A i, j \in 1..Len(F) : F[i] = F[j] => i = j

LEMMA AppendIs ==
  ASSUME NEW S, NEW F \in Seq(S), NEW f \in S, f \notin Range(F), NoTwice(F)
  PROVE  /\ Append(F, f) \in Seq(S) /\ NoTwice(Append(F, f))
         /\ Range(Append(F, f)) = Range(F) \cup {f}
         /\ Append(F, f) # << >> /\ Len(Append(F, f)) = Len(F) + 1
         /\ F # << >> => Append(F, f)[1] = F[1]
         /\ F = << >> => Append(F, f)[1] = f
<1>1. /\ Append(F, f) \in Seq(S) /\ Len(Append(F, f)) = Len(F) + 1 /\ Len(F) \in Nat
      /\ \A i \in 1..Len(F) : Append(F, f)[i] = F[i]
      /\ Append(F, f)[Len(F) + 1] = f
      /\ DOMAIN F = 1..Len(F) /\ DOMAIN Append(F, f) = 1..(Len(F) + 1)
  OBVIOUS
<1>2. \A i \in 1..Len(F) : F[i] # f
  BY <1>1 DEF Range
<1>3. NoTwice(Append(F, f))
  BY <1>1, <1>2 DEF NoTwice
<1>4. Range(Append(F, f)) = Range(F) \cup {f}
  <2>1. ASSUME NEW i \in DOMAIN Append(F, f) PROVE Append(F, f)[i] \in Range(F) \cup {f}
    BY <1>1, <2>1 DEF Range
  <2>2. ASSUME NEW i \in DOMAIN F PROVE F[i] \in Range(Append(F, f))
    <3>1. i \in DOMAIN Append(F, f) /\ F[i] = Append(F, f)[i]
      BY <1>1
    <3> QED
      BY <3>1 DEF Range
  <2>3. f \in Range(Append(F, f))
    <3>1. Len(F) + 1 \in DOMAIN Append(F, f)
      BY <1>1
    <3> QED
      BY <1>1, <3>1 DEF Range
  <2> QED
    BY <2>1, <2>2, <2>3 DEF Range
<1>5. F # << >> => 1 \in 1..Len(F)
  BY <1>1
<1>6. Append(F, f) # << >>
  BY <1>1
<1>7. F = << >> => Append(F, f)[1] = f
  BY <1>1
<1> QED
  BY <1>1, <1>3, <1>4, <1>5, <1>6, <1>7

IsMem(m) ==
  /\ m = [pt |-> m.pt, bytes |-> m.bytes, free |-> m.free, frames |-> m.frames,
          got |-> m.got, at |-> m.at, ok |-> m.ok]
  /\ IsTables(m.pt) /\ m.ok \in BOOLEAN

(* The frames `pool` are free or charged, each once; no other is touched. *)
MemOk(m, old, pool) ==
  /\ IsMem(m)
  /\ m.free \subseteq General /\ m.frames \in Seq(General) /\ NoTwice(m.frames)
  /\ Range(m.frames) \cap m.free = {}
  /\ Range(m.frames) \cup m.free = pool
  /\ \A f \in AllFrames \ pool : m.pt[f] = old[f]

(* What an allocation does: it fails, or hands out a frame. *)
Refused(m, a) == a.ok = FALSE /\ a.frames = m.frames /\ a.free = m.free
HandsOut(m, a) == /\ a.ok = m.ok /\ a.got \in m.free /\ a.free = m.free \ {a.got}
                  /\ a.frames = Append(m.frames, a.got)
                  /\ a.pt[a.got] = NewTable

LEMMA FailedIs ==
  ASSUME NEW m, IsMem(m)
  PROVE  /\ Failed(m).pt = m.pt /\ Failed(m).free = m.free /\ Failed(m).ok = FALSE
         /\ Failed(m).frames = m.frames /\ Failed(m).at = m.at /\ IsMem(Failed(m))
         /\ Failed(m).got = m.got
<1>1. PICK z : z = Failed(m)
  OBVIOUS
<1>2. /\ z.pt = m.pt /\ z.free = m.free /\ z.ok = FALSE /\ z.frames = m.frames
      /\ z.at = m.at /\ z.got = m.got
      /\ z = [pt |-> z.pt, bytes |-> z.bytes, free |-> z.free, frames |-> z.frames,
              got |-> z.got, at |-> z.at, ok |-> z.ok]
  BY <1>1 DEF Failed, IsMem
<1>3. IsMem(z)
  BY <1>2 DEF IsMem
<1> QED
  BY <1>1, <1>2, <1>3

LEMMA ZeroedIs ==
  ASSUME NEW m, IsMem(m), NEW f \in AllFrames
  PROVE  /\ IsMem(Zeroed(m, f)) /\ Zeroed(m, f).free = m.free
         /\ Zeroed(m, f).frames = m.frames /\ Zeroed(m, f).at = m.at
         /\ Zeroed(m, f).ok = m.ok /\ Zeroed(m, f).got = m.got
         /\ Zeroed(m, f).pt[f] = NewTable
         /\ \A g \in AllFrames \ {f} : Zeroed(m, f).pt[g] = m.pt[g]
<1>1. PICK z : z = Zeroed(m, f)
  OBVIOUS
<1>2. /\ z.pt = [m.pt EXCEPT ![f] = NewTable] /\ z.free = m.free
      /\ z.frames = m.frames /\ z.at = m.at /\ z.ok = m.ok /\ z.got = m.got
      /\ z = [pt |-> z.pt, bytes |-> z.bytes, free |-> z.free, frames |-> z.frames,
              got |-> z.got, at |-> z.at, ok |-> z.ok]
  BY <1>1 DEF Zeroed, IsMem
<1>3. m.pt = [g \in AllFrames |-> [i \in Slots |-> m.pt[g][i]]]
  BY DEF IsMem, IsTables
<1>4. NewTable = [i \in Slots |-> NewTable[i]]
  BY DEF NewTable
<1>5. z.pt[f] = NewTable /\ \A g \in AllFrames \ {f} : z.pt[g] = m.pt[g]
  BY <1>2, <1>3
<1>5a. \A g \in AllFrames : z.pt[g] = [i \in Slots |-> z.pt[g][i]]
  <2> SUFFICES ASSUME NEW g \in AllFrames PROVE z.pt[g] = [i \in Slots |-> z.pt[g][i]]
    OBVIOUS
  <2>1. CASE g = f
    BY <1>4, <1>5, <2>1
  <2>2. CASE g # f
    BY <1>3, <1>5, <2>2
  <2> QED
    BY <2>1, <2>2
<1>5b. IsTables(z.pt)
  BY <1>2, <1>3, <1>5a DEF IsTables
<1>6. IsMem(z)
  BY <1>2, <1>5b DEF IsMem
<1> QED
  BY <1>1, <1>2, <1>5, <1>6

LEMMA AllocIs ==
  ASSUME MachineOk(machine), NEW m, NEW old, NEW pool, MemOk(m, old, pool)
  PROVE  LET a == AllocFrame(m)
         IN  /\ MemOk(a, old, pool) /\ a.at = m.at
             /\ \A g \in AllFrames \ m.free : a.pt[g] = m.pt[g]
             /\ Refused(m, a) \/ HandsOut(m, a)
<1>0. /\ IsMem(m) /\ m.free \subseteq General /\ m.frames \in Seq(General)
      /\ NoTwice(m.frames) /\ Range(m.frames) \cap m.free = {}
      /\ Range(m.frames) \cup m.free = pool
      /\ \A f \in AllFrames \ pool : m.pt[f] = old[f]
      /\ m.free \subseteq pool
  BY DEF MemOk
<1>1. PICK a : a = AllocFrame(m)
  OBVIOUS
<1>2. CASE m.free = {}
  <2>1. a = Failed(m)
    BY <1>1, <1>2 DEF AllocFrame
  <2>2. /\ a.pt = m.pt /\ a.free = m.free /\ a.ok = FALSE /\ a.frames = m.frames
        /\ a.at = m.at /\ IsMem(a)
    BY <1>0, <2>1, FailedIs
  <2>3. MemOk(a, old, pool)
    BY <1>0, <2>2 DEF MemOk
  <2> QED
    BY <1>1, <2>2, <2>3 DEF Refused
<1>3. CASE m.free # {}
  <2>1. PICK f \in m.free : f = Min(m.free)
    BY <1>0, <1>3, MinIs, FramesAre
  <2>2. f \in AllFrames /\ f \in General /\ f \in pool
    BY <1>0, FramesAre
  <2>3. PICK z : z = Zeroed(m, f)
    OBVIOUS
  <2>4. /\ IsMem(z) /\ z.free = m.free /\ z.frames = m.frames /\ z.at = m.at
        /\ z.ok = m.ok /\ z.pt[f] = NewTable
        /\ \A g \in AllFrames \ {f} : z.pt[g] = m.pt[g]
    BY <1>0, <2>2, <2>3, ZeroedIs
  <2>5. \A g \in AllFrames \ m.free : z.pt[g] = m.pt[g]
    BY <2>4
  <2>6. \A g \in AllFrames \ pool : z.pt[g] = old[g]
    BY <1>0, <2>2, <2>4
  <2>7. CASE a = Failed(z)
    <3>1. /\ a.pt = z.pt /\ a.free = m.free /\ a.ok = FALSE /\ a.frames = m.frames
          /\ a.at = m.at /\ IsMem(a)
      BY <2>4, <2>7, FailedIs
    <3>2. MemOk(a, old, pool)
      BY <1>0, <2>6, <3>1 DEF MemOk
    <3> QED
      BY <1>1, <2>5, <3>1, <3>2 DEF Refused
  <2>8. CASE a = [z EXCEPT !.free = @ \ {f}, !.frames = Append(@, f), !.got = f]
    <3>1. /\ a.pt = z.pt /\ a.free = m.free \ {f} /\ a.frames = Append(m.frames, f)
          /\ a.got = f /\ a.at = m.at /\ a.ok = m.ok /\ IsMem(a)
      BY <2>4, <2>8 DEF IsMem
    <3>2. /\ a.frames \in Seq(General) /\ NoTwice(a.frames)
          /\ Range(a.frames) = Range(m.frames) \cup {f}
      BY <1>0, <2>2, <3>1, AppendIs
    <3>3. MemOk(a, old, pool)
      BY <1>0, <2>2, <2>6, <3>1, <3>2 DEF MemOk
    <3>4. HandsOut(m, a)
      BY <2>4, <3>1 DEF HandsOut
    <3> QED
      BY <1>1, <2>5, <3>1, <3>3, <3>4
  <2>9. a = Failed(z) \/ a = [z EXCEPT !.free = @ \ {f}, !.frames = Append(@, f), !.got = f]
    BY <1>1, <1>3, <2>1, <2>3 DEF AllocFrame
  <2> QED
    BY <2>7, <2>8, <2>9
<1> QED
  BY <1>2, <1>3

(* One entry of one table is written. *)
Entered(tab, f, i, e) == [tab EXCEPT ![f][i] = e]

LEMMA EntrySet ==
  ASSUME NEW tab, IsTables(tab), NEW f \in AllFrames, NEW i \in Slots, NEW e, NEW tab2,
         tab2 = Entered(tab, f, i, e)
  PROVE  /\ IsTables(tab2) /\ tab2[f][i] = e
         /\ \A g \in AllFrames \ {f} : tab2[g] = tab[g]
         /\ \A j \in Slots : j # i => tab2[f][j] = tab[f][j]
<1>1. /\ DOMAIN tab = AllFrames
      /\ \A g \in AllFrames : tab[g] = [j \in Slots |-> tab[g][j]]
  BY DEF IsTables
<1>2. PICK row : row = [tab[f] EXCEPT ![i] = e]
  OBVIOUS
<1>3. /\ row = [j \in Slots |-> row[j]] /\ row[i] = e
      /\ \A j \in Slots : j # i => row[j] = tab[f][j]
  BY <1>1, <1>2
<1>4. tab2 = [tab EXCEPT ![f] = row]
  BY <1>2 DEF Entered
<1>5. /\ tab2[f] = row /\ \A g \in AllFrames \ {f} : tab2[g] = tab[g]
      /\ tab2 = [g \in AllFrames |-> tab2[g]]
  BY <1>1, <1>4
<1>6. \A g \in AllFrames : tab2[g] = [j \in Slots |-> tab2[g][j]]
  <2> SUFFICES ASSUME NEW g \in AllFrames PROVE tab2[g] = [j \in Slots |-> tab2[g][j]]
    OBVIOUS
  <2>1. CASE g = f
    BY <1>3, <1>5, <2>1
  <2>2. CASE g # f
    BY <1>1, <1>5, <2>2
  <2> QED
    BY <2>1, <2>2
<1>7. IsTables(tab2)
  BY <1>5, <1>6 DEF IsTables
<1> QED
  BY <1>3, <1>5, <1>7

-----------------------------------------------------------------------------
(* A memory with a tree: the frames charged are its tables and the pages X. *)

TreeOf(m, root, X, T, d, r) ==
  /\ Tree(m.pt, root, T, d, r) /\ T \cap X = {} /\ Range(m.frames) = T \cup X
Rooted(m, root) == m.frames # << >> /\ m.frames[1] = root
Held(m, root, X) == Rooted(m, root) /\ \E T, d, r : TreeOf(m, root, X, T, d, r)

(* ... and the table it is at is the k-th on the way to v. *)
HeldAt(m, root, X, v, k) ==
  /\ Rooted(m, root)
  /\ \E T, d, r : TreeOf(m, root, X, T, d, r) /\ On(m.at, v, k, T, d, r)

SameShared(m, n, root) == \A i \in machine.shared : n.pt[root][i] = m.pt[root][i]
SameLeaves(m, n, root) ==
  \A w \in machine.user : LeafOf(n.pt, root, w) = LeafOf(m.pt, root, w)

LEMMA SameIs ==
  /\ \A m, root : SameShared(m, m, root) /\ SameLeaves(m, m, root)
  /\ \A m, n, o, root : SameShared(m, n, root) /\ SameShared(n, o, root)
                          => SameShared(m, o, root)
  /\ \A m, n, o, root : SameLeaves(m, n, root) /\ SameLeaves(n, o, root)
                          => SameLeaves(m, o, root)
BY DEF SameShared, SameLeaves

LEMMA TreeOfLocal ==
  ASSUME MachineOk(machine), NEW m, NEW root, NEW X, NEW T, NEW d, NEW r,
         TreeOf(m, root, X, T, d, r), NEW n, n.frames = m.frames,
         \A g \in Range(m.frames) : n.pt[g] = m.pt[g]
  PROVE  /\ TreeOf(n, root, X, T, d, r) /\ root \in Range(m.frames)
         /\ SameShared(m, n, root) /\ SameLeaves(m, n, root)
<1>1. /\ Tree(m.pt, root, T, d, r) /\ T \cap X = {} /\ Range(m.frames) = T \cup X
      /\ root \in T
  BY DEF TreeOf, Tree
<1>2. \A t \in T : n.pt[t] = m.pt[t]
  BY <1>1
<1>3. /\ Tree(n.pt, root, T, d, r)
      /\ \A w \in machine.user : LeafOf(n.pt, root, w) = LeafOf(m.pt, root, w)
  BY <1>1, <1>2, LeavesLocal
<1> QED
  BY <1>1, <1>2, <1>3 DEF TreeOf, SameShared, SameLeaves

LEMMA HeldLocal ==
  ASSUME MachineOk(machine), NEW m, NEW root, NEW X, Held(m, root, X),
         NEW n, n.frames = m.frames, \A g \in Range(m.frames) : n.pt[g] = m.pt[g]
  PROVE  /\ Held(n, root, X) /\ root \in Range(m.frames)
         /\ SameShared(m, n, root) /\ SameLeaves(m, n, root)
<1>1. PICK T, d, r : TreeOf(m, root, X, T, d, r)
  BY DEF Held
<1> QED
  BY <1>1, TreeOfLocal DEF Held, Rooted

-----------------------------------------------------------------------------
(* `map`.                                                                  *)

LEMMA DescendIs ==
  ASSUME MachineOk(machine), NEW m, NEW old, NEW pool, MemOk(m, old, pool), m.ok,
         NEW root, NEW X, NEW v \in machine.user, NEW k \in 0..(Top - 1),
         HeldAt(m, root, X, v, k), NEW level, level = Top - k,
         NEW n, n = Descend(m, v, level)
  PROVE  /\ MemOk(n, old, pool) /\ Held(n, root, X)
         /\ SameShared(m, n, root) /\ SameLeaves(m, n, root)
         /\ n.ok => HeldAt(n, root, X, v, k + 1)
<1>0. Top \in Nat \ {0} /\ k \in 0..Top /\ k \in Nat
  BY MachineIs
<1>1. PICK T, d, r : TreeOf(m, root, X, T, d, r) /\ On(m.at, v, k, T, d, r)
  BY DEF HeldAt
<1>2. /\ Tree(m.pt, root, T, d, r) /\ T \cap X = {} /\ Range(m.frames) = T \cup X
      /\ m.at \in T /\ d[m.at] = k /\ root \in T
      /\ d \in [T -> 0..Top] /\ r \in [T -> machine.user]
  BY <1>1 DEF TreeOf, On, Tree
<1>3. /\ IsMem(m) /\ IsTables(m.pt) /\ m.free \subseteq General
      /\ m.frames \in Seq(General) /\ NoTwice(m.frames)
      /\ Range(m.frames) \cap m.free = {} /\ Range(m.frames) \cup m.free = pool
      /\ \A f \in AllFrames \ pool : m.pt[f] = old[f]
  BY DEF MemOk, IsMem
<1>4. Range(m.frames) \subseteq General
  BY <1>3 DEF Range
<1>5. /\ T \subseteq AllFrames \ m.free /\ m.at \in AllFrames \ m.free
      /\ \A g \in Range(m.frames) : g \in AllFrames \ m.free
  BY <1>2, <1>3, <1>4, FramesAre
<1>6. PICK e : e = m.pt[m.at][Turn(v, k)]
  OBVIOUS
<1>7. e = m.pt[m.at][Index(v, level)] /\ Turn(v, k) = Index(v, level)
  BY <1>6 DEF Turn
<1>8. Turn(v, k) \in Slots
  BY <1>0, MachineIs
<1>9. e = EMPTY \/ \E u \in T : e = Link(u)
  BY <1>1, <1>2, <1>6, NextTable
<1>10. CASE \E u \in T : e = Link(u)
  <2>1. PICK u \in T : e = Link(u)
    BY <1>10
  <2>2. e.kind = "table" /\ e.frame = u
    BY <2>1, EntryKinds
  <2>3. n = [m EXCEPT !.at = e.frame]
    BY <1>7, <2>2 DEF Descend
  <2>4. /\ n.at = u /\ n.pt = m.pt /\ n.free = m.free /\ n.frames = m.frames
        /\ n.ok = m.ok /\ IsMem(n)
    BY <1>3, <2>2, <2>3 DEF IsMem
  <2>5. MemOk(n, old, pool)
    BY <1>3, <2>4 DEF MemOk
  <2>6. /\ TreeOf(n, root, X, T, d, r) /\ SameShared(m, n, root)
        /\ SameLeaves(m, n, root)
    BY <1>1, <2>4, TreeOfLocal
  <2>7. On(n.at, v, k + 1, T, d, r)
    <3>1. PICK t : t = m.at
      OBVIOUS
    <3>2. On(t, v, k, T, d, r) /\ m.pt[t][Turn(v, k)] = Link(u)
      BY <1>1, <1>6, <2>1, <3>1
    <3>3. Tree(m.pt, root, T, d, r)
      BY <1>2
    <3>4. On(u, v, k + 1, T, d, r)
      BY <2>1, <3>2, <3>3, NextTable
    <3> QED
      BY <2>4, <3>4
  <2>8. Rooted(n, root)
    BY <2>4 DEF HeldAt, Rooted
  <2> QED
    BY <2>5, <2>6, <2>7, <2>8 DEF Held, HeldAt
<1>11. CASE e = EMPTY
  <2>1. PICK a : a = AllocFrame(m)
    OBVIOUS
  <2>2. /\ MemOk(a, old, pool) /\ a.at = m.at
        /\ \A g \in AllFrames \ m.free : a.pt[g] = m.pt[g]
        /\ Refused(m, a) \/ HandsOut(m, a)
    BY <2>1, AllocIs
  <2>3. e.kind # "table" /\ e.kind # "page"
    BY <1>11, EntryKinds
  <2>4. n = IF ~a.ok THEN a
            ELSE [a EXCEPT !.pt[m.at][Index(v, level)] = Link(a.got), !.at = a.got]
    BY <1>7, <2>1, <2>3 DEF Descend
  <2>5. CASE Refused(m, a)
    <3>1. n = a /\ a.ok = FALSE /\ a.frames = m.frames
      BY <2>4, <2>5 DEF Refused
    <3>2. \A g \in Range(m.frames) : n.pt[g] = m.pt[g]
      BY <1>5, <2>2, <3>1
    <3>3. /\ TreeOf(n, root, X, T, d, r) /\ SameShared(m, n, root)
          /\ SameLeaves(m, n, root)
      BY <1>1, <3>1, <3>2, TreeOfLocal
    <3>4. Rooted(n, root)
      BY <3>1 DEF HeldAt, Rooted
    <3> QED
      BY <2>2, <3>1, <3>3, <3>4 DEF Held
  <2>6. CASE HandsOut(m, a)
    <3>1. PICK f : f = a.got
      OBVIOUS
    <3>2. /\ f \in m.free /\ a.ok = m.ok /\ a.frames = Append(m.frames, f)
          /\ a.free = m.free \ {f} /\ a.pt[f] = NewTable
      BY <2>6, <3>1 DEF HandsOut
    <3>3. n = [a EXCEPT !.pt[m.at][Turn(v, k)] = Link(f), !.at = f]
      BY <1>7, <2>4, <3>1, <3>2
    <3>4. IsMem(a)
      BY <2>2 DEF MemOk
    <3>5. /\ n.pt = Entered(a.pt, m.at, Turn(v, k), Link(f)) /\ n.at = f
          /\ n.free = a.free /\ n.frames = a.frames /\ n.ok = a.ok
          /\ n = [pt |-> n.pt, bytes |-> n.bytes, free |-> n.free, frames |-> n.frames,
                  got |-> n.got, at |-> n.at, ok |-> n.ok]
      BY <3>3, <3>4 DEF IsMem, Entered
    <3>6. IsTables(a.pt) /\ a.ok \in BOOLEAN
      BY <3>4 DEF IsMem
    <3>7. /\ IsTables(n.pt) /\ n.pt[m.at][Turn(v, k)] = Link(f)
          /\ \A g \in AllFrames \ {m.at} : n.pt[g] = a.pt[g]
          /\ \A j \in Slots : j # Turn(v, k) => n.pt[m.at][j] = a.pt[m.at][j]
      BY <1>5, <1>8, <3>5, <3>6, EntrySet
    <3>8. IsMem(n)
      BY <3>5, <3>6, <3>7 DEF IsMem
    <3>9. MemOk(n, old, pool)
      <4>1. m.at \in pool
        BY <1>2, <1>3
      <4>2. \A g \in AllFrames \ pool : n.pt[g] = old[g]
        BY <2>2, <3>7, <4>1 DEF MemOk
      <4> QED
        BY <2>2, <3>5, <3>8, <4>2 DEF MemOk
    <3>10. f \in AllFrames /\ f \in General /\ f # m.at /\ f \notin T /\ f \notin X
      BY <1>2, <1>3, <1>5, <3>2, FramesAre
    <3>11. Added(m.pt, n.pt, f, m.at, v, k, T)
      <4>1. \A i \in Slots : n.pt[f][i] = EMPTY
        BY <3>2, <3>7, <3>10 DEF NewTable
      <4>2. ASSUME NEW u \in T, NEW i \in Slots, u # m.at \/ i # Turn(v, k)
            PROVE  n.pt[u][i] = m.pt[u][i]
        BY <1>5, <2>2, <3>7, <4>2
      <4> QED
        BY <3>7, <4>1, <4>2 DEF Added
    <3>12. EndsAt(m.pt, m.at, v, k, T, d, r)
      BY <1>1, <1>6, <1>11 DEF EndsAt
    <3> DEFINE T2 == T \cup {f}
               d2 == [u \in T2 |-> IF u = f THEN k + 1 ELSE d[u]]
               r2 == [u \in T2 |-> IF u = f THEN v ELSE r[u]]
    <3>13. d2 \in [T2 -> 0..Top] /\ Extends(d2, d, k + 1, f, T)
      BY <1>0, <1>2, <3>10 DEF Extends
    <3>14. r2 \in [T2 -> machine.user] /\ Extends(r2, r, v, f, T)
      BY <1>2, <3>10 DEF Extends
    <3> HIDE DEF d2, r2
    <3>21. PICK tab, tab2, t, dd, rr : /\ tab = m.pt /\ tab2 = n.pt /\ t = m.at
                                       /\ dd = d2 /\ rr = r2
      OBVIOUS
    <3>22. Tree(tab, root, T, d, r) /\ Grown(tab, tab2, t, f, v, k, T, d, r, dd, rr)
      BY <1>2, <3>10, <3>11, <3>12, <3>13, <3>14, <3>21 DEF Grown
    <3>23. /\ Tree(tab2, root, T \cup {f}, dd, rr) /\ On(f, v, k + 1, T \cup {f}, dd, rr)
           /\ \A i \in machine.shared \cap Slots : tab2[root][i] = tab[root][i]
      <4>1. Tree(tab2, root, T \cup {f}, dd, rr)
        BY <3>22, AddTable
      <4>2. On(f, v, k + 1, T \cup {f}, dd, rr)
        BY <3>22, AddTable
      <4>3. SharedKept(tab, tab2, root)
        BY <3>22, AddTable
      <4> QED
        BY <4>1, <4>2, <4>3 DEF SharedKept
    <3>24. \A w \in machine.user : LeafOf(tab2, root, w) = LeafOf(tab, root, w)
      BY <3>22, AddTableLeaves
    <3>15. /\ Tree(n.pt, root, T2, d2, r2) /\ On(f, v, k + 1, T2, d2, r2)
           /\ \A i \in machine.shared \cap Slots : n.pt[root][i] = m.pt[root][i]
      BY <3>21, <3>23
    <3>16. \A w \in machine.user : LeafOf(n.pt, root, w) = LeafOf(m.pt, root, w)
      BY <3>21, <3>24
    <3>17. SameShared(m, n, root) /\ SameLeaves(m, n, root)
      BY <3>15, <3>16, MachineIs DEF SameShared, SameLeaves
    <3>18. /\ Range(n.frames) = Range(m.frames) \cup {f}
           /\ n.frames # << >> /\ n.frames[1] = m.frames[1]
      <4>1. /\ m.frames \in Seq(General) /\ f \in General /\ f \notin Range(m.frames)
            /\ NoTwice(m.frames)
        BY <1>3, <3>2, <3>10
      <4>2. n.frames = Append(m.frames, f) /\ m.frames # << >>
        BY <3>2, <3>5 DEF HeldAt, Rooted
      <4>3. /\ Range(Append(m.frames, f)) = Range(m.frames) \cup {f}
            /\ Append(m.frames, f) # << >> /\ Append(m.frames, f)[1] = m.frames[1]
        BY <4>1, <4>2, AppendIs
      <4> QED
        BY <4>2, <4>3
    <3>19. TreeOf(n, root, X, T2, d2, r2)
      BY <1>2, <3>10, <3>15, <3>18 DEF TreeOf
    <3>20. Rooted(n, root)
      BY <3>18 DEF HeldAt, Rooted
    <3> QED
      BY <3>5, <3>9, <3>15, <3>17, <3>19, <3>20 DEF Held, HeldAt
  <2> QED
    BY <2>2, <2>5, <2>6
<1> QED
  BY <1>9, <1>10, <1>11

-----------------------------------------------------------------------------
(* Loops.                                                                  *)

(* A descent goes level by level. *)
AtRoot(m, root) == [m EXCEPT !.at = root]
StepDown(e, v, k) == Descend(e, v, Top + 1 - k)

Descent(f, m, root, v) ==
  /\ f[0] = AtRoot(m, root)
  /\ \A k \in 1..Top : f[k] = StepDown(f[k - 1], v, k)
  /\ DescendAll(m, root, v) = f[Top]

LEMMA DescendAllSteps ==
  ASSUME MachineOk(machine), NEW m, NEW root, NEW v
  PROVE  \E f : Descent(f, m, root, v)
<1> DEFINE first == AtRoot(m, root)
           Upto(j, f) == f = [k \in 0..j |-> IF k = 0 THEN first
                                             ELSE StepDown(f[k - 1], v, k)]
           P == {j \in 0..Top : \E f : Upto(j, f)}
<1>0. Top \in Nat
  BY MachineIs
<1> HIDE DEF first, AtRoot, StepDown
<1>1. 0 \in P
  <2>1. Upto(0, [k \in 0..0 |-> first])
    OBVIOUS
  <2> HIDE DEF Upto
  <2> QED
    BY <1>0, <2>1
<1>2. ASSUME NEW j \in 1..Top, j - 1 \in P PROVE j \in P
  <2>1. PICK f : Upto(j - 1, f)
    BY <1>2
  <2> DEFINE g == [k \in 0..j |-> IF k = j THEN StepDown(f[j - 1], v, j) ELSE f[k]]
  <2>2. \A k \in 0..j : g[k] = IF k = 0 THEN first ELSE StepDown(g[k - 1], v, k)
    <3> SUFFICES ASSUME NEW k \in 0..j
                 PROVE  g[k] = IF k = 0 THEN first ELSE StepDown(g[k - 1], v, k)
      OBVIOUS
    <3>1. CASE k = j
      <4>1. k # 0 /\ k - 1 \in 0..j /\ k - 1 # j
        BY <1>0, <3>1
      <4>2. g[k - 1] = f[j - 1] /\ g[k] = StepDown(f[j - 1], v, j)
        BY <3>1, <4>1
      <4> HIDE DEF g
      <4> QED
        BY <3>1, <4>1, <4>2
    <3>2. CASE k # j
      <4>1. k \in 0..(j - 1) /\ g[k] = f[k]
        BY <1>0, <3>2
      <4>2. k # 0 => k - 1 \in 0..j /\ k - 1 # j /\ g[k - 1] = f[k - 1]
        BY <1>0, <3>2
      <4>3. f[k] = IF k = 0 THEN first ELSE StepDown(f[k - 1], v, k)
        BY <2>1, <4>1
      <4> HIDE DEF g
      <4> QED
        BY <4>1, <4>2, <4>3
    <3> QED
      BY <3>1, <3>2
  <2>3. g = [k \in 0..j |-> g[k]]
    OBVIOUS
  <2>4. Upto(j, g)
    <3> HIDE DEF g
    <3> QED
      BY <2>2, <2>3
  <2> HIDE DEF Upto, g
  <2> QED
    BY <2>4
<1>3. PICK f : Upto(Top, f)
  <2> HIDE DEF P
  <2>1. PICK N \in Nat : N = Top
    BY <1>0
  <2>2. 0 \in P /\ \A k \in 1..N : k - 1 \in P => k \in P
    BY <1>1, <1>2, <2>1
  <2>3. \A k \in 0..N : k \in P
    BY <2>2, Induct
  <2>4. Top \in P
    BY <2>1, <2>3
  <2> QED
    BY <2>4 DEF P
<1> DEFINE Eqn(a) == a = [k \in 0..Top |->
                         IF k = 0 THEN [m EXCEPT !.at = root]
                         ELSE Descend(a[k - 1], v, Top + 1 - k)]
<1>4. Eqn(f)
  BY <1>3 DEF first, AtRoot, StepDown
<1>5. PICK a : a = CHOOSE x : Eqn(x)
  OBVIOUS
<1>6. Eqn(a)
  <2> HIDE DEF Eqn
  <2> QED
    BY <1>4, <1>5
<1>7. DescendAll(m, root, v) = a[Top]
  BY <1>5 DEF DescendAll
<1>8. a[0] = AtRoot(m, root)
  BY <1>0, <1>6 DEF AtRoot, StepDown
<1>9. ASSUME NEW k \in 1..Top PROVE a[k] = StepDown(a[k - 1], v, k)
  <2>1. k \in 0..Top /\ k # 0
    BY <1>0
  <2> QED
    BY <1>6, <2>1 DEF StepDown
<1> QED
  BY <1>7, <1>8, <1>9 DEF Descent

(* Pages are mapped one by one. *)
EachStep(e, root, w, F, perms, k) ==
  IF e.ok THEN Map(e, root, w[k], F[k], perms) ELSE e

EachRun(f, m, root, w, F, perms) ==
  /\ f[0] = m
  /\ \A k \in 1..Len(F) : f[k] = EachStep(f[k - 1], root, w, F, perms, k)
  /\ MapEach(m, root, w, F, perms) = f[Len(F)]

LEMMA MapEachSteps ==
  ASSUME NEW m, NEW root, NEW w, NEW F, NEW perms, Len(F) \in Nat
  PROVE  \E f : EachRun(f, m, root, w, F, perms)
<1> DEFINE first == m
           Upto(j, f) == f = [k \in 0..j |-> IF k = 0 THEN first
                                             ELSE EachStep(f[k - 1], root, w, F, perms, k)]
           P == {j \in 0..Len(F) : \E f : Upto(j, f)}
<1>0. Len(F) \in Nat
  OBVIOUS
<1> HIDE DEF first
<1>1. 0 \in P
  <2>1. Upto(0, [k \in 0..0 |-> first])
    OBVIOUS
  <2> HIDE DEF Upto
  <2> QED
    BY <1>0, <2>1
<1>2. ASSUME NEW j \in 1..Len(F), j - 1 \in P PROVE j \in P
  <2>1. PICK f : Upto(j - 1, f)
    BY <1>2
  <2> DEFINE g == [k \in 0..j |-> IF k = j THEN EachStep(f[j - 1], root, w, F, perms, j) ELSE f[k]]
  <2>2. \A k \in 0..j : g[k] = IF k = 0 THEN first ELSE EachStep(g[k - 1], root, w, F, perms, k)
    <3> SUFFICES ASSUME NEW k \in 0..j
                 PROVE  g[k] = IF k = 0 THEN first ELSE EachStep(g[k - 1], root, w, F, perms, k)
      OBVIOUS
    <3>1. CASE k = j
      <4>1. k # 0 /\ k - 1 \in 0..j /\ k - 1 # j
        BY <1>0, <3>1
      <4>2. g[k - 1] = f[j - 1] /\ g[k] = EachStep(f[j - 1], root, w, F, perms, j)
        BY <3>1, <4>1
      <4> HIDE DEF g
      <4> QED
        BY <3>1, <4>1, <4>2
    <3>2. CASE k # j
      <4>1. k \in 0..(j - 1) /\ g[k] = f[k]
        BY <1>0, <3>2
      <4>2. k # 0 => k - 1 \in 0..j /\ k - 1 # j /\ g[k - 1] = f[k - 1]
        BY <1>0, <3>2
      <4>3. f[k] = IF k = 0 THEN first ELSE EachStep(f[k - 1], root, w, F, perms, k)
        BY <2>1, <4>1
      <4> HIDE DEF g
      <4> QED
        BY <4>1, <4>2, <4>3
    <3> QED
      BY <3>1, <3>2
  <2>3. g = [k \in 0..j |-> g[k]]
    OBVIOUS
  <2>4. Upto(j, g)
    <3> HIDE DEF g
    <3> QED
      BY <2>2, <2>3
  <2> HIDE DEF Upto, g
  <2> QED
    BY <2>4
<1>3. PICK f : Upto(Len(F), f)
  <2> HIDE DEF P
  <2>1. PICK N \in Nat : N = Len(F)
    BY <1>0
  <2>2. 0 \in P /\ \A k \in 1..N : k - 1 \in P => k \in P
    BY <1>1, <1>2, <2>1
  <2>3. \A k \in 0..N : k \in P
    BY <2>2, Induct
  <2>4. Len(F) \in P
    BY <2>1, <2>3
  <2> QED
    BY <2>4 DEF P
<1> DEFINE Eqn(a) == a = [k \in 0..Len(F) |->
                         IF k = 0 THEN m
                         ELSE IF a[k - 1].ok THEN Map(a[k - 1], root, w[k], F[k], perms)
                         ELSE a[k - 1]]
<1>4. Eqn(f)
  BY <1>3 DEF first, EachStep
<1>5. PICK a : a = CHOOSE x : Eqn(x)
  OBVIOUS
<1>6. Eqn(a)
  <2> HIDE DEF Eqn
  <2> QED
    BY <1>4, <1>5
<1>7. MapEach(m, root, w, F, perms) = a[Len(F)]
  BY <1>5 DEF MapEach
<1>8. a[0] = m
  BY <1>0, <1>6 DEF EachStep
<1>9. ASSUME NEW k \in 1..Len(F) PROVE a[k] = EachStep(a[k - 1], root, w, F, perms, k)
  <2>1. k \in 0..Len(F) /\ k # 0
    BY <1>0
  <2> QED
    BY <1>6, <2>1 DEF EachStep
<1> QED
  BY <1>7, <1>8, <1>9 DEF EachRun

(* A segment is loaded page by page. *)
SegmentRun(f, m, root, len, s) ==
  /\ f[0] = m
  /\ \A k \in 1..Len(SegmentPages(s)) : f[k] = LoadPage(f[k - 1], root, len, s, SegmentPages(s)[k])
  /\ LoadSegment(m, root, len, s) = f[Len(SegmentPages(s))]

LEMMA LoadSegmentSteps ==
  ASSUME NEW m, NEW root, NEW len, NEW s, Len(SegmentPages(s)) \in Nat,
         s.kind # "outside", s.kind # "other"
  PROVE  \E f : SegmentRun(f, m, root, len, s)
<1> DEFINE first == m
           Upto(j, f) == f = [k \in 0..j |-> IF k = 0 THEN first
                                             ELSE LoadPage(f[k - 1], root, len, s, SegmentPages(s)[k])]
           P == {j \in 0..Len(SegmentPages(s)) : \E f : Upto(j, f)}
<1>0. Len(SegmentPages(s)) \in Nat
  OBVIOUS
<1> HIDE DEF first
<1>1. 0 \in P
  <2>1. Upto(0, [k \in 0..0 |-> first])
    OBVIOUS
  <2> HIDE DEF Upto
  <2> QED
    BY <1>0, <2>1
<1>2. ASSUME NEW j \in 1..Len(SegmentPages(s)), j - 1 \in P PROVE j \in P
  <2>1. PICK f : Upto(j - 1, f)
    BY <1>2
  <2> DEFINE g == [k \in 0..j |-> IF k = j THEN LoadPage(f[j - 1], root, len, s, SegmentPages(s)[j]) ELSE f[k]]
  <2>2. \A k \in 0..j : g[k] = IF k = 0 THEN first ELSE LoadPage(g[k - 1], root, len, s, SegmentPages(s)[k])
    <3> SUFFICES ASSUME NEW k \in 0..j
                 PROVE  g[k] = IF k = 0 THEN first ELSE LoadPage(g[k - 1], root, len, s, SegmentPages(s)[k])
      OBVIOUS
    <3>1. CASE k = j
      <4>1. k # 0 /\ k - 1 \in 0..j /\ k - 1 # j
        BY <1>0, <3>1
      <4>2. g[k - 1] = f[j - 1] /\ g[k] = LoadPage(f[j - 1], root, len, s, SegmentPages(s)[j])
        BY <3>1, <4>1
      <4> HIDE DEF g
      <4> QED
        BY <3>1, <4>1, <4>2
    <3>2. CASE k # j
      <4>1. k \in 0..(j - 1) /\ g[k] = f[k]
        BY <1>0, <3>2
      <4>2. k # 0 => k - 1 \in 0..j /\ k - 1 # j /\ g[k - 1] = f[k - 1]
        BY <1>0, <3>2
      <4>3. f[k] = IF k = 0 THEN first ELSE LoadPage(f[k - 1], root, len, s, SegmentPages(s)[k])
        BY <2>1, <4>1
      <4> HIDE DEF g
      <4> QED
        BY <4>1, <4>2, <4>3
    <3> QED
      BY <3>1, <3>2
  <2>3. g = [k \in 0..j |-> g[k]]
    OBVIOUS
  <2>4. Upto(j, g)
    <3> HIDE DEF g
    <3> QED
      BY <2>2, <2>3
  <2> HIDE DEF Upto, g
  <2> QED
    BY <2>4
<1>3. PICK f : Upto(Len(SegmentPages(s)), f)
  <2> HIDE DEF P
  <2>1. PICK N \in Nat : N = Len(SegmentPages(s))
    BY <1>0
  <2>2. 0 \in P /\ \A k \in 1..N : k - 1 \in P => k \in P
    BY <1>1, <1>2, <2>1
  <2>3. \A k \in 0..N : k \in P
    BY <2>2, Induct
  <2>4. Len(SegmentPages(s)) \in P
    BY <2>1, <2>3
  <2> QED
    BY <2>4 DEF P
<1> DEFINE Eqn(a) == a = [k \in 0..Len(SegmentPages(s)) |->
                         IF k = 0 THEN m
                         ELSE LoadPage(a[k - 1], root, len, s, SegmentPages(s)[k])]
<1>4. Eqn(f)
  BY <1>3 DEF first
<1>5. PICK a : a = CHOOSE x : Eqn(x)
  OBVIOUS
<1>6. Eqn(a)
  <2> HIDE DEF Eqn
  <2> QED
    BY <1>4, <1>5
<1>7. LoadSegment(m, root, len, s) = a[Len(SegmentPages(s))]
  BY <1>5 DEF LoadSegment
<1>8. a[0] = m
  BY <1>0, <1>6
<1>9. ASSUME NEW k \in 1..Len(SegmentPages(s)) PROVE a[k] = LoadPage(a[k - 1], root, len, s, SegmentPages(s)[k])
  <2>1. k \in 0..Len(SegmentPages(s)) /\ k # 0
    BY <1>0
  <2> QED
    BY <1>6, <2>1
<1> QED
  BY <1>7, <1>8, <1>9 DEF SegmentRun

(* An image is loaded segment by segment. *)
ElfStart(m) == IF machine.image.header THEN m ELSE Failed(m)
ElfStep(e, root, k) ==
  IF e.ok THEN LoadSegment(e, root, machine.image.len, machine.image.segments[k]) ELSE e

ElfRun(f, m, root) ==
  /\ f[0] = ElfStart(m)
  /\ \A k \in 1..Len(machine.image.segments) : f[k] = ElfStep(f[k - 1], root, k)
  /\ LoadElf(m, root) = f[Len(machine.image.segments)]

LEMMA LoadElfSteps ==
  ASSUME NEW m, NEW root, Len(machine.image.segments) \in Nat
  PROVE  \E f : ElfRun(f, m, root)
<1> DEFINE first == ElfStart(m)
           Upto(j, f) == f = [k \in 0..j |-> IF k = 0 THEN first
                                             ELSE ElfStep(f[k - 1], root, k)]
           P == {j \in 0..Len(machine.image.segments) : \E f : Upto(j, f)}
<1>0. Len(machine.image.segments) \in Nat
  OBVIOUS
<1> HIDE DEF first
<1>1. 0 \in P
  <2>1. Upto(0, [k \in 0..0 |-> first])
    OBVIOUS
  <2> HIDE DEF Upto
  <2> QED
    BY <1>0, <2>1
<1>2. ASSUME NEW j \in 1..Len(machine.image.segments), j - 1 \in P PROVE j \in P
  <2>1. PICK f : Upto(j - 1, f)
    BY <1>2
  <2> DEFINE g == [k \in 0..j |-> IF k = j THEN ElfStep(f[j - 1], root, j) ELSE f[k]]
  <2>2. \A k \in 0..j : g[k] = IF k = 0 THEN first ELSE ElfStep(g[k - 1], root, k)
    <3> SUFFICES ASSUME NEW k \in 0..j
                 PROVE  g[k] = IF k = 0 THEN first ELSE ElfStep(g[k - 1], root, k)
      OBVIOUS
    <3>1. CASE k = j
      <4>1. k # 0 /\ k - 1 \in 0..j /\ k - 1 # j
        BY <1>0, <3>1
      <4>2. g[k - 1] = f[j - 1] /\ g[k] = ElfStep(f[j - 1], root, j)
        BY <3>1, <4>1
      <4> HIDE DEF g
      <4> QED
        BY <3>1, <4>1, <4>2
    <3>2. CASE k # j
      <4>1. k \in 0..(j - 1) /\ g[k] = f[k]
        BY <1>0, <3>2
      <4>2. k # 0 => k - 1 \in 0..j /\ k - 1 # j /\ g[k - 1] = f[k - 1]
        BY <1>0, <3>2
      <4>3. f[k] = IF k = 0 THEN first ELSE ElfStep(f[k - 1], root, k)
        BY <2>1, <4>1
      <4> HIDE DEF g
      <4> QED
        BY <4>1, <4>2, <4>3
    <3> QED
      BY <3>1, <3>2
  <2>3. g = [k \in 0..j |-> g[k]]
    OBVIOUS
  <2>4. Upto(j, g)
    <3> HIDE DEF g
    <3> QED
      BY <2>2, <2>3
  <2> HIDE DEF Upto, g
  <2> QED
    BY <2>4
<1>3. PICK f : Upto(Len(machine.image.segments), f)
  <2> HIDE DEF P
  <2>1. PICK N \in Nat : N = Len(machine.image.segments)
    BY <1>0
  <2>2. 0 \in P /\ \A k \in 1..N : k - 1 \in P => k \in P
    BY <1>1, <1>2, <2>1
  <2>3. \A k \in 0..N : k \in P
    BY <2>2, Induct
  <2>4. Len(machine.image.segments) \in P
    BY <2>1, <2>3
  <2> QED
    BY <2>4 DEF P
<1> DEFINE Eqn(a) == a = [k \in 0..Len(machine.image.segments) |->
                         IF k = 0 THEN IF machine.image.header THEN m ELSE Failed(m)
                         ELSE IF a[k - 1].ok
                              THEN LoadSegment(a[k - 1], root, machine.image.len,
                                               machine.image.segments[k])
                              ELSE a[k - 1]]
<1>4. Eqn(f)
  BY <1>3 DEF first, ElfStart, ElfStep
<1>5. PICK a : a = CHOOSE x : Eqn(x)
  OBVIOUS
<1>6. Eqn(a)
  <2> HIDE DEF Eqn
  <2> QED
    BY <1>4, <1>5
<1>7. LoadElf(m, root) = a[Len(machine.image.segments)]
  BY <1>5 DEF LoadElf
<1>8. a[0] = ElfStart(m)
  BY <1>0, <1>6 DEF ElfStart, ElfStep
<1>9. ASSUME NEW k \in 1..Len(machine.image.segments) PROVE a[k] = ElfStep(a[k - 1], root, k)
  <2>1. k \in 0..Len(machine.image.segments) /\ k # 0
    BY <1>0
  <2> QED
    BY <1>6, <2>1 DEF ElfStart, ElfStep
<1> QED
  BY <1>7, <1>8, <1>9 DEF ElfRun

(* The stack is mapped page by page. *)
StackRun(f, m, root) ==
  /\ f[0] = m
  /\ \A k \in 1..machine.stackPages : f[k] = LoadStackPage(f[k - 1], root, StackPages[k])
  /\ LoadStack(m, root) = f[machine.stackPages]

LEMMA LoadStackSteps ==
  ASSUME NEW m, NEW root, machine.stackPages \in Nat
  PROVE  \E f : StackRun(f, m, root)
<1> DEFINE first == m
           Upto(j, f) == f = [k \in 0..j |-> IF k = 0 THEN first
                                             ELSE LoadStackPage(f[k - 1], root, StackPages[k])]
           P == {j \in 0..machine.stackPages : \E f : Upto(j, f)}
<1>0. machine.stackPages \in Nat
  OBVIOUS
<1> HIDE DEF first
<1>1. 0 \in P
  <2>1. Upto(0, [k \in 0..0 |-> first])
    OBVIOUS
  <2> HIDE DEF Upto
  <2> QED
    BY <1>0, <2>1
<1>2. ASSUME NEW j \in 1..machine.stackPages, j - 1 \in P PROVE j \in P
  <2>1. PICK f : Upto(j - 1, f)
    BY <1>2
  <2> DEFINE g == [k \in 0..j |-> IF k = j THEN LoadStackPage(f[j - 1], root, StackPages[j]) ELSE f[k]]
  <2>2. \A k \in 0..j : g[k] = IF k = 0 THEN first ELSE LoadStackPage(g[k - 1], root, StackPages[k])
    <3> SUFFICES ASSUME NEW k \in 0..j
                 PROVE  g[k] = IF k = 0 THEN first ELSE LoadStackPage(g[k - 1], root, StackPages[k])
      OBVIOUS
    <3>1. CASE k = j
      <4>1. k # 0 /\ k - 1 \in 0..j /\ k - 1 # j
        BY <1>0, <3>1
      <4>2. g[k - 1] = f[j - 1] /\ g[k] = LoadStackPage(f[j - 1], root, StackPages[j])
        BY <3>1, <4>1
      <4> HIDE DEF g
      <4> QED
        BY <3>1, <4>1, <4>2
    <3>2. CASE k # j
      <4>1. k \in 0..(j - 1) /\ g[k] = f[k]
        BY <1>0, <3>2
      <4>2. k # 0 => k - 1 \in 0..j /\ k - 1 # j /\ g[k - 1] = f[k - 1]
        BY <1>0, <3>2
      <4>3. f[k] = IF k = 0 THEN first ELSE LoadStackPage(f[k - 1], root, StackPages[k])
        BY <2>1, <4>1
      <4> HIDE DEF g
      <4> QED
        BY <4>1, <4>2, <4>3
    <3> QED
      BY <3>1, <3>2
  <2>3. g = [k \in 0..j |-> g[k]]
    OBVIOUS
  <2>4. Upto(j, g)
    <3> HIDE DEF g
    <3> QED
      BY <2>2, <2>3
  <2> HIDE DEF Upto, g
  <2> QED
    BY <2>4
<1>3. PICK f : Upto(machine.stackPages, f)
  <2> HIDE DEF P
  <2>1. PICK N \in Nat : N = machine.stackPages
    BY <1>0
  <2>2. 0 \in P /\ \A k \in 1..N : k - 1 \in P => k \in P
    BY <1>1, <1>2, <2>1
  <2>3. \A k \in 0..N : k \in P
    BY <2>2, Induct
  <2>4. machine.stackPages \in P
    BY <2>1, <2>3
  <2> QED
    BY <2>4 DEF P
<1> DEFINE Eqn(a) == a = [k \in 0..machine.stackPages |->
                         IF k = 0 THEN m
                         ELSE LoadStackPage(a[k - 1], root, StackPages[k])]
<1>4. Eqn(f)
  BY <1>3 DEF first
<1>5. PICK a : a = CHOOSE x : Eqn(x)
  OBVIOUS
<1>6. Eqn(a)
  <2> HIDE DEF Eqn
  <2> QED
    BY <1>4, <1>5
<1>7. LoadStack(m, root) = a[machine.stackPages]
  BY <1>5 DEF LoadStack
<1>8. a[0] = m
  BY <1>0, <1>6
<1>9. ASSUME NEW k \in 1..machine.stackPages PROVE a[k] = LoadStackPage(a[k - 1], root, StackPages[k])
  <2>1. k \in 0..machine.stackPages /\ k # 0
    BY <1>0
  <2> QED
    BY <1>6, <2>1
<1> QED
  BY <1>7, <1>8, <1>9 DEF StackRun

(* A loop over a table. *)
Pick(e, k, T) == IF k \in T THEN Append(e, k) ELSE e

PickRun(f, T, n) ==
  /\ f[0] = << >>
  /\ \A k \in 1..n : f[k] = Pick(f[k - 1], k, T)
  /\ Ascending(T, n) = f[n]

LEMMA AscendingSteps ==
  ASSUME NEW T, NEW n \in Nat
  PROVE  \E f : PickRun(f, T, n)
<1> DEFINE first == << >>
           Upto(j, f) == f = [k \in 0..j |-> IF k = 0 THEN first
                                             ELSE Pick(f[k - 1], k, T)]
           P == {j \in 0..n : \E f : Upto(j, f)}
<1>0. n \in Nat
  OBVIOUS
<1> HIDE DEF first
<1>1. 0 \in P
  <2>1. Upto(0, [k \in 0..0 |-> first])
    OBVIOUS
  <2> HIDE DEF Upto
  <2> QED
    BY <1>0, <2>1
<1>2. ASSUME NEW j \in 1..n, j - 1 \in P PROVE j \in P
  <2>1. PICK f : Upto(j - 1, f)
    BY <1>2
  <2> DEFINE g == [k \in 0..j |-> IF k = j THEN Pick(f[j - 1], j, T) ELSE f[k]]
  <2>2. \A k \in 0..j : g[k] = IF k = 0 THEN first ELSE Pick(g[k - 1], k, T)
    <3> SUFFICES ASSUME NEW k \in 0..j
                 PROVE  g[k] = IF k = 0 THEN first ELSE Pick(g[k - 1], k, T)
      OBVIOUS
    <3>1. CASE k = j
      <4>1. k # 0 /\ k - 1 \in 0..j /\ k - 1 # j
        BY <1>0, <3>1
      <4>2. g[k - 1] = f[j - 1] /\ g[k] = Pick(f[j - 1], j, T)
        BY <3>1, <4>1
      <4> HIDE DEF g
      <4> QED
        BY <3>1, <4>1, <4>2
    <3>2. CASE k # j
      <4>1. k \in 0..(j - 1) /\ g[k] = f[k]
        BY <1>0, <3>2
      <4>2. k # 0 => k - 1 \in 0..j /\ k - 1 # j /\ g[k - 1] = f[k - 1]
        BY <1>0, <3>2
      <4>3. f[k] = IF k = 0 THEN first ELSE Pick(f[k - 1], k, T)
        BY <2>1, <4>1
      <4> HIDE DEF g
      <4> QED
        BY <4>1, <4>2, <4>3
    <3> QED
      BY <3>1, <3>2
  <2>3. g = [k \in 0..j |-> g[k]]
    OBVIOUS
  <2>4. Upto(j, g)
    <3> HIDE DEF g
    <3> QED
      BY <2>2, <2>3
  <2> HIDE DEF Upto, g
  <2> QED
    BY <2>4
<1>3. PICK f : Upto(n, f)
  <2> HIDE DEF P
  <2>1. PICK N \in Nat : N = n
    BY <1>0
  <2>2. 0 \in P /\ \A k \in 1..N : k - 1 \in P => k \in P
    BY <1>1, <1>2, <2>1
  <2>3. \A k \in 0..N : k \in P
    BY <2>2, Induct
  <2>4. n \in P
    BY <2>1, <2>3
  <2> QED
    BY <2>4 DEF P
<1> DEFINE Eqn(a) == a = [k \in 0..n |->
                         IF k = 0 THEN << >>
                         ELSE IF k \in T THEN Append(a[k - 1], k) ELSE a[k - 1]]
<1>4. Eqn(f)
  BY <1>3 DEF first, Pick
<1>5. PICK a : a = CHOOSE x : Eqn(x)
  OBVIOUS
<1>6. Eqn(a)
  <2> HIDE DEF Eqn
  <2> QED
    BY <1>4, <1>5
<1>7. Ascending(T, n) = a[n]
  BY <1>5 DEF Ascending
<1>8. a[0] = << >>
  BY <1>0, <1>6 DEF Pick
<1>9. ASSUME NEW k \in 1..n PROVE a[k] = Pick(a[k - 1], k, T)
  <2>1. k \in 0..n /\ k # 0
    BY <1>0
  <2> QED
    BY <1>6, <2>1 DEF Pick
<1> QED
  BY <1>7, <1>8, <1>9 DEF PickRun

-----------------------------------------------------------------------------
(* What `map` and the windows do to a memory with a tree.                  *)

LEMMA HeldAtIs ==
  ASSUME NEW m, NEW root, NEW X, NEW v, NEW k, HeldAt(m, root, X, v, k)
  PROVE  Held(m, root, X)
BY DEF HeldAt, Held

LEMMA DescendAllIs ==
  ASSUME MachineOk(machine), NEW m, NEW old, NEW pool, MemOk(m, old, pool),
         NEW root, NEW X, Held(m, root, X), NEW v \in machine.user,
         NEW n, n = DescendAll(m, root, v)
  PROVE  /\ MemOk(n, old, pool) /\ Held(n, root, X)
         /\ SameShared(m, n, root) /\ SameLeaves(m, n, root)
         /\ n.ok => m.ok /\ HeldAt(n, root, X, v, Top)
<1>0. Top \in Nat \ {0}
  BY MachineIs
<1>0a. PICK f : Descent(f, m, root, v)
  BY DescendAllSteps
<1>1. /\ f[0] = AtRoot(m, root)
      /\ \A k \in 1..Top : f[k] = StepDown(f[k - 1], v, k)
      /\ DescendAll(m, root, v) = f[Top]
  BY <1>0a DEF Descent
<1> DEFINE Good(e, k) == /\ MemOk(e, old, pool) /\ Held(e, root, X)
                         /\ SameShared(m, e, root) /\ SameLeaves(m, e, root)
                         /\ e.ok => m.ok /\ HeldAt(e, root, X, v, k)
           P == {k \in 0..Top : Good(f[k], k)}
<1>2. 0 \in P
  <2>1. PICK e : e = f[0]
    OBVIOUS
  <2>2. /\ e.pt = m.pt /\ e.free = m.free /\ e.frames = m.frames /\ e.ok = m.ok
        /\ e.at = root /\ IsMem(e)
    BY <1>1, <2>1 DEF MemOk, IsMem, AtRoot
  <2>3. MemOk(e, old, pool)
    BY <2>2 DEF MemOk
  <2>4. PICK T, d, r : TreeOf(m, root, X, T, d, r)
    BY DEF Held
  <2>5. TreeOf(e, root, X, T, d, r) /\ SameShared(m, e, root) /\ SameLeaves(m, e, root)
    BY <2>2, <2>4, TreeOfLocal
  <2>6. On(e.at, v, 0, T, d, r)
    BY <2>2, <2>5, SamePathIs DEF On, TreeOf, Tree
  <2>7. Rooted(e, root)
    BY <2>2 DEF Held, Rooted
  <2>8. Good(e, 0)
    BY <2>2, <2>3, <2>5, <2>6, <2>7 DEF Held, HeldAt
  <2> HIDE DEF Good
  <2> QED
    BY <1>0, <2>1, <2>8
<1>3. ASSUME NEW k \in 1..Top, k - 1 \in P PROVE k \in P
  <2>1. PICK j, e, n2 : j \in 0..(Top - 1) /\ k = j + 1 /\ j = k - 1 /\ e = f[j] /\ n2 = f[k]
    BY <1>0
  <2>2. Good(e, j)
    BY <1>3, <2>1
  <2>3. n2 = Descend(e, v, Top - j)
    <3>1. f[k] = Descend(f[k - 1], v, Top + 1 - k)
      BY <1>1 DEF StepDown
    <3>2. Top + 1 - k = Top - j
      BY <1>0, <2>1
    <3> QED
      BY <2>1, <3>1, <3>2
  <2>4. CASE e.ok
    <3>1. HeldAt(e, root, X, v, j) /\ m.ok
      BY <2>2, <2>4
    <3>2. /\ MemOk(n2, old, pool) /\ Held(n2, root, X)
          /\ SameShared(e, n2, root) /\ SameLeaves(e, n2, root)
          /\ n2.ok => HeldAt(n2, root, X, v, j + 1)
      <4>1. PICK level : level = Top - j /\ n2 = Descend(e, v, level)
        BY <2>3
      <4>2. MemOk(e, old, pool)
        BY <2>2
      <4> HIDE DEF Good
      <4> QED
        BY <2>1, <2>4, <3>1, <4>1, <4>2, DescendIs
    <3>3. SameShared(m, n2, root) /\ SameLeaves(m, n2, root)
      BY <2>2, <3>2, SameIs
    <3>4. Good(n2, k)
      BY <2>1, <3>1, <3>2, <3>3
    <3> HIDE DEF Good
    <3> QED
      BY <2>1, <3>4
  <2>5. CASE ~e.ok
    <3>1. n2 = e
      BY <2>3, <2>5 DEF Descend
    <3>2. Good(n2, k)
      BY <2>2, <2>5, <3>1
    <3> HIDE DEF Good
    <3> QED
      BY <2>1, <3>2
  <2> QED
    BY <2>4, <2>5
<1>4. \A k \in 0..Top : k \in P
  <2> HIDE DEF P
  <2> QED
    BY <1>0, <1>2, <1>3, Induct
<1>5. Good(f[Top], Top)
  BY <1>0, <1>4
<1> QED
  BY <1>1, <1>5

(* A page gets its leaf, or nothing shows. *)
Leaves(m, root) == [w \in machine.user |-> LeafOf(m.pt, root, w)]

LEMMA LeavesIs ==
  ASSUME NEW m, NEW n, NEW root
  PROVE  SameLeaves(m, n, root) <=> Leaves(n, root) = Leaves(m, root)
BY DEF SameLeaves, Leaves

MapEffect(m, n, root, v, e) ==
  IF n.ok
  THEN /\ m.ok /\ Leaves(m, root)[v] = EMPTY
       /\ Leaves(n, root) = [Leaves(m, root) EXCEPT ![v] = e]
  ELSE Leaves(n, root) = Leaves(m, root)

LEMMA MapIs ==
  ASSUME MachineOk(machine), NEW m, NEW old, NEW pool, MemOk(m, old, pool),
         NEW root, NEW X, Held(m, root, X), NEW v \in machine.user,
         NEW f, NEW perms, NEW n, n = Map(m, root, v, f, perms)
  PROVE  /\ MemOk(n, old, pool) /\ Held(n, root, X) /\ SameShared(m, n, root)
         /\ MapEffect(m, n, root, v, Leaf(f, perms))
<1>0. Top \in Nat \ {0} /\ Turn(v, Top) \in Slots /\ machine.shared \subseteq Slots
  BY MachineIs
<1>1. CASE n = Failed(m)
  <2>1. /\ n.pt = m.pt /\ n.free = m.free /\ n.frames = m.frames /\ n.ok = FALSE
        /\ IsMem(n)
    BY <1>1, FailedIs DEF MemOk
  <2>2. MemOk(n, old, pool)
    BY <2>1 DEF MemOk
  <2>3. Held(n, root, X) /\ SameShared(m, n, root) /\ SameLeaves(m, n, root)
    BY <2>1, HeldLocal
  <2> QED
    BY <2>1, <2>2, <2>3, LeavesIs DEF MapEffect
<1>2. CASE n = SetLeaf(DescendAll(m, root, v), v, f, perms)
  <2>1. PICK a : a = DescendAll(m, root, v)
    OBVIOUS
  <2>2. /\ MemOk(a, old, pool) /\ Held(a, root, X)
        /\ SameShared(m, a, root) /\ SameLeaves(m, a, root)
        /\ a.ok => m.ok /\ HeldAt(a, root, X, v, Top)
    BY <2>1, DescendAllIs
  <2>3. CASE ~a.ok
    <3>1. n = a
      BY <1>2, <2>1, <2>3 DEF SetLeaf
    <3> QED
      BY <2>2, <2>3, <3>1, LeavesIs DEF MapEffect
  <2>4. CASE a.ok /\ a.pt[a.at][Index(v, 0)].kind # "none"
    <3>1. n = Failed(a)
      BY <1>2, <2>1, <2>4 DEF SetLeaf
    <3>2. /\ n.pt = a.pt /\ n.free = a.free /\ n.frames = a.frames /\ n.ok = FALSE
          /\ IsMem(n)
      BY <2>2, <3>1, FailedIs DEF MemOk
    <3>3. MemOk(n, old, pool)
      BY <2>2, <3>2 DEF MemOk
    <3>4. Held(n, root, X) /\ SameShared(a, n, root) /\ SameLeaves(a, n, root)
      BY <2>2, <3>2, HeldLocal
    <3>5. SameShared(m, n, root) /\ SameLeaves(m, n, root)
      BY <2>2, <3>4, SameIs
    <3> QED
      BY <3>2, <3>3, <3>4, <3>5, LeavesIs DEF MapEffect
  <2>5. CASE a.ok /\ ~(a.pt[a.at][Index(v, 0)].kind # "none")
    <3>0. PICK t, i : t = a.at /\ i = Turn(v, Top) /\ i = Index(v, 0)
      BY <1>0 DEF Turn
    <3>1. n = [a EXCEPT !.pt[t][i] = Leaf(f, perms)]
      BY <1>2, <2>1, <2>5, <3>0 DEF SetLeaf
    <3>2. PICK T, d, r : TreeOf(a, root, X, T, d, r) /\ On(t, v, Top, T, d, r)
      BY <2>2, <2>5, <3>0 DEF HeldAt
    <3>3. /\ Tree(a.pt, root, T, d, r) /\ T \cap X = {} /\ Range(a.frames) = T \cup X
          /\ t \in T
      BY <3>2 DEF TreeOf, On
    <3>4. /\ IsMem(a) /\ IsTables(a.pt) /\ a.frames \in Seq(General)
          /\ Range(a.frames) \cup a.free = pool
      BY <2>2 DEF MemOk, IsMem
    <3>5. Range(a.frames) \subseteq General
      BY <3>4 DEF Range
    <3>6. T \subseteq AllFrames /\ t \in AllFrames /\ t \in pool
      BY <3>3, <3>4, <3>5, FramesAre
    <3>7. /\ n.pt = Entered(a.pt, t, i, Leaf(f, perms)) /\ n.free = a.free
          /\ n.frames = a.frames /\ n.ok = a.ok
          /\ n = [pt |-> n.pt, bytes |-> n.bytes, free |-> n.free, frames |-> n.frames,
                  got |-> n.got, at |-> n.at, ok |-> n.ok]
      BY <3>1, <3>4 DEF IsMem, Entered
    <3>8. /\ IsTables(n.pt) /\ n.pt[t][i] = Leaf(f, perms)
          /\ \A g \in AllFrames \ {t} : n.pt[g] = a.pt[g]
          /\ \A j \in Slots : j # i => n.pt[t][j] = a.pt[t][j]
      BY <1>0, <3>0, <3>4, <3>6, <3>7, EntrySet
    <3>9. IsMem(n)
      BY <3>4, <3>7, <3>8 DEF IsMem
    <3>10. MemOk(n, old, pool)
      <4>1. \A g \in AllFrames \ pool : n.pt[g] = old[g]
        BY <2>2, <3>6, <3>8 DEF MemOk
      <4> QED
        BY <2>2, <3>7, <3>9, <4>1 DEF MemOk
    <3>11. PutLeaf(a.pt, n.pt, t, i, Leaf(f, perms), T)
      BY <3>6, <3>8 DEF PutLeaf
    <3>12. PICK tab, tab2, e : tab = a.pt /\ tab2 = n.pt /\ e = Leaf(f, perms)
      OBVIOUS
    <3>13. e.kind = "page"
      BY <3>12, EntryKinds
    <3>14. PutLeaf(tab, tab2, t, Turn(v, Top), e, T) /\ Tree(tab, root, T, d, r)
      BY <3>0, <3>3, <3>11, <3>12
    <3>15. /\ Tree(tab2, root, T, d, r)
           /\ \A j \in machine.shared : tab2[root][j] = tab[root][j]
           /\ \A w \in machine.user :
                LeafOf(tab2, root, w) = IF w = v THEN e ELSE LeafOf(tab, root, w)
      BY <3>2, <3>13, <3>14, PutLeafTree
    <3>16. LeafOf(tab, root, v) = EMPTY
      <4>1. LeafOf(tab, root, v) = tab[t][Turn(v, Top)]
        BY <3>2, <3>14, LeafValue
      <4>2. LeafOf(tab, root, v) = EMPTY \/ LeafOf(tab, root, v).kind = "page"
        BY <3>14, LeafValue
      <4> QED
        BY <2>5, <3>0, <3>12, <4>1, <4>2
    <3>17. Held(n, root, X)
      <4>1. Rooted(n, root)
        BY <2>2, <3>7 DEF Held, Rooted
      <4>2. TreeOf(n, root, X, T, d, r)
        BY <3>3, <3>7, <3>12, <3>15 DEF TreeOf
      <4> QED
        BY <4>1, <4>2 DEF Held
    <3>18. SameShared(m, n, root)
      <4>1. SameShared(a, n, root)
        BY <3>12, <3>15 DEF SameShared
      <4> QED
        BY <2>2, <4>1, SameIs
    <3>19. /\ Leaves(a, root) = Leaves(m, root) /\ Leaves(m, root)[v] = EMPTY
           /\ Leaves(n, root) = [Leaves(a, root) EXCEPT ![v] = e]
      <4>1. Leaves(a, root) = Leaves(m, root)
        BY <2>2, LeavesIs
      <4>2. Leaves(a, root)[v] = EMPTY
        BY <3>12, <3>16 DEF Leaves
      <4>3. Leaves(n, root) = [Leaves(a, root) EXCEPT ![v] = e]
        BY <3>12, <3>15 DEF Leaves
      <4> QED
        BY <4>1, <4>2, <4>3
    <3>20. MapEffect(m, n, root, v, Leaf(f, perms))
      BY <2>2, <2>5, <3>7, <3>12, <3>19 DEF MapEffect
    <3> QED
      BY <3>10, <3>17, <3>18, <3>20
  <2> QED
    BY <2>3, <2>4, <2>5
<1> QED
  BY <1>1, <1>2 DEF Map

(* Pages of a window lose their leaves. *)
LEMMA ClearedIs ==
  ASSUME MachineOk(machine), NEW m, NEW old, NEW pool, MemOk(m, old, pool),
         NEW root, NEW X, Held(m, root, X), NEW w, Range(w) \subseteq machine.user,
         NEW n, n = Cleared(m, root, w)
  PROVE  /\ MemOk(n, old, pool) /\ Held(n, root, X) /\ SameShared(m, n, root)
         /\ n.ok = m.ok
         /\ \A v \in machine.user : Leaves(n, root)[v] = IF v \in Range(w) THEN EMPTY
                                                        ELSE Leaves(m, root)[v]
<1>1. PICK T, d, r : TreeOf(m, root, X, T, d, r)
  BY DEF Held
<1>2. /\ Tree(m.pt, root, T, d, r) /\ T \cap X = {} /\ Range(m.frames) = T \cup X
  BY <1>1 DEF TreeOf
<1>3. /\ IsMem(m) /\ IsTables(m.pt) /\ m.frames \in Seq(General)
      /\ Range(m.frames) \cup m.free = pool
  BY DEF MemOk, IsMem
<1>4. Range(m.frames) \subseteq General
  BY <1>3 DEF Range
<1>5. T \subseteq AllFrames /\ T \subseteq pool
  BY <1>2, <1>3, <1>4, FramesAre
<1>6. PICK tab, tab2, V : tab = m.pt /\ V = Range(w) /\ tab2 = UnmapAll(tab, root, V)
  OBVIOUS
<1>7. /\ n.pt = tab2 /\ n.free = m.free /\ n.frames = m.frames /\ n.ok = m.ok
      /\ n = [pt |-> n.pt, bytes |-> n.bytes, free |-> n.free, frames |-> n.frames,
              got |-> n.got, at |-> n.at, ok |-> n.ok]
  BY <1>3, <1>6 DEF Cleared, IsMem
<1>8. /\ IsTables(tab2) /\ Tree(tab2, root, T, d, r)
      /\ \A f \in AllFrames \ T : tab2[f] = tab[f]
      /\ \A i \in machine.shared : tab2[root][i] = tab[root][i]
      /\ \A v \in machine.user :
           LeafOf(tab2, root, v) = IF v \in V THEN EMPTY ELSE LeafOf(tab, root, v)
  <2>1. IsTables(tab) /\ T \in SUBSET AllFrames /\ Tree(tab, root, T, d, r)
        /\ V \in SUBSET machine.user
    BY <1>2, <1>3, <1>5, <1>6
  <2>2. IsTables(tab2) /\ Tree(tab2, root, T, d, r)
    BY <1>6, <2>1, UnmapTree
  <2>3. KeptOutside(tab, tab2, T)
    BY <1>6, <2>1, UnmapTree
  <2>4. SharedKept(tab, tab2, root)
    BY <1>6, <2>1, UnmapTree
  <2>5. \A v \in machine.user :
           LeafOf(tab2, root, v) = IF v \in V THEN EMPTY ELSE LeafOf(tab, root, v)
    BY <1>6, <2>1, UnmapTree
  <2> QED
    BY <2>2, <2>3, <2>4, <2>5, MachineIs DEF KeptOutside, SharedKept
<1>9. IsMem(n)
  BY <1>3, <1>7, <1>8 DEF IsMem
<1>10. MemOk(n, old, pool)
  <2>1. \A g \in AllFrames \ pool : n.pt[g] = old[g]
    BY <1>5, <1>6, <1>7, <1>8 DEF MemOk
  <2> QED
    BY <1>7, <1>9, <2>1 DEF MemOk
<1>11. Held(n, root, X)
  <2>1. Rooted(n, root)
    BY <1>7 DEF Held, Rooted
  <2>2. TreeOf(n, root, X, T, d, r)
    BY <1>2, <1>7, <1>8 DEF TreeOf
  <2> QED
    BY <2>1, <2>2 DEF Held
<1>12. SameShared(m, n, root)
  BY <1>6, <1>7, <1>8 DEF SameShared
<1>13. \A v \in machine.user : Leaves(n, root)[v] = IF v \in Range(w) THEN EMPTY
                                                   ELSE Leaves(m, root)[v]
  BY <1>6, <1>7, <1>8 DEF Leaves
<1> QED
  BY <1>7, <1>10, <1>11, <1>12, <1>13

-----------------------------------------------------------------------------
(* Windows.                                                                *)

IsWindow(w, n) == /\ n \in Nat /\ w \in [1..n -> machine.user]
                  /\ \A i, j \in 1..n : w[i] = w[j] => i = j

LEMMA WindowRange ==
  ASSUME NEW w, NEW n, IsWindow(w, n)
  PROVE  /\ Range(w) \subseteq machine.user
         /\ \A k \in 1..n : w[k] \in Range(w) /\ w[k] \in machine.user
         /\ \A v \in Range(w) : \E k \in 1..n : w[k] = v
BY DEF IsWindow, Range

(* The first j pages of the window have been mapped; the rest is as it was. *)
Fitted(m, o, root, w, n, F, perms, j) ==
  /\ \A v \in machine.user : v \notin Range(w) => Leaves(o, root)[v] = Leaves(m, root)[v]
  /\ o.ok => /\ m.ok
             /\ \A k \in 1..n : Leaves(o, root)[w[k]]
                                  = IF k <= j THEN Leaf(F[k], perms)
                                    ELSE Leaves(m, root)[w[k]]

LEMMA MapEachIs ==
  ASSUME MachineOk(machine), NEW m, NEW old, NEW pool, MemOk(m, old, pool),
         NEW root, NEW X, Held(m, root, X), NEW w, NEW n, IsWindow(w, n),
         NEW F, Len(F) \in 0..n, NEW perms, NEW o, o = MapEach(m, root, w, F, perms)
  PROVE  /\ MemOk(o, old, pool) /\ Held(o, root, X) /\ SameShared(m, o, root)
         /\ Fitted(m, o, root, w, n, F, perms, Len(F))
<1>0. Len(F) \in Nat /\ n \in Nat
  BY DEF IsWindow
<1>1. PICK f : EachRun(f, m, root, w, F, perms)
  BY <1>0, MapEachSteps
<1>2. /\ f[0] = m /\ o = f[Len(F)]
      /\ \A k \in 1..Len(F) : f[k] = EachStep(f[k - 1], root, w, F, perms, k)
  BY <1>1 DEF EachRun
<1> DEFINE Good(e, j) == /\ MemOk(e, old, pool) /\ Held(e, root, X)
                         /\ SameShared(m, e, root)
                         /\ Fitted(m, e, root, w, n, F, perms, j)
           P == {j \in 0..Len(F) : Good(f[j], j)}
<1>3. 0 \in P
  <2>1. Fitted(m, m, root, w, n, F, perms, 0)
    BY <1>0 DEF Fitted
  <2>2. Good(m, 0)
    BY <2>1, SameIs
  <2> HIDE DEF Good
  <2> QED
    BY <1>0, <1>2, <2>2
<1>4. ASSUME NEW k \in 1..Len(F), k - 1 \in P PROVE k \in P
  <2>1. PICK j, e, e2 : j \in 0..n /\ j = k - 1 /\ k = j + 1 /\ e = f[j] /\ e2 = f[k]
    BY <1>0
  <2>2. Good(e, j)
    BY <1>4, <2>1
  <2>3. e2 = IF e.ok THEN Map(e, root, w[k], F[k], perms) ELSE e
    BY <1>2, <2>1 DEF EachStep
  <2>4. k \in 1..n /\ w[k] \in machine.user /\ w[k] \in Range(w)
    BY <1>0, WindowRange
  <2>5. CASE ~e.ok
    <3>1. Fitted(m, e, root, w, n, F, perms, k)
      BY <2>2, <2>5 DEF Fitted
    <3>2. Good(e2, k)
      BY <2>2, <2>3, <2>5, <3>1
    <3> HIDE DEF Good
    <3> QED
      BY <2>1, <3>2
  <2>6. CASE e.ok
    <3>1. PICK v, g : v = w[k] /\ g = F[k] /\ v \in machine.user
      BY <2>4
    <3>2. e2 = Map(e, root, v, g, perms) /\ MemOk(e, old, pool) /\ Held(e, root, X)
      BY <2>2, <2>3, <2>6, <3>1
    <3>3. /\ MemOk(e2, old, pool) /\ Held(e2, root, X) /\ SameShared(e, e2, root)
          /\ MapEffect(e, e2, root, v, Leaf(g, perms))
      BY <3>1, <3>2, MapIs
    <3>4. SameShared(m, e2, root)
      BY <2>2, <3>3, SameIs
    <3>5. /\ m.ok
          /\ \A u \in machine.user :
               u \notin Range(w) => Leaves(e, root)[u] = Leaves(m, root)[u]
          /\ \A i \in 1..n : Leaves(e, root)[w[i]] = IF i <= j THEN Leaf(F[i], perms)
                                                    ELSE Leaves(m, root)[w[i]]
      BY <2>2, <2>6 DEF Fitted
    <3>6. \A u \in machine.user : u # v => Leaves(e2, root)[u] = Leaves(e, root)[u]
      <4>1. Leaves(e, root) = [u \in machine.user |-> Leaves(e, root)[u]]
        BY DEF Leaves
      <4> QED
        BY <3>3, <4>1 DEF MapEffect
    <3>7. e2.ok => Leaves(e2, root)[v] = Leaf(g, perms)
      BY <3>1, <3>3 DEF MapEffect, Leaves
    <3>8. \A u \in machine.user :
            u \notin Range(w) => Leaves(e2, root)[u] = Leaves(m, root)[u]
      BY <2>4, <3>1, <3>5, <3>6
    <3>9. ASSUME e2.ok, NEW i \in 1..n
          PROVE  Leaves(e2, root)[w[i]] = IF i <= k THEN Leaf(F[i], perms)
                                          ELSE Leaves(m, root)[w[i]]
      <4>1. CASE i = k
        BY <1>0, <3>1, <3>7, <3>9, <4>1
      <4>2. CASE i # k
        <5>1. w[i] # v /\ w[i] \in machine.user
          BY <2>4, <3>1, <4>2, WindowRange DEF IsWindow
        <5>2. i <= k <=> i <= j
          BY <1>0, <2>1, <4>2
        <5> QED
          BY <3>5, <3>6, <5>1, <5>2
      <4> QED
        BY <4>1, <4>2
    <3>10. Fitted(m, e2, root, w, n, F, perms, k)
      BY <3>5, <3>8, <3>9 DEF Fitted
    <3>11. Good(e2, k)
      BY <3>3, <3>4, <3>10
    <3> HIDE DEF Good
    <3> QED
      BY <2>1, <3>11
  <2> QED
    BY <2>5, <2>6
<1>5. \A j \in 0..Len(F) : j \in P
  <2> HIDE DEF P
  <2>1. PICK N \in Nat : N = Len(F)
    BY <1>0
  <2>2. 0 \in P /\ \A k \in 1..N : k - 1 \in P => k \in P
    BY <1>3, <1>4, <2>1
  <2> QED
    BY <2>1, <2>2, Induct
<1>6. Good(f[Len(F)], Len(F))
  BY <1>0, <1>5
<1> QED
  BY <1>2, <1>6

(* A window ends up with its pages, or empty; nothing else changes. *)
Refitted(m, o, root, w, n, F, perms) ==
  /\ \A v \in machine.user : v \notin Range(w) => Leaves(o, root)[v] = Leaves(m, root)[v]
  /\ \A k \in 1..n : Leaves(o, root)[w[k]] = IF o.ok /\ k <= Len(F)
                                             THEN Leaf(F[k], perms) ELSE EMPTY

LEMMA RemapIs ==
  ASSUME MachineOk(machine), NEW p, NEW m, m = MemoryFor(p), NEW root, root = space[p],
         NEW old, NEW pool, MemOk(m, old, pool), NEW X, Held(m, root, X),
         NEW w, NEW n, IsWindow(w, n), NEW F, Len(F) \in 0..n, NEW perms,
         NEW o, o = Remap(p, w, F, perms)
  PROVE  /\ MemOk(o, old, pool) /\ Held(o, root, X) /\ SameShared(m, o, root)
         /\ Refitted(m, o, root, w, n, F, perms)
<1>0. /\ Range(w) \subseteq machine.user
      /\ \A k \in 1..n : w[k] \in Range(w) /\ w[k] \in machine.user
  BY WindowRange
<1>1. PICK a, b : a = Cleared(m, root, w) /\ b = MapEach(a, root, w, F, perms)
  OBVIOUS
<1>2. o = IF b.ok THEN b ELSE Cleared(b, root, w)
  BY <1>1 DEF Remap
<1>3. /\ MemOk(a, old, pool) /\ Held(a, root, X) /\ SameShared(m, a, root)
      /\ \A v \in machine.user : Leaves(a, root)[v] = IF v \in Range(w) THEN EMPTY
                                                     ELSE Leaves(m, root)[v]
  BY <1>0, <1>1, ClearedIs
<1>4. /\ MemOk(b, old, pool) /\ Held(b, root, X) /\ SameShared(a, b, root)
      /\ Fitted(a, b, root, w, n, F, perms, Len(F))
  BY <1>1, <1>3, MapEachIs
<1>5. SameShared(m, b, root)
  BY <1>3, <1>4, SameIs
<1>6. CASE b.ok
  <2>1. o = b
    BY <1>2, <1>6
  <2>2. \A v \in machine.user :
          v \notin Range(w) => Leaves(o, root)[v] = Leaves(m, root)[v]
    BY <1>3, <1>4, <2>1 DEF Fitted
  <2>3. \A k \in 1..n : Leaves(o, root)[w[k]] = IF o.ok /\ k <= Len(F)
                                                THEN Leaf(F[k], perms) ELSE EMPTY
    <3> SUFFICES ASSUME NEW k \in 1..n
                 PROVE  Leaves(o, root)[w[k]] = IF o.ok /\ k <= Len(F)
                                                THEN Leaf(F[k], perms) ELSE EMPTY
      OBVIOUS
    <3>1. Leaves(b, root)[w[k]] = IF k <= Len(F) THEN Leaf(F[k], perms)
                                  ELSE Leaves(a, root)[w[k]]
      BY <1>4, <1>6 DEF Fitted
    <3>2. Leaves(a, root)[w[k]] = EMPTY
      BY <1>0, <1>3
    <3>3. CASE k <= Len(F)
      BY <1>6, <2>1, <3>1, <3>3
    <3>4. CASE ~(k <= Len(F))
      BY <1>6, <2>1, <3>1, <3>2, <3>4
    <3> QED
      BY <3>3, <3>4
  <2> QED
    BY <1>4, <1>5, <2>1, <2>2, <2>3 DEF Refitted
<1>7. CASE ~b.ok
  <2>1. o = Cleared(b, root, w)
    BY <1>2, <1>7
  <2>2. /\ MemOk(o, old, pool) /\ Held(o, root, X) /\ SameShared(b, o, root)
        /\ o.ok = b.ok
        /\ \A v \in machine.user : Leaves(o, root)[v] = IF v \in Range(w) THEN EMPTY
                                                       ELSE Leaves(b, root)[v]
    BY <1>0, <1>4, <2>1, ClearedIs
  <2>3. SameShared(m, o, root)
    BY <1>5, <2>2, SameIs
  <2>4. \A v \in machine.user :
          v \notin Range(w) => Leaves(o, root)[v] = Leaves(m, root)[v]
    BY <1>3, <1>4, <2>2 DEF Fitted
  <2>5. \A k \in 1..n : Leaves(o, root)[w[k]] = EMPTY
    BY <1>0, <2>2
  <2>6. \A k \in 1..n : Leaves(o, root)[w[k]] = IF o.ok /\ k <= Len(F)
                                                THEN Leaf(F[k], perms) ELSE EMPTY
    BY <1>7, <2>2, <2>5
  <2> QED
    BY <2>2, <2>3, <2>4, <2>6 DEF Refitted
<1> QED
  BY <1>6, <1>7

-----------------------------------------------------------------------------
(* Loading.                                                                *)

(* The pages that are mapped are those of Q, with the permissions it gives *)
(* them, each on a frame of its own; those frames are X.                   *)
Pages(lv, Q, X) ==
  /\ DOMAIN Q \subseteq machine.user
  /\ \A v \in machine.user \ DOMAIN Q : lv[v] = EMPTY
  /\ \A v \in DOMAIN Q : lv[v].kind = "page" /\ lv[v].frame \in X /\ lv[v].perms = Q[v]
  /\ \A v, w \in DOMAIN Q : lv[v].frame = lv[w].frame => v = w
  /\ \A x \in X : \E v \in DOMAIN Q : lv[v].frame = x
Loaded(m, root, Q) == \E X : Held(m, root, X) /\ Pages(Leaves(m, root), Q, X)
KernelIn(m, root, old) == \A i \in machine.shared : m.pt[root][i] = old[KROOT][i]

Plus(Q, v, perms) == [u \in DOMAIN Q \cup {v} |-> IF u \in DOMAIN Q THEN Q[u] ELSE perms]

PutPage(lv, lv2, v, e) ==
  lv[v] = EMPTY /\ lv2[v] = e /\ \A u \in machine.user : u # v => lv2[u] = lv[u]

LEMMA PagesPlus ==
  ASSUME NEW lv, NEW Q, NEW X, Pages(lv, Q, X), NEW v \in machine.user,
         NEW f, f \notin X, NEW perms, NEW lv2, PutPage(lv, lv2, v, Leaf(f, perms))
  PROVE  v \notin DOMAIN Q /\ Pages(lv2, Plus(Q, v, perms), X \cup {f})
<1>1. /\ DOMAIN Q \subseteq machine.user
      /\ \A u \in machine.user \ DOMAIN Q : lv[u] = EMPTY
      /\ \A u \in DOMAIN Q : lv[u].kind = "page" /\ lv[u].frame \in X /\ lv[u].perms = Q[u]
      /\ \A u, w \in DOMAIN Q : lv[u].frame = lv[w].frame => u = w
      /\ \A x \in X : \E u \in DOMAIN Q : lv[u].frame = x
  BY DEF Pages
<1> /\ lv[v] = EMPTY /\ lv2[v] = Leaf(f, perms)
    /\ \A u \in machine.user : u # v => lv2[u] = lv[u]
  BY DEF PutPage
<1>2. v \notin DOMAIN Q
  BY <1>1, EntryKinds
<1>3. /\ lv2[v].kind = "page" /\ lv2[v].frame = f /\ lv2[v].perms = perms
      /\ \A u \in DOMAIN Q : lv2[u] = lv[u]
  BY <1>1, <1>2, EntryKinds
<1> PICK R : R = Plus(Q, v, perms)
  OBVIOUS
<1>4. /\ DOMAIN R = DOMAIN Q \cup {v} /\ R[v] = perms
      /\ \A u \in DOMAIN Q : R[u] = Q[u]
  BY <1>2 DEF Plus
<1>5. DOMAIN R \subseteq machine.user
  BY <1>1, <1>4
<1>6. \A u \in machine.user \ DOMAIN R : lv2[u] = EMPTY
  BY <1>1, <1>4
<1>7. \A u \in DOMAIN R : /\ lv2[u].kind = "page" /\ lv2[u].frame \in X \cup {f}
                          /\ lv2[u].perms = R[u]
  BY <1>1, <1>3, <1>4
<1>8. \A u, w \in DOMAIN R : lv2[u].frame = lv2[w].frame => u = w
  BY <1>1, <1>3, <1>4
<1>9. \A x \in X \cup {f} : \E u \in DOMAIN R : lv2[u].frame = x
  BY <1>1, <1>3, <1>4
<1> QED
  BY <1>2, <1>5, <1>6, <1>7, <1>8, <1>9 DEF Pages

(* A page is mapped on a new frame, whatever is written to it. *)
More(m, n, root, Q, v, perms) ==
  n.ok => /\ v \notin DOMAIN Q /\ Loaded(n, root, Plus(Q, v, perms))
          /\ SameShared(m, n, root)

Allocated(m, a, b) == /\ a = AllocFrame(m) /\ a.ok
                      /\ IsMem(b) /\ b.pt = a.pt /\ b.free = a.free
                      /\ b.frames = a.frames /\ b.ok = a.ok

LEMMA NewPageIs ==
  ASSUME MachineOk(machine), NEW m, NEW old, NEW pool, MemOk(m, old, pool),
         NEW root, NEW Q, Loaded(m, root, Q), NEW v \in machine.user, NEW perms,
         NEW a, NEW b, Allocated(m, a, b), NEW n, n = Map(b, root, v, a.got, perms)
  PROVE  /\ MemOk(n, old, pool) /\ More(m, n, root, Q, v, perms)
         /\ n.ok => PutPage(Leaves(m, root), Leaves(n, root), v, Leaf(a.got, perms))
<1> /\ a = AllocFrame(m) /\ a.ok /\ IsMem(b) /\ b.pt = a.pt /\ b.free = a.free
    /\ b.frames = a.frames /\ b.ok = a.ok
  BY DEF Allocated
<1>1. /\ MemOk(a, old, pool) /\ HandsOut(m, a)
      /\ \A g \in AllFrames \ m.free : a.pt[g] = m.pt[g]
  BY AllocIs DEF Refused
<1>2. PICK f : f = a.got
  OBVIOUS
<1>3. f \in m.free /\ a.frames = Append(m.frames, f)
  BY <1>1, <1>2 DEF HandsOut
<1>4. MemOk(b, old, pool)
  BY <1>1 DEF MemOk
<1>5. PICK X : Held(m, root, X) /\ Pages(Leaves(m, root), Q, X)
  BY DEF Loaded
<1>6. PICK T, d, r : TreeOf(m, root, X, T, d, r)
  BY <1>5 DEF Held
<1>7. /\ m.frames \in Seq(General) /\ NoTwice(m.frames) /\ m.free \subseteq General
      /\ Range(m.frames) \cap m.free = {}
  BY DEF MemOk
<1>8. /\ Tree(m.pt, root, T, d, r) /\ T \cap X = {} /\ Range(m.frames) = T \cup X
  BY <1>6 DEF TreeOf
<1>9. Range(m.frames) \subseteq General
  BY <1>7 DEF Range
<1>10. /\ f \in General /\ f \notin Range(m.frames)
       /\ \A t \in T : t \in AllFrames \ m.free
  BY <1>3, <1>7, <1>8, <1>9, FramesAre
<1>11. m.frames # << >> /\ m.frames[1] = root
  BY <1>5 DEF Held, Rooted
<1>12. /\ Range(Append(m.frames, f)) = Range(m.frames) \cup {f}
       /\ Append(m.frames, f) # << >> /\ Append(m.frames, f)[1] = m.frames[1]
  BY <1>7, <1>10, <1>11, AppendIs
<1>13. PICK tab, tab2 : tab = m.pt /\ tab2 = b.pt
  OBVIOUS
<1>14. \A t \in T : tab2[t] = tab[t]
  BY <1>1, <1>10, <1>13
<1>15. /\ Tree(tab2, root, T, d, r)
       /\ \A w \in machine.user : LeafOf(tab2, root, w) = LeafOf(tab, root, w)
  BY <1>8, <1>13, <1>14, LeavesLocal
<1>16. Held(b, root, X \cup {f})
  <2>1. Rooted(b, root)
    BY <1>3, <1>11, <1>12 DEF Rooted
  <2>2. TreeOf(b, root, X \cup {f}, T, d, r)
    BY <1>3, <1>8, <1>10, <1>12, <1>13, <1>15 DEF TreeOf
  <2> QED
    BY <2>1, <2>2 DEF Held
<1>17. SameShared(m, b, root) /\ Leaves(b, root) = Leaves(m, root)
  BY <1>8, <1>13, <1>14, <1>15 DEF SameShared, Leaves, Tree
<1>18. PICK Y : Y = X \cup {f}
  OBVIOUS
<1>19. /\ MemOk(n, old, pool) /\ Held(n, root, Y) /\ SameShared(b, n, root)
       /\ MapEffect(b, n, root, v, Leaf(f, perms))
  BY <1>2, <1>4, <1>16, <1>18, MapIs
<1>20. ASSUME n.ok
       PROVE  /\ v \notin DOMAIN Q /\ Loaded(n, root, Plus(Q, v, perms))
              /\ SameShared(m, n, root)
              /\ PutPage(Leaves(m, root), Leaves(n, root), v, Leaf(f, perms))
  <2>1. PICK lv, lv2 : lv = Leaves(m, root) /\ lv2 = Leaves(n, root)
    OBVIOUS
  <2>2. lv[v] = EMPTY /\ lv2 = [lv EXCEPT ![v] = Leaf(f, perms)]
    BY <1>17, <1>19, <1>20, <2>1 DEF MapEffect
  <2>3. lv = [u \in machine.user |-> lv[u]]
    BY <2>1 DEF Leaves
  <2>4. PutPage(lv, lv2, v, Leaf(f, perms))
    BY <2>2, <2>3 DEF PutPage
  <2>5. Pages(lv, Q, X) /\ f \notin X
    BY <1>5, <1>8, <1>10, <2>1
  <2>6. v \notin DOMAIN Q /\ Pages(lv2, Plus(Q, v, perms), X \cup {f})
    BY <2>4, <2>5, PagesPlus
  <2> QED
    BY <1>17, <1>18, <1>19, <2>1, <2>4, <2>6, SameIs DEF Loaded
<1> QED
  BY <1>2, <1>19, <1>20 DEF More

(* What has been built so far, as long as all went well. *)
Partly(m, old, pool, root, Q) ==
  MemOk(m, old, pool) /\ (m.ok => Loaded(m, root, Q) /\ KernelIn(m, root, old))

LEMMA PartlyMore ==
  ASSUME NEW m, NEW n, NEW old, NEW pool, NEW root, NEW Q, NEW v, NEW perms,
         Partly(m, old, pool, root, Q), m.ok,
         MemOk(n, old, pool), More(m, n, root, Q, v, perms)
  PROVE  Partly(n, old, pool, root, Plus(Q, v, perms)) /\ (n.ok => v \notin DOMAIN Q)
BY DEF Partly, More, KernelIn, SameShared

LEMMA LoadStackPageIs ==
  ASSUME MachineOk(machine), NEW m, NEW old, NEW pool, NEW root, NEW Q,
         Partly(m, old, pool, root, Q), NEW v \in machine.user,
         NEW n, n = LoadStackPage(m, root, v)
  PROVE  /\ Partly(n, old, pool, root, Plus(Q, v, USER_RW))
         /\ n.ok => m.ok /\ v \notin DOMAIN Q
<1>1. PICK a : a = AllocFrame(m)
  OBVIOUS
<1>2. MemOk(m, old, pool) /\ MemOk(a, old, pool) /\ IsMem(a)
  <2>1. MemOk(m, old, pool)
    BY DEF Partly
  <2>2. MemOk(a, old, pool)
    BY <1>1, <2>1, AllocIs
  <2> QED
    BY <2>1, <2>2 DEF MemOk
<1>3. CASE ~m.ok
  <2>1. n = m
    BY <1>3 DEF LoadStackPage
  <2> QED
    BY <1>2, <1>3, <2>1 DEF Partly
<1>4. CASE m.ok /\ ~a.ok
  <2>1. n = a
    BY <1>1, <1>4 DEF LoadStackPage
  <2> QED
    BY <1>2, <1>4, <2>1 DEF Partly
<1>5. CASE m.ok /\ a.ok
  <2>1. n = Map(a, root, v, a.got, USER_RW)
    BY <1>1, <1>5 DEF LoadStackPage
  <2>2. Loaded(m, root, Q)
    BY <1>5 DEF Partly
  <2>3. MemOk(n, old, pool) /\ More(m, n, root, Q, v, USER_RW)
    <3>1. Allocated(m, a, a)
      BY <1>1, <1>2, <1>5 DEF Allocated
    <3> QED
      BY <1>2, <2>1, <2>2, <3>1, NewPageIs
  <2> QED
    BY <1>5, <2>3, PartlyMore
<1> QED
  BY <1>3, <1>4, <1>5

LEMMA LoadPageIs ==
  ASSUME MachineOk(machine), NEW m, NEW old, NEW pool, NEW root, NEW Q,
         Partly(m, old, pool, root, Q), NEW v \in machine.user, NEW len, NEW s,
         NEW n, n = LoadPage(m, root, len, s, v)
  PROVE  /\ Partly(n, old, pool, root, Plus(Q, v, SegmentPerms(s)))
         /\ n.ok => m.ok /\ v \notin DOMAIN Q
<1>1. PICK a : a = AllocFrame(m)
  OBVIOUS
<1>2. MemOk(m, old, pool) /\ MemOk(a, old, pool) /\ IsMem(a)
  <2>1. MemOk(m, old, pool)
    BY DEF Partly
  <2>2. MemOk(a, old, pool)
    BY <1>1, <2>1, AllocIs
  <2> QED
    BY <2>1, <2>2 DEF MemOk
<1>3. CASE ~m.ok
  <2>1. n = m
    BY <1>3 DEF LoadPage
  <2> QED
    BY <1>2, <1>3, <2>1 DEF Partly
<1>4. CASE m.ok /\ ~a.ok
  <2>1. n = a
    BY <1>1, <1>4 DEF LoadPage
  <2> QED
    BY <1>2, <1>4, <2>1 DEF Partly
<1>5. CASE m.ok /\ a.ok
  <2>1. n = Failed(a) \/ \E g : n = Map([a EXCEPT !.bytes[a.got] = g], root, v, a.got,
                                        SegmentPerms(s))
    BY <1>1, <1>5 DEF LoadPage
  <2>2. CASE n = Failed(a)
    <3>1. /\ n.pt = a.pt /\ n.free = a.free /\ n.frames = a.frames /\ n.ok = FALSE
          /\ IsMem(n)
      BY <1>2, <2>2, FailedIs
    <3>2. MemOk(n, old, pool)
      BY <1>2, <3>1 DEF MemOk
    <3> QED
      BY <3>1, <3>2 DEF Partly
  <2>3. CASE \E g : n = Map([a EXCEPT !.bytes[a.got] = g], root, v, a.got, SegmentPerms(s))
    <3>1. PICK g, b : /\ b = [a EXCEPT !.bytes[a.got] = g]
                      /\ n = Map(b, root, v, a.got, SegmentPerms(s))
      BY <2>3
    <3>2. /\ b.pt = a.pt /\ b.free = a.free /\ b.frames = a.frames /\ b.ok = a.ok
          /\ b = [pt |-> b.pt, bytes |-> b.bytes, free |-> b.free, frames |-> b.frames,
                  got |-> b.got, at |-> b.at, ok |-> b.ok]
      BY <1>2, <3>1 DEF IsMem
    <3>3. IsMem(b)
      BY <1>2, <3>2 DEF IsMem
    <3>4. Loaded(m, root, Q)
      BY <1>5 DEF Partly
    <3>5. PICK perms : perms = SegmentPerms(s)
      OBVIOUS
    <3>6. MemOk(n, old, pool) /\ More(m, n, root, Q, v, perms)
      <4>1. Allocated(m, a, b)
        BY <1>1, <1>5, <3>2, <3>3 DEF Allocated
      <4> QED
        BY <1>2, <3>1, <3>4, <3>5, <4>1, NewPageIs
    <3> QED
      BY <1>5, <3>5, <3>6, PartlyMore
  <2> QED
    BY <2>1, <2>2, <2>3
<1> QED
  BY <1>3, <1>4, <1>5

(* The pages V have been added, all with the same permissions. *)
ExtendedBy(Q, R, V, perms) ==
  /\ DOMAIN R = DOMAIN Q \cup V /\ V \cap DOMAIN Q = {}
  /\ \A u \in DOMAIN Q : R[u] = Q[u]
  /\ \A v \in V : R[v] = perms

(* Each step of f maps the next page of G. *)
PageStep(e, e2, v, perms, old, pool, root) ==
  \A Q : Partly(e, old, pool, root, Q) =>
           /\ Partly(e2, old, pool, root, Plus(Q, v, perms))
           /\ e2.ok => e.ok /\ v \notin DOMAIN Q

LEMMA RunPages ==
  ASSUME NEW f, NEW n \in Nat, NEW G, NEW perms, NEW old, NEW pool, NEW root, NEW Q,
         Partly(f[0], old, pool, root, Q),
         \A k \in 1..n : PageStep(f[k - 1], f[k], G[k], perms, old, pool, root)
  PROVE  \E R : /\ Partly(f[n], old, pool, root, R)
                /\ f[n].ok => f[0].ok /\ ExtendedBy(Q, R, {G[j] : j \in 1..n}, perms)
<1> DEFINE Good(e, k, R) == /\ Partly(e, old, pool, root, R)
                            /\ e.ok => /\ f[0].ok
                                       /\ ExtendedBy(Q, R, {G[j] : j \in 1..k}, perms)
           P == {k \in 0..n : \E R : Good(f[k], k, R)}
<1>1. 0 \in P
  <2>1. ExtendedBy(Q, Q, {G[j] : j \in 1..0}, perms)
    <3>1. {G[j] : j \in 1..0} = {}
      OBVIOUS
    <3>2. ExtendedBy(Q, Q, {}, perms)
      BY DEF ExtendedBy
    <3> QED
      BY <3>1, <3>2
  <2>2. Good(f[0], 0, Q)
    BY <2>1
  <2> HIDE DEF Good
  <2> QED
    BY <2>2
<1>2. ASSUME NEW k \in 1..n, k - 1 \in P PROVE k \in P
  <2>1. PICK j, e, e2, v : /\ j \in 0..n /\ j = k - 1 /\ k = j + 1
                           /\ e = f[j] /\ e2 = f[k] /\ v = G[k]
    OBVIOUS
  <2>2. PICK R : Good(e, j, R)
    BY <1>2, <2>1
  <2>3. Partly(e, old, pool, root, R)
    BY <2>2
  <2>4. PageStep(e, e2, v, perms, old, pool, root)
    BY <2>1
  <2>5. PICK S : S = Plus(R, v, perms)
    OBVIOUS
  <2>6. Partly(e2, old, pool, root, S) /\ (e2.ok => e.ok /\ v \notin DOMAIN R)
    BY <2>3, <2>4, <2>5 DEF PageStep
  <2>7. ASSUME e2.ok
        PROVE  f[0].ok /\ ExtendedBy(Q, S, {G[i] : i \in 1..k}, perms)
    <3>1. /\ f[0].ok /\ ExtendedBy(Q, R, {G[i] : i \in 1..j}, perms) /\ v \notin DOMAIN R
      BY <2>2, <2>6, <2>7
    <3>2. {G[i] : i \in 1..k} = {G[i] : i \in 1..j} \cup {v}
      <4>1. 1..k = 1..j \cup {k}
        BY <2>1
      <4> QED
        BY <2>1, <4>1
    <3>3. PICK V : V = {G[i] : i \in 1..j}
      OBVIOUS
    <3>4. /\ DOMAIN R = DOMAIN Q \cup V /\ V \cap DOMAIN Q = {}
          /\ \A u \in DOMAIN Q : R[u] = Q[u]
          /\ \A u \in V : R[u] = perms
      BY <3>1, <3>3 DEF ExtendedBy
    <3>5. /\ DOMAIN S = DOMAIN R \cup {v} /\ S[v] = perms
          /\ \A u \in DOMAIN R : S[u] = R[u]
      BY <2>5, <3>1 DEF Plus
    <3>6. ExtendedBy(Q, S, V \cup {v}, perms)
      BY <3>1, <3>4, <3>5 DEF ExtendedBy
    <3> QED
      BY <3>1, <3>2, <3>3, <3>6
  <2>8. Good(e2, k, S)
    BY <2>6, <2>7
  <2> HIDE DEF Good
  <2> QED
    BY <2>1, <2>8
<1>3. n \in P
  <2> HIDE DEF P
  <2> QED
    BY <1>1, <1>2, Induct
<1> QED
  BY <1>3

LEMMA StackIs ==
  ASSUME MachineOk(machine)
  PROVE  /\ machine.stackPages \in Nat
         /\ \A k \in 1..machine.stackPages : StackPages[k] \in machine.user
<1>1. /\ machine.stackPages \in Nat
      /\ {machine.stackTop - k : k \in 1..machine.stackPages} \subseteq machine.user
  BY DEF MachineOk
<1> QED
  BY <1>1 DEF StackPages

LEMMA LoadStackIs ==
  ASSUME MachineOk(machine), NEW m, NEW old, NEW pool, NEW root, NEW Q,
         Partly(m, old, pool, root, Q), NEW n, n = LoadStack(m, root)
  PROVE  \E R : /\ Partly(n, old, pool, root, R)
                /\ n.ok => /\ m.ok
                           /\ ExtendedBy(Q, R, {StackPages[j] : j \in 1..machine.stackPages},
                                         USER_RW)
<1>0. PICK s \in Nat : s = machine.stackPages
  BY StackIs
<1>1. PICK f : StackRun(f, m, root)
  BY <1>0, LoadStackSteps
<1>2. /\ f[0] = m /\ n = f[s]
      /\ \A k \in 1..s : f[k] = LoadStackPage(f[k - 1], root, StackPages[k])
  BY <1>0, <1>1 DEF StackRun
<1>3. ASSUME NEW k \in 1..s
      PROVE  PageStep(f[k - 1], f[k], StackPages[k], USER_RW, old, pool, root)
  <2>1. PICK e, e2, v : /\ e = f[k - 1] /\ e2 = f[k]
                        /\ v = StackPages[k] /\ v \in machine.user
    BY <1>0, StackIs
  <2>2. e2 = LoadStackPage(e, root, v)
    BY <1>2, <2>1
  <2>3. PageStep(e, e2, v, USER_RW, old, pool, root)
    BY <2>1, <2>2, LoadStackPageIs DEF PageStep
  <2> QED
    BY <2>1, <2>3
<1>4. PICK perms, G : perms = USER_RW /\ G = StackPages
  OBVIOUS
<1>5. \E R : /\ Partly(f[s], old, pool, root, R)
             /\ f[s].ok => f[0].ok /\ ExtendedBy(Q, R, {G[j] : j \in 1..s}, perms)
  <2>1. Partly(f[0], old, pool, root, Q)
    BY <1>2
  <2>2. \A k \in 1..s : PageStep(f[k - 1], f[k], G[k], perms, old, pool, root)
    BY <1>3, <1>4
  <2> QED
    BY <2>1, <2>2, RunPages
<1> QED
  BY <1>0, <1>2, <1>4, <1>5

LEMMA LoadSegmentIs ==
  ASSUME MachineOk(machine), NEW m, NEW old, NEW pool, NEW root, NEW Q,
         Partly(m, old, pool, root, Q), NEW len, NEW s, s.kind = "load",
         SegmentPages(s) \in Seq(machine.user), NEW n, n = LoadSegment(m, root, len, s)
  PROVE  \E R : /\ Partly(n, old, pool, root, R)
                /\ n.ok => m.ok /\ ExtendedBy(Q, R, Range(SegmentPages(s)), SegmentPerms(s))
<1>0. PICK G, c, perms : /\ G = SegmentPages(s) /\ G \in Seq(machine.user)
                         /\ c = Len(G) /\ c \in Nat /\ perms = SegmentPerms(s)
  OBVIOUS
<1>1. PICK f : SegmentRun(f, m, root, len, s)
  BY <1>0, LoadSegmentSteps
<1>2. /\ f[0] = m /\ n = f[c]
      /\ \A k \in 1..c : f[k] = LoadPage(f[k - 1], root, len, s, G[k])
  BY <1>0, <1>1 DEF SegmentRun
<1>3. ASSUME NEW k \in 1..c
      PROVE  PageStep(f[k - 1], f[k], G[k], perms, old, pool, root)
  <2>1. PICK e, e2, v : /\ e = f[k - 1] /\ e2 = f[k]
                        /\ v = G[k] /\ v \in machine.user
    BY <1>0
  <2>2. e2 = LoadPage(e, root, len, s, v)
    BY <1>2, <2>1
  <2>3. PageStep(e, e2, v, perms, old, pool, root)
    BY <1>0, <2>1, <2>2, LoadPageIs DEF PageStep
  <2> QED
    BY <2>1, <2>3
<1>4. \E R : /\ Partly(f[c], old, pool, root, R)
             /\ f[c].ok => f[0].ok /\ ExtendedBy(Q, R, {G[j] : j \in 1..c}, perms)
  <2>1. Partly(f[0], old, pool, root, Q)
    BY <1>2
  <2>2. c \in Nat
    BY <1>0
  <2> QED
    BY <1>3, <2>1, <2>2, RunPages
<1>5. {G[j] : j \in 1..c} = Range(G)
  BY <1>0 DEF Range
<1> QED
  BY <1>0, <1>2, <1>4, <1>5

(* The pages of the first k segments, with the permissions of their segments. *)
Segs(k) == {j \in 1..k : machine.image.segments[j].kind = "load"}
SegPages(j) == Range(SegmentPages(machine.image.segments[j]))
ImageUpTo(Q, k) ==
  /\ DOMAIN Q = UNION {SegPages(j) : j \in Segs(k)}
  /\ \A j \in Segs(k) : \A v \in SegPages(j) :
       Q[v] = SegmentPerms(machine.image.segments[j])

LEMMA SegmentsAre ==
  ASSUME MachineOk(machine)
  PROVE  /\ Len(machine.image.segments) \in Nat
         /\ \A k \in 1..Len(machine.image.segments) :
              /\ machine.image.segments[k].kind \in {"load", "other", "outside"}
              /\ k \in Segs(Len(machine.image.segments)) =>
                   SegmentPages(machine.image.segments[k]) \in Seq(machine.user)
BY DEF MachineOk, Segs

LEMMA LoadElfIs ==
  ASSUME MachineOk(machine), NEW m, NEW old, NEW pool, NEW root, NEW Q,
         Partly(m, old, pool, root, Q), DOMAIN Q = {}, NEW n, n = LoadElf(m, root)
  PROVE  \E R : /\ Partly(n, old, pool, root, R)
                /\ n.ok => m.ok /\ ImageUpTo(R, Len(machine.image.segments))
<1>0. PICK c, seg : c \in Nat /\ seg = machine.image.segments /\ c = Len(seg)
  BY SegmentsAre
<1>1. PICK f : ElfRun(f, m, root)
  BY <1>0, LoadElfSteps
<1>2. /\ f[0] = ElfStart(m) /\ n = f[c]
      /\ \A k \in 1..c : f[k] = ElfStep(f[k - 1], root, k)
  BY <1>0, <1>1 DEF ElfRun
<1> DEFINE Good(e, k, R) == /\ Partly(e, old, pool, root, R)
                            /\ e.ok => m.ok /\ ImageUpTo(R, k)
           P == {k \in 0..c : \E R : Good(f[k], k, R)}
<1>3. 0 \in P
  <2>1. ImageUpTo(Q, 0)
    BY DEF ImageUpTo, Segs
  <2>2. Partly(Failed(m), old, pool, root, Q) /\ ~Failed(m).ok
    <3>1. MemOk(m, old, pool) /\ IsMem(m)
      BY DEF Partly, MemOk
    <3>2. MemOk(Failed(m), old, pool) /\ Failed(m).ok = FALSE
      BY <3>1, FailedIs DEF MemOk
    <3> QED
      BY <3>2 DEF Partly
  <2>3. Good(f[0], 0, Q)
    BY <1>2, <2>1, <2>2 DEF ElfStart
  <2> HIDE DEF Good
  <2> QED
    BY <1>0, <2>3
<1>4. ASSUME NEW k \in 1..c, k - 1 \in P PROVE k \in P
  <2>1. PICK j, e, e2, s : /\ j \in 0..c /\ j = k - 1 /\ k = j + 1
                           /\ e = f[j] /\ e2 = f[k] /\ s = seg[k]
    BY <1>0
  <2>2. PICK R : Good(e, j, R)
    BY <1>4, <2>1
  <2>3. e2 = IF e.ok THEN LoadSegment(e, root, machine.image.len, s) ELSE e
    BY <1>0, <1>2, <2>1 DEF ElfStep
  <2>4. 1..k = 1..j \cup {k}
    BY <2>1
  <2>5. CASE ~e.ok
    <3>1. Good(e2, k, R)
      BY <2>2, <2>3, <2>5
    <3> HIDE DEF Good
    <3> QED
      BY <2>1, <3>1
  <2>6. CASE e.ok /\ s.kind = "outside"
    <3>1. e2 = Failed(e)
      BY <2>3, <2>6 DEF LoadSegment
    <3>2. MemOk(e, old, pool) /\ IsMem(e)
      BY <2>2 DEF Partly, MemOk
    <3>3. MemOk(e2, old, pool) /\ e2.ok = FALSE
      BY <3>1, <3>2, FailedIs DEF MemOk
    <3>4. Good(e2, k, R)
      BY <3>3 DEF Partly
    <3> HIDE DEF Good
    <3> QED
      BY <2>1, <3>4
  <2>7. CASE e.ok /\ s.kind = "other"
    <3>1. e2 = e
      BY <2>3, <2>7 DEF LoadSegment
    <3>2. Segs(k) = Segs(j)
      BY <1>0, <2>1, <2>4, <2>7 DEF Segs
    <3>3. Good(e2, k, R)
      BY <2>2, <3>1, <3>2 DEF ImageUpTo
    <3> HIDE DEF Good
    <3> QED
      BY <2>1, <3>3
  <2>8. CASE e.ok /\ s.kind = "load"
    <3>0. PICK len : len = machine.image.len
      OBVIOUS
    <3>1. e2 = LoadSegment(e, root, len, s)
      BY <2>3, <2>8, <3>0
    <3>2. Segs(k) = Segs(j) \cup {k} /\ k \in Segs(c)
      BY <1>0, <2>1, <2>4, <2>8 DEF Segs
    <3>3. SegmentPages(s) \in Seq(machine.user) /\ SegPages(k) = Range(SegmentPages(s))
      BY <1>0, <2>1, <3>2, SegmentsAre DEF SegPages
    <3>4. Partly(e, old, pool, root, R) /\ m.ok /\ ImageUpTo(R, j)
      BY <2>2, <2>8
    <3>5. PICK S : /\ Partly(e2, old, pool, root, S)
                   /\ e2.ok => /\ e.ok
                               /\ ExtendedBy(R, S, Range(SegmentPages(s)), SegmentPerms(s))
      BY <2>8, <3>1, <3>3, <3>4, LoadSegmentIs
    <3>6. ASSUME e2.ok PROVE ImageUpTo(S, k)
      <4>1. ExtendedBy(R, S, SegPages(k), SegmentPerms(s))
        BY <3>3, <3>5, <3>6
      <4>2. DOMAIN S = UNION {SegPages(i) : i \in Segs(k)}
        BY <3>2, <3>4, <4>1 DEF ExtendedBy, ImageUpTo
      <4>3. ASSUME NEW i \in Segs(k), NEW v \in SegPages(i)
            PROVE  S[v] = SegmentPerms(machine.image.segments[i])
        <5>1. CASE i = k
          BY <1>0, <2>1, <4>1, <4>3, <5>1 DEF ExtendedBy
        <5>2. CASE i \in Segs(j)
          <6>1. v \in DOMAIN R /\ R[v] = SegmentPerms(machine.image.segments[i])
            BY <3>4, <4>3, <5>2 DEF ImageUpTo
          <6> QED
            BY <4>1, <6>1 DEF ExtendedBy
        <5> QED
          BY <3>2, <5>1, <5>2
      <4> QED
        BY <4>2, <4>3 DEF ImageUpTo
    <3>7. Good(e2, k, S)
      BY <3>4, <3>5, <3>6
    <3> HIDE DEF Good
    <3> QED
      BY <2>1, <3>7
  <2>9. s.kind \in {"load", "other", "outside"}
    BY <1>0, <2>1, SegmentsAre
  <2> QED
    BY <2>5, <2>6, <2>7, <2>8, <2>9
<1>5. c \in P
  <2> HIDE DEF P
  <2>1. c \in Nat
    BY <1>0
  <2>2. \A k \in 0..c : k \in P
    BY <1>3, <1>4, <2>1, Induct
  <2> QED
    BY <2>1, <2>2
<1> QED
  BY <1>0, <1>2, <1>5

(* A new root: the kernel's entries and nothing else. *)
LEMMA NewRootIs ==
  ASSUME MachineOk(machine), NEW m, NEW old, NEW pool, MemOk(m, old, pool),
         m.frames = << >>, NEW a, a = AllocFrame(m), a.ok, NEW root, root = a.got,
         NEW n, n = NewRoot(a, KROOT)
  PROVE  \E Q : DOMAIN Q = {} /\ Partly(n, old, pool, root, Q)
<1>0. /\ Top \in Nat \ {0} /\ machine.shared \subseteq Slots
      /\ machine.mmioBase \in machine.user
  BY MachineIs
<1>1. /\ MemOk(a, old, pool) /\ HandsOut(m, a)
  BY AllocIs DEF Refused
<1>2. /\ IsMem(a) /\ IsTables(a.pt) /\ root \in m.free /\ m.free \subseteq General
      /\ a.frames = Append(m.frames, root)
      /\ a.free \subseteq General /\ a.frames \in Seq(General)
      /\ Range(a.frames) \cup a.free = pool
      /\ \A f \in AllFrames \ pool : a.pt[f] = old[f]
  BY <1>1 DEF HandsOut, MemOk, IsMem
<1>3. root \in General /\ a.frames = <<root>> /\ Range(a.frames) = {root}
  <2>1. root \in General
    BY <1>2
  <2>2. a.frames = <<root>>
    BY <1>2, <2>1
  <2> QED
    BY <2>1, <2>2 DEF Range
<1>4. pool \subseteq General /\ KROOT \in AllFrames \ pool /\ root \in AllFrames
      /\ root # KROOT /\ root \in pool
  BY <1>2, <1>3, FramesAre
<1>5. a.pt[KROOT] = old[KROOT]
  BY <1>2, <1>4
<1>6. PICK row : row = [i \in Slots |-> IF i \in machine.shared THEN a.pt[KROOT][i]
                                        ELSE EMPTY]
  OBVIOUS
<1>7. /\ n.pt = [a.pt EXCEPT ![root] = row] /\ n.free = a.free /\ n.frames = a.frames
      /\ n.ok = a.ok
      /\ n = [pt |-> n.pt, bytes |-> n.bytes, free |-> n.free, frames |-> n.frames,
              got |-> n.got, at |-> n.at, ok |-> n.ok]
  BY <1>2, <1>6 DEF NewRoot, IsMem
<1>8. a.pt = [f \in AllFrames |-> [i \in Slots |-> a.pt[f][i]]]
  BY <1>2 DEF IsTables
<1>9. n.pt[root] = row /\ \A g \in AllFrames \ {root} : n.pt[g] = a.pt[g]
  BY <1>4, <1>7, <1>8
<1>10. IsTables(n.pt)
  <2>1. n.pt = [f \in AllFrames |-> n.pt[f]]
    BY <1>7, <1>8
  <2>2. ASSUME NEW f \in AllFrames PROVE n.pt[f] = [i \in Slots |-> n.pt[f][i]]
    <3>1. CASE f = root
      BY <1>6, <1>9, <3>1
    <3>2. CASE f # root
      BY <1>8, <1>9, <3>2
    <3> QED
      BY <3>1, <3>2
  <2> QED
    BY <2>1, <2>2 DEF IsTables
<1>11. MemOk(n, old, pool)
  <2>1. IsMem(n)
    BY <1>2, <1>7, <1>10 DEF IsMem
  <2>2. \A g \in AllFrames \ pool : n.pt[g] = old[g]
    BY <1>2, <1>4, <1>9
  <2> QED
    BY <1>1, <1>7, <2>1, <2>2 DEF MemOk
<1>12. KernelIn(n, root, old)
  BY <1>0, <1>5, <1>6, <1>9 DEF KernelIn
<1>13. PICK T, d, r : /\ T = {root} /\ d = [t \in {root} |-> 0]
                      /\ r = [t \in {root} |-> machine.mmioBase]
  OBVIOUS
<1>14. TreeOf(n, root, {}, T, d, r)
  <2>1. root \in T /\ d \in [T -> 0..Top] /\ r \in [T -> machine.user]
    BY <1>0, <1>13
  <2>2. (\A t \in T : d[t] = 0 <=> t = root) /\ Unique(T, d, r)
    BY <1>13 DEF Unique
  <2>3. EntriesOk(n.pt, root, T, d, r)
    BY <1>6, <1>9, <1>13 DEF EntriesOk, EntryOk
  <2>4. Hung(n.pt, root, T, d, r)
    BY <1>13 DEF Hung
  <2>5. T \cap {} = {} /\ Range(n.frames) = T \cup {}
    BY <1>3, <1>7, <1>13
  <2> QED
    BY <2>1, <2>2, <2>3, <2>4, <2>5 DEF TreeOf, Tree
<1>15. Held(n, root, {})
  <2>1. Rooted(n, root)
    BY <1>3, <1>7 DEF Rooted
  <2> QED
    BY <1>14, <2>1 DEF Held
<1>16. \A v \in machine.user : Leaves(n, root)[v] = EMPTY
  <2> SUFFICES ASSUME NEW v \in machine.user PROVE Leaves(n, root)[v] = EMPTY
    OBVIOUS
  <2>1. \A t : ~On(t, v, Top, T, d, r)
    BY <1>0, <1>13 DEF On
  <2>2. Tree(n.pt, root, T, d, r)
    BY <1>14 DEF TreeOf
  <2>3. LeafOf(n.pt, root, v) = EMPTY
    BY <2>1, <2>2, LeafValue
  <2> QED
    BY <2>3 DEF Leaves
<1>17. PICK Q : Q = [v \in {} |-> v]
  OBVIOUS
<1>18. DOMAIN Q = {}
  BY <1>17
<1>19. Pages(Leaves(n, root), Q, {})
  BY <1>16, <1>18 DEF Pages
<1> QED
  BY <1>11, <1>12, <1>15, <1>18, <1>19 DEF Partly, Loaded

(* The pages of the image and the stack, with their permissions. *)
ImageLen == Len(machine.image.segments)
StackSet == {StackPages[j] : j \in 1..machine.stackPages}
Whole(Q) == \E R : ImageUpTo(R, ImageLen) /\ ExtendedBy(R, Q, StackSet, USER_RW)

Built(n, root, old) == /\ Rooted(n, root) /\ KernelIn(n, root, old)
                       /\ \E Q : Loaded(n, root, Q) /\ Whole(Q)

LEMMA BuildIs ==
  ASSUME MachineOk(machine), NEW m, NEW old, NEW pool, MemOk(m, old, pool),
         m.frames = << >>, NEW n, n = Build(m, KROOT)
  PROVE  MemOk(n, old, pool) /\ (n.ok => \E root \in General : Built(n, root, old))
<1>1. PICK a : a = AllocFrame(m)
  OBVIOUS
<1>2. MemOk(a, old, pool)
  BY <1>1, AllocIs
<1>3. CASE ~a.ok
  <2>1. n = a
    BY <1>1, <1>3 DEF Build
  <2> QED
    BY <1>2, <1>3, <2>1
<1>4. CASE a.ok
  <2>1. PICK root, b, c : root = a.got /\ b = NewRoot(a, KROOT) /\ c = LoadElf(b, root)
    OBVIOUS
  <2>2. n = LoadStack(c, root)
    BY <1>1, <1>4, <2>1 DEF Build
  <2>3. PICK Q : DOMAIN Q = {} /\ Partly(b, old, pool, root, Q)
    BY <1>1, <1>4, <2>1, NewRootIs
  <2>4. PICK R : Partly(c, old, pool, root, R) /\ (c.ok => b.ok /\ ImageUpTo(R, ImageLen))
    BY <2>1, <2>3, LoadElfIs DEF ImageLen
  <2>5. PICK S : /\ Partly(n, old, pool, root, S)
                 /\ n.ok => c.ok /\ ExtendedBy(R, S, StackSet, USER_RW)
    BY <2>2, <2>4, LoadStackIs DEF StackSet
  <2>6. ASSUME n.ok PROVE Built(n, root, old) /\ root \in General
    <3>1. Loaded(n, root, S) /\ KernelIn(n, root, old) /\ Whole(S)
      BY <2>4, <2>5, <2>6 DEF Partly, Whole
    <3>2. Rooted(n, root)
      BY <3>1 DEF Loaded, Held
    <3>3. root \in General
      <4>1. HandsOut(m, a)
        BY <1>1, <1>4, AllocIs DEF Refused
      <4> QED
        BY <2>1, <4>1 DEF HandsOut, MemOk
    <3> QED
      BY <3>1, <3>2, <3>3 DEF Built
  <2> QED
    BY <2>5, <2>6 DEF Partly
<1> QED
  BY <1>3, <1>4

-----------------------------------------------------------------------------
(* Sequences without repetition.                                           *)

(* Their length is the number of their elements. *)
LEMMA LenIs ==
  ASSUME NEW S, NEW F \in Seq(S), NoTwice(F)
  PROVE  IsFiniteSet(Range(F)) /\ Cardinality(Range(F)) = Len(F)
<1>1. Len(F) \in Nat /\ DOMAIN F = 1..Len(F)
  OBVIOUS
<1>2. PICK g : g = [i \in 1..Len(F) |-> F[i]]
  OBVIOUS
<1>3. g \in Bijection(1..Len(F), Range(F))
  <2>1. g \in [1..Len(F) -> Range(F)]
    BY <1>1, <1>2 DEF Range
  <2> HIDE DEF Range
  <2>2. \A i, j \in 1..Len(F) : g[i] = g[j] => i = j
    BY <1>2 DEF NoTwice
  <2>3. \A x \in Range(F) : \E i \in 1..Len(F) : g[i] = x
    BY <1>1, <1>2 DEF Range
  <2>4. g \in Injection(1..Len(F), Range(F))
    BY <2>1, <2>2 DEF Injection, IsInjective
  <2>5. g \in Surjection(1..Len(F), Range(F))
    BY <2>1, <2>3 DEF Surjection
  <2> QED
    BY <2>4, <2>5 DEF Bijection
<1>4. IsFiniteSet(1..Len(F)) /\ Cardinality(1..Len(F)) = Len(F)
  <2>1. 1 \in Int /\ Len(F) \in Int
    BY <1>1
  <2> QED
    BY <1>1, <2>1, FS_Interval
<1>5. ExistsBijection(1..Len(F), Range(F))
  BY <1>3 DEF ExistsBijection
<1> QED
  BY <1>4, <1>5, FS_Bijection

(* A loop over a table finds every number that is in T, each once. *)
LEMMA AscendingIs ==
  ASSUME NEW T, NEW n \in Nat, NEW F, F = Ascending(T, n)
  PROVE  F \in Seq(1..n) /\ NoTwice(F) /\ Range(F) = T \cap (1..n)
<1>1. PICK f : PickRun(f, T, n)
  BY AscendingSteps
<1> DEFINE Good(e, k) == /\ e \in Seq(1..n) /\ NoTwice(e)
                         /\ Range(e) = T \cap (1..k)
           P == {k \in 0..n : Good(f[k], k)}
<1>2. 0 \in P
  <2>1. f[0] = << >> /\ << >> \in Seq(1..n) /\ Len(<< >>) = 0 /\ DOMAIN << >> = {}
    BY <1>1 DEF PickRun
  <2>2. NoTwice(<< >>) /\ Range(<< >>) = {}
    BY <2>1 DEF NoTwice, Range
  <2>3. T \cap (1..0) = {}
    OBVIOUS
  <2>4. Good(f[0], 0)
    BY <2>1, <2>2, <2>3
  <2> HIDE DEF Good
  <2> QED
    BY <2>4
<1>3. ASSUME NEW k \in 1..n, k - 1 \in P PROVE k \in P
  <2>1. PICK j, e, e2 : /\ j \in 0..n /\ j = k - 1 /\ e = f[j] /\ e2 = f[k]
    OBVIOUS
  <2>2. e \in Seq(1..n) /\ NoTwice(e) /\ Range(e) = T \cap (1..j)
    BY <1>3, <2>1
  <2>3. e2 = Pick(e, k, T)
    BY <1>1, <2>1 DEF PickRun
  <2>4. CASE k \in T
    <3>1. e2 = Append(e, k) /\ k \notin Range(e)
      BY <2>1, <2>2, <2>3, <2>4 DEF Pick
    <3>2. e2 \in Seq(1..n) /\ NoTwice(e2) /\ Range(e2) = Range(e) \cup {k}
      BY <2>2, <3>1, AppendIs
    <3>3. Range(e2) = T \cap (1..k)
      BY <2>1, <2>2, <2>4, <3>2
    <3> QED
      BY <2>1, <3>2, <3>3
  <2>5. CASE k \notin T
    <3>1. e2 = e
      BY <2>3, <2>5 DEF Pick
    <3>2. T \cap (1..k) = T \cap (1..j)
      BY <2>1, <2>5
    <3>3. Good(e2, k)
      BY <2>2, <3>1, <3>2
    <3> HIDE DEF Good
    <3> QED
      BY <2>1, <3>3
  <2> QED
    BY <2>4, <2>5
<1>4. n \in P
  <2> HIDE DEF P
  <2>1. \A k \in 0..n : k \in P
    BY <1>2, <1>3, Induct
  <2> QED
    BY <2>1
<1> QED
  BY <1>1, <1>4 DEF PickRun

-----------------------------------------------------------------------------
(* Where the windows are.                                                  *)

WindowPages == ShareRange(machine) \cup {machine.mmioBase}

LEMMA Times ==
  ASSUME NEW a \in Nat, NEW b \in Nat, NEW c \in Nat, a <= b
  PROVE  a * c <= b * c /\ a * c \in Nat
  OBVIOUS

(* A share window is one piece of the range, and another is another. *)
LEMMA WindowsAre ==
  ASSUME MachineOk(machine), GeometryOk(machine)
  PROVE  /\ \A s \in Shares : IsWindow(ShareWindow(s), REGION_MAX_PAGES)
         /\ \A s \in Shares : \A v \in Range(ShareWindow(s)) : v \in ShareRange(machine)
         /\ \A s, t \in Shares : \A v \in Range(ShareWindow(s)) :
              v \in Range(ShareWindow(t)) => s = t
         /\ IsWindow(DeviceWindow, 1) /\ Range(DeviceWindow) = {machine.mmioBase}
         /\ machine.mmioBase \notin ShareRange(machine)
         /\ WindowPages \subseteq machine.user
<1> DEFINE R == REGION_MAX_PAGES
           At(s, k) == machine.shareBase + (s - 1) * R + k - 1
<1>1. R \in Nat /\ SHARE_SLOTS \in Nat
  BY SpacesAssumption
<1>2. /\ machine.shareBase \in Nat /\ machine.mmioBase \in machine.user
      /\ ShareRange(machine) \subseteq machine.user
      /\ machine.mmioBase \notin ShareRange(machine)
  BY DEF MachineOk, GeometryOk
<1>3. ASSUME NEW s \in Shares
      PROVE  /\ s - 1 \in Nat /\ s \in Nat /\ s <= SHARE_SLOTS /\ (s - 1) * R \in Nat
             /\ s * R = (s - 1) * R + R /\ s * R \in Nat
             /\ s * R <= SHARE_SLOTS * R /\ SHARE_SLOTS * R \in Nat
  <2>1. s \in Nat /\ s - 1 \in Nat /\ s <= SHARE_SLOTS
    BY <1>1 DEF Shares
  <2> HIDE DEF R
  <2>2. s * R <= SHARE_SLOTS * R /\ SHARE_SLOTS * R \in Nat /\ s * R \in Nat
    BY <1>1, <2>1
  <2>3. s * R = (s - 1) * R + R /\ (s - 1) * R \in Nat
    BY <1>1, <2>1
  <2> QED
    BY <2>1, <2>2, <2>3
<1>4. ASSUME NEW s \in Shares
      PROVE  /\ DOMAIN ShareWindow(s) = 1..R
             /\ \A k \in 1..R : ShareWindow(s)[k] = At(s, k)
  BY DEF ShareWindow
<1>5. ASSUME NEW s \in Shares, NEW k \in 1..R
      PROVE  At(s, k) \in ShareRange(machine)
  BY <1>1, <1>2, <1>3 DEF ShareRange
<1>6. ASSUME NEW s \in Shares, NEW t \in Shares, NEW j \in 1..R, NEW k \in 1..R,
             s < t
      PROVE  At(s, j) # At(t, k)
  <2>1. s * R <= (t - 1) * R
    <3>1. s \in Nat /\ t - 1 \in Nat /\ s <= t - 1
      BY <1>3, <1>6
    <3> HIDE DEF R
    <3> QED
      BY <1>1, <3>1, Times
  <2> QED
    BY <1>1, <1>2, <1>3, <2>1
<1>7. ASSUME NEW s \in Shares PROVE IsWindow(ShareWindow(s), R)
  <2>1. \A k \in 1..R : ShareWindow(s)[k] \in machine.user
    BY <1>2, <1>4, <1>5
  <2>2. ShareWindow(s) = [k \in 1..R |-> ShareWindow(s)[k]]
    BY DEF ShareWindow
  <2>3. ASSUME NEW i \in 1..R, NEW j \in 1..R, ShareWindow(s)[i] = ShareWindow(s)[j]
        PROVE  i = j
    <3>1. At(s, i) = At(s, j)
      BY <1>4, <2>3
    <3>2. PICK c : c = (s - 1) * R
      OBVIOUS
    <3>3. c \in Nat /\ machine.shareBase + c + i - 1 = machine.shareBase + c + j - 1
      BY <1>3, <3>1, <3>2
    <3> QED
      BY <1>1, <1>2, <3>3
  <2> HIDE DEF R
  <2> QED
    BY <1>1, <2>1, <2>2, <2>3 DEF IsWindow
<1>8. ASSUME NEW s \in Shares, NEW v \in Range(ShareWindow(s))
      PROVE  v \in ShareRange(machine) /\ \E k \in 1..R : v = At(s, k)
  BY <1>4, <1>5 DEF Range
<1>9. ASSUME NEW s \in Shares, NEW t \in Shares, NEW v \in Range(ShareWindow(s)),
             v \in Range(ShareWindow(t))
      PROVE  s = t
  <2>1. PICK j, k : j \in 1..R /\ k \in 1..R /\ v = At(s, j) /\ v = At(t, k)
    BY <1>8, <1>9
  <2>2. ~(s < t) /\ ~(t < s)
    BY <1>6, <2>1
  <2> QED
    BY <1>3, <2>2
<1>10. IsWindow(DeviceWindow, 1) /\ Range(DeviceWindow) = {machine.mmioBase}
  BY <1>2 DEF IsWindow, DeviceWindow, Range
<1>11. WindowPages \subseteq machine.user
  BY <1>2 DEF WindowPages
<1> QED
  BY <1>2, <1>7, <1>8, <1>9, <1>10, <1>11

(* The image and the stack are outside. *)
LEMMA ImageOutside ==
  ASSUME MachineOk(machine), GeometryOk(machine), NEW Q, Whole(Q)
  PROVE  \A v \in DOMAIN Q : v \notin WindowPages
<1>1. PICK R : ImageUpTo(R, ImageLen) /\ ExtendedBy(R, Q, StackSet, USER_RW)
  BY DEF Whole
<1>2. DOMAIN Q = DOMAIN R \cup StackSet
  BY <1>1 DEF ExtendedBy
<1>3. ASSUME NEW v \in StackSet PROVE v \notin WindowPages
  <2>1. PICK k \in 1..machine.stackPages : v = machine.stackTop - k
    BY <1>3 DEF StackSet, StackPages
  <2>2. /\ machine.stackPages \in Nat /\ machine.stackTop \in Nat
        /\ machine.mmioBase \notin {machine.stackTop - j : j \in 1..machine.stackPages}
    BY DEF MachineOk
  <2>3. v # machine.mmioBase
    BY <2>1, <2>2
  <2>4. v \in (machine.stackTop - machine.stackPages)..(machine.stackTop - 1)
    BY <2>1, <2>2
  <2>5. v \notin ShareRange(machine)
    BY <2>4 DEF GeometryOk
  <2> QED
    BY <2>3, <2>5 DEF WindowPages
<1>4. ASSUME NEW v \in DOMAIN R PROVE v \notin WindowPages
  <2>1. PICK j \in Segs(ImageLen) : v \in SegPages(j)
    BY <1>1, <1>4 DEF ImageUpTo
  <2>2. PICK s : s = machine.image.segments[j]
    OBVIOUS
  <2>3. j \in 1..ImageLen /\ s.kind = "load"
    BY <2>1, <2>2 DEF Segs
  <2>4. Range(SegmentPages(s)) \cap (ShareRange(machine) \cup {machine.mmioBase}) = {}
    BY <2>2, <2>3 DEF MachineOk, ImageLen
  <2> QED
    BY <2>1, <2>2, <2>4 DEF SegPages, WindowPages
<1> QED
  BY <1>2, <1>3, <1>4

-----------------------------------------------------------------------------
(* The space of a process.                                                 *)

(* Its image and stack are mapped as they were built, each page on a frame *)
(* of its own; apart from them there are only windows, and what they show  *)
(* is not memory of the pool.                                              *)
InWindow(e, v) == v \in WindowPages /\ e.kind = "page" /\ e.frame \notin General

SpaceLeaves(lv, Q, X) ==
  /\ DOMAIN Q \subseteq machine.user
  /\ \A v \in DOMAIN Q : lv[v].kind = "page" /\ lv[v].frame \in X /\ lv[v].perms = Q[v]
  /\ \A v, w \in DOMAIN Q : lv[v].frame = lv[w].frame => v = w
  /\ \A x \in X : \E v \in DOMAIN Q : lv[v].frame = x
  /\ \A v \in machine.user \ DOMAIN Q : lv[v] = EMPTY \/ InWindow(lv[v], v)

SpaceOk(m, root, old) ==
  /\ KernelIn(m, root, old)
  /\ \E X, Q : Held(m, root, X) /\ Whole(Q) /\ SpaceLeaves(Leaves(m, root), Q, X)

(* What a change of windows leaves alone. *)
WindowsOnly(lv, lv2) ==
  \A v \in machine.user : lv2[v] = lv[v] \/ (v \in WindowPages
                                             /\ (lv2[v] = EMPTY \/ InWindow(lv2[v], v)))

LEMMA SpaceRefit ==
  ASSUME MachineOk(machine), GeometryOk(machine), NEW lv, NEW lv2, NEW Q, NEW X,
         Whole(Q), SpaceLeaves(lv, Q, X), WindowsOnly(lv, lv2)
  PROVE  SpaceLeaves(lv2, Q, X)
<1>1. \A v \in DOMAIN Q : v \in machine.user /\ v \notin WindowPages
  BY ImageOutside DEF SpaceLeaves
<1>2. \A v \in DOMAIN Q : lv2[v] = lv[v]
  BY <1>1 DEF WindowsOnly
<1>3. ASSUME NEW v \in machine.user \ DOMAIN Q
      PROVE  lv2[v] = EMPTY \/ InWindow(lv2[v], v)
  <2>1. lv[v] = EMPTY \/ InWindow(lv[v], v)
    BY DEF SpaceLeaves
  <2> QED
    BY <2>1 DEF WindowsOnly
<1> QED
  BY <1>2, <1>3 DEF SpaceLeaves

(* The rest of the kernel's memory does not matter to a space. *)
LEMMA SpaceLocal ==
  ASSUME MachineOk(machine), NEW m, NEW root, NEW old, SpaceOk(m, root, old), NEW n,
         n.frames = m.frames, \A g \in Range(m.frames) : n.pt[g] = m.pt[g],
         NEW new, new[KROOT] = old[KROOT]
  PROVE  SpaceOk(n, root, new) /\ root \in Range(m.frames) /\ SameLeaves(m, n, root)
<1>1. PICK X, Q : Held(m, root, X) /\ Whole(Q) /\ SpaceLeaves(Leaves(m, root), Q, X)
  BY DEF SpaceOk
<1>2. /\ Held(n, root, X) /\ root \in Range(m.frames)
      /\ SameShared(m, n, root) /\ SameLeaves(m, n, root)
  BY <1>1, HeldLocal
<1>3. Leaves(n, root) = Leaves(m, root)
  BY <1>2, LeavesIs
<1>4. KernelIn(n, root, new)
  BY <1>2 DEF KernelIn, SameShared, SpaceOk
<1> QED
  BY <1>1, <1>2, <1>3, <1>4 DEF SpaceOk

(* A build makes a space. *)
LEMMA BuiltSpace ==
  ASSUME MachineOk(machine), NEW n, NEW root, NEW old, Built(n, root, old)
  PROVE  SpaceOk(n, root, old) /\ Rooted(n, root)
<1>1. PICK Q : Loaded(n, root, Q) /\ Whole(Q)
  BY DEF Built
<1>2. PICK X : Held(n, root, X) /\ Pages(Leaves(n, root), Q, X)
  BY <1>1 DEF Loaded
<1>3. SpaceLeaves(Leaves(n, root), Q, X)
  BY <1>2 DEF Pages, SpaceLeaves
<1> QED
  BY <1>1, <1>2, <1>3 DEF SpaceOk, Built

(* A change of windows keeps it. *)
LEMMA SpaceKept ==
  ASSUME MachineOk(machine), GeometryOk(machine), NEW m, NEW root, NEW old,
         NEW X, NEW Q, Whole(Q), SpaceLeaves(Leaves(m, root), Q, X), KernelIn(m, root, old),
         NEW n, Held(n, root, X), SameShared(m, n, root),
         WindowsOnly(Leaves(m, root), Leaves(n, root))
  PROVE  SpaceOk(n, root, old)
<1>1. SpaceLeaves(Leaves(n, root), Q, X)
  BY SpaceRefit
<1>2. KernelIn(n, root, old)
  BY DEF KernelIn, SameShared
<1> QED
  BY <1>1, <1>2 DEF SpaceOk

LEMMA RemapSpace ==
  ASSUME MachineOk(machine), GeometryOk(machine),
         NEW p, NEW m, m = MemoryFor(p), NEW root, root = space[p],
         NEW old, NEW pool, MemOk(m, old, pool), SpaceOk(m, root, old),
         NEW w, NEW n, IsWindow(w, n), Range(w) \subseteq WindowPages,
         NEW F, Len(F) \in 0..n, \A k \in 1..Len(F) : F[k] \notin General,
         NEW perms, NEW o, o = Remap(p, w, F, perms)
  PROVE  /\ MemOk(o, old, pool) /\ SpaceOk(o, root, old)
         /\ Refitted(m, o, root, w, n, F, perms)
<1>1. PICK X, Q : Held(m, root, X) /\ Whole(Q) /\ SpaceLeaves(Leaves(m, root), Q, X)
  BY DEF SpaceOk
<1>2. /\ MemOk(o, old, pool) /\ Held(o, root, X) /\ SameShared(m, o, root)
      /\ Refitted(m, o, root, w, n, F, perms)
  BY <1>1, RemapIs
<1>3. WindowsOnly(Leaves(m, root), Leaves(o, root))
  <2>1. PICK lv, lv2 : lv = Leaves(m, root) /\ lv2 = Leaves(o, root)
    OBVIOUS
  <2>2. ASSUME NEW v \in Range(w)
        PROVE  lv2[v] = EMPTY \/ InWindow(lv2[v], v)
    <3>1. PICK k \in 1..n : w[k] = v
      BY WindowRange
    <3>2. lv2[v] = IF o.ok /\ k <= Len(F) THEN Leaf(F[k], perms) ELSE EMPTY
      BY <1>2, <2>1, <3>1 DEF Refitted
    <3>3. CASE o.ok /\ k <= Len(F)
      <4>1. k \in 1..Len(F)
        BY <3>3 DEF IsWindow
      <4>2. lv2[v] = Leaf(F[k], perms) /\ F[k] \notin General /\ v \in WindowPages
        BY <3>2, <3>3, <4>1
      <4> QED
        BY <4>2, EntryKinds DEF InWindow
    <3> QED
      BY <3>2, <3>3
  <2>3. \A v \in machine.user : v \notin Range(w) => lv2[v] = lv[v]
    BY <1>2, <2>1 DEF Refitted
  <2> QED
    BY <2>1, <2>2, <2>3 DEF WindowsOnly
<1>4. KernelIn(m, root, old)
  BY DEF SpaceOk
<1> QED
  BY <1>1, <1>2, <1>3, <1>4, SpaceKept

LEMMA ClearedSpace ==
  ASSUME MachineOk(machine), GeometryOk(machine), NEW m, NEW root,
         NEW old, NEW pool, MemOk(m, old, pool), SpaceOk(m, root, old),
         NEW w, Range(w) \subseteq WindowPages, NEW o, o = Cleared(m, root, w)
  PROVE  /\ MemOk(o, old, pool) /\ SpaceOk(o, root, old)
         /\ \A v \in machine.user : Leaves(o, root)[v] = IF v \in Range(w) THEN EMPTY
                                                        ELSE Leaves(m, root)[v]
<1>1. PICK X, Q : Held(m, root, X) /\ Whole(Q) /\ SpaceLeaves(Leaves(m, root), Q, X)
  BY DEF SpaceOk
<1>2. Range(w) \subseteq machine.user
  BY WindowsAre
<1>3. /\ MemOk(o, old, pool) /\ Held(o, root, X) /\ SameShared(m, o, root)
      /\ \A v \in machine.user : Leaves(o, root)[v] = IF v \in Range(w) THEN EMPTY
                                                      ELSE Leaves(m, root)[v]
  BY <1>1, <1>2, ClearedIs
<1>4. WindowsOnly(Leaves(m, root), Leaves(o, root))
  BY <1>3 DEF WindowsOnly
<1>5. KernelIn(m, root, old)
  BY DEF SpaceOk
<1> QED
  BY <1>1, <1>3, <1>4, <1>5, SpaceKept

-----------------------------------------------------------------------------
(* The inductive invariant.                                                *)

(* Every frame of the pool is free or charged to one process, once. *)
FramesOk ==
  /\ free \subseteq General
  /\ frames = [p \in Procs |-> frames[p]]
  /\ \A p \in Procs : /\ frames[p] \in Seq(General) /\ NoTwice(frames[p])
                      /\ Range(frames[p]) \cap free = {}
  /\ \A p, q \in Procs : p # q => Range(frames[p]) \cap Range(frames[q]) = {}
  /\ General \subseteq free \cup UNION {Range(frames[p]) : p \in Procs}

(* A slot without a space holds nothing, and nobody has a region twice. *)
SlotsOk ==
  /\ space \in [Procs -> Nat]
  /\ \A p \in Procs : space[p] = 0 => frames[p] = << >>
  /\ shares \in [Procs -> [Shares -> Nat]]
  /\ \A p \in Procs : \A s, t \in Shares :
       shares[p][s] = shares[p][t] /\ shares[p][s] # 0 => s = t

(* Regions have identities and frames of the arena. *)
RegionOk(r) ==
  r.live => /\ r.id \in 1..(nextRegion - 1)
            /\ r.frames \in Seq(Arena) /\ Len(r.frames) <= REGION_MAX_PAGES
RegionsOk ==
  /\ arena \subseteq Arena /\ nextRegion \in Nat \ {0}
  /\ regions = [i \in 1..MAX_REGIONS |-> regions[i]]
  /\ \A i \in 1..MAX_REGIONS : regions[i].live \in BOOLEAN /\ RegionOk(regions[i])
  /\ \A i, j \in 1..MAX_REGIONS :
       regions[i].live /\ regions[j].live /\ regions[i].id = regions[j].id => i = j

(* The CPU walks the tree of the process that runs. *)
CpuOk ==
  /\ phase # "run" => active = KROOT /\ current = 0
  /\ current # 0 => current \in Live /\ active = space[current]
  /\ dying # 0 => dying = current
  /\ plan # << >> => current # 0
  /\ phase = "boot" => nextId \in Nat \ {0} /\ \A p \in 1..(nextId - 1) : p \in Live

(* A plan unmaps from processes there are. *)
Steps == {UnmapStep(p, s, r) : p \in Procs, s \in Shares, r \in Nat}
           \cup {ForgetCapsStep(r) : r \in Nat} \cup {ReleaseStep(r) : r \in Nat}
PlanOk ==
  /\ plan \in Seq(Steps)
  /\ \A k \in 1..Len(plan) : plan[k].do = "unmap" => plan[k].proc \in Live

Trees == IsTables(pt) /\ \A p \in Live : SpaceOk(MemoryFor(p), space[p], pt)

BuildOk == machine \in Machines /\ GeometryOk(machine)

SpacesInv == /\ BuildOk /\ FramesOk /\ SlotsOk /\ RegionsOk /\ CpuOk /\ PlanOk
             /\ Trees /\ KernelMapped

-----------------------------------------------------------------------------
(* The build does not change, and with it where things are.                *)

LEMMA Rigid ==
  ASSUME machine' = machine
  PROVE  /\ AllFrames' = AllFrames /\ General' = General /\ Arena' = Arena
         /\ DEVICE' = DEVICE /\ Slots' = Slots /\ Top' = Top /\ WindowPages' = WindowPages
         /\ GeometryOk(machine)' = GeometryOk(machine)
         /\ MachineOk(machine)' = MachineOk(machine)
         /\ \A tab : IsTables(tab)' = IsTables(tab)
         /\ \A s : ShareWindow(s)' = ShareWindow(s)
         /\ DeviceWindow' = DeviceWindow
<1>1. /\ AllFrames' = AllFrames /\ General' = General /\ Arena' = Arena
      /\ DEVICE' = DEVICE /\ Slots' = Slots /\ Top' = Top
  BY DEF AllFrames, General, Arena, DEVICE, Slots, Top
<1>2. WindowPages' = WindowPages
  BY DEF WindowPages, ShareRange
<1>3. GeometryOk(machine)' = GeometryOk(machine)
  BY DEF GeometryOk, ShareRange
<1>4. MachineOk(machine)' = MachineOk(machine)
  BY DEF MachineOk, ShareRange
<1>5. \A tab : IsTables(tab)' = IsTables(tab)
  BY <1>1 DEF IsTables
<1>6. \A s : ShareWindow(s)' = ShareWindow(s)
  BY DEF ShareWindow
<1>7. DeviceWindow' = DeviceWindow
  BY DEF DeviceWindow
<1> QED
  BY <1>1, <1>2, <1>3, <1>4, <1>5, <1>6, <1>7

LEMMA RigidTree ==
  ASSUME machine' = machine
  PROVE  \A tab, root, T, d, r : Tree(tab, root, T, d, r)' = Tree(tab, root, T, d, r)
  BY DEF Tree, Unique, EntriesOk, Hung, EntryOk, Hangs, SamePath, Turn, Index, Top, Slots

LEMMA RigidLeaves ==
  ASSUME machine' = machine
  PROVE  /\ \A tab, root, v : LeafOf(tab, root, v)' = LeafOf(tab, root, v)
         /\ \A m, root : Leaves(m, root)' = Leaves(m, root)
<1>1. \A tab, root, v : Walk(tab, root, v)' = Walk(tab, root, v)
  BY DEF Walk, Index, Top
<1>2. \A tab, root, v : LeafOf(tab, root, v)' = LeafOf(tab, root, v)
  BY <1>1 DEF LeafOf, Top
<1> QED
  BY <1>2 DEF Leaves

LEMMA RigidSpace ==
  ASSUME machine' = machine
  PROVE  \A m, root, old : SpaceOk(m, root, old)' = SpaceOk(m, root, old)
<1>1. \A m, root, X : Held(m, root, X)' = Held(m, root, X)
  BY RigidTree DEF Held, TreeOf, Rooted
<1>2. \A Q : Whole(Q)' = Whole(Q)
  BY DEF Whole, ImageUpTo, ExtendedBy, ImageLen, StackSet, StackPages, Segs, SegPages
<1>3. \A lv, Q, X : SpaceLeaves(lv, Q, X)' = SpaceLeaves(lv, Q, X)
  BY Rigid DEF SpaceLeaves, InWindow
<1>4. \A m, root, old : KernelIn(m, root, old)' = KernelIn(m, root, old)
  BY DEF KernelIn
<1> QED
  BY <1>1, <1>2, <1>3, <1>4, RigidLeaves DEF SpaceOk

-----------------------------------------------------------------------------
(* One process works on its own memory.                                    *)

Pool(p) == free \cup Range(frames[p])

LEMMA MachineFacts ==
  ASSUME BuildOk
  PROVE  MachineOk(machine) /\ GeometryOk(machine)
  BY SpacesAssumption DEF BuildOk

LEMMA MemoryIs ==
  ASSUME FramesOk, Trees, NEW p \in Procs
  PROVE  MemOk(MemoryFor(p), pt, Pool(p))
<1>1. PICK m : m = MemoryFor(p)
  OBVIOUS
<1>2. /\ m.pt = pt /\ m.bytes = bytes /\ m.free = free /\ m.frames = frames[p]
      /\ m.ok = TRUE
      /\ m = [pt |-> m.pt, bytes |-> m.bytes, free |-> m.free, frames |-> m.frames,
              got |-> m.got, at |-> m.at, ok |-> m.ok]
  BY <1>1 DEF MemoryFor
<1>3. IsMem(m)
  BY <1>2 DEF IsMem, Trees
<1>4. MemOk(m, pt, Pool(p))
  BY <1>2, <1>3 DEF MemOk, FramesOk, Pool
<1> QED
  BY <1>1, <1>4

(* The memory of p becomes o. *)
Worked(p, o) ==
  /\ MemOk(o, pt, Pool(p))
  /\ pt' = o.pt /\ free' = o.free /\ frames' = [frames EXCEPT ![p] = o.frames]

LEMMA WorkedFrames ==
  ASSUME BuildOk, FramesOk, Trees, NEW p \in Procs, NEW o, Worked(p, o), machine' = machine
  PROVE  /\ FramesOk' /\ IsTables(pt)' /\ pt'[KROOT] = pt[KROOT]
         /\ frames'[p] = o.frames /\ \A q \in Procs : q # p => frames'[q] = frames[q]
<1>1. /\ IsTables(o.pt) /\ o.free \subseteq General /\ o.frames \in Seq(General)
      /\ NoTwice(o.frames) /\ Range(o.frames) \cap o.free = {}
      /\ Range(o.frames) \cup o.free = free \cup Range(frames[p])
      /\ \A f \in AllFrames \ (free \cup Range(frames[p])) : o.pt[f] = pt[f]
  BY DEF Worked, MemOk, IsMem, Pool
<1>2. /\ frames' = [q \in Procs |-> frames'[q]] /\ frames'[p] = o.frames
      /\ \A q \in Procs : q # p => frames'[q] = frames[q]
  <2>1. frames = [q \in Procs |-> frames[q]]
    BY DEF FramesOk
  <2> QED
    BY <2>1 DEF Worked
<1>3. pt' = o.pt /\ free' = o.free
  BY DEF Worked
<1>4. /\ \A q \in Procs : /\ frames[q] \in Seq(General) /\ NoTwice(frames[q])
                          /\ Range(frames[q]) \cap free = {}
      /\ \A q, q2 \in Procs : q # q2 => Range(frames[q]) \cap Range(frames[q2]) = {}
      /\ General \subseteq free \cup UNION {Range(frames[q]) : q \in Procs}
  BY DEF FramesOk
<1>5. General' = General /\ Procs' = Procs
  BY Rigid DEF Procs
<1>6. ASSUME NEW q \in Procs
      PROVE  /\ frames'[q] \in Seq(General) /\ NoTwice(frames'[q])
             /\ Range(frames'[q]) \cap free' = {}
  <2>1. CASE q = p
    BY <1>1, <1>2, <1>3, <2>1
  <2>2. CASE q # p
    <3>1. Range(frames[q]) \cap (free \cup Range(frames[p])) = {}
      BY <1>4, <2>2
    <3> QED
      BY <1>1, <1>2, <1>3, <1>4, <2>2, <3>1
  <2> QED
    BY <2>1, <2>2
<1>7. ASSUME NEW q \in Procs, NEW q2 \in Procs, q # q2
      PROVE  Range(frames'[q]) \cap Range(frames'[q2]) = {}
  <2>1. \A x \in Procs : x # p => Range(frames[x]) \cap (free \cup Range(frames[p])) = {}
    BY <1>4
  <2>2. \A x \in Procs : x # p => Range(frames[x]) \cap Range(o.frames) = {}
    BY <1>1, <2>1
  <2>3. CASE q = p
    BY <1>2, <1>7, <2>2, <2>3
  <2>4. CASE q2 = p
    BY <1>2, <1>7, <2>2, <2>4
  <2>5. CASE q # p /\ q2 # p
    BY <1>2, <1>4, <1>7, <2>5
  <2> QED
    BY <2>3, <2>4, <2>5
<1>8. General \subseteq free' \cup UNION {Range(frames'[q]) : q \in Procs}
  <2> SUFFICES ASSUME NEW f \in General, f \notin free'
               PROVE  \E q \in Procs : f \in Range(frames'[q])
    OBVIOUS
  <2>1. CASE f \in free \cup Range(frames[p])
    <3>1. f \in Range(o.frames)
      BY <1>1, <1>3, <2>1
    <3> QED
      BY <1>2, <3>1
  <2>2. CASE f \notin free \cup Range(frames[p])
    <3>1. PICK q \in Procs : f \in Range(frames[q])
      BY <1>4, <2>2
    <3>2. q # p
      BY <2>2, <3>1
    <3> QED
      BY <1>2, <3>1, <3>2
  <2> QED
    BY <2>1, <2>2
<1>9. FramesOk'
  <2>1. free' \subseteq General
    BY <1>1, <1>3
  <2> QED
    BY <1>2, <1>5, <1>6, <1>7, <1>8, <2>1 DEF FramesOk, NoTwice
<1>10. IsTables(pt)'
  BY <1>1, <1>3, Rigid
<1>11. pt'[KROOT] = pt[KROOT]
  <2>1. KROOT \in AllFrames /\ KROOT \notin General
    BY MachineFacts, FramesAre
  <2>2. Range(frames[p]) \subseteq General /\ free \subseteq General
    <3>1. Range(frames[p]) \subseteq General
      BY <1>4 DEF Range
    <3> QED
      BY <3>1 DEF FramesOk
  <2> QED
    BY <1>1, <1>3, <2>1, <2>2
<1> QED
  BY <1>2, <1>9, <1>10, <1>11

(* Another process does not notice... *)
LEMMA WorkedOthers ==
  ASSUME BuildOk, FramesOk, Trees, NEW p \in Procs, NEW o, Worked(p, o), machine' = machine,
         NEW q \in Live, q # p, space'[q] = space[q]
  PROVE  /\ SpaceOk(MemoryFor(q), space[q], pt)'
         /\ \A v \in machine.user : LeafOf(pt', space'[q], v) = LeafOf(pt, space[q], v)
<1>1. PICK m, n, root, old, new :
         /\ m = MemoryFor(q) /\ n = MemoryFor(q)' /\ root = space[q]
         /\ old = pt /\ new = pt'
  OBVIOUS
<1>2. MachineOk(machine) /\ SpaceOk(m, root, old) /\ q \in Procs
  BY <1>1, MachineFacts DEF Trees, Live
<1>3. /\ m.frames = frames[q] /\ n.frames = frames'[q] /\ m.pt = pt /\ n.pt = pt'
  BY <1>1 DEF MemoryFor
<1>4. n.frames = m.frames /\ new[KROOT] = old[KROOT]
  BY <1>1, <1>2, <1>3, WorkedFrames
<1>5. ASSUME NEW g \in Range(m.frames) PROVE n.pt[g] = m.pt[g]
  <2>1. g \in General
    <3>1. frames[q] \in Seq(General)
      BY <1>2 DEF FramesOk
    <3> QED
      BY <1>3, <1>5, <3>1 DEF Range
  <2>2. g \notin Pool(p)
    BY <1>2, <1>3, <1>5 DEF Pool, FramesOk
  <2>3. g \in AllFrames
    BY <1>2, <2>1, FramesAre
  <2> QED
    BY <1>3, <2>2, <2>3 DEF Worked, MemOk
<1>6. SpaceOk(n, root, new) /\ SameLeaves(m, n, root)
  BY <1>2, <1>4, <1>5, SpaceLocal
<1>7. SpaceOk(n, root, new)'
  BY <1>6, RigidSpace
<1>8. SpaceOk(MemoryFor(q), space[q], pt)'
  BY <1>1, <1>7
<1> QED
  BY <1>1, <1>3, <1>6, <1>8 DEF SameLeaves

(* ... and the process itself has what it made of its space. *)
LEMMA WorkedSelf ==
  ASSUME BuildOk, FramesOk, Trees, NEW p \in Procs, NEW o, Worked(p, o), machine' = machine,
         NEW root, SpaceOk(o, root, pt), space'[p] = root
  PROVE  /\ SpaceOk(MemoryFor(p), space[p], pt)'
         /\ \A v \in machine.user : LeafOf(pt', space'[p], v) = Leaves(o, root)[v]
<1>1. PICK n, old, new : n = MemoryFor(p)' /\ old = pt /\ new = pt'
  OBVIOUS
<1>2. MachineOk(machine) /\ SpaceOk(o, root, old)
  BY <1>1, MachineFacts
<1>3. n.frames = o.frames /\ n.pt = o.pt /\ n.pt = pt' /\ new[KROOT] = old[KROOT]
  BY <1>1, WorkedFrames DEF MemoryFor, Worked
<1>4. SpaceOk(n, root, new) /\ SameLeaves(o, n, root)
  BY <1>2, <1>3, SpaceLocal
<1>5. SpaceOk(n, root, new)'
  BY <1>4, RigidSpace
<1>6. SpaceOk(MemoryFor(p), space[p], pt)'
  BY <1>1, <1>5
<1> QED
  BY <1>3, <1>4, <1>6 DEF SameLeaves, Leaves

-----------------------------------------------------------------------------
(* Loading.                                                                *)

(* What is left of a build: everything, or nothing. *)
Outcome(p) ==
  LET m == Build([MemoryFor(p) EXCEPT !.frames = << >>], KROOT)
  IN  IF m.ok THEN m
      ELSE [m EXCEPT !.free = @ \cup Range(m.frames), !.frames = << >>]

LEMMA LoadIs ==
  ASSUME BuildOk, FramesOk, SlotsOk, Trees, NEW p \in Procs, LoadProcess(p)
  PROVE  /\ Worked(p, Outcome(p)) /\ machine' = machine /\ space[p] = 0
         /\ \/ /\ UNCHANGED process /\ ~Outcome(p).ok /\ frames[p] = << >>
            \/ /\ SpaceOk(Outcome(p), space'[p], pt) /\ space'[p] # 0 /\ Outcome(p).ok
               /\ Built(Outcome(p), space'[p], pt) /\ frames[p] = << >>
               /\ space' = [space EXCEPT ![p] = space'[p]] /\ space'[p] \in Nat
               /\ shares' = [shares EXCEPT ![p] = [s \in Shares |-> 0]]
               /\ nextId' = nextId + 1
<1>1. PICK m0, m, old, pool : /\ m0 = [MemoryFor(p) EXCEPT !.frames = << >>]
                              /\ m = Build(m0, KROOT) /\ old = pt /\ pool = Pool(p)
  OBVIOUS
<1>2. MachineOk(machine) /\ space[p] = 0 /\ frames[p] = << >>
  BY MachineFacts DEF LoadProcess, SlotsOk
<1>3. m0 = MemoryFor(p) /\ m0.frames = << >>
  BY <1>1, <1>2 DEF MemoryFor
<1>4. MemOk(m0, old, pool)
  BY <1>1, <1>3, MemoryIs
<1>5. /\ MemOk(m, old, pool)
      /\ m.ok => \E root \in General : Built(m, root, old)
  BY <1>1, <1>2, <1>3, <1>4, BuildIs
<1>6. machine' = machine /\ pt' = m.pt
  BY <1>1 DEF LoadProcess
<1>7. CASE m.ok
  <2>1. PICK root \in General : Built(m, root, old)
    BY <1>5, <1>7
  <2>2. SpaceOk(m, root, old) /\ Rooted(m, root)
    BY <1>2, <2>1, BuiltSpace
  <2>3. Outcome(p) = m
    BY <1>1, <1>7 DEF Outcome
  <2>4. /\ free' = m.free /\ frames' = [frames EXCEPT ![p] = m.frames]
        /\ space' = [space EXCEPT ![p] = m.frames[1]]
        /\ shares' = [shares EXCEPT ![p] = [s \in Shares |-> 0]]
        /\ nextId' = nextId + 1
    BY <1>1, <1>7 DEF LoadProcess
  <2>5. space'[p] = root /\ space' = [space EXCEPT ![p] = space'[p]]
    BY <2>2, <2>4 DEF Rooted, SlotsOk
  <2>6. root # 0 /\ root \in Nat
    BY <1>2, <2>1, FramesAre
  <2>7. Worked(p, m)
    BY <1>1, <1>5, <1>6, <2>4 DEF Worked
  <2> QED
    <3>1. Worked(p, Outcome(p)) /\ Outcome(p).ok
      BY <1>7, <2>3, <2>7
    <3>2. SpaceOk(Outcome(p), space'[p], pt) /\ Built(Outcome(p), space'[p], pt)
      BY <1>1, <2>1, <2>2, <2>3, <2>5
    <3>3. space'[p] # 0 /\ space'[p] \in Nat
      BY <2>5, <2>6
    <3> QED
      BY <1>2, <1>6, <2>4, <2>5, <3>1, <3>2, <3>3
<1>8. CASE ~m.ok
  <2>1. PICK o : o = [m EXCEPT !.free = @ \cup Range(m.frames), !.frames = << >>]
    OBVIOUS
  <2>2. Outcome(p) = o
    BY <1>1, <1>8, <2>1 DEF Outcome
  <2>3. m = [pt |-> m.pt, bytes |-> m.bytes, free |-> m.free, frames |-> m.frames,
             got |-> m.got, at |-> m.at, ok |-> m.ok]
    BY <1>5 DEF MemOk, IsMem
  <2>4. /\ o = [pt |-> o.pt, bytes |-> o.bytes, free |-> o.free, frames |-> o.frames,
                got |-> o.got, at |-> o.at, ok |-> o.ok]
        /\ o.pt = m.pt /\ o.free = m.free \cup Range(m.frames) /\ o.frames = << >>
        /\ o.ok = m.ok
    BY <2>1, <2>3
  <2>5. IsMem(o)
    BY <1>5, <2>4 DEF MemOk, IsMem
  <2>6. /\ Range(<< >>) = {} /\ NoTwice(<< >>) /\ << >> \in Seq(General)
    <3>1. DOMAIN << >> = {} /\ Len(<< >>) = 0
      OBVIOUS
    <3> QED
      BY <3>1 DEF Range, NoTwice
  <2>7. Range(m.frames) \subseteq General
    BY <1>5 DEF MemOk, Range
  <2>8. MemOk(o, old, pool)
    BY <1>5, <2>4, <2>5, <2>6, <2>7 DEF MemOk
  <2>9. free' = o.free /\ UNCHANGED process
    BY <1>1, <1>8, <2>4 DEF LoadProcess
  <2>10. frames' = [frames EXCEPT ![p] = << >>]
    <3>1. frames = [q \in Procs |-> frames[q]] /\ frames' = frames
      BY <2>9 DEF FramesOk, process
    <3> QED
      BY <1>2, <3>1
  <2>11. Worked(p, o)
    BY <1>1, <1>6, <2>4, <2>8, <2>9, <2>10 DEF Worked
  <2> QED
    BY <1>2, <1>6, <1>8, <2>2, <2>4, <2>9, <2>11
<1> QED
  BY <1>7, <1>8

LEMMA LoadKeeps ==
  ASSUME SpacesInv, NEW p \in Procs, LoadProcess(p)
  PROVE  /\ BuildOk' /\ FramesOk' /\ SlotsOk' /\ RegionsOk' /\ Trees'
         /\ Live \subseteq Live' /\ \A q \in Live : space'[q] = space[q]
         /\ pt'[KROOT] = pt[KROOT]
         /\ nextId' # nextId => p \in Live' /\ nextId' = nextId + 1
<1>1. PICK o : o = Outcome(p)
  OBVIOUS
<1>2. BuildOk /\ FramesOk /\ SlotsOk /\ Trees /\ RegionsOk
  BY DEF SpacesInv
<1>3. /\ Worked(p, o) /\ machine' = machine /\ space[p] = 0
      /\ \/ UNCHANGED process /\ frames[p] = << >>
         \/ /\ SpaceOk(o, space'[p], pt) /\ space'[p] # 0
            /\ space' = [space EXCEPT ![p] = space'[p]] /\ space'[p] \in Nat
            /\ shares' = [shares EXCEPT ![p] = [s \in Shares |-> 0]]
            /\ nextId' = nextId + 1
  BY <1>1, <1>2, LoadIs
<1>4. /\ FramesOk' /\ IsTables(pt)' /\ pt'[KROOT] = pt[KROOT]
      /\ frames'[p] = o.frames /\ \A q \in Procs : q # p => frames'[q] = frames[q]
  BY <1>2, <1>3, WorkedFrames
<1>5. Procs' = Procs /\ Shares' = Shares
  BY DEF Procs, Shares
<1>6. BuildOk'
  BY <1>2, <1>3, Rigid DEF BuildOk
<1>7. RegionsOk'
  <2>1. UNCHANGED shared
    BY DEF LoadProcess
  <2> QED
    BY <1>2, <1>3, <2>1, Rigid DEF RegionsOk, RegionOk, shared
<1>8. ASSUME NEW q \in Procs, q # p
      PROVE  space'[q] = space[q] /\ shares'[q] = shares[q]
  BY <1>2, <1>3, <1>8 DEF process, SlotsOk
<1>9. Live \subseteq Live' /\ \A q \in Live : space'[q] = space[q] /\ q # p
  BY <1>3, <1>5, <1>8 DEF Live
<1>10. ASSUME NEW q \in Live', q # p
       PROVE  SpaceOk(MemoryFor(q), space[q], pt)'
  <2>1. q \in Live
    BY <1>5, <1>8, <1>10 DEF Live
  <2> QED
    BY <1>2, <1>3, <1>9, <1>10, <2>1, WorkedOthers
<1>11. ASSUME p \in Live'
       PROVE  SpaceOk(MemoryFor(p), space[p], pt)'
  <2>1. space'[p] # space[p]
    BY <1>3, <1>11 DEF Live
  <2>2. PICK root : root = space'[p]
    OBVIOUS
  <2>3. SpaceOk(o, root, pt)
    BY <1>3, <2>1, <2>2 DEF process
  <2> QED
    BY <1>2, <1>3, <2>2, <2>3, WorkedSelf
<1>12. Trees'
  BY <1>4, <1>10, <1>11 DEF Trees
<1>13. SlotsOk'
  <2>1. /\ space' \in [Procs -> Nat] /\ shares' \in [Procs -> [Shares -> Nat]]
    <3>1. space \in [Procs -> Nat] /\ shares \in [Procs -> [Shares -> Nat]]
      BY <1>2 DEF SlotsOk
    <3>2. [x \in Shares |-> 0] \in [Shares -> Nat]
      OBVIOUS
    <3>3. CASE UNCHANGED process
      BY <3>1, <3>3 DEF process
    <3>4. CASE ~UNCHANGED process
      BY <1>3, <3>1, <3>2, <3>4
    <3> QED
      BY <3>3, <3>4
  <2>2. \A q \in Procs : space'[q] = 0 => frames'[q] = << >>
    <3>1. \A q \in Procs : q # p => (space'[q] = 0 => frames'[q] = << >>)
      BY <1>2, <1>4, <1>8 DEF SlotsOk
    <3>2. space'[p] = 0 => frames'[p] = << >>
      BY <1>3 DEF process
    <3> QED
      BY <3>1, <3>2
  <2>3. ASSUME NEW q \in Procs, NEW s \in Shares, NEW t \in Shares,
               shares'[q][s] = shares'[q][t], shares'[q][s] # 0
        PROVE  s = t
    <3>1. shares'[q] = shares[q] \/ shares'[q] = [x \in Shares |-> 0]
      BY <1>2, <1>3 DEF process, SlotsOk
    <3>2. shares'[q] = shares[q]
      BY <2>3, <3>1
    <3> QED
      BY <1>2, <2>3, <3>2 DEF SlotsOk
  <2> QED
    BY <1>5, <2>1, <2>2, <2>3 DEF SlotsOk
<1>14. nextId' # nextId => p \in Live' /\ nextId' = nextId + 1
  BY <1>3, <1>5 DEF Live, process
<1> QED
  BY <1>4, <1>6, <1>7, <1>9, <1>12, <1>13, <1>14

(* The running process finds the kernel in its tree. *)
LEMMA RunningMapped ==
  ASSUME machine' = machine, CpuOk', Trees', current' # 0
  PROVE  KernelMapped'
<1>1. SpaceOk(MemoryFor(current), space[current], pt)' /\ active' = space'[current']
  BY DEF CpuOk, Trees
<1>2. KernelIn(MemoryFor(current), space[current], pt)'
  BY <1>1 DEF SpaceOk
<1>3. \A i \in machine' .shared : pt'[space'[current']][i] = pt'[KROOT][i]
  BY <1>2 DEF KernelIn, MemoryFor
<1> QED
  BY <1>1, <1>3 DEF KernelMapped

LEMMA PlanKept ==
  ASSUME PlanOk, plan' = plan, Live \subseteq Live'
  PROVE  PlanOk'
  BY DEF PlanOk, Steps, Shares, Procs

LEMMA BootIs ==
  ASSUME SpacesInv, Boot
  PROVE  SpacesInv'
<1>1. PICK p : p = nextId
  OBVIOUS
<1>2. /\ phase = "boot" /\ p \in 1..NUM_PROCS /\ LoadProcess(p)
      /\ phase' = IF nextId' = nextId THEN "halt" ELSE phase
      /\ current' = current /\ active' = active
  BY <1>1, SpacesAssumption DEF Boot, SpacesInv, CpuOk
<1>3. p \in Procs
  BY <1>2, SpacesAssumption DEF Procs
<1>4. /\ BuildOk' /\ FramesOk' /\ SlotsOk' /\ RegionsOk' /\ Trees'
      /\ Live \subseteq Live' /\ pt'[KROOT] = pt[KROOT]
      /\ nextId' # nextId => p \in Live' /\ nextId' = nextId + 1
  BY <1>2, <1>3, LoadKeeps
<1>5. machine' = machine /\ plan' = plan /\ dying' = dying
  BY <1>2 DEF LoadProcess
<1>6. PlanOk'
  BY <1>4, <1>5, PlanKept DEF SpacesInv
<1>7. /\ active = KROOT /\ current = 0 /\ (dying # 0 => dying = current)
      /\ (plan # << >> => current # 0)
      /\ nextId \in Nat \ {0} /\ \A q \in 1..(nextId - 1) : q \in Live
  BY <1>2 DEF SpacesInv, CpuOk
<1>8. ASSUME phase' = "boot"
      PROVE  nextId' \in Nat \ {0} /\ \A q \in 1..(nextId' - 1) : q \in Live'
  <2>1. nextId' # nextId
    BY <1>2, <1>8
  <2>2. nextId' = p + 1 /\ p \in Live'
    BY <1>1, <1>4, <2>1
  <2>3. \A q \in 1..p : q = p \/ q \in 1..(p - 1)
    BY <1>1, <1>7
  <2> QED
    BY <1>1, <1>4, <1>7, <2>2, <2>3
<1>9. CpuOk'
  <2>1. active' = KROOT /\ current' = 0
    BY <1>2, <1>7
  <2>2. (dying' # 0 => dying' = current') /\ (plan' # << >> => current' # 0)
    BY <1>2, <1>5, <1>7
  <2>3. KROOT' = KROOT
    BY DEF KROOT
  <2> QED
    BY <1>8, <2>1, <2>2, <2>3 DEF CpuOk
<1>10. KernelMapped'
  BY <1>2, <1>7 DEF KernelMapped, KROOT
<1> QED
  BY <1>4, <1>6, <1>9, <1>10 DEF SpacesInv

(* Nothing happens to the memory of the pool. *)
LEMMA StillIs ==
  ASSUME BuildOk, FramesOk, Trees, UNCHANGED <<machine, free, space, frames>>,
         IsTables(pt)', \A f \in General \cup {KROOT} : pt'[f] = pt[f]
  PROVE  /\ BuildOk' /\ FramesOk' /\ Trees' /\ Live' = Live
         /\ \A p \in Live, v \in machine.user :
              LeafOf(pt', space'[p], v) = LeafOf(pt, space[p], v)
<1>1. BuildOk' /\ FramesOk' /\ Live' = Live /\ MachineOk(machine)
  BY Rigid, MachineFacts DEF BuildOk, FramesOk, Procs, Live, NoTwice
<1>2. ASSUME NEW p \in Live
      PROVE  /\ SpaceOk(MemoryFor(p), space[p], pt)'
             /\ \A v \in machine.user : LeafOf(pt', space'[p], v) = LeafOf(pt, space[p], v)
  <2>1. PICK m, n, root, old, new :
           /\ m = MemoryFor(p) /\ n = MemoryFor(p)' /\ root = space[p]
           /\ old = pt /\ new = pt'
    OBVIOUS
  <2>2. /\ m.frames = frames[p] /\ n.frames = frames'[p] /\ m.pt = pt /\ n.pt = pt'
    BY <2>1 DEF MemoryFor
  <2>3. Range(m.frames) \subseteq General
    <3>1. frames[p] \in Seq(General)
      BY DEF FramesOk, Live
    <3> QED
      BY <2>2, <3>1 DEF Range
  <2>4. /\ SpaceOk(m, root, old) /\ n.frames = m.frames /\ new[KROOT] = old[KROOT]
        /\ \A g \in Range(m.frames) : n.pt[g] = m.pt[g]
    BY <2>1, <2>2, <2>3 DEF Trees
  <2>5. SpaceOk(n, root, new) /\ SameLeaves(m, n, root)
    BY <1>1, <2>4, SpaceLocal
  <2>6. SpaceOk(n, root, new)'
    BY <2>5, RigidSpace
  <2>7. SpaceOk(MemoryFor(p), space[p], pt)'
    BY <2>1, <2>6
  <2> QED
    BY <2>1, <2>2, <2>5, <2>7 DEF SameLeaves
<1>3. Trees'
  BY <1>1, <1>2 DEF Trees
<1> QED
  BY <1>1, <1>2, <1>3

LEMMA StartIs ==
  ASSUME SpacesInv, Start
  PROVE  SpacesInv'
<1>1. /\ phase' = "run" /\ current' = 1 /\ active' = space[1]
      /\ UNCHANGED <<machine, pt, bytes, free, space, frames, id, shares, nextId,
                     arena, regions, nextRegion, plan, dying>>
  BY DEF Start, memory, process, shared
<1>2. 1 \in Live /\ dying = 0 /\ plan = << >>
  BY SpacesAssumption DEF SpacesInv, CpuOk, Start
<1>3. BuildOk' /\ FramesOk' /\ Trees' /\ Live' = Live
  <2>1. IsTables(pt)'
    BY <1>1, Rigid DEF SpacesInv, Trees
  <2> QED
    BY <1>1, <2>1, StillIs DEF SpacesInv
<1>4. SlotsOk' /\ RegionsOk'
  BY <1>1, Rigid DEF SpacesInv, SlotsOk, RegionsOk, RegionOk, Procs, Shares
<1>5. CpuOk'
  BY <1>1, <1>2, <1>3 DEF CpuOk
<1>6. PlanOk'
  BY <1>1, <1>3, PlanKept DEF SpacesInv
<1>7. KernelMapped'
  BY <1>1, <1>3, <1>5, RunningMapped
<1> QED
  BY <1>3, <1>4, <1>5, <1>6, <1>7 DEF SpacesInv

-----------------------------------------------------------------------------
(* Windows.                                                                *)

(* What a change of windows of a live process keeps. *)
LEMMA WorkedKeeps ==
  ASSUME BuildOk, FramesOk, Trees, NEW p \in Live, NEW o, Worked(p, o),
         SpaceOk(o, space[p], pt), machine' = machine, space' = space
  PROVE  /\ BuildOk' /\ FramesOk' /\ Trees' /\ Live' = Live
         /\ \A q \in Live, v \in machine.user :
              LeafOf(pt', space'[q], v) = IF q = p THEN Leaves(o, space[p])[v]
                                          ELSE LeafOf(pt, space[q], v)
<1>1. p \in Procs /\ Live' = Live
  BY DEF Live, Procs
<1>2. BuildOk'
  BY Rigid DEF BuildOk
<1>3. FramesOk' /\ IsTables(pt)'
  BY <1>1, WorkedFrames
<1>4. PICK root : root = space[p]
  OBVIOUS
<1>5. /\ SpaceOk(MemoryFor(p), space[p], pt)'
      /\ \A v \in machine.user : LeafOf(pt', space'[p], v) = Leaves(o, root)[v]
  BY <1>1, <1>4, WorkedSelf
<1>6. ASSUME NEW q \in Live, q # p
      PROVE  /\ SpaceOk(MemoryFor(q), space[q], pt)'
             /\ \A v \in machine.user : LeafOf(pt', space'[q], v) = LeafOf(pt, space[q], v)
  BY <1>1, <1>6, WorkedOthers
<1>7. Trees'
  BY <1>1, <1>3, <1>5, <1>6 DEF Trees
<1> QED
  BY <1>1, <1>2, <1>3, <1>4, <1>5, <1>6, <1>7

(* The memory a running process works on. *)
LEMMA CallerIs ==
  ASSUME SpacesInv, NEW p \in Live
  PROVE  /\ p \in Procs /\ MachineOk(machine) /\ GeometryOk(machine)
         /\ MemOk(MemoryFor(p), pt, Pool(p)) /\ SpaceOk(MemoryFor(p), space[p], pt)
  BY MachineFacts, MemoryIs DEF SpacesInv, Live, Trees

RemapWorks(p, o, w, n, F, perms) ==
  /\ Worked(p, o) /\ SpaceOk(o, space[p], pt)
  /\ Refitted(MemoryFor(p), o, space[p], w, n, F, perms)

LEMMA TakesWorks ==
  ASSUME SpacesInv, NEW p \in Live,
         NEW w, NEW n, IsWindow(w, n), Range(w) \subseteq WindowPages,
         NEW F, Len(F) \in 0..n, \A k \in 1..Len(F) : F[k] \notin General,
         NEW perms, NEW o, o = Remap(p, w, F, perms), Takes(p, o)
  PROVE  RemapWorks(p, o, w, n, F, perms)
<1>1. PICK m, root, old, pool : /\ m = MemoryFor(p) /\ root = space[p]
                                /\ old = pt /\ pool = Pool(p)
  OBVIOUS
<1>2. /\ MachineOk(machine) /\ GeometryOk(machine)
      /\ MemOk(m, old, pool) /\ SpaceOk(m, root, old)
  BY <1>1, CallerIs
<1>3. /\ MemOk(o, old, pool) /\ SpaceOk(o, root, old)
      /\ Refitted(m, o, root, w, n, F, perms)
  BY <1>1, <1>2, RemapSpace
<1>4. Worked(p, o)
  BY <1>1, <1>3 DEF Takes, Worked
<1> QED
  BY <1>1, <1>3, <1>4 DEF RemapWorks

DeviceWorks(o, perms) ==
  RemapWorks(current, o, DeviceWindow, 1, <<DEVICE>>, perms)

LEMMA MapDeviceIs ==
  ASSUME SpacesInv, NEW write, MapDevice(write)
  PROVE  \E o, perms :
           /\ DeviceWorks(o, perms) /\ current \in Live
           /\ perms \in {USER_RO, USER_RW, USER_RO \cup {"device"}, USER_RW \cup {"device"}}
<1>1. PICK perms : perms = (IF write THEN USER_RW ELSE USER_RO)
                             \cup (IF machine.bar THEN {"device"} ELSE {})
  OBVIOUS
<1>2. PICK o, p, w : /\ o = Remap(current, DeviceWindow, <<DEVICE>>, perms)
                     /\ p = current /\ w = DeviceWindow
  OBVIOUS
<1>3. Takes(p, o) /\ o = Remap(p, w, <<DEVICE>>, perms) /\ p \in Live
  BY <1>1, <1>2 DEF MapDevice, InCall, SpacesInv, CpuOk
<1>4. IsWindow(w, 1) /\ Range(w) \subseteq WindowPages
  BY <1>2, <1>3, CallerIs, WindowsAre DEF WindowPages
<1>5. PICK F : F = <<DEVICE>>
  OBVIOUS
<1>6. Len(F) = 1 /\ F[1] = DEVICE /\ Len(F) \in 0..1
  BY <1>5
<1>7. DEVICE \notin General
  <2>1. machine.general \in Nat /\ ArenaFrames \in Nat
    BY <1>3, CallerIs, SpacesAssumption DEF MachineOk
  <2> QED
    BY <2>1 DEF DEVICE, General
<1>8. \A k \in 1..Len(F) : F[k] \notin General
  BY <1>6, <1>7
<1>9. RemapWorks(p, o, w, 1, F, perms)
  BY <1>3, <1>4, <1>5, <1>6, <1>8, TakesWorks
<1>10. perms \in {USER_RO, USER_RW, USER_RO \cup {"device"}, USER_RW \cup {"device"}}
  BY <1>1
<1> QED
  BY <1>2, <1>3, <1>5, <1>9, <1>10 DEF DeviceWorks

(* Pages of windows are unmapped in the space of a live process. *)
UnmapWorks(p, o, w) ==
  /\ Worked(p, o) /\ SpaceOk(o, space[p], pt)
  /\ \A v \in machine.user : Leaves(o, space[p])[v]
                               = IF v \in Range(w) THEN EMPTY ELSE LeafOf(pt, space[p], v)

LEMMA UnmapIs ==
  ASSUME SpacesInv, NEW p \in Live, NEW w, Range(w) \subseteq WindowPages,
         pt' = UnmapAll(pt, space[p], Range(w)), free' = free, frames' = frames
  PROVE  \E o : UnmapWorks(p, o, w)
<1>1. PICK m, root, old, pool, o :
         /\ m = MemoryFor(p) /\ root = space[p] /\ old = pt /\ pool = Pool(p)
         /\ o = Cleared(m, root, w)
  OBVIOUS
<1>2. /\ MachineOk(machine) /\ GeometryOk(machine)
      /\ MemOk(m, old, pool) /\ SpaceOk(m, root, old)
  BY <1>1, CallerIs
<1>3. /\ MemOk(o, old, pool) /\ SpaceOk(o, root, old)
      /\ \A v \in machine.user : Leaves(o, root)[v] = IF v \in Range(w) THEN EMPTY
                                                      ELSE Leaves(m, root)[v]
  BY <1>1, <1>2, ClearedSpace
<1>4. o.pt = UnmapAll(pt, space[p], Range(w)) /\ o.free = free /\ o.frames = frames[p]
  BY <1>1 DEF Cleared, MemoryFor
<1>5. frames' = [frames EXCEPT ![p] = o.frames]
  <2>1. frames = [q \in Procs |-> frames[q]]
    BY DEF SpacesInv, FramesOk
  <2> QED
    BY <1>4, <2>1
<1>6. Worked(p, o)
  BY <1>1, <1>3, <1>4, <1>5 DEF Worked
<1>7. \A v \in machine.user : Leaves(m, root)[v] = LeafOf(pt, space[p], v)
  BY <1>1 DEF Leaves, MemoryFor
<1> QED
  BY <1>1, <1>3, <1>6, <1>7 DEF UnmapWorks

-----------------------------------------------------------------------------
(* Steps of the process that runs.                                         *)

LEMMA Calling ==
  ASSUME SpacesInv, InCall
  PROVE  /\ current \in Live /\ current \in Procs /\ current # 0 /\ active = space[current]
         /\ phase = "run" /\ dying = 0 /\ plan = << >>
  BY DEF SpacesInv, InCall, CpuOk, Live

(* The CPU stays where it is. *)
LEMMA CallKeeps ==
  ASSUME SpacesInv, InCall, UNCHANGED <<machine, cpu>>,
         Live \subseteq Live', space'[current] = space[current],
         dying' \in {0, current}, Trees'
  PROVE  CpuOk' /\ KernelMapped'
<1>1. /\ current' = current /\ active' = active /\ phase' = phase
      /\ current \in Live' /\ current # 0 /\ active = space[current] /\ phase = "run"
  BY Calling DEF cpu
<1>2. CpuOk'
  BY <1>1 DEF CpuOk
<1> QED
  BY <1>1, <1>2, RunningMapped

LEMMA SpawnKeeps ==
  ASSUME SpacesInv, Spawn
  PROVE  SpacesInv'
<1>1. PICK p : p = Min(Procs \ Live)
  OBVIOUS
<1>2. p \in Procs
  <2>1. Procs \ Live \subseteq Nat /\ Procs \ Live # {}
    BY SpacesAssumption DEF Spawn, Procs, Live
  <2> QED
    BY <1>1, <2>1, MinIs
<1>3. LoadProcess(p) /\ UNCHANGED cpu /\ InCall
  BY <1>1 DEF Spawn
<1>4. /\ BuildOk' /\ FramesOk' /\ SlotsOk' /\ RegionsOk' /\ Trees'
      /\ Live \subseteq Live' /\ \A q \in Live : space'[q] = space[q]
  BY <1>2, <1>3, LoadKeeps
<1>5. UNCHANGED <<machine, plan, dying>>
  BY <1>3 DEF LoadProcess
<1>6. PlanOk'
  BY <1>4, <1>5, PlanKept DEF SpacesInv
<1>7. current \in Live /\ dying = 0
  BY <1>3, Calling
<1>8. CpuOk' /\ KernelMapped'
  BY <1>3, <1>4, <1>5, <1>7, CallKeeps
<1> QED
  BY <1>4, <1>6, <1>8 DEF SpacesInv

LEMMA ResumeKeeps ==
  ASSUME SpacesInv, NEW p \in Procs, Resume(p)
  PROVE  SpacesInv'
<1>1. /\ p \in Live /\ current' = p /\ active' = space[p] /\ phase = "run" /\ phase' = phase
      /\ UNCHANGED <<machine, pt, bytes, free, space, frames, shares,
                     arena, regions, nextRegion, plan, dying>>
      /\ dying = 0 /\ plan = << >>
  BY DEF Resume, memory, process, shared
<1>2. BuildOk' /\ FramesOk' /\ Trees' /\ Live' = Live
  <2>1. IsTables(pt)'
    BY <1>1, Rigid DEF SpacesInv, Trees
  <2> QED
    BY <1>1, <2>1, StillIs DEF SpacesInv
<1>3. SlotsOk' /\ RegionsOk'
  BY <1>1, Rigid DEF SpacesInv, SlotsOk, RegionsOk, RegionOk, Procs, Shares
<1>4. p # 0
  BY DEF Procs
<1>5. CpuOk'
  BY <1>1, <1>2, <1>4 DEF CpuOk
<1>6. PlanOk'
  BY <1>1, <1>2, PlanKept DEF SpacesInv
<1>7. KernelMapped'
  BY <1>1, <1>2, <1>4, <1>5, RunningMapped
<1> QED
  BY <1>2, <1>3, <1>5, <1>6, <1>7 DEF SpacesInv

(* The windows of one process change. *)
LEMMA WindowKept ==
  ASSUME SpacesInv, NEW p \in Live, NEW o, Worked(p, o), SpaceOk(o, space[p], pt),
         UNCHANGED <<machine, space, shared>>,
         shares' \in [Procs -> [Shares -> Nat]],
         \A q \in Procs : \A s, t \in Shares :
           shares'[q][s] = shares'[q][t] /\ shares'[q][s] # 0 => s = t
  PROVE  BuildOk' /\ FramesOk' /\ SlotsOk' /\ RegionsOk' /\ Trees' /\ Live' = Live
<1>1. BuildOk /\ FramesOk /\ SlotsOk /\ RegionsOk /\ Trees
  BY DEF SpacesInv
<1>2. BuildOk' /\ FramesOk' /\ Trees' /\ Live' = Live
  BY <1>1, WorkedKeeps
<1>3. Procs' = Procs /\ Shares' = Shares /\ p \in Procs
  BY DEF Procs, Shares, Live
<1>4. SlotsOk'
  <2>1. \A q \in Procs : space'[q] = 0 => frames'[q] = << >>
    <3>1. \A q \in Procs : q # p => frames'[q] = frames[q]
      BY <1>1, <1>3, WorkedFrames
    <3>2. space[p] # 0
      BY DEF Live
    <3> QED
      BY <1>1, <3>1, <3>2 DEF SlotsOk
  <2> QED
    BY <1>1, <1>3, <2>1 DEF SlotsOk
<1>5. RegionsOk'
  BY <1>1, Rigid DEF RegionsOk, RegionOk, shared
<1> QED
  BY <1>2, <1>4, <1>5

LEMMA WindowKeeps ==
  ASSUME SpacesInv, InCall, NEW p \in Live, NEW o, Worked(p, o), SpaceOk(o, space[p], pt),
         UNCHANGED <<machine, space, shared, cpu, plan, dying>>,
         shares' \in [Procs -> [Shares -> Nat]],
         \A q \in Procs : \A s, t \in Shares :
           shares'[q][s] = shares'[q][t] /\ shares'[q][s] # 0 => s = t
  PROVE  SpacesInv'
<1>1. BuildOk' /\ FramesOk' /\ SlotsOk' /\ RegionsOk' /\ Trees' /\ Live' = Live
  BY WindowKept
<1>2. PlanOk'
  BY <1>1, PlanKept DEF SpacesInv
<1>3. CpuOk' /\ KernelMapped'
  BY <1>1, Calling, CallKeeps
<1> QED
  BY <1>1, <1>2, <1>3 DEF SpacesInv

LEMMA MapDeviceKeeps ==
  ASSUME SpacesInv, NEW write, MapDevice(write)
  PROVE  SpacesInv'
<1>1. PICK o, perms : DeviceWorks(o, perms) /\ current \in Live
  BY MapDeviceIs
<1>2. PICK p : p = current
  OBVIOUS
<1>3. Worked(p, o) /\ SpaceOk(o, space[p], pt) /\ p \in Live
  BY <1>1, <1>2 DEF DeviceWorks, RemapWorks
<1>4. UNCHANGED <<machine, space, shares, shared, cpu, plan, dying>> /\ InCall
  BY DEF MapDevice
<1> QED
  BY <1>3, <1>4, WindowKeeps DEF SpacesInv, SlotsOk

LEMMA UnmapDeviceIs ==
  ASSUME SpacesInv, NEW p \in Procs, UnmapDevice(p)
  PROVE  p \in Live /\ \E o : UnmapWorks(p, o, DeviceWindow)
<1>1. p \in Live /\ UNCHANGED <<free, frames>>
      /\ pt' = UnmapAll(pt, space[p], Range(DeviceWindow))
  BY DEF UnmapDevice, process
<1>2. PICK w : w = DeviceWindow
  OBVIOUS
<1>3. Range(w) \subseteq WindowPages
  BY <1>1, <1>2, CallerIs, WindowsAre DEF WindowPages
<1> QED
  BY <1>1, <1>2, <1>3, UnmapIs

LEMMA UnmapDeviceKeeps ==
  ASSUME SpacesInv, NEW p \in Procs, UnmapDevice(p)
  PROVE  SpacesInv'
<1>1. PICK o : UnmapWorks(p, o, DeviceWindow)
  BY UnmapDeviceIs
<1>2. Worked(p, o) /\ SpaceOk(o, space[p], pt) /\ p \in Live
  BY <1>1 DEF UnmapWorks, UnmapDevice
<1>3. UNCHANGED <<machine, space, shares, shared, cpu, plan, dying>> /\ InCall
  BY DEF UnmapDevice, process
<1> QED
  BY <1>2, <1>3, WindowKeeps DEF SpacesInv, SlotsOk

(* A region goes where the process has it, or into a free window. *)
MapsInto(i, s, o, perms) ==
  /\ RemapWorks(current, o, ShareWindow(s), REGION_MAX_PAGES, regions[i].frames, perms)
  /\ regions[i].live /\ current \in Live
  /\ shares' = IF o.ok THEN [shares EXCEPT ![current][s] = regions[i].id] ELSE shares
  /\ \/ shares[current][s] = regions[i].id
     \/ shares[current][s] = 0 /\ \A t \in Shares : shares[current][t] # regions[i].id

LEMMA MapRegionIs ==
  ASSUME SpacesInv, NEW i \in 1..MAX_REGIONS, NEW write, MapRegion(i, write)
  PROVE  \E o, s, perms : /\ s \in Shares /\ perms \in {USER_RO, USER_RW}
                          /\ MapsInto(i, s, o, perms)
<1> DEFINE own == {s \in Shares : shares[current][s] = regions[i].id}
           none == {s \in Shares : shares[current][s] = 0}
<1>1. PICK perms : perms = IF write THEN USER_RW ELSE USER_RO
  OBVIOUS
<1>2. PICK s : s = Min(IF own # {} THEN own ELSE none)
  OBVIOUS
<1>3. s \in Shares /\ s \in (IF own # {} THEN own ELSE none)
  <2>1. (IF own # {} THEN own ELSE none) # {}
    BY DEF MapRegion
  <2>2. (IF own # {} THEN own ELSE none) \subseteq Nat
    BY DEF Shares
  <2>3. s \in (IF own # {} THEN own ELSE none)
    BY <1>2, <2>1, <2>2, MinIs
  <2> QED
    BY <2>3
<1>4. PICK o, p, w, F : /\ o = Remap(current, ShareWindow(s), regions[i].frames, perms)
                        /\ p = current /\ w = ShareWindow(s) /\ F = regions[i].frames
  OBVIOUS
<1>5. /\ Takes(p, o) /\ regions[i].live /\ InCall
      /\ shares' = IF o.ok THEN [shares EXCEPT ![current][s] = regions[i].id] ELSE shares
  BY <1>1, <1>2, <1>4 DEF MapRegion
<1>6. p \in Live /\ MachineOk(machine) /\ GeometryOk(machine)
  BY <1>4, <1>5, Calling, CallerIs
<1>7. IsWindow(w, REGION_MAX_PAGES) /\ Range(w) \subseteq WindowPages
  BY <1>3, <1>4, <1>6, WindowsAre DEF WindowPages
<1>8. /\ Len(F) \in 0..REGION_MAX_PAGES
      /\ \A k \in 1..Len(F) : F[k] \notin General
  <2>1. F \in Seq(Arena) /\ Len(F) <= REGION_MAX_PAGES
    BY <1>4, <1>5 DEF SpacesInv, RegionsOk, RegionOk
  <2>2. REGION_MAX_PAGES \in Nat
    BY SpacesAssumption
  <2>3. Len(F) \in 0..REGION_MAX_PAGES
    BY <2>1, <2>2
  <2>4. General \cap Arena = {}
    BY <1>6, FramesAre
  <2> QED
    BY <2>1, <2>3, <2>4
<1>9. RemapWorks(p, o, w, REGION_MAX_PAGES, F, perms)
  BY <1>4, <1>5, <1>6, <1>7, <1>8, TakesWorks
<1>10. \/ shares[current][s] = regions[i].id
       \/ shares[current][s] = 0 /\ \A t \in Shares : shares[current][t] # regions[i].id
  BY <1>3
<1>11. perms \in {USER_RO, USER_RW}
  BY <1>1
<1>12. MapsInto(i, s, o, perms)
  <2> HIDE DEF own, none
  <2> QED
    BY <1>4, <1>5, <1>6, <1>9, <1>10 DEF MapsInto
<1> QED
  BY <1>3, <1>11, <1>12

LEMMA MapRegionKeeps ==
  ASSUME SpacesInv, NEW i \in 1..MAX_REGIONS, NEW write, MapRegion(i, write)
  PROVE  SpacesInv'
<1>1. PICK o, s, perms : s \in Shares /\ MapsInto(i, s, o, perms)
  BY MapRegionIs
<1>2. PICK p, r : p = current /\ r = regions[i].id
  OBVIOUS
<1>3. /\ Worked(p, o) /\ SpaceOk(o, space[p], pt) /\ p \in Live
      /\ shares' = IF o.ok THEN [shares EXCEPT ![p][s] = r] ELSE shares
      /\ shares[p][s] = r \/ \A t \in Shares : shares[p][t] # r
  BY <1>1, <1>2 DEF MapsInto, RemapWorks
<1>4. UNCHANGED <<machine, space, shared, cpu, plan, dying>> /\ InCall
  BY DEF MapRegion
<1>5. r \in Nat /\ p \in Procs
  BY <1>1, <1>2, <1>3 DEF MapsInto, SpacesInv, RegionsOk, RegionOk, Live
<1>6. /\ shares \in [Procs -> [Shares -> Nat]]
      /\ \A q \in Procs : \A t, u \in Shares :
           shares[q][t] = shares[q][u] /\ shares[q][t] # 0 => t = u
  BY DEF SpacesInv, SlotsOk
<1>7. shares' \in [Procs -> [Shares -> Nat]]
  BY <1>1, <1>3, <1>5, <1>6
<1>8. ASSUME NEW q \in Procs, NEW t \in Shares, NEW u \in Shares,
             shares'[q][t] = shares'[q][u], shares'[q][t] # 0
      PROVE  t = u
  <2>1. CASE ~o.ok \/ q # p
    <3>1. shares'[q] = shares[q]
      BY <1>3, <1>5, <1>6, <2>1
    <3> QED
      BY <1>6, <1>8, <3>1
  <2>2. CASE o.ok /\ q = p
    <3>1. /\ shares'[p][s] = r
          /\ \A x \in Shares : x # s => shares'[p][x] = shares[p][x]
      BY <1>1, <1>3, <1>5, <1>6, <2>2
    <3>2. \A x \in Shares : x # s /\ r # 0 => shares[p][x] # r
      BY <1>1, <1>3, <1>5, <1>6
    <3> QED
      BY <1>6, <1>5, <1>8, <2>2, <3>1, <3>2
  <2> QED
    BY <2>1, <2>2
<1> QED
  BY <1>3, <1>4, <1>7, <1>8, WindowKeeps

(* A process has a region in one window. *)
LEMMA UnmapRegionIs ==
  ASSUME SpacesInv, NEW p \in Procs, NEW r \in 1..MaxRegionId, UnmapRegion(p, r)
  PROVE  /\ p \in Live
         /\ \E s \in Shares : /\ shares[p][s] = r
                              /\ shares' = [shares EXCEPT ![p][s] = 0]
                              /\ \E o : UnmapWorks(p, o, ShareWindow(s))
<1> DEFINE held == {s \in Shares : shares[p][s] = r}
<1>1. /\ p \in Live /\ held # {} /\ free' = free /\ frames' = frames
      /\ pt' = UnmapAll(pt, space[p], UNION {Range(ShareWindow(s)) : s \in held})
      /\ shares' = [shares EXCEPT ![p] =
                      [s \in Shares |-> IF s \in held THEN 0 ELSE @[s]]]
  BY DEF UnmapRegion
<1>2. PICK s \in Shares : shares[p][s] = r
  BY <1>1
<1>3. held = {s}
  <2>1. r # 0
    OBVIOUS
  <2>2. \A t \in Shares : shares[p][t] = r => t = s
    BY <1>2, <2>1 DEF SpacesInv, SlotsOk
  <2> QED
    BY <1>2, <2>2
<1>4. PICK w : w = ShareWindow(s)
  OBVIOUS
<1>5. UNION {Range(ShareWindow(t)) : t \in held} = Range(w)
  <2> HIDE DEF held
  <2> QED
    BY <1>3, <1>4
<1>6. shares' = [shares EXCEPT ![p][s] = 0]
  <2>1. shares \in [Procs -> [Shares -> Nat]]
    BY DEF SpacesInv, SlotsOk
  <2>2. shares' = [shares EXCEPT ![p] = [t \in Shares |-> IF t \in {s} THEN 0
                                                          ELSE shares[p][t]]]
    <3> HIDE DEF held
    <3> QED
      BY <1>1, <1>3, <2>1
  <2>3. [t \in Shares |-> IF t \in {s} THEN 0 ELSE shares[p][t]]
          = [shares[p] EXCEPT ![s] = 0]
    BY <2>1
  <2> QED
    BY <2>1, <2>2, <2>3
<1>7. Range(w) \subseteq WindowPages
  BY <1>1, <1>4, CallerIs, WindowsAre DEF WindowPages
<1>8. \E o : UnmapWorks(p, o, w)
  <2>1. pt' = UnmapAll(pt, space[p], Range(w)) /\ free' = free /\ frames' = frames
    BY <1>1, <1>5
  <2> QED
    BY <1>1, <1>7, <2>1, UnmapIs
<1> QED
  BY <1>1, <1>2, <1>4, <1>6, <1>8

LEMMA SlotCleared ==
  ASSUME SlotsOk, NEW p \in Procs, NEW s \in Shares,
         shares' = [shares EXCEPT ![p][s] = 0]
  PROVE  /\ shares' \in [Procs -> [Shares -> Nat]]
         /\ \A q \in Procs, t \in Shares :
              shares'[q][t] = IF q = p /\ t = s THEN 0 ELSE shares[q][t]
         /\ \A q \in Procs : \A t, u \in Shares :
              shares'[q][t] = shares'[q][u] /\ shares'[q][t] # 0 => t = u
<1>1. shares \in [Procs -> [Shares -> Nat]]
  BY DEF SlotsOk
<1>2. \A q \in Procs, t \in Shares :
        shares'[q][t] = IF q = p /\ t = s THEN 0 ELSE shares[q][t]
  BY <1>1
<1>3. shares' \in [Procs -> [Shares -> Nat]]
  BY <1>1
<1>4. ASSUME NEW q \in Procs, NEW t \in Shares, NEW u \in Shares,
             shares'[q][t] = shares'[q][u], shares'[q][t] # 0
      PROVE  t = u
  <2>1. shares[q][t] = shares'[q][t] /\ shares[q][u] = shares'[q][u]
    BY <1>2, <1>4
  <2> QED
    BY <1>4, <2>1 DEF SlotsOk
<1> QED
  BY <1>2, <1>3, <1>4

LEMMA UnmapRegionKeeps ==
  ASSUME SpacesInv, NEW p \in Procs, NEW r \in 1..MaxRegionId, UnmapRegion(p, r)
  PROVE  SpacesInv'
<1>1. PICK s \in Shares : /\ shares' = [shares EXCEPT ![p][s] = 0]
                          /\ \E o : UnmapWorks(p, o, ShareWindow(s))
  BY UnmapRegionIs
<1>2. PICK o : UnmapWorks(p, o, ShareWindow(s))
  BY <1>1
<1>3. Worked(p, o) /\ SpaceOk(o, space[p], pt) /\ p \in Live
  BY <1>2, UnmapRegionIs DEF UnmapWorks
<1>4. UNCHANGED <<machine, space, shared, cpu, plan, dying>> /\ InCall
  BY DEF UnmapRegion
<1>5. /\ shares' \in [Procs -> [Shares -> Nat]]
      /\ \A q \in Procs : \A t, u \in Shares :
           shares'[q][t] = shares'[q][u] /\ shares'[q][t] # 0 => t = u
  BY <1>1, SlotCleared DEF SpacesInv
<1> QED
  BY <1>3, <1>4, <1>5, WindowKeeps

-----------------------------------------------------------------------------
(* Plans.                                                                  *)

LEMMA TupleIs ==
  ASSUME NEW S, NEW n \in Nat, NEW F \in [1..n -> S]
  PROVE  F \in Seq(S) /\ Len(F) = n
  OBVIOUS

LEMMA StepsAre ==
  /\ \A p, s, r : /\ UnmapStep(p, s, r).do = "unmap" /\ UnmapStep(p, s, r).proc = p
                  /\ UnmapStep(p, s, r).slot = s /\ UnmapStep(p, s, r).region = r
  /\ \A r : /\ ForgetCapsStep(r).do = "forget" /\ ForgetCapsStep(r).region = r
            /\ ReleaseStep(r).do = "release" /\ ReleaseStep(r).region = r
  /\ \A p \in Procs, s \in Shares, r \in Nat : UnmapStep(p, s, r) \in Steps
  /\ \A r \in Nat : ForgetCapsStep(r) \in Steps /\ ReleaseStep(r) \in Steps
  /\ \A e \in Steps :
       /\ e.do \in {"unmap", "forget", "release"} /\ e.region \in Nat
       /\ e.do = "unmap" => e.proc \in Procs /\ e.slot \in Shares
<1>1. /\ \A p, s, r : /\ UnmapStep(p, s, r).do = "unmap" /\ UnmapStep(p, s, r).proc = p
                      /\ UnmapStep(p, s, r).slot = s /\ UnmapStep(p, s, r).region = r
      /\ \A r : /\ ForgetCapsStep(r).do = "forget" /\ ForgetCapsStep(r).region = r
                /\ ReleaseStep(r).do = "release" /\ ReleaseStep(r).region = r
  BY DEF UnmapStep, ForgetCapsStep, ReleaseStep
<1>2. \A e \in Steps :
        \/ \E p \in Procs, s \in Shares, r \in Nat : e = UnmapStep(p, s, r)
        \/ \E r \in Nat : e = ForgetCapsStep(r)
        \/ \E r \in Nat : e = ReleaseStep(r)
  BY DEF Steps
<1>3. /\ \A p \in Procs, s \in Shares, r \in Nat : UnmapStep(p, s, r) \in Steps
      /\ \A r \in Nat : ForgetCapsStep(r) \in Steps /\ ReleaseStep(r) \in Steps
  BY DEF Steps
<1> QED
  BY <1>1, <1>2, <1>3

(* What a table of holders is, and who holds a region. *)
IsHolders(H) ==
  /\ H \in Seq({H[p] : p \in Procs}) /\ Len(H) = MAX_PROCS
  /\ \A p \in Procs : H[p].slots \in [Shares -> Nat] /\ H[p].live \in BOOLEAN
Holds(H, p, s, r) == H[p].live /\ H[p].slots[s] = r

HeldByOk(F, h, p, r) ==
  /\ F \in Seq(Steps) /\ NoTwice(F)
  /\ \A e \in Range(F) : \E s \in Shares : /\ e = UnmapStep(p, s, r)
                                           /\ h.live /\ h.slots[s] = r
  /\ \A s \in Shares : h.live /\ h.slots[s] = r => UnmapStep(p, s, r) \in Range(F)

LEMMA HeldByIs ==
  ASSUME NEW h, h.slots \in [Shares -> Nat], NEW p \in Procs, NEW r \in Nat
  PROVE  HeldByOk(HeldBy(h, p, r), h, p, r)
<1>1. SHARE_SLOTS \in Nat /\ DOMAIN h.slots = Shares /\ Shares = 1..SHARE_SLOTS
  BY SpacesAssumption DEF Shares
<1>2. Len(h.slots) = SHARE_SLOTS
  BY <1>1, TupleIs
<1>3. PICK T, held : /\ T = {s \in Shares : h.live /\ h.slots[s] = r}
                     /\ held = Ascending(T, SHARE_SLOTS)
  OBVIOUS
<1>4. held \in Seq(1..SHARE_SLOTS) /\ NoTwice(held) /\ Range(held) = T
  <2>1. held \in Seq(1..SHARE_SLOTS) /\ NoTwice(held) /\ Range(held) = T \cap (1..SHARE_SLOTS)
    BY <1>1, <1>3, AscendingIs
  <2> QED
    BY <1>1, <1>3, <2>1
<1>5. PICK F, n : F = HeldBy(h, p, r) /\ n = Len(held)
  OBVIOUS
<1>6. F = [k \in 1..n |-> UnmapStep(p, held[k], r)]
  BY <1>1, <1>2, <1>3, <1>5 DEF HeldBy
<1>7. n \in Nat /\ \A k \in 1..n : held[k] \in T /\ held[k] \in Shares
  <2>1. n \in Nat /\ DOMAIN held = 1..n
    BY <1>4, <1>5
  <2> QED
    BY <1>3, <1>4, <2>1 DEF Range
<1>8. F \in [1..n -> Steps]
  BY <1>6, <1>7, StepsAre
<1>9. F \in Seq(Steps) /\ Len(F) = n /\ DOMAIN F = 1..n
  BY <1>7, <1>8, TupleIs
<1>10. NoTwice(F)
  <2> SUFFICES ASSUME NEW i \in 1..n, NEW j \in 1..n, F[i] = F[j] PROVE i = j
    BY <1>9 DEF NoTwice
  <2>1. held[i] = held[j]
    BY <1>6, StepsAre
  <2> QED
    BY <1>4, <1>5, <2>1 DEF NoTwice
<1>11. ASSUME NEW e \in Range(F)
       PROVE  \E s \in Shares : e = UnmapStep(p, s, r) /\ h.live /\ h.slots[s] = r
  <2>1. PICK k \in 1..n : e = F[k]
    BY <1>9 DEF Range
  <2> QED
    BY <1>3, <1>6, <1>7, <2>1
<1>12. ASSUME NEW s \in Shares, h.live, h.slots[s] = r
       PROVE  UnmapStep(p, s, r) \in Range(F)
  <2>1. s \in Range(held)
    BY <1>3, <1>4, <1>12
  <2>2. PICK k \in 1..n : held[k] = s
    BY <1>4, <1>5, <2>1 DEF Range
  <2> QED
    BY <1>6, <1>9, <2>2 DEF Range
<1> QED
  BY <1>5, <1>9, <1>10, <1>11, <1>12 DEF HeldByOk

(* The holders are listed process by process. *)
Listed(e, p, H, r) == e \o HeldBy(H[p], p, r)

HoldersRun(f, H, r) ==
  /\ f[0] = << >>
  /\ \A k \in 1..Len(H) : f[k] = Listed(f[k - 1], k, H, r)
  /\ HoldersOf(H, r) = f[Len(H)]

LEMMA HoldersSteps ==
  ASSUME NEW H, NEW r, Len(H) \in Nat
  PROVE  \E f : HoldersRun(f, H, r)
<1> DEFINE first == << >>
           Upto(j, f) == f = [k \in 0..j |-> IF k = 0 THEN first
                                             ELSE Listed(f[k - 1], k, H, r)]
           P == {j \in 0..Len(H) : \E f : Upto(j, f)}
<1>0. Len(H) \in Nat
  OBVIOUS
<1> HIDE DEF first
<1>1. 0 \in P
  <2>1. Upto(0, [k \in 0..0 |-> first])
    OBVIOUS
  <2> HIDE DEF Upto
  <2> QED
    BY <1>0, <2>1
<1>2. ASSUME NEW j \in 1..Len(H), j - 1 \in P PROVE j \in P
  <2>1. PICK f : Upto(j - 1, f)
    BY <1>2
  <2> DEFINE g == [k \in 0..j |-> IF k = j THEN Listed(f[j - 1], j, H, r) ELSE f[k]]
  <2>2. \A k \in 0..j : g[k] = IF k = 0 THEN first ELSE Listed(g[k - 1], k, H, r)
    <3> SUFFICES ASSUME NEW k \in 0..j
                 PROVE  g[k] = IF k = 0 THEN first ELSE Listed(g[k - 1], k, H, r)
      OBVIOUS
    <3>1. CASE k = j
      <4>1. k # 0 /\ k - 1 \in 0..j /\ k - 1 # j
        BY <1>0, <3>1
      <4>2. g[k - 1] = f[j - 1] /\ g[k] = Listed(f[j - 1], j, H, r)
        BY <3>1, <4>1
      <4> HIDE DEF g
      <4> QED
        BY <3>1, <4>1, <4>2
    <3>2. CASE k # j
      <4>1. k \in 0..(j - 1) /\ g[k] = f[k]
        BY <1>0, <3>2
      <4>2. k # 0 => k - 1 \in 0..j /\ k - 1 # j /\ g[k - 1] = f[k - 1]
        BY <1>0, <3>2
      <4>3. f[k] = IF k = 0 THEN first ELSE Listed(f[k - 1], k, H, r)
        BY <2>1, <4>1
      <4> HIDE DEF g
      <4> QED
        BY <4>1, <4>2, <4>3
    <3> QED
      BY <3>1, <3>2
  <2>3. g = [k \in 0..j |-> g[k]]
    OBVIOUS
  <2>4. Upto(j, g)
    <3> HIDE DEF g
    <3> QED
      BY <2>2, <2>3
  <2> HIDE DEF Upto, g
  <2> QED
    BY <2>4
<1>3. PICK f : Upto(Len(H), f)
  <2> HIDE DEF P
  <2>1. PICK N \in Nat : N = Len(H)
    BY <1>0
  <2>2. 0 \in P /\ \A k \in 1..N : k - 1 \in P => k \in P
    BY <1>1, <1>2, <2>1
  <2>3. \A k \in 0..N : k \in P
    BY <2>2, Induct
  <2>4. Len(H) \in P
    BY <2>1, <2>3
  <2> QED
    BY <2>4 DEF P
<1> DEFINE Eqn(a) == a = [k \in 0..Len(H) |->
                         IF k = 0 THEN << >>
                         ELSE a[k - 1] \o HeldBy(H[k], k, r)]
<1>4. Eqn(f)
  BY <1>3 DEF first, Listed
<1>5. PICK a : a = CHOOSE x : Eqn(x)
  OBVIOUS
<1>6. Eqn(a)
  <2> HIDE DEF Eqn
  <2> QED
    BY <1>4, <1>5
<1>7. HoldersOf(H, r) = a[Len(H)]
  BY <1>5 DEF HoldersOf
<1>8. a[0] = << >>
  BY <1>0, <1>6 DEF Listed
<1>9. ASSUME NEW k \in 1..Len(H) PROVE a[k] = Listed(a[k - 1], k, H, r)
  <2>1. k \in 0..Len(H) /\ k # 0
    BY <1>0
  <2> QED
    BY <1>6, <2>1 DEF Listed
<1> QED
  BY <1>7, <1>8, <1>9 DEF HoldersRun

(* The regions of a process are destroyed one by one. *)
TornDown(e, i, Rg, H, d) ==
  IF Rg[i].live /\ Rg[i].owner = d THEN e \o Destroy(Rg, H, Rg[i].id) ELSE e

OwnedRun(f, Rg, H, d) ==
  /\ f[0] = << >>
  /\ \A k \in 1..Len(Rg) : f[k] = TornDown(f[k - 1], k, Rg, H, d)
  /\ DestroyOwned(Rg, H, d) = f[Len(Rg)]

LEMMA OwnedSteps ==
  ASSUME NEW Rg, NEW H, NEW d, Len(Rg) \in Nat
  PROVE  \E f : OwnedRun(f, Rg, H, d)
<1> DEFINE first == << >>
           Upto(j, f) == f = [k \in 0..j |-> IF k = 0 THEN first
                                             ELSE TornDown(f[k - 1], k, Rg, H, d)]
           P == {j \in 0..Len(Rg) : \E f : Upto(j, f)}
<1>0. Len(Rg) \in Nat
  OBVIOUS
<1> HIDE DEF first
<1>1. 0 \in P
  <2>1. Upto(0, [k \in 0..0 |-> first])
    OBVIOUS
  <2> HIDE DEF Upto
  <2> QED
    BY <1>0, <2>1
<1>2. ASSUME NEW j \in 1..Len(Rg), j - 1 \in P PROVE j \in P
  <2>1. PICK f : Upto(j - 1, f)
    BY <1>2
  <2> DEFINE g == [k \in 0..j |-> IF k = j THEN TornDown(f[j - 1], j, Rg, H, d) ELSE f[k]]
  <2>2. \A k \in 0..j : g[k] = IF k = 0 THEN first ELSE TornDown(g[k - 1], k, Rg, H, d)
    <3> SUFFICES ASSUME NEW k \in 0..j
                 PROVE  g[k] = IF k = 0 THEN first ELSE TornDown(g[k - 1], k, Rg, H, d)
      OBVIOUS
    <3>1. CASE k = j
      <4>1. k # 0 /\ k - 1 \in 0..j /\ k - 1 # j
        BY <1>0, <3>1
      <4>2. g[k - 1] = f[j - 1] /\ g[k] = TornDown(f[j - 1], j, Rg, H, d)
        BY <3>1, <4>1
      <4> HIDE DEF g
      <4> QED
        BY <3>1, <4>1, <4>2
    <3>2. CASE k # j
      <4>1. k \in 0..(j - 1) /\ g[k] = f[k]
        BY <1>0, <3>2
      <4>2. k # 0 => k - 1 \in 0..j /\ k - 1 # j /\ g[k - 1] = f[k - 1]
        BY <1>0, <3>2
      <4>3. f[k] = IF k = 0 THEN first ELSE TornDown(f[k - 1], k, Rg, H, d)
        BY <2>1, <4>1
      <4> HIDE DEF g
      <4> QED
        BY <4>1, <4>2, <4>3
    <3> QED
      BY <3>1, <3>2
  <2>3. g = [k \in 0..j |-> g[k]]
    OBVIOUS
  <2>4. Upto(j, g)
    <3> HIDE DEF g
    <3> QED
      BY <2>2, <2>3
  <2> HIDE DEF Upto, g
  <2> QED
    BY <2>4
<1>3. PICK f : Upto(Len(Rg), f)
  <2> HIDE DEF P
  <2>1. PICK N \in Nat : N = Len(Rg)
    BY <1>0
  <2>2. 0 \in P /\ \A k \in 1..N : k - 1 \in P => k \in P
    BY <1>1, <1>2, <2>1
  <2>3. \A k \in 0..N : k \in P
    BY <2>2, Induct
  <2>4. Len(Rg) \in P
    BY <2>1, <2>3
  <2> QED
    BY <2>4 DEF P
<1> DEFINE Eqn(a) == a = [k \in 0..Len(Rg) |->
                         IF k = 0 THEN << >>
                         ELSE IF Rg[k].live /\ Rg[k].owner = d
                              THEN a[k - 1] \o Destroy(Rg, H, Rg[k].id)
                              ELSE a[k - 1]]
<1>4. Eqn(f)
  BY <1>3 DEF first, TornDown
<1>5. PICK a : a = CHOOSE x : Eqn(x)
  OBVIOUS
<1>6. Eqn(a)
  <2> HIDE DEF Eqn
  <2> QED
    BY <1>4, <1>5
<1>7. DestroyOwned(Rg, H, d) = a[Len(Rg)]
  BY <1>5 DEF DestroyOwned
<1>8. a[0] = << >>
  BY <1>0, <1>6 DEF TornDown
<1>9. ASSUME NEW k \in 1..Len(Rg) PROVE a[k] = TornDown(a[k - 1], k, Rg, H, d)
  <2>1. k \in 0..Len(Rg) /\ k # 0
    BY <1>0
  <2> QED
    BY <1>6, <2>1 DEF TornDown
<1> QED
  BY <1>7, <1>8, <1>9 DEF OwnedRun

LEMMA ConcatIs ==
  ASSUME NEW S, NEW F \in Seq(S), NEW G \in Seq(S)
  PROVE  /\ F \o G \in Seq(S) /\ Len(F \o G) = Len(F) + Len(G)
         /\ Len(F) \in Nat /\ Len(G) \in Nat
         /\ \A k \in 1..Len(F) : (F \o G)[k] = F[k]
         /\ \A k \in 1..Len(G) : (F \o G)[Len(F) + k] = G[k]
         /\ \A k \in 1..Len(F \o G) : \/ k \in 1..Len(F)
                                      \/ k - Len(F) \in 1..Len(G) /\ k = Len(F) + (k - Len(F))
         /\ Range(F \o G) = Range(F) \cup Range(G)
<1>1. /\ F \o G \in Seq(S) /\ Len(F \o G) = Len(F) + Len(G)
      /\ Len(F) \in Nat /\ Len(G) \in Nat
      /\ DOMAIN F = 1..Len(F) /\ DOMAIN G = 1..Len(G)
      /\ DOMAIN (F \o G) = 1..(Len(F) + Len(G))
      /\ \A k \in 1..Len(F) : (F \o G)[k] = F[k]
  OBVIOUS
<1>2. ASSUME NEW k \in 1..Len(G) PROVE (F \o G)[Len(F) + k] = G[k]
  OBVIOUS
<1>3. \A k \in 1..Len(F \o G) : \/ k \in 1..Len(F)
                                \/ k - Len(F) \in 1..Len(G) /\ k = Len(F) + (k - Len(F))
  BY <1>1
<1>4. Range(F \o G) = Range(F) \cup Range(G)
  <2>1. ASSUME NEW k \in 1..Len(F \o G) PROVE (F \o G)[k] \in Range(F) \cup Range(G)
    <3>1. CASE k \in 1..Len(F)
      BY <1>1, <3>1 DEF Range
    <3>2. CASE k \notin 1..Len(F)
      <4>1. PICK j : j \in 1..Len(G) /\ k = Len(F) + j
        BY <1>3, <3>2
      <4> QED
        BY <1>1, <1>2, <4>1 DEF Range
    <3> QED
      BY <3>1, <3>2
  <2>2. ASSUME NEW k \in 1..Len(F) PROVE F[k] \in Range(F \o G)
    <3>1. k \in DOMAIN (F \o G) /\ F[k] = (F \o G)[k]
      BY <1>1
    <3> QED
      BY <3>1 DEF Range
  <2>3. ASSUME NEW k \in 1..Len(G) PROVE G[k] \in Range(F \o G)
    <3>1. Len(F) + k \in DOMAIN (F \o G) /\ G[k] = (F \o G)[Len(F) + k]
      BY <1>1, <1>2
    <3> QED
      BY <3>1 DEF Range
  <2> QED
    BY <1>1, <2>1, <2>2, <2>3 DEF Range
<1> QED
  BY <1>1, <1>2, <1>3, <1>4

LEMMA ConcatNoTwice ==
  ASSUME NEW S, NEW F \in Seq(S), NEW G \in Seq(S), NoTwice(F), NoTwice(G),
         Range(F) \cap Range(G) = {}
  PROVE  NoTwice(F \o G)
<1>1. PICK n, C : n = Len(F) /\ C = F \o G
  OBVIOUS
<1>2. /\ n \in Nat /\ DOMAIN F = 1..n /\ DOMAIN G = 1..Len(G)
      /\ \A k \in 1..n : C[k] = F[k]
      /\ \A k \in 1..Len(G) : C[n + k] = G[k]
      /\ \A k \in 1..Len(C) : k \in 1..n \/ (k - n \in 1..Len(G) /\ k = n + (k - n))
  BY <1>1, ConcatIs
<1>3. \A j \in 1..n, k \in 1..Len(G) : F[j] # G[k]
  BY <1>2 DEF Range
<1>4. ASSUME NEW i \in 1..Len(C), NEW j \in 1..Len(C), C[i] = C[j]
      PROVE  i = j
  <2>1. CASE i \in 1..n /\ j \in 1..n
    BY <1>1, <1>2, <1>4, <2>1 DEF NoTwice
  <2>2. CASE i \in 1..n /\ j \notin 1..n
    <3>1. C[i] = F[i] /\ C[j] = G[j - n] /\ j - n \in 1..Len(G)
      BY <1>2, <2>2
    <3> QED
      BY <1>3, <1>4, <2>2, <3>1
  <2>3. CASE i \notin 1..n /\ j \in 1..n
    <3>1. C[j] = F[j] /\ C[i] = G[i - n] /\ i - n \in 1..Len(G)
      BY <1>2, <2>3
    <3> QED
      BY <1>3, <1>4, <2>3, <3>1
  <2>4. CASE i \notin 1..n /\ j \notin 1..n
    <3>1. /\ C[i] = G[i - n] /\ i - n \in 1..Len(G)
          /\ C[j] = G[j - n] /\ j - n \in 1..Len(G)
      BY <1>2, <2>4
    <3>2. i - n = j - n
      BY <1>4, <3>1 DEF NoTwice
    <3> QED
      BY <1>2, <3>2
  <2> QED
    BY <2>1, <2>2, <2>3, <2>4
<1> QED
  BY <1>1, <1>4 DEF NoTwice

(* The steps that unmap region r, each once, from whoever holds it. *)
HoldersOk(F, H, r, n) ==
  /\ F \in Seq(Steps) /\ NoTwice(F)
  /\ \A e \in Range(F) : \E p \in 1..n, s \in Shares : e = UnmapStep(p, s, r) /\ Holds(H, p, s, r)
  /\ \A p \in 1..n, s \in Shares : Holds(H, p, s, r) => UnmapStep(p, s, r) \in Range(F)

LEMMA HoldersOfIs ==
  ASSUME NEW H, IsHolders(H), NEW r \in Nat
  PROVE  HoldersOk(HoldersOf(H, r), H, r, MAX_PROCS)
<1>1. MAX_PROCS \in Nat /\ Procs = 1..MAX_PROCS /\ Len(H) = MAX_PROCS
  BY SpacesAssumption DEF Procs, IsHolders
<1>2. PICK f : HoldersRun(f, H, r)
  BY <1>1, HoldersSteps
<1>3. PICK n \in Nat : n = MAX_PROCS
  BY <1>1
<1> DEFINE P == {k \in 0..n : HoldersOk(f[k], H, r, k)}
<1>4. 0 \in P
  <2>1. f[0] = << >> /\ << >> \in Seq(Steps) /\ NoTwice(<< >>) /\ Range(<< >>) = {}
    <3>1. f[0] = << >> /\ << >> \in Seq(Steps) /\ Len(<< >>) = 0 /\ DOMAIN << >> = {}
      BY <1>2 DEF HoldersRun
    <3> QED
      BY <3>1 DEF NoTwice, Range
  <2>2. HoldersOk(f[0], H, r, 0)
    BY <2>1 DEF HoldersOk
  <2> QED
    BY <1>3, <2>2
<1>5. ASSUME NEW k \in 1..n, k - 1 \in P PROVE k \in P
  <2>1. PICK j, e, e2, g : /\ j \in 0..n /\ j = k - 1 /\ e = f[j] /\ e2 = f[k]
                           /\ g = HeldBy(H[k], k, r)
    BY <1>3
  <2>2. HoldersOk(e, H, r, j) /\ k \in Procs
    BY <1>1, <1>3, <1>5, <2>1
  <2>3. e2 = e \o g
    BY <1>1, <1>2, <1>3, <2>1 DEF HoldersRun, Listed
  <2>4. HeldByOk(g, H[k], k, r)
    <3>1. H[k].slots \in [Shares -> Nat]
      BY <2>2 DEF IsHolders
    <3> QED
      BY <2>1, <2>2, <3>1, HeldByIs
  <2>5. e \in Seq(Steps) /\ g \in Seq(Steps) /\ NoTwice(e) /\ NoTwice(g)
    BY <2>2, <2>4 DEF HoldersOk, HeldByOk
  <2>6. \A x \in Range(e) : x.proc # k
    <3>1. \A x \in Range(e) : \E p \in 1..j, s \in Shares : x = UnmapStep(p, s, r)
      BY <2>2 DEF HoldersOk
    <3>2. \A p \in 1..j : p # k
      BY <2>1
    <3> QED
      BY <3>1, <3>2, StepsAre
  <2>7. \A x \in Range(g) : \E s \in Shares : x = UnmapStep(k, s, r) /\ Holds(H, k, s, r)
    BY <2>4 DEF HeldByOk, Holds
  <2>8. Range(e) \cap Range(g) = {}
    BY <2>6, <2>7, StepsAre
  <2>9. NoTwice(e2) /\ e2 \in Seq(Steps) /\ Range(e2) = Range(e) \cup Range(g)
    BY <2>3, <2>5, <2>8, ConcatIs, ConcatNoTwice
  <2>10. \A p \in 1..k : p = k \/ p \in 1..j
    BY <2>1
  <2>11. \A p \in 1..j : p \in 1..k
    BY <2>1
  <2>12. \A x \in Range(e2) : \E p \in 1..k, s \in Shares :
           x = UnmapStep(p, s, r) /\ Holds(H, p, s, r)
    <3>1. \A x \in Range(e) : \E p \in 1..j, s \in Shares :
            x = UnmapStep(p, s, r) /\ Holds(H, p, s, r)
      BY <2>2 DEF HoldersOk
    <3>2. k \in 1..k
      OBVIOUS
    <3> QED
      BY <2>7, <2>9, <2>11, <3>1, <3>2
  <2>13. \A p \in 1..k, s \in Shares : Holds(H, p, s, r) => UnmapStep(p, s, r) \in Range(e2)
    <3>1. \A p \in 1..j, s \in Shares : Holds(H, p, s, r) => UnmapStep(p, s, r) \in Range(e)
      BY <2>2 DEF HoldersOk
    <3>2. \A s \in Shares : Holds(H, k, s, r) => UnmapStep(k, s, r) \in Range(g)
      BY <2>4 DEF HeldByOk, Holds
    <3> QED
      BY <2>9, <2>10, <3>1, <3>2
  <2>14. HoldersOk(e2, H, r, k)
    BY <2>9, <2>12, <2>13 DEF HoldersOk
  <2> QED
    BY <2>1, <2>14
<1>6. n \in P
  <2> HIDE DEF P
  <2>1. \A k \in 0..n : k \in P
    BY <1>4, <1>5, Induct
  <2> QED
    BY <2>1
<1> QED
  BY <1>1, <1>2, <1>3, <1>6 DEF HoldersRun

(* The shape of a plan that is about regions Rs: it unmaps from those who  *)
(* hold them, and before it releases one it has unmapped it from them all. *)
Covered(F, H) ==
  \A j \in 1..Len(F) : F[j].do = "release" =>
    \A p \in Procs, s \in Shares : Holds(H, p, s, F[j].region) =>
      \E i \in 1..(j - 1) : F[i] = UnmapStep(p, s, F[j].region)
StepIn(e, H, Rs) ==
  e.region \in Rs /\ (e.do = "unmap" => Holds(H, e.proc, e.slot, e.region))
PlanShape(F, H, Rs) ==
  /\ F \in Seq(Steps) /\ \A k \in 1..Len(F) : StepIn(F[k], H, Rs)
  /\ WellOrdered(F) /\ Covered(F, H)

LEMMA ShapeConcat ==
  ASSUME NEW H, NEW F, NEW G, NEW R1, NEW R2,
         PlanShape(F, H, R1), PlanShape(G, H, R2), R1 \cap R2 = {}
  PROVE  PlanShape(F \o G, H, R1 \cup R2)
<1>1. F \in Seq(Steps) /\ G \in Seq(Steps)
  BY DEF PlanShape
<1>2. PICK n, C : n = Len(F) /\ C = F \o G
  OBVIOUS
<1>3. /\ C \in Seq(Steps) /\ n \in Nat /\ Len(C) = n + Len(G) /\ Len(G) \in Nat
      /\ \A k \in 1..n : C[k] = F[k]
      /\ \A k \in 1..Len(G) : C[n + k] = G[k]
      /\ \A k \in 1..Len(C) : k \in 1..n \/ (k - n \in 1..Len(G) /\ k = n + (k - n))
  BY <1>1, <1>2, ConcatIs
<1>4. /\ \A k \in 1..n : StepIn(F[k], H, R1)
      /\ \A k \in 1..Len(G) : StepIn(G[k], H, R2)
      /\ WellOrdered(F) /\ WellOrdered(G) /\ Covered(F, H) /\ Covered(G, H)
  BY <1>2 DEF PlanShape
<1>5. \A k \in 1..Len(C) : StepIn(C[k], H, R1 \cup R2)
  <2>1. \A e : StepIn(e, H, R1) \/ StepIn(e, H, R2) => StepIn(e, H, R1 \cup R2)
    BY DEF StepIn
  <2> QED
    BY <1>3, <1>4, <2>1
<1>6. WellOrdered(C)
  <2> SUFFICES ASSUME NEW i \in 1..Len(C), NEW j \in 1..Len(C), i < j,
                      C[i].do = "release", C[j].do = "unmap"
               PROVE  C[i].region # C[j].region
    BY DEF WellOrdered
  <2>1. CASE j \in 1..n
    <3>1. i \in 1..n
      BY <1>3, <2>1
    <3> QED
      BY <1>2, <1>3, <1>4, <2>1, <3>1 DEF WellOrdered
  <2>2. CASE i \in 1..n /\ j \notin 1..n
    <3>1. C[i] = F[i] /\ C[j] = G[j - n] /\ j - n \in 1..Len(G)
      BY <1>3, <2>2
    <3>2. C[i].region \in R1 /\ C[j].region \in R2
      BY <1>4, <2>2, <3>1 DEF StepIn
    <3> QED
      BY <3>2
  <2>3. CASE i \notin 1..n /\ j \notin 1..n
    <3>1. PICK x, y : /\ x = i - n /\ y = j - n /\ x \in 1..Len(G) /\ y \in 1..Len(G)
                      /\ x < y /\ C[i] = G[x] /\ C[j] = G[y]
      BY <1>3, <2>3
    <3> QED
      BY <1>4, <3>1 DEF WellOrdered
  <2> QED
    BY <2>1, <2>2, <2>3
<1>7. Covered(C, H)
  <2> SUFFICES ASSUME NEW j \in 1..Len(C), C[j].do = "release",
                      NEW p \in Procs, NEW s \in Shares, Holds(H, p, s, C[j].region)
               PROVE  \E i \in 1..(j - 1) : C[i] = UnmapStep(p, s, C[j].region)
    BY DEF Covered
  <2>1. CASE j \in 1..n
    <3>1. C[j] = F[j] /\ j \in 1..Len(F)
      BY <1>2, <1>3, <2>1
    <3>2. PICK i : i \in 1..(j - 1) /\ F[i] = UnmapStep(p, s, C[j].region)
      BY <1>4, <3>1 DEF Covered
    <3>3. i \in 1..n
      BY <1>3, <2>1, <3>2
    <3> QED
      BY <1>3, <3>2, <3>3
  <2>2. CASE j \notin 1..n
    <3>1. PICK y : y = j - n /\ y \in 1..Len(G) /\ C[j] = G[y] /\ j = n + y
      BY <1>3, <2>2
    <3>2. PICK r : r = C[j].region /\ r = G[y].region /\ G[y].do = "release"
      BY <3>1
    <3>3. PICK x \in 1..(y - 1) : G[x] = UnmapStep(p, s, r)
      <4>1. /\ y \in 1..Len(G) /\ G[y].do = "release"
            /\ Holds(H, p, s, G[y].region) /\ r = G[y].region
        BY <3>1, <3>2
      <4>2. Covered(G, H)
        BY <1>4
      <4>3. \A q \in Procs, z \in Shares : Holds(H, q, z, G[y].region) =>
              \E i \in 1..(y - 1) : G[i] = UnmapStep(q, z, G[y].region)
        BY <4>1, <4>2 DEF Covered
      <4> QED
        BY <4>1, <4>3
    <3>4. x \in 1..Len(G) /\ n + x \in 1..(j - 1)
      <4>1. PICK g \in Nat : g = Len(G)
        BY <1>3
      <4>2. y \in 1..g /\ j = n + y /\ n \in Nat
        BY <1>3, <3>1, <4>1
      <4> QED
        BY <4>1, <4>2
    <3>5. C[n + x] = UnmapStep(p, s, C[j].region)
      BY <1>3, <3>2, <3>3, <3>4
    <3> QED
      BY <3>4, <3>5
  <2> QED
    BY <2>1, <2>2
<1> QED
  BY <1>2, <1>3, <1>5, <1>6, <1>7 DEF PlanShape

(* The places where regions Rs are held. *)
Places(H, Rs) == {x \in Procs \X Shares : H[x[1]].live /\ H[x[1]].slots[x[2]] \in Rs}
Long(F, H, Rs, n) == Len(F) <= Cardinality(Places(H, Rs)) + 2 * n

LEMMA PlacesAre ==
  ASSUME NEW H, NEW R1
  PROVE  /\ IsFiniteSet(Places(H, R1)) /\ Cardinality(Places(H, R1)) \in Nat
         /\ Cardinality(Places(H, R1)) <= MAX_PROCS * SHARE_SLOTS
         /\ \A R2 : R1 \cap R2 = {} =>
              Cardinality(Places(H, R1 \cup R2))
                = Cardinality(Places(H, R1)) + Cardinality(Places(H, R2))
<1>1. /\ MAX_PROCS \in Nat /\ SHARE_SLOTS \in Nat
      /\ Procs = 1..MAX_PROCS /\ Shares = 1..SHARE_SLOTS
  BY SpacesAssumption DEF Procs, Shares
<1>2. /\ IsFiniteSet(Procs) /\ Cardinality(Procs) = MAX_PROCS
      /\ IsFiniteSet(Shares) /\ Cardinality(Shares) = SHARE_SLOTS
  <2>1. 1 \in Int /\ MAX_PROCS \in Int /\ SHARE_SLOTS \in Int
    BY <1>1
  <2>2. /\ IsFiniteSet(1..MAX_PROCS)
        /\ Cardinality(1..MAX_PROCS) = IF 1 > MAX_PROCS THEN 0 ELSE MAX_PROCS - 1 + 1
    BY <2>1, FS_Interval
  <2>3. /\ IsFiniteSet(1..SHARE_SLOTS)
        /\ Cardinality(1..SHARE_SLOTS) = IF 1 > SHARE_SLOTS THEN 0 ELSE SHARE_SLOTS - 1 + 1
    BY <2>1, FS_Interval
  <2> QED
    BY <1>1, <2>2, <2>3
<1>3. /\ IsFiniteSet(Procs \X Shares)
      /\ Cardinality(Procs \X Shares) = MAX_PROCS * SHARE_SLOTS
  BY <1>2, FS_Product
<1>4. ASSUME NEW Rs
      PROVE  /\ IsFiniteSet(Places(H, Rs)) /\ Cardinality(Places(H, Rs)) \in Nat
             /\ Cardinality(Places(H, Rs)) <= MAX_PROCS * SHARE_SLOTS
  <2>1. Places(H, Rs) \in SUBSET (Procs \X Shares)
    BY DEF Places
  <2>2. /\ IsFiniteSet(Places(H, Rs))
        /\ Cardinality(Places(H, Rs)) <= Cardinality(Procs \X Shares)
    BY <1>3, <2>1, FS_Subset
  <2> QED
    BY <1>3, <2>2, FS_CardinalityType
<1>5. ASSUME NEW R2, R1 \cap R2 = {}
      PROVE  Cardinality(Places(H, R1 \cup R2))
               = Cardinality(Places(H, R1)) + Cardinality(Places(H, R2))
  <2>1. PICK A, B, C : A = Places(H, R1) /\ B = Places(H, R2) /\ C = Places(H, R1 \cup R2)
    OBVIOUS
  <2>2. C = A \cup B /\ A \cap B = {}
    BY <1>5, <2>1 DEF Places
  <2>3. IsFiniteSet(A) /\ IsFiniteSet(B) /\ Cardinality(A) \in Nat /\ Cardinality(B) \in Nat
    BY <1>4, <2>1
  <2>4. Cardinality(A \cup B) = Cardinality(A) + Cardinality(B) - Cardinality(A \cap B)
    BY <2>3, FS_Union
  <2>5. Cardinality(A \cap B) = 0
    BY <2>2, FS_EmptySet
  <2>6. PICK a, b, c : a = Cardinality(A) /\ b = Cardinality(B) /\ c = Cardinality(C)
    OBVIOUS
  <2>7. a \in Nat /\ b \in Nat /\ c = a + b - 0
    BY <2>2, <2>3, <2>4, <2>5, <2>6
  <2>8. c = a + b
    BY <2>7
  <2> QED
    BY <2>1, <2>6, <2>8
<1> QED
  BY <1>4, <1>5

LEMMA DestroyIs ==
  ASSUME NEW Rg, NEW H, IsHolders(H), NEW r \in Nat
  PROVE  PlanShape(Destroy(Rg, H, r), H, {r}) /\ Long(Destroy(Rg, H, r), H, {r}, 1)
<1>1. /\ Cardinality(Places(H, {r})) \in Nat /\ IsFiniteSet(Places(H, {r}))
      /\ MAX_PROCS \in Nat /\ Procs = 1..MAX_PROCS
  BY PlacesAre, SpacesAssumption DEF Procs
<1>2. CASE Destroy(Rg, H, r) = << >>
  <2>1. PICK E : E = << >>
    OBVIOUS
  <2>2. E \in Seq(Steps) /\ Len(E) = 0
    BY <2>1
  <2>3. PlanShape(E, H, {r})
    BY <2>2 DEF PlanShape, WellOrdered, Covered
  <2>4. Long(E, H, {r}, 1)
    BY <1>1, <2>2 DEF Long
  <2> QED
    BY <1>2, <2>1, <2>3, <2>4
<1>3. CASE Destroy(Rg, H, r) # << >>
  <2>1. PICK F, G, C, n : /\ F = HoldersOf(H, r) /\ n = Len(F) /\ C = F \o G
                          /\ G = <<ForgetCapsStep(r), ReleaseStep(r)>>
    OBVIOUS
  <2>2. Destroy(Rg, H, r) = C
    BY <1>3, <2>1 DEF Destroy
  <2>3. HoldersOk(F, H, r, MAX_PROCS)
    BY <2>1, HoldersOfIs
  <2>4. F \in Seq(Steps) /\ NoTwice(F)
    BY <2>3 DEF HoldersOk
  <2>5. G \in Seq(Steps) /\ Len(G) = 2 /\ G[1] = ForgetCapsStep(r) /\ G[2] = ReleaseStep(r)
    BY <2>1, StepsAre
  <2>6. /\ C \in Seq(Steps) /\ n \in Nat /\ Len(C) = n + 2
        /\ \A k \in 1..n : C[k] = F[k]
        /\ C[n + 1] = ForgetCapsStep(r) /\ C[n + 2] = ReleaseStep(r)
    <3>1. /\ C \in Seq(Steps) /\ Len(C) = Len(F) + Len(G) /\ Len(F) \in Nat
          /\ \A k \in 1..Len(F) : C[k] = F[k]
          /\ \A k \in 1..Len(G) : C[Len(F) + k] = G[k]
      BY <2>1, <2>4, <2>5, ConcatIs
    <3>2. 1 \in 1..Len(G) /\ 2 \in 1..Len(G)
      BY <2>5
    <3> QED
      BY <2>1, <2>5, <3>1, <3>2
  <2>7. \A k \in 1..n : /\ C[k] \in Range(F)
                        /\ \E p \in Procs, s \in Shares :
                             C[k] = UnmapStep(p, s, r) /\ Holds(H, p, s, r)
    <3>1. \A k \in 1..n : F[k] \in Range(F)
      BY <2>1, <2>4 DEF Range
    <3> QED
      BY <1>1, <2>3, <2>6, <3>1 DEF HoldersOk
  <2>8. \A k \in 1..Len(C) : k \in 1..n \/ k = n + 1 \/ k = n + 2
    BY <2>6
  <2>9. \A k \in 1..n : C[k].do = "unmap" /\ StepIn(C[k], H, {r})
    BY <2>7, StepsAre DEF StepIn
  <2>10. /\ C[n + 1].do = "forget" /\ C[n + 2].do = "release" /\ C[n + 2].region = r
         /\ StepIn(C[n + 1], H, {r}) /\ StepIn(C[n + 2], H, {r})
    BY <2>6, StepsAre DEF StepIn
  <2>11. \A j \in 1..Len(C) : C[j].do = "release" => j = n + 2
    BY <2>8, <2>9, <2>10
  <2>12. WellOrdered(C)
    <3>1. \A i, j \in 1..Len(C) : i < j => i # n + 2
      BY <2>6
    <3> QED
      BY <2>11, <3>1 DEF WellOrdered
  <2>13. Covered(C, H)
    <3>1. ASSUME NEW p \in Procs, NEW s \in Shares, Holds(H, p, s, r)
          PROVE  \E i \in 1..(n + 2 - 1) : C[i] = UnmapStep(p, s, r)
      <4>1. UnmapStep(p, s, r) \in Range(F)
        BY <1>1, <2>3, <3>1 DEF HoldersOk
      <4>2. PICK i \in 1..n : F[i] = UnmapStep(p, s, r)
        BY <2>1, <2>4, <4>1 DEF Range
      <4>3. C[i] = UnmapStep(p, s, r) /\ i \in 1..(n + 2 - 1)
        BY <2>6, <4>2
      <4> QED
        BY <4>3
    <3>2. ASSUME NEW j \in 1..Len(C), C[j].do = "release",
                 NEW p \in Procs, NEW s \in Shares, Holds(H, p, s, C[j].region)
          PROVE  \E i \in 1..(j - 1) : C[i] = UnmapStep(p, s, C[j].region)
      <4>1. j = n + 2 /\ C[j].region = r
        BY <2>10, <2>11, <3>2
      <4>2. Holds(H, p, s, r)
        BY <3>2, <4>1
      <4>3. PICK i \in 1..(n + 2 - 1) : C[i] = UnmapStep(p, s, r)
        BY <3>1, <4>2
      <4>4. i \in 1..(j - 1)
        BY <2>6, <4>1, <4>3
      <4>5. C[i] = UnmapStep(p, s, C[j].region)
        BY <4>1, <4>3
      <4> QED
        BY <4>4, <4>5
    <3> QED
      BY <3>2 DEF Covered
  <2>14. PlanShape(C, H, {r})
    BY <2>6, <2>8, <2>9, <2>10, <2>12, <2>13 DEF PlanShape
  <2>15. n <= Cardinality(Places(H, {r}))
    <3>1. PICK D, P : D = Range(F) /\ P = Places(H, {r})
      OBVIOUS
    <3>2. PICK f : f = [e \in D |-> <<e.proc, e.slot>>]
      OBVIOUS
    <3>3. \A e \in D : \E p \in Procs, s \in Shares :
            e = UnmapStep(p, s, r) /\ Holds(H, p, s, r)
      BY <1>1, <2>3, <3>1 DEF HoldersOk
    <3>4. \A e \in D : e = UnmapStep(e.proc, e.slot, r) /\ <<e.proc, e.slot>> \in P
      <4> SUFFICES ASSUME NEW e \in D
                   PROVE  e = UnmapStep(e.proc, e.slot, r) /\ <<e.proc, e.slot>> \in P
        OBVIOUS
      <4>1. PICK p \in Procs, s \in Shares : e = UnmapStep(p, s, r) /\ Holds(H, p, s, r)
        BY <3>3
      <4>2. e.proc = p /\ e.slot = s
        BY <4>1, StepsAre
      <4>3. <<p, s>> \in P
        BY <3>1, <4>1 DEF Places, Holds
      <4> QED
        BY <4>1, <4>2, <4>3
    <3>5. f \in Injection(D, P)
      <4>1. f \in [D -> P]
        BY <3>2, <3>4
      <4>2. ASSUME NEW a \in D, NEW b \in D, f[a] = f[b] PROVE a = b
        <5>1. a.proc = b.proc /\ a.slot = b.slot
          BY <3>2, <4>2
        <5> QED
          BY <3>4, <5>1
      <4> QED
        BY <4>1, <4>2 DEF Injection, IsInjective
    <3>6. IsFiniteSet(P)
      BY <1>1, <3>1
    <3>7. Cardinality(D) <= Cardinality(P)
      BY <3>5, <3>6, FS_Injection
    <3>8. Cardinality(D) = n
      BY <2>1, <2>4, <3>1, LenIs
    <3> QED
      BY <3>1, <3>7, <3>8
  <2>16. Long(C, H, {r}, 1)
    <3>1. PICK c : c = Cardinality(Places(H, {r}))
      OBVIOUS
    <3>2. n + 2 <= c + 2 * 1
      BY <1>1, <2>6, <2>15, <3>1
    <3> QED
      BY <2>6, <3>1, <3>2 DEF Long
  <2> QED
    BY <2>2, <2>14, <2>16
<1> QED
  BY <1>2, <1>3

(* A table of regions, and what one process owns in its first k entries. *)
IsRegions(Rg) ==
  /\ Len(Rg) \in Nat /\ DOMAIN Rg = 1..Len(Rg)
  /\ \A i \in 1..Len(Rg) : Rg[i].live => Rg[i].id \in Nat \ {0}
  /\ \A i, j \in 1..Len(Rg) : Rg[i].live /\ Rg[j].live /\ Rg[i].id = Rg[j].id => i = j
Owned(Rg, d, k) == {Rg[i].id : i \in {i \in 1..k : Rg[i].live /\ Rg[i].owner = d}}
PlanOf(F, H, Rs, n) == PlanShape(F, H, Rs) /\ Long(F, H, Rs, n)

LEMMA PlanConcat ==
  ASSUME NEW H, NEW F, NEW G, NEW R1, NEW R2, NEW a \in Nat, NEW b \in Nat,
         PlanOf(F, H, R1, a), PlanOf(G, H, R2, b), R1 \cap R2 = {}
  PROVE  PlanOf(F \o G, H, R1 \cup R2, a + b)
<1>1. PlanShape(F \o G, H, R1 \cup R2)
  BY ShapeConcat DEF PlanOf
<1>2. Len(F \o G) = Len(F) + Len(G) /\ Len(F) \in Nat /\ Len(G) \in Nat
  <2>1. F \in Seq(Steps) /\ G \in Seq(Steps)
    BY DEF PlanOf, PlanShape
  <2> QED
    BY <2>1, ConcatIs
<1>3. PICK x, y, z, l, k : /\ x = Cardinality(Places(H, R1)) /\ y = Cardinality(Places(H, R2))
                           /\ z = Cardinality(Places(H, R1 \cup R2))
                           /\ l = Len(F) /\ k = Len(G)
  OBVIOUS
<1>4. x \in Nat /\ y \in Nat /\ z = x + y
  <2>1. x \in Nat /\ z = x + y
    BY <1>3, PlacesAre
  <2>2. y \in Nat
    BY <1>3, PlacesAre
  <2> QED
    BY <2>1, <2>2
<1>5. l <= x + 2 * a /\ k <= y + 2 * b
  BY <1>3 DEF PlanOf, Long
<1>6. l + k <= z + 2 * (a + b)
  <2>1. l \in Nat /\ k \in Nat
    BY <1>2, <1>3
  <2> QED
    BY <1>4, <1>5, <2>1
<1> QED
  BY <1>1, <1>2, <1>3, <1>6 DEF PlanOf, Long

LEMMA OwnedIs ==
  ASSUME NEW H, IsHolders(H), NEW Rg, IsRegions(Rg), NEW d
  PROVE  PlanOf(DestroyOwned(Rg, H, d), H, Owned(Rg, d, Len(Rg)), Len(Rg))
<1>1. PICK n \in Nat : n = Len(Rg)
  BY Zenon DEF IsRegions
<1>2. PICK f : OwnedRun(f, Rg, H, d)
  BY <1>1, OwnedSteps
<1> DEFINE P == {k \in 0..n : PlanOf(f[k], H, Owned(Rg, d, k), k)}
<1>3. 0 \in P
  <2>1. f[0] = << >> /\ Owned(Rg, d, 0) = {}
    BY <1>2 DEF OwnedRun, Owned
  <2>2. PICK E : E = << >>
    OBVIOUS
  <2>3. E \in Seq(Steps) /\ Len(E) = 0
    BY <2>2
  <2>4. PlanShape(E, H, {})
    BY <2>3 DEF PlanShape, WellOrdered, Covered
  <2>5. Long(E, H, {}, 0)
    <3>1. Cardinality(Places(H, {})) \in Nat
      BY PlacesAre
    <3> QED
      BY <2>3, <3>1 DEF Long
  <2> QED
    BY <1>1, <2>1, <2>2, <2>4, <2>5 DEF PlanOf
<1>4. ASSUME NEW k \in 1..n, k - 1 \in P PROVE k \in P
  <2>0. PICK j \in Nat : j = k - 1
    BY <1>1
  <2>1. PICK e, e2, r : j = k - 1 /\ e = f[j] /\ e2 = f[k] /\ r = Rg[k].id
    BY <2>0
  <2>2. PlanOf(e, H, Owned(Rg, d, j), j) /\ k \in 1..Len(Rg) /\ k = j + 1
    BY <1>1, <1>4, <2>1
  <2>3. e2 = TornDown(e, k, Rg, H, d)
    BY <1>2, <2>1, <2>2 DEF OwnedRun
  <2>4. \A i \in 1..k : i = k \/ i \in 1..j
    BY <2>2
  <2>5. \A i \in 1..j : i \in 1..k /\ i # k /\ i \in 1..Len(Rg)
    BY <1>1, <2>2
  <2>6. CASE Rg[k].live /\ Rg[k].owner = d
    <3>1. r \in Nat /\ e2 = e \o Destroy(Rg, H, r)
      BY <2>1, <2>2, <2>3, <2>6 DEF IsRegions, TornDown
    <3>2. PlanOf(Destroy(Rg, H, r), H, {r}, 1)
      BY <3>1, DestroyIs DEF PlanOf
    <3>3. r \notin Owned(Rg, d, j)
      BY <2>1, <2>2, <2>5, <2>6 DEF Owned, IsRegions
    <3>4. Owned(Rg, d, k) = Owned(Rg, d, j) \cup {r}
      BY <2>1, <2>2, <2>4, <2>5, <2>6 DEF Owned
    <3>5. PICK R1, R2, g : R1 = Owned(Rg, d, j) /\ R2 = {r} /\ g = Destroy(Rg, H, r)
      OBVIOUS
    <3>6. PlanOf(e \o g, H, R1 \cup R2, j + 1)
      <4>1. R1 \cap R2 = {} /\ PlanOf(e, H, R1, j) /\ PlanOf(g, H, R2, 1)
        BY <2>2, <3>2, <3>3, <3>5
      <4> QED
        BY <4>1, PlanConcat
    <3>7. PlanOf(e2, H, Owned(Rg, d, k), k)
      BY <2>2, <3>1, <3>4, <3>5, <3>6
    <3> QED
      BY <1>4, <2>1, <3>7
  <2>7. CASE ~(Rg[k].live /\ Rg[k].owner = d)
    <3>1. e2 = e
      BY <2>3, <2>7 DEF TornDown
    <3>2. Owned(Rg, d, k) = Owned(Rg, d, j)
      BY <2>4, <2>5, <2>7 DEF Owned
    <3>3. Long(e, H, Owned(Rg, d, j), k)
      <4>1. PICK c, l : c = Cardinality(Places(H, Owned(Rg, d, j))) /\ l = Len(e)
        OBVIOUS
      <4>2. l \in Nat /\ c \in Nat
        <5>1. e \in Seq(Steps)
          BY <2>2 DEF PlanOf, PlanShape
        <5> QED
          BY <4>1, <5>1, PlacesAre
      <4>3. l <= c + 2 * j
        BY <2>2, <4>1 DEF PlanOf, Long
      <4>4. l <= c + 2 * k
        BY <2>2, <4>2, <4>3
      <4> QED
        BY <4>1, <4>4 DEF Long
    <3>4. PlanOf(e2, H, Owned(Rg, d, k), k)
      BY <2>2, <3>1, <3>2, <3>3 DEF PlanOf
    <3> QED
      BY <1>4, <2>1, <3>4
  <2> QED
    BY <2>6, <2>7
<1>5. n \in P
  <2> HIDE DEF P
  <2>1. \A k \in 0..n : k \in P
    BY <1>3, <1>4, Induct
  <2> QED
    BY <2>1
<1> QED
  BY <1>1, <1>2, <1>5 DEF OwnedRun

(* What a dying process holds of the others' regions. *)
LEMMA UnmapOwnIs ==
  ASSUME NEW H, IsHolders(H), NEW Rg, NEW p \in Procs, H[p].live, NEW D, NEW G,
         G = UnmapOwn(Rg, H[p], p, D)
  PROVE  /\ PlanShape(G, H, {r \in Nat \ {0} : ~Owns(Rg, H[p].id, r)})
         /\ Len(G) \in Nat /\ Len(G) <= SHARE_SLOTS
<1>1. SHARE_SLOTS \in Nat /\ Shares = 1..SHARE_SLOTS /\ H[p].slots \in [Shares -> Nat]
  BY SpacesAssumption DEF Shares, IsHolders
<1>2. DOMAIN H[p].slots = Shares /\ Len(H[p].slots) = SHARE_SLOTS
  BY <1>1, TupleIs
<1>a. PICK h, T :
        /\ h = H[p]
        /\ T = {s \in Shares : /\ h.slots[s] # 0 /\ ~Owns(Rg, h.id, h.slots[s])
                               /\ \A k \in 1..Len(D) : ~(/\ D[k].do = "unmap"
                                                         /\ D[k].proc = p
                                                         /\ D[k].slot = s)}
  OBVIOUS
<1>b. PICK rest, n : rest = Ascending(T, SHARE_SLOTS) /\ n = Len(rest)
  OBVIOUS
<1>3. /\ h = H[p] /\ rest = Ascending(T, SHARE_SLOTS) /\ n = Len(rest)
      /\ T = {s \in Shares : /\ h.slots[s] # 0 /\ ~Owns(Rg, h.id, h.slots[s])
                             /\ \A k \in 1..Len(D) : ~(/\ D[k].do = "unmap"
                                                       /\ D[k].proc = p
                                                       /\ D[k].slot = s)}
  BY <1>a, <1>b
<1>4. G = [k \in 1..n |-> UnmapStep(p, rest[k], h.slots[rest[k]])]
  BY <1>2, <1>3 DEF UnmapOwn
<1>5. rest \in Seq(1..SHARE_SLOTS) /\ NoTwice(rest) /\ Range(rest) = T \cap (1..SHARE_SLOTS)
  BY <1>1, <1>3, AscendingIs
<1>6. n \in Nat /\ \A k \in 1..n : rest[k] \in T
  <2>1. n \in Nat /\ DOMAIN rest = 1..n
    BY <1>3, <1>5
  <2> QED
    BY <1>5, <2>1 DEF Range
<1>7. \A k \in 1..n : rest[k] \in Shares /\ h.slots[rest[k]] \in Nat
  BY <1>1, <1>3, <1>6, Zenon
<1>8. G \in Seq(Steps) /\ Len(G) = n
  <2>1. G \in [1..n -> Steps]
    BY <1>4, <1>7, StepsAre
  <2> QED
    BY <1>6, <2>1, TupleIs
<1>9. \A k \in 1..n : /\ G[k].do = "unmap"
                      /\ StepIn(G[k], H, {r \in Nat \ {0} : ~Owns(Rg, H[p].id, r)})
  <2> SUFFICES ASSUME NEW k \in 1..n
               PROVE  /\ G[k].do = "unmap"
                      /\ StepIn(G[k], H, {r \in Nat \ {0} : ~Owns(Rg, H[p].id, r)})
    OBVIOUS
  <2>1. PICK s, r : s = rest[k] /\ r = h.slots[s]
    OBVIOUS
  <2>2. G[k] = UnmapStep(p, s, r)
    BY <1>4, <2>1
  <2>3. r \in Nat \ {0} /\ ~Owns(Rg, H[p].id, r) /\ Holds(H, p, s, r)
    BY <1>3, <1>6, <1>7, <2>1, Zenon DEF Holds
  <2>4. G[k].do = "unmap" /\ G[k].proc = p /\ G[k].slot = s /\ G[k].region = r
    BY <2>2, StepsAre
  <2> QED
    BY <2>3, <2>4 DEF StepIn
<1>10. PlanShape(G, H, {r \in Nat \ {0} : ~Owns(Rg, H[p].id, r)})
  <2>1. \A k \in 1..n : G[k].do # "release"
    BY <1>9
  <2>2. WellOrdered(G) /\ Covered(G, H)
    BY <1>8, <2>1 DEF WellOrdered, Covered
  <2> QED
    BY <1>8, <1>9, <2>2 DEF PlanShape
<1>11. n <= SHARE_SLOTS
  <2>1. Range(rest) \in SUBSET Shares
    BY <1>1, <1>5
  <2>2. IsFiniteSet(Shares) /\ Cardinality(Shares) = SHARE_SLOTS
    <3>1. 1 \in Int /\ SHARE_SLOTS \in Int
      BY <1>1
    <3>2. /\ IsFiniteSet(1..SHARE_SLOTS)
          /\ Cardinality(1..SHARE_SLOTS) = IF 1 > SHARE_SLOTS THEN 0 ELSE SHARE_SLOTS - 1 + 1
      BY <3>1, FS_Interval
    <3> QED
      BY <1>1, <3>2
  <2>3. Cardinality(Range(rest)) <= SHARE_SLOTS
    BY <2>1, <2>2, FS_Subset
  <2>4. Cardinality(Range(rest)) = n
    BY <1>3, <1>5, LenIs
  <2> QED
    BY <2>3, <2>4
<1> QED
  BY <1>6, <1>8, <1>10, <1>11

(* The plan of a death unmaps, from each process there is, what it holds,  *)
(* before it releases a region, and fits in PLAN_STEPS.                    *)
LEMMA TeardownIs ==
  ASSUME NEW H, IsHolders(H), NEW Rg, IsRegions(Rg), Len(Rg) = MAX_REGIONS,
         NEW p \in Procs, NEW d, NEW C, C = TeardownPlan(Rg, H, p, d)
  PROVE  /\ PlanShape(C, H, Nat \ {0})
         /\ Len(C) \in Nat /\ Len(C) <= PLAN_STEPS
<1>1. PICK D, R1 : D = DestroyOwned(Rg, H, d) /\ R1 = Owned(Rg, d, Len(Rg))
  OBVIOUS
<1>2. PlanShape(D, H, R1) /\ Long(D, H, R1, MAX_REGIONS)
  BY <1>1, OwnedIs DEF PlanOf
<1>3. R1 \subseteq Nat \ {0}
  BY <1>1 DEF Owned, IsRegions
<1>4. \A F, Rs : PlanShape(F, H, Rs) /\ Rs \subseteq Nat \ {0}
                => PlanShape(F, H, Nat \ {0})
  BY DEF PlanShape, StepIn
<1>5. /\ MAX_REGIONS \in Nat /\ SHARE_SLOTS \in Nat /\ MAX_PROCS \in Nat
      /\ MAX_PROCS * SHARE_SLOTS \in Nat
  BY SpacesAssumption
<1>6. Len(D) \in Nat /\ Len(D) <= MAX_PROCS * SHARE_SLOTS + 2 * MAX_REGIONS
  <2>1. PICK c, l, q, z : /\ c = Cardinality(Places(H, R1)) /\ l = Len(D)
                          /\ q = MAX_PROCS * SHARE_SLOTS /\ z = 2 * MAX_REGIONS
    OBVIOUS
  <2>2. D \in Seq(Steps)
    BY <1>2 DEF PlanShape
  <2>3. c \in Nat /\ c <= q
    BY <2>1, PlacesAre
  <2>4. l \in Nat /\ z \in Nat /\ q \in Nat
    BY <1>5, <2>1, <2>2
  <2>5. l <= c + z
    BY <1>2, <2>1 DEF Long
  <2>6. l <= q + z
    BY <2>3, <2>4, <2>5
  <2> QED
    BY <2>1, <2>4, <2>6
<1>7. CASE ~(H[p].live /\ H[p].id = d)
  <2>1. C = D
    BY <1>1, <1>7 DEF TeardownPlan
  <2>2. PlanShape(D, H, Nat \ {0})
    BY <1>2, <1>3, <1>4
  <2>3. Len(D) <= PLAN_STEPS
    BY <1>5, <1>6 DEF PLAN_STEPS
  <2> QED
    BY <1>6, <2>1, <2>2, <2>3
<1>8. CASE H[p].live /\ H[p].id = d
  <2>1. PICK G, R2 : /\ G = UnmapOwn(Rg, H[p], p, D)
                     /\ R2 = {r \in Nat \ {0} : ~Owns(Rg, H[p].id, r)}
    OBVIOUS
  <2>2. C = D \o G
    BY <1>1, <1>8, <2>1 DEF TeardownPlan
  <2>3. PlanShape(G, H, R2) /\ Len(G) \in Nat /\ Len(G) <= SHARE_SLOTS
    BY <1>8, <2>1, UnmapOwnIs
  <2>4. R1 \cap R2 = {}
    <3>1. \A r \in R1 : Owns(Rg, d, r)
      BY <1>1 DEF Owned, Owns, IsRegions
    <3> QED
      BY <1>8, <2>1, <3>1
  <2>5. PlanShape(C, H, R1 \cup R2)
    BY <1>2, <2>2, <2>3, <2>4, ShapeConcat
  <2>6. R1 \cup R2 \subseteq Nat \ {0}
    BY <1>3, <2>1
  <2>7. PlanShape(C, H, Nat \ {0})
    <3>1. PICK Rs : Rs = R1 \cup R2
      OBVIOUS
    <3> QED
      BY <1>4, <2>5, <2>6, <3>1
  <2>8. Len(C) = Len(D) + Len(G)
    <3>1. D \in Seq(Steps) /\ G \in Seq(Steps)
      BY <1>2, <2>3 DEF PlanShape
    <3> QED
      BY <2>2, <3>1, ConcatIs
  <2>9. Len(C) \in Nat /\ Len(C) <= PLAN_STEPS
    <3>1. PICK x, y, q, z : /\ x = Len(D) /\ y = Len(G)
                            /\ q = MAX_PROCS * SHARE_SLOTS /\ z = 2 * MAX_REGIONS
      OBVIOUS
    <3>2. x \in Nat /\ y \in Nat /\ q \in Nat /\ z \in Nat /\ x <= q + z /\ y <= SHARE_SLOTS
      BY <1>5, <1>6, <2>3, <3>1
    <3>3. x + y \in Nat /\ x + y <= q + z + SHARE_SLOTS
      BY <1>5, <3>2
    <3> QED
      BY <2>8, <3>1, <3>3 DEF PLAN_STEPS
  <2> QED
    BY <2>7, <2>9
<1> QED
  BY <1>7, <1>8

-----------------------------------------------------------------------------
(* The steps that make, run and finish plans.                              *)

LEMMA HoldersAre ==
  ASSUME SlotsOk
  PROVE  /\ IsHolders(Holders)
         /\ \A p \in Procs : Holders[p].live = (p \in Live) /\ Holders[p].id = id[p]
         /\ \A p \in Procs, s \in Shares : \A r :
              Holds(Holders, p, s, r) <=> p \in Live /\ shares[p][s] = r
<1>1. MAX_PROCS \in Nat /\ Procs = 1..MAX_PROCS
  BY SpacesAssumption DEF Procs
<1>2. PICK H : H = Holders
  OBVIOUS
<1>3. /\ H = [p \in Procs |-> H[p]]
      /\ \A p \in Procs : /\ H[p].live = (p \in Live) /\ H[p].slots = shares[p]
                          /\ H[p].id = id[p]
  BY <1>2 DEF Holders
<1>4. H \in Seq({H[p] : p \in Procs}) /\ Len(H) = MAX_PROCS
  <2>1. PICK S : S = {H[p] : p \in Procs}
    OBVIOUS
  <2>2. H \in [1..MAX_PROCS -> S]
    BY <1>1, <1>3, <2>1
  <2> QED
    BY <1>1, <2>1, <2>2, TupleIs
<1>5. \A p \in Procs : H[p].slots \in [Shares -> Nat]
  BY <1>3 DEF SlotsOk
<1>6. ASSUME NEW p \in Procs PROVE H[p].live \in BOOLEAN
  <2>1. H[p].live = (p \in Live)
    BY <1>3
  <2>2. CASE p \in Live
    BY <2>1, <2>2, Zenon
  <2>3. CASE p \notin Live
    <3>1. (p \in Live) = FALSE
      BY <2>3
    <3> QED
      BY <2>1, <3>1
  <2> QED
    BY <2>2, <2>3
<1> QED
  BY <1>2, <1>3, <1>4, <1>5, <1>6 DEF IsHolders, Holds

LEMMA RegionsAre ==
  ASSUME RegionsOk
  PROVE  IsRegions(regions) /\ Len(regions) = MAX_REGIONS
<1>1. MAX_REGIONS \in Nat /\ regions = [i \in 1..MAX_REGIONS |-> regions[i]]
  BY SpacesAssumption DEF RegionsOk
<1>2. DOMAIN regions = 1..MAX_REGIONS
  BY <1>1
<1>3. Len(regions) = MAX_REGIONS
  <2>1. PICK S : S = {regions[i] : i \in 1..MAX_REGIONS}
    OBVIOUS
  <2>2. regions \in [1..MAX_REGIONS -> S]
    BY <1>1, <2>1
  <2> QED
    BY <1>1, <2>2, TupleIs
<1> QED
  BY <1>1, <1>2, <1>3 DEF IsRegions, RegionsOk, RegionOk

(* A plan is made. *)
LEMMA PlanMade ==
  ASSUME SpacesInv, InCall, UNCHANGED <<machine, pt, free, process, shared, cpu>>,
         PlanShape(plan', Holders, Nat \ {0}), dying' \in {0, current}
  PROVE  SpacesInv'
<1>1. UNCHANGED <<machine, pt, free, space, frames, id, shares, nextId,
                  arena, regions, nextRegion>>
  BY DEF process, shared
<1>2. BuildOk' /\ FramesOk' /\ Trees' /\ Live' = Live
  <2>1. IsTables(pt)'
    BY <1>1, Rigid DEF SpacesInv, Trees
  <2> QED
    BY <1>1, <2>1, StillIs DEF SpacesInv
<1>3. SlotsOk' /\ RegionsOk'
  BY <1>1, Rigid DEF SpacesInv, SlotsOk, RegionsOk, RegionOk, Procs, Shares
<1>4. PlanOk'
  <2>1. plan' \in Seq(Steps) /\ Steps' = Steps
    BY DEF PlanShape, Steps, Procs, Shares
  <2>2. \A k \in 1..Len(plan') : plan'[k] \in Steps
    BY <2>1
  <2>3. \A k \in 1..Len(plan') : plan'[k].do = "unmap" => plan'[k].proc \in Live
    <3> SUFFICES ASSUME NEW k \in 1..Len(plan'), plan'[k].do = "unmap"
                 PROVE  plan'[k].proc \in Live
      OBVIOUS
    <3>1. PICK e : e = plan'[k]
      OBVIOUS
    <3>2. e.proc \in Procs /\ e.slot \in Shares
      BY <2>2, <3>1, StepsAre
    <3>3. StepIn(e, Holders, Nat \ {0})
      BY <3>1 DEF PlanShape
    <3>4. Holds(Holders, e.proc, e.slot, e.region)
      BY <3>1, <3>3 DEF StepIn
    <3> QED
      BY <3>1, <3>2, <3>4, HoldersAre DEF SpacesInv
  <2> QED
    BY <1>2, <2>1, <2>3 DEF PlanOk
<1>5. CpuOk' /\ KernelMapped'
  BY <1>1, <1>2, CallKeeps
<1> QED
  BY <1>2, <1>3, <1>4, <1>5 DEF SpacesInv

LEMMA FreeRegionIs ==
  ASSUME SpacesInv, NEW i \in 1..MAX_REGIONS, FreeRegion(i)
  PROVE  /\ PlanShape(plan', Holders, Nat \ {0})
         /\ Len(plan') \in Nat /\ Len(plan') <= PLAN_STEPS
<1>1. plan' = Destroy(regions, Holders, regions[i].id) /\ regions[i].live
  BY DEF FreeRegion
<1>2. PICK r \in Nat \ {0} : r = regions[i].id
  BY <1>1 DEF SpacesInv, RegionsOk, RegionOk
<1>3. PICK D, H : D = Destroy(regions, H, r) /\ H = Holders
  OBVIOUS
<1>4. PlanShape(D, H, {r}) /\ Long(D, H, {r}, 1)
  BY <1>3, HoldersAre, DestroyIs DEF SpacesInv
<1>5. PlanShape(D, H, Nat \ {0})
  BY <1>4 DEF PlanShape, StepIn
<1>6. Len(D) \in Nat /\ Len(D) <= PLAN_STEPS
  <2>1. PICK c, l, q : /\ c = Cardinality(Places(H, {r})) /\ l = Len(D)
                       /\ q = MAX_PROCS * SHARE_SLOTS
    OBVIOUS
  <2>2. l \in Nat
    BY <1>4, <2>1 DEF PlanShape
  <2>3. c \in Nat /\ c <= q
    BY <2>1, PlacesAre
  <2>4. q \in Nat /\ SHARE_SLOTS \in Nat /\ MAX_REGIONS \in Nat /\ MAX_REGIONS >= 1
    BY <2>1, SpacesAssumption
  <2>5. l <= c + 2 * 1
    BY <1>4, <2>1 DEF Long
  <2>6. l <= q + 2 * MAX_REGIONS + SHARE_SLOTS
    BY <2>2, <2>3, <2>4, <2>5
  <2> QED
    BY <2>1, <2>2, <2>6 DEF PLAN_STEPS
<1> QED
  BY <1>1, <1>2, <1>3, <1>5, <1>6

LEMMA ExitIs ==
  ASSUME SpacesInv, Exit
  PROVE  /\ PlanShape(plan', Holders, Nat \ {0})
         /\ Len(plan') \in Nat /\ Len(plan') <= PLAN_STEPS
<1>1. plan' = TeardownPlan(regions, Holders, current, id[current]) /\ InCall
  BY DEF Exit
<1>2. PICK H, Rg, d, p, C : /\ H = Holders /\ Rg = regions /\ d = id[current]
                            /\ p = current /\ C = plan'
  OBVIOUS
<1>3. /\ IsHolders(H) /\ IsRegions(Rg) /\ Len(Rg) = MAX_REGIONS /\ p \in Procs
      /\ C = TeardownPlan(Rg, H, p, d)
  BY <1>1, <1>2, HoldersAre, RegionsAre, Calling DEF SpacesInv
<1>4. PlanShape(C, H, Nat \ {0}) /\ Len(C) \in Nat /\ Len(C) <= PLAN_STEPS
  BY <1>3, TeardownIs
<1> QED
  BY <1>2, <1>4

LEMMA FreeRegionKeeps ==
  ASSUME SpacesInv, NEW i \in 1..MAX_REGIONS, FreeRegion(i)
  PROVE  SpacesInv'
<1>1. /\ InCall /\ UNCHANGED <<machine, pt, free, process, shared, cpu>>
      /\ dying' = dying
  BY DEF FreeRegion
<1> QED
  BY <1>1, FreeRegionIs, Calling, PlanMade

LEMMA ExitKeeps ==
  ASSUME SpacesInv, Exit
  PROVE  SpacesInv'
<1>1. /\ InCall /\ UNCHANGED <<machine, pt, free, process, shared, cpu>>
      /\ dying' = current
  BY DEF Exit
<1> QED
  BY <1>1, ExitIs, PlanMade

(* A step of a plan that is under way. *)
LEMMA PlanStep ==
  ASSUME SpacesInv, plan # << >>, plan' = Tail(plan), UNCHANGED <<machine, cpu, dying, space>>,
         Live' = Live, Trees'
  PROVE  PlanOk' /\ CpuOk' /\ KernelMapped'
<1>1. /\ current' = current /\ active' = active /\ phase' = phase
      /\ current \in Live' /\ current # 0 /\ active = space[current] /\ phase = "run"
  BY DEF SpacesInv, CpuOk, cpu
<1>2. CpuOk'
  BY <1>1 DEF SpacesInv, CpuOk
<1>3. KernelMapped'
  BY <1>1, <1>2, RunningMapped
<1>4. PlanOk'
  <2>1. PICK F, n : F = plan /\ n = Len(plan)
    OBVIOUS
  <2>2. /\ F \in Seq(Steps) /\ F # << >> /\ n = Len(F)
        /\ \A k \in 1..n : F[k].do = "unmap" => F[k].proc \in Live
    BY <2>1 DEF SpacesInv, PlanOk
  <2>3. /\ Tail(F) \in Seq(Steps) /\ n \in Nat /\ Len(Tail(F)) = n - 1
        /\ \A k \in 1..(n - 1) : Tail(F)[k] = F[k + 1] /\ k + 1 \in 1..n
    BY <2>2
  <2>4. \A k \in 1..(n - 1) : Tail(F)[k].do = "unmap" => Tail(F)[k].proc \in Live
    BY <2>2, <2>3
  <2>5. Steps' = Steps
    BY DEF Steps, Procs, Shares
  <2> QED
    BY <2>1, <2>3, <2>4, <2>5 DEF PlanOk
<1> QED
  BY <1>2, <1>3, <1>4

LEMMA RunForgetCapsKeeps ==
  ASSUME SpacesInv, RunForgetCaps
  PROVE  SpacesInv'
<1>1. /\ UNCHANGED <<machine, pt, bytes, free, space, frames, id, shares, nextId,
                     arena, regions, nextRegion, cpu, dying>>
      /\ plan # << >> /\ plan' = Tail(plan)
  BY DEF RunForgetCaps, memory, process, shared
<1>2. BuildOk' /\ FramesOk' /\ Trees' /\ Live' = Live
  <2>1. IsTables(pt)'
    BY <1>1, Rigid DEF SpacesInv, Trees
  <2> QED
    BY <1>1, <2>1, StillIs DEF SpacesInv
<1>3. SlotsOk' /\ RegionsOk'
  BY <1>1, Rigid DEF SpacesInv, SlotsOk, RegionsOk, RegionOk, Procs, Shares
<1>4. PlanOk' /\ CpuOk' /\ KernelMapped'
  BY <1>1, <1>2, PlanStep
<1> QED
  BY <1>2, <1>3, <1>4 DEF SpacesInv

LEMMA RunReleaseKeeps ==
  ASSUME SpacesInv, RunRelease
  PROVE  SpacesInv'
<1>1. /\ UNCHANGED <<machine, pt, bytes, free, space, frames, id, shares, nextId,
                     nextRegion, cpu, dying>>
      /\ plan # << >> /\ plan' = Tail(plan)
  BY DEF RunRelease, memory, process
<1>2. BuildOk' /\ FramesOk' /\ Trees' /\ Live' = Live
  <2>1. IsTables(pt)'
    BY <1>1, Rigid DEF SpacesInv, Trees
  <2> QED
    BY <1>1, <2>1, StillIs DEF SpacesInv
<1>3. SlotsOk'
  BY <1>1, Rigid DEF SpacesInv, SlotsOk, Procs, Shares
<1>4. RegionsOk'
  <2>1. PICK gone : /\ gone \subseteq {i \in 1..MAX_REGIONS : regions[i].live}
                    /\ arena' = arena \cup UNION {Range(regions[i].frames) : i \in gone}
                    /\ regions' = [i \in 1..MAX_REGIONS |->
                                     IF i \in gone THEN NoRegion ELSE regions[i]]
    BY DEF RunRelease
  <2>2. RegionsOk
    BY DEF SpacesInv
  <2>3. \A i \in gone : Range(regions[i].frames) \subseteq Arena
    <3>1. \A i \in gone : regions[i].frames \in Seq(Arena)
      BY <2>1, <2>2 DEF RegionsOk, RegionOk
    <3> QED
      BY <3>1 DEF Range
  <2>4. arena' \subseteq Arena
    BY <2>1, <2>2, <2>3 DEF RegionsOk
  <2>5. NoRegion.live = FALSE
    BY DEF NoRegion
  <2>6. \A i \in 1..MAX_REGIONS :
          /\ regions'[i] = IF i \in gone THEN NoRegion ELSE regions[i]
          /\ regions'[i].live => regions'[i] = regions[i]
          /\ regions'[i].live \in BOOLEAN
    BY <2>1, <2>2, <2>5 DEF RegionsOk
  <2>7. regions' = [i \in 1..MAX_REGIONS |-> regions'[i]]
    BY <2>1
  <2>8. \A r : RegionOk(r)' = RegionOk(r)
    BY <1>1, Rigid DEF RegionOk
  <2>9. \A i \in 1..MAX_REGIONS : RegionOk(regions'[i])
    BY <2>2, <2>6 DEF RegionsOk, RegionOk
  <2>10. \A i, j \in 1..MAX_REGIONS :
           regions'[i].live /\ regions'[j].live /\ regions'[i].id = regions'[j].id => i = j
    BY <2>2, <2>6 DEF RegionsOk
  <2>11. Arena' = Arena /\ nextRegion' \in Nat \ {0}
    BY <1>1, <2>2, Rigid DEF RegionsOk
  <2>12. \A i \in 1..MAX_REGIONS : RegionOk(regions[i])'
    BY <1>1, <2>9, Rigid DEF RegionOk
  <2> QED
    BY <2>4, <2>6, <2>7, <2>10, <2>11, <2>12 DEF RegionsOk
<1>5. PlanOk' /\ CpuOk' /\ KernelMapped'
  BY <1>1, <1>2, PlanStep
<1> QED
  BY <1>2, <1>3, <1>4, <1>5 DEF SpacesInv

(* An unmap step finds its slot empty, or empties it. *)
LEMMA RunUnmapIs ==
  ASSUME SpacesInv, RunUnmap, NEW e, e = Head(plan)
  PROVE  /\ e \in Steps /\ e.do = "unmap" /\ e = plan[1] /\ Len(plan) \in Nat \ {0}
         /\ e.proc \in Live /\ e.proc \in Procs /\ e.slot \in Shares
         /\ \/ shares[e.proc][e.slot] = 0 /\ UNCHANGED <<pt, shares>>
            \/ /\ shares' = [shares EXCEPT ![e.proc][e.slot] = 0]
               /\ \E o : UnmapWorks(e.proc, o, ShareWindow(e.slot))
<1>1. plan # << >> /\ e.do = "unmap" /\ plan \in Seq(Steps)
  BY DEF RunUnmap, SpacesInv, PlanOk
<1>2. e \in Steps /\ e = plan[1] /\ Len(plan) \in Nat \ {0}
  BY <1>1
<1>3. e.proc \in Procs /\ e.slot \in Shares
  BY <1>1, <1>2, StepsAre
<1>4. e.proc \in Live
  <2>1. 1 \in 1..Len(plan)
    BY <1>2
  <2> QED
    BY <1>1, <1>2, <2>1 DEF SpacesInv, PlanOk
<1>5. PICK p, s, w : p = e.proc /\ s = e.slot /\ w = ShareWindow(s)
  OBVIOUS
<1>6. CASE shares[p][s] = 0
  BY <1>1, <1>2, <1>3, <1>4, <1>5, <1>6 DEF RunUnmap
<1>7. CASE shares[p][s] # 0
  <2>1. /\ pt' = UnmapAll(pt, space[p], Range(w)) /\ free' = free /\ frames' = frames
        /\ shares' = [shares EXCEPT ![p][s] = 0]
    BY <1>5, <1>7 DEF RunUnmap
  <2>2. Range(w) \subseteq WindowPages
    BY <1>3, <1>4, <1>5, CallerIs, WindowsAre DEF WindowPages
  <2>3. \E o : UnmapWorks(p, o, w)
    BY <1>4, <1>5, <2>1, <2>2, UnmapIs
  <2> QED
    BY <1>1, <1>2, <1>3, <1>4, <1>5, <2>1, <2>3
<1> QED
  BY <1>6, <1>7

LEMMA RunUnmapKeeps ==
  ASSUME SpacesInv, RunUnmap
  PROVE  SpacesInv'
<1>1. /\ UNCHANGED <<machine, bytes, free, space, frames, id, nextId, shared, cpu, dying>>
      /\ plan # << >> /\ plan' = Tail(plan)
  BY DEF RunUnmap
<1>2. PICK e : e = Head(plan)
  OBVIOUS
<1>3. PICK p, s : p = e.proc /\ s = e.slot
  OBVIOUS
<1>4. p \in Live /\ p \in Procs /\ s \in Shares
  BY <1>2, <1>3, RunUnmapIs
<1>5. BuildOk' /\ FramesOk' /\ SlotsOk' /\ RegionsOk' /\ Trees' /\ Live' = Live
  <2>1. CASE UNCHANGED <<pt, shares>>
    <3>1. IsTables(pt)'
      BY <1>1, <2>1, Rigid DEF SpacesInv, Trees
    <3>2. BuildOk' /\ FramesOk' /\ Trees' /\ Live' = Live
      BY <1>1, <2>1, <3>1, StillIs DEF SpacesInv
    <3>3. SlotsOk' /\ RegionsOk'
      BY <1>1, <2>1, Rigid DEF SpacesInv, SlotsOk, RegionsOk, RegionOk, Procs, Shares, shared
    <3> QED
      BY <3>2, <3>3
  <2>2. CASE /\ shares' = [shares EXCEPT ![p][s] = 0]
             /\ \E o : UnmapWorks(p, o, ShareWindow(s))
    <3>1. PICK o : UnmapWorks(p, o, ShareWindow(s))
      BY <2>2
    <3>2. Worked(p, o) /\ SpaceOk(o, space[p], pt)
      BY <3>1 DEF UnmapWorks
    <3>3. /\ shares' \in [Procs -> [Shares -> Nat]]
          /\ \A q \in Procs : \A t, u \in Shares :
               shares'[q][t] = shares'[q][u] /\ shares'[q][t] # 0 => t = u
      BY <1>4, <2>2, SlotCleared DEF SpacesInv
    <3> QED
      BY <1>1, <1>4, <3>2, <3>3, WindowKept
  <2> QED
    BY <1>2, <1>3, <2>1, <2>2, RunUnmapIs
<1>6. PlanOk' /\ CpuOk' /\ KernelMapped'
  BY <1>1, <1>5, PlanStep
<1> QED
  BY <1>5, <1>6 DEF SpacesInv

(* A new region takes n frames of the arena, and an entry that was free. *)
Makes(n, i, got, F) ==
  /\ got \subseteq arena /\ got \subseteq Arena /\ ~regions[i].live
  /\ F \in Seq(Arena) /\ Len(F) = n /\ NoTwice(F) /\ Range(F) = got
  /\ pt' = [f \in AllFrames |-> IF f \in got THEN NewTable ELSE pt[f]]
  /\ bytes' = [f \in AllFrames |-> IF f \in got THEN NewPage ELSE bytes[f]]
  /\ arena' = arena \ got /\ nextRegion' = nextRegion + 1
  /\ regions' = [regions EXCEPT ![i] =
                   [live |-> TRUE, id |-> nextRegion, owner |-> id[current], frames |-> F]]
  /\ UNCHANGED <<machine, free, process, cpu, plan, dying>> /\ InCall

LEMMA MakeRegionIs ==
  ASSUME SpacesInv, NEW n \in 1..REGION_MAX_PAGES, MakeRegion(n)
  PROVE  \E i, got, F : i \in 1..MAX_REGIONS /\ Makes(n, i, got, F)
<1>1. PICK got, empty : /\ got = {f \in arena : Cardinality({g \in arena : g <= f}) <= n}
                        /\ empty = {i \in 1..MAX_REGIONS : ~regions[i].live}
  OBVIOUS
<1>2. PICK F, i : F = Ascending(got, DEVICE) /\ i = Min(empty)
  OBVIOUS
<1>3. /\ empty # {} /\ Cardinality(got) = n
      /\ pt' = [f \in AllFrames |-> IF f \in got THEN NewTable ELSE pt[f]]
      /\ bytes' = [f \in AllFrames |-> IF f \in got THEN NewPage ELSE bytes[f]]
      /\ arena' = arena \ got /\ nextRegion' = nextRegion + 1
      /\ regions' = [regions EXCEPT ![i] =
                       [live |-> TRUE, id |-> nextRegion, owner |-> id[current],
                        frames |-> F]]
      /\ UNCHANGED <<machine, free, process, cpu, plan, dying>> /\ InCall
  BY <1>1, <1>2 DEF MakeRegion
<1>4. i \in 1..MAX_REGIONS /\ ~regions[i].live
  <2>1. empty \subseteq Nat
    BY <1>1
  <2>2. i \in empty
    BY <1>2, <1>3, <2>1, MinIs
  <2> QED
    BY <1>1, <2>2
<1>5. got \subseteq arena /\ got \subseteq Arena /\ got \subseteq 1..DEVICE /\ DEVICE \in Nat
  <2>1. arena \subseteq Arena /\ MachineOk(machine)
    BY MachineFacts DEF SpacesInv, RegionsOk
  <2>2. Arena \subseteq 1..DEVICE /\ DEVICE \in Nat
    BY <2>1, FramesAre DEF AllFrames
  <2> QED
    BY <1>1, <2>1, <2>2
<1>6. F \in Seq(1..DEVICE) /\ NoTwice(F) /\ Range(F) = got
  <2>1. F \in Seq(1..DEVICE) /\ NoTwice(F) /\ Range(F) = got \cap (1..DEVICE)
    BY <1>2, <1>5, AscendingIs
  <2> QED
    BY <1>5, <2>1
<1>7. Len(F) = n
  BY <1>3, <1>6, LenIs
<1>8. F \in Seq(Arena)
  <2>1. PICK k \in Nat : k = Len(F)
    BY <1>6
  <2>2. F = [j \in 1..k |-> F[j]] /\ DOMAIN F = 1..k
    BY <1>6, <2>1
  <2>3. \A j \in 1..k : F[j] \in Arena
    BY <1>5, <1>6, <2>2 DEF Range
  <2>4. F \in [1..k -> Arena]
    BY <2>2, <2>3
  <2> QED
    BY <2>4, TupleIs
<1>9. Makes(n, i, got, F)
  BY <1>3, <1>4, <1>5, <1>6, <1>7, <1>8 DEF Makes
<1> QED
  BY <1>4, <1>9

LEMMA MakesStill ==
  ASSUME SpacesInv, NEW n, NEW i, NEW got, NEW F, Makes(n, i, got, F)
  PROVE  /\ BuildOk' /\ FramesOk' /\ Trees' /\ Live' = Live
         /\ \A p \in Live, v \in machine.user :
              LeafOf(pt', space'[p], v) = LeafOf(pt, space[p], v)
<1>2. /\ got \subseteq Arena
      /\ pt' = [f \in AllFrames |-> IF f \in got THEN NewTable ELSE pt[f]]
      /\ UNCHANGED <<machine, free, process>>
  BY DEF Makes
<1>3. UNCHANGED <<machine, free, space, frames>>
  BY <1>2 DEF process
<1>4. MachineOk(machine)
  BY MachineFacts DEF SpacesInv
<1>5. IsTables(pt)' /\ \A f \in General \cup {KROOT} : pt'[f] = pt[f]
  <2>1. IsTables(pt)
    BY DEF SpacesInv, Trees
  <2>2. \A f \in AllFrames : pt'[f] = [s \in Slots |-> pt'[f][s]]
    BY <1>2, <2>1 DEF IsTables, NewTable
  <2>3. pt' = [f \in AllFrames |-> [s \in Slots |-> pt'[f][s]]]
    BY <1>2, <2>2
  <2>4. AllFrames' = AllFrames /\ Slots' = Slots
    BY <1>3, Rigid
  <2>5. IsTables(pt)'
    BY <2>3, <2>4 DEF IsTables
  <2>6. \A f \in General \cup {KROOT} : f \in AllFrames /\ f \notin got
    BY <1>2, <1>4, FramesAre
  <2> QED
    BY <1>2, <2>5, <2>6
<1> QED
  BY <1>3, <1>5, StillIs DEF SpacesInv

LEMMA MakeRegionKeeps ==
  ASSUME SpacesInv, NEW n \in 1..REGION_MAX_PAGES, MakeRegion(n)
  PROVE  SpacesInv'
<1>1. PICK i, got, F : i \in 1..MAX_REGIONS /\ Makes(n, i, got, F)
  BY MakeRegionIs
<1>2. /\ i \in 1..MAX_REGIONS /\ got \subseteq arena /\ ~regions[i].live
      /\ F \in Seq(Arena) /\ Len(F) = n
      /\ arena' = arena \ got /\ nextRegion' = nextRegion + 1
      /\ regions' = [regions EXCEPT ![i] =
                       [live |-> TRUE, id |-> nextRegion, owner |-> id[current],
                        frames |-> F]]
      /\ UNCHANGED <<machine, free, process, cpu, plan, dying>> /\ InCall
  BY <1>1 DEF Makes
<1>3. UNCHANGED <<machine, free, space, frames, id, shares, nextId, cpu, plan, dying>>
  BY <1>2 DEF process
<1>6. BuildOk' /\ FramesOk' /\ Trees' /\ Live' = Live
  BY <1>1, MakesStill
<1>7. SlotsOk'
  BY <1>3, Rigid DEF SpacesInv, SlotsOk, Procs, Shares
<1>8. RegionsOk'
  <2>1. PICK new : new = [live |-> TRUE, id |-> nextRegion, owner |-> id[current],
                          frames |-> F]
    OBVIOUS
  <2>2. new.live = TRUE /\ new.id = nextRegion /\ new.frames = F
    BY <2>1
  <2>3. /\ RegionsOk /\ nextRegion \in Nat \ {0}
        /\ regions = [j \in 1..MAX_REGIONS |-> regions[j]]
    BY DEF SpacesInv, RegionsOk
  <2>4. /\ regions' = [j \in 1..MAX_REGIONS |-> regions'[j]]
        /\ \A j \in 1..MAX_REGIONS : regions'[j] = IF j = i THEN new ELSE regions[j]
    BY <1>2, <2>1, <2>3
  <2>5. /\ nextRegion' = nextRegion + 1 /\ Arena' = Arena /\ arena' \subseteq Arena
        /\ nextRegion' \in Nat \ {0}
    BY <1>2, <1>3, <2>3, Rigid DEF RegionsOk
  <2>6. ASSUME NEW j \in 1..MAX_REGIONS
        PROVE  regions'[j].live \in BOOLEAN /\ RegionOk(regions[j])'
    <3>1. CASE j = i
      <4>1. regions'[j] = new /\ nextRegion \in 1..(nextRegion' - 1)
        BY <2>3, <2>4, <2>5, <3>1
      <4>2. F \in Seq(Arena') /\ Len(F) <= REGION_MAX_PAGES
        BY <1>2, <2>5
      <4> QED
        BY <2>2, <4>1, <4>2 DEF RegionOk
    <3>2. CASE j # i
      <4>1. regions'[j] = regions[j] /\ regions[j].live \in BOOLEAN /\ RegionOk(regions[j])
        BY <2>3, <2>4, <3>2 DEF RegionsOk
      <4>2. 1..(nextRegion - 1) \subseteq 1..(nextRegion' - 1)
        BY <2>3, <2>5
      <4> QED
        BY <2>5, <4>1, <4>2 DEF RegionOk
    <3> QED
      BY <3>1, <3>2
  <2>7. ASSUME NEW j \in 1..MAX_REGIONS, NEW k \in 1..MAX_REGIONS,
               regions'[j].live, regions'[k].live, regions'[j].id = regions'[k].id
        PROVE  j = k
    <3>1. \A x \in 1..MAX_REGIONS : regions[x].live => regions[x].id # nextRegion
      BY <2>3 DEF RegionsOk, RegionOk
    <3>2. CASE j # i /\ k # i
      BY <2>3, <2>4, <2>7, <3>2 DEF RegionsOk
    <3>3. CASE j = i \/ k = i
      BY <2>2, <2>4, <2>7, <3>1, <3>3
    <3> QED
      BY <3>2, <3>3
  <2> QED
    BY <2>4, <2>5, <2>6, <2>7 DEF RegionsOk
<1>9. PlanOk'
  BY <1>3, <1>6, PlanKept DEF SpacesInv
<1>10. CpuOk' /\ KernelMapped'
  <2>1. InCall /\ dying' = dying
    BY <1>2
  <2> QED
    BY <1>3, <1>6, <2>1, Calling, CallKeeps
<1> QED
  BY <1>6, <1>7, <1>8, <1>9, <1>10 DEF SpacesInv

(* A death: everything the process was charged is free again. *)
LEMMA ReapKeeps ==
  ASSUME SpacesInv, Reap
  PROVE  SpacesInv'
<1>1. /\ free' = free \cup Range(frames[dying]) /\ space' = [space EXCEPT ![dying] = 0]
      /\ frames' = [frames EXCEPT ![dying] = << >>]
      /\ current' = 0 /\ dying' = 0 /\ dying # 0 /\ plan = << >>
      /\ UNCHANGED <<machine, pt, bytes, id, shares, nextId, arena, regions, nextRegion,
                     phase, active, plan>>
  BY DEF Reap, shared
<1>2. PICK p : p = dying
  OBVIOUS
<1>3. p = current /\ p \in Live /\ p \in Procs /\ phase = "run"
  BY <1>1, <1>2 DEF SpacesInv, CpuOk, Live
<1>4. PICK o : o = [MemoryFor(p) EXCEPT !.free = free \cup Range(frames[p]),
                                        !.frames = << >>]
  OBVIOUS
<1>5. /\ o.pt = pt /\ o.bytes = bytes /\ o.free = free' /\ o.frames = << >>
      /\ o.ok = TRUE
      /\ o = [pt |-> o.pt, bytes |-> o.bytes, free |-> o.free, frames |-> o.frames,
              got |-> o.got, at |-> o.at, ok |-> o.ok]
  BY <1>1, <1>2, <1>4 DEF MemoryFor
<1>6. Worked(p, o)
  <2>1. IsMem(o)
    BY <1>5 DEF IsMem, SpacesInv, Trees
  <2>2. PICK E : E = << >>
    OBVIOUS
  <2>3. E \in Seq(General) /\ Range(E) = {} /\ NoTwice(E)
    <3>1. E \in Seq(General) /\ Len(E) = 0 /\ DOMAIN E = {}
      BY <2>2
    <3> QED
      BY <3>1 DEF Range, NoTwice
  <2>4. free \subseteq General /\ Range(frames[p]) \subseteq General
    <3>1. frames[p] \in Seq(General)
      BY <1>3 DEF SpacesInv, FramesOk
    <3>2. Range(frames[p]) \subseteq General
      BY <3>1 DEF Range
    <3> QED
      BY <3>2 DEF SpacesInv, FramesOk
  <2>5. /\ o.free \subseteq General /\ o.frames = E /\ o.free = Pool(p)
        /\ \A f \in AllFrames \ Pool(p) : o.pt[f] = pt[f]
    BY <1>1, <1>2, <1>5, <2>2, <2>4 DEF Pool
  <2>6. MemOk(o, pt, Pool(p))
    BY <2>1, <2>3, <2>5 DEF MemOk
  <2> QED
    BY <1>1, <1>2, <1>5, <2>6 DEF Worked
<1>7. FramesOk' /\ IsTables(pt)' /\ frames'[p] = << >>
  BY <1>1, <1>3, <1>5, <1>6, WorkedFrames DEF SpacesInv
<1>8. BuildOk'
  BY <1>1, Rigid DEF SpacesInv, BuildOk
<1>9. space' \in [Procs -> Nat] /\ space'[p] = 0 /\ \A q \in Procs : q # p => space'[q] = space[q]
  BY <1>1, <1>2, <1>3 DEF SpacesInv, SlotsOk
<1>10. Live' = Live \ {p} /\ Procs' = Procs /\ Shares' = Shares
  BY <1>9 DEF Live, Procs, Shares
<1>11. Trees'
  <2>1. ASSUME NEW q \in Live, q # p
        PROVE  SpaceOk(MemoryFor(q), space[q], pt)'
    <3>1. space'[q] = space[q]
      BY <1>9, <2>1 DEF Live
    <3> QED
      BY <1>1, <1>3, <1>6, <2>1, <3>1, WorkedOthers DEF SpacesInv
  <2> QED
    BY <1>7, <1>10, <2>1 DEF Trees
<1>12. SlotsOk'
  <2>1. \A q \in Procs : q # p => frames'[q] = frames[q]
    BY <1>1, <1>3, <1>6, WorkedFrames DEF SpacesInv
  <2>2. \A q \in Procs : space'[q] = 0 => frames'[q] = << >>
    BY <1>7, <1>9, <2>1 DEF SpacesInv, SlotsOk
  <2> QED
    BY <1>1, <1>9, <1>10, <2>2 DEF SpacesInv, SlotsOk
<1>13. RegionsOk'
  BY <1>1, Rigid DEF SpacesInv, RegionsOk, RegionOk
<1>14. PlanOk'
  <2>1. plan' = << >>
    BY <1>1
  <2> QED
    BY <2>1 DEF PlanOk
<1>15. CpuOk'
  BY <1>1, <1>3 DEF CpuOk
<1>16. KernelMapped'
  BY <1>1 DEF SpacesInv, KernelMapped, KROOT
<1> QED
  BY <1>7, <1>8, <1>11, <1>12, <1>13, <1>14, <1>15, <1>16 DEF SpacesInv

-----------------------------------------------------------------------------
LEMMA InitIs ==
  ASSUME Init
  PROVE  SpacesInv
<1>1. BuildOk /\ MachineOk(machine)
  BY MachineFacts DEF Init, BuildOk
<1>2. Live = {} /\ \A p \in Procs : frames[p] = << >> /\ space[p] = 0
  BY DEF Init, Live
<1>3. FramesOk
  <2>1. free = General /\ frames = [p \in Procs |-> frames[p]]
    BY DEF Init
  <2>2. PICK E : E = << >>
    OBVIOUS
  <2>3. E \in Seq(General) /\ Range(E) = {} /\ NoTwice(E)
    <3>1. E \in Seq(General) /\ Len(E) = 0 /\ DOMAIN E = {}
      BY <2>2
    <3> QED
      BY <3>1 DEF Range, NoTwice
  <2> QED
    BY <1>2, <2>1, <2>2, <2>3 DEF FramesOk
<1>4. SlotsOk
  <2>1. /\ space = [p \in Procs |-> 0] /\ shares = [p \in Procs |-> [s \in Shares |-> 0]]
    BY DEF Init
  <2> QED
    BY <1>2, <2>1 DEF SlotsOk
<1>5. RegionsOk
  <2>1. /\ regions = [i \in 1..MAX_REGIONS |-> NoRegion] /\ NoRegion.live = FALSE
        /\ arena = Arena /\ nextRegion = 1
    BY DEF Init, NoRegion
  <2>2. /\ regions = [i \in 1..MAX_REGIONS |-> regions[i]]
        /\ \A i \in 1..MAX_REGIONS : regions[i].live = FALSE
    BY <2>1
  <2>3. \A i \in 1..MAX_REGIONS : ~regions[i].live /\ regions[i].live \in BOOLEAN
    BY <2>2
  <2>4. \A i \in 1..MAX_REGIONS : RegionOk(regions[i])
    BY <2>3 DEF RegionOk
  <2>5. nextRegion \in Nat \ {0} /\ arena \subseteq Arena
    BY <2>1
  <2> QED
    BY <2>2, <2>3, <2>4, <2>5 DEF RegionsOk
<1>6. CpuOk
  BY DEF Init, CpuOk
<1>7. PlanOk
  <2>1. plan = << >>
    BY DEF Init
  <2> QED
    BY <2>1 DEF PlanOk
<1>8. Trees
  <2>1. PICK K : K = [i \in Slots |-> IF i \notin machine.shared THEN EMPTY
                                      ELSE IF machine.kernelLink THEN Link(KTABLE)
                                      ELSE Leaf(KROOT, {"write", "exec"})]
    OBVIOUS
  <2>2. PICK L : L = [i \in Slots |-> Leaf(KROOT, {"write", "exec"})]
    OBVIOUS
  <2>3. pt = [f \in AllFrames |-> CASE f = KROOT -> K [] f = KTABLE -> L [] OTHER -> NewTable]
    BY <2>1, <2>2 DEF Init
  <2>4. \A f \in AllFrames : pt[f] = K \/ pt[f] = L \/ pt[f] = NewTable
    BY <2>3
  <2>5. \A f \in AllFrames : pt[f] = [i \in Slots |-> pt[f][i]]
    BY <2>1, <2>2, <2>4 DEF NewTable
  <2>6. IsTables(pt)
    BY <2>3, <2>5 DEF IsTables
  <2> QED
    BY <1>2, <2>6 DEF Trees
<1>9. KernelMapped
  BY DEF Init, KernelMapped
<1> QED
  BY <1>1, <1>3, <1>4, <1>5, <1>6, <1>7, <1>8, <1>9 DEF SpacesInv

LEMMA Stuttering ==
  ASSUME SpacesInv, UNCHANGED vars
  PROVE  SpacesInv'
<1>1. UNCHANGED <<machine, pt, bytes, free, arena, space, frames, id, shares, regions,
                  nextId, nextRegion, phase, current, active, plan, dying>>
  BY DEF vars, memory, process, shared, cpu
<1>2. BuildOk' /\ FramesOk' /\ Trees' /\ Live' = Live
  <2>1. IsTables(pt)'
    BY <1>1, Rigid DEF SpacesInv, Trees
  <2> QED
    BY <1>1, <2>1, StillIs DEF SpacesInv
<1>3. SlotsOk' /\ RegionsOk'
  BY <1>1, Rigid DEF SpacesInv, SlotsOk, RegionsOk, RegionOk, Procs, Shares
<1>4. PlanOk'
  BY <1>1, <1>2, PlanKept DEF SpacesInv
<1>5. CpuOk'
  BY <1>1, <1>2 DEF SpacesInv, CpuOk, KROOT
<1>6. KernelMapped'
  BY <1>1 DEF SpacesInv, KernelMapped, KROOT
<1> QED
  BY <1>2, <1>3, <1>4, <1>5, <1>6 DEF SpacesInv

LEMMA SpacesStep ==
  SpacesInv /\ [Next]_vars => SpacesInv'
<1> SUFFICES ASSUME SpacesInv, [Next]_vars PROVE SpacesInv'
  OBVIOUS
<1>1. CASE Boot
  BY <1>1, BootIs
<1>2. CASE Start
  BY <1>2, StartIs
<1>3. ASSUME NEW p \in Procs, Resume(p) PROVE SpacesInv'
  BY <1>3, ResumeKeeps
<1>4. CASE Spawn
  BY <1>4, SpawnKeeps
<1>5. ASSUME NEW write \in machine.rights, MapDevice(write) PROVE SpacesInv'
  BY <1>5, MapDeviceKeeps
<1>6. ASSUME NEW p \in Procs, UnmapDevice(p) PROVE SpacesInv'
  BY <1>6, UnmapDeviceKeeps
<1>7. ASSUME NEW n \in 1..REGION_MAX_PAGES, MakeRegion(n) PROVE SpacesInv'
  BY <1>7, MakeRegionKeeps
<1>8. ASSUME NEW i \in 1..MAX_REGIONS, NEW write \in machine.rights, MapRegion(i, write)
      PROVE  SpacesInv'
  BY <1>8, MapRegionKeeps
<1>9. ASSUME NEW p \in Procs, NEW r \in 1..MaxRegionId, UnmapRegion(p, r) PROVE SpacesInv'
  BY <1>9, UnmapRegionKeeps
<1>10. ASSUME NEW i \in 1..MAX_REGIONS, FreeRegion(i) PROVE SpacesInv'
  BY <1>10, FreeRegionKeeps
<1>11. CASE Exit
  BY <1>11, ExitKeeps
<1>12. CASE RunUnmap
  BY <1>12, RunUnmapKeeps
<1>13. CASE RunForgetCaps
  BY <1>13, RunForgetCapsKeeps
<1>14. CASE RunRelease
  BY <1>14, RunReleaseKeeps
<1>15. CASE Reap
  BY <1>15, ReapKeeps
<1>16. CASE UNCHANGED vars
  BY <1>16, Stuttering
<1> QED
  BY <1>1, <1>2, <1>3, <1>4, <1>5, <1>6, <1>7, <1>8, <1>9, <1>10, <1>11, <1>12,
     <1>13, <1>14, <1>15, <1>16 DEF Next, Syscall

(* The invariant holds of every build that satisfies MachineOk, whatever   *)
(* the programs do.                                                        *)
THEOREM SpacesAlways == Spec => []SpacesInv
<1>1. Init => SpacesInv
  BY InitIs
<1> QED
  BY <1>1, SpacesStep, PTL DEF Spec

(* The tree the CPU walks always has the kernel in it: `kill_current` and  *)
(* a park leave the CPU on the tables of a process that is gone, and no    *)
(* load, mapping or region scrubs them before the next resume.             *)
THEOREM KernelAlwaysMapped == Spec => []KernelMapped
<1>1. SpacesInv => KernelMapped
  BY DEF SpacesInv
<1> QED
  BY <1>1, SpacesAlways, PTL

-----------------------------------------------------------------------------
(* What a step does to the leaves that the processes find.                 *)

LeavesStay ==
  /\ machine' = machine /\ space' = space
  /\ \A q \in Live, v \in machine.user : LeafAt(q, v)' = LeafAt(q, v)

(* One window of p shows the frames of F, and nothing behind them. *)
Fits(p, w, n, F, perms) ==
  /\ machine' = machine /\ space' = space /\ p \in Live /\ IsWindow(w, n)
  /\ \A q \in Live, v \in machine.user :
       q # p \/ v \notin Range(w) => LeafAt(q, v)' = LeafAt(q, v)
  /\ \A q \in Live, v \in machine.user : \A k \in 1..n :
       q = p /\ v = w[k] => LeafAt(q, v)' = IF k <= Len(F) THEN Leaf(F[k], perms)
                                            ELSE EMPTY

Blanks(p, w, n) == Fits(p, w, n, << >>, {})

LEMMA StillShows ==
  ASSUME SpacesInv, UNCHANGED <<machine, pt, free, space, frames>>
  PROVE  LeavesStay
<1>1. IsTables(pt)'
  BY Rigid DEF SpacesInv, Trees
<1>2. \A p \in Live, v \in machine.user : LeafOf(pt', space'[p], v) = LeafOf(pt, space[p], v)
  BY <1>1, StillIs DEF SpacesInv
<1> QED
  BY <1>2, RigidLeaves DEF LeavesStay, LeafAt

LEMMA RemapShows ==
  ASSUME SpacesInv, NEW p \in Live, NEW o, NEW w, NEW n, IsWindow(w, n), NEW F, NEW perms,
         RemapWorks(p, o, w, n, F, perms), machine' = machine, space' = space
  PROVE  /\ o.ok => Fits(p, w, n, F, perms)
         /\ ~o.ok => Fits(p, w, n, << >>, perms)
<1>1. PICK m, root : m = MemoryFor(p) /\ root = space[p]
  OBVIOUS
<1>2. /\ Worked(p, o) /\ SpaceOk(o, space[p], pt)
      /\ \A v \in machine.user : v \notin Range(w) => Leaves(o, root)[v] = Leaves(m, root)[v]
      /\ \A k \in 1..n : Leaves(o, root)[w[k]] = IF o.ok /\ k <= Len(F)
                                                 THEN Leaf(F[k], perms) ELSE EMPTY
  BY <1>1 DEF RemapWorks, Refitted
<1>3. \A q \in Live, v \in machine.user :
        LeafOf(pt', space'[q], v) = IF q = p THEN Leaves(o, root)[v]
                                    ELSE LeafOf(pt, space[q], v)
  BY <1>1, <1>2, WorkedKeeps DEF SpacesInv
<1>4. \A v \in machine.user : Leaves(m, root)[v] = LeafOf(pt, root, v)
  BY <1>1 DEF Leaves, MemoryFor
<1>5. \A q, v : LeafAt(q, v)' = LeafOf(pt', space'[q], v)
  BY RigidLeaves DEF LeafAt
<1>6. ASSUME NEW q \in Live, NEW v \in machine.user, q # p \/ v \notin Range(w)
      PROVE  LeafAt(q, v)' = LeafAt(q, v)
  BY <1>1, <1>2, <1>3, <1>4, <1>5, <1>6 DEF LeafAt
<1>7. \A k \in 1..n : w[k] \in machine.user
  BY DEF IsWindow
<1>8. \A q \in Live, v \in machine.user : \A k \in 1..n :
        q = p /\ v = w[k] => LeafAt(q, v)' = IF o.ok /\ k <= Len(F) THEN Leaf(F[k], perms)
                                             ELSE EMPTY
  BY <1>2, <1>3, <1>5, <1>7
<1>9. Len(<< >>) = 0
  OBVIOUS
<1> QED
  BY <1>6, <1>8, <1>9 DEF Fits, IsWindow

LEMMA UnmapShows ==
  ASSUME SpacesInv, NEW p \in Live, NEW o, NEW w, NEW n, IsWindow(w, n),
         UnmapWorks(p, o, w), machine' = machine, space' = space
  PROVE  Blanks(p, w, n)
<1>1. PICK root : root = space[p]
  OBVIOUS
<1>2. /\ Worked(p, o) /\ SpaceOk(o, space[p], pt)
      /\ \A v \in machine.user : Leaves(o, root)[v] = IF v \in Range(w) THEN EMPTY
                                                      ELSE LeafOf(pt, root, v)
  BY <1>1 DEF UnmapWorks
<1>3. \A q \in Live, v \in machine.user :
        LeafOf(pt', space'[q], v) = IF q = p THEN Leaves(o, root)[v]
                                    ELSE LeafOf(pt, space[q], v)
  BY <1>1, <1>2, WorkedKeeps DEF SpacesInv
<1>5. \A q, v : LeafAt(q, v)' = LeafOf(pt', space'[q], v)
  BY RigidLeaves DEF LeafAt
<1>6. ASSUME NEW q \in Live, NEW v \in machine.user, q # p \/ v \notin Range(w)
      PROVE  LeafAt(q, v)' = LeafAt(q, v)
  BY <1>1, <1>2, <1>3, <1>5, <1>6 DEF LeafAt
<1>7. \A k \in 1..n : w[k] \in machine.user /\ w[k] \in Range(w)
  BY WindowRange DEF IsWindow
<1>8. \A q \in Live, v \in machine.user : \A k \in 1..n :
        q = p /\ v = w[k] => LeafAt(q, v)' = EMPTY
  BY <1>2, <1>3, <1>5, <1>7
<1>9. Len(<< >>) = 0
  OBVIOUS
<1> QED
  BY <1>6, <1>8, <1>9 DEF Blanks, Fits, IsWindow

(* What each of the calls shows. *)
DevicePerms == {USER_RO, USER_RW, USER_RO \cup {"device"}, USER_RW \cup {"device"}}

LEMMA MapDeviceShows ==
  ASSUME SpacesInv, NEW write, MapDevice(write)
  PROVE  \E perms \in DevicePerms, F \in {<<DEVICE>>, << >>} :
           Fits(current, DeviceWindow, 1, F, perms)
<1>1. PICK o : \E perms : DeviceWorks(o, perms) /\ current \in Live /\ perms \in DevicePerms
  BY MapDeviceIs DEF DevicePerms
<1>2. PICK perms : DeviceWorks(o, perms) /\ current \in Live /\ perms \in DevicePerms
  BY <1>1
<1>3. IsWindow(DeviceWindow, 1)
  BY <1>2, CallerIs, WindowsAre
<1>4. PICK p, w, F : p = current /\ w = DeviceWindow /\ F = <<DEVICE>>
  OBVIOUS
<1>5. RemapWorks(p, o, w, 1, F, perms) /\ IsWindow(w, 1) /\ p \in Live
      /\ machine' = machine /\ space' = space
  BY <1>2, <1>3, <1>4 DEF DeviceWorks, MapDevice
<1>6. Fits(p, w, 1, F, perms) \/ Fits(p, w, 1, << >>, perms)
  BY <1>5, RemapShows
<1> QED
  BY <1>2, <1>4, <1>6

LEMMA UnmapDeviceShows ==
  ASSUME SpacesInv, NEW p \in Procs, UnmapDevice(p)
  PROVE  Blanks(p, DeviceWindow, 1)
<1>1. PICK o : UnmapWorks(p, o, DeviceWindow) /\ p \in Live
  BY UnmapDeviceIs
<1>2. PICK w : w = DeviceWindow
  OBVIOUS
<1>3. IsWindow(w, 1) /\ machine' = machine /\ space' = space
  BY <1>1, <1>2, CallerIs, WindowsAre DEF UnmapDevice, process
<1>4. Blanks(p, w, 1)
  BY <1>1, <1>2, <1>3, UnmapShows
<1> QED
  BY <1>2, <1>4

LEMMA MapRegionShows ==
  ASSUME SpacesInv, NEW i \in 1..MAX_REGIONS, NEW write, MapRegion(i, write)
  PROVE  \E s \in Shares : \E perms, F :
           /\ Fits(current, ShareWindow(s), REGION_MAX_PAGES, F, perms)
           /\ perms \in {USER_RO, USER_RW} /\ regions[i].live
           /\ \/ /\ F = regions[i].frames
                 /\ shares' = [shares EXCEPT ![current][s] = regions[i].id]
              \/ F = << >> /\ shares' = shares
           /\ \/ shares[current][s] = regions[i].id
              \/ shares[current][s] = 0 /\ \A t \in Shares : shares[current][t] # regions[i].id
<1>1. PICK o, s, perms : /\ s \in Shares /\ perms \in {USER_RO, USER_RW}
                         /\ MapsInto(i, s, o, perms)
  BY MapRegionIs
<1>2. PICK p, w, F, n : /\ p = current /\ w = ShareWindow(s) /\ F = regions[i].frames
                        /\ n = REGION_MAX_PAGES
  OBVIOUS
<1>3. /\ RemapWorks(p, o, w, n, F, perms) /\ p \in Live /\ regions[i].live
      /\ shares' = IF o.ok THEN [shares EXCEPT ![current][s] = regions[i].id] ELSE shares
      /\ \/ shares[current][s] = regions[i].id
         \/ shares[current][s] = 0 /\ \A t \in Shares : shares[current][t] # regions[i].id
  BY <1>1, <1>2 DEF MapsInto
<1>4. IsWindow(w, n) /\ machine' = machine /\ space' = space
  BY <1>1, <1>2, <1>3, CallerIs, WindowsAre DEF MapRegion
<1>5. (o.ok => Fits(p, w, n, F, perms)) /\ (~o.ok => Fits(p, w, n, << >>, perms))
  BY <1>3, <1>4, RemapShows
<1>6. CASE o.ok
  <2>1. /\ Fits(current, ShareWindow(s), REGION_MAX_PAGES, F, perms)
        /\ shares' = [shares EXCEPT ![current][s] = regions[i].id]
    BY <1>2, <1>3, <1>5, <1>6
  <2> QED
    BY <1>1, <1>2, <1>3, <2>1
<1>7. CASE ~o.ok
  <2>1. /\ Fits(current, ShareWindow(s), REGION_MAX_PAGES, << >>, perms)
        /\ shares' = shares
    BY <1>2, <1>3, <1>5, <1>7
  <2> QED
    BY <1>1, <1>3, <2>1
<1> QED
  BY <1>6, <1>7

LEMMA UnmapRegionShows ==
  ASSUME SpacesInv, NEW p \in Procs, NEW r \in 1..MaxRegionId, UnmapRegion(p, r)
  PROVE  \E s \in Shares : /\ shares' = [shares EXCEPT ![p][s] = 0]
                           /\ Blanks(p, ShareWindow(s), REGION_MAX_PAGES)
<1>1. PICK s \in Shares : /\ shares' = [shares EXCEPT ![p][s] = 0] /\ p \in Live
                          /\ \E o : UnmapWorks(p, o, ShareWindow(s))
  BY UnmapRegionIs
<1>2. PICK o : UnmapWorks(p, o, ShareWindow(s))
  BY <1>1
<1>3. PICK w, n : w = ShareWindow(s) /\ n = REGION_MAX_PAGES
  OBVIOUS
<1>4. IsWindow(w, n) /\ machine' = machine /\ space' = space
  BY <1>1, <1>3, CallerIs, WindowsAre DEF UnmapRegion
<1>5. Blanks(p, w, n)
  BY <1>1, <1>2, <1>3, <1>4, UnmapShows
<1> QED
  BY <1>1, <1>3, <1>5

LEMMA RunUnmapShows ==
  ASSUME SpacesInv, RunUnmap, NEW e, e = Head(plan)
  PROVE  \/ shares[e.proc][e.slot] = 0 /\ shares' = shares /\ LeavesStay
         \/ /\ shares' = [shares EXCEPT ![e.proc][e.slot] = 0]
            /\ Blanks(e.proc, ShareWindow(e.slot), REGION_MAX_PAGES)
<1>1. machine' = machine /\ space' = space /\ free' = free /\ frames' = frames
  BY DEF RunUnmap
<1>2. e.proc \in Live /\ e.slot \in Shares
  BY RunUnmapIs
<1>3. CASE shares[e.proc][e.slot] = 0 /\ UNCHANGED <<pt, shares>>
  BY <1>1, <1>3, StillShows
<1>4. CASE /\ shares' = [shares EXCEPT ![e.proc][e.slot] = 0]
           /\ \E o : UnmapWorks(e.proc, o, ShareWindow(e.slot))
  <2>1. PICK o : UnmapWorks(e.proc, o, ShareWindow(e.slot))
    BY <1>4
  <2>2. PICK p, w, n : p = e.proc /\ w = ShareWindow(e.slot) /\ n = REGION_MAX_PAGES
    OBVIOUS
  <2>3. p \in Live /\ IsWindow(w, n) /\ UnmapWorks(p, o, w)
    BY <1>2, <2>1, <2>2, CallerIs, WindowsAre
  <2>4. Blanks(p, w, n)
    BY <1>1, <2>3, UnmapShows
  <2> QED
    BY <1>4, <2>2, <2>4
<1> QED
  BY <1>3, <1>4, RunUnmapIs

(* A new region shows in no window. *)
LEMMA MakeRegionShows ==
  ASSUME SpacesInv, NEW n \in 1..REGION_MAX_PAGES, MakeRegion(n)
  PROVE  LeavesStay
<1>1. PICK i, got, F : i \in 1..MAX_REGIONS /\ Makes(n, i, got, F)
  BY MakeRegionIs
<1>2. \A p \in Live, v \in machine.user : LeafOf(pt', space'[p], v) = LeafOf(pt, space[p], v)
  BY <1>1, MakesStill
<1>3. machine' = machine /\ space' = space
  BY DEF MakeRegion, process
<1> QED
  BY <1>2, <1>3, RigidLeaves DEF LeavesStay, LeafAt

(* What p finds in its space. *)
Shown(p) == [v \in machine.user |-> LeafAt(p, v)]

(* A space with the pages of the image and the stack, on frames X that     *)
(* were free.                                                              *)
Appears(p, Q, X) ==
  /\ machine' = machine /\ space[p] = 0 /\ space'[p] # 0
  /\ \A q \in Procs : q # p => space'[q] = space[q]
  /\ \A q \in Live, v \in machine.user : LeafAt(q, v)' = LeafAt(q, v)
  /\ Whole(Q) /\ X \subseteq free
  /\ \A q \in Procs : q = p => Pages(Shown(q)', Q, X)

LEMMA LoadShows ==
  ASSUME SpacesInv, NEW p \in Procs, LoadProcess(p)
  PROVE  \/ LeavesStay /\ UNCHANGED process
         \/ /\ \E Q, X : Appears(p, Q, X)
            /\ shares' = [shares EXCEPT ![p] = [s \in Shares |-> 0]]
<1>1. PICK o : o = Outcome(p)
  OBVIOUS
<1>2. BuildOk /\ FramesOk /\ SlotsOk /\ Trees
  BY DEF SpacesInv
<1>3. /\ Worked(p, o) /\ machine' = machine /\ space[p] = 0
      /\ \/ UNCHANGED process
         \/ /\ SpaceOk(o, space'[p], pt) /\ space'[p] # 0 /\ Built(o, space'[p], pt)
            /\ frames[p] = << >> /\ space' = [space EXCEPT ![p] = space'[p]]
            /\ shares' = [shares EXCEPT ![p] = [s \in Shares |-> 0]]
  BY <1>1, <1>2, LoadIs
<1>4. \A q \in Procs : q # p => space'[q] = space[q]
  BY <1>2, <1>3 DEF process, SlotsOk
<1>5. \A q \in Live : q # p /\ space'[q] = space[q]
  BY <1>3, <1>4 DEF Live
<1>6. ASSUME NEW q \in Live, NEW v \in machine.user
      PROVE  LeafAt(q, v)' = LeafAt(q, v)
  <2>1. LeafOf(pt', space'[q], v) = LeafOf(pt, space[q], v)
    BY <1>2, <1>3, <1>5, WorkedOthers
  <2> QED
    BY <1>3, <2>1, RigidLeaves DEF LeafAt
<1>7. CASE UNCHANGED process
  BY <1>3, <1>6, <1>7 DEF LeavesStay, process
<1>8. CASE /\ SpaceOk(o, space'[p], pt) /\ space'[p] # 0 /\ Built(o, space'[p], pt)
           /\ frames[p] = << >>
           /\ shares' = [shares EXCEPT ![p] = [s \in Shares |-> 0]]
  <2>1. PICK root : root = space'[p]
    OBVIOUS
  <2>2. PICK Q : Loaded(o, root, Q) /\ Whole(Q)
    BY <1>8, <2>1 DEF Built
  <2>3. PICK X : Held(o, root, X) /\ Pages(Leaves(o, root), Q, X)
    BY <2>2 DEF Loaded
  <2>4. X \subseteq free
    <3>1. X \subseteq Range(o.frames)
      BY <2>3 DEF Held, TreeOf
    <3>2. Range(o.frames) \subseteq Pool(p)
      BY <1>3 DEF Worked, MemOk
    <3>3. Range(frames[p]) = {}
      <4>1. PICK E : E = << >>
        OBVIOUS
      <4>2. DOMAIN E = {}
        BY <4>1
      <4> QED
        BY <1>8, <4>1, <4>2 DEF Range
    <3> QED
      BY <3>1, <3>2, <3>3 DEF Pool
  <2>5. Shown(p)' = Leaves(o, root)
    <3>1. \A v \in machine.user : LeafOf(pt', space'[p], v) = Leaves(o, root)[v]
      BY <1>2, <1>3, <1>8, <2>1, WorkedSelf
    <3>2. \A v \in machine.user : LeafAt(p, v)' = Leaves(o, root)[v]
      BY <1>3, <3>1, RigidLeaves DEF LeafAt
    <3>3. Shown(p)' = [v \in machine.user |-> LeafAt(p, v)']
      BY <1>3 DEF Shown
    <3>4. Leaves(o, root) = [v \in machine.user |-> Leaves(o, root)[v]]
      BY DEF Leaves
    <3> QED
      BY <3>2, <3>3, <3>4
  <2>6. \A q \in Procs : q = p => Pages(Shown(q)', Q, X)
    BY <2>3, <2>5
  <2>7. Appears(p, Q, X)
    BY <1>3, <1>4, <1>6, <1>8, <2>2, <2>4, <2>6 DEF Appears
  <2> QED
    BY <1>8, <2>7
<1> QED
  BY <1>3, <1>7, <1>8

(* A space vanishes as a whole. *)
LEMMA ReapShows ==
  ASSUME SpacesInv, Reap
  PROVE  /\ machine' = machine /\ dying \in Live /\ space' = [space EXCEPT ![dying] = 0]
         /\ \A q \in Live, v \in machine.user : q # dying => LeafAt(q, v)' = LeafAt(q, v)
<1>1. machine' = machine /\ space' = [space EXCEPT ![dying] = 0]  /\ pt' = pt
  BY DEF Reap
<1>2. dying \in Live /\ \A q \in Live : q # dying => space'[q] = space[q]
  BY <1>1 DEF Reap, SpacesInv, CpuOk, SlotsOk, Live
<1> QED
  BY <1>1, <1>2, RigidLeaves DEF LeafAt

-----------------------------------------------------------------------------
(* No page dangles.                                                        *)

(* A live region called r has frame f as its k-th. *)
BackedBy(f, k, r) ==
  \E i \in 1..MAX_REGIONS : /\ regions[i].live /\ regions[i].id = r
                            /\ k <= Len(regions[i].frames) /\ regions[i].frames[k] = f
PageBacked(p, s, k) ==
  LET e == LeafAt(p, ShareWindow(s)[k])
  IN  e.kind = "page" => BackedBy(e.frame, k, shares[p][s])
Backed == \A p \in Live, s \in Shares : \A k \in 1..REGION_MAX_PAGES : PageBacked(p, s, k)

(* The plan fits, and before it releases a region it unmaps the region     *)
(* from everybody who still has it.                                        *)
Orderly ==
  /\ Len(plan) <= PLAN_STEPS /\ WellOrdered(plan)
  /\ \A j \in 1..Len(plan) : plan[j].do = "release" =>
       /\ plan[j].region # 0
       /\ \A p \in Live, s \in Shares : shares[p][s] = plan[j].region =>
            \E i \in 1..(j - 1) : plan[i] = UnmapStep(p, s, plan[j].region)

DangleInv == Backed /\ Orderly

LEMMA DangleEnough ==
  ASSUME DangleInv
  PROVE  NoDanglingPage
BY DEF DangleInv, Backed, PageBacked, BackedBy, Orderly, NoDanglingPage

(* A page of a window is a user page, and of no other window. *)
LEMMA WindowPage ==
  ASSUME SpacesInv, NEW s \in Shares, NEW k \in 1..REGION_MAX_PAGES
  PROVE  /\ ShareWindow(s)[k] \in machine.user
         /\ ShareWindow(s)[k] \notin Range(DeviceWindow)
         /\ \A t \in Shares : ShareWindow(s)[k] \in Range(ShareWindow(t)) => t = s
<1>1. MachineOk(machine) /\ GeometryOk(machine)
  BY MachineFacts DEF SpacesInv
<1>2. PICK w : w = ShareWindow(s)
  OBVIOUS
<1>3. IsWindow(w, REGION_MAX_PAGES) /\ \A v \in Range(w) : v \in ShareRange(machine)
  BY <1>1, <1>2, WindowsAre
<1>4. w[k] \in Range(w) /\ w[k] \in machine.user
  BY <1>3, WindowRange
<1>5. w[k] \in ShareRange(machine)
  BY <1>3, <1>4
<1>6. w[k] \notin Range(DeviceWindow)
  BY <1>1, <1>5, WindowsAre
<1>7. \A t \in Shares : w[k] \in Range(ShareWindow(t)) => t = s
  BY <1>1, <1>2, <1>4, WindowsAre
<1> QED
  BY <1>2, <1>4, <1>6, <1>7

(* What a page shows stays backed if page, slot and region stay. *)
LEMMA PageStays ==
  ASSUME SpacesInv, Backed, machine' = machine, NEW p \in Live, NEW s \in Shares,
         NEW k \in 1..REGION_MAX_PAGES,
         LeafAt(p, ShareWindow(s)[k])' = LeafAt(p, ShareWindow(s)[k]),
         shares'[p][s] = shares[p][s],
         \A i \in 1..MAX_REGIONS : regions[i].live /\ regions[i].id = shares[p][s]
                                     => regions'[i] = regions[i]
  PROVE  PageBacked(p, s, k)'
<1>1. PICK e : e = LeafAt(p, ShareWindow(s)[k])
  OBVIOUS
<1>2. LeafAt(p, ShareWindow(s)[k])' = e
  BY <1>1
<1>3. ASSUME e.kind = "page" PROVE BackedBy(e.frame, k, shares[p][s])'
  <2>1. BackedBy(e.frame, k, shares[p][s])
    BY <1>1, <1>3 DEF Backed, PageBacked
  <2>2. PICK i \in 1..MAX_REGIONS :
          /\ regions[i].live /\ regions[i].id = shares[p][s]
          /\ k <= Len(regions[i].frames) /\ regions[i].frames[k] = e.frame
    BY <2>1 DEF BackedBy
  <2>3. regions'[i] = regions[i]
    BY <2>2
  <2> QED
    BY <2>2, <2>3 DEF BackedBy
<1> QED
  BY <1>2, <1>3, Rigid DEF PageBacked

LEMMA AllStay ==
  ASSUME SpacesInv, Backed, LeavesStay, shares' = shares,
         \A i \in 1..MAX_REGIONS : \A p \in Live : \A s \in Shares :
           regions[i].live /\ regions[i].id = shares[p][s] => regions'[i] = regions[i]
  PROVE  Backed'
<1>1. Live' = Live /\ Shares' = Shares /\ machine' = machine
  BY DEF LeavesStay, Live, Procs, Shares
<1>2. ASSUME NEW p \in Live, NEW s \in Shares, NEW k \in 1..REGION_MAX_PAGES
      PROVE  PageBacked(p, s, k)'
  <2>1. LeafAt(p, ShareWindow(s)[k])' = LeafAt(p, ShareWindow(s)[k])
    <3>1. PICK v : v = ShareWindow(s)[k]
      OBVIOUS
    <3>2. v \in machine.user
      BY <3>1, WindowPage
    <3>3. LeafAt(p, v)' = LeafAt(p, v)
      BY <3>2 DEF LeavesStay
    <3> QED
      BY <1>1, <3>1, <3>3, Rigid
  <2> QED
    BY <1>1, <2>1, PageStays
<1> QED
  BY <1>1, <1>2 DEF Backed


Recorded(p, s, F) ==
  \/ F = << >>
  \/ \E i \in 1..MAX_REGIONS : /\ regions[i].live /\ F = regions[i].frames
                               /\ shares'[p][s] = regions[i].id

(* A window of a process is refitted with the region recorded for it. *)
LEMMA WindowStays ==
  ASSUME SpacesInv, Backed, NEW p, NEW s \in Shares, NEW F, NEW perms,
         Fits(p, ShareWindow(s), REGION_MAX_PAGES, F, perms), regions' = regions,
         \A q \in Procs, t \in Shares : q # p \/ t # s => shares'[q][t] = shares[q][t],
         Recorded(p, s, F)
  PROVE  Backed'
<1>1. /\ Live' = Live /\ Shares' = Shares /\ machine' = machine /\ p \in Live
      /\ Live \subseteq Procs
  BY DEF Fits, Live, Procs, Shares
<1>2. ASSUME NEW q \in Live, NEW t \in Shares, NEW k \in 1..REGION_MAX_PAGES
      PROVE  PageBacked(q, t, k)'
  <2>1. PICK v : v = ShareWindow(t)[k]
    OBVIOUS
  <2>2. v \in machine.user /\ (t # s => v \notin Range(ShareWindow(s)))
    BY <2>1, WindowPage
  <2>3. LeafAt(q, ShareWindow(t)[k])' = LeafAt(q, v)'
    BY <1>1, <2>1, Rigid
  <2>4. CASE q # p \/ t # s
    <3>1. LeafAt(q, v)' = LeafAt(q, v)
      BY <2>2, <2>4 DEF Fits
    <3>2. shares'[q][t] = shares[q][t]
      BY <1>1, <2>4
    <3> QED
      BY <1>1, <2>1, <2>3, <3>1, <3>2, PageStays
  <2>5. CASE q = p /\ t = s
    <3>0. PICK w : w = ShareWindow(s)
      OBVIOUS
    <3>1. LeafAt(q, v)' = IF k <= Len(F) THEN Leaf(F[k], perms) ELSE EMPTY
      <4>1. v = w[k]
        BY <2>1, <2>5, <3>0
      <4>2. Fits(p, w, REGION_MAX_PAGES, F, perms)
        BY <3>0
      <4> QED
        BY <2>2, <2>5, <4>1, <4>2 DEF Fits
    <3>2. CASE k <= Len(F)
      <4>1. PICK i \in 1..MAX_REGIONS : /\ regions[i].live /\ F = regions[i].frames
                                        /\ shares'[p][s] = regions[i].id
        <5>1. Len(<< >>) = 0 /\ k >= 1
          OBVIOUS
        <5> QED
          BY <3>2, <5>1 DEF Recorded
      <4>2. LeafAt(q, v)' .frame = F[k]
        BY <3>1, <3>2, EntryKinds
      <4>3. BackedBy(F[k], k, shares[q][t])'
        BY <2>5, <3>2, <4>1 DEF BackedBy
      <4> QED
        BY <2>3, <4>2, <4>3 DEF PageBacked
    <3>3. CASE ~(k <= Len(F))
      <4>1. LeafAt(q, v)' .kind # "page"
        BY <3>1, <3>3, EntryKinds
      <4> QED
        BY <2>3, <4>1 DEF PageBacked
    <3> QED
      BY <3>2, <3>3
  <2> QED
    BY <2>4, <2>5
<1> QED
  BY <1>1, <1>2 DEF Backed

LEMMA ClearedStays ==
  ASSUME SpacesInv, Backed, NEW p, NEW s \in Shares, regions' = regions,
         Blanks(p, ShareWindow(s), REGION_MAX_PAGES),
         \A q \in Procs, t \in Shares : q # p \/ t # s => shares'[q][t] = shares[q][t]
  PROVE  Backed'
<1>1. PICK F, perms : F = << >> /\ perms = {}
  OBVIOUS
<1>2. Fits(p, ShareWindow(s), REGION_MAX_PAGES, F, perms)
  BY <1>1 DEF Blanks
<1>3. Recorded(p, s, F)
  BY <1>1 DEF Recorded
<1> QED
  BY <1>2, <1>3, WindowStays

LEMMA DeviceStays ==
  ASSUME SpacesInv, Backed, NEW p, NEW F, NEW perms,
         Fits(p, DeviceWindow, 1, F, perms), UNCHANGED <<shares, regions>>
  PROVE  Backed'
<1>1. Live' = Live /\ Shares' = Shares /\ machine' = machine
  BY DEF Fits, Live, Procs, Shares
<1>2. ASSUME NEW q \in Live, NEW t \in Shares, NEW k \in 1..REGION_MAX_PAGES
      PROVE  PageBacked(q, t, k)'
  <2>1. PICK v : v = ShareWindow(t)[k]
    OBVIOUS
  <2>2. v \in machine.user /\ v \notin Range(DeviceWindow)
    BY <2>1, WindowPage
  <2>3. LeafAt(q, v)' = LeafAt(q, v)
    BY <2>2 DEF Fits
  <2>4. LeafAt(q, ShareWindow(t)[k])' = LeafAt(q, v)'
    BY <1>1, <2>1, Rigid
  <2> QED
    BY <1>1, <2>1, <2>3, <2>4, PageStays
<1> QED
  BY <1>1, <1>2 DEF Backed

(* A new space has no page in a window. *)
LEMMA AppearStays ==
  ASSUME SpacesInv, Backed, NEW p \in Procs, NEW Q, NEW X, Appears(p, Q, X),
         regions' = regions, \A q \in Procs : q # p => shares'[q] = shares[q]
  PROVE  Backed'
<1>1. /\ Live' \subseteq Live \cup {p} /\ Shares' = Shares /\ machine' = machine
      /\ p \notin Live /\ Live \subseteq Procs
  BY DEF Appears, Live, Procs, Shares
<1>2. ASSUME NEW q \in Live, NEW t \in Shares, NEW k \in 1..REGION_MAX_PAGES
      PROVE  PageBacked(q, t, k)'
  <2>1. PICK v : v = ShareWindow(t)[k]
    OBVIOUS
  <2>2. v \in machine.user
    BY <2>1, WindowPage
  <2>3. LeafAt(q, v)' = LeafAt(q, v)
    BY <2>2 DEF Appears
  <2>4. LeafAt(q, ShareWindow(t)[k])' = LeafAt(q, v)'
    BY <1>1, <2>1, Rigid
  <2>5. shares'[q][t] = shares[q][t]
    BY <1>1
  <2> QED
    BY <1>1, <2>1, <2>3, <2>4, <2>5, PageStays
<1>3. ASSUME NEW t \in Shares, NEW k \in 1..REGION_MAX_PAGES
      PROVE  PageBacked(p, t, k)'
  <2>1. PICK v : v = ShareWindow(t)[k]
    OBVIOUS
  <2>2. MachineOk(machine) /\ GeometryOk(machine)
    BY MachineFacts DEF SpacesInv
  <2>3. v \in machine.user /\ v \in WindowPages
    <3>1. PICK w : w = ShareWindow(t)
      OBVIOUS
    <3>2. IsWindow(w, REGION_MAX_PAGES) /\ \A u \in Range(w) : u \in ShareRange(machine)
      BY <2>2, <3>1, WindowsAre
    <3> QED
      BY <2>1, <3>1, <3>2, WindowRange DEF WindowPages
  <2>4. v \notin DOMAIN Q
    BY <2>2, <2>3, ImageOutside DEF Appears
  <2>5. Shown(p)'[v] = EMPTY
    BY <2>3, <2>4 DEF Appears, Pages
  <2>6. LeafAt(p, v)' = EMPTY
    <3>1. Shown(p)' = [u \in machine.user |-> LeafAt(p, u)']
      BY <1>1 DEF Shown
    <3> QED
      BY <2>3, <2>5, <3>1
  <2>7. LeafAt(p, ShareWindow(t)[k])' .kind # "page"
    <3>1. LeafAt(p, ShareWindow(t)[k])' = LeafAt(p, v)'
      BY <1>1, <2>1, Rigid
    <3> QED
      BY <2>6, <3>1, EntryKinds
  <2> QED
    BY <2>7 DEF PageBacked
<1> QED
  BY <1>1, <1>2, <1>3 DEF Backed

LEMMA VanishStays ==
  ASSUME SpacesInv, Backed, Reap
  PROVE  Backed'
<1>1. /\ machine' = machine /\ dying \in Live /\ space' = [space EXCEPT ![dying] = 0]
      /\ \A q \in Live, v \in machine.user : q # dying => LeafAt(q, v)' = LeafAt(q, v)
      /\ shares' = shares /\ regions' = regions
  BY ReapShows DEF Reap, shared
<1>2. Live' \subseteq Live \ {dying} /\ Shares' = Shares
  BY <1>1 DEF Live, Procs, Shares, SpacesInv, SlotsOk
<1>3. ASSUME NEW q \in Live \ {dying}, NEW t \in Shares, NEW k \in 1..REGION_MAX_PAGES
      PROVE  PageBacked(q, t, k)'
  <2>1. PICK v : v = ShareWindow(t)[k]
    OBVIOUS
  <2>2. v \in machine.user
    BY <2>1, WindowPage
  <2>3. LeafAt(q, v)' = LeafAt(q, v)
    BY <1>1, <2>2
  <2>4. LeafAt(q, ShareWindow(t)[k])' = LeafAt(q, v)'
    BY <1>1, <2>1, Rigid
  <2> QED
    BY <1>1, <2>1, <2>3, <2>4, PageStays
<1> QED
  BY <1>2, <1>3 DEF Backed

-----------------------------------------------------------------------------
(* The plan is orderly at every step of it.                                *)

LEMMA OrderlyNone ==
  ASSUME plan = << >>
  PROVE  Orderly
<1>1. PICK n : n = Len(plan)
  OBVIOUS
<1>2. n = 0
  BY <1>1
<1>3. PLAN_STEPS >= 0
  <2>1. PICK q \in Nat : q = MAX_PROCS * SHARE_SLOTS
    BY SpacesAssumption
  <2>2. MAX_REGIONS \in Nat /\ SHARE_SLOTS \in Nat
    BY SpacesAssumption
  <2>3. q + 2 * MAX_REGIONS + SHARE_SLOTS >= 0
    BY <2>2
  <2> QED
    BY <2>1, <2>3 DEF PLAN_STEPS
<1>4. 1..n = {}
  BY <1>2
<1> QED
  BY <1>1, <1>2, <1>3, <1>4 DEF Orderly, WellOrdered

LEMMA OrderlyEmpty ==
  ASSUME plan' = << >>
  PROVE  Orderly'
<1>1. PICK F : F = << >>
  OBVIOUS
<1>2. plan' = F /\ Len(F) = 0 /\ 1..Len(F) = {}
  BY <1>1
<1>3. Len(F) <= PLAN_STEPS
  <2>1. PICK q \in Nat : q = MAX_PROCS * SHARE_SLOTS
    BY SpacesAssumption
  <2>2. MAX_REGIONS \in Nat /\ SHARE_SLOTS \in Nat
    BY SpacesAssumption
  <2>3. 0 <= q + 2 * MAX_REGIONS + SHARE_SLOTS
    BY <2>2
  <2> QED
    BY <1>2, <2>1, <2>3 DEF PLAN_STEPS
<1>4. PLAN_STEPS' = PLAN_STEPS
  BY DEF PLAN_STEPS
<1> QED
  BY <1>2, <1>3, <1>4 DEF Orderly, WellOrdered

LEMMA OrderlyMade ==
  ASSUME SpacesInv, PlanShape(plan', Holders, Nat \ {0}), Len(plan') <= PLAN_STEPS,
         UNCHANGED <<space, shares>>
  PROVE  Orderly'
<1>1. PICK F : F = plan'
  OBVIOUS
<1>2. WellOrdered(F) /\ Covered(F, Holders) /\ \A k \in 1..Len(F) : F[k].region # 0
  BY <1>1 DEF PlanShape, StepIn
<1>3. Live' = Live /\ Shares' = Shares /\ Live \subseteq Procs
  BY DEF Live, Procs, Shares
<1>4. ASSUME NEW j \in 1..Len(F), F[j].do = "release", NEW p \in Live, NEW s \in Shares,
             shares[p][s] = F[j].region
      PROVE  \E i \in 1..(j - 1) : F[i] = UnmapStep(p, s, F[j].region)
  <2>1. PICK H : H = Holders
    OBVIOUS
  <2>2. Holds(H, p, s, F[j].region)
    BY <1>3, <1>4, <2>1, HoldersAre DEF SpacesInv
  <2> QED
    BY <1>2, <1>3, <1>4, <2>1, <2>2 DEF Covered
<1>5. PLAN_STEPS' = PLAN_STEPS
  BY DEF PLAN_STEPS
<1> QED
  BY <1>1, <1>2, <1>3, <1>4, <1>5 DEF Orderly, UnmapStep

LEMMA OrderlyFrom ==
  ASSUME NEW G, plan' = G, space' = space, Len(G) <= PLAN_STEPS, WellOrdered(G),
         \A j \in 1..Len(G) : G[j].do = "release" =>
           /\ G[j].region # 0
           /\ \A p \in Live, s \in Shares : shares'[p][s] = G[j].region =>
                \E i \in 1..(j - 1) : G[i] = UnmapStep(p, s, G[j].region)
  PROVE  Orderly'
<1>1. Live' = Live /\ Shares' = Shares /\ PLAN_STEPS' = PLAN_STEPS
  BY DEF Live, Procs, Shares, PLAN_STEPS
<1> QED
  BY <1>1 DEF Orderly, UnmapStep

LEMMA OrderlyTail ==
  ASSUME SpacesInv, Orderly, plan # << >>, plan' = Tail(plan), space' = space,
         \A p \in Live, s \in Shares : shares'[p][s] \in {shares[p][s], 0},
         \A p \in Live, s \in Shares : \A r :
           plan[1] = UnmapStep(p, s, r) => shares'[p][s] = 0
  PROVE  Orderly'
<1>1. PICK F, G, n : F = plan /\ G = Tail(F) /\ n = Len(F)
  OBVIOUS
<1>2. F \in Seq(Steps) /\ F # << >>
  BY <1>1 DEF SpacesInv, PlanOk
<1>3. /\ n \in Nat \ {0} /\ Len(G) = n - 1
      /\ \A k \in 1..(n - 1) : G[k] = F[k + 1] /\ k + 1 \in 1..n
  BY <1>1, <1>2
<1>4. /\ n <= PLAN_STEPS /\ WellOrdered(F)
      /\ \A j \in 1..n : F[j].do = "release" =>
           /\ F[j].region # 0
           /\ \A p \in Live, s \in Shares : shares[p][s] = F[j].region =>
                \E i \in 1..(j - 1) : F[i] = UnmapStep(p, s, F[j].region)
  BY <1>1 DEF Orderly
<1>5. plan' = G
  BY <1>1
<1>6. n - 1 <= PLAN_STEPS
  <2>1. PICK q \in Int : q = PLAN_STEPS
    <3>1. MAX_PROCS * SHARE_SLOTS \in Nat /\ MAX_REGIONS \in Nat /\ SHARE_SLOTS \in Nat
      BY SpacesAssumption
    <3> QED
      BY <3>1 DEF PLAN_STEPS
  <2> QED
    BY <1>3, <1>4, <2>1
<1>7. WellOrdered(G)
  <2> SUFFICES ASSUME NEW i \in 1..(n - 1), NEW j \in 1..(n - 1),
                      i < j, G[i].do = "release", G[j].do = "unmap"
               PROVE  G[i].region # G[j].region
    BY <1>3 DEF WellOrdered
  <2>1. i + 1 \in 1..n /\ j + 1 \in 1..n /\ i + 1 < j + 1
    BY <1>3
  <2>2. G[i] = F[i + 1] /\ G[j] = F[j + 1]
    BY <1>3
  <2> QED
    BY <1>1, <1>4, <2>1, <2>2 DEF WellOrdered
<1>8. ASSUME NEW j \in 1..(n - 1), G[j].do = "release"
      PROVE  /\ G[j].region # 0
             /\ \A p \in Live, s \in Shares : shares'[p][s] = G[j].region =>
                  \E i \in 1..(j - 1) : G[i] = UnmapStep(p, s, G[j].region)
  <2>1. G[j] = F[j + 1] /\ j + 1 \in 1..n
    BY <1>3
  <2>2. PICK x : x = G[j].region
    OBVIOUS
  <2>3. /\ x # 0
        /\ \A p \in Live, s \in Shares : shares[p][s] = x =>
             \E i \in 1..(j + 1 - 1) : F[i] = UnmapStep(p, s, x)
    BY <1>4, <1>8, <2>1, <2>2
  <2>4. ASSUME NEW p \in Live, NEW s \in Shares, shares'[p][s] = x
        PROVE  \E i \in 1..(j - 1) : G[i] = UnmapStep(p, s, x)
    <3>1. shares[p][s] = x
      BY <2>3, <2>4
    <3>2. PICK i \in 1..(j + 1 - 1) : F[i] = UnmapStep(p, s, x)
      BY <2>3, <3>1
    <3>3. i # 1
      BY <1>1, <2>3, <2>4, <3>2
    <3>4. i - 1 \in 1..(j - 1) /\ i - 1 \in 1..(n - 1) /\ i - 1 + 1 = i
      BY <1>3, <3>3
    <3>5. G[i - 1] = UnmapStep(p, s, x)
      BY <1>3, <3>2, <3>4
    <3> QED
      BY <3>4, <3>5
  <2> QED
    BY <2>2, <2>3, <2>4
<1> QED
  BY <1>3, <1>5, <1>6, <1>7, <1>8, OrderlyFrom

-----------------------------------------------------------------------------
(* Every step.                                                             *)

LEMMA CallDangle ==
  ASSUME SpacesInv, InCall, plan' = plan, Backed'
  PROVE  DangleInv'
  BY Calling, OrderlyEmpty DEF DangleInv

LEMMA LoadDangle ==
  ASSUME SpacesInv, DangleInv, NEW p \in Procs, LoadProcess(p), plan = << >>
  PROVE  DangleInv'
<1>1. Backed /\ regions' = regions /\ plan' = plan
  BY DEF DangleInv, LoadProcess, shared
<1>2. CASE LeavesStay /\ UNCHANGED process
  <2>1. shares' = shares
    BY <1>2 DEF process
  <2> QED
    BY <1>1, <1>2, <2>1, AllStay, OrderlyEmpty DEF DangleInv
<1>3. CASE /\ \E Q, X : Appears(p, Q, X)
           /\ shares' = [shares EXCEPT ![p] = [s \in Shares |-> 0]]
  <2>1. PICK Q, X : Appears(p, Q, X)
    BY <1>3
  <2>2. \A q \in Procs : q # p => shares'[q] = shares[q]
    BY <1>3 DEF SpacesInv, SlotsOk
  <2> QED
    BY <1>1, <2>1, <2>2, AppearStays, OrderlyEmpty DEF DangleInv
<1> QED
  BY <1>2, <1>3, LoadShows

(* A step that touches neither the tables nor the records. *)
LEMMA QuietDangle ==
  ASSUME SpacesInv, DangleInv,
         UNCHANGED <<machine, pt, free, space, frames, shares, regions>>, Orderly'
  PROVE  DangleInv'
  BY StillShows, AllStay DEF DangleInv

LEMMA MapRegionDangle ==
  ASSUME SpacesInv, DangleInv, NEW i \in 1..MAX_REGIONS, NEW write, MapRegion(i, write)
  PROVE  DangleInv'
<1>1. PICK s \in Shares : \E perms, F :
        /\ Fits(current, ShareWindow(s), REGION_MAX_PAGES, F, perms) /\ regions[i].live
        /\ \/ /\ F = regions[i].frames
              /\ shares' = [shares EXCEPT ![current][s] = regions[i].id]
           \/ F = << >> /\ shares' = shares
  BY MapRegionShows
<1>2. PICK perms, F :
        /\ Fits(current, ShareWindow(s), REGION_MAX_PAGES, F, perms) /\ regions[i].live
        /\ \/ /\ F = regions[i].frames
              /\ shares' = [shares EXCEPT ![current][s] = regions[i].id]
           \/ F = << >> /\ shares' = shares
  BY <1>1
<1>3. PICK p : p = current
  OBVIOUS
<1>4. /\ Fits(p, ShareWindow(s), REGION_MAX_PAGES, F, perms)
      /\ \/ F = regions[i].frames /\ shares' = [shares EXCEPT ![p][s] = regions[i].id]
         \/ F = << >> /\ shares' = shares
  BY <1>2, <1>3
<1>5. InCall /\ plan' = plan /\ regions' = regions /\ p \in Procs
  BY <1>3, Calling DEF MapRegion, shared
<1>6. /\ \A q \in Procs, t \in Shares : q # p \/ t # s => shares'[q][t] = shares[q][t]
      /\ F = << >> \/ (F = regions[i].frames /\ shares'[p][s] = regions[i].id)
  BY <1>4, <1>5 DEF SpacesInv, SlotsOk
<1>7. Backed'
  <2>1. Recorded(p, s, F)
    BY <1>2, <1>6 DEF Recorded
  <2> QED
    BY <1>4, <1>5, <1>6, <2>1, WindowStays DEF DangleInv
<1> QED
  BY <1>5, <1>7, CallDangle

LEMMA UnmapRegionDangle ==
  ASSUME SpacesInv, DangleInv, NEW p \in Procs, NEW r \in 1..MaxRegionId, UnmapRegion(p, r)
  PROVE  DangleInv'
<1>1. PICK s \in Shares : /\ shares' = [shares EXCEPT ![p][s] = 0]
                          /\ Blanks(p, ShareWindow(s), REGION_MAX_PAGES)
  BY UnmapRegionShows
<1>2. InCall /\ plan' = plan /\ regions' = regions
  BY DEF UnmapRegion, shared
<1>3. \A q \in Procs, t \in Shares : q # p \/ t # s => shares'[q][t] = shares[q][t]
  BY <1>1 DEF SpacesInv, SlotsOk
<1>4. Backed'
  BY <1>1, <1>2, <1>3, ClearedStays DEF DangleInv
<1> QED
  BY <1>2, <1>4, CallDangle

LEMMA DeviceDangle ==
  ASSUME SpacesInv, DangleInv, NEW p, NEW F, NEW perms,
         Fits(p, DeviceWindow, 1, F, perms), InCall,
         UNCHANGED <<shares, regions, plan>>
  PROVE  DangleInv'
  BY DeviceStays, CallDangle DEF DangleInv

LEMMA RunUnmapDangle ==
  ASSUME SpacesInv, DangleInv, RunUnmap
  PROVE  DangleInv'
<1>1. PICK e : e = Head(plan)
  OBVIOUS
<1>2. /\ plan # << >> /\ plan' = Tail(plan) /\ space' = space /\ regions' = regions
      /\ Backed /\ Orderly
  BY DEF RunUnmap, DangleInv, shared
<1>3. e = plan[1] /\ e.proc \in Procs /\ e.slot \in Shares
  BY <1>1, RunUnmapIs
<1>4. PICK p, s : p = e.proc /\ s = e.slot
  OBVIOUS
<1>5. /\ \A q \in Procs, t \in Shares : q # p \/ t # s => shares'[q][t] = shares[q][t]
      /\ shares'[p][s] = 0
  <2>1. CASE shares[e.proc][e.slot] = 0 /\ shares' = shares
    BY <1>4, <2>1
  <2>2. CASE shares' = [shares EXCEPT ![e.proc][e.slot] = 0]
    BY <1>3, <1>4, <2>2 DEF SpacesInv, SlotsOk
  <2> QED
    BY <1>1, <2>1, <2>2, RunUnmapShows
<1>6. Backed'
  <2>1. CASE shares' = shares /\ LeavesStay
    BY <1>2, <2>1, AllStay
  <2>2. CASE Blanks(e.proc, ShareWindow(e.slot), REGION_MAX_PAGES)
    <3>1. Blanks(p, ShareWindow(s), REGION_MAX_PAGES)
      BY <1>4, <2>2
    <3> QED
      BY <1>2, <1>3, <1>4, <1>5, <3>1, ClearedStays
  <2> QED
    BY <1>1, <2>1, <2>2, RunUnmapShows
<1>7. Live \subseteq Procs
  BY DEF Live
<1>8. \A q \in Live, t \in Shares : shares'[q][t] \in {shares[q][t], 0}
  BY <1>5, <1>7
<1>9. \A q \in Live, t \in Shares : \A r : plan[1] = UnmapStep(q, t, r) => shares'[q][t] = 0
  BY <1>3, <1>4, <1>5 DEF UnmapStep
<1>10. Orderly'
  BY <1>2, <1>8, <1>9, OrderlyTail
<1> QED
  BY <1>6, <1>10 DEF DangleInv

LEMMA OtherStepOrderly ==
  ASSUME SpacesInv, Orderly, plan # << >>, Head(plan).do # "unmap", plan' = Tail(plan),
         UNCHANGED <<space, shares>>
  PROVE  Orderly'
<1>1. Head(plan) = plan[1]
  BY DEF SpacesInv, PlanOk
<1>2. \A q, t, r : UnmapStep(q, t, r).do = "unmap"
  BY DEF UnmapStep
<1> QED
  BY <1>1, <1>2, OrderlyTail

(* A region is released when no window shows it. *)
LEMMA RunReleaseDangle ==
  ASSUME SpacesInv, DangleInv, RunRelease
  PROVE  DangleInv'
<1>1. /\ UNCHANGED <<machine, pt, free, space, frames, shares>>
      /\ plan # << >> /\ plan' = Tail(plan) /\ Head(plan).do = "release"
      /\ Backed /\ Orderly
  BY DEF RunRelease, memory, process, DangleInv
<1>2. Orderly'
  BY <1>1, OtherStepOrderly
<1>3. PICK x : x = Head(plan).region
  OBVIOUS
<1>4. \A i \in 1..MAX_REGIONS : ~(regions[i].live /\ regions[i].id = x)
                                => regions'[i] = regions[i]
  BY <1>3 DEF RunRelease
<1>5. \A p \in Live, s \in Shares : shares[p][s] # x
  <2>1. Head(plan) = plan[1] /\ 1 \in 1..Len(plan)
    BY <1>1 DEF SpacesInv, PlanOk
  <2>2. \A p \in Live, s \in Shares : shares[p][s] = x =>
          \E i \in 1..(1 - 1) : plan[i] = UnmapStep(p, s, x)
    BY <1>1, <1>3, <2>1 DEF Orderly
  <2> QED
    BY <2>2
<1>6. Backed'
  BY <1>1, <1>4, <1>5, StillShows, AllStay
<1> QED
  BY <1>2, <1>6 DEF DangleInv

LEMMA MakeRegionDangle ==
  ASSUME SpacesInv, DangleInv, NEW n \in 1..REGION_MAX_PAGES, MakeRegion(n)
  PROVE  DangleInv'
<1>1. InCall /\ plan' = plan /\ shares' = shares
  BY DEF MakeRegion, process
<1>2. PICK i, got, F : i \in 1..MAX_REGIONS /\ Makes(n, i, got, F)
  BY MakeRegionIs
<1>3. \A j \in 1..MAX_REGIONS : regions[j].live => regions'[j] = regions[j]
  BY <1>2 DEF Makes, SpacesInv, RegionsOk
<1>4. Backed'
  BY <1>1, <1>3, MakeRegionShows, AllStay DEF DangleInv
<1> QED
  BY <1>1, <1>4, CallDangle

LEMMA ReapDangle ==
  ASSUME SpacesInv, DangleInv, Reap
  PROVE  DangleInv'
<1>1. plan' = << >>
  BY DEF Reap
<1> QED
  BY <1>1, VanishStays, OrderlyEmpty DEF DangleInv

LEMMA DangleInit ==
  ASSUME Init
  PROVE  DangleInv
<1>1. Live = {} /\ plan = << >>
  BY DEF Init, Live
<1> QED
  BY <1>1, OrderlyNone DEF DangleInv, Backed

LEMMA DangleStep ==
  SpacesInv /\ DangleInv /\ [Next]_vars => DangleInv'
<1> SUFFICES ASSUME SpacesInv, DangleInv, [Next]_vars PROVE DangleInv'
  OBVIOUS
<1>1. CASE Boot
  <2>1. PICK p : p = nextId
    OBVIOUS
  <2>2. p \in 1..NUM_PROCS /\ LoadProcess(p) /\ plan = << >>
    BY <1>1, <2>1, SpacesAssumption DEF Boot, SpacesInv, CpuOk
  <2>3. p \in Procs
    BY <2>2, SpacesAssumption DEF Procs
  <2> QED
    BY <2>2, <2>3, LoadDangle
<1>2. CASE Start
  <2>1. /\ UNCHANGED <<machine, pt, free, space, frames, shares, regions>>
        /\ plan = << >> /\ plan' = plan
    BY <1>2 DEF Start, memory, process, shared, SpacesInv, CpuOk
  <2> QED
    BY <2>1, OrderlyEmpty, QuietDangle
<1>3. ASSUME NEW p \in Procs, Resume(p) PROVE DangleInv'
  <2>1. /\ UNCHANGED <<machine, pt, free, space, frames, shares, regions>>
        /\ plan = << >> /\ plan' = plan
    BY <1>3 DEF Resume, memory, process, shared
  <2> QED
    BY <2>1, OrderlyEmpty, QuietDangle
<1>4. CASE Spawn
  <2>1. PICK p : p = Min(Procs \ Live)
    OBVIOUS
  <2>2. p \in Procs
    <3>1. Procs \ Live \subseteq Nat /\ Procs \ Live # {}
      BY <1>4, SpacesAssumption DEF Spawn, Procs, Live
    <3> QED
      BY <2>1, <3>1, MinIs
  <2>3. LoadProcess(p) /\ plan = << >>
    BY <1>4, <2>1 DEF Spawn, InCall
  <2> QED
    BY <2>2, <2>3, LoadDangle
<1>5. ASSUME NEW write \in machine.rights, MapDevice(write) PROVE DangleInv'
  <2>1. /\ InCall /\ UNCHANGED <<shares, regions, plan>>
    BY <1>5 DEF MapDevice, shared
  <2>2. PICK perms, F : Fits(current, DeviceWindow, 1, F, perms)
    BY <1>5, MapDeviceShows
  <2>3. PICK p : p = current
    OBVIOUS
  <2>4. Fits(p, DeviceWindow, 1, F, perms)
    BY <2>2, <2>3
  <2> QED
    BY <2>1, <2>4, DeviceDangle
<1>6. ASSUME NEW p \in Procs, UnmapDevice(p) PROVE DangleInv'
  <2>1. /\ InCall /\ UNCHANGED <<shares, regions, plan>>
    BY <1>6 DEF UnmapDevice, shared, process
  <2>2. Blanks(p, DeviceWindow, 1)
    BY <1>6, UnmapDeviceShows
  <2>3. PICK F, perms : F = << >> /\ perms = {}
    OBVIOUS
  <2>4. Fits(p, DeviceWindow, 1, F, perms)
    BY <2>2, <2>3 DEF Blanks
  <2> QED
    BY <2>1, <2>4, DeviceDangle
<1>7. ASSUME NEW n \in 1..REGION_MAX_PAGES, MakeRegion(n) PROVE DangleInv'
  BY <1>7, MakeRegionDangle
<1>8. ASSUME NEW i \in 1..MAX_REGIONS, NEW write \in machine.rights, MapRegion(i, write)
      PROVE  DangleInv'
  BY <1>8, MapRegionDangle
<1>9. ASSUME NEW p \in Procs, NEW r \in 1..MaxRegionId, UnmapRegion(p, r) PROVE DangleInv'
  BY <1>9, UnmapRegionDangle
<1>10. ASSUME NEW i \in 1..MAX_REGIONS, FreeRegion(i) PROVE DangleInv'
  <2>1. UNCHANGED <<machine, pt, free, space, frames, shares, regions>>
    BY <1>10 DEF FreeRegion, process, shared
  <2> QED
    BY <1>10, <2>1, FreeRegionIs, OrderlyMade, QuietDangle
<1>11. CASE Exit
  <2>1. UNCHANGED <<machine, pt, free, space, frames, shares, regions>>
    BY <1>11 DEF Exit, process, shared
  <2> QED
    BY <1>11, <2>1, ExitIs, OrderlyMade, QuietDangle
<1>12. CASE RunUnmap
  BY <1>12, RunUnmapDangle
<1>13. CASE RunForgetCaps
  <2>1. /\ UNCHANGED <<machine, pt, free, space, frames, shares, regions>>
        /\ plan # << >> /\ plan' = Tail(plan) /\ Head(plan).do # "unmap"
    BY <1>13 DEF RunForgetCaps, memory, process, shared
  <2>2. Orderly'
    BY <2>1, OtherStepOrderly DEF DangleInv
  <2> QED
    BY <2>1, <2>2, QuietDangle
<1>14. CASE RunRelease
  BY <1>14, RunReleaseDangle
<1>15. CASE Reap
  BY <1>15, ReapDangle
<1>16. CASE UNCHANGED vars
  <2>1. /\ UNCHANGED <<machine, pt, free, space, frames, shares, regions>>
        /\ plan' = plan
    BY <1>16 DEF vars, memory, process, shared
  <2>2. Live' = Live /\ Shares' = Shares /\ PLAN_STEPS' = PLAN_STEPS
    BY <2>1 DEF Live, Procs, Shares, PLAN_STEPS
  <2>3. Orderly'
    BY <2>1, <2>2 DEF DangleInv, Orderly, WellOrdered, UnmapStep
  <2> QED
    BY <2>1, <2>3, QuietDangle
<1> QED
  BY <1>1, <1>2, <1>3, <1>4, <1>5, <1>6, <1>7, <1>8, <1>9, <1>10, <1>11, <1>12,
     <1>13, <1>14, <1>15, <1>16 DEF Next, Syscall

(* No page of a share window leads to memory that was released: between    *)
(* `map_region`, `unmap_region_from`, `run_region_plan` and `kill_current` *)
(* a window shows frames of a live region that the process has recorded in *)
(* that slot, at every step of a teardown plan, and every plan that        *)
(* `destroy` and `teardown` make fits its buffer and is well ordered.      *)
THEOREM NothingDangles == Spec => []NoDanglingPage
<1>1. Init => DangleInv
  BY DangleInit
<1>2. DangleInv => NoDanglingPage
  BY DangleEnough
<1> QED
  BY <1>1, <1>2, DangleStep, SpacesAlways, PTL DEF Spec

-----------------------------------------------------------------------------
(* What a process is charged.                                              *)

(* The tables that the walks of a tree meet are all its tables. *)
Links(tab, root) ==
  {e.frame : e \in {e \in UNION {Range(Walk(tab, root, v)) : v \in machine.user} :
                      e.kind = "table"}}

LEMMA TablesMet ==
  ASSUME MachineOk(machine), NEW tab, NEW root, NEW T, NEW d, NEW r,
         Tree(tab, root, T, d, r)
  PROVE  {root} \cup Links(tab, root) = T
<1>0. Top \in Nat \ {0}
  BY MachineIs
<1>1. root \in T
  BY DEF Tree
<1>2. ASSUME NEW f, f \in Links(tab, root) PROVE f \in T
  <2>1. PICK v \in machine.user : \E e \in Range(Walk(tab, root, v)) :
                                    e.kind = "table" /\ f = e.frame
    BY <1>2 DEF Links
  <2>2. PICK e \in Range(Walk(tab, root, v)) : e.kind = "table" /\ f = e.frame
    BY <2>1
  <2>3. PICK k \in 0..Top : e = Walk(tab, root, v)[k]
    BY <2>2, WalkIs DEF Range
  <2>4. Met(e, tab, v, k, T, d, r)
    BY <2>3, WalkTree
  <2>5. PICK t \in T : On(t, v, k, T, d, r) /\ e = tab[t][Turn(v, k)]
    BY <2>2, <2>4, EntryKinds DEF Met
  <2>6. d[t] = k
    BY <2>5 DEF On
  <2>7. EntryOk(e, t, Turn(v, k), T, d, r)
    BY <2>5, <2>6, UserEntry
  <2> QED
    BY <2>2, <2>7, EntryKinds DEF EntryOk
<1>3. ASSUME NEW u \in T, u # root PROVE u \in Links(tab, root)
  <2>1. PICK v \in machine.user : v = r[u]
    BY DEF Tree
  <2>2. d[u] \in 0..Top /\ d[u] # 0
    BY <1>3 DEF Tree
  <2>3. PICK k \in 0..(Top - 1) : d[u] = k + 1
    <3>1. d[u] - 1 \in 0..(Top - 1) /\ d[u] = (d[u] - 1) + 1
      BY <1>0, <2>2
    <3> QED
      BY <3>1
  <2>4. On(u, v, k + 1, T, d, r)
    BY <2>1, <2>3, SamePathIs DEF On
  <2>5. PICK t \in T : On(t, v, k, T, d, r) /\ tab[t][Turn(v, k)] = Link(u)
    BY <2>4, NextTable
  <2>6. PICK e : e = Walk(tab, root, v)[k]
    OBVIOUS
  <2>7. k \in 0..Top
    BY <1>0
  <2>8. Met(e, tab, v, k, T, d, r)
    BY <2>6, <2>7, WalkTree
  <2>9. e = Link(u)
    <3>1. PICK x \in T : On(x, v, k, T, d, r) /\ e = tab[x][Turn(v, k)]
      BY <2>5, <2>8 DEF Met
    <3>2. x = t
      BY <2>5, <3>1, OnUnique DEF Tree
    <3> QED
      BY <2>5, <3>1, <3>2
  <2>10. e \in Range(Walk(tab, root, v))
    BY <2>6, <2>7, WalkIs DEF Range
  <2>11. e.kind = "table" /\ e.frame = u
    BY <2>9, EntryKinds
  <2> QED
    BY <2>10, <2>11 DEF Links
<1> QED
  BY <1>1, <1>2, <1>3

(* The pages of a segment are those with an address of it. *)
LEMMA DivIs ==
  ASSUME NEW x \in Nat, NEW b \in Nat \ {0}
  PROVE  /\ x \div b \in Nat
         /\ \A q \in Nat : x \div b <= q <=> x < q * b + b
<1>1. PICK y, z : y = x \div b /\ z = x % b
  OBVIOUS
<1>2. y \in Nat /\ z \in 0..(b - 1) /\ x = b * y + z
  BY <1>1
<1>3. ASSUME NEW q \in Nat, y <= q PROVE x < q * b + b
  <2>1. b * y <= b * q
    BY <1>2, <1>3
  <2> QED
    BY <1>2, <2>1
<1>4. ASSUME NEW q \in Nat, ~(y <= q) PROVE ~(x < q * b + b)
  <2>1. PICK e \in Nat : y = q + 1 + e
    <3>1. y - (q + 1) \in Nat /\ y = q + 1 + (y - (q + 1))
      BY <1>2, <1>4
    <3> QED
      BY <3>1
  <2>2. b * y = q * b + b + b * e /\ b * e \in Nat
    BY <2>1
  <2> QED
    BY <1>2, <2>2
<1> QED
  BY <1>1, <1>2, <1>3, <1>4

LEMMA PagesCover ==
  ASSUME NEW s, s.vaddr \in Nat, s.memsz \in Nat, NEW v \in Nat
  PROVE  v \in Range(SegmentPages(s))
           <=> \E a \in Abstract!BytesOf(v) : Abstract!Covers(s, a)
<1>1. PICK b \in Nat \ {0}, x \in Nat, len \in Nat : b = PAGE_SIZE /\ x = s.vaddr /\ len = s.memsz
  BY VSpaceAssumption
<1>2. PICK w \in Nat : w = v * b
  BY <1>1
<1>3. (\E a \in Abstract!BytesOf(v) : Abstract!Covers(s, a))
        <=> \E a \in w..(w + b - 1) : x <= a /\ a < x + len
  BY <1>1, <1>2 DEF Abstract!BytesOf, Abstract!Covers
<1>4. CASE len = 0
  <2>1. Range(SegmentPages(s)) = {}
    <3>1. SegmentPages(s) = [k \in 1..0 |-> (x \div b) + k - 1]
      BY <1>1, <1>4 DEF SegmentPages
    <3>2. DOMAIN SegmentPages(s) = {}
      BY <3>1
    <3> QED
      BY <3>2 DEF Range
  <2>2. ~ \E a \in w..(w + b - 1) : x <= a /\ a < x + len
    BY <1>4
  <2> QED
    BY <1>3, <2>1, <2>2
<1>5. CASE len # 0
  <2>1. PICK y, z : y = x \div b /\ z = (x + len + b - 1) \div b
    OBVIOUS
  <2>2. x + len + b - 1 \in Nat
    BY <1>1
  <2>3. y \in Nat /\ z \in Nat
    BY <1>1, <2>1, <2>2, DivIs
  <2>4. y <= v <=> x < w + b
    BY <1>1, <1>2, <2>1, DivIs
  <2>5. z <= v <=> x + len + b - 1 < w + b
    BY <1>1, <1>2, <2>1, <2>2, DivIs
  <2>6. SegmentPages(s) = [k \in 1..(z - y) |-> y + k - 1]
    BY <1>1, <1>5, <2>1 DEF SegmentPages
  <2>7. v \in Range(SegmentPages(s)) <=> y <= v /\ v < z
    <3>1. v \in Range(SegmentPages(s)) <=> \E k \in 1..(z - y) : v = y + k - 1
      BY <2>6 DEF Range
    <3>2. y <= v /\ v < z => v - y + 1 \in 1..(z - y) /\ v = y + (v - y + 1) - 1
      BY <2>3
    <3>3. \A k \in 1..(z - y) : v = y + k - 1 => y <= v /\ v < z
      BY <2>3
    <3> QED
      BY <3>1, <3>2, <3>3
  <2>8. v < z <=> w < x + len
    BY <1>1, <2>3, <2>5
  <2>9. (\E a \in w..(w + b - 1) : x <= a /\ a < x + len) <=> x < w + b /\ w < x + len
    <3>1. PICK a : a = IF x <= w THEN w ELSE x
      OBVIOUS
    <3>2. x < w + b /\ w < x + len => a \in w..(w + b - 1) /\ x <= a /\ a < x + len
      BY <1>1, <1>5, <3>1
    <3>3. \A c \in w..(w + b - 1) : x <= c /\ c < x + len => x < w + b /\ w < x + len
      BY <1>1
    <3> QED
      BY <3>2, <3>3
  <2> QED
    BY <1>3, <2>4, <2>7, <2>8, <2>9
<1> QED
  BY <1>4, <1>5

(* The pages that were built are those the abstract map wants, with the    *)
(* permissions it wants.                                                   *)
LEMMA WantedIs ==
  ASSUME MachineOk(machine), NEW Q, Whole(Q)
  PROVE  /\ DOMAIN Q = Abstract!WantedPages
         /\ \A v \in DOMAIN Q : Q[v] = Abstract!WantedPerms(v)
<1>1. PICK R : ImageUpTo(R, ImageLen) /\ ExtendedBy(R, Q, StackSet, USER_RW)
  BY DEF Whole
<1>2. PICK seg, n : seg = machine.image.segments /\ n = ImageLen
  OBVIOUS
<1>3. /\ n \in Nat /\ DOMAIN seg = 1..n /\ machine.user \subseteq Nat
      /\ \A k \in 1..n : seg[k].kind = "load" =>
           /\ seg[k].vaddr \in Nat /\ seg[k].memsz \in Nat
           /\ SegmentPages(seg[k]) \in Seq(machine.user)
  BY <1>2 DEF MachineOk, ImageLen
<1>4. Abstract!Loads = {seg[k] : k \in Segs(n)}
  <2>1. Abstract!PagesIn(seg) = {seg[k] : k \in 1..n}
    BY <1>3 DEF Abstract!PagesIn
  <2> QED
    BY <1>2, <2>1 DEF Abstract!Loads, Segs
<1>5. Abstract!PagesIn(StackPages) = StackSet
  BY DEF Abstract!PagesIn, StackSet, StackPages
<1>6. \A k \in Segs(n) : k \in 1..n /\ seg[k].kind = "load"
  BY <1>2 DEF Segs
<1>7. ASSUME NEW v \in machine.user, NEW k \in Segs(n)
      PROVE  v \in SegPages(k) <=> seg[k] \in Abstract!SegmentsAt(v)
  <2>1. v \in Nat /\ seg[k].vaddr \in Nat /\ seg[k].memsz \in Nat
    BY <1>3, <1>6
  <2>2. v \in Range(SegmentPages(seg[k]))
          <=> \E a \in Abstract!BytesOf(v) : Abstract!Covers(seg[k], a)
    BY <2>1, PagesCover
  <2> QED
    BY <1>2, <1>4, <2>2 DEF Abstract!SegmentsAt, SegPages
<1>8. ASSUME NEW k \in Segs(n) PROVE SegPages(k) \subseteq machine.user
  <2>1. SegmentPages(seg[k]) \in Seq(machine.user)
    BY <1>3, <1>6
  <2> QED
    BY <1>2, <2>1 DEF SegPages, Range
<1>9. DOMAIN R = UNION {SegPages(k) : k \in Segs(n)}
  BY <1>1, <1>2 DEF ImageUpTo
<1>10. \A v \in machine.user : \A s \in Abstract!SegmentsAt(v) :
         \E k \in Segs(n) : s = seg[k]
  BY <1>4 DEF Abstract!SegmentsAt
<1>11. DOMAIN R = {v \in machine.user : Abstract!SegmentsAt(v) # {}}
  <2>1. ASSUME NEW v, v \in DOMAIN R
        PROVE  v \in machine.user /\ Abstract!SegmentsAt(v) # {}
    <3>1. PICK k \in Segs(n) : v \in SegPages(k)
      BY <1>9, <2>1
    <3> QED
      BY <1>7, <1>8, <3>1
  <2>2. ASSUME NEW v \in machine.user, Abstract!SegmentsAt(v) # {}
        PROVE  v \in DOMAIN R
    <3>1. PICK s \in Abstract!SegmentsAt(v) : TRUE
      BY <2>2
    <3>2. PICK k \in Segs(n) : s = seg[k]
      BY <1>10, <3>1
    <3> QED
      BY <1>7, <1>9, <3>2
  <2> QED
    BY <2>1, <2>2
<1>12. DOMAIN Q = Abstract!WantedPages
  BY <1>1, <1>5, <1>11 DEF ExtendedBy, Abstract!WantedPages
<1>13. \A s : /\ "user" \in SegmentPerms(s) /\ SegmentPerms(s) \subseteq {"user", "write", "exec"}
             /\ ("write" \in SegmentPerms(s) <=> s.write)
             /\ ("exec" \in SegmentPerms(s) <=> s.exec)
  BY DEF SegmentPerms
<1>14. ASSUME NEW v \in StackSet PROVE Q[v] = Abstract!WantedPerms(v)
  <2>1. v \in machine.user
    BY <1>14 DEF MachineOk, StackSet, StackPages
  <2>2. Abstract!SegmentsAt(v) = {}
    BY <1>1, <1>11, <1>14, <2>1 DEF ExtendedBy
  <2>3. ~(\E s \in Abstract!SegmentsAt(v) : s.exec)
    BY <2>2
  <2>4. Abstract!WantedPerms(v) = {"user", "write"}
    BY <1>5, <1>14, <2>3 DEF Abstract!WantedPerms
  <2>5. Q[v] = USER_RW
    BY <1>1, <1>14 DEF ExtendedBy
  <2> QED
    BY <2>4, <2>5 DEF USER_RW
<1>15. ASSUME NEW v \in DOMAIN R PROVE Q[v] = Abstract!WantedPerms(v)
  <2>1. v \in machine.user /\ v \notin StackSet /\ Q[v] = R[v]
    BY <1>1, <1>11, <1>15 DEF ExtendedBy
  <2>2. PICK k \in Segs(n) : v \in SegPages(k)
    BY <1>9, <1>15
  <2>3. \A j \in Segs(n) : v \in SegPages(j) => R[v] = SegmentPerms(seg[j])
    BY <1>1, <1>2 DEF ImageUpTo
  <2>4. PICK t : t = seg[k]
    OBVIOUS
  <2>5. t \in Abstract!SegmentsAt(v) /\ R[v] = SegmentPerms(t)
    BY <1>7, <2>1, <2>2, <2>3, <2>4
  <2>6. \A s \in Abstract!SegmentsAt(v) : SegmentPerms(s) = SegmentPerms(t)
    BY <1>7, <1>10, <2>1, <2>3, <2>5
  <2>7. /\ (\E s \in Abstract!SegmentsAt(v) : s.write) <=> "write" \in SegmentPerms(t)
        /\ (\E s \in Abstract!SegmentsAt(v) : s.exec) <=> "exec" \in SegmentPerms(t)
    BY <1>13, <2>5, <2>6
  <2>8. PICK W, sw, sx : /\ W = Abstract!WantedPerms(v)
                         /\ sw = (\E s \in Abstract!SegmentsAt(v) : s.write)
                         /\ sx = (\E s \in Abstract!SegmentsAt(v) : s.exec)
    OBVIOUS
  <2>9. W = {"user"} \cup (IF sw THEN {"write"} ELSE {}) \cup (IF sx THEN {"exec"} ELSE {})
    BY <1>5, <2>1, <2>8 DEF Abstract!WantedPerms
  <2>10. W = SegmentPerms(t)
    BY <1>13, <2>7, <2>8, <2>9
  <2> QED
    BY <2>1, <2>5, <2>8, <2>10
<1> QED
  BY <1>1, <1>12, <1>14, <1>15 DEF ExtendedBy

(* One page for each frame: as many pages as frames. *)
LEMMA OneEach ==
  ASSUME NEW D, NEW X, IsFiniteSet(X), NEW lv,
         \A v \in D : lv[v].frame \in X,
         \A v, w \in D : lv[v].frame = lv[w].frame => v = w,
         \A x \in X : \E v \in D : lv[v].frame = x
  PROVE  {lv[v].frame : v \in D} = X /\ Cardinality(X) = Cardinality(D)
<1>1. {lv[v].frame : v \in D} = X
  OBVIOUS
<1>2. PICK g : g = [x \in X |-> CHOOSE v \in D : lv[v].frame = x]
  OBVIOUS
<1>3. \A x \in X : g[x] \in D /\ lv[g[x]].frame = x
  BY <1>2
<1>4. g \in [X -> D]
  BY <1>2, <1>3
<1>5. \A x, y \in X : g[x] = g[y] => x = y
  BY <1>3
<1>6. \A v \in D : \E x \in X : g[x] = v
  BY <1>3
<1>7. g \in Bijection(X, D)
  <2>1. g \in Injection(X, D)
    BY <1>4, <1>5 DEF Injection, IsInjective
  <2>2. g \in Surjection(X, D)
    BY <1>4, <1>6 DEF Surjection
  <2> QED
    BY <2>1, <2>2 DEF Bijection
<1>8. ExistsBijection(X, D)
  BY <1>7 DEF ExistsBijection
<1>9. Cardinality(D) = Cardinality(X)
  BY <1>8, FS_Bijection
<1> QED
  BY <1>1, <1>9

LEMMA SpaceCharged ==
  ASSUME SpacesInv, NEW p \in Live
  PROVE  /\ Range(frames[p]) = TableFrames(p) \cup PageFrames(p)
         /\ TableFrames(p) \cap PageFrames(p) = {}
         /\ Len(frames[p]) = Cardinality(TableFrames(p)) + Cardinality(Abstract!WantedPages)
         /\ Len(frames[p]) = Cardinality(Range(frames[p]))
<1>1. /\ p \in Procs /\ MachineOk(machine) /\ SpaceOk(MemoryFor(p), space[p], pt)
      /\ frames[p] \in Seq(General) /\ NoTwice(frames[p])
  BY CallerIs DEF SpacesInv, FramesOk
<1>2. PICK m, root : m = MemoryFor(p) /\ root = space[p]
  OBVIOUS
<1>3. m.pt = pt /\ m.frames = frames[p]
  BY <1>2 DEF MemoryFor
<1>4. PICK X, Q : Held(m, root, X) /\ Whole(Q) /\ SpaceLeaves(Leaves(m, root), Q, X)
  BY <1>1, <1>2 DEF SpaceOk
<1>5. PICK T, d, r : TreeOf(m, root, X, T, d, r)
  BY <1>4 DEF Held
<1>6. Tree(pt, root, T, d, r) /\ T \cap X = {} /\ Range(frames[p]) = T \cup X
  BY <1>3, <1>5 DEF TreeOf
<1>7. TableFrames(p) = T
  <2>1. {root} \cup Links(pt, root) = T
    BY <1>1, <1>6, TablesMet
  <2> QED
    BY <1>2, <2>1 DEF TableFrames, Links
<1>8. IsFiniteSet(Range(frames[p])) /\ Cardinality(Range(frames[p])) = Len(frames[p])
  BY <1>1, LenIs
<1>9. IsFiniteSet(T) /\ IsFiniteSet(X)
  <2>1. T \in SUBSET Range(frames[p]) /\ X \in SUBSET Range(frames[p])
    BY <1>6
  <2> QED
    BY <1>8, <2>1, FS_Subset
<1>10. DOMAIN Q = Abstract!WantedPages
  BY <1>1, <1>4, WantedIs
<1>11. PICK lv : lv = Leaves(m, root)
  OBVIOUS
<1>12. /\ DOMAIN Q \subseteq machine.user
       /\ \A v \in DOMAIN Q : lv[v].frame \in X
       /\ \A v, w \in DOMAIN Q : lv[v].frame = lv[w].frame => v = w
       /\ \A x \in X : \E v \in DOMAIN Q : lv[v].frame = x
  BY <1>4, <1>11 DEF SpaceLeaves
<1>13. {lv[v].frame : v \in DOMAIN Q} = X /\ Cardinality(X) = Cardinality(DOMAIN Q)
  BY <1>9, <1>12, OneEach
<1>14. PageFrames(p) = X
  <2>1. \A v \in machine.user : lv[v] = LeafAt(p, v)
    BY <1>2, <1>3, <1>11 DEF Leaves, LeafAt
  <2>2. \A v \in DOMAIN Q : LeafAt(p, v).frame = lv[v].frame
    BY <1>12, <2>1
  <2>3. PageFrames(p) = {LeafAt(p, v).frame : v \in DOMAIN Q}
    BY <1>10 DEF PageFrames
  <2> QED
    BY <1>13, <2>2, <2>3
<1>15. Cardinality(T \cup X) = Cardinality(T) + Cardinality(X)
  <2>1. Cardinality(T \cup X) = Cardinality(T) + Cardinality(X) - Cardinality(T \cap X)
    BY <1>9, FS_Union
  <2>2. Cardinality(T \cap X) = 0
    BY <1>6, FS_EmptySet
  <2>3. Cardinality(T) \in Nat /\ Cardinality(X) \in Nat
    BY <1>9, FS_CardinalityType
  <2> QED
    BY <2>1, <2>2, <2>3
<1> QED
  BY <1>6, <1>7, <1>8, <1>10, <1>13, <1>14, <1>15

LEMMA ChargedEnough ==
  ASSUME SpacesInv
  PROVE  FramesCharged
<1>1. /\ free \subseteq General /\ Live \subseteq Procs
      /\ \A p \in Procs : /\ frames[p] \in Seq(General)
                          /\ Range(frames[p]) \cap free = {}
      /\ \A p, q \in Procs : p # q => Range(frames[p]) \cap Range(frames[q]) = {}
      /\ General \subseteq free \cup UNION {Range(frames[p]) : p \in Procs}
  BY DEF SpacesInv, FramesOk, Live
<1>2. \A p \in Live : /\ Range(frames[p]) \cap free = {}
                      /\ \A q \in Live \ {p} : Range(frames[p]) \cap Range(frames[q]) = {}
  BY <1>1
<1>3. \A p \in Procs : Range(frames[p]) \subseteq General
  BY <1>1 DEF Range
<1>4. \A p \in Procs : p \notin Live => Range(frames[p]) = {}
  <2>1. PICK E : E = << >>
    OBVIOUS
  <2>2. DOMAIN E = {}
    BY <2>1
  <2>3. Range(E) = {}
    BY <2>2 DEF Range
  <2> QED
    BY <2>1, <2>3 DEF SpacesInv, SlotsOk, Live
<1>5. free \cup UNION {Range(frames[p]) : p \in Live} = General
  BY <1>1, <1>3, <1>4
<1> QED
  BY <1>2, <1>5, SpaceCharged DEF FramesCharged

(* What a live process is charged is its tables and the pages of its image *)
(* and its stack, each frame once, and every other frame of the pool is    *)
(* free: `load_process` and `Remap` leak nothing when they fail half way,  *)
(* `kill_current` gives all of it back, and nothing is counted twice.      *)
THEOREM FramesAlwaysCharged == Spec => []FramesCharged
<1>1. SpacesInv => FramesCharged
  BY ChargedEnough
<1> QED
  BY <1>1, SpacesAlways, PTL

-----------------------------------------------------------------------------
(* The page tables implement the abstract maps.                            *)

NoMap == [v \in {} |-> v]
MapOf(p) == IF space[p] = 0 THEN NoMap ELSE Shown(p)
Mapped(f) == {v \in DOMAIN f : f[v] # EMPTY}
FramesIn(f) == {f[v].frame : v \in Mapped(f)}

WindowPerms == {USER_RO, USER_RW, USER_RO \cup {"device"}, USER_RW \cup {"device"}}
AllWindows == {ShareWindow(s) : s \in Shares} \cup {DeviceWindow}

(* What each abstract step asks of the map f that process p gets for g. *)
Created(g, f, p) ==
  /\ g = NoMap /\ Mapped(f) = Abstract!WantedPages
  /\ \A v \in Mapped(f) : f[v].perms = Abstract!WantedPerms(v)
  /\ \A v, w \in Mapped(f) : f[v].frame = f[w].frame => v = w
  /\ \A q \in Procs \ {p} : FramesIn(MapOf(q)) \cap FramesIn(f) = {}

Changed(g, f, w) ==
  /\ g # NoMap /\ DOMAIN f = DOMAIN g
  /\ \A v \in DOMAIN g \ {w[k] : k \in DOMAIN w} : f[v] = g[v]
  /\ \/ \A k \in DOMAIN w : f[w[k]] = EMPTY
     \/ \E n \in DOMAIN w, perms \in WindowPerms :
          \A k \in DOMAIN w : IF k <= n THEN f[w[k]] # EMPTY /\ f[w[k]].perms = perms
                              ELSE f[w[k]] = EMPTY

TheMap == [p \in Procs |-> IF space[p] = 0 THEN [v \in {} |-> v]
                          ELSE [v \in machine.user |-> LeafAt(p, v)]]

LEMMA TheMapIs ==
  ASSUME NEW p \in Procs
  PROVE  TheMap[p] = MapOf(p) /\ TheMap'[p] = MapOf(p)'
<1>1. TheMap[p] = MapOf(p)
  BY DEF TheMap, MapOf, NoMap, Shown
<1>2. Procs' = Procs
  BY DEF Procs
<1>3. TheMap'[p] = MapOf(p)'
  BY <1>2 DEF TheMap, MapOf, NoMap, Shown
<1> QED
  BY <1>1, <1>3

LEMMA ChangeFrom ==
  ASSUME NEW p \in Procs, NEW w, NEW g, NEW f, g = MapOf(p), f = MapOf(p)', Changed(g, f, w)
  PROVE  Abstract!ChangeWindow(p, w)
<1>1. TheMap[p] = g /\ TheMap'[p] = f
  BY TheMapIs
<1>2. Abstract!ChangeWindow(p, w) =
        (/\ TheMap[p] # NoMap
         /\ DOMAIN TheMap'[p] = DOMAIN TheMap[p]
         /\ \A v \in DOMAIN TheMap[p] \ {w[k] : k \in DOMAIN w} : TheMap'[p][v] = TheMap[p][v]
         /\ \/ \A k \in DOMAIN w : TheMap'[p][w[k]] = EMPTY
            \/ \E n \in DOMAIN w, perms \in WindowPerms :
                 \A k \in DOMAIN w :
                   IF k <= n THEN TheMap'[p][w[k]] # EMPTY /\ TheMap'[p][w[k]].perms = perms
                   ELSE TheMap'[p][w[k]] = EMPTY)
  BY DEF Abstract!ChangeWindow, Abstract!NoSpace, Abstract!PagesIn,
         Abstract!Unmapped, WindowPerms, TheMap, NoMap, EMPTY
<1> QED
  BY <1>1, <1>2 DEF Changed

LEMMA CreateFrom ==
  ASSUME NEW p \in Procs, NEW g, NEW f, g = MapOf(p), f = MapOf(p)', Created(g, f, p)
  PROVE  Abstract!Create(p)
<1>1. TheMap[p] = g /\ TheMap'[p] = f /\ \A q \in Procs : TheMap[q] = MapOf(q)
  BY TheMapIs
<1>2. DOMAIN TheMap = Procs
  BY DEF TheMap
<1>3. Abstract!Create(p) =
        (/\ TheMap[p] = NoMap
         /\ Mapped(TheMap'[p]) = Abstract!WantedPages
         /\ \A v \in Mapped(TheMap'[p]) : TheMap'[p][v].perms = Abstract!WantedPerms(v)
         /\ \A v, w \in Mapped(TheMap'[p]) :
              TheMap'[p][v].frame = TheMap'[p][w].frame => v = w
         /\ \A q \in DOMAIN TheMap \ {p} : FramesIn(TheMap[q]) \cap FramesIn(TheMap'[p]) = {})
  BY DEF Abstract!Create, Abstract!NoSpace, Abstract!MappedPages, Abstract!FramesOf,
         Abstract!Procs, Abstract!Unmapped, TheMap, NoMap, EMPTY, Mapped, FramesIn
<1> QED
  BY <1>1, <1>2, <1>3 DEF Created

(* One process gets map f for map g. *)
LEMMA StepFrom ==
  ASSUME machine' = machine, NEW p \in Procs, NEW g, NEW f, g = MapOf(p), f = MapOf(p)',
         f # g, \A q \in Procs \ {p} : MapOf(q)' = MapOf(q),
         \/ Created(g, f, p)
         \/ \E w \in AllWindows : Changed(g, f, w)
         \/ f = NoMap
  PROVE  Abstract!AMNext
<1>1. TheMap[p] = g /\ TheMap'[p] = f /\ DOMAIN TheMap = Procs
      /\ \A q \in Procs \ {p} : TheMap'[q] = TheMap[q]
  <2>1. DOMAIN TheMap = Procs
    BY DEF TheMap
  <2> QED
    BY <2>1, TheMapIs
<1>2. \/ Abstract!Create(p)
      \/ \E w \in AllWindows : Abstract!ChangeWindow(p, w)
      \/ TheMap'[p] = NoMap
  BY <1>1, CreateFrom, ChangeFrom
<1>3. StackPages' = StackPages /\ AllWindows' = AllWindows
  <2>1. Shares' = Shares
    BY DEF Shares
  <2> QED
    BY <2>1, Rigid DEF StackPages, AllWindows
<1>4. Abstract!AMNext =
        \E q \in DOMAIN TheMap :
          /\ TheMap'[q] # TheMap[q]
          /\ \A x \in DOMAIN TheMap \ {q} : TheMap'[x] = TheMap[x]
          /\ \/ Abstract!Create(q)
             \/ \E w \in AllWindows : Abstract!ChangeWindow(q, w)
             \/ TheMap'[q] = NoMap
          /\ [image |-> machine.image, stack |-> StackPages, user |-> machine.user,
              windows |-> AllWindows, windowPerms |-> WindowPerms]'
             = [image |-> machine.image, stack |-> StackPages, user |-> machine.user,
                windows |-> AllWindows, windowPerms |-> WindowPerms]
  BY DEF Abstract!AMNext, Abstract!Destroy, Abstract!NoSpace, Abstract!Procs,
         AllWindows, WindowPerms, TheMap, NoMap
<1> QED
  BY <1>1, <1>2, <1>3, <1>4

Unseen == machine' = machine /\ \A q \in Procs : MapOf(q)' = MapOf(q)
Implemented == Abstract!AMNext \/ UNCHANGED Abstract!amVars

LEMMA StillFrom ==
  ASSUME Unseen
  PROVE  Implemented
<1>1. Procs' = Procs /\ Shares' = Shares
  BY DEF Procs, Shares
<1>2. TheMap' = TheMap
  <2>1. TheMap = [p \in Procs |-> MapOf(p)]
    BY DEF TheMap, MapOf, NoMap, Shown
  <2>2. TheMap' = [p \in Procs |-> MapOf(p)']
    BY <1>1 DEF TheMap, MapOf, NoMap, Shown
  <2> QED
    BY <2>1, <2>2 DEF Unseen
<1>3. StackPages' = StackPages /\ AllWindows' = AllWindows
  BY <1>1, Rigid DEF StackPages, AllWindows, Unseen
<1>4. Abstract!amVars =
        <<[image |-> machine.image, stack |-> StackPages, user |-> machine.user,
           windows |-> AllWindows, windowPerms |-> WindowPerms], TheMap>>
  BY DEF Abstract!amVars, AllWindows, WindowPerms, TheMap
<1>5. Abstract!amVars' =
        <<[image |-> machine'.image, stack |-> StackPages', user |-> machine'.user,
           windows |-> AllWindows', windowPerms |-> WindowPerms], TheMap'>>
  BY DEF Abstract!amVars, AllWindows, WindowPerms, TheMap
<1> QED
  BY <1>2, <1>3, <1>4, <1>5 DEF Implemented, Unseen

(* A step gives one process another map, or none. *)
LEMMA OneFrom ==
  ASSUME machine' = machine, NEW p \in Procs, NEW g, NEW f, g = MapOf(p), f = MapOf(p)',
         \A q \in Procs \ {p} : MapOf(q)' = MapOf(q),
         \/ Created(g, f, p)
         \/ \E w \in AllWindows : Changed(g, f, w)
         \/ f = NoMap
  PROVE  Implemented
<1>1. CASE f # g
  BY <1>1, StepFrom DEF Implemented
<1>2. CASE f = g
  BY <1>2, StillFrom DEF Unseen
<1> QED
  BY <1>1, <1>2

LEMMA LiveMap ==
  ASSUME BuildOk, NEW p \in Live
  PROVE  /\ p \in Procs /\ MapOf(p) = Shown(p) /\ DOMAIN MapOf(p) = machine.user
         /\ MapOf(p) # NoMap
<1>1. machine.user # {}
  BY MachineFacts, MachineIs
<1>2. p \in Procs /\ MapOf(p) = Shown(p) /\ DOMAIN MapOf(p) = machine.user
  BY DEF Live, MapOf, Shown
<1>3. DOMAIN NoMap = {}
  BY DEF NoMap
<1> QED
  BY <1>1, <1>2, <1>3

(* Where the leaves of a process stay, and its space, its map stays. *)
LEMMA SameMap ==
  ASSUME machine' = machine, NEW q \in Procs, space'[q] = space[q],
         q \in Live => \A v \in machine.user : LeafAt(q, v)' = LeafAt(q, v)
  PROVE  MapOf(q)' = MapOf(q)
<1>1. CASE space[q] = 0
  BY <1>1 DEF MapOf, NoMap
<1>2. CASE space[q] # 0
  <2>1. MapOf(q) = [v \in machine.user |-> LeafAt(q, v)]
    BY <1>2 DEF MapOf, Shown
  <2>2. MapOf(q)' = [v \in machine.user |-> LeafAt(q, v)']
    BY <1>2 DEF MapOf, Shown
  <2> QED
    BY <1>2, <2>1, <2>2 DEF Live
<1> QED
  BY <1>1, <1>2

LEMMA StayFrom ==
  ASSUME LeavesStay
  PROVE  Implemented
<1>1. \A q \in Procs : MapOf(q)' = MapOf(q)
  BY SameMap DEF LeavesStay
<1> QED
  BY <1>1, StillFrom DEF Unseen, LeavesStay

LEMMA WindowFrom ==
  ASSUME BuildOk, NEW p, NEW w \in AllWindows, NEW n \in Nat, NEW F, Len(F) \in 0..n,
         NEW perms \in WindowPerms, Fits(p, w, n, F, perms)
  PROVE  Implemented
<1>1. /\ machine' = machine /\ space' = space /\ p \in Live /\ IsWindow(w, n)
      /\ DOMAIN w = 1..n /\ \A k \in 1..n : w[k] \in machine.user
      /\ {w[k] : k \in DOMAIN w} = Range(w)
  BY DEF Fits, IsWindow, Range
<1>2. PICK g, f : g = MapOf(p) /\ f = MapOf(p)'
  OBVIOUS
<1>3. p \in Procs /\ g = Shown(p) /\ DOMAIN g = machine.user /\ g # NoMap
  BY <1>1, <1>2, LiveMap
<1>4. f = [v \in machine.user |-> LeafAt(p, v)']
  BY <1>1, <1>2 DEF MapOf, Shown, Live
<1>5. \A v \in machine.user : v \notin Range(w) => f[v] = g[v]
  BY <1>1, <1>3, <1>4 DEF Fits, Shown
<1>6. \A k \in 1..n : f[w[k]] = IF k <= Len(F) THEN Leaf(F[k], perms) ELSE EMPTY
  <2> SUFFICES ASSUME NEW k \in 1..n
               PROVE  f[w[k]] = IF k <= Len(F) THEN Leaf(F[k], perms) ELSE EMPTY
    OBVIOUS
  <2>1. PICK v \in machine.user : v = w[k]
    BY <1>1
  <2>2. LeafAt(p, v)' = IF k <= Len(F) THEN Leaf(F[k], perms) ELSE EMPTY
    BY <1>1, <2>1 DEF Fits
  <2> QED
    BY <1>4, <2>1, <2>2
<1>7. \A x : Leaf(x, perms) # EMPTY /\ Leaf(x, perms).perms = perms
  <2>1. "page" # "none"
    OBVIOUS
  <2> QED
    BY <2>1, EntryKinds
<1>8. \/ \A k \in 1..n : f[w[k]] = EMPTY
      \/ \E l \in 1..n : \A k \in 1..n :
           IF k <= l THEN f[w[k]] # EMPTY /\ f[w[k]].perms = perms ELSE f[w[k]] = EMPTY
  <2>1. CASE Len(F) = 0
    BY <1>6, <2>1
  <2>2. CASE Len(F) # 0
    <3>1. PICK l \in 1..n : l = Len(F)
      BY <2>2
    <3>2. \A k \in 1..n : IF k <= l THEN f[w[k]] # EMPTY /\ f[w[k]].perms = perms
                          ELSE f[w[k]] = EMPTY
      BY <1>6, <1>7, <3>1
    <3> QED
      BY <3>2
  <2> QED
    BY <2>1, <2>2
<1>9. Changed(g, f, w)
  <2>1. DOMAIN f = DOMAIN g
    BY <1>3, <1>4
  <2> QED
    BY <1>1, <1>3, <1>5, <1>8, <2>1, Zenon DEF Changed
<1>10. \A q \in Procs \ {p} : MapOf(q)' = MapOf(q)
  BY <1>1, SameMap DEF Fits
<1> QED
  BY <1>1, <1>2, <1>3, <1>9, <1>10, OneFrom
(* Nobody has a free frame in its map. *)
LEMMA NoneFree ==
  ASSUME SpacesInv, NEW q \in Procs
  PROVE  FramesIn(MapOf(q)) \cap free = {}
<1>1. CASE q \notin Live
  <2>1. MapOf(q) = NoMap
    BY <1>1 DEF MapOf, Live
  <2>2. DOMAIN NoMap = {}
    BY DEF NoMap
  <2> QED
    BY <2>1, <2>2 DEF FramesIn, Mapped
<1>2. CASE q \in Live
  <2>1. /\ SpaceOk(MemoryFor(q), space[q], pt) /\ free \subseteq General
        /\ Range(frames[q]) \cap free = {} /\ BuildOk
    BY <1>2 DEF SpacesInv, Trees, FramesOk
  <2>2. PICK m, root : m = MemoryFor(q) /\ root = space[q]
    OBVIOUS
  <2>3. m.pt = pt /\ m.frames = frames[q]
    BY <2>2 DEF MemoryFor
  <2>4. PICK X, Q : Held(m, root, X) /\ SpaceLeaves(Leaves(m, root), Q, X)
    BY <2>1, <2>2 DEF SpaceOk
  <2>5. X \subseteq Range(frames[q])
    BY <2>3, <2>4 DEF Held, TreeOf
  <2>6. MapOf(q) = Leaves(m, root)
    <3>1. MapOf(q) = [v \in machine.user |-> LeafAt(q, v)]
      BY <1>2 DEF MapOf, Shown, Live
    <3> QED
      BY <2>2, <2>3, <3>1 DEF Leaves, LeafAt
  <2>7. PICK lv : lv = Leaves(m, root)
    OBVIOUS
  <2>8. DOMAIN lv = machine.user
    BY <2>7 DEF Leaves
  <2>9. ASSUME NEW v \in machine.user, lv[v] # EMPTY
        PROVE  lv[v].frame \notin free
    <3>1. CASE v \in DOMAIN Q
      BY <2>1, <2>4, <2>5, <2>7, <3>1 DEF SpaceLeaves
    <3>2. CASE v \notin DOMAIN Q
      <4>1. InWindow(lv[v], v)
        BY <2>4, <2>7, <2>9, <3>2 DEF SpaceLeaves
      <4> QED
        BY <2>1, <4>1 DEF InWindow
    <3> QED
      BY <3>1, <3>2
  <2> QED
    BY <2>6, <2>7, <2>8, <2>9 DEF FramesIn, Mapped
<1> QED
  BY <1>1, <1>2

LEMMA AppearFrom ==
  ASSUME SpacesInv, NEW p \in Procs, NEW Q, NEW X, Appears(p, Q, X)
  PROVE  Implemented
<1>1. /\ machine' = machine /\ MachineOk(machine) /\ space[p] = 0 /\ space'[p] # 0
      /\ X \subseteq free /\ Whole(Q)
  BY MachineFacts DEF Appears, SpacesInv
<1>2. PICK g, f : g = MapOf(p) /\ f = MapOf(p)'
  OBVIOUS
<1>3. g = NoMap
  BY <1>1, <1>2 DEF MapOf
<1>4. f = Shown(p)'
  BY <1>1, <1>2 DEF MapOf
<1>5. Pages(f, Q, X)
  BY <1>4 DEF Appears
<1>6. DOMAIN f = machine.user
  BY <1>1, <1>4 DEF Shown
<1>7. /\ DOMAIN Q = Abstract!WantedPages
      /\ \A v \in DOMAIN Q : Q[v] = Abstract!WantedPerms(v)
  BY <1>1, WantedIs
<1>8. Mapped(f) = DOMAIN Q
  <2>1. \A v \in machine.user : f[v] # EMPTY <=> v \in DOMAIN Q
    <3>1. "page" # "none" /\ EMPTY.kind = "none"
      BY EntryKinds
    <3> QED
      BY <1>5, <3>1 DEF Pages
  <2> QED
    BY <1>5, <1>6, <2>1 DEF Pages, Mapped
<1>9. FramesIn(f) \subseteq free
  BY <1>1, <1>5, <1>8 DEF Pages, FramesIn
<1>10. \A q \in Procs \ {p} : FramesIn(MapOf(q)) \cap FramesIn(f) = {}
  BY <1>9, NoneFree
<1>11. Created(g, f, p)
  BY <1>3, <1>5, <1>7, <1>8, <1>10 DEF Created, Pages
<1>12. \A q \in Procs \ {p} : MapOf(q)' = MapOf(q)
  BY SameMap DEF Appears
<1> QED
  BY <1>1, <1>2, <1>11, <1>12, OneFrom

LEMMA LoadFrom ==
  ASSUME SpacesInv, NEW p \in Procs, LoadProcess(p)
  PROVE  Implemented
<1>1. \/ LeavesStay
      \/ \E Q, X : Appears(p, Q, X)
  BY LoadShows
<1> QED
  BY <1>1, StayFrom, AppearFrom

LEMMA ReapFrom ==
  ASSUME SpacesInv, Reap
  PROVE  Implemented
<1>1. /\ machine' = machine /\ dying \in Live /\ space' = [space EXCEPT ![dying] = 0]
      /\ \A q \in Live, v \in machine.user : q # dying => LeafAt(q, v)' = LeafAt(q, v)
  BY ReapShows
<1>2. PICK p : p = dying
  OBVIOUS
<1>3. p \in Procs /\ space'[p] = 0 /\ \A q \in Procs \ {p} : space'[q] = space[q]
  BY <1>1, <1>2 DEF Live, SpacesInv, SlotsOk
<1>4. PICK g, f : g = MapOf(p) /\ f = MapOf(p)'
  OBVIOUS
<1>5. f = NoMap
  BY <1>3, <1>4 DEF MapOf, NoMap
<1>6. \A q \in Procs \ {p} : MapOf(q)' = MapOf(q)
  BY <1>1, <1>2, <1>3, SameMap
<1> QED
  BY <1>1, <1>3, <1>4, <1>5, <1>6, OneFrom

(* A window of no frames may be taken to have any permissions. *)
LEMMA BlankFrom ==
  ASSUME SpacesInv, NEW p, NEW w \in AllWindows, NEW n \in Nat, Blanks(p, w, n)
  PROVE  Implemented
<1>1. PICK F, perms : F = << >> /\ perms = {}
  OBVIOUS
<1>2. Len(F) = 0
  BY <1>1
<1>3. Fits(p, w, n, F, perms)
  BY <1>1 DEF Blanks
<1>4. \A k \in 1..n : ~(k <= Len(F))
  BY <1>2
<1>5. PICK also \in WindowPerms : also = USER_RO
  BY DEF WindowPerms
<1>6. Fits(p, w, n, F, also)
  BY <1>3, <1>4 DEF Fits
<1>7. Len(F) \in 0..n
  BY <1>2
<1> QED
  BY <1>6, <1>7, WindowFrom DEF SpacesInv

LEMMA ShareFrom ==
  ASSUME SpacesInv, NEW s \in Shares
  PROVE  ShareWindow(s) \in AllWindows /\ DeviceWindow \in AllWindows
         /\ REGION_MAX_PAGES \in Nat
BY SpacesAssumption DEF AllWindows

LEMMA MapDeviceFrom ==
  ASSUME SpacesInv, NEW write, MapDevice(write)
  PROVE  Implemented
<1>1. PICK perms \in DevicePerms, F \in {<<DEVICE>>, << >>} :
        Fits(current, DeviceWindow, 1, F, perms)
  BY MapDeviceShows
<1>2. Len(F) \in 0..1
  BY <1>1
<1>3. PICK p : p = current
  OBVIOUS
<1>4. DeviceWindow \in AllWindows /\ perms \in WindowPerms
  BY DEF AllWindows, WindowPerms, DevicePerms
<1>5. Fits(p, DeviceWindow, 1, F, perms)
  BY <1>1, <1>3
<1> QED
  BY <1>2, <1>4, <1>5, WindowFrom DEF SpacesInv

LEMMA UnmapDeviceFrom ==
  ASSUME SpacesInv, NEW p \in Procs, UnmapDevice(p)
  PROVE  Implemented
<1>1. DeviceWindow \in AllWindows
  BY DEF AllWindows
<1> QED
  BY <1>1, UnmapDeviceShows, BlankFrom

LEMMA MapRegionFrom ==
  ASSUME SpacesInv, NEW i \in 1..MAX_REGIONS, NEW write, MapRegion(i, write)
  PROVE  Implemented
<1>1. PICK s \in Shares : \E perms, F :
           /\ Fits(current, ShareWindow(s), REGION_MAX_PAGES, F, perms)
           /\ perms \in {USER_RO, USER_RW} /\ regions[i].live
           /\ F = regions[i].frames \/ F = << >>
  BY MapRegionShows
<1>2. PICK perms, F :
           /\ Fits(current, ShareWindow(s), REGION_MAX_PAGES, F, perms)
           /\ perms \in {USER_RO, USER_RW} /\ regions[i].live
           /\ F = regions[i].frames \/ F = << >>
  BY <1>1
<1>3. ShareWindow(s) \in AllWindows /\ REGION_MAX_PAGES \in Nat /\ perms \in WindowPerms
  BY <1>2, ShareFrom DEF WindowPerms
<1>4. Len(F) \in 0..REGION_MAX_PAGES
  <2>1. CASE F = << >>
    BY <1>3, <2>1
  <2>2. CASE F = regions[i].frames
    BY <1>2, <1>3, <2>2 DEF SpacesInv, RegionsOk, RegionOk
  <2> QED
    BY <1>2, <2>1, <2>2
<1>5. PICK p : p = current
  OBVIOUS
<1>6. Fits(p, ShareWindow(s), REGION_MAX_PAGES, F, perms)
  BY <1>2, <1>5
<1> QED
  BY <1>3, <1>4, <1>6, WindowFrom DEF SpacesInv

LEMMA UnmapRegionFrom ==
  ASSUME SpacesInv, NEW p \in Procs, NEW r \in 1..MaxRegionId, UnmapRegion(p, r)
  PROVE  Implemented
<1>1. PICK s \in Shares : Blanks(p, ShareWindow(s), REGION_MAX_PAGES)
  BY UnmapRegionShows
<1> QED
  BY <1>1, ShareFrom, BlankFrom

LEMMA RunUnmapFrom ==
  ASSUME SpacesInv, RunUnmap
  PROVE  Implemented
<1>1. PICK e : e = Head(plan)
  OBVIOUS
<1>2. LeavesStay \/ Blanks(e.proc, ShareWindow(e.slot), REGION_MAX_PAGES)
  BY <1>1, RunUnmapShows
<1>3. e.slot \in Shares
  BY <1>1, RunUnmapIs
<1>4. PICK s \in Shares : s = e.slot
  BY <1>3
<1>5. PICK p : p = e.proc
  OBVIOUS
<1> QED
  BY <1>2, <1>4, <1>5, StayFrom, ShareFrom, BlankFrom
LEMMA InitFrom ==
  ASSUME Init
  PROVE  Abstract!AMInit
<1>1. \A p \in Procs : TheMap[p] = NoMap
  BY DEF Init, TheMap, NoMap
<1>2. DOMAIN TheMap = Procs
  BY DEF TheMap
<1>3. Abstract!AMInit = \A p \in DOMAIN TheMap : TheMap[p] = NoMap
  BY DEF Abstract!AMInit, Abstract!Procs, Abstract!NoSpace, TheMap, NoMap
<1> QED
  BY <1>1, <1>2, <1>3

LEMMA StepImplements ==
  SpacesInv /\ [Next]_vars => Implemented
<1> SUFFICES ASSUME SpacesInv, [Next]_vars PROVE Implemented
  OBVIOUS
<1>1. CASE Boot
  <2>1. PICK p : p = nextId
    OBVIOUS
  <2>2. p \in 1..NUM_PROCS /\ LoadProcess(p)
    BY <1>1, <2>1, SpacesAssumption DEF Boot, SpacesInv, CpuOk
  <2>3. p \in Procs
    BY <2>2, SpacesAssumption DEF Procs
  <2> QED
    BY <2>2, <2>3, LoadFrom
<1>2. ASSUME UNCHANGED <<machine, pt, free, space, frames>> PROVE Implemented
  BY <1>2, StillShows, StayFrom
<1>3. CASE \/ Start \/ \E p \in Procs : Resume(p)
           \/ \E i \in 1..MAX_REGIONS : FreeRegion(i)
           \/ Exit \/ RunForgetCaps \/ RunRelease \/ UNCHANGED vars
  BY <1>2, <1>3 DEF Start, Resume, FreeRegion, Exit, RunForgetCaps, RunRelease, vars,
                    memory, process, shared
<1>4. CASE Spawn
  <2>1. PICK p : p = Min(Procs \ Live)
    OBVIOUS
  <2>2. p \in Procs
    <3>1. Procs \ Live \subseteq Nat /\ Procs \ Live # {}
      BY <1>4, SpacesAssumption DEF Spawn, Procs, Live
    <3> QED
      BY <2>1, <3>1, MinIs
  <2>3. LoadProcess(p)
    BY <1>4, <2>1 DEF Spawn
  <2> QED
    BY <2>2, <2>3, LoadFrom
<1>5. ASSUME NEW write \in machine.rights, MapDevice(write) PROVE Implemented
  BY <1>5, MapDeviceFrom
<1>6. ASSUME NEW p \in Procs, UnmapDevice(p) PROVE Implemented
  BY <1>6, UnmapDeviceFrom
<1>7. ASSUME NEW n \in 1..REGION_MAX_PAGES, MakeRegion(n) PROVE Implemented
  BY <1>7, MakeRegionShows, StayFrom
<1>8. ASSUME NEW i \in 1..MAX_REGIONS, NEW write \in machine.rights, MapRegion(i, write)
      PROVE  Implemented
  BY <1>8, MapRegionFrom
<1>9. ASSUME NEW p \in Procs, NEW r \in 1..MaxRegionId, UnmapRegion(p, r) PROVE Implemented
  BY <1>9, UnmapRegionFrom
<1>10. CASE RunUnmap
  BY <1>10, RunUnmapFrom
<1>11. CASE Reap
  BY <1>11, ReapFrom
<1> QED
  BY <1>1, <1>3, <1>4, <1>5, <1>6, <1>7, <1>8, <1>9, <1>10, <1>11 DEF Next, Syscall

(* The page tables, with `map`, `unmap` and the walk, implement a map per  *)
(* process: `load_process` brings in a space with the pages of its image   *)
(* and its stack and no others, on frames nobody else has; `map_device`,   *)
(* `map_region` and the unmappings change one window of one process, whole *)
(* or not at all; and `kill_current` takes the space away.  No operation   *)
(* on one space shows in another, though all share one pool of frames.     *)
THEOREM SpacesImplementMap == Spec => ImplementsAddressMap
<1>1. Init => Abstract!AMInit
  BY InitFrom
<1>2. SpacesInv /\ [Next]_vars => [Abstract!AMNext]_(Abstract!amVars)
  BY StepImplements DEF Implemented
<1> QED
  BY <1>1, <1>2, SpacesAlways, PTL DEF Spec, ImplementsAddressMap, Abstract!AMSpec

-----------------------------------------------------------------------------
(* What an operation does to bytes: it writes to frames that were free.    *)

Bytes(m) ==
  /\ m = [pt |-> m.pt, bytes |-> m.bytes, free |-> m.free, frames |-> m.frames,
          got |-> m.got, at |-> m.at, ok |-> m.ok]
  /\ m.bytes = [f \in AllFrames |-> m.bytes[f]] /\ m.free \subseteq General

Tame(m, n) == /\ Bytes(n) /\ n.free \subseteq m.free
              /\ \A f \in AllFrames : f \notin m.free => n.bytes[f] = m.bytes[f]

LEMMA TameSame ==
  ASSUME NEW m, Bytes(m), NEW n, n.bytes = m.bytes, n.free = m.free,
         n = [pt |-> n.pt, bytes |-> n.bytes, free |-> n.free, frames |-> n.frames,
              got |-> n.got, at |-> n.at, ok |-> n.ok]
  PROVE  Tame(m, n)
BY DEF Bytes, Tame

LEMMA TameSelf ==
  ASSUME NEW m, Bytes(m)
  PROVE  Tame(m, m)
BY DEF Bytes, Tame

LEMMA TameOn ==
  ASSUME NEW m, NEW n, NEW o, Tame(m, n), Tame(n, o)
  PROVE  Tame(m, o)
BY DEF Tame

LEMMA FailedTame ==
  ASSUME NEW m, Bytes(m)
  PROVE  Tame(m, Failed(m))
<1>1. PICK n : n = Failed(m)
  OBVIOUS
<1>2. n.bytes = m.bytes /\ n.free = m.free
      /\ n = [pt |-> n.pt, bytes |-> n.bytes, free |-> n.free, frames |-> n.frames,
              got |-> n.got, at |-> n.at, ok |-> n.ok]
  BY <1>1 DEF Bytes, Failed
<1> QED
  BY <1>1, <1>2, TameSame

LEMMA AllocTame ==
  ASSUME MachineOk(machine), NEW m, Bytes(m), NEW a, a = AllocFrame(m)
  PROVE  /\ Tame(m, a)
         /\ a.ok => /\ a.got \in m.free /\ a.got \notin a.free /\ a.got \in AllFrames
                    /\ a.bytes[a.got] = NewPage
<1>0. m.free \subseteq General
  BY DEF Bytes
<1>1. CASE m.free = {}
  <2>1. a = Failed(m)
    BY <1>1 DEF AllocFrame
  <2>2. a.ok = FALSE
    BY <2>1 DEF Bytes, Failed
  <2> QED
    BY <2>1, <2>2, FailedTame
<1>2. CASE m.free # {}
  <2>1. PICK f \in m.free : f = Min(m.free)
    BY <1>0, <1>2, MinIs, FramesAre
  <2>2. f \in AllFrames
    BY <1>0, FramesAre
  <2>3. PICK z : z = Zeroed(m, f)
    OBVIOUS
  <2>4. /\ z.bytes = [m.bytes EXCEPT ![f] = NewPage] /\ z.free = m.free
        /\ z = [pt |-> z.pt, bytes |-> z.bytes, free |-> z.free, frames |-> z.frames,
                got |-> z.got, at |-> z.at, ok |-> z.ok]
    BY <2>3 DEF Bytes, Zeroed
  <2>5. m.bytes = [g \in AllFrames |-> m.bytes[g]]
    BY DEF Bytes
  <2>6. /\ z.bytes[f] = NewPage /\ \A g \in AllFrames : g # f => z.bytes[g] = m.bytes[g]
        /\ z.bytes = [g \in AllFrames |-> z.bytes[g]]
    BY <2>2, <2>4, <2>5
  <2>7. Bytes(z) /\ Tame(m, z)
    BY <1>0, <2>1, <2>4, <2>6 DEF Bytes, Tame
  <2>8. CASE a = Failed(z)
    <3>1. a.ok = FALSE
      BY <2>4, <2>8 DEF Failed
    <3>2. Tame(m, a)
      BY <2>7, <2>8, FailedTame, TameOn
    <3> QED
      BY <3>1, <3>2
  <2>9. CASE a = [z EXCEPT !.free = @ \ {f}, !.frames = Append(@, f), !.got = f]
    <3>1. /\ a.bytes = z.bytes /\ a.free = m.free \ {f} /\ a.got = f
          /\ a = [pt |-> a.pt, bytes |-> a.bytes, free |-> a.free, frames |-> a.frames,
                  got |-> a.got, at |-> a.at, ok |-> a.ok]
      BY <2>4, <2>9
    <3>2. Tame(m, a)
      BY <1>0, <2>1, <2>6, <3>1 DEF Tame, Bytes
    <3> QED
      BY <2>2, <2>6, <3>1, <3>2
  <2>10. a = Failed(z) \/ a = [z EXCEPT !.free = @ \ {f}, !.frames = Append(@, f), !.got = f]
    BY <1>2, <2>1, <2>3 DEF AllocFrame
  <2> QED
    BY <2>8, <2>9, <2>10
<1> QED
  BY <1>1, <1>2

LEMMA DescendTame ==
  ASSUME MachineOk(machine), NEW m, Bytes(m), NEW v, NEW level, NEW n, n = Descend(m, v, level)
  PROVE  Tame(m, n)
<1>1. PICK a : a = AllocFrame(m)
  OBVIOUS
<1>2. Tame(m, a)
  BY <1>1, AllocTame
<1>3. \/ n = m \/ n = Failed(m) \/ n = a
      \/ \E x : n = [m EXCEPT !.at = x]
      \/ \E g, i, e, x : n = [a EXCEPT !.pt[g][i] = e, !.at = x]
  BY <1>1, Zenon DEF Descend
<1>4. CASE \E x : n = [m EXCEPT !.at = x]
  <2>1. PICK x : n = [m EXCEPT !.at = x]
    BY <1>4
  <2>2. n.bytes = m.bytes /\ n.free = m.free
        /\ n = [pt |-> n.pt, bytes |-> n.bytes, free |-> n.free, frames |-> n.frames,
                got |-> n.got, at |-> n.at, ok |-> n.ok]
    BY <2>1 DEF Bytes
  <2> QED
    BY <2>2, TameSame
<1>5. CASE \E g, i, e, x : n = [a EXCEPT !.pt[g][i] = e, !.at = x]
  <2>1. PICK g, i, e, x : n = [a EXCEPT !.pt[g][i] = e, !.at = x]
    BY <1>5
  <2>2. Bytes(a)
    BY <1>2 DEF Tame
  <2>3. n.bytes = a.bytes /\ n.free = a.free
        /\ n = [pt |-> n.pt, bytes |-> n.bytes, free |-> n.free, frames |-> n.frames,
                got |-> n.got, at |-> n.at, ok |-> n.ok]
    BY <2>1, <2>2 DEF Bytes
  <2> QED
    BY <1>2, <2>2, <2>3, TameSame, TameOn
<1> QED
  BY <1>2, <1>3, <1>4, <1>5, TameSelf, FailedTame

(* A loop of tame steps is tame. *)
LEMMA RunTame ==
  ASSUME NEW f, NEW n \in Nat, NEW m, Tame(m, f[0]),
         \A k \in 1..n : Bytes(f[k - 1]) => Tame(f[k - 1], f[k])
  PROVE  Tame(m, f[n])
<1> DEFINE P == {k \in 0..n : Tame(m, f[k])}
<1>1. 0 \in P
  OBVIOUS
<1>2. ASSUME NEW k \in 1..n, k - 1 \in P PROVE k \in P
  <2>1. Tame(m, f[k - 1])
    BY <1>2
  <2>2. Tame(f[k - 1], f[k])
    BY <2>1 DEF Tame
  <2> QED
    BY <2>1, <2>2, TameOn
<1>3. \A k \in 0..n : k \in P
  <2> HIDE DEF P
  <2> QED
    BY <1>1, <1>2, Induct
<1> QED
  BY <1>3

LEMMA DescendAllTame ==
  ASSUME MachineOk(machine), NEW m, Bytes(m), NEW root, NEW v, NEW n, n = DescendAll(m, root, v)
  PROVE  Tame(m, n)
<1>0. Top \in Nat
  BY MachineIs
<1>1. PICK f : Descent(f, m, root, v)
  BY DescendAllSteps
<1>2. /\ f[0] = AtRoot(m, root) /\ n = f[Top]
      /\ \A k \in 1..Top : f[k] = StepDown(f[k - 1], v, k)
  BY <1>1 DEF Descent
<1>3. Tame(m, f[0])
  <2>1. PICK e : e = f[0]
    OBVIOUS
  <2>2. e.bytes = m.bytes /\ e.free = m.free
        /\ e = [pt |-> e.pt, bytes |-> e.bytes, free |-> e.free, frames |-> e.frames,
                got |-> e.got, at |-> e.at, ok |-> e.ok]
    BY <1>2, <2>1 DEF AtRoot, Bytes
  <2> QED
    BY <2>1, <2>2, TameSame
<1>4. \A k \in 1..Top : Bytes(f[k - 1]) => Tame(f[k - 1], f[k])
  BY <1>2, DescendTame DEF StepDown
<1> QED
  BY <1>0, <1>2, <1>3, <1>4, RunTame

LEMMA MapTame ==
  ASSUME MachineOk(machine), NEW m, Bytes(m), NEW root, NEW v, NEW f, NEW perms,
         NEW n, n = Map(m, root, v, f, perms)
  PROVE  Tame(m, n)
<1>1. PICK d : d = DescendAll(m, root, v)
  OBVIOUS
<1>2. Tame(m, d) /\ Bytes(d)
  BY <1>1, DescendAllTame DEF Tame
<1>3. \/ n = Failed(m) \/ n = d \/ n = Failed(d)
      \/ \E g, i, e : n = [d EXCEPT !.pt[g][i] = e]
  BY <1>1 DEF Map, SetLeaf
<1>4. CASE \E g, i, e : n = [d EXCEPT !.pt[g][i] = e]
  <2>1. PICK g, i, e : n = [d EXCEPT !.pt[g][i] = e]
    BY <1>4
  <2>2. n.bytes = d.bytes /\ n.free = d.free
        /\ n = [pt |-> n.pt, bytes |-> n.bytes, free |-> n.free, frames |-> n.frames,
                got |-> n.got, at |-> n.at, ok |-> n.ok]
    BY <1>2, <2>1 DEF Bytes
  <2> QED
    BY <1>2, <2>2, TameSame, TameOn
<1>5. Tame(m, Failed(m))
  BY FailedTame
<1>6. Tame(m, Failed(d))
  <2>1. Tame(d, Failed(d))
    BY <1>2, FailedTame
  <2> QED
    BY <1>2, <2>1, TameOn
<1> QED
  BY <1>2, <1>3, <1>4, <1>5, <1>6
LEMMA ClearedTame ==
  ASSUME NEW m, Bytes(m), NEW root, NEW w, NEW n, n = Cleared(m, root, w)
  PROVE  Tame(m, n)
<1>1. n.bytes = m.bytes /\ n.free = m.free
      /\ n = [pt |-> n.pt, bytes |-> n.bytes, free |-> n.free, frames |-> n.frames,
              got |-> n.got, at |-> n.at, ok |-> n.ok]
  BY DEF Cleared, Bytes
<1> QED
  BY <1>1, TameSame

LEMMA MapEachTame ==
  ASSUME MachineOk(machine), NEW m, Bytes(m), NEW root, NEW w, NEW F, Len(F) \in Nat,
         NEW perms, NEW n, n = MapEach(m, root, w, F, perms)
  PROVE  Tame(m, n)
<1>1. PICK f : EachRun(f, m, root, w, F, perms)
  BY MapEachSteps
<1>2. /\ f[0] = m /\ n = f[Len(F)]
      /\ \A k \in 1..Len(F) : f[k] = EachStep(f[k - 1], root, w, F, perms, k)
  BY <1>1 DEF EachRun
<1>3. Tame(m, f[0])
  BY <1>2, TameSelf
<1>4. \A k \in 1..Len(F) : Bytes(f[k - 1]) => Tame(f[k - 1], f[k])
  BY <1>2, MapTame, TameSelf DEF EachStep
<1> QED
  BY <1>2, <1>3, <1>4, RunTame

LEMMA RemapTame ==
  ASSUME MachineOk(machine), NEW p, Bytes(MemoryFor(p)), NEW w, NEW F, Len(F) \in Nat,
         NEW perms, NEW n, n = Remap(p, w, F, perms)
  PROVE  Tame(MemoryFor(p), n)
<1>1. PICK m, root : m = MemoryFor(p) /\ root = space[p]
  OBVIOUS
<1>2. PICK a, b : a = Cleared(m, root, w) /\ b = MapEach(a, root, w, F, perms)
  OBVIOUS
<1>3. Tame(m, a) /\ Bytes(a)
  BY <1>1, <1>2, ClearedTame DEF Tame
<1>4. Tame(m, b) /\ Bytes(b)
  <2>1. Tame(a, b)
    BY <1>2, <1>3, MapEachTame
  <2> QED
    BY <1>3, <2>1, TameOn DEF Tame
<1>5. Tame(m, Cleared(b, root, w))
  <2>1. Tame(b, Cleared(b, root, w))
    BY <1>4, ClearedTame
  <2> QED
    BY <1>4, <2>1, TameOn
<1>6. n = b \/ n = Cleared(b, root, w)
  BY <1>1, <1>2 DEF Remap
<1> QED
  BY <1>1, <1>4, <1>5, <1>6

-----------------------------------------------------------------------------
(* What the loader writes.                                                 *)

Filled(s, v) ==
  LET c == Copied(s, v)
      page == v * PAGE_SIZE
  IN  [b \in 0..(PAGE_SIZE - 1) |->
         IF page + b \in c.from..(c.to - 1) THEN c.at + (page + b - c.from) + 1 ELSE 0]

Content(m, root, v) == m.bytes[Leaves(m, root)[v].frame]
Shows(m, root, v, c) ==
  v \in machine.user /\ Leaves(m, root)[v] # EMPTY /\ Content(m, root, v) = c

(* What is mapped stays, with what is in it. *)
Keeps(m, n, root) ==
  \A v \in machine.user : Leaves(m, root)[v] # EMPTY =>
    Leaves(n, root)[v] # EMPTY /\ Content(n, root, v) = Content(m, root, v)
Writes(m, n, root, v, c) == n.ok => m.ok /\ Keeps(m, n, root) /\ Shows(n, root, v, c)

LEMMA KeepsOn ==
  ASSUME NEW m, NEW n, NEW o, NEW root, Keeps(m, n, root), Keeps(n, o, root)
  PROVE  Keeps(m, o, root)
BY DEF Keeps

LEMMA ShowsOn ==
  ASSUME NEW m, NEW n, NEW root, NEW v, NEW c, Shows(m, root, v, c), Keeps(m, n, root)
  PROVE  Shows(n, root, v, c)
BY DEF Shows, Keeps

(* The new frame is filled. *)
Fills(a, b, c) ==
  b.bytes[a.got] = c /\ \A g \in AllFrames : g # a.got => b.bytes[g] = a.bytes[g]

LEMMA PagePutWrites ==
  ASSUME MachineOk(machine), NEW m, NEW old, NEW pool, MemOk(m, old, pool), Bytes(m),
         NEW root, NEW Q, Loaded(m, root, Q), NEW v \in machine.user, NEW perms,
         NEW a, NEW b, Allocated(m, a, b), Bytes(b), m.ok,
         NEW c, Fills(a, b, c), NEW n, n = Map(b, root, v, a.got, perms)
  PROVE  Tame(m, n) /\ Writes(m, n, root, v, c)
<1> /\ a = AllocFrame(m) /\ a.ok /\ IsMem(b) /\ b.pt = a.pt /\ b.free = a.free
    /\ b.frames = a.frames /\ b.ok = a.ok
    /\ b.bytes[a.got] = c /\ \A g \in AllFrames : g # a.got => b.bytes[g] = a.bytes[g]
  BY DEF Allocated, Fills
<1>1. PICK f : f = a.got
  OBVIOUS
<1>2. /\ Tame(m, a) /\ f \in m.free /\ f \notin b.free /\ f \in AllFrames
  BY <1>1, AllocTame
<1>3. Tame(m, b)
  BY <1>1, <1>2 DEF Tame
<1>4. Tame(b, n)
  BY MapTame
<1>5. Tame(m, n)
  BY <1>3, <1>4, TameOn
<1>6. n.ok => PutPage(Leaves(m, root), Leaves(n, root), v, Leaf(f, perms))
  BY <1>1, NewPageIs
<1>7. PICK X : Held(m, root, X) /\ Pages(Leaves(m, root), Q, X)
  BY DEF Loaded
<1>8. X \subseteq Range(m.frames) /\ Range(m.frames) \cap m.free = {}
      /\ X \subseteq AllFrames
  <2>1. X \subseteq Range(m.frames)
    BY <1>7 DEF Held, TreeOf
  <2>2. m.frames \in Seq(General) /\ Range(m.frames) \cap m.free = {}
    BY DEF MemOk
  <2>3. Range(m.frames) \subseteq General
    BY <2>2 DEF Range
  <2> QED
    BY <2>1, <2>2, <2>3, FramesAre
<1>9. ASSUME n.ok PROVE Keeps(m, n, root) /\ Shows(n, root, v, c)
  <2>1. PICK lv, lv2 : lv = Leaves(m, root) /\ lv2 = Leaves(n, root)
    OBVIOUS
  <2>2. /\ lv[v] = EMPTY /\ lv2[v] = Leaf(f, perms)
        /\ \A u \in machine.user : u # v => lv2[u] = lv[u]
    BY <1>6, <1>9, <2>1 DEF PutPage
  <2>3. ASSUME NEW u \in machine.user, lv[u] # EMPTY
        PROVE  lv2[u] # EMPTY /\ n.bytes[lv2[u].frame] = m.bytes[lv[u].frame]
    <3>1. u # v /\ lv2[u] = lv[u]
      BY <2>2, <2>3
    <3>2. lv[u].frame \in X
      BY <1>7, <2>1, <2>3 DEF Pages
    <3>3. lv[u].frame \in AllFrames /\ lv[u].frame \notin m.free
      BY <1>8, <3>2
    <3>4. n.bytes[lv[u].frame] = m.bytes[lv[u].frame]
      BY <1>5, <3>3 DEF Tame
    <3> QED
      BY <2>3, <3>1, <3>4
  <2>4. lv2[v] # EMPTY /\ n.bytes[lv2[v].frame] = c
    <3>1. lv2[v].kind = "page" /\ lv2[v].frame = f /\ EMPTY.kind = "none"
      BY <2>2, EntryKinds
    <3>2. "page" # "none"
      OBVIOUS
    <3>3. n.bytes[f] = b.bytes[f]
      BY <1>2, <1>4 DEF Tame
    <3> QED
      BY <1>1, <3>1, <3>2, <3>3
  <2> QED
    BY <2>1, <2>3, <2>4 DEF Keeps, Shows, Content
<1> QED
  BY <1>5, <1>9 DEF Writes
LEMMA LoadStackPageWrites ==
  ASSUME MachineOk(machine), NEW m, NEW old, NEW pool, NEW root, NEW Q,
         Partly(m, old, pool, root, Q), Bytes(m), NEW v \in machine.user,
         NEW n, n = LoadStackPage(m, root, v)
  PROVE  Tame(m, n) /\ Writes(m, n, root, v, NewPage)
<1>1. PICK a : a = AllocFrame(m)
  OBVIOUS
<1>2. MemOk(m, old, pool) /\ IsMem(a) /\ Tame(m, a) /\ Bytes(a)
  <2>1. MemOk(m, old, pool)
    BY DEF Partly
  <2>2. MemOk(a, old, pool)
    BY <1>1, <2>1, AllocIs
  <2> QED
    BY <1>1, <2>1, <2>2, AllocTame DEF MemOk, Tame
<1>3. CASE ~m.ok
  <2>1. n = m
    BY <1>3 DEF LoadStackPage
  <2> QED
    BY <1>3, <2>1, TameSelf DEF Writes
<1>4. CASE m.ok /\ ~a.ok
  <2>1. n = a
    BY <1>1, <1>4 DEF LoadStackPage
  <2> QED
    BY <1>2, <1>4, <2>1 DEF Writes
<1>5. CASE m.ok /\ a.ok
  <2>1. n = Map(a, root, v, a.got, USER_RW)
    BY <1>1, <1>5 DEF LoadStackPage
  <2>2. Loaded(m, root, Q)
    BY <1>5 DEF Partly
  <2>3. Allocated(m, a, a)
    BY <1>1, <1>2, <1>5 DEF Allocated
  <2>4. Fills(a, a, NewPage)
    BY <1>1, <1>5, AllocTame DEF Fills
  <2> QED
    BY <1>2, <1>5, <2>1, <2>2, <2>3, <2>4, PagePutWrites
<1> QED
  BY <1>3, <1>4, <1>5

LEMMA LoadPageWrites ==
  ASSUME MachineOk(machine), NEW m, NEW old, NEW pool, NEW root, NEW Q,
         Partly(m, old, pool, root, Q), Bytes(m), NEW v \in machine.user, NEW len, NEW s,
         NEW n, n = LoadPage(m, root, len, s, v)
  PROVE  Tame(m, n) /\ Writes(m, n, root, v, Filled(s, v))
<1>1. PICK a : a = AllocFrame(m)
  OBVIOUS
<1>2. MemOk(m, old, pool) /\ IsMem(a) /\ Tame(m, a) /\ Bytes(a)
  <2>1. MemOk(m, old, pool)
    BY DEF Partly
  <2>2. MemOk(a, old, pool)
    BY <1>1, <2>1, AllocIs
  <2> QED
    BY <1>1, <2>1, <2>2, AllocTame DEF MemOk, Tame
<1>3. CASE ~m.ok
  <2>1. n = m
    BY <1>3 DEF LoadPage
  <2> QED
    BY <1>3, <2>1, TameSelf DEF Writes
<1>4. CASE m.ok /\ ~a.ok
  <2>1. n = a
    BY <1>1, <1>4 DEF LoadPage
  <2> QED
    BY <1>2, <1>4, <2>1 DEF Writes
<1>5. CASE m.ok /\ a.ok
  <2>1. \/ n = Failed(a)
        \/ n = Map([a EXCEPT !.bytes[a.got] = Filled(s, v)], root, v, a.got, SegmentPerms(s))
    BY <1>1, <1>5 DEF LoadPage, Filled
  <2>2. CASE n = Failed(a)
    <3>1. n.ok = FALSE
      BY <1>2, <2>2, FailedIs
    <3>2. Tame(m, n)
      BY <1>2, <2>2, FailedTame, TameOn
    <3> QED
      BY <3>1, <3>2 DEF Writes
  <2>3. CASE n = Map([a EXCEPT !.bytes[a.got] = Filled(s, v)], root, v, a.got, SegmentPerms(s))
    <3>1. PICK c, b, f, perms : /\ c = Filled(s, v) /\ f = a.got /\ perms = SegmentPerms(s)
                                /\ b = [a EXCEPT !.bytes[f] = c]
      OBVIOUS
    <3>2. n = Map(b, root, v, a.got, perms)
      BY <2>3, <3>1
    <3>3. /\ b.pt = a.pt /\ b.free = a.free /\ b.frames = a.frames /\ b.ok = a.ok
          /\ b.bytes = [a.bytes EXCEPT ![f] = c]
          /\ b = [pt |-> b.pt, bytes |-> b.bytes, free |-> b.free, frames |-> b.frames,
                  got |-> b.got, at |-> b.at, ok |-> b.ok]
      BY <1>2, <3>1 DEF IsMem
    <3>4. IsMem(b)
      BY <1>2, <3>3 DEF IsMem
    <3>5. a.bytes = [g \in AllFrames |-> a.bytes[g]] /\ f \in AllFrames
      BY <1>1, <1>2, <1>5, <3>1, AllocTame DEF Bytes
    <3>6. /\ b.bytes[f] = c /\ \A g \in AllFrames : g # f => b.bytes[g] = a.bytes[g]
          /\ b.bytes = [g \in AllFrames |-> b.bytes[g]]
      BY <3>3, <3>5
    <3>7. Bytes(b)
      BY <1>2, <3>3, <3>6 DEF Bytes
    <3>8. Loaded(m, root, Q)
      BY <1>5 DEF Partly
    <3>9. Allocated(m, a, b)
      BY <1>1, <1>5, <3>3, <3>4 DEF Allocated
    <3>10. Fills(a, b, c)
      BY <3>1, <3>6 DEF Fills
    <3>11. Tame(m, n) /\ Writes(m, n, root, v, c)
      BY <1>2, <1>5, <3>2, <3>7, <3>8, <3>9, <3>10, PagePutWrites
    <3> QED
      BY <3>1, <3>11
  <2> QED
    BY <2>1, <2>2, <2>3
<1> QED
  BY <1>3, <1>4, <1>5

(* Each step of f writes the next page of G, as H says. *)
WriteStep(e, e2, v, c, old, pool, root) ==
  \A Q : Partly(e, old, pool, root, Q) /\ Bytes(e) => Tame(e, e2) /\ Writes(e, e2, root, v, c)

LEMMA RunWrites ==
  ASSUME NEW f, NEW n \in Nat, NEW G, NEW H, NEW perms, NEW old, NEW pool, NEW root, NEW Q,
         Partly(f[0], old, pool, root, Q), Bytes(f[0]),
         \A k \in 1..n : PageStep(f[k - 1], f[k], G[k], perms, old, pool, root),
         \A k \in 1..n : WriteStep(f[k - 1], f[k], G[k], H[k], old, pool, root)
  PROVE  /\ Tame(f[0], f[n])
         /\ f[n].ok => /\ f[0].ok /\ Keeps(f[0], f[n], root)
                       /\ \A j \in 1..n : Shows(f[n], root, G[j], H[j])
<1> DEFINE Good(e, k) == /\ Tame(f[0], e) /\ \E R : Partly(e, old, pool, root, R)
                         /\ e.ok => /\ f[0].ok /\ Keeps(f[0], e, root)
                                    /\ \A j \in 1..k : Shows(e, root, G[j], H[j])
           P == {k \in 0..n : Good(f[k], k)}
<1>1. 0 \in P
  <2>1. Tame(f[0], f[0]) /\ Keeps(f[0], f[0], root)
    BY TameSelf DEF Keeps
  <2> QED
    BY <2>1
<1>2. ASSUME NEW k \in 1..n, k - 1 \in P PROVE k \in P
  <2>1. PICK i, e, e2, v, c : /\ i \in 0..n /\ i = k - 1 /\ k = i + 1
                              /\ e = f[i] /\ e2 = f[k] /\ v = G[k] /\ c = H[k]
    OBVIOUS
  <2>2. Good(e, i)
    BY <1>2, <2>1
  <2>3. Bytes(e) /\ Tame(f[0], e)
    BY <2>2 DEF Tame
  <2>4. PICK R : Partly(e, old, pool, root, R)
    BY <2>2
  <2>5. Tame(e, e2) /\ Writes(e, e2, root, v, c)
    <3>1. WriteStep(e, e2, v, c, old, pool, root)
      BY <2>1
    <3> QED
      BY <2>3, <2>4, <3>1 DEF WriteStep
  <2>6. Partly(e2, old, pool, root, Plus(R, v, perms))
    <3>1. PageStep(e, e2, v, perms, old, pool, root)
      BY <2>1
    <3> QED
      BY <2>4, <3>1 DEF PageStep
  <2>7. Tame(f[0], e2)
    BY <2>3, <2>5, TameOn
  <2>8. ASSUME e2.ok
        PROVE  /\ f[0].ok /\ Keeps(f[0], e2, root)
               /\ \A j \in 1..k : Shows(e2, root, G[j], H[j])
    <3>1. e.ok /\ Keeps(e, e2, root) /\ Shows(e2, root, v, c)
      BY <2>5, <2>8 DEF Writes
    <3>2. /\ f[0].ok /\ Keeps(f[0], e, root)
          /\ \A j \in 1..i : Shows(e, root, G[j], H[j])
      BY <2>2, <3>1
    <3>3. Keeps(f[0], e2, root)
      BY <3>1, <3>2, KeepsOn
    <3>4. ASSUME NEW j \in 1..k PROVE Shows(e2, root, G[j], H[j])
      <4>1. CASE j = k
        BY <2>1, <3>1, <4>1
      <4>2. CASE j # k
        <5>1. j \in 1..i
          BY <2>1, <4>2
        <5> QED
          BY <3>1, <3>2, <5>1, ShowsOn
      <4> QED
        BY <4>1, <4>2
    <3> QED
      BY <3>2, <3>3, <3>4
  <2>9. Good(e2, k)
    BY <2>6, <2>7, <2>8
  <2> HIDE DEF Good
  <2> QED
    BY <2>1, <2>9
<1>3. n \in P
  <2> HIDE DEF P
  <2>1. \A k \in 0..n : k \in P
    BY <1>1, <1>2, Induct
  <2> QED
    BY <2>1
<1> QED
  BY <1>3

LEMMA LoadStackWrites ==
  ASSUME MachineOk(machine), NEW m, NEW old, NEW pool, NEW root, NEW Q,
         Partly(m, old, pool, root, Q), Bytes(m), NEW n, n = LoadStack(m, root)
  PROVE  /\ Tame(m, n)
         /\ n.ok => /\ m.ok /\ Keeps(m, n, root)
                    /\ \A v \in StackSet : Shows(n, root, v, NewPage)
<1>0. PICK s \in Nat : s = machine.stackPages
  BY StackIs
<1>1. PICK f : StackRun(f, m, root)
  BY <1>0, LoadStackSteps
<1>2. /\ f[0] = m /\ n = f[s]
      /\ \A k \in 1..s : f[k] = LoadStackPage(f[k - 1], root, StackPages[k])
  BY <1>0, <1>1 DEF StackRun
<1>3. ASSUME NEW k \in 1..s
      PROVE  /\ PageStep(f[k - 1], f[k], StackPages[k], USER_RW, old, pool, root)
             /\ WriteStep(f[k - 1], f[k], StackPages[k], NewPage, old, pool, root)
  <2>1. PICK e, e2, v : /\ e = f[k - 1] /\ e2 = f[k]
                        /\ v = StackPages[k] /\ v \in machine.user
    BY <1>0, StackIs
  <2>2. e2 = LoadStackPage(e, root, v)
    BY <1>2, <2>1
  <2>3. PageStep(e, e2, v, USER_RW, old, pool, root)
    BY <2>1, <2>2, LoadStackPageIs DEF PageStep
  <2>4. WriteStep(e, e2, v, NewPage, old, pool, root)
    BY <2>1, <2>2, LoadStackPageWrites DEF WriteStep
  <2> QED
    BY <2>1, <2>3, <2>4
<1>4. PICK perms, G, H : perms = USER_RW /\ G = StackPages /\ H = [k \in 1..s |-> NewPage]
  OBVIOUS
<1>5. /\ Tame(f[0], f[s])
      /\ f[s].ok => /\ f[0].ok /\ Keeps(f[0], f[s], root)
                    /\ \A j \in 1..s : Shows(f[s], root, G[j], H[j])
  <2>1. Partly(f[0], old, pool, root, Q) /\ Bytes(f[0])
    BY <1>2
  <2>2. \A k \in 1..s : PageStep(f[k - 1], f[k], G[k], perms, old, pool, root)
    BY <1>3, <1>4
  <2>3. \A k \in 1..s : WriteStep(f[k - 1], f[k], G[k], H[k], old, pool, root)
    BY <1>3, <1>4
  <2> QED
    BY <2>1, <2>2, <2>3, RunWrites
<1> QED
  BY <1>0, <1>2, <1>4, <1>5 DEF StackSet

LEMMA LoadSegmentWrites ==
  ASSUME MachineOk(machine), NEW m, NEW old, NEW pool, NEW root, NEW Q,
         Partly(m, old, pool, root, Q), Bytes(m), NEW len, NEW s, s.kind = "load",
         SegmentPages(s) \in Seq(machine.user), NEW n, n = LoadSegment(m, root, len, s)
  PROVE  /\ Tame(m, n)
         /\ n.ok => /\ m.ok /\ Keeps(m, n, root)
                    /\ \A v \in Range(SegmentPages(s)) : Shows(n, root, v, Filled(s, v))
<1>0. PICK G, c, perms : /\ G = SegmentPages(s) /\ G \in Seq(machine.user)
                         /\ c = Len(G) /\ c \in Nat /\ perms = SegmentPerms(s)
  OBVIOUS
<1>0a. PICK H : H = [k \in 1..c |-> Filled(s, G[k])]
  OBVIOUS
<1>1. PICK f : SegmentRun(f, m, root, len, s)
  BY <1>0, LoadSegmentSteps
<1>2. /\ f[0] = m /\ n = f[c]
      /\ \A k \in 1..c : f[k] = LoadPage(f[k - 1], root, len, s, G[k])
  BY <1>0, <1>1 DEF SegmentRun
<1>3. ASSUME NEW k \in 1..c
      PROVE  /\ PageStep(f[k - 1], f[k], G[k], perms, old, pool, root)
             /\ WriteStep(f[k - 1], f[k], G[k], H[k], old, pool, root)
  <2>1. PICK e, e2, v : /\ e = f[k - 1] /\ e2 = f[k]
                        /\ v = G[k] /\ v \in machine.user
    BY <1>0
  <2>2. e2 = LoadPage(e, root, len, s, v)
    BY <1>2, <2>1
  <2>3. PageStep(e, e2, v, perms, old, pool, root)
    BY <1>0, <2>1, <2>2, LoadPageIs DEF PageStep
  <2>4. WriteStep(e, e2, v, Filled(s, v), old, pool, root)
    BY <2>1, <2>2, LoadPageWrites DEF WriteStep
  <2>5. H[k] = Filled(s, v)
    BY <1>0a, <2>1
  <2> QED
    BY <2>1, <2>3, <2>4, <2>5
<1>4. /\ Tame(f[0], f[c])
      /\ f[c].ok => /\ f[0].ok /\ Keeps(f[0], f[c], root)
                    /\ \A j \in 1..c : Shows(f[c], root, G[j], H[j])
  <2>1. Partly(f[0], old, pool, root, Q) /\ Bytes(f[0]) /\ c \in Nat
    BY <1>0, <1>2
  <2> QED
    BY <1>3, <2>1, RunWrites
<1>5. ASSUME n.ok, NEW v \in Range(SegmentPages(s)) PROVE Shows(n, root, v, Filled(s, v))
  <2>1. PICK j \in 1..c : v = G[j]
    BY <1>0 DEF Range
  <2>2. H[j] = Filled(s, v)
    BY <1>0a, <2>1
  <2> QED
    BY <1>2, <1>4, <1>5, <2>1, <2>2
<1> QED
  BY <1>2, <1>4, <1>5
(* The pages of the first k segments, as their segments have them. *)
WrittenUpTo(m, root, k) ==
  \A j \in Segs(k) : \A v \in SegPages(j) :
    Shows(m, root, v, Filled(machine.image.segments[j], v))

LEMMA WrittenOn ==
  ASSUME NEW m, NEW n, NEW root, NEW k, WrittenUpTo(m, root, k), Keeps(m, n, root)
  PROVE  WrittenUpTo(n, root, k)
BY ShowsOn DEF WrittenUpTo

LEMMA LoadElfWrites ==
  ASSUME MachineOk(machine), NEW m, NEW old, NEW pool, NEW root, NEW Q,
         Partly(m, old, pool, root, Q), Bytes(m), NEW n, n = LoadElf(m, root)
  PROVE  Tame(m, n) /\ (n.ok => m.ok /\ WrittenUpTo(n, root, ImageLen))
<1>0. PICK c, seg : c \in Nat /\ seg = machine.image.segments /\ c = Len(seg)
  BY SegmentsAre
<1>1. PICK f : ElfRun(f, m, root)
  BY <1>0, LoadElfSteps
<1>2. /\ f[0] = ElfStart(m) /\ n = f[c]
      /\ \A k \in 1..c : f[k] = ElfStep(f[k - 1], root, k)
  BY <1>0, <1>1 DEF ElfRun
<1> DEFINE Good(e, k) == /\ Tame(m, e) /\ \E R : Partly(e, old, pool, root, R)
                         /\ e.ok => m.ok /\ WrittenUpTo(e, root, k)
           P == {k \in 0..c : Good(f[k], k)}
<1>3. 0 \in P
  <2>1. \A e : WrittenUpTo(e, root, 0)
    BY DEF WrittenUpTo, Segs
  <2>2. Partly(Failed(m), old, pool, root, Q) /\ ~Failed(m).ok
    <3>1. MemOk(m, old, pool) /\ IsMem(m)
      BY DEF Partly, MemOk
    <3>2. MemOk(Failed(m), old, pool) /\ Failed(m).ok = FALSE
      BY <3>1, FailedIs DEF MemOk
    <3> QED
      BY <3>2 DEF Partly
  <2>3. Tame(m, m) /\ Tame(m, Failed(m))
    BY TameSelf, FailedTame
  <2>4. Good(f[0], 0)
    BY <1>2, <2>1, <2>2, <2>3 DEF ElfStart
  <2> HIDE DEF Good
  <2> QED
    BY <1>0, <2>4
<1>4. ASSUME NEW k \in 1..c, k - 1 \in P PROVE k \in P
  <2>1. PICK j, e, e2, s : /\ j \in 0..c /\ j = k - 1 /\ k = j + 1
                           /\ e = f[j] /\ e2 = f[k] /\ s = seg[k]
    BY <1>0
  <2>2. Good(e, j)
    BY <1>4, <2>1
  <2>3. e2 = IF e.ok THEN LoadSegment(e, root, machine.image.len, s) ELSE e
    BY <1>0, <1>2, <2>1 DEF ElfStep
  <2>4. 1..k = 1..j \cup {k}
    BY <2>1
  <2>5. PICK R : Partly(e, old, pool, root, R)
    BY <2>2
  <2>6. Tame(m, e) /\ Bytes(e)
    BY <2>2 DEF Tame
  <2>7. CASE ~e.ok
    <3>1. Good(e2, k)
      BY <2>2, <2>3, <2>7
    <3> HIDE DEF Good
    <3> QED
      BY <2>1, <3>1
  <2>8. CASE e.ok /\ s.kind = "outside"
    <3>1. e2 = Failed(e)
      BY <2>3, <2>8 DEF LoadSegment
    <3>2. MemOk(e, old, pool) /\ IsMem(e)
      BY <2>5 DEF Partly, MemOk
    <3>3. MemOk(e2, old, pool) /\ e2.ok = FALSE
      BY <3>1, <3>2, FailedIs DEF MemOk
    <3>4. Tame(m, e2)
      BY <2>6, <3>1, FailedTame, TameOn
    <3>5. Partly(e2, old, pool, root, R)
      BY <3>3 DEF Partly
    <3>6. Good(e2, k)
      BY <3>3, <3>4, <3>5
    <3> HIDE DEF Good
    <3> QED
      BY <2>1, <3>6
  <2>9. CASE e.ok /\ s.kind = "other"
    <3>1. e2 = e
      BY <2>3, <2>9 DEF LoadSegment
    <3>2. Segs(k) = Segs(j)
      BY <1>0, <2>1, <2>4, <2>9 DEF Segs
    <3>3. Good(e2, k)
      BY <2>2, <3>1, <3>2 DEF WrittenUpTo
    <3> HIDE DEF Good
    <3> QED
      BY <2>1, <3>3
  <2>10. CASE e.ok /\ s.kind = "load"
    <3>0. PICK len : len = machine.image.len
      OBVIOUS
    <3>1. e2 = LoadSegment(e, root, len, s)
      BY <2>3, <2>10, <3>0
    <3>2. Segs(k) = Segs(j) \cup {k} /\ k \in Segs(c)
      BY <1>0, <2>1, <2>4, <2>10 DEF Segs
    <3>3. SegmentPages(s) \in Seq(machine.user) /\ SegPages(k) = Range(SegmentPages(s))
      BY <1>0, <2>1, <3>2, SegmentsAre DEF SegPages
    <3>4. \E S : Partly(e2, old, pool, root, S)
      BY <2>5, <2>10, <3>1, <3>3, LoadSegmentIs
    <3>5. /\ Tame(e, e2)
          /\ e2.ok => /\ e.ok /\ Keeps(e, e2, root)
                      /\ \A v \in SegPages(k) : Shows(e2, root, v, Filled(s, v))
      BY <2>5, <2>6, <2>10, <3>1, <3>3, LoadSegmentWrites
    <3>6. Tame(m, e2)
      BY <2>6, <3>5, TameOn
    <3>7. ASSUME e2.ok PROVE m.ok /\ WrittenUpTo(e2, root, k)
      <4>1. m.ok /\ WrittenUpTo(e, root, j) /\ Keeps(e, e2, root)
        BY <2>2, <3>5, <3>7
      <4>2. WrittenUpTo(e2, root, j)
        BY <4>1, WrittenOn
      <4>3. \A v \in SegPages(k) : Shows(e2, root, v, Filled(machine.image.segments[k], v))
        BY <1>0, <2>1, <3>5, <3>7
      <4> QED
        BY <3>2, <4>1, <4>2, <4>3 DEF WrittenUpTo
    <3>8. Good(e2, k)
      BY <3>4, <3>6, <3>7
    <3> HIDE DEF Good
    <3> QED
      BY <2>1, <3>8
  <2>11. s.kind \in {"load", "other", "outside"}
    BY <1>0, <2>1, SegmentsAre
  <2> QED
    BY <2>7, <2>8, <2>9, <2>10, <2>11
<1>5. c \in P
  <2> HIDE DEF P
  <2>1. c \in Nat
    BY <1>0
  <2>2. \A k \in 0..c : k \in P
    BY <1>3, <1>4, <2>1, Induct
  <2> QED
    BY <2>1, <2>2
<1> QED
  BY <1>0, <1>2, <1>5 DEF ImageLen

-----------------------------------------------------------------------------
(* What is written is the image.                                           *)

LEMMA PairIs ==
  ASSUME NEW x \in Nat, NEW y \in Nat
  PROVE  /\ Min({x, y}) = IF x <= y THEN x ELSE y
         /\ Max({x, y}) = IF x <= y THEN y ELSE x
<1>1. Min({x, y}) \in {x, y} /\ \A z \in {x, y} : Min({x, y}) <= z
  BY MinIs
<1>2. Max({x, y}) \in {x, y} /\ \A z \in {x, y} : z <= Max({x, y})
  BY DEF Max
<1> QED
  BY <1>1, <1>2
LEMMA FilledIs ==
  ASSUME NEW s, s.vaddr \in Nat, s.memsz \in Nat, s.filesz \in Nat, s.offset \in Nat,
         NEW v \in Nat, NEW b \in 0..(PAGE_SIZE - 1), NEW a, a = v * PAGE_SIZE + b
  PROVE  Filled(s, v)[b] = IF Abstract!Supplies(s, a) THEN s.offset + (a - s.vaddr) + 1 ELSE 0
<1>1. PICK size \in Nat \ {0}, x \in Nat, len \in Nat, bytesIn \in Nat, off \in Nat :
        size = PAGE_SIZE /\ x = s.vaddr /\ len = s.memsz /\ bytesIn = s.filesz /\ off = s.offset
  BY VSpaceAssumption
<1>2. PICK page \in Nat : page = v * PAGE_SIZE
  <2>1. v * size \in Nat
    OBVIOUS
  <2> QED
    BY <1>1, <2>1
<1>3. a = page + b /\ b \in 0..(size - 1) /\ a \in Nat
  BY <1>1, <1>2
<1>4. PICK low \in Nat : low = IF bytesIn <= len THEN bytesIn ELSE len
  OBVIOUS
<1>5. PICK from, to \in Nat :
        /\ from = IF page <= x THEN x ELSE page
        /\ to = IF page + size <= x + low THEN page + size ELSE x + low
  BY <1>3
<1>6. Copied(s, v) = [from |-> from, to |-> to, at |-> off + (from - x)]
  <2>1. Min({s.filesz, s.memsz}) = low
    BY <1>1, <1>4, PairIs
  <2>2. Max({page, x}) = from
    BY <1>5, PairIs
  <2>3. Min({page + size, x + low}) = to
    <3>1. PICK y, z \in Nat : y = page + size /\ z = x + low
      OBVIOUS
    <3> QED
      BY <1>5, <3>1, PairIs
  <2> QED
    BY <1>1, <1>2, <2>1, <2>2, <2>3 DEF Copied
<1>7. Filled(s, v)[b] = IF a \in from..(to - 1) THEN (off + (from - x)) + (a - from) + 1 ELSE 0
  <2>1. PICK c : c = Copied(s, v)
    OBVIOUS
  <2>2. c.from = from /\ c.to = to /\ c.at = off + (from - x)
    BY <1>6, <2>1
  <2>3. Filled(s, v) = [d \in 0..(PAGE_SIZE - 1) |->
          IF page + d \in c.from..(c.to - 1) THEN c.at + (page + d - c.from) + 1 ELSE 0]
    BY <1>2, <2>1 DEF Filled
  <2>4. Filled(s, v)[b] =
          IF page + b \in c.from..(c.to - 1) THEN c.at + (page + b - c.from) + 1 ELSE 0
    BY <2>3
  <2>5. page + b = a /\ page + b - from = a - from
    BY <1>3
  <2>6. Filled(s, v)[b] =
          IF a \in from..(to - 1) THEN off + (from - x) + (page + b - from) + 1 ELSE 0
    BY <2>2, <2>4, <2>5
  <2> QED
    BY <2>5, <2>6
<1>8. Abstract!Supplies(s, a) <=> x <= a /\ a < x + len /\ a < x + bytesIn
  BY <1>1 DEF Abstract!Supplies, Abstract!Covers
<1>9. a \in from..(to - 1) <=> x <= a /\ a < x + len /\ a < x + bytesIn
  BY <1>1, <1>3, <1>4, <1>5
<1>10. (off + (from - x)) + (a - from) + 1 = off + (a - x) + 1
  BY <1>1, <1>3, <1>5
<1> QED
  BY <1>1, <1>7, <1>8, <1>9, <1>10
(* The content that a page is wanted to have is what its segment fills in, *)
(* and zeros where no segment lies.                                        *)
LEMMA WantedFilled ==
  ASSUME MachineOk(machine), NEW v \in machine.user, NEW c,
         \/ /\ \E k \in Segs(ImageLen) : v \in SegPages(k)
            /\ \A k \in Segs(ImageLen) :
                 v \in SegPages(k) => c = Filled(machine.image.segments[k], v)
         \/ /\ \A k \in Segs(ImageLen) : v \notin SegPages(k)
            /\ c = NewPage
  PROVE  c = Abstract!PageAt(v)
<1>1. PICK seg, n : seg = machine.image.segments /\ n = ImageLen
  OBVIOUS
<1>2. /\ n \in Nat /\ DOMAIN seg = 1..n /\ v \in Nat
      /\ \A k \in 1..n : seg[k].kind = "load" =>
           /\ seg[k].vaddr \in Nat /\ seg[k].memsz \in Nat
           /\ seg[k].filesz \in Nat /\ seg[k].offset \in Nat
  BY <1>1 DEF MachineOk, ImageLen
<1>3. Abstract!Loads = {seg[k] : k \in Segs(n)}
  <2>1. Abstract!PagesIn(seg) = {seg[k] : k \in 1..n}
    BY <1>2 DEF Abstract!PagesIn
  <2> QED
    BY <1>1, <2>1 DEF Abstract!Loads, Segs
<1>4. \A k \in Segs(n) : k \in 1..n /\ seg[k].kind = "load"
  BY <1>1 DEF Segs
<1>5. ASSUME NEW k \in Segs(n), NEW b \in 0..(PAGE_SIZE - 1), NEW a, a = v * PAGE_SIZE + b
      PROVE  Filled(seg[k], v)[b] = IF Abstract!Supplies(seg[k], a)
                                    THEN seg[k].offset + (a - seg[k].vaddr) + 1 ELSE 0
  <2>1. PICK s : s = seg[k]
    OBVIOUS
  <2>2. s.vaddr \in Nat /\ s.memsz \in Nat /\ s.filesz \in Nat /\ s.offset \in Nat
    BY <1>2, <1>4, <2>1
  <2> QED
    BY <1>2, <1>5, <2>1, <2>2, FilledIs
<1>6. ASSUME NEW k \in Segs(n), NEW b \in 0..(PAGE_SIZE - 1),
             Abstract!Supplies(seg[k], v * PAGE_SIZE + b)
      PROVE  v \in SegPages(k)
  <2>1. PICK a : a = v * PAGE_SIZE + b
    OBVIOUS
  <2>2. a \in Abstract!BytesOf(v)
    <3>1. PICK size \in Nat, page \in Nat : size = PAGE_SIZE /\ page = v * PAGE_SIZE
      <4>1. PICK size \in Nat : size = PAGE_SIZE
        BY VSpaceAssumption
      <4>2. v * size \in Nat
        BY <1>2
      <4> QED
        BY <4>1, <4>2
    <3>2. a = page + b /\ Abstract!BytesOf(v) = page..(page + size - 1)
      BY <2>1, <3>1 DEF Abstract!BytesOf
    <3>3. b \in 0..(size - 1)
      BY <3>1
    <3> QED
      BY <3>1, <3>2, <3>3
  <2>3. Abstract!Covers(seg[k], a)
    BY <1>6, <2>1 DEF Abstract!Supplies
  <2>4. seg[k].vaddr \in Nat /\ seg[k].memsz \in Nat
    BY <1>2, <1>4
  <2> QED
    BY <1>1, <1>2, <2>2, <2>3, <2>4, PagesCover DEF SegPages
<1>7. ASSUME NEW b \in 0..(PAGE_SIZE - 1), NEW a, a = v * PAGE_SIZE + b
      PROVE  c[b] = Abstract!ByteAt(a)
  <2>1. PICK S : S = {s \in Abstract!Loads : Abstract!Supplies(s, a)}
    OBVIOUS
  <2>2. Abstract!ByteAt(a) = IF S = {} THEN 0
                             ELSE (CHOOSE s \in S : TRUE).offset
                                    + (a - (CHOOSE s \in S : TRUE).vaddr) + 1
    BY <2>1 DEF Abstract!ByteAt
  <2>3. CASE S = {}
    <3>1. \A k \in Segs(n) : ~Abstract!Supplies(seg[k], a)
      BY <1>3, <2>1, <2>3
    <3>2. c[b] = 0
      <4>1. CASE c = NewPage
        BY <4>1 DEF NewPage
      <4>2. CASE \E k \in Segs(n) : c = Filled(seg[k], v)
        BY <1>5, <1>7, <3>1, <4>2
      <4> QED
        BY <1>1, <4>1, <4>2
    <3> QED
      BY <2>2, <2>3, <3>2
  <2>4. CASE S # {}
    <3>1. PICK s : s = CHOOSE x \in S : TRUE
      OBVIOUS
    <3>2. s \in S
      BY <2>4, <3>1
    <3>3. PICK k \in Segs(n) : s = seg[k] /\ Abstract!Supplies(seg[k], a)
      BY <1>3, <2>1, <3>2
    <3>4. v \in SegPages(k)
      BY <1>6, <1>7, <3>3
    <3>5. c = Filled(seg[k], v)
      BY <1>1, <3>4
    <3>6. c[b] = s.offset + (a - s.vaddr) + 1
      BY <1>5, <1>7, <3>3, <3>5
    <3> QED
      BY <2>2, <2>4, <3>1, <3>6
  <2> QED
    BY <2>3, <2>4
<1>8. c = [b \in 0..(PAGE_SIZE - 1) |-> c[b]]
  <2>1. \A k : Filled(seg[k], v) = [b \in 0..(PAGE_SIZE - 1) |-> Filled(seg[k], v)[b]]
    BY DEF Filled
  <2>2. NewPage = [b \in 0..(PAGE_SIZE - 1) |-> NewPage[b]]
    BY DEF NewPage
  <2>3. c = NewPage \/ \E k \in Segs(n) : c = Filled(seg[k], v)
    BY <1>1
  <2> QED
    BY <2>1, <2>2, <2>3
<1>9. Abstract!PageAt(v) = [b \in 0..(PAGE_SIZE - 1) |-> Abstract!ByteAt(v * PAGE_SIZE + b)]
  BY DEF Abstract!PageAt
<1> QED
  BY <1>7, <1>8, <1>9
LEMMA BuildWrites ==
  ASSUME MachineOk(machine), NEW m, NEW old, NEW pool, MemOk(m, old, pool),
         m.frames = << >>, Bytes(m), NEW n, n = Build(m, KROOT)
  PROVE  /\ Tame(m, n)
         /\ n.ok => \A root : Rooted(n, root) => \A v \in Abstract!WantedPages :
              v \in machine.user /\ Content(n, root, v) = Abstract!PageAt(v)
<1>1. PICK a : a = AllocFrame(m)
  OBVIOUS
<1>2. MemOk(a, old, pool) /\ Tame(m, a) /\ Bytes(a)
  BY <1>1, AllocIs, AllocTame DEF Tame
<1>3. CASE ~a.ok
  <2>1. n = a
    BY <1>1, <1>3 DEF Build
  <2> QED
    BY <1>2, <1>3, <2>1
<1>4. CASE a.ok
  <2>1. PICK root, b, c : root = a.got /\ b = NewRoot(a, KROOT) /\ c = LoadElf(b, root)
    OBVIOUS
  <2>2. n = LoadStack(c, root)
    BY <1>1, <1>4, <2>1 DEF Build
  <2>3. PICK Q : DOMAIN Q = {} /\ Partly(b, old, pool, root, Q)
    BY <1>1, <1>4, <2>1, NewRootIs
  <2>4. PICK R : Partly(c, old, pool, root, R) /\ (c.ok => b.ok /\ ImageUpTo(R, ImageLen))
    BY <2>1, <2>3, LoadElfIs DEF ImageLen
  <2>5. PICK S : /\ Partly(n, old, pool, root, S)
                 /\ n.ok => c.ok /\ ExtendedBy(R, S, StackSet, USER_RW)
    BY <2>2, <2>4, LoadStackIs DEF StackSet
  <2>6. Tame(m, b) /\ Bytes(b)
    <3>1. b.bytes = a.bytes /\ b.free = a.free
          /\ b = [pt |-> b.pt, bytes |-> b.bytes, free |-> b.free, frames |-> b.frames,
                  got |-> b.got, at |-> b.at, ok |-> b.ok]
      BY <1>2, <2>1 DEF NewRoot, Bytes
    <3>2. Tame(a, b)
      BY <1>2, <3>1, TameSame
    <3> QED
      BY <1>2, <3>2, TameOn DEF Tame
  <2>7. Tame(m, c) /\ Bytes(c) /\ (c.ok => WrittenUpTo(c, root, ImageLen))
    <3>1. Tame(b, c) /\ (c.ok => WrittenUpTo(c, root, ImageLen))
      BY <2>1, <2>3, <2>6, LoadElfWrites
    <3> QED
      BY <2>6, <3>1, TameOn DEF Tame
  <2>8. /\ Tame(m, n)
        /\ n.ok => /\ Keeps(c, n, root)
                   /\ \A v \in StackSet : Shows(n, root, v, NewPage)
    <3>1. /\ Tame(c, n)
          /\ n.ok => /\ Keeps(c, n, root)
                     /\ \A v \in StackSet : Shows(n, root, v, NewPage)
      BY <2>2, <2>4, <2>7, LoadStackWrites
    <3> QED
      BY <2>7, <3>1, TameOn
  <2>9. ASSUME n.ok, NEW v \in Abstract!WantedPages
        PROVE  v \in machine.user /\ Content(n, root, v) = Abstract!PageAt(v)
    <3>1. ImageUpTo(R, ImageLen) /\ ExtendedBy(R, S, StackSet, USER_RW) /\ Whole(S)
      BY <2>4, <2>5, <2>9 DEF Whole
    <3>2. v \in DOMAIN R \/ v \in StackSet
      <4>1. v \in DOMAIN S
        BY <2>9, <3>1, WantedIs
      <4> QED
        BY <3>1, <4>1 DEF ExtendedBy
    <3>3. WrittenUpTo(n, root, ImageLen)
      BY <2>5, <2>7, <2>8, <2>9, WrittenOn
    <3>4. CASE v \in StackSet
      <4>1. \A k \in Segs(ImageLen) : v \notin SegPages(k)
        BY <3>1, <3>4 DEF ExtendedBy, ImageUpTo
      <4>2. v \in machine.user /\ Content(n, root, v) = NewPage
        BY <2>8, <2>9, <3>4 DEF Shows
      <4> QED
        BY <4>1, <4>2, WantedFilled
    <3>5. CASE v \in DOMAIN R
      <4>1. PICK k \in Segs(ImageLen) : v \in SegPages(k)
        BY <3>1, <3>5 DEF ImageUpTo
      <4>2. PICK c2 : c2 = Content(n, root, v)
        OBVIOUS
      <4>3. /\ v \in machine.user
            /\ \A j \in Segs(ImageLen) :
                 v \in SegPages(j) => c2 = Filled(machine.image.segments[j], v)
        BY <3>3, <4>1, <4>2 DEF WrittenUpTo, Shows
      <4> QED
        BY <4>1, <4>2, <4>3, WantedFilled
    <3> QED
      BY <3>2, <3>4, <3>5
  <2>10. ASSUME n.ok, NEW x, Rooted(n, x) PROVE x = root
    <3>1. Rooted(n, root)
      BY <2>5, <2>10 DEF Partly, Loaded, Held
    <3> QED
      BY <2>10, <3>1 DEF Rooted
  <2> QED
    BY <2>8, <2>9, <2>10
<1> QED
  BY <1>3, <1>4

-----------------------------------------------------------------------------
(* New memory is new.                                                      *)

BytesOk == bytes = [f \in AllFrames |-> bytes[f]]

(* The step of FreshMemory.                                               *)
Fresh ==
  /\ \A p \in Procs : space[p] = 0 /\ space'[p] # 0 =>
       \A v \in Abstract!WantedPages :
         bytes'[LeafOf(pt', space'[p], v).frame] = Abstract!PageAt(v)
  /\ \A i \in 1..MAX_REGIONS : ~regions[i].live /\ regions'[i].live =>
       \A f \in Range(regions'[i].frames) : bytes'[f] = NewPage

LEMMA BytesHere ==
  ASSUME SpacesInv, BytesOk, NEW p \in Procs
  PROVE  MachineOk(machine) /\ Bytes(MemoryFor(p))
<1>1. free \subseteq General
  BY DEF SpacesInv, FramesOk
<1> QED
  BY <1>1, MachineFacts DEF SpacesInv, Bytes, BytesOk, MemoryFor

LEMMA TameHere ==
  ASSUME machine' = machine, NEW m, NEW n, Tame(m, n), bytes' = n.bytes
  PROVE  BytesOk'
<1>1. AllFrames' = AllFrames
  BY Rigid
<1> QED
  BY <1>1 DEF BytesOk, Tame, Bytes

LEMMA LoadFresh ==
  ASSUME SpacesInv, BytesOk, NEW p \in Procs, LoadProcess(p)
  PROVE  BytesOk' /\ Fresh
<1>1. BuildOk /\ FramesOk /\ SlotsOk /\ Trees
  BY DEF SpacesInv
<1>2. PICK m0, m, old, pool : /\ m0 = [MemoryFor(p) EXCEPT !.frames = << >>]
                              /\ m = Build(m0, KROOT) /\ old = pt /\ pool = Pool(p)
  OBVIOUS
<1>3. /\ Worked(p, Outcome(p)) /\ machine' = machine /\ frames[p] = << >>
      /\ \/ UNCHANGED process
         \/ /\ SpaceOk(Outcome(p), space'[p], pt) /\ space'[p] # 0 /\ Outcome(p).ok
            /\ Built(Outcome(p), space'[p], pt)
            /\ space' = [space EXCEPT ![p] = space'[p]]
  BY <1>1, LoadIs
<1>4. m0 = MemoryFor(p) /\ m0.frames = << >>
  BY <1>2, <1>3 DEF MemoryFor
<1>5. MachineOk(machine) /\ Bytes(m0) /\ MemOk(m0, old, pool)
  BY <1>1, <1>2, <1>4, BytesHere, MemoryIs
<1>6. /\ Tame(m0, m)
      /\ m.ok => \A root : Rooted(m, root) => \A v \in Abstract!WantedPages :
           v \in machine.user /\ Content(m, root, v) = Abstract!PageAt(v)
  BY <1>2, <1>4, <1>5, BuildWrites
<1>7. bytes' = m.bytes /\ regions' = regions
  BY <1>2 DEF LoadProcess, shared
<1>8. BytesOk'
  BY <1>3, <1>6, <1>7, TameHere
<1>9. CASE UNCHANGED process
  BY <1>7, <1>8, <1>9 DEF Fresh, process
<1>10. CASE /\ SpaceOk(Outcome(p), space'[p], pt) /\ space'[p] # 0 /\ Outcome(p).ok
            /\ Built(Outcome(p), space'[p], pt)
            /\ space' = [space EXCEPT ![p] = space'[p]]
  <2>1. m.ok /\ Outcome(p) = m
    <3>1. m = [pt |-> m.pt, bytes |-> m.bytes, free |-> m.free, frames |-> m.frames,
               got |-> m.got, at |-> m.at, ok |-> m.ok]
      BY <1>6 DEF Tame, Bytes
    <3>2. [m EXCEPT !.free = @ \cup Range(m.frames), !.frames = << >>].ok = m.ok
      BY <3>1
    <3> QED
      BY <1>2, <1>10, <3>2 DEF Outcome
  <2>2. PICK root : root = space'[p]
    OBVIOUS
  <2>3. Rooted(m, root)
    BY <1>10, <2>1, <2>2 DEF Built
  <2>4. \A v \in machine.user : LeafOf(pt', space'[p], v) = Leaves(m, root)[v]
    BY <1>1, <1>3, <1>10, <2>1, <2>2, WorkedSelf
  <2>5. \A v \in Abstract!WantedPages :
          bytes'[LeafOf(pt', space'[p], v).frame] = Abstract!PageAt(v)
    BY <1>6, <1>7, <2>1, <2>3, <2>4 DEF Content
  <2>6. \A q \in Procs : q # p => space'[q] = space[q]
    BY <1>1, <1>10 DEF SlotsOk
  <2>7. \A q \in Procs : space[q] = 0 /\ space'[q] # 0 => q = p
    BY <2>6
  <2> QED
    BY <1>7, <1>8, <2>5, <2>7 DEF Fresh
<1> QED
  BY <1>3, <1>9, <1>10

(* Nothing comes into being. *)
LEMMA QuietFresh ==
  ASSUME SpacesInv, machine' = machine, space' = space,
         \A i \in 1..MAX_REGIONS : regions'[i].live => regions[i].live,
         bytes' = bytes \/ bytes' = [f \in AllFrames |-> bytes'[f]], BytesOk
  PROVE  BytesOk' /\ Fresh
<1>1. AllFrames' = AllFrames
  BY Rigid
<1> QED
  BY <1>1 DEF BytesOk, Fresh

LEMMA MakeRegionFresh ==
  ASSUME SpacesInv, BytesOk, NEW n \in 1..REGION_MAX_PAGES, MakeRegion(n)
  PROVE  BytesOk' /\ Fresh
<1>1. PICK i, got, F : i \in 1..MAX_REGIONS /\ Makes(n, i, got, F)
  BY MakeRegionIs
<1>2. /\ got \subseteq Arena /\ Range(F) = got /\ machine' = machine /\ space' = space
      /\ bytes' = [f \in AllFrames |-> IF f \in got THEN NewPage ELSE bytes[f]]
      /\ regions' = [regions EXCEPT ![i] =
                       [live |-> TRUE, id |-> nextRegion, owner |-> id[current], frames |-> F]]
  BY <1>1 DEF Makes, process
<1>3. Arena \subseteq AllFrames /\ AllFrames' = AllFrames
  BY <1>2, MachineFacts, FramesAre, Rigid DEF SpacesInv
<1>4. \A f \in got : bytes'[f] = NewPage
  BY <1>2, <1>3
<1>5. regions = [j \in 1..MAX_REGIONS |-> regions[j]]
  BY DEF SpacesInv, RegionsOk
<1>6. regions'[i].frames = F /\ \A j \in 1..MAX_REGIONS : j # i => regions'[j] = regions[j]
  BY <1>1, <1>2, <1>5
<1>7. BytesOk'
  BY <1>2, <1>3 DEF BytesOk
<1>8. \A j \in 1..MAX_REGIONS : ~regions[j].live /\ regions'[j].live =>
        \A f \in Range(regions'[j].frames) : bytes'[f] = NewPage
  <2> SUFFICES ASSUME NEW j \in 1..MAX_REGIONS, ~regions[j].live, regions'[j].live
               PROVE  \A f \in Range(regions'[j].frames) : bytes'[f] = NewPage
    OBVIOUS
  <2>1. j = i
    BY <1>6
  <2> QED
    BY <1>2, <1>4, <1>6, <2>1
<1> QED
  BY <1>2, <1>7, <1>8 DEF Fresh

(* A mapping writes to the frames it takes, and brings nothing into being. *)
LEMMA RemapFresh ==
  ASSUME SpacesInv, BytesOk, NEW p \in Procs, NEW w, NEW F, Len(F) \in Nat, NEW perms,
         bytes' = Remap(p, w, F, perms).bytes,
         machine' = machine, space' = space, regions' = regions
  PROVE  BytesOk' /\ Fresh
<1>1. PICK m, n : m = MemoryFor(p) /\ n = Remap(p, w, F, perms)
  OBVIOUS
<1>2. Tame(m, n)
  BY <1>1, BytesHere, RemapTame
<1>3. BytesOk'
  BY <1>1, <1>2, TameHere
<1> QED
  BY <1>3 DEF Fresh

LEMMA MapDeviceFresh ==
  ASSUME SpacesInv, BytesOk, NEW write, MapDevice(write)
  PROVE  BytesOk' /\ Fresh
<1>1. PICK perms, F : /\ F = <<DEVICE>>
                      /\ bytes' = Remap(current, DeviceWindow, F, perms).bytes
  BY DEF MapDevice, Takes
<1>2. machine' = machine /\ space' = space /\ regions' = regions /\ current \in Procs
  BY DEF MapDevice, shared, InCall, SpacesInv, CpuOk, Live
<1>3. Len(F) \in Nat
  BY <1>1
<1>4. PICK p, w : p = current /\ w = DeviceWindow
  OBVIOUS
<1> QED
  BY <1>1, <1>2, <1>3, <1>4, RemapFresh

LEMMA MapRegionFresh ==
  ASSUME SpacesInv, BytesOk, NEW i \in 1..MAX_REGIONS, NEW write, MapRegion(i, write)
  PROVE  BytesOk' /\ Fresh
<1>1. PICK perms, w, F : /\ F = regions[i].frames
                         /\ bytes' = Remap(current, w, F, perms).bytes
  BY DEF MapRegion, Takes
<1>2. machine' = machine /\ space' = space /\ regions' = regions /\ current \in Procs
      /\ regions[i].live
  BY DEF MapRegion, shared, InCall, SpacesInv, CpuOk, Live
<1>3. Len(F) \in Nat
  BY <1>1, <1>2 DEF SpacesInv, RegionsOk, RegionOk
<1>4. PICK p : p = current
  OBVIOUS
<1> QED
  BY <1>1, <1>2, <1>3, <1>4, RemapFresh

LEMMA ReapFresh ==
  ASSUME SpacesInv, BytesOk, Reap
  PROVE  BytesOk' /\ Fresh
<1>1. machine' = machine /\ bytes' = bytes /\ regions' = regions
  BY DEF Reap, shared
<1>2. \A p \in Procs : space'[p] = space[p] \/ space'[p] = 0
  BY ReapShows DEF SpacesInv, SlotsOk
<1>3. AllFrames' = AllFrames
  BY <1>1, Rigid
<1> QED
  BY <1>1, <1>2, <1>3 DEF BytesOk, Fresh

LEMMA ReleaseFresh ==
  ASSUME SpacesInv, BytesOk, RunRelease
  PROVE  BytesOk' /\ Fresh
<1>1. machine' = machine /\ bytes' = bytes /\ space' = space
  BY DEF RunRelease, memory, process
<1>2. \E gone : regions' = [i \in 1..MAX_REGIONS |->
                              IF i \in gone THEN NoRegion ELSE regions[i]]
  BY DEF RunRelease
<1>3. \A i \in 1..MAX_REGIONS : regions'[i].live => regions[i].live
  BY <1>2 DEF NoRegion
<1> QED
  BY <1>1, <1>3, QuietFresh

LEMMA FreshInit ==
  ASSUME Init
  PROVE  BytesOk
BY DEF Init, BytesOk

LEMMA FreshStep ==
  SpacesInv /\ BytesOk /\ [Next]_vars => BytesOk' /\ [Fresh]_vars
<1> SUFFICES ASSUME SpacesInv, BytesOk, [Next]_vars PROVE BytesOk' /\ Fresh
  OBVIOUS
<1>1. CASE Boot
  <2>1. PICK p : p = nextId
    OBVIOUS
  <2>2. p \in 1..NUM_PROCS /\ LoadProcess(p)
    BY <1>1, <2>1, SpacesAssumption DEF Boot, SpacesInv, CpuOk
  <2>3. p \in Procs
    BY <2>2, SpacesAssumption DEF Procs
  <2> QED
    BY <2>2, <2>3, LoadFresh
<1>2. CASE Spawn
  <2>1. PICK p : p = Min(Procs \ Live)
    OBVIOUS
  <2>2. p \in Procs
    <3>1. Procs \ Live \subseteq Nat /\ Procs \ Live # {}
      BY <1>2, SpacesAssumption DEF Spawn, Procs, Live
    <3> QED
      BY <2>1, <3>1, MinIs
  <2>3. LoadProcess(p)
    BY <1>2, <2>1 DEF Spawn
  <2> QED
    BY <2>2, <2>3, LoadFresh
<1>3. ASSUME machine' = machine, space' = space, regions' = regions,
             bytes' = bytes \/ bytes' = [f \in AllFrames |-> bytes'[f]]
      PROVE  BytesOk' /\ Fresh
  BY <1>3, QuietFresh
<1>4. CASE \/ Start \/ \E p \in Procs : Resume(p) \/ UnmapDevice(p)
           \/ \E p \in Procs, r \in 1..MaxRegionId : UnmapRegion(p, r)
           \/ RunUnmap \/ RunForgetCaps \/ UNCHANGED vars
  BY <1>3, <1>4 DEF Start, Resume, UnmapDevice, UnmapRegion, RunUnmap, RunForgetCaps, vars,
                    memory, process, shared
<1>5. CASE Exit \/ \E i \in 1..MAX_REGIONS : FreeRegion(i)
  <2>1. /\ machine' = machine /\ space' = space /\ regions' = regions
        /\ bytes' = Scribbled(active)
    BY <1>5 DEF Exit, FreeRegion, process, shared
  <2>2. bytes' = [f \in AllFrames |-> bytes'[f]]
    BY <2>1 DEF Scribbled
  <2> QED
    BY <1>3, <2>1, <2>2
<1>6. ASSUME NEW write \in machine.rights, MapDevice(write) PROVE BytesOk' /\ Fresh
  BY <1>6, MapDeviceFresh
<1>7. ASSUME NEW n \in 1..REGION_MAX_PAGES, MakeRegion(n) PROVE BytesOk' /\ Fresh
  BY <1>7, MakeRegionFresh
<1>8. ASSUME NEW i \in 1..MAX_REGIONS, NEW write \in machine.rights, MapRegion(i, write)
      PROVE  BytesOk' /\ Fresh
  BY <1>8, MapRegionFresh
<1>9. CASE RunRelease
  BY <1>9, ReleaseFresh
<1>10. CASE Reap
  BY <1>10, ReapFresh
<1> QED
  BY <1>1, <1>2, <1>4, <1>5, <1>6, <1>7, <1>8, <1>9, <1>10 DEF Next, Syscall

(* New memory is new: `RecordingAlloc::alloc_frame` hands out only zeroed  *)
(* frames, `load_segment` writes into them what the image supplies and     *)
(* nothing else, `load_process` leaves the stack zeroed, and MAKE_REGION   *)
(* zeroes its frames of the arena.  Whatever a dead process left in a      *)
(* frame, nobody who is given the frame finds it.                          *)
THEOREM MemoryFresh == Spec => FreshMemory
<1>1. Init => BytesOk
  BY FreshInit
<1>2. SpacesInv /\ BytesOk /\ [Next]_vars => [Fresh]_vars
  BY FreshStep
<1>3. SpacesInv /\ BytesOk /\ [Next]_vars => BytesOk'
  BY FreshStep
<1> QED
  BY <1>1, <1>2, <1>3, SpacesAlways, PTL DEF Spec, FreshMemory, Fresh
=============================================================================
