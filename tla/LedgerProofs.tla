---------------------------- MODULE LedgerProofs ----------------------------
(***************************************************************************)
(* The loops of crates/deleg compute the operators of Ledger, and the      *)
(* ledger knows exactly the derivations that happened, for every capacity  *)
(* of the array and every number of processes and root capabilities.       *)
(*                                                                         *)
(* The edges form a forest: authority goes to processes younger than the   *)
(* giver, and nobody has a capability from two sources.  That is what the  *)
(* comment of `splice_out` asks for, and it gives the proofs an order to   *)
(* go by, the age of the processes.                                        *)
(***************************************************************************)
EXTENDS LedgerTable, FiniteSetTheorems, SequenceTheorems, TLAPS

Ends == [proc : Procs, id : Nat, cap : RootCaps \cup {0}]
Edges == [live : {TRUE}, parent : Ends, child : Ends]

(* The capabilities H with their derivations A. *)
World(H, A, n) ==
  /\ n \in Nat
  /\ H \subseteq Ends
  /\ \A c \in H : c.id < n /\ (c.id # 0 => c.cap = 0)
  /\ A \in [H -> SUBSET H]
  /\ \A c \in H : \A d \in A[c] : A[d] \subseteq A[c]

(* The edges E say what the derivations are. *)
Forest(E, H, A) ==
  /\ E \subseteq [parent : H, child : H]
  /\ SingleSource(E)
  /\ \A e \in E : /\ e.parent.id < e.child.id
                  /\ A[e.child] = A[e.parent] \cup {e.parent}
  /\ \A c \in H : c \notin Children(E) => A[c] = {}

(* The array, in which no two slots have the same child. *)
ArrayOK(tab) ==
  /\ tab \in [0..(N - 1) -> {DEAD} \cup Edges]
  /\ \A j, k \in LiveSlots(tab) : tab[j].child = tab[k].child => j = k

(* `revoke_from`, in the middle of a round. *)
Revoking ==
  /\ subject \in held
  /\ out \in Seq(Ends) /\ IsFiniteSet(OutSet) /\ Cardinality(OutSet) = Len(out)
  /\ OutSet \subseteq Reach(before, subject)
  /\ LiveEdges(edges) \subseteq before
  /\ \A e \in LiveEdges(edges) : e.child \notin OutSet
  /\ \A e \in before \ LiveEdges(edges) :
       e.child \in OutSet /\ (e.parent = subject \/ e.parent \in OutSet)
  /\ ~progress => \A k \in 0..(i - 1) : edges[k].live => ~Reached(edges[k])

(* `splice_out`: the edge into the dead process is still to come, or it    *)
(* was met and what hung below hangs above now.                            *)
Lifted(E, end) ==
  {e \in E : e.parent # end /\ e.child # end}
    \cup {Edge(x[1].parent, x[2].child) :
            x \in {x \in E \X E : x[1].child = end /\ x[2].parent = end}}
Splicing ==
  /\ subject \in Ends /\ subject.cap = 0
  /\ \/ LiveEdges(edges) = before
        /\ \A k \in 0..(i - 1) : edges[k].live => edges[k].child # subject
     \/ /\ \E e \in before : e.child = subject
        /\ LiveEdges(edges) = Lifted(before, subject)

LedgerInv ==
  /\ World(held, ancestors, nextId)
  /\ ArrayOK(edges)
  /\ pc \in {"idle", "revoke", "splice"} /\ i \in 0..N /\ progress \in BOOLEAN
  /\ Forest(IF Idle THEN LiveEdges(edges) ELSE before, held, ancestors)
  /\ pc = "revoke" => Revoking
  /\ pc = "splice" => Splicing

-----------------------------------------------------------------------------
(* What is reached, as a least closed set. *)

LEMMA ReachClosed ==
  ASSUME NEW E, NEW root
  PROVE  Reach(E, root) \subseteq Children(E) /\ ClosedFrom(E, root, Reach(E, root))
<1>1. ASSUME NEW e \in E, e.parent = root \/ e.parent \in Reach(E, root)
      PROVE  e.child \in Reach(E, root)
  <2>1. e.child \in Children(E)
    BY DEF Children
  <2>2. ASSUME NEW S \in SUBSET Children(E), ClosedFrom(E, root, S)
        PROVE  e.child \in S
    <3>1. e.parent = root \/ e.parent \in S
      BY <1>1, <2>2 DEF Reach
    <3> QED
      BY <2>2, <3>1 DEF ClosedFrom
  <2> QED
    BY <2>1, <2>2 DEF Reach
<1>2. Reach(E, root) \subseteq Children(E)
  BY DEF Reach
<1> QED
  BY <1>1, <1>2 DEF ClosedFrom

LEMMA ReachLeast ==
  ASSUME NEW E, NEW root, NEW S, ClosedFrom(E, root, S)
  PROVE  Reach(E, root) \subseteq S
<1> DEFINE T == S \cap Children(E)
<1>1. ClosedFrom(E, root, T)
  BY DEF ClosedFrom, Children
<1>2. T \in SUBSET Children(E)
  OBVIOUS
<1>3. ASSUME NEW c \in Reach(E, root) PROVE c \in T
  BY <1>1, <1>2 DEF Reach
<1> QED
  BY <1>3

(* A set of numbers that is not empty has a least member. *)
LEMMA LeastOf ==
  ASSUME NEW S \in SUBSET Nat, S # {}
  PROVE  \E n \in S : \A m \in S : n <= m
<1>1. \E n \in S : \A m \in S : ~(<<m, n>> \in OpToRel(<, Nat))
  BY NatLessThanWellFounded, WFMin
<1>2. \A m, n \in Nat : m < n => <<m, n>> \in OpToRel(<, Nat)
  BY DEF OpToRel
<1>3. PICK n \in S : \A m \in S : ~(m < n)
  BY <1>1, <1>2
<1> QED
  BY <1>3

(* In a forest what is reached from a is what has a among its ancestors:   *)
(* the youngest process for which it fails would have an older source for  *)
(* which it holds.                                                         *)
LEMMA ForestReach ==
  ASSUME NEW E, NEW H, NEW A, NEW n, World(H, A, n), Forest(E, H, A), NEW a \in H
  PROVE  Reach(E, a) = {c \in H : a \in A[c]}
<1> DEFINE D == {c \in H : a \in A[c]}
<1>1. ClosedFrom(E, a, D)
  BY DEF ClosedFrom, World, Forest
<1>2. Reach(E, a) \subseteq D
  BY <1>1, ReachLeast
<1>3. ASSUME NEW b \in D, b \notin Reach(E, a) PROVE FALSE
  <2> DEFINE Missed == {c \in D : c \notin Reach(E, a)}
             S == {c.id : c \in Missed}
  <2>1. S \in SUBSET Nat /\ S # {}
    BY <1>3 DEF World, Ends
  <2>2. PICK m \in S : \A k \in S : m <= k
    BY <2>1, LeastOf
  <2>3. PICK c \in Missed : c.id = m
    BY <2>2
  <2>4. c \in Children(E)
    BY <2>3 DEF Forest
  <2>5. PICK e \in E : e.child = c
    BY <2>4 DEF Children
  <2>6. /\ e.parent \in H /\ e.child \in H /\ e.parent.id < e.child.id
        /\ A[e.child] = A[e.parent] \cup {e.parent}
        /\ e.parent.id \in Nat /\ e.child.id \in Nat
    BY DEF Forest, World, Ends
  <2>7. e.parent = a \/ e.parent \in Reach(E, a)
    <3>1. CASE e.parent = a
      BY <3>1
    <3>2. CASE e.parent # a
      <4>1. e.parent \in D
        BY <2>3, <2>5, <2>6, <3>2
      <4>2. e.parent \notin Missed
        <5> SUFFICES ASSUME e.parent \in Missed PROVE FALSE
          OBVIOUS
        <5>1. e.parent.id \in S
          OBVIOUS
        <5>2. m <= e.parent.id
          BY <2>2, <5>1
        <5> QED
          BY <2>3, <2>5, <2>6, <5>2
      <4> QED
        BY <4>1, <4>2
    <3> QED
      BY <3>1, <3>2
  <2>8. e.child \in Reach(E, a)
    BY <2>7, ReachClosed DEF ClosedFrom
  <2> QED
    BY <2>3, <2>5, <2>8
<1> QED
  BY <1>2, <1>3

-----------------------------------------------------------------------------
(* The array and the edges it stands for. *)

LEMMA LiveEdgesAre ==
  ASSUME NEW tab, ArrayOK(tab)
  PROVE  /\ \A k \in LiveSlots(tab) :
              /\ k \in 0..(N - 1) /\ tab[k] \in Edges
              /\ Edge(tab[k].parent, tab[k].child) \in LiveEdges(tab)
         /\ \A k \in 0..(N - 1) \ LiveSlots(tab) : tab[k] = DEAD
         /\ \A e \in LiveEdges(tab) : \E k \in LiveSlots(tab) :
              e = Edge(tab[k].parent, tab[k].child)
         /\ SingleSource(LiveEdges(tab))
<1>1. \A k \in 0..(N - 1) : tab[k] \in {DEAD} \cup Edges
  BY DEF ArrayOK
<1>2. ~DEAD.live /\ \A x \in Edges : x.live
  BY DEF DEAD, Edges
<1>3. SingleSource(LiveEdges(tab))
  BY DEF ArrayOK, SingleSource, LiveEdges, Edge
<1> QED
  BY <1>1, <1>2, <1>3 DEF LiveSlots, LiveEdges

LEMMA KillOK ==
  ASSUME NEW tab, ArrayOK(tab), NEW K
  PROVE  /\ ArrayOK(Kill(tab, K))
         /\ LiveSlots(Kill(tab, K)) = LiveSlots(tab) \ K
         /\ \A k \in LiveSlots(tab) \ K : Kill(tab, K)[k] = tab[k]
         /\ LiveEdges(Kill(tab, K)) =
              {Edge(tab[k].parent, tab[k].child) : k \in LiveSlots(tab) \ K}
<1>1. \A k \in 0..(N - 1) : Kill(tab, K)[k] = IF k \in K THEN DEAD ELSE tab[k]
  BY DEF Kill
<1>2. LiveSlots(Kill(tab, K)) = LiveSlots(tab) \ K
  BY <1>1 DEF LiveSlots, DEAD
<1>3. \A k \in LiveSlots(tab) \ K : Kill(tab, K)[k] = tab[k]
  BY <1>1 DEF LiveSlots
<1>4. Kill(tab, K) \in [0..(N - 1) -> {DEAD} \cup Edges]
  BY DEF Kill, ArrayOK
<1>5. ArrayOK(Kill(tab, K))
  BY <1>2, <1>3, <1>4 DEF ArrayOK
<1>6. LiveEdges(Kill(tab, K)) =
        {Edge(tab[k].parent, tab[k].child) : k \in LiveSlots(tab) \ K}
  BY <1>2, <1>3 DEF LiveEdges
<1> QED
  BY <1>2, <1>3, <1>5, <1>6

-----------------------------------------------------------------------------
(* The kernel's operations on a quiet ledger.                              *)

LEMMA InitInv == Init => LedgerInv
<1> SUFFICES ASSUME Init PROVE LedgerInv
  OBVIOUS
<1>1. World(held, ancestors, nextId)
  BY TableAssumption DEF Init, World, Ends, End
<1>2. ArrayOK(edges) /\ LiveSlots(edges) = {}
  BY DEF Init, ArrayOK, LiveSlots, DEAD
<1>3. LiveEdges(edges) = {}
  BY <1>2 DEF LiveEdges
<1>4. Forest({}, held, ancestors)
  BY DEF Init, Forest, SingleSource
<1>5. pc = "idle" /\ i \in 0..N
  BY TableAssumption DEF Init
<1>6. progress \in BOOLEAN
  BY DEF Init
<1> QED
  BY <1>1, <1>2, <1>3, <1>4, <1>5, <1>6 DEF LedgerInv, Idle

(* A slot for one more edge. *)
LEMMA FirstDead ==
  ASSUME ArrayOK(edges), Cardinality(LiveSlots(edges)) < N,
         NEW k, k = CHOOSE x \in 0..(N - 1) :
                      ~edges[x].live /\ \A j \in 0..(x - 1) : edges[j].live
  PROVE  k \in 0..(N - 1) /\ ~edges[k].live
<1> DEFINE Dead == {x \in 0..(N - 1) : ~edges[x].live}
<1>1. IsFiniteSet(0..(N - 1)) /\ Cardinality(0..(N - 1)) = N
  BY FS_Interval, TableAssumption
<1>2. Dead # {}
  <2> SUFFICES ASSUME Dead = {} PROVE FALSE
    OBVIOUS
  <2>1. LiveSlots(edges) = 0..(N - 1)
    BY DEF LiveSlots
  <2> QED
    BY <1>1, <2>1, TableAssumption
<1>3. PICK n \in Dead : \A m \in Dead : n <= m
  <2>1. Dead \in SUBSET Nat
    BY TableAssumption
  <2> QED
    BY <1>2, <2>1, LeastOf
<1>4. \A j \in 0..(n - 1) : edges[j].live
  BY <1>3, TableAssumption
<1> QED
  BY <1>3, <1>4

LEMMA RecordInv ==
  ASSUME LedgerInv, NEW parent \in held, NEW p \in Procs, Record(parent, p)
  PROVE  LedgerInv'
<1> DEFINE child == End(p, nextId, 0)
<1>0. /\ Idle /\ World(held, ancestors, nextId) /\ ArrayOK(edges)
      /\ Forest(LiveEdges(edges), held, ancestors)
  BY DEF LedgerInv, Record
<1>1. PICK k : k = CHOOSE x \in 0..(N - 1) :
                     ~edges[x].live /\ \A j \in 0..(x - 1) : edges[j].live
  OBVIOUS
<1>2. k \in 0..(N - 1) /\ ~edges[k].live
  BY <1>0, <1>1, FirstDead DEF Record
<1>3. /\ edges' = [edges EXCEPT ![k] = Live(parent, child)]
      /\ held' = held \cup {child}
      /\ ancestors' = [c \in held \cup {child} |->
              IF c = child THEN ancestors[parent] \cup {parent} ELSE ancestors[c]]
      /\ nextId' = nextId + 1 /\ UNCHANGED loop
  BY <1>1 DEF Record
<1>4. /\ child \in Ends /\ child.id = nextId /\ child.cap = 0 /\ child.proc = p
      /\ nextId \in Nat /\ child \notin held /\ parent \in Ends
  BY <1>0 DEF World, End, Ends
<1> HIDE DEF child
<1>5. World(held', ancestors', nextId')
  <2>1. ancestors' \in [held' -> SUBSET held']
    BY <1>0, <1>3 DEF World
  <2>2. ASSUME NEW c \in held', NEW d \in ancestors'[c]
        PROVE  ancestors'[d] \subseteq ancestors'[c]
    <3>1. CASE c = child
      <4>1. d \in held /\ (d = parent \/ d \in ancestors[parent])
        BY <1>0, <1>3, <2>2, <3>1 DEF World
      <4>2. ancestors[d] \subseteq ancestors[parent]
        BY <1>0, <4>1 DEF World
      <4> QED
        BY <1>3, <1>4, <3>1, <4>1, <4>2
    <3>2. CASE c # child
      <4>1. c \in held /\ d \in ancestors[c] /\ d \in held
        BY <1>0, <1>3, <2>2, <3>2 DEF World
      <4>2. ancestors[d] \subseteq ancestors[c]
        BY <1>0, <4>1 DEF World
      <4> QED
        BY <1>3, <1>4, <4>1, <4>2
    <3> QED
      BY <3>1, <3>2
  <2>3. \A c \in held' : c.id < nextId' /\ (c.id # 0 => c.cap = 0)
    BY <1>0, <1>3, <1>4 DEF World, Ends
  <2>4. held' \subseteq Ends /\ nextId' \in Nat
    BY <1>0, <1>3, <1>4 DEF World
  <2> QED
    BY <2>1, <2>2, <2>3, <2>4 DEF World
<1>6. LiveSlots(edges') = LiveSlots(edges) \cup {k}
  BY <1>0, <1>2, <1>3 DEF LiveSlots, Live, ArrayOK
<1>7. /\ edges'[k] = Live(parent, child)
      /\ \A j \in LiveSlots(edges) : edges'[j] = edges[j] /\ j # k
  BY <1>0, <1>2, <1>3 DEF LiveSlots, ArrayOK
<1>8. \A j \in LiveSlots(edges) : edges[j].child \in held
  <2>1. \A j \in LiveSlots(edges) :
          Edge(edges[j].parent, edges[j].child) \in LiveEdges(edges)
    BY DEF LiveEdges
  <2>2. \A e \in LiveEdges(edges) : e.child \in held
    BY <1>0 DEF Forest
  <2> QED
    BY <2>1, <2>2 DEF Edge
<1>9. ArrayOK(edges')
  <2>1. edges' \in [0..(N - 1) -> {DEAD} \cup Edges]
    <3>1. Live(parent, child) \in Edges
      BY <1>4 DEF Live, Edges
    <3> QED
      BY <1>0, <1>3, <3>1 DEF ArrayOK
  <2>2. ASSUME NEW j \in LiveSlots(edges'), NEW l \in LiveSlots(edges'),
               edges'[j].child = edges'[l].child
        PROVE  j = l
    BY <1>0, <1>4, <1>6, <1>7, <1>8, <2>2 DEF ArrayOK, Live
  <2> QED
    BY <2>1, <2>2 DEF ArrayOK
<1>10. LiveEdges(edges') = LiveEdges(edges) \cup {Edge(parent, child)}
  BY <1>6, <1>7 DEF LiveEdges, Live
<1>11. Forest(LiveEdges(edges'), held', ancestors')
  <2> DEFINE E == LiveEdges(edges)
             new == Edge(parent, child)
  <2>0. new.parent = parent /\ new.child = child /\ new \in [parent : held', child : held']
    BY <1>3 DEF Edge
  <2>1. E \cup {new} \subseteq [parent : held', child : held']
    BY <1>0, <1>3, <2>0 DEF Forest
  <2>2. SingleSource(E \cup {new})
    BY <1>0, <1>4, <2>0 DEF Forest, SingleSource
  <2>3. ASSUME NEW e \in E \cup {new}
        PROVE  /\ e.parent.id < e.child.id
               /\ ancestors'[e.child] = ancestors'[e.parent] \cup {e.parent}
    <3>1. CASE e \in E
      <4>1. e.parent \in held /\ e.child \in held
        BY <1>0, <3>1 DEF Forest
      <4> QED
        BY <1>0, <1>3, <1>4, <3>1, <4>1 DEF Forest
    <3>2. CASE e = new
      BY <1>0, <1>3, <1>4, <2>0, <3>2 DEF World
    <3> QED
      BY <3>1, <3>2
  <2>4. ASSUME NEW c \in held', c \notin Children(E \cup {new})
        PROVE  ancestors'[c] = {}
    <3>1. c # child /\ c \notin Children(E)
      BY <2>0, <2>4 DEF Children
    <3> QED
      BY <1>0, <1>3, <2>4, <3>1 DEF Forest
  <2> QED
    BY <1>10, <2>1, <2>2, <2>3, <2>4 DEF Forest
<1> QED
  BY <1>0, <1>3, <1>5, <1>9, <1>11 DEF LedgerInv, Idle, loop

(* A refilled slot is a capability like one of the boot. *)
LEMMA RefillInv ==
  ASSUME LedgerInv, NEW c \in RootCaps, Refill(c)
  PROVE  LedgerInv'
<1> DEFINE new == End(0, 0, c)
<1>0. /\ Idle /\ World(held, ancestors, nextId) /\ ArrayOK(edges)
      /\ Forest(LiveEdges(edges), held, ancestors)
  BY DEF LedgerInv, Refill
<1>1. /\ new \notin held /\ held' = held \cup {new}
      /\ ancestors' = [d \in held \cup {new} |-> IF d = new THEN {} ELSE ancestors[d]]
      /\ UNCHANGED <<edges, loop, nextId>>
  BY DEF Refill, table
<1>2. /\ new \in Ends /\ new.id = 0
      /\ \E d \in held : d.id = 0
  BY TableAssumption DEF Refill, SameProc, End, Ends
<1> HIDE DEF new
<1>3. World(held', ancestors', nextId')
  <2>1. nextId' = nextId /\ 0 < nextId /\ nextId \in Nat
    BY <1>0, <1>1, <1>2 DEF World
  <2>2. ancestors' \in [held' -> SUBSET held']
    BY <1>0, <1>1 DEF World
  <2>3. ASSUME NEW a \in held', NEW d \in ancestors'[a]
        PROVE  ancestors'[d] \subseteq ancestors'[a]
    <3>1. a \in held /\ d \in ancestors[a] /\ d \in held
      BY <1>0, <1>1, <2>3 DEF World
    <3> QED
      BY <1>0, <1>1, <3>1 DEF World
  <2>4. held' \subseteq Ends
    BY <1>0, <1>1, <1>2 DEF World
  <2>5. \A a \in held' : a.id < nextId' /\ (a.id # 0 => a.cap = 0)
    BY <1>0, <1>1, <1>2, <2>1 DEF World
  <2> QED
    BY <2>1, <2>2, <2>3, <2>4, <2>5 DEF World
<1>4. Forest(LiveEdges(edges), held', ancestors')
  <2> DEFINE E == LiveEdges(edges)
  <2>1. \A e \in E : e.parent \in held /\ e.child \in held
    BY <1>0 DEF Forest
  <2>2. \A e \in E : /\ e.parent.id < e.child.id
                     /\ ancestors'[e.child] = ancestors'[e.parent] \cup {e.parent}
    BY <1>0, <1>1, <2>1 DEF Forest
  <2>3. E \subseteq [parent : held', child : held'] /\ SingleSource(E)
    BY <1>0, <1>1 DEF Forest
  <2>4. \A d \in held' : d \notin Children(E) => ancestors'[d] = {}
    BY <1>0, <1>1 DEF Forest
  <2> QED
    BY <2>2, <2>3, <2>4 DEF Forest
<1> QED
  BY <1>0, <1>1, <1>3, <1>4 DEF LedgerInv, Idle, loop

(* Emptying capabilities together with all that was derived from them      *)
(* leaves a forest.                                                        *)
Kept(A, H, Gone) == [c \in H \ Gone |-> A[c] \ Gone]

LEMMA Prune ==
  ASSUME NEW E, NEW H, NEW A, NEW n, World(H, A, n), Forest(E, H, A),
         NEW Gone, \A c \in H, d \in Gone : d \in A[c] => c \in Gone
  PROVE  /\ World(H \ Gone, Kept(A, H, Gone), n)
         /\ Forest({e \in E : e.child \notin Gone}, H \ Gone, Kept(A, H, Gone))
<1> DEFINE B == Kept(A, H, Gone)
           F == {e \in E : e.child \notin Gone}
           J == H \ Gone
<1>1. \A c \in J : B[c] = A[c]
  BY DEF Kept
<1>2. B \in [J -> SUBSET J]
  BY DEF Kept, World
<1> HIDE DEF B
<1>3. World(J, B, n)
  BY <1>1, <1>2 DEF World
<1>4. \A e \in E : e.parent \in H /\ e.child \in H /\ e.parent \in A[e.child]
  BY DEF Forest
<1>5. \A e \in F : e.parent \in J /\ e.child \in J
  BY <1>4
<1>6. F \subseteq [parent : J, child : J]
  <2>1. \A e \in F : e \in [parent : H, child : H]
    BY DEF Forest
  <2> QED
    BY <1>5, <2>1
<1>7. SingleSource(F)
  BY DEF SingleSource, Forest
<1>8. \A e \in F : /\ e.parent.id < e.child.id
                   /\ B[e.child] = B[e.parent] \cup {e.parent}
  BY <1>1, <1>5 DEF Forest
<1>9. ASSUME NEW c \in J, c \notin Children(F) PROVE B[c] = {}
  <2>1. c \notin Children(E)
    BY <1>9 DEF Children
  <2> QED
    BY <1>1, <2>1 DEF Forest
<1> QED
  BY <1>3, <1>6, <1>7, <1>8, <1>9 DEF Forest, B

LEMMA ForgetInv ==
  ASSUME LedgerInv, NEW root \in held, ForgetTree(root)
  PROVE  LedgerInv'
<1> DEFINE tree == {root} \cup {c \in held : root \in ancestors[c]}
           K == {k \in LiveSlots(edges) :
                   edges[k].parent \in tree \/ edges[k].child \in tree}
           E == LiveEdges(edges)
<1>0. /\ Idle /\ World(held, ancestors, nextId) /\ ArrayOK(edges)
      /\ Forest(E, held, ancestors)
  BY DEF LedgerInv, ForgetTree
<1>1. /\ ancestors[root] = {} /\ edges' = Kill(edges, K)
      /\ held' = held \ tree /\ ancestors' = Kept(ancestors, held, tree)
      /\ UNCHANGED <<loop, nextId>>
  BY DEF ForgetTree, Without, Kept
<1>2. \A c \in held, d \in tree : d \in ancestors[c] => c \in tree
  BY <1>0 DEF World
<1>3. \A e \in E : /\ e.parent \in held /\ e.child \in held
                   /\ e.parent \in ancestors[e.child]
                   /\ e.child # root
  BY <1>0, <1>1 DEF Forest
<1>4. \A e \in E : e.parent \in tree => e.child \in tree
  BY <1>2, <1>3
<1>5. LiveEdges(edges') = {e \in E : e.child \notin tree}
  <2>1. LiveEdges(edges') = {Edge(edges[k].parent, edges[k].child) :
                               k \in LiveSlots(edges) \ K}
    BY <1>0, <1>1, KillOK
  <2>2. E = {Edge(edges[k].parent, edges[k].child) : k \in LiveSlots(edges)}
    BY DEF LiveEdges
  <2>3. \A k \in LiveSlots(edges) :
          k \in K <=> Edge(edges[k].parent, edges[k].child).child \in tree
    <3> SUFFICES ASSUME NEW k \in LiveSlots(edges)
                 PROVE  edges[k].parent \in tree => edges[k].child \in tree
      BY DEF Edge
    <3>1. Edge(edges[k].parent, edges[k].child) \in E
      BY <2>2
    <3> QED
      BY <1>4, <3>1 DEF Edge
  <2> HIDE DEF K, E, tree
  <2> QED
    BY <2>1, <2>2, <2>3
<1>6. ArrayOK(edges')
  BY <1>0, <1>1, KillOK
<1>7. World(held', ancestors', nextId') /\ Forest(LiveEdges(edges'), held', ancestors')
  <2> HIDE DEF tree, E
  <2> QED
    BY <1>0, <1>1, <1>2, <1>5, Prune
<1> QED
  BY <1>0, <1>1, <1>6, <1>7 DEF LedgerInv, Idle, loop

-----------------------------------------------------------------------------
(* `revoke_from`.                                                          *)

LEMMA BeginRevokeInv ==
  ASSUME LedgerInv, NEW root \in held, BeginRevoke(root)
  PROVE  LedgerInv'
<1>0. /\ Idle /\ World(held, ancestors, nextId) /\ ArrayOK(edges)
      /\ Forest(LiveEdges(edges), held, ancestors)
  BY DEF LedgerInv, BeginRevoke
<1>1. /\ pc' = "revoke" /\ i' = 0 /\ progress' = FALSE /\ out' = << >>
      /\ subject' = root /\ before' = LiveEdges(edges)
      /\ edges' = edges /\ held' = held /\ ancestors' = ancestors
      /\ nextId' = nextId
  BY DEF BeginRevoke, table, world
<1>2. OutSet' = {}
  BY <1>1 DEF OutSet
<1>3. IsFiniteSet(OutSet') /\ Cardinality(OutSet') = 0
  BY <1>2, FS_EmptySet
<1>4. Revoking'
  BY <1>1, <1>2, <1>3 DEF Revoking
<1>5. progress' \in BOOLEAN
  BY <1>1
<1>6. i' \in 0..N
  BY <1>1, TableAssumption
<1> QED
  BY <1>0, <1>1, <1>4, <1>5, <1>6 DEF LedgerInv, Idle

LEMMA RevokeEdgeInv ==
  ASSUME LedgerInv, RevokeEdge
  PROVE  LedgerInv'
<1>0. /\ pc = "revoke" /\ World(held, ancestors, nextId) /\ ArrayOK(edges)
      /\ Forest(before, held, ancestors) /\ Revoking
      /\ i \in 0..(N - 1)
  BY TableAssumption DEF LedgerInv, RevokeEdge, Idle
<1>1. /\ i' = i + 1 /\ i' \in 0..N /\ pc' = pc /\ subject' = subject /\ before' = before
      /\ held' = held /\ ancestors' = ancestors /\ nextId' = nextId
  BY <1>0, TableAssumption DEF RevokeEdge, world
<1>2. SUFFICES ArrayOK(edges') /\ Revoking' /\ progress' \in BOOLEAN
  BY <1>0, <1>1 DEF LedgerInv, Idle
<1>3. CASE ~(edges[i].live /\ Reached(edges[i]))
  <2>1. edges' = edges /\ out' = out /\ progress' = progress
    BY <1>3 DEF RevokeEdge
  <2>2. OutSet' = OutSet
    BY <2>1 DEF OutSet
  <2>3. ASSUME ~progress, NEW k \in 0..(i' - 1), edges[k].live
        PROVE  ~Reached(edges[k])'
    <3>1. k = i \/ k \in 0..(i - 1)
      BY <1>0, <1>1
    <3>2. ~Reached(edges[k])
      BY <1>0, <1>3, <2>3, <3>1 DEF Revoking
    <3> QED
      BY <1>1, <2>1, <3>2 DEF Reached
  <2>4. Revoking'
    BY <1>0, <1>1, <2>1, <2>2, <2>3 DEF Revoking
  <2>5. progress' \in BOOLEAN
    BY <2>1 DEF LedgerInv
  <2> QED
    BY <1>0, <2>1, <2>4, <2>5
<1>4. CASE edges[i].live /\ Reached(edges[i])
  <2> DEFINE e == Edge(edges[i].parent, edges[i].child)
  <2>1. /\ edges' = Kill(edges, {i}) /\ out' = Append(out, edges[i].child)
        /\ progress' = TRUE
    BY <1>4 DEF RevokeEdge
  <2>2. i \in LiveSlots(edges)
    BY <1>0, <1>4 DEF LiveSlots
  <2>3. edges[i] \in Edges /\ e \in LiveEdges(edges)
    BY <1>0, <2>2, LiveEdgesAre
  <2>4. e.parent = edges[i].parent /\ e.child = edges[i].child /\ e.child \in Ends
    BY <2>3 DEF Edge, Edges
  <2> HIDE DEF e
  <2>5. OutSet' = OutSet \cup {e.child}
    <3>1. out \in Seq(Ends)
      BY <1>0 DEF Revoking
    <3>2. /\ Len(out') = Len(out) + 1 /\ Len(out) \in Nat
          /\ \A k \in 1..Len(out) : out'[k] = out[k]
          /\ out'[Len(out) + 1] = e.child
      BY <2>1, <2>4, <3>1
    <3> QED
      BY <3>2 DEF OutSet
  <2>6. e.parent = subject \/ e.parent \in OutSet
    BY <1>4, <2>4 DEF Reached, OutSet
  <2>7. e.child \notin OutSet
    BY <1>0, <2>3 DEF Revoking
  <2>8. /\ IsFiniteSet(OutSet') /\ Cardinality(OutSet') = Len(out')
        /\ out' \in Seq(Ends)
    <3>1. Cardinality(OutSet') = Cardinality(OutSet) + 1 /\ IsFiniteSet(OutSet')
      BY <1>0, <2>5, <2>7, FS_AddElement DEF Revoking
    <3>2. out' \in Seq(Ends) /\ Len(out') = Len(out) + 1
      BY <1>0, <2>1, <2>4 DEF Revoking
    <3> QED
      BY <1>0, <3>1, <3>2 DEF Revoking
  <2>9. e.child \in Reach(before, subject)
    <3>1. e \in before /\ OutSet \subseteq Reach(before, subject)
      BY <1>0, <2>3 DEF Revoking
    <3> QED
      BY <2>6, <3>1, ReachClosed DEF ClosedFrom
  <2>10. LiveEdges(edges') = LiveEdges(edges) \ {e} /\ ArrayOK(edges')
    <3>1. LiveEdges(edges') = {Edge(edges[k].parent, edges[k].child) :
                                 k \in LiveSlots(edges) \ {i}}
      BY <1>0, <2>1, KillOK
    <3>2. \A k \in LiveSlots(edges) \ {i} : Edge(edges[k].parent, edges[k].child) # e
      BY <1>0, <2>2, <2>4 DEF ArrayOK, Edge
    <3>3. LiveEdges(edges) = {Edge(edges[k].parent, edges[k].child) :
                                k \in LiveSlots(edges)}
      BY DEF LiveEdges
    <3>4. e = Edge(edges[i].parent, edges[i].child)
      BY DEF e
    <3>5. ArrayOK(edges')
      BY <1>0, <2>1, KillOK
    <3> QED
      BY <2>2, <3>1, <3>2, <3>3, <3>4, <3>5
  <2>11. \A d \in LiveEdges(edges') : d.child \notin OutSet'
    <3>1. SingleSource(LiveEdges(edges))
      BY <1>0, LiveEdgesAre
    <3> QED
      BY <1>0, <2>3, <2>5, <2>10, <3>1 DEF Revoking, SingleSource
  <2>12. \A d \in before \ LiveEdges(edges') :
           d.child \in OutSet' /\ (d.parent = subject \/ d.parent \in OutSet')
    BY <1>0, <2>5, <2>6, <2>10 DEF Revoking
  <2>13. Revoking'
    <3>1. subject \in held /\ OutSet' \subseteq Reach(before, subject)
          /\ LiveEdges(edges') \subseteq before
      BY <1>0, <2>5, <2>9, <2>10 DEF Revoking
    <3> QED
      BY <1>1, <2>1, <2>8, <2>11, <2>12, <3>1 DEF Revoking
  <2> QED
    BY <2>1, <2>10, <2>13
<1> QED
  BY <1>3, <1>4

LEMMA NextRoundInv ==
  ASSUME LedgerInv, NextRound
  PROVE  LedgerInv'
<1>1. /\ pc = "revoke" /\ pc' = pc /\ i' = 0 /\ progress' = FALSE
      /\ edges' = edges /\ out' = out /\ subject' = subject /\ before' = before
      /\ held' = held /\ ancestors' = ancestors /\ nextId' = nextId
  BY DEF NextRound, table, world
<1>2. OutSet' = OutSet
  BY <1>1 DEF OutSet
<1>3. Revoking'
  BY <1>1, <1>2 DEF Revoking, LedgerInv
<1>4. progress' \in BOOLEAN
  BY <1>1
<1>5. i' \in 0..N
  BY <1>1, TableAssumption
<1> QED
  BY <1>1, <1>3, <1>4, <1>5 DEF LedgerInv, Idle

(* A round without progress: what was reached is closed. *)
LEMMA RevokeDone ==
  ASSUME LedgerInv, pc = "revoke", i = N, ~progress
  PROVE  /\ OutSet = Reach(before, subject)
         /\ LiveEdges(edges) = RevokeFrom(before, subject)
         /\ LiveEdges(edges) = {e \in before : e.child \notin OutSet}
<1>0. ArrayOK(edges) /\ Revoking
  BY DEF LedgerInv
<1>1. ASSUME NEW e \in LiveEdges(edges)
      PROVE  e.parent # subject /\ e.parent \notin OutSet
  <2>1. PICK k \in LiveSlots(edges) : e = Edge(edges[k].parent, edges[k].child)
    BY <1>0, LiveEdgesAre
  <2>2. k \in 0..(i - 1) /\ edges[k].live
    BY <2>1 DEF LiveSlots
  <2>3. ~Reached(edges[k])
    BY <1>0, <2>2 DEF Revoking
  <2> QED
    BY <2>1, <2>3 DEF Reached, OutSet, Edge
<1>2. ClosedFrom(before, subject, OutSet)
  BY <1>0, <1>1 DEF Revoking, ClosedFrom
<1>3. OutSet = Reach(before, subject)
  BY <1>0, <1>2, ReachLeast DEF Revoking
<1>4. LiveEdges(edges) = RevokeFrom(before, subject)
  BY <1>0, <1>1, <1>3 DEF Revoking, RevokeFrom
<1>5. LiveEdges(edges) = {e \in before : e.child \notin OutSet}
  BY <1>0 DEF Revoking
<1> QED
  BY <1>3, <1>4, <1>5

LEMMA EndRevokeInv ==
  ASSUME LedgerInv, EndRevoke
  PROVE  LedgerInv'
<1>0. /\ World(held, ancestors, nextId) /\ ArrayOK(edges) /\ subject \in held
      /\ Forest(before, held, ancestors)
      /\ OutSet = Reach(before, subject)
      /\ LiveEdges(edges) = {e \in before : e.child \notin OutSet}
  BY RevokeDone DEF LedgerInv, EndRevoke, Idle, Revoking
<1>1. /\ pc' = "idle" /\ i' = 0 /\ progress' = progress /\ edges' = edges
      /\ held' = held \ OutSet /\ ancestors' = Kept(ancestors, held, OutSet)
      /\ nextId' = nextId
  BY DEF EndRevoke, Without, OutSet, Kept, table
<1>2. OutSet = {c \in held : subject \in ancestors[c]}
  BY <1>0, ForestReach
<1>3. \A c \in held, d \in OutSet : d \in ancestors[c] => c \in OutSet
  BY <1>0, <1>2 DEF World
<1>4. /\ World(held', ancestors', nextId')
      /\ Forest(LiveEdges(edges'), held', ancestors')
  <2> HIDE <1>2
  <2> QED
    BY <1>0, <1>1, <1>3, Prune
<1>5. i' \in 0..N
  BY <1>1, TableAssumption
<1> QED
  BY <1>0, <1>1, <1>4, <1>5 DEF LedgerInv, Idle

-----------------------------------------------------------------------------
(* `splice_out`.                                                           *)

(* What an edge of a forest may rely on. *)
LEMMA ForestEdge ==
  ASSUME NEW E, NEW H, NEW A, NEW n, World(H, A, n), Forest(E, H, A), NEW e \in E
  PROVE  /\ e = Edge(e.parent, e.child)
         /\ e.parent \in H /\ e.child \in H /\ e.parent \in Ends /\ e.child \in Ends
         /\ e.parent.id \in Nat /\ e.child.id \in Nat /\ e.parent.id < e.child.id
         /\ e.child.cap = 0
<1>1. /\ e.parent \in H /\ e.child \in H /\ e.parent.id < e.child.id
      /\ e = [parent |-> e.parent, child |-> e.child]
  BY DEF Forest
<1>2. e.parent \in Ends /\ e.child \in Ends
  BY <1>1 DEF World
<1>3. e.parent.id \in Nat /\ e.child.id \in Nat
  BY <1>2 DEF Ends
<1>4. e.child.cap = 0
  BY <1>1, <1>3 DEF World
<1> QED
  BY <1>1, <1>2, <1>3, <1>4 DEF Edge

(* A delegated capability of a process is the only one it has from others. *)
LEMMA OnlyOne ==
  ASSUME NEW c \in Ends, NEW d \in Ends, c.cap = 0, d.cap = 0
  PROVE  SameProc(c, d.proc, d.id) <=> c = d
BY DEF Ends, SameProc

LEMMA BeginSpliceInv ==
  ASSUME LedgerInv, NEW c \in held, BeginSplice(c)
  PROVE  LedgerInv'
<1>0. /\ Idle /\ World(held, ancestors, nextId) /\ ArrayOK(edges)
      /\ Forest(LiveEdges(edges), held, ancestors)
  BY DEF LedgerInv, BeginSplice
<1>1. /\ pc' = "splice" /\ i' = 0 /\ progress' = progress
      /\ subject' = [c EXCEPT !.cap = 0] /\ before' = LiveEdges(edges)
      /\ edges' = edges /\ held' = held /\ ancestors' = ancestors
      /\ nextId' = nextId
  BY DEF BeginSplice, table, world
<1>2. subject' \in Ends /\ subject'.cap = 0
  BY <1>0, <1>1 DEF World, Ends
<1>3. Splicing'
  BY <1>1, <1>2 DEF Splicing
<1>4. i' \in 0..N
  BY <1>1, TableAssumption
<1> QED
  BY <1>0, <1>1, <1>3, <1>4 DEF LedgerInv, Idle

(* Once lifted, nothing leads into the dead process. *)
LEMMA LiftedAbove ==
  ASSUME NEW E, NEW H, NEW A, NEW n, World(H, A, n), Forest(E, H, A),
         NEW end \in Ends, NEW f \in Lifted(E, end)
  PROVE  /\ f.child # end /\ f.parent # end
         /\ f.child \in Ends /\ f.child.cap = 0
<1>1. CASE f \in {e \in E : e.parent # end /\ e.child # end}
  BY <1>1, ForestEdge
<1>2. CASE f \in {Edge(x[1].parent, x[2].child) :
                    x \in {x \in E \X E : x[1].child = end /\ x[2].parent = end}}
  <2>1. PICK d \in E, e \in E : /\ d.child = end /\ e.parent = end
                                /\ f = Edge(d.parent, e.child)
    BY <1>2
  <2>2. f.parent = d.parent /\ f.child = e.child
    BY <2>1 DEF Edge
  <2>3. /\ d.parent.id \in Nat /\ d.child.id \in Nat /\ d.parent.id < d.child.id
        /\ e.parent.id \in Nat /\ e.child.id \in Nat /\ e.parent.id < e.child.id
        /\ e.child \in Ends /\ e.child.cap = 0
    BY ForestEdge
  <2> QED
    BY <2>1, <2>2, <2>3
<1> QED
  BY <1>1, <1>2 DEF Lifted

LEMMA SpliceEdgeInv ==
  ASSUME LedgerInv, SpliceEdge
  PROVE  LedgerInv'
<1>0. /\ pc = "splice" /\ World(held, ancestors, nextId) /\ ArrayOK(edges)
      /\ Forest(before, held, ancestors) /\ Splicing
      /\ i \in 0..(N - 1) /\ subject \in Ends /\ subject.cap = 0
  BY TableAssumption DEF LedgerInv, SpliceEdge, Idle, Splicing
<1>1. /\ i' = i + 1 /\ i' \in 0..N /\ pc' = pc /\ subject' = subject /\ before' = before
      /\ held' = held /\ ancestors' = ancestors /\ nextId' = nextId
      /\ progress' = progress
  BY <1>0, TableAssumption DEF SpliceEdge, world
<1>2. SUFFICES ArrayOK(edges') /\ Splicing'
  BY <1>0, <1>1 DEF LedgerInv, Idle
<1> DEFINE inc == edges[i]
<1>3. ASSUME inc.live PROVE /\ i \in LiveSlots(edges)
                            /\ Edge(inc.parent, inc.child) \in LiveEdges(edges)
                            /\ inc.child \in Ends /\ inc.child.cap = 0
                            /\ inc.child = subject =>
                                 /\ LiveEdges(edges) = before
                                 /\ \A k \in 0..(i - 1) : edges[k].live
                                                => edges[k].child # subject
  <2>1. i \in LiveSlots(edges)
    BY <1>0, <1>3 DEF LiveSlots
  <2>2. Edge(inc.parent, inc.child) \in LiveEdges(edges)
    BY <2>1 DEF LiveEdges
  <2>3. Edge(inc.parent, inc.child).child = inc.child
    BY DEF Edge
  <2>4. CASE /\ LiveEdges(edges) = before
             /\ \A k \in 0..(i - 1) : edges[k].live => edges[k].child # subject
    BY <1>0, <2>1, <2>2, <2>3, <2>4, ForestEdge
  <2>5. CASE LiveEdges(edges) = Lifted(before, subject)
    BY <1>0, <2>1, <2>2, <2>3, <2>5, LiftedAbove
  <2> QED
    BY <1>0, <2>4, <2>5 DEF Splicing
<1>4. CASE ~(inc.live /\ SameProc(inc.child, subject.proc, subject.id))
  <2>1. edges' = edges
    BY <1>4 DEF SpliceEdge
  <2>2. edges[i].live => edges[i].child # subject
    BY <1>4 DEF SameProc
  <2>3. CASE /\ LiveEdges(edges) = before
             /\ \A k \in 0..(i - 1) : edges[k].live => edges[k].child # subject
    <3>1. \A k \in 0..(i' - 1) : edges[k].live => edges[k].child # subject
      BY <1>0, <1>1, <2>2, <2>3
    <3> QED
      BY <1>0, <1>1, <2>1, <2>3, <3>1 DEF Splicing
  <2>4. CASE /\ \E e \in before : e.child = subject
             /\ LiveEdges(edges) = Lifted(before, subject)
    BY <1>0, <1>1, <2>1, <2>4 DEF Splicing
  <2> QED
    BY <1>0, <2>3, <2>4 DEF Splicing
<1>5. CASE inc.live /\ SameProc(inc.child, subject.proc, subject.id)
  <2>1. inc.child = subject
    BY <1>0, <1>3, <1>5, OnlyOne
  <2>2. /\ LiveEdges(edges) = before /\ i \in LiveSlots(edges)
        /\ Edge(inc.parent, inc.child) \in before
    BY <1>3, <1>5, <2>1
  <2>3. edges' = [k \in 0..(N - 1) |->
                   IF k = i THEN DEAD
                   ELSE IF edges[k].live /\ edges[k].parent = inc.child
                   THEN Live(inc.parent, edges[k].child)
                   ELSE edges[k]]
    BY <1>5 DEF SpliceEdge
  <2>4. inc \in Edges
    BY <1>0, <2>2, LiveEdgesAre
  <2> DEFINE e1 == Edge(inc.parent, inc.child)
             new(k) == IF edges[k].parent = subject
                       THEN Edge(inc.parent, edges[k].child)
                       ELSE Edge(edges[k].parent, edges[k].child)
  <2>5. LiveSlots(edges') = LiveSlots(edges) \ {i}
    BY <2>3 DEF LiveSlots, DEAD, Live
  <2>6. \A k \in LiveSlots(edges') : /\ edges'[k].child = edges[k].child
                                     /\ Edge(edges'[k].parent, edges'[k].child) = new(k)
    BY <2>1, <2>3, <2>5 DEF LiveSlots, Live
  <2>7. ArrayOK(edges')
    <3>1. ASSUME NEW k \in 0..(N - 1) PROVE edges'[k] \in {DEAD} \cup Edges
      <4>1. edges[k] \in {DEAD} \cup Edges
        BY <1>0 DEF ArrayOK
      <4>2. edges[k].live => edges[k] \in Edges
        BY <4>1 DEF DEAD
      <4>3. edges[k].live => Live(inc.parent, edges[k].child) \in Edges
        BY <2>4, <4>2 DEF Live, Edges
      <4> QED
        BY <2>3, <4>1, <4>3
    <3>2. edges' \in [0..(N - 1) -> {DEAD} \cup Edges]
      BY <2>3, <3>1
    <3> QED
      BY <1>0, <2>5, <2>6, <3>2 DEF ArrayOK
  <2>8. LiveEdges(edges') = {new(k) : k \in LiveSlots(edges) \ {i}}
    BY <2>5, <2>6 DEF LiveEdges
  <2>9. \A k \in LiveSlots(edges) :
          Edge(edges[k].parent, edges[k].child) \in before
    BY <2>2 DEF LiveEdges
  <2>10. \A e \in before : \E k \in LiveSlots(edges) :
           e = Edge(edges[k].parent, edges[k].child)
    BY <2>2 DEF LiveEdges
  <2>11. ASSUME NEW k \in LiveSlots(edges) \ {i} PROVE new(k) \in Lifted(before, subject)
    <3> DEFINE e == Edge(edges[k].parent, edges[k].child)
    <3>1. e \in before /\ e.parent = edges[k].parent /\ e.child = edges[k].child
      BY <2>9 DEF Edge
    <3>2. e.child # subject
      BY <1>0, <2>1, <2>2, <3>1 DEF ArrayOK
    <3>3. CASE e.parent = subject
      <4>1. /\ <<e1, e>> \in before \X before /\ e1.child = subject
            /\ e1.parent = inc.parent
        BY <2>1, <2>2, <3>1 DEF Edge
      <4>2. new(k) = Edge(<<e1, e>>[1].parent, <<e1, e>>[2].child)
        BY <3>1, <3>3, <4>1
      <4>3. <<e1, e>> \in {x \in before \X before :
                              x[1].child = subject /\ x[2].parent = subject}
        BY <3>3, <4>1
      <4> HIDE DEF new, e, e1
      <4> QED
        BY <4>2, <4>3 DEF Lifted
    <3>4. CASE e.parent # subject
      <4>1. new(k) = e
        BY <3>1, <3>4
      <4> QED
        BY <3>1, <3>2, <3>4, <4>1 DEF Lifted
    <3> QED
      BY <3>3, <3>4
  <2>12. ASSUME NEW f \in Lifted(before, subject)
         PROVE  \E k \in LiveSlots(edges) \ {i} : f = new(k)
    <3>1. CASE f \in {e \in before : e.parent # subject /\ e.child # subject}
      <4>1. PICK k \in LiveSlots(edges) : f = Edge(edges[k].parent, edges[k].child)
        BY <2>10, <3>1
      <4>2. f.parent = edges[k].parent /\ f.child = edges[k].child
        BY <4>1 DEF Edge
      <4>3. k # i /\ new(k) = f
        BY <2>1, <3>1, <4>1, <4>2
      <4> QED
        BY <4>3
    <3>2. CASE f \in {Edge(x[1].parent, x[2].child) :
                        x \in {x \in before \X before :
                                 x[1].child = subject /\ x[2].parent = subject}}
      <4>1. PICK d \in before, e \in before : /\ d.child = subject /\ e.parent = subject
                                              /\ f = Edge(d.parent, e.child)
        BY <3>2
      <4>2. d = e1
        <5>1. e1 \in before /\ e1.child = subject
          BY <2>1, <2>2 DEF Edge
        <5>2. SingleSource(before)
          BY <1>0 DEF Forest
        <5> QED
          BY <4>1, <5>1, <5>2 DEF SingleSource
      <4>3. PICK k \in LiveSlots(edges) : e = Edge(edges[k].parent, edges[k].child)
        BY <2>10
      <4>4. e.parent = edges[k].parent /\ e.child = edges[k].child
        BY <4>3 DEF Edge
      <4>5. k # i
        <5>1. e.parent.id < e.child.id /\ e.parent.id \in Nat
          BY <1>0, ForestEdge
        <5> QED
          BY <2>1, <4>1, <4>4, <5>1
      <4>6. f = new(k)
        BY <4>1, <4>2, <4>4 DEF Edge
      <4> QED
        BY <4>5, <4>6
    <3> QED
      BY <3>1, <3>2 DEF Lifted
  <2>13. LiveEdges(edges') = Lifted(before, subject)
    <3> HIDE DEF new
    <3> QED
      BY <2>8, <2>11, <2>12
  <2>14. e1 \in before /\ e1.child = subject
    BY <2>1, <2>2 DEF Edge
  <2> HIDE DEF e1, new, inc
  <2>15. Splicing'
    BY <1>0, <1>1, <2>13, <2>14 DEF Splicing
  <2> QED
    BY <2>7, <2>15
<1> QED
  BY <1>4, <1>5

(* What goes with a dead process, and the edges it does not root. *)
Dying(H, end) == {c \in H : SameProc(c, end.proc, end.id)}
Unrooted(E, end) == {e \in E : ~SameProc(e.parent, end.proc, end.id)}

(* A process that had nothing from others: what it gave becomes a root.    *)
LEMMA SpliceRoot ==
  ASSUME NEW E, NEW H, NEW A, NEW n, World(H, A, n), Forest(E, H, A),
         NEW end \in Ends, end.cap = 0, \A e \in E : e.child # end
  PROVE  /\ Unrooted(E, end) = SpliceOut(E, end.proc, end.id)
         /\ World(H \ Dying(H, end), Kept(A, H, Dying(H, end)), n)
         /\ Forest(Unrooted(E, end), H \ Dying(H, end), Kept(A, H, Dying(H, end)))
<1> DEFINE Gone == Dying(H, end)
           J == H \ Gone
           B == Kept(A, H, Gone)
           F == Unrooted(E, end)
<1>1. \A e \in E : /\ e.parent \in H /\ e.child \in H
                   /\ ~SameProc(e.child, end.proc, end.id)
  BY ForestEdge, OnlyOne
<1>2. F = SpliceOut(E, end.proc, end.id)
  BY <1>1 DEF Unrooted, SpliceOut
<1>3. \A e \in F : e \in E /\ e.parent \in J /\ e.child \in J
  BY <1>1 DEF Unrooted, Dying
<1>4. \A c \in J : c \in H /\ B[c] = A[c] \ Gone
  BY DEF Kept
<1>5. B \in [J -> SUBSET J]
  BY DEF Kept, World
<1> HIDE DEF B, Gone
<1>6. World(J, B, n)
  <2>1. \A c \in J : \A d \in B[c] : B[d] \subseteq B[c]
    BY <1>4, <1>5 DEF World
  <2> QED
    BY <1>5, <2>1 DEF World
<1>7. F \subseteq [parent : J, child : J]
  <2>1. \A e \in F : e \in [parent : H, child : H]
    BY <1>3 DEF Forest
  <2> QED
    BY <1>3, <2>1
<1>8. SingleSource(F)
  BY <1>3 DEF SingleSource, Forest
<1>9. ASSUME NEW e \in F
      PROVE  e.parent.id < e.child.id /\ B[e.child] = B[e.parent] \cup {e.parent}
  <2>1. e.parent.id < e.child.id /\ A[e.child] = A[e.parent] \cup {e.parent}
    BY <1>3 DEF Forest
  <2>2. e.parent \notin Gone
    BY <1>3
  <2> QED
    BY <1>3, <1>4, <2>1, <2>2
<1>10. ASSUME NEW c \in J, c \notin Children(F) PROVE B[c] = {}
  <2>1. CASE c \notin Children(E)
    BY <1>4, <2>1 DEF Forest
  <2>2. CASE c \in Children(E)
    <3>1. PICK e \in E : e.child = c
      BY <2>2 DEF Children
    <3>2. SameProc(e.parent, end.proc, end.id) /\ e.parent \in Gone
      BY <1>1, <1>10, <3>1 DEF Children, Unrooted, Gone, Dying
    <3>3. e.parent \notin Children(E)
      BY <1>1, <3>2 DEF Children
    <3>4. A[e.parent] = {} /\ A[c] = A[e.parent] \cup {e.parent}
      BY <1>1, <3>1, <3>3 DEF Forest
    <3> QED
      BY <1>4, <3>2, <3>4
  <2> QED
    BY <2>1, <2>2
<1>11. Forest(F, J, B)
  BY <1>7, <1>8, <1>9, <1>10 DEF Forest
<1> QED
  BY <1>2, <1>6, <1>11 DEF B, Gone

(* A process that had its capability from another: what it gave hangs      *)
(* from that one.                                                          *)
LEMMA SpliceMiddle ==
  ASSUME NEW E, NEW H, NEW A, NEW n, World(H, A, n), Forest(E, H, A),
         NEW end \in Ends, end.cap = 0, NEW inc \in E, inc.child = end
  PROVE  /\ Lifted(E, end) = SpliceOut(E, end.proc, end.id)
         /\ Unrooted(Lifted(E, end), end) = Lifted(E, end)
         /\ World(H \ Dying(H, end), Kept(A, H, Dying(H, end)), n)
         /\ Forest(Lifted(E, end), H \ Dying(H, end), Kept(A, H, Dying(H, end)))
<1> DEFINE J == H \ {end}
           B == Kept(A, H, {end})
           F == Lifted(E, end)
<1>1. /\ end \in H /\ end.id \in Nat \ {0} /\ inc.parent \in J
      /\ inc.parent.id < end.id /\ inc.parent.id \in Nat
  BY ForestEdge
<1>2. \A c \in H : SameProc(c, end.proc, end.id) <=> c = end
  <2> SUFFICES ASSUME NEW c \in H, c.id = end.id, c.proc = end.proc
               PROVE  c = end
    BY <1>1 DEF SameProc
  <2>1. c \in Ends /\ c.cap = 0
    BY <1>1 DEF World
  <2> QED
    BY <2>1 DEF Ends
<1>3. Dying(H, end) = {end}
  BY <1>1, <1>2 DEF Dying
<1>4. \A e \in E : /\ e.parent \in H /\ e.child \in H /\ e = Edge(e.parent, e.child)
                   /\ e.parent.id < e.child.id
                   /\ e.parent.id \in Nat /\ e.child.id \in Nat
  BY ForestEdge
<1>5. \A e \in E : e.child = end => e = inc
  BY DEF Forest, SingleSource
<1>6. ASSUME NEW f
      PROVE  f \in F <=> \/ f \in E /\ f.parent # end /\ f.child # end
                         \/ \E e \in E : e.parent = end /\ f = Edge(inc.parent, e.child)
  <2>1. ASSUME NEW e \in E, e.parent = end, f = Edge(inc.parent, e.child)
        PROVE  f \in F
    <3>1. <<inc, e>> \in {x \in E \X E : x[1].child = end /\ x[2].parent = end}
      BY <2>1
    <3>2. f = Edge(<<inc, e>>[1].parent, <<inc, e>>[2].child)
      BY <2>1
    <3> QED
      BY <3>1, <3>2 DEF Lifted
  <2> QED
    BY <1>5, <2>1 DEF Lifted
<1>7. \A e \in E : e.parent = end => e.child \in J
  BY <1>4
<1>8. F = SpliceOut(E, end.proc, end.id)
  <2> DEFINE T == {x \in E \X E : x[1].child = end /\ x[2].parent = end}
             U == {x \in E \X E :
                     /\ SameProc(x[1].child, end.proc, end.id)
                     /\ ~SameProc(x[1].parent, end.proc, end.id)
                     /\ x[2].parent = x[1].child
                     /\ ~SameProc(x[2].child, end.proc, end.id)}
  <2>1. T = U
    BY <1>1, <1>2, <1>4, <1>5, <1>7
  <2>2. {e \in E : e.parent # end /\ e.child # end}
          = {e \in E : /\ ~SameProc(e.parent, end.proc, end.id)
                       /\ ~SameProc(e.child, end.proc, end.id)}
    BY <1>2, <1>4
  <2>3. F = {e \in E : e.parent # end /\ e.child # end}
              \cup {Edge(x[1].parent, x[2].child) : x \in T}
    BY DEF Lifted
  <2>4. SpliceOut(E, end.proc, end.id)
          = {e \in E : /\ ~SameProc(e.parent, end.proc, end.id)
                       /\ ~SameProc(e.child, end.proc, end.id)}
              \cup {Edge(x[1].parent, x[2].child) : x \in U}
    BY DEF SpliceOut
  <2> HIDE DEF T, U, F
  <2> QED
    BY <2>1, <2>2, <2>3, <2>4
<1> HIDE DEF F
<1>9. \A f \in F : /\ f \in [parent : J, child : J]
                   /\ f.parent.id < f.child.id
  <2> SUFFICES ASSUME NEW f \in F
               PROVE  f \in [parent : J, child : J] /\ f.parent.id < f.child.id
    OBVIOUS
  <2>1. CASE f \in E /\ f.parent # end /\ f.child # end
    BY <1>4, <2>1 DEF Edge
  <2>2. CASE \E e \in E : e.parent = end /\ f = Edge(inc.parent, e.child)
    <3>1. PICK e \in E : e.parent = end /\ f = Edge(inc.parent, e.child)
      BY <2>2
    <3>2. f = [parent |-> inc.parent, child |-> e.child]
      BY <3>1 DEF Edge
    <3>3. end.id < e.child.id /\ e.child.id \in Nat /\ e.child \in J
      BY <1>4, <1>7, <3>1
    <3> QED
      BY <1>1, <3>2, <3>3
  <2> QED
    BY <1>6, <2>1, <2>2
<1>10. Unrooted(F, end) = F
  BY <1>2, <1>9 DEF Unrooted
<1>11. \A c \in J : c \in H /\ B[c] = A[c] \ {end}
  BY DEF Kept
<1>12. B \in [J -> SUBSET J]
  BY DEF Kept, World
<1> HIDE DEF B
<1>13. World(J, B, n)
  <2>1. \A c \in J : \A d \in B[c] : B[d] \subseteq B[c]
    BY <1>11, <1>12 DEF World
  <2> QED
    BY <1>12, <2>1 DEF World
<1>14. \A f \in F : \E e \in E : /\ e.child = f.child
                                 /\ \/ e = f
                                    \/ e.parent = end /\ f.parent = inc.parent
  <2> SUFFICES ASSUME NEW f \in F
               PROVE  \E e \in E : /\ e.child = f.child
                                   /\ \/ e = f
                                      \/ e.parent = end /\ f.parent = inc.parent
    OBVIOUS
  <2> QED
    BY <1>6 DEF Edge
<1>15. SingleSource(F)
  <2> SUFFICES ASSUME NEW f \in F, NEW g \in F, f.child = g.child
               PROVE  f = g
    BY DEF SingleSource
  <2>1. PICK d \in E : d.child = f.child
                       /\ (d = f \/ (d.parent = end /\ f.parent = inc.parent))
    BY <1>14
  <2>2. PICK e \in E : e.child = g.child
                       /\ (e = g \/ (e.parent = end /\ g.parent = inc.parent))
    BY <1>14
  <2>3. d = e
    BY <2>1, <2>2 DEF Forest, SingleSource
  <2>4. f.parent # end /\ g.parent # end
    BY <1>9
  <2>5. f.parent = g.parent
    BY <2>1, <2>2, <2>3, <2>4
  <2> QED
    BY <1>9, <2>5
<1>16. ASSUME NEW f \in F PROVE B[f.child] = B[f.parent] \cup {f.parent}
  <2>1. f.parent \in J /\ f.child \in J
    BY <1>9
  <2>2. PICK e \in E : e.child = f.child
                       /\ (e = f \/ (e.parent = end /\ f.parent = inc.parent))
    BY <1>14
  <2>3. A[e.child] = A[e.parent] \cup {e.parent}
    BY DEF Forest
  <2>4. A[end] = A[inc.parent] \cup {inc.parent}
    BY DEF Forest
  <2>5. A[f.child] \ {end} = (A[f.parent] \cup {f.parent}) \ {end}
    BY <2>2, <2>3, <2>4
  <2> QED
    BY <1>11, <2>1, <2>5
<1>17. ASSUME NEW c \in J, c \notin Children(F) PROVE B[c] = {}
  <2>1. c \notin Children(E)
    <3> SUFFICES ASSUME NEW e \in E, e.child = c PROVE FALSE
      BY DEF Children
    <3>1. CASE e.parent # end
      BY <1>6, <1>17, <3>1 DEF Children
    <3>2. CASE e.parent = end
      <4>1. Edge(inc.parent, e.child) \in F
        BY <1>6, <3>2
      <4> QED
        BY <1>17, <4>1 DEF Children, Edge
    <3> QED
      BY <3>1, <3>2
  <2> QED
    BY <1>11, <2>1 DEF Forest
<1>18. Forest(F, J, B)
  BY <1>9, <1>15, <1>16, <1>17 DEF Forest
<1> QED
  BY <1>3, <1>8, <1>10, <1>13, <1>18 DEF B, F

(* The second loop of `splice_out`, and the whole of it. *)
LEMMA SpliceDone ==
  ASSUME LedgerInv, SpliceDrop
  PROVE  LedgerInv' /\ LiveEdges(edges') = SpliceOut(before, subject.proc, subject.id)
<1> DEFINE E == LiveEdges(edges)
           K == {k \in LiveSlots(edges) :
                   SameProc(edges[k].parent, subject.proc, subject.id)}
           Gone == Dying(held, subject)
<1>0. /\ World(held, ancestors, nextId) /\ ArrayOK(edges)
      /\ Forest(before, held, ancestors) /\ Splicing /\ progress \in BOOLEAN
      /\ subject \in Ends /\ subject.cap = 0
  BY DEF LedgerInv, SpliceDrop, Idle, Splicing
<1>1. /\ i = N /\ pc' = "idle" /\ i' = 0 /\ progress' = progress
      /\ edges' = Kill(edges, K)
      /\ held' = held \ Gone /\ ancestors' = Kept(ancestors, held, Gone)
      /\ nextId' = nextId
  BY DEF SpliceDrop, Without, Dying, Kept
<1>2. LiveEdges(edges') = Unrooted(E, subject)
  <2>1. LiveEdges(edges') = {Edge(edges[k].parent, edges[k].child) :
                               k \in LiveSlots(edges) \ K}
    BY <1>0, <1>1, KillOK
  <2>2. E = {Edge(edges[k].parent, edges[k].child) : k \in LiveSlots(edges)}
    BY DEF LiveEdges
  <2>3. \A k \in LiveSlots(edges) :
          k \in K <=> SameProc(Edge(edges[k].parent, edges[k].child).parent,
                               subject.proc, subject.id)
    BY DEF Edge
  <2> HIDE DEF K, E
  <2> QED
    BY <2>1, <2>2, <2>3 DEF Unrooted
<1>3. ArrayOK(edges')
  BY <1>0, <1>1, KillOK
<1>4. /\ LiveEdges(edges') = SpliceOut(before, subject.proc, subject.id)
      /\ World(held', ancestors', nextId')
      /\ Forest(LiveEdges(edges'), held', ancestors')
  <2>1. CASE /\ E = before
             /\ \A k \in 0..(i - 1) : edges[k].live => edges[k].child # subject
    <3>1. \A e \in before : e.child # subject
      <4> SUFFICES ASSUME NEW e \in before, e.child = subject PROVE FALSE
        OBVIOUS
      <4>1. PICK k \in LiveSlots(edges) : e = Edge(edges[k].parent, edges[k].child)
        BY <2>1 DEF LiveEdges
      <4>2. k \in 0..(i - 1) /\ edges[k].live /\ edges[k].child = subject
        BY <1>1, <4>1 DEF LiveSlots, Edge
      <4> QED
        BY <2>1, <4>2
    <3> HIDE DEF Gone, E
    <3>2. LiveEdges(edges') = Unrooted(before, subject)
      BY <1>2, <2>1
    <3> QED
      BY <1>0, <1>1, <3>1, <3>2, SpliceRoot DEF Gone
  <2>2. CASE /\ \E e \in before : e.child = subject
             /\ E = Lifted(before, subject)
    <3>1. PICK inc \in before : inc.child = subject
      BY <2>2
    <3> HIDE DEF Gone, E
    <3>2. /\ Lifted(before, subject) = SpliceOut(before, subject.proc, subject.id)
          /\ Unrooted(Lifted(before, subject), subject) = Lifted(before, subject)
          /\ World(held \ Gone, Kept(ancestors, held, Gone), nextId)
          /\ Forest(Lifted(before, subject), held \ Gone,
                    Kept(ancestors, held, Gone))
      BY <1>0, <3>1, SpliceMiddle DEF Gone
    <3> QED
      BY <1>1, <1>2, <2>2, <3>2
  <2> QED
    BY <1>0, <2>1, <2>2 DEF Splicing
<1>5. i' \in 0..N
  BY <1>1, TableAssumption
<1> QED
  BY <1>0, <1>1, <1>3, <1>4, <1>5 DEF LedgerInv, Idle

-----------------------------------------------------------------------------
(* The results.                                                            *)

LEMMA NextInv ==
  ASSUME LedgerInv, [Next]_vars
  PROVE  LedgerInv'
<1>1. CASE \E parent \in held, p \in Procs : Record(parent, p)
  BY <1>1, RecordInv
<1>2. CASE \E root \in held : BeginRevoke(root) \/ ForgetTree(root)
  BY <1>2, BeginRevokeInv, ForgetInv
<1>3. CASE \E c \in held : BeginSplice(c)
  BY <1>3, BeginSpliceInv
<1>4. CASE RevokeEdge \/ NextRound \/ EndRevoke
  BY <1>4, RevokeEdgeInv, NextRoundInv, EndRevokeInv
<1>5. CASE SpliceEdge \/ SpliceDrop
  BY <1>5, SpliceEdgeInv, SpliceDone
<1>6. CASE \E c \in RootCaps : Refill(c)
  BY <1>6, RefillInv
<1>7. CASE UNCHANGED vars
  BY <1>7 DEF vars, LedgerInv, Idle, Revoking, Splicing, OutSet, Reached
<1> QED
  BY <1>1, <1>2, <1>3, <1>4, <1>5, <1>6, <1>7 DEF Next

(* Between and within the operations of `Ledger<N>`: the edges are a       *)
(* forest that says what was derived from what, the loop of `revoke_from`  *)
(* has reached only what is derived from its root and removed only what it *)
(* reached, and the loop of `splice_out` has either not met the edge into  *)
(* the dead process or has re-parented all that hangs below it.            *)
THEOREM LedgerSafe == Spec => []LedgerInv
<1>1. Init => LedgerInv
  BY InitInv
<1>2. LedgerInv /\ [Next]_vars => LedgerInv'
  BY NextInv
<1> QED
  BY <1>1, <1>2, PTL DEF Spec

(* `revoke_from` reports every transitive derivation of its root, none     *)
(* else and none twice, and keeps the other edges, in whatever order the   *)
(* edges lie in the array and whatever its capacity.                       *)
THEOREM RevokeAlwaysExact == Spec => []RevokeExact
<1>1. LedgerInv => RevokeExact
  <2> SUFFICES ASSUME LedgerInv, pc = "revoke", i = N, ~progress
               PROVE  /\ OutSet = Reach(before, subject)
                      /\ LiveEdges(edges) = RevokeFrom(before, subject)
                      /\ Cardinality(OutSet) = Len(out)
    BY DEF RevokeExact
  <2>1. Cardinality(OutSet) = Len(out)
    BY DEF LedgerInv, Revoking
  <2> QED
    BY <2>1, RevokeDone
<1> QED
  BY <1>1, LedgerSafe, PTL

(* Between operations, what the ledger reaches from a capability is what   *)
(* was really derived from it: SPAWN, REVOKE, the death of processes in    *)
(* the middle of a chain, the destruction of regions and the reuse of      *)
(* slots neither lose a derivation nor invent one.                         *)
THEOREM LedgerAlwaysComplete == Spec => []LedgerComplete
<1>1. LedgerInv => LedgerComplete
  <2> SUFFICES ASSUME LedgerInv, Idle, NEW a \in held
               PROVE  Reach(LiveEdges(edges), a) = {c \in held : a \in ancestors[c]}
    BY DEF LedgerComplete
  <2>1. World(held, ancestors, nextId) /\ Forest(LiveEdges(edges), held, ancestors)
    BY DEF LedgerInv
  <2> QED
    BY <2>1, ForestReach
<1> QED
  BY <1>1, LedgerSafe, PTL

(* The two loops of `splice_out` leave the edges the set-level operator of *)
(* the kernel model leaves: what the dead process passed on hangs from the *)
(* one it had it from, what it gave in its own right is dropped.           *)
THEOREM SpliceAlwaysExact == Spec => SpliceExact
<1>1. ASSUME LedgerInv, [Next]_vars
      PROVE  [(pc = "splice" /\ i = N) =>
                 LiveEdges(edges') = SpliceOut(before, subject.proc, subject.id)]_vars
  <2> SUFFICES ASSUME Next, pc = "splice", i = N
               PROVE  LiveEdges(edges') = SpliceOut(before, subject.proc, subject.id)
    BY <1>1
  <2>1. SpliceDrop
    BY TableAssumption DEF Next, Record, BeginRevoke, ForgetTree, BeginSplice, Refill,
         RevokeEdge, NextRound, EndRevoke, SpliceEdge, Idle
  <2> QED
    BY <1>1, <2>1, SpliceDone
<1> QED
  BY <1>1, LedgerSafe, PTL DEF Spec, SpliceExact

=============================================================================
