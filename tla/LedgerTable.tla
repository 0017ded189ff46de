---------------------------- MODULE LedgerTable ----------------------------
(***************************************************************************)
(* crates/deleg as it is written: `Ledger<N>`, an array of N edges, and    *)
(* the loops of `revoke_from` and `splice_out` one iteration at a time.    *)
(*                                                                         *)
(* Around the array stands what the kernel does with it: processes come    *)
(* and go in recycled table slots, SPAWN delegates one capability to a     *)
(* process created in the same call, REVOKE empties what was reached, a    *)
(* region's destruction empties every capability of one derivation tree,   *)
(* and an emptied slot may be filled again with an unrelated capability.   *)
(*                                                                         *)
(* `ancestors` is a history variable: for each capability, the ones it was *)
(* really derived from, kept without looking at the ledger.                *)
(***************************************************************************)
EXTENDS Ledger, Sequences

CONSTANTS N,          \* capacity of the ledger (MAX_DELEGATIONS)
          Procs,      \* slots of the process table; 0 is the boot process
          RootCaps,   \* capability slots of the boot process
          MaxId       \* bound: process identities handed out

ASSUME TableAssumption ==
  /\ N \in Nat \ {0}
  /\ 0 \in Procs
  /\ MaxId \in Nat

VARIABLES edges,      \* [0..N-1 -> live edge or DEAD]
          pc,         \* "idle", or the loop the kernel is in
          i,          \* the loop index of that operation
          progress,   \* revoke_from: did this round reach anything
          out,        \* revoke_from: endpoints reached so far
          subject,    \* the operand: revoke root, or the dead process's end
          before,     \* the live edges when the operation began
          held,       \* the capabilities that exist
          ancestors,  \* history: true derivations of each held capability
          nextId      \* NEXT_ID

vars == <<edges, pc, i, progress, out, subject, before, held, ancestors,
          nextId>>
table == <<edges>>
loop == <<pc, i, progress, out, subject, before>>
world == <<held, ancestors, nextId>>

DEAD == [live |-> FALSE]
Live(parent, child) == [live |-> TRUE, parent |-> parent, child |-> child]

LiveSlots(tab) == {k \in 0..(N - 1) : tab[k].live}

(* `live_edges`: the set of edges the array stands for. *)
LiveEdges(tab) == {Edge(tab[k].parent, tab[k].child) : k \in LiveSlots(tab)}

Kill(tab, K) == [k \in 0..(N - 1) |-> IF k \in K THEN DEAD ELSE tab[k]]

Nobody == End(0, 0, 0)

Init ==
  /\ edges = [k \in 0..(N - 1) |-> DEAD]
  /\ pc = "idle" /\ i = 0 /\ progress = FALSE /\ out = << >>
  /\ subject = Nobody /\ before = {}
  /\ held = {End(0, 0, c) : c \in RootCaps}
  /\ ancestors = [c \in held |-> {}]
  /\ nextId = 1

Idle == pc = "idle"

(* What remains of the history once the capabilities in Gone are emptied.  *)
Without(Gone) ==
  /\ held' = held \ Gone
  /\ ancestors' = [c \in held \ Gone |-> ancestors[c] \ Gone]

-----------------------------------------------------------------------------
(* `record`: the first dead slot of the array takes the edge.  The caller  *)
(* (SPAWN) has checked that there is one, and the child is a process that  *)
(* was created a moment ago in a free table slot, holding nothing else.    *)
Record(parent, p) ==
  /\ Idle
  /\ nextId <= MaxId
  /\ Cardinality(LiveSlots(edges)) < N
  /\ parent \in held
  /\ \A c \in held : c.proc # p
  /\ LET child == End(p, nextId, 0)
         k == CHOOSE k \in 0..(N - 1) :
                ~edges[k].live /\ \A j \in 0..(k - 1) : edges[j].live
     IN  /\ edges' = [edges EXCEPT ![k] = Live(parent, child)]
         /\ held' = held \cup {child}
         /\ ancestors' = [c \in held \cup {child} |->
              IF c = child THEN ancestors[parent] \cup {parent}
                           ELSE ancestors[c]]
  /\ nextId' = nextId + 1
  /\ UNCHANGED loop

-----------------------------------------------------------------------------
(* `revoke_from`: rounds over the array until one makes no progress. *)
BeginRevoke(root) ==
  /\ Idle
  /\ root \in held
  /\ pc' = "revoke" /\ i' = 0 /\ progress' = FALSE /\ out' = << >>
  /\ subject' = root
  /\ before' = LiveEdges(edges)
  /\ UNCHANGED <<table, world>>

(* Is the parent of this edge the root, or among out[..n]? *)
Reached(e) == e.parent = subject \/ \E k \in 1..Len(out) : out[k] = e.parent

(* Faulty variant of RevokeEdge: progress is not noted, so that one round  *)
(* is all there is.                                                        *)
RevokeOneRound ==
  /\ pc = "revoke" /\ i < N
  /\ i' = i + 1
  /\ IF edges[i].live /\ Reached(edges[i])
     THEN edges' = Kill(edges, {i}) /\ out' = Append(out, edges[i].child)
     ELSE UNCHANGED <<edges, out>>
  /\ UNCHANGED <<pc, progress, subject, before, world>>

RevokeEdge ==
  /\ pc = "revoke" /\ i < N
  /\ i' = i + 1
  /\ IF edges[i].live /\ Reached(edges[i])
     THEN /\ edges' = Kill(edges, {i})
          /\ out' = Append(out, edges[i].child)
          /\ progress' = TRUE
     ELSE UNCHANGED <<edges, out, progress>>
  /\ UNCHANGED <<pc, subject, before, world>>

NextRound ==
  /\ pc = "revoke" /\ i = N /\ progress
  /\ i' = 0 /\ progress' = FALSE
  /\ UNCHANGED <<pc, out, subject, before, table, world>>

(* The last round reached nothing: the kernel empties what was reported.   *)
EndRevoke ==
  /\ pc = "revoke" /\ i = N /\ ~progress
  /\ pc' = "idle"
  /\ Without({out[k] : k \in 1..Len(out)})
  /\ i' = 0 /\ out' = << >> /\ subject' = Nobody /\ before' = {}
  /\ UNCHANGED <<progress, nextId, table>>

-----------------------------------------------------------------------------
(* `splice_out`, on the death of a process: first the edges into it, each  *)
(* re-parenting what hangs below it, then the edges still rooted at it.    *)
BeginSplice(c) ==
  /\ Idle
  /\ c \in held
  /\ pc' = "splice" /\ i' = 0
  /\ subject' = [c EXCEPT !.cap = 0]
  /\ before' = LiveEdges(edges)
  /\ UNCHANGED <<progress, out, table, world>>

(* Faulty variant of SpliceEdge: the edge into the dead process goes, what *)
(* hangs below it is not re-parented (and is dropped later).               *)
SpliceWithoutReparent ==
  /\ pc = "splice" /\ i < N
  /\ i' = i + 1
  /\ IF edges[i].live /\ SameProc(edges[i].child, subject.proc, subject.id)
     THEN edges' = Kill(edges, {i})
     ELSE UNCHANGED edges
  /\ UNCHANGED <<pc, progress, out, subject, before, world>>

SpliceEdge ==
  /\ pc = "splice" /\ i < N
  /\ i' = i + 1
  /\ LET inc == edges[i]
     IN  IF inc.live /\ SameProc(inc.child, subject.proc, subject.id)
         THEN edges' =
                [k \in 0..(N - 1) |->
                   IF k = i THEN DEAD
                   ELSE IF edges[k].live /\ edges[k].parent = inc.child
                   THEN Live(inc.parent, edges[k].child)
                   ELSE edges[k]]
         ELSE UNCHANGED edges
  /\ UNCHANGED <<pc, progress, out, subject, before, world>>

SpliceDrop ==
  /\ pc = "splice" /\ i = N
  /\ pc' = "idle" /\ i' = 0 /\ subject' = Nobody /\ before' = {}
  /\ edges' = Kill(edges, {k \in LiveSlots(edges) :
                   SameProc(edges[k].parent, subject.proc, subject.id)})
  /\ Without({c \in held : SameProc(c, subject.proc, subject.id)})
  /\ UNCHANGED <<progress, out, nextId>>

-----------------------------------------------------------------------------
(* Faulty variant of ForgetTree: only the edge into each emptied           *)
(* capability is looked for, and the root has none.                        *)
ForgetRootOnly(root) ==
  LET tree == {root} \cup {c \in held : root \in ancestors[c]}
  IN  /\ Idle
      /\ root \in held
      /\ ancestors[root] = {}
      /\ edges' = Kill(edges, {k \in LiveSlots(edges) : edges[k].child = root})
      /\ Without(tree)
      /\ UNCHANGED <<loop, nextId>>

(* `forget`, once per capability, when a region is destroyed: the root of  *)
(* a derivation tree and everything derived from it are emptied together.  *)
ForgetTree(root) ==
  LET tree == {root} \cup {c \in held : root \in ancestors[c]}
  IN  /\ Idle
      /\ root \in held
      /\ ancestors[root] = {}
      /\ edges' = Kill(edges, {k \in LiveSlots(edges) :
                     edges[k].parent \in tree \/ edges[k].child \in tree})
      /\ Without(tree)
      /\ UNCHANGED <<loop, nextId>>

(* An emptied slot of the boot process is filled again (MAKE_REGION). *)
Refill(c) ==
  /\ Idle
  /\ \E d \in held : SameProc(d, 0, 0)
  /\ End(0, 0, c) \notin held
  /\ held' = held \cup {End(0, 0, c)}
  /\ ancestors' = [d \in held \cup {End(0, 0, c)} |->
                     IF d = End(0, 0, c) THEN {} ELSE ancestors[d]]
  /\ UNCHANGED <<table, loop, nextId>>

Next ==
  \/ \E parent \in held, p \in Procs : Record(parent, p)
  \/ \E root \in held : BeginRevoke(root) \/ ForgetTree(root)
  \/ \E c \in held : BeginSplice(c)
  \/ RevokeEdge \/ NextRound \/ EndRevoke
  \/ SpliceEdge \/ SpliceDrop
  \/ \E c \in RootCaps : Refill(c)

Spec == Init /\ [][Next]_vars

-----------------------------------------------------------------------------
OutSet == {out[k] : k \in 1..Len(out)}

(* The fixpoint is exact: when the loop of `revoke_from` is done, the      *)
(* reported endpoints are the transitive derivations of the root in the    *)
(* ledger it started from, no one missed for lying earlier in the array    *)
(* and no one extra, each reported once, and the surviving edges are the   *)
(* others.                                                                 *)
RevokeExact ==
  (pc = "revoke" /\ i = N /\ ~progress) =>
    /\ OutSet = Reach(before, subject)
    /\ LiveEdges(edges) = RevokeFrom(before, subject)
    /\ Cardinality(OutSet) = Len(out)

(* The re-parenting loop computes SpliceOut of the ledger it started from. *)
SpliceExact ==
  [][(pc = "splice" /\ i = N) =>
        LiveEdges(edges') = SpliceOut(before, subject.proc, subject.id)]_vars

(* The ledger never loses and never invents a derivation: between          *)
(* operations, what it reaches from a capability is exactly what was       *)
(* really derived from it, through any number of deaths in between, slot   *)
(* reuse and region destruction.                                           *)
LedgerComplete ==
  Idle => \A a \in held :
            Reach(LiveEdges(edges), a) = {c \in held : a \in ancestors[c]}

=============================================================================
