------------------------------- MODULE Ledger -------------------------------
(***************************************************************************)
(* crates/deleg, seen as what it computes: the delegation ledger as a SET  *)
(* of edges, each saying that capability `parent` was handed on as         *)
(* capability `child`.  Both ends name a slot of the process table, the    *)
(* IDENTITY of the process that occupied it and a capability slot, because *)
(* table slots are recycled.                                               *)
(*                                                                         *)
(* The kernel model works with these operators.  The code computes them    *)
(* with loops over a fixed array; LedgerTable models those loops and shows *)
(* that they compute exactly this.                                         *)
(***************************************************************************)
EXTENDS Integers, FiniteSets

(* `deleg::Endpoint::new`. *)
End(proc, id, cap) == [proc |-> proc, id |-> id, cap |-> cap]

SameProc(end, proc, id) == end.proc = proc /\ end.id = id

Edge(parent, child) == [parent |-> parent, child |-> child]

Children(E) == {e.child : e \in E}

(* S contains every capability derived from root or from a member of S.    *)
ClosedFrom(E, root, S) ==
  \A e \in E : (e.parent = root \/ e.parent \in S) => e.child \in S

(* Everything derived from root, transitively: the least closed set.  This *)
(* is what `revoke_from` reports.                                          *)
Reach(E, root) ==
  {c \in Children(E) :
     \A S \in SUBSET Children(E) : ClosedFrom(E, root, S) => c \in S}

(* `revoke_from`: the edges that survive it. *)
RevokeFrom(E, root) ==
  {e \in E : e.parent # root /\ e.parent \notin Reach(E, root)}

(* `splice_out`: remove a dead process, re-attaching what it delegated     *)
(* onward to the source it had it from; what it delegated out of a         *)
(* capability it held in its own right is dropped.                         *)
SpliceOut(E, proc, id) ==
  LET Dead(end) == SameProc(end, proc, id)
      Kept == {e \in E : ~Dead(e.parent) /\ ~Dead(e.child)}
      Through == {x \in E \X E :
                    /\ Dead(x[1].child) /\ ~Dead(x[1].parent)
                    /\ x[2].parent = x[1].child /\ ~Dead(x[2].child)}
      Spliced == {Edge(x[1].parent, x[2].child) : x \in Through}
  IN  Kept \cup Spliced

(* `forget`: drop every edge naming this capability slot, at either end. *)
Forget(E, end) == {e \in E : e.parent # end /\ e.child # end}

(* The precondition `splice_out` states: one source per capability. *)
SingleSource(E) == \A d, e \in E : d.child = e.child => d = e
=============================================================================
