----------------------------- MODULE IommuDomain -----------------------------
(***************************************************************************)
(* One DMA domain under any sequence of calls.                             *)
(***************************************************************************)
EXTENDS Iommu

CONSTANTS Frames,   \* physical frame numbers
          Iovas,    \* device addresses, page-numbered
          Rights,   \* the access rights
          G, M      \* capacities of the two tables

ASSUME DomainAssumption == G \in Nat /\ M \in Nat

VARIABLE dom

vars == <<dom>>

Init == dom = EmptyDomain

DoGrant(f, r) == dom' = Grant(dom, f, r, G)
DoRevoke(f) == dom' = RevokeFrame(dom, f)
DoMap(v, f, r) == dom' = Map(dom, v, f, r, M)
DoUnmap(v) == dom' = Unmap(dom, v)

Next ==
  \/ \E f \in Frames : DoRevoke(f) \/ \E r \in SUBSET Rights : DoGrant(f, r)
  \/ \E v \in Iovas :
       \/ DoUnmap(v)
       \/ \E f \in Frames, r \in SUBSET Rights : DoMap(v, f, r)

Spec == Init /\ [][Next]_vars

-----------------------------------------------------------------------------
(* The tables hold entries, and fit their arrays. *)
TypeOK ==
  /\ dom \in [grants : SUBSET [frame : Frames, rights : SUBSET Rights],
              maps : SUBSET [iova : Iovas, frame : Frames, rights : SUBSET Rights]]
  /\ IsFiniteSet(dom.grants) /\ Cardinality(dom.grants) <= G
  /\ IsFiniteSet(dom.maps) /\ Cardinality(dom.maps) <= M

(* A frame has one grant and an address one translation, so that `granted` *)
(* and the I/O page table do not depend on which entry is found first.     *)
Unambiguous ==
  /\ \A g, h \in dom.grants : g.frame = h.frame => g = h
  /\ \A m, n \in dom.maps : m.iova = n.iova => m = n

(* THE INVARIANT of the crate: whatever is granted, narrowed, revoked,     *)
(* mapped and unmapped, every address the device reaches is covered by a   *)
(* live grant with rights no wider than the grant's.                       *)
ReachWithinGrants == Contained(dom)

(* An address never changes its meaning under a device that holds it: a    *)
(* translation stays what it is until it is removed (MapErr::IovaInUse).   *)
NeverRepointed ==
  [][\A m \in dom.maps, n \in dom'.maps : m.iova = n.iova => m = n]_vars
=============================================================================
