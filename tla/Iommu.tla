-------------------------------- MODULE Iommu --------------------------------
(***************************************************************************)
(* crates/iommu: `Domain<G, M>`, the decision half of a device's DMA       *)
(* domain.  A domain is a record of two tables, `grants` (frames that some *)
(* capability authorized, with the rights it conferred) and `maps` (the    *)
(* translations the device has).  The code keeps each in an array of live  *)
(* and empty entries; only which entries are live matters, so a table is   *)
(* the set of its live entries, at most G and at most M of them.           *)
(*                                                                         *)
(* The module holds the operations as operators on a domain, which the     *)
(* kernel's DMA calls (module Dma) use as well.                            *)
(***************************************************************************)
EXTENDS Integers, FiniteSets

EmptyDomain == [grants |-> {}, maps |-> {}]

(* `granted`: does a live grant cover the frame, and with which rights?    *)
GrantsOf(dom, f) == {g \in dom.grants : g.frame = f}
Granted(dom, f) == GrantsOf(dom, f) # {}
RightsOn(dom, f) == UNION {g.rights : g \in GrantsOf(dom, f)}

(* Faulty variant of Covered: narrowing withdraws nothing. *)
NothingUncovered(maps, f, rights) == maps

(* `withdraw_uncovered`: the translations that rights on f still cover.    *)
Covered(maps, f, rights) ==
  {m \in maps : m.frame = f => m.rights \subseteq rights}

(* Faulty variant of Grant: a second grant of a frame is a second entry. *)
GrantTwice(dom, f, rights, G) ==
  IF Cardinality(dom.grants) < G
  THEN [dom EXCEPT !.grants = @ \cup {[frame |-> f, rights |-> rights]}]
  ELSE dom

(* `grant`: a second grant of a frame replaces the first, and takes with   *)
(* it the translations the new rights do not cover.  A full table refuses. *)
Grant(dom, f, rights, G) ==
  LET new == [frame |-> f, rights |-> rights]
  IN  IF Granted(dom, f)
      THEN [grants |-> (dom.grants \ GrantsOf(dom, f)) \cup {new},
            maps   |-> Covered(dom.maps, f, rights)]
      ELSE IF Cardinality(dom.grants) < G
      THEN [dom EXCEPT !.grants = @ \cup {new}]
      ELSE dom

(* `revoke`: the translations of the frame, then its grant. *)
RevokeFrame(dom, f) ==
  [grants |-> dom.grants \ GrantsOf(dom, f),
   maps   |-> {m \in dom.maps : m.frame # f}]

(* Faulty variant of MapAnswer: an address in use is accepted.             *)
MapRepoints(dom, iova, f, rights, M) ==
  IF ~Granted(dom, f) THEN "NotGranted"
  ELSE IF ~(rights \subseteq RightsOn(dom, f)) THEN "RightsExceedGrant"
  ELSE IF Cardinality(dom.maps) >= M THEN "Full"
  ELSE "Ok"

(* `map`: the refusals, in the order of the code... *)
MapAnswer(dom, iova, f, rights, M) ==
  IF ~Granted(dom, f) THEN "NotGranted"
  ELSE IF ~(rights \subseteq RightsOn(dom, f)) THEN "RightsExceedGrant"
  ELSE IF \E m \in dom.maps : m.iova = iova THEN "IovaInUse"
  ELSE IF Cardinality(dom.maps) >= M THEN "Full"
  ELSE "Ok"

(* ...and the domain afterwards. *)
Map(dom, iova, f, rights, M) ==
  IF MapAnswer(dom, iova, f, rights, M) = "Ok"
  THEN [dom EXCEPT !.maps = @ \cup {[iova   |-> iova,
                                     frame  |-> f,
                                     rights |-> rights]}]
  ELSE dom

(* `unmap`. *)
Unmap(dom, iova) == [dom EXCEPT !.maps = {m \in @ : m.iova # iova}]

(* `contained`: device_reachable(dom) is within granted(dom). *)
Contained(dom) ==
  \A m \in dom.maps : Granted(dom, m.frame)
                   /\ m.rights \subseteq RightsOn(dom, m.frame)
=============================================================================
