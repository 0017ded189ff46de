-------------------------------- MODULE Regions --------------------------------
(***************************************************************************)
(* The crate regions: in which order shared memory is torn down.  A region *)
(* table is a sequence of entries, live or not; `holders` gives for every  *)
(* process slot whether it is live, its identity and the region in each of *)
(* its share slots (0 for none).                                           *)
(***************************************************************************)
EXTENDS Naturals, Sequences, FiniteSets, SequencesExt

UnmapStep(p, s, r) == [do |-> "unmap", proc |-> p, slot |-> s, region |-> r]
ForgetCapsStep(r) == [do |-> "forget", region |-> r]
ReleaseStep(r) == [do |-> "release", region |-> r]

LiveRegion(regions, r) == \E i \in DOMAIN regions : /\ regions[i].live
                                                    /\ regions[i].id = r

(* The numbers up to n that are in T, in order: a loop over a table. *)
Ascending(T, n) ==
  LET after[k \in 0..n] ==
        IF k = 0 THEN << >>
        ELSE IF k \in T THEN Append(after[k - 1], k) ELSE after[k - 1]
  IN  after[n]

(* `holders_of`: process by process, slot by slot. *)
HeldBy(h, p, r) ==
  LET held == Ascending({s \in DOMAIN h.slots : h.live /\ h.slots[s] = r},
                        Len(h.slots))
  IN  [k \in 1..Len(held) |-> UnmapStep(p, held[k], r)]

HoldersOf(holders, r) ==
  LET after[p \in 0..Len(holders)] ==
        IF p = 0 THEN << >> ELSE after[p - 1] \o HeldBy(holders[p], p, r)
  IN  after[Len(holders)]

(* Faulty variant of Destroy: the frames go first. *)
DestroyReleasing(regions, holders, r) ==
  IF r = 0 \/ ~LiveRegion(regions, r) THEN << >>
  ELSE <<ForgetCapsStep(r), ReleaseStep(r)>> \o HoldersOf(holders, r)

(* `destroy`: every holder is unmapped before the frames are released. *)
Destroy(regions, holders, r) ==
  IF r = 0 \/ ~LiveRegion(regions, r) THEN << >>
  ELSE HoldersOf(holders, r) \o <<ForgetCapsStep(r), ReleaseStep(r)>>

(* `teardown`: the regions the dying process owns, in table order, then    *)
(* its own mappings of the others.                                         *)
DestroyOwned(regions, holders, id) ==
  LET after[i \in 0..Len(regions)] ==
        IF i = 0 THEN << >>
        ELSE IF regions[i].live /\ regions[i].owner = id
             THEN after[i - 1] \o Destroy(regions, holders, regions[i].id)
             ELSE after[i - 1]
  IN  after[Len(regions)]

Owns(regions, id, r) ==
  \E i \in DOMAIN regions : /\ regions[i].live
                            /\ regions[i].id = r /\ regions[i].owner = id

UnmapOwn(regions, h, p, destroyed) ==
  LET rest == Ascending({s \in DOMAIN h.slots :
                           /\ h.slots[s] # 0
                           /\ ~Owns(regions, h.id, h.slots[s])
                           /\ \A k \in 1..Len(destroyed) :
                                ~(/\ destroyed[k].do = "unmap"
                                  /\ destroyed[k].proc = p
                                  /\ destroyed[k].slot = s)},
                        Len(h.slots))
  IN  [k \in 1..Len(rest) |-> UnmapStep(p, rest[k], h.slots[rest[k]])]

TeardownPlan(regions, holders, p, id) ==
  LET destroyed == DestroyOwned(regions, holders, id)
  IN  IF ~(holders[p].live /\ holders[p].id = id) THEN destroyed
      ELSE destroyed \o UnmapOwn(regions, holders[p], p, destroyed)

(* `Plan::well_ordered`: nothing is released before its last unmapping. *)
WellOrdered(plan) ==
  \A i, j \in 1..Len(plan) :
    i < j /\ plan[i].do = "release" /\ plan[j].do = "unmap"
      => plan[i].region # plan[j].region
=============================================================================
