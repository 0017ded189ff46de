----------------------------- MODULE SpacesSafety -----------------------------
(***************************************************************************)
(* What the address spaces promise: the properties of AddressSpaces.       *)
(***************************************************************************)
EXTENDS AddressSpaces

LeafAt(p, v) == LeafOf(pt, space[p], v)

(* The page tables implement the abstract maps: the concrete walk of every *)
(* process refines a map that only the operation on that process changes   *)
(* (the deferred proofs of `map`, `unmap`, `translate` and `load_elf`).  A *)
(* load maps the image and the stack and nothing else, a window is mapped  *)
(* whole or not at all, and no operation on one space shows in another.    *)
Abstract ==
  INSTANCE AddressMap WITH
    layout <- [image |-> machine.image, stack |-> StackPages, user |-> machine.user,
               windows |-> {ShareWindow(s) : s \in Shares} \cup {DeviceWindow},
               windowPerms |-> {USER_RO, USER_RW, USER_RO \cup {"device"},
                                USER_RW \cup {"device"}}],
    map <- [p \in Procs |-> IF space[p] = 0 THEN [v \in {} |-> v]
                            ELSE [v \in machine.user |-> LeafAt(p, v)]]

ImplementsAddressMap == Abstract!AMSpec

-----------------------------------------------------------------------------
(* The frames a live process is charged are exactly its tables and the     *)
(* pages of its image and stack, each used once and for one thing, and     *)
(* every frame is free or charged to one process: a refused load or a      *)
(* mapping that failed half way leaks nothing and shares nothing.          *)
TableFrames(p) ==
  LET entries == UNION {Range(Walk(pt, space[p], v)) : v \in machine.user}
  IN  {space[p]} \cup {e.frame : e \in {e \in entries : e.kind = "table"}}
PageFrames(p) == {LeafAt(p, v).frame : v \in Abstract!WantedPages}

FramesCharged ==
  /\ \A p \in Live :
       /\ Range(frames[p]) = TableFrames(p) \cup PageFrames(p)
       /\ TableFrames(p) \cap PageFrames(p) = {}
       /\ Len(frames[p]) = Cardinality(TableFrames(p))
                             + Cardinality(Abstract!WantedPages)
       /\ Len(frames[p]) = Cardinality(Range(frames[p]))
       /\ Range(frames[p]) \cap free = {}
       /\ \A q \in Live \ {p} : Range(frames[p]) \cap Range(frames[q]) = {}
  /\ free \cup UNION {Range(frames[p]) : p \in Live} = General

(* The tree the CPU walks always has the kernel in it.  The tables of a    *)
(* dead process are walked after they have been freed, until the next      *)
(* resume, so they must not be handed out or scrubbed before.              *)
KernelMapped == \A i \in machine.shared : pt[active][i] = pt[KROOT][i]

(* No page leads to memory that is not the process's any more: a share     *)
(* window maps frames of a live region the process has recorded there, at  *)
(* every step of a teardown plan.  And every plan fits, or the kernel      *)
(* would refuse to run it, and is ordered as the planner says.             *)
NoDanglingPage ==
  /\ \A p \in Live, s \in Shares : \A k \in 1..REGION_MAX_PAGES :
       LET e == LeafAt(p, ShareWindow(s)[k])
       IN  e.kind = "page" =>
             \E i \in 1..MAX_REGIONS :
               /\ regions[i].live
               /\ regions[i].id = shares[p][s]
               /\ k <= Len(regions[i].frames) /\ regions[i].frames[k] = e.frame
  /\ Len(plan) <= PLAN_STEPS /\ WellOrdered(plan)

(* New memory is new: what a process finds in its pages when it is loaded  *)
(* is its image and zeros, and a new region is zeros, whatever the frames  *)
(* held before.                                                            *)
FreshMemory ==
  [][/\ \A p \in Procs : space[p] = 0 /\ space'[p] # 0 =>
          \A v \in Abstract!WantedPages :
            bytes'[LeafOf(pt', space'[p], v).frame] = Abstract!PageAt(v)
     /\ \A i \in 1..MAX_REGIONS : ~regions[i].live /\ regions'[i].live =>
          \A f \in Range(regions'[i].frames) : bytes'[f] = NewPage]_vars
=============================================================================
