------------------------------ MODULE AddressMap ------------------------------
(***************************************************************************)
(* What address spaces promise, without page tables: every process has a   *)
(* map from pages to leaves, or no space at all.  A space comes into being *)
(* with exactly the pages of its image and its stack, on frames no other   *)
(* page has; after that only its windows change, one window of one process *)
(* at a time and all or nothing; and it vanishes as a whole.               *)
(***************************************************************************)
EXTENDS Naturals

CONSTANT PAGE_SIZE

VARIABLES layout,   \* the image, the stack, the user pages and the windows
          map       \* [process -> [page -> leaf] or NoSpace]

amVars == <<layout, map>>

NoSpace == [v \in {} |-> v]
Unmapped == [kind |-> "none"]

Procs == DOMAIN map
PagesIn(w) == {w[k] : k \in DOMAIN w}
MappedPages(p) == {v \in DOMAIN map[p] : map[p][v] # Unmapped}
FramesOf(p) == {map[p][v].frame : v \in MappedPages(p)}

-----------------------------------------------------------------------------
(* What is to be loaded, address by address rather than page by page: the  *)
(* segments an address lies in, and what the file has there.               *)
Loads == {s \in PagesIn(layout.image.segments) : s.kind = "load"}

Covers(s, a) == s.vaddr <= a /\ a < s.vaddr + s.memsz
Supplies(s, a) == Covers(s, a) /\ a < s.vaddr + s.filesz

BytesOf(v) == (v * PAGE_SIZE)..(v * PAGE_SIZE + PAGE_SIZE - 1)
SegmentsAt(v) == {s \in Loads : \E a \in BytesOf(v) : Covers(s, a)}

ByteAt(a) ==
  LET from == {s \in Loads : Supplies(s, a)}
  IN  IF from = {} THEN 0
      ELSE LET s == CHOOSE s \in from : TRUE IN s.offset + (a - s.vaddr) + 1

PageAt(v) == [b \in 0..(PAGE_SIZE - 1) |-> ByteAt(v * PAGE_SIZE + b)]

WantedPages == {v \in layout.user : SegmentsAt(v) # {}} \cup PagesIn(layout.stack)

WantedPerms(v) ==
  {"user"} \cup (IF v \in PagesIn(layout.stack) \/ \E s \in SegmentsAt(v) : s.write
                 THEN {"write"} ELSE {})
           \cup (IF \E s \in SegmentsAt(v) : s.exec THEN {"exec"} ELSE {})

-----------------------------------------------------------------------------
AMInit == \A p \in Procs : map[p] = NoSpace

(* A space of exactly the wanted pages, each with its permissions, on      *)
(* frames of its own.                                                      *)
Create(p) ==
  LET now == MappedPages(p)'
  IN  /\ map[p] = NoSpace
      /\ now = WantedPages
      /\ \A v \in now : map'[p][v].perms = WantedPerms(v)
      /\ \A v, w \in now : map'[p][v].frame = map'[p][w].frame => v = w
      /\ \A q \in Procs \ {p} : FramesOf(q) \cap FramesOf(p)' = {}

(* One window, which is a sequence of pages, loses its pages, or gets a    *)
(* first part of them mapped, all with the same permissions.               *)
ChangeWindow(p, w) ==
  /\ map[p] # NoSpace
  /\ DOMAIN map'[p] = DOMAIN map[p]
  /\ \A v \in DOMAIN map[p] \ PagesIn(w) : map'[p][v] = map[p][v]
  /\ \/ \A k \in DOMAIN w : map'[p][w[k]] = Unmapped
     \/ \E n \in DOMAIN w, perms \in layout.windowPerms :
          \A k \in DOMAIN w :
            IF k <= n THEN /\ map'[p][w[k]] # Unmapped
                           /\ map'[p][w[k]].perms = perms
            ELSE map'[p][w[k]] = Unmapped

Destroy(p) == map'[p] = NoSpace

AMNext ==
  \E p \in Procs :
    /\ map'[p] # map[p]
    /\ \A q \in Procs \ {p} : map'[q] = map[q]
    /\ \/ Create(p)
       \/ \E w \in layout.windows : ChangeWindow(p, w)
       \/ Destroy(p)
    /\ UNCHANGED layout

AMSpec == AMInit /\ [][AMNext]_amVars
=============================================================================
