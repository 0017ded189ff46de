-------------------------------- MODULE VSpace --------------------------------
(***************************************************************************)
(* Page tables and the ELF loader: the crates vspace, vspace-riscv, loader *)
(* and loader-riscv, as operations on a memory.                            *)
(*                                                                         *)
(* The two pairs of crates differ in constants: four levels or three, how  *)
(* an entry says that it is a leaf, whether the kernel's share of a root   *)
(* is a link or a leaf, and whether a page can be mapped uncached.         *)
(* `machine` holds those constants; it never changes after boot.           *)
(*                                                                         *)
(* A frame holds a table (`pt`) or bytes (`bytes`); zeroing clears both.   *)
(* Addresses count bytes, `PAGE_SIZE` of them to a page; page v of a space *)
(* is the one at v * PAGE_SIZE.  File byte k is the number k + 1, so that  *)
(* zero is told from every byte of the image.                              *)
(***************************************************************************)
EXTENDS Naturals, Sequences, FiniteSets, FiniteSetsExt, SequencesExt

CONSTANTS PAGE_SIZE,        \* bytes in a page
          MAX_PROC_FRAMES   \* frames a process may be charged

ASSUME VSpaceAssumption == /\ PAGE_SIZE \in Nat \ {0}
                           /\ MAX_PROC_FRAMES \in Nat \ {0}

VARIABLE machine   \* the build and its user image

(* Entries.  A leaf above level 0 is a huge page. *)
EMPTY == [kind |-> "none"]
Link(f) == [kind |-> "table", frame |-> f]
Leaf(f, perms) == [kind |-> "page", frame |-> f, perms |-> perms]

Perms == {"user", "write", "exec", "device"}
USER_RO == {"user"}
USER_RW == {"user", "write"}

Top == machine.levels - 1
Slots == 0..(machine.fanout - 1)

(* `VirtAddr::table_index`: the index of a level, a digit of the page. *)
Digit(v, fanout, level) == (v \div fanout ^ level) % fanout
Index(v, level) == Digit(v, machine.fanout, level)

NewTable == [i \in Slots |-> EMPTY]
NewPage == [b \in 0..(PAGE_SIZE - 1) |-> 0]

-----------------------------------------------------------------------------
(* A walk: the entries consulted for v, from the root down; past the end   *)
(* of the path, the entry that ended it.                                   *)
Walk(pt, root, v) ==
  LET at[k \in 0..Top] ==
        IF k = 0 THEN pt[root][Index(v, Top)]
        ELSE IF at[k - 1].kind = "table"
             THEN pt[at[k - 1].frame][Index(v, Top - k)]
             ELSE at[k - 1]
  IN  at

(* `leaf_flags` and `translate`: the leaf that maps v, at any level. *)
LeafOf(pt, root, v) == Walk(pt, root, v)[Top]

(* `user_range_mapped`, one page at a time: inside the user window, and    *)
(* mapped with USER access and the right to write.                         *)
UserWritable(pt, root, v) ==
  /\ v \in machine.user
  /\ LET e == LeafOf(pt, root, v) IN e.kind = "page" /\ USER_RW \subseteq e.perms

-----------------------------------------------------------------------------
(* The memory an operation works on: the tables, the bytes, the free       *)
(* frames of the general pool and the frames charged to the process; `got` *)
(* is the frame an allocation returned, `ok` whether all went well so far. *)

Failed(m) == [m EXCEPT !.ok = FALSE]

Zeroed(m, f) == [m EXCEPT !.pt[f] = NewTable, !.bytes[f] = NewPage]

(* Faulty variant of AllocFrame: the frame is handed out as it is. *)
AllocUnscrubbed(m) ==
  IF m.free = {} \/ Len(m.frames) >= MAX_PROC_FRAMES THEN Failed(m)
  ELSE LET f == Min(m.free)
       IN  [[m EXCEPT !.pt[f] = NewTable] EXCEPT
              !.free = @ \ {f}, !.frames = Append(@, f), !.got = f]

(* RecordingAlloc: the lowest free frame, zeroed, and charged; refused and *)
(* given back when the process has its full number of frames.              *)
AllocFrame(m) ==
  IF m.free = {} THEN Failed(m)
  ELSE LET f == Min(m.free)
       IN  IF Len(m.frames) >= MAX_PROC_FRAMES THEN Failed(Zeroed(m, f))
           ELSE [Zeroed(m, f) EXCEPT
                   !.free = @ \ {f}, !.frames = Append(@, f), !.got = f]

(* One step of the descent of `map`: follow the link, or make one; a huge  *)
(* page on the path refuses.                                               *)
Descend(m, v, level) ==
  LET e == m.pt[m.at][Index(v, level)]
  IN  IF ~m.ok THEN m
      ELSE IF e.kind = "table" THEN [m EXCEPT !.at = e.frame]
      ELSE IF e.kind = "page" THEN Failed(m)
      ELSE LET a == AllocFrame(m)
           IN  IF ~a.ok THEN a
               ELSE [a EXCEPT !.pt[m.at][Index(v, level)] = Link(a.got),
                              !.at = a.got]

(* ... down to the table that holds the leaf. *)
DescendAll(m, root, v) ==
  LET after[k \in 0..Top] ==
        IF k = 0 THEN [m EXCEPT !.at = root]
        ELSE Descend(after[k - 1], v, Top + 1 - k)
  IN  after[Top]

(* `AddressSpace::map` under `map_page`: a device page is refused where it *)
(* cannot be uncached; a page that is mapped already is refused, after the *)
(* tables on its path have been made.                                      *)
SetLeaf(d, v, f, perms) ==
  IF ~d.ok THEN d
  ELSE IF d.pt[d.at][Index(v, 0)].kind # "none" THEN Failed(d)
  ELSE [d EXCEPT !.pt[d.at][Index(v, 0)] = Leaf(f, perms)]

Map(m, root, v, f, perms) ==
  IF "device" \in perms /\ ~machine.uncached THEN Failed(m)
  ELSE SetLeaf(DescendAll(m, root, v), v, f, perms)

(* `AddressSpace::unmap` of every page in V: the leaves go, the tables     *)
(* stay, so that no page is looked for on a path another has cut.          *)
UnmapAll(pt, root, V) ==
  LET last(v) == Walk(pt, root, v)[Top - 1]
      cut == {<<last(v).frame, Index(v, 0)>> :
                v \in {v \in V : last(v).kind = "table"}}
  IN  [f \in DOMAIN pt |-> [i \in DOMAIN pt[f] |->
         IF <<f, i>> \in cut THEN EMPTY ELSE pt[f][i]]]

-----------------------------------------------------------------------------
(* The loader.  An image is its length and its program headers; a header   *)
(* is "load", "other", or "outside" the file.                              *)

(* Pages of a segment. *)
SegmentPages(s) ==
  LET first == s.vaddr \div PAGE_SIZE
      end == s.vaddr + s.memsz
      n == IF s.memsz = 0 THEN 0
           ELSE (end + PAGE_SIZE - 1) \div PAGE_SIZE - first
  IN  [k \in 1..n |-> first + k - 1]

(* Faulty variant of SegmentPerms: PF_W and PF_X confused. *)
SegmentPermsSwapped(s) == {"user"} \cup (IF s.write THEN {"exec"} ELSE {})
                                   \cup (IF s.exec THEN {"write"} ELSE {})

SegmentPerms(s) == {"user"} \cup (IF s.write THEN {"write"} ELSE {})
                            \cup (IF s.exec THEN {"exec"} ELSE {})

(* The bytes of page v the file supplies: [from, to) of the addresses, from *)
(* file offset `at`.                                                       *)
Copied(s, v) ==
  LET page == v * PAGE_SIZE
      end == s.vaddr + Min({s.filesz, s.memsz})
      from == Max({page, s.vaddr})
      to == Min({page + PAGE_SIZE, end})
  IN  [from |-> from, to |-> to, at |-> s.offset + (from - s.vaddr)]

(* One page of `load_segment`: a frame, the file's bytes, the mapping. *)
LoadPage(m, root, len, s, v) ==
  LET a == AllocFrame(m)
      c == Copied(s, v)
      page == v * PAGE_SIZE
      filled == [b \in 0..(PAGE_SIZE - 1) |->
                   IF page + b \in c.from..(c.to - 1)
                   THEN c.at + (page + b - c.from) + 1 ELSE 0]
  IN  IF ~m.ok THEN m
      ELSE IF ~a.ok THEN a
      ELSE IF c.from < c.to /\ c.at + (c.to - c.from) > len THEN Failed(a)
      ELSE Map([a EXCEPT !.bytes[a.got] = filled], root, v, a.got,
               SegmentPerms(s))

LoadSegment(m, root, len, s) ==
  IF s.kind = "outside" THEN Failed(m)
  ELSE IF s.kind = "other" THEN m
  ELSE LET pages == SegmentPages(s)
           after[k \in 0..Len(pages)] ==
             IF k = 0 THEN m ELSE LoadPage(after[k - 1], root, len, s, pages[k])
       IN  after[Len(pages)]

LoadElf(m, root) ==
  LET image == machine.image
      after[k \in 0..Len(image.segments)] ==
        IF k = 0 THEN IF image.header THEN m ELSE Failed(m)
        ELSE IF after[k - 1].ok
             THEN LoadSegment(after[k - 1], root, image.len, image.segments[k])
             ELSE after[k - 1]
  IN  after[Len(image.segments)]

(* The stack, from its top down. *)
StackPages == [k \in 1..machine.stackPages |-> machine.stackTop - k]

LoadStackPage(m, root, v) ==
  LET a == AllocFrame(m)
  IN  IF ~m.ok THEN m
      ELSE IF ~a.ok THEN a ELSE Map(a, root, v, a.got, USER_RW)

LoadStack(m, root) ==
  LET after[k \in 0..machine.stackPages] ==
        IF k = 0 THEN m ELSE LoadStackPage(after[k - 1], root, StackPages[k])
  IN  after[machine.stackPages]

(* The build of `load_process`: a root with the kernel's entries shared    *)
(* in, the image, the stack.                                               *)
NewRoot(r, kroot) ==
  [r EXCEPT !.pt[r.got] = [i \in Slots |-> IF i \in machine.shared
                                           THEN r.pt[kroot][i] ELSE EMPTY]]

Build(m, kroot) ==
  LET r == AllocFrame(m)
  IN  IF ~r.ok THEN r
      ELSE LoadStack(LoadElf(NewRoot(r, kroot), r.got), r.got)
=============================================================================
