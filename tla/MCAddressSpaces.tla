---------------------------- MODULE MCAddressSpaces ----------------------------
(* Two small machines, shaped like the two builds, and images to boot.     *)
EXTENDS SpacesSafety

Segment(vaddr, memsz, filesz, offset, write, exec) ==
  [kind |-> "load", vaddr |-> vaddr, memsz |-> memsz, filesz |-> filesz,
   offset |-> offset, write |-> write, exec |-> exec]

(* Text and data, and a header that is not to be loaded.  The data starts  *)
(* inside a page, runs into the next one and ends in .bss.                 *)
GoodImage(a) ==
  [header |-> TRUE, len |-> 6,
   segments |-> <<Segment(a, 2, 2, 0, FALSE, TRUE), [kind |-> "other"],
                  Segment(a + 3, 3, 2, 4, TRUE, FALSE)>>]

(* More bytes in the file than in memory, and an empty segment. *)
OddImage(a) ==
  [header |-> TRUE, len |-> 6,
   segments |-> <<Segment(a + 1, 1, 4, 2, FALSE, TRUE),
                  Segment(a + 2, 0, 1, 0, TRUE, FALSE)>>]

(* Two segments in one page; bytes past the end of the file; a program     *)
(* header past it; no ELF at all.                                          *)
BadImages(a) ==
  {[GoodImage(a) EXCEPT !.segments[3].vaddr = a + 1],
   [GoodImage(a) EXCEPT !.len = 5],
   [GoodImage(a) EXCEPT !.segments[2].kind = "outside"],
   [GoodImage(a) EXCEPT !.header = FALSE]}

(* x86: four levels, the kernel's half behind a link, a device behind its  *)
(* own registers.  Two processes fit; a region of two pages does not fit   *)
(* under the limit on the frames of a process.                             *)
X86(image) ==
  [levels |-> 4, fanout |-> 2, shared |-> {0}, kernelLink |-> TRUE,
   uncached |-> TRUE, bar |-> TRUE, rights |-> {TRUE},
   user |-> 8..15, stackTop |-> 13, stackPages |-> 1,
   mmioBase |-> 11, shareBase |-> 13, general |-> 22, image |-> image]

(* riscv: three levels, the kernel's share a leaf of the root.  Two        *)
(* processes fit, or one that has mapped a region of two pages.            *)
Riscv(image) ==
  [levels |-> 3, fanout |-> 3, shared |-> {0}, kernelLink |-> FALSE,
   uncached |-> FALSE, bar |-> FALSE, rights |-> {TRUE},
   user |-> 9..17, stackTop |-> 13, stackPages |-> 1,
   mmioBase |-> 13, shareBase |-> 14, general |-> 16, image |-> image]

(* x86 with the stand-in device and read-only capabilities, in memory for  *)
(* one process and one of the two tables its windows need.                 *)
SmallX86(image) == [X86(image) EXCEPT !.bar = FALSE, !.rights = BOOLEAN,
                                      !.general = 9]

MCMachines == {X86(GoodImage(16)), Riscv(GoodImage(18)), SmallX86(OddImage(16))}
                \cup {X86(i) : i \in BadImages(16)}
=============================================================================
