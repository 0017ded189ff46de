---------------------------- MODULE UserProgram ----------------------------
(***************************************************************************)
(* The vocabulary of the ring-3 programs: one instruction per system call  *)
(* wrapper of crates/init and crates/riscv-init, or per access to a window *)
(* the kernel mapped.  An instruction carries what the program checks of   *)
(* the answer: `line` names the "(bug)" line it prints when the check      *)
(* fails.  Addresses are share slots, or the device window; capability     *)
(* numbers are the program's own.                                          *)
(***************************************************************************)
EXTENDS Integers, Sequences

NoLine == "none"

(* Calls the program makes only to see them refused with NO_CAP.  They are *)
(* decided by the caller's own capabilities, which nobody else can widen,  *)
(* so a group of them is one instruction.                                  *)
Refused(calls, line) == [op |-> "Refused", calls |-> calls, line |-> line]

(* `send`/`send_bytes` and `recv`/`recv_bytes`; then what the receiver     *)
(* checks of the word it got (0: nothing).                                 *)
SendWord(word) == [op |-> "SendWord", word |-> word]
RecvWord == [op |-> "RecvWord"]
Heard(word, line) == [op |-> "Heard", word |-> word, line |-> line]

(* `spawn_delegating(c, d, request)`. *)
SpawnWith(c, d, request, line) ==
  [op |-> "SpawnWith", cap |-> c, deleg |-> d, request |-> request,
   line |-> line]

(* `make_region`: leaves the new capability in the register. *)
Make(c, pages, line) ==
  [op |-> "Make", cap |-> c, pages |-> pages, line |-> line]

(* `map_region`, expecting the address of that share slot; `unmap_region`, *)
(* expecting the slot to be unmapped afterwards; `free_region` of the      *)
(* capability in the register.                                             *)
MapAt(c, slot, line) ==
  [op |-> "MapAt", cap |-> c, slot |-> slot, line |-> line]
UnmapAt(c, slot, line) ==
  [op |-> "UnmapAt", cap |-> c, slot |-> slot, line |-> line]
FreeMade(line) == [op |-> "FreeMade", line |-> line]

(* A store of a signature through a share window; a load that expects one; *)
(* the test, by a RECV that must fail on its buffer, that the window       *)
(* cannot be written.                                                      *)
Store(slot, mark) == [op |-> "Store", slot |-> slot, mark |-> mark]
Load(slot, mark, line) ==
  [op |-> "Load", slot |-> slot, mark |-> mark, line |-> line]
ReadOnly(slot, line) == [op |-> "ReadOnly", slot |-> slot, line |-> line]

(* `map_bar`; a load from the device window; whether it can be written.    *)
MapWindow(c) == [op |-> "MapWindow", cap |-> c]
LoadWindow == [op |-> "LoadWindow"]
WindowWritable(expected, line) ==
  [op |-> "WindowWritable", expected |-> expected, line |-> line]

(* `revoke`. *)
RevokeAll(c, line) == [op |-> "RevokeAll", cap |-> c, line |-> line]

(* `wait_irq`, and the loops around it: add the credits up, or count the   *)
(* waits, and go `back` until there are `goal` of them.                    *)
Wait(c) == [op |-> "Wait", cap |-> c]
Tally(goal, back, line) ==
  [op |-> "Tally", goal |-> goal, back |-> back, line |-> line]
Rounds(goal, back) == [op |-> "Rounds", goal |-> goal, back |-> back]

(* `poll_irq`: to drain the line, or to see that it is quiet. *)
Drain(c) == [op |-> "Drain", cap |-> c]
Quiet(c, line) == [op |-> "Quiet", cap |-> c, line |-> line]

(* Loops of a test and a `yield_now`: until a share slot or the device     *)
(* window is gone, until the timer line has a credit, or around the last   *)
(* `back` instructions.  They give up after a budget of rounds.            *)
UntilUnmapped(slot) == [op |-> "UntilUnmapped", slot |-> slot]
UntilNoWindow == [op |-> "UntilNoWindow"]
UntilTick(c) == [op |-> "UntilTick", cap |-> c]
YieldBack(back) == [op |-> "YieldBack", back |-> back]

(* Branches on an answer. *)
IfBorrower(then, else) == [op |-> "IfBorrower", then |-> then, else |-> else]
IfTwoPages(then, else) == [op |-> "IfTwoPages", then |-> then, else |-> else]
IfLine(then, else) == [op |-> "IfLine", then |-> then, else |-> else]
IfWindow(then, else) == [op |-> "IfWindow", then |-> then, else |-> else]
IfMade(c, line, else) ==
  [op |-> "IfMade", cap |-> c, line |-> line, else |-> else]

(* `make_region` until it is refused, expecting so many; and a request     *)
(* that may fail for want of quota but not of authority.                   *)
Fill(c, expected, line) ==
  [op |-> "Fill", cap |-> c, expected |-> expected, line |-> line]
StillMints(c, line) == [op |-> "StillMints", cap |-> c, line |-> line]

(* `map_dma` on a machine whose IOMMU is absent: refused, but not for want *)
(* of authority.                                                           *)
NoUnit(c, r, line) == [op |-> "NoUnit", cap |-> c, region |-> r, line |-> line]

(* The chain's "mint, or learn why not", and its last checks. *)
Mint(line, dry, gone) ==
  [op |-> "Mint", line |-> line, dry |-> dry, gone |-> gone]
Keep == [op |-> "Keep"]
Sign == [op |-> "Sign"]
KeptIntact(line) == [op |-> "KeptIntact", line |-> line]

(* A line the program prints for the branch it is in, having checked       *)
(* nothing.                                                                *)
Accuse(line) == [op |-> "Accuse", line |-> line]
SpawnRefused(line) == [op |-> "SpawnRefused", line |-> line]

(* `exit`, and the accesses that are meant to kill the process. *)
Leave == [op |-> "Leave"]
Die == [op |-> "Die"]
=============================================================================
