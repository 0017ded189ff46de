------------------------------ MODULE X86Init ------------------------------
(***************************************************************************)
(* crates/init/src/main.rs: the ring-3 program of the x86_64 build, by     *)
(* role, on a machine without an IOMMU.  Busy loops (`spin`), the checks   *)
(* of freshly allocated memory, of the caller's own image and of the       *)
(* flags register, and the drive of a bounded device are left out.         *)
(***************************************************************************)
EXTENDS UserProgram

CONSTANTS
  Budget,       \* bound: rounds of a loop that waits for someone (400)
  HelperWaits,  \* IRQ_HELPER_WAITS (300)
  TickGoal,     \* ticks the worker waits for (3)
  WaitBound,    \* ticks of the bounded wait (30)
  Quota         \* REGION_QUOTA

RO == {"READ"}
RW == {"READ", "WRITE"}
ALL == {"READ", "WRITE", "GRANT"}

(* The worker's capabilities beyond its grants: the lent region, the       *)
(* mailbox, and whatever it makes next; and the share slots they take.     *)
Lent == 13
Mbox == 14
Spare == 15
LentAt == 0
MboxAt == 1
SpareAt == 2

Producer ==
  <<Refused({<<"recv", 0>>, <<"dma", 8>>, <<"bar", 1>>}, "producer role"),
    SendWord(1), SendWord(2), SendWord(3), SendWord(4), SendWord(5),
    SendWord(6), Leave>>

Consumer ==
  <<Refused({<<"send", 0>>, <<"make", 2>>}, "consumer role"),
    RecvWord, RecvWord, RecvWord, RecvWord,
    RecvWord, Heard(5, "sentinel word misread"),
    RecvWord, Heard(6, "second payload wrong"), Leave>>

(* The worker lends a region READ-only and a mailbox READ-WRITE, takes the *)
(* first loan back and looks for the borrower's token in the mailbox.      *)
Lending ==
  <<SpawnWith(2, 6, RO, "no interrupt helper"),
    Make(2, 2, "no region"), MapAt(Lent, LentAt, "owner could not map"),
    Store(LentAt, "sig"),
    Make(2, 1, NoLine), MapAt(Mbox, MboxAt, "could not map the mailbox"),
    SpawnWith(2, Lent, RO, "no borrowers"),
    SpawnWith(2, Mbox, RW, "no borrowers"),
    RevokeAll(Lent, NoLine),
    Load(MboxAt, "token", "the borrower never reported back"),
    UnmapAt(Mbox, MboxAt, "UNMAP_REGION left the window")>>

(* DMA reach is asked for and refused: without the right, and for want of  *)
(* a unit.                                                                 *)
DmaRefusals ==
  <<Refused({<<"dma", 9>>}, "a rights-less domain cap granted reach"),
    NoUnit(8, Mbox, "MAP_DMA refused a region we hold")>>

(* There is no bounded device; map-then-free ends at its first refusal; a  *)
(* multi-page region and a doomed one come and go.                         *)
DmaCycles ==
  <<Refused({<<"bar", 12>>}, NoLine),
    Make(2, 1, "MAP_DMA stopped working"), NoUnit(8, Spare, NoLine),
    FreeMade(NoLine),
    Make(2, 4, "no multi-page region"), NoUnit(8, Spare, NoLine),
    FreeMade(NoLine),
    Make(2, 1, "no region to free while mapped"),
    NoUnit(8, Spare, NoLine), FreeMade(NoLine)>>

(* The mailbox comes back where it was; a region is destroyed with its     *)
(* capability, and another made.                                           *)
Remapping ==
  <<MapAt(Mbox, MboxAt, "re-mapping moved it"),
    Load(MboxAt, "token", "re-mapped and its contents were gone"),
    Make(2, 3, NoLine), MapAt(Spare, SpareAt, NoLine),
    FreeMade("owner could not destroy"),
    Refused({<<"map", Spare>>}, "stale region capability"),
    Make(2, 3, NoLine), MapAt(Spare, SpareAt, "could not map a fresh region")>>

(* Interrupts reach a holder, and an unheld line is invisible. *)
Interrupts ==
  <<Wait(6), Tally(TickGoal, 1, "no interrupts delivered"),
    Refused({<<"poll", 9>>}, "polled a line we do not hold")>>

(* The host contract, and the endpoints that are closed to the worker. *)
Contract ==
  <<MapWindow(1), LoadWindow,
    WindowWritable(TRUE, "full-rights window not writable"),
    Refused({<<"send", 0>>, <<"send", 3>>, <<"send", 9>>, <<"recv", 9>>},
            "an endpoint was open to the worker")>>

(* Rights and types are told apart, and the quota is exact. *)
Quotas ==
  <<Refused({<<"make", 4>>, <<"spawn", 4>>, <<"bar", 5>>, <<"make", 1>>},
            "allowed without the right or by the wrong type"),
    Fill(2, Quota - 3, "the quota granted something else"),
    FreeMade(NoLine), Make(2, 1, "freeing one did not return quota"),
    NoUnit(11, Spare, NoLine), NoUnit(8, Spare, NoLine)>>

(* A late child with the device, the chain with the mint source, and the   *)
(* revocation of both.                                                     *)
Revoking ==
  <<SpawnWith(2, 1, RO, "late spawn refused"),
    SpawnWith(2, 2, ALL, NoLine),
    RevokeAll(1, NoLine), RevokeAll(2, "revoke refused"),
    StillMints(2, "revoking cost us our own cap")>>

(* The last waits: from drained, two lines apart, bounded, and for input.  *)
LastWaits ==
  <<Drain(6), Wait(6), Tally(1, 1, "final wait returned nothing"),
    Wait(6), Tally(1, 1, "no credit"), Quiet(7, "console count"),
    Drain(6),
    Quiet(7, "bounded wait"), Wait(6), Tally(WaitBound, 2, "bounded wait"),
    Quiet(7, "bounded wait"),
    Wait(7), Tally(1, 1, "console wait returned nothing"), Leave>>

Worker ==
  Lending \o DmaRefusals \o DmaCycles \o Remapping \o Interrupts \o Contract
    \o Quotas \o Revoking \o LastWaits

(* A spawned process finds out from its one capability what it is for. *)
Child ==
  <<Refused({<<"send", 0>>, <<"poll", 6>>, <<"bar", 1>>}, "child authority"),
    IfBorrower("Borrower", "NoBorrower")>>
Borrower == <<IfTwoPages("Reader", "Writer")>>
NoBorrower == <<IfLine("Helper", "NoHelper")>>
NoHelper == <<IfWindow("Driver", "Chain")>>

Writer ==
  <<Store(0, "token"), Load(0, "token", "a WRITABLE loan took no write"),
    Refused({<<"free", 0>>}, "a WRITABLE borrower destroyed"), Die>>

Reader ==
  <<ReadOnly(0, "a READ-only loan gave a WRITABLE window"),
    Load(0, "sig", "delegated region has the WRONG contents"),
    Refused({<<"free", 0>>}, "a borrower destroyed"),
    UntilUnmapped(0), Leave>>

Helper == <<Wait(0), Rounds(HelperWaits, 1), Leave>>

Driver ==
  <<LoadWindow,
    WindowWritable(FALSE, "READ-only cap gave a WRITABLE window"),
    UntilNoWindow, Die>>

(* The chain passes its mint source on, keeps a region of its own and      *)
(* mints until it is told why it cannot.                                   *)
Chain ==
  <<IfMade(0, "could not test delegation", "ChainEnds"), FreeMade(NoLine),
    SpawnWith(0, 0, ALL, NoLine),
    Keep, Sign,
    Mint("out of regions", "ChainTries", "ChainRevoked"),
    FreeMade(NoLine), YieldBack(2),
    KeptIntact("minted memory corrupted"), Leave>>

(* The region table was full: besides "out of regions" the last branch     *)
(* prints a verdict on the revocation the loop never saw.                  *)
ChainTries ==
  <<Accuse("still usable after revoke"),
    KeptIntact("minted memory corrupted"), Leave>>

ChainRevoked ==
  <<KeptIntact("minted memory corrupted"),
    SpawnRefused("SPAWN allowed through a revoked cap"), Leave>>
ChainEnds == <<Leave>>

(* `_start`: the program of each script name. *)
Programs ==
  [Producer |-> Producer, Consumer |-> Consumer, Worker |-> Worker,
   Child |-> Child, Borrower |-> Borrower, NoBorrower |-> NoBorrower,
   NoHelper |-> NoHelper, Writer |-> Writer, Reader |-> Reader,
   Helper |-> Helper, Driver |-> Driver, Chain |-> Chain,
   ChainTries |-> ChainTries, ChainRevoked |-> ChainRevoked,
   ChainEnds |-> ChainEnds]
=============================================================================
