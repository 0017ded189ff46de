----------------------------- MODULE RiscvInit -----------------------------
(***************************************************************************)
(* crates/riscv-init/src/main.rs: the U-mode program of the riscv64 build, *)
(* a sibling of the x86_64 one kept in a crate of its own.  It has no DMA  *)
(* calls, folds some outcomes into one line, polls for the timer where the *)
(* other waits for it, and calls an exhausted region table inconclusive    *)
(* without a verdict on the revocation.                                    *)
(* The roles that do not differ are the x86_64 scripts.                    *)
(***************************************************************************)
EXTENDS X86Init

RiscvProducer ==
  <<Refused({<<"recv", 0>>, <<"bar", 1>>}, "producer role")>> \o Tail(Producer)
RiscvConsumer == Consumer

RiscvLending == Lending
RiscvRemapping ==
  <<MapAt(Mbox, MboxAt, "could not re-map"),
    Load(MboxAt, "token", "could not re-map")>>
    \o SubSeq(Remapping, 3, Len(Remapping))
RiscvInterrupts == Interrupts
RiscvContract == Contract
RiscvQuotas == SubSeq(Quotas, 1, Len(Quotas) - 2)
RiscvRevoking == Revoking

(* The two-lines check polls with a budget; a timer that never fires in it *)
(* is inconclusive.                                                        *)
RiscvLastWaits ==
  <<Drain(6), Wait(6), Tally(1, 1, "final wait returned nothing"),
    UntilTick(6), Quiet(7, "one count leaked into the other"),
    Drain(6),
    Quiet(7, "bounded wait"), Wait(6), Tally(WaitBound, 2, "bounded wait"),
    Quiet(7, "bounded wait"),
    Wait(7), Tally(1, 1, "console wait returned nothing"), Leave>>

RiscvWorker ==
  RiscvLending \o RiscvRemapping \o RiscvInterrupts \o RiscvContract
    \o RiscvQuotas \o RiscvRevoking \o RiscvLastWaits

RiscvChild == Child
RiscvWriter == Writer
RiscvReader == Reader
RiscvHelper == Helper
RiscvDriver == Driver
RiscvChain == [Chain EXCEPT ![6] = Mint(NoLine, "ChainTries", "ChainRevoked")]
RiscvTries == Tail(ChainTries)
RiscvRevoked == ChainRevoked

RiscvPrograms ==
  [Programs EXCEPT
     !.Producer = RiscvProducer, !.Consumer = RiscvConsumer,
     !.Worker = RiscvWorker, !.Child = RiscvChild, !.Writer = RiscvWriter,
     !.Reader = RiscvReader, !.Helper = RiscvHelper, !.Driver = RiscvDriver,
     !.Chain = RiscvChain, !.ChainTries = RiscvTries,
     !.ChainRevoked = RiscvRevoked]
=============================================================================
