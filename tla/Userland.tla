------------------------------ MODULE Userland ------------------------------
(***************************************************************************)
(* The user programs of crates/init and crates/riscv-init running on the   *)
(* nucleus of the Kernel module: an interpreter of their instructions, in  *)
(* which every call is the kernel's own action or its refusal, and the     *)
(* timer may preempt between any two instructions.                         *)
(***************************************************************************)
EXTENDS Kernel, RiscvInit

CONSTANTS
  Machines,     \* the builds: "x86_64" and "riscv64"
  MaxPreempts   \* bound: timer interrupts that hit a running process

VARIABLES
  machine,   \* the build that was booted
  ctx,       \* user context of each process: where it is, and its registers
  marks,     \* what the regions hold: pairs of a region and a signature
  said,      \* the "(bug)" lines printed so far
  killed,    \* scripts whose process died of an access it meant to survive
  preempts   \* preemptions so far

userVars == <<machine, ctx, marks, said, killed, preempts>>
allVars == <<vars, userVars>>

NoCap == -1
NoReg == -1

(* `_start` of a process: its script, and registers: a loop counter, the   *)
(* capability made last, the one kept, and the answer of the last call     *)
(* that could block.                                                       *)
Start(script) ==
  [script |-> script, at |-> 1, n |-> 0, made |-> NoReg, kept |-> NoReg,
   got |-> 0]
Unloaded == Start("none")

Program(p) ==
  (IF machine = "x86_64" THEN Programs ELSE RiscvPrograms)[ctx[p].script]
Instr == Program(current)[ctx[current].at]
At(op) == Running /\ Instr.op = op
me == ctx[current]

Onward == [me EXCEPT !.at = @ + 1, !.n = 0]
Branch(script) == [me EXCEPT !.script = script, !.at = 1, !.n = 0]

(* The program prints its line unless what it checked is so. *)
Check(ok) ==
  said' = IF ok \/ Instr.line = NoLine THEN said ELSE said \cup {Instr.line}

-----------------------------------------------------------------------------
(* What the kernel answers the running process.                            *)

MakeAnswer(c, pages) ==
  IF ~Presents(c, "Untyped", WRITE) THEN "NO_CAP"
  ELSE IF /\ Cardinality({r \in regions : r.owner = pid[current]}) < RegionQuota
          /\ Cardinality(regions) < MaxRegions
          /\ nextRegion < RegionIdMax
          /\ free.dma >= pages
          /\ FreeCaps(caps[current]) # {}
  THEN "OK" ELSE "NO_MEM"

MapAnswer(c) ==
  IF ~(Presents(c, "Region", READ) /\ caps[current][c].object \in RegionIds)
  THEN "NO_CAP"
  ELSE IF SlotsFor(caps[current][c].object) # {} /\ TablesComplete("share")
  THEN "OK" ELSE "NO_MEM"

FreeAnswer(c) ==
  IF /\ Presents(c, "Region", WRITE)
     /\ \E r \in regions : /\ r.id = caps[current][c].object
                           /\ r.owner = pid[current]
  THEN "OK" ELSE "NO_CAP"

BarAnswer(c) ==
  IF Presents(c, "Mmio", READ) /\ caps[current][c].object \in Apertures
  THEN "OK" ELSE "NO_CAP"

(* The boot tables name accounted lines only. *)
PollAnswer(c) ==
  IF Presents(c, "Irq", READ) /\ caps[current][c].object \in Lines
  THEN "OK" ELSE "NO_CAP"

(* MAP_DMA of region capability r: without a unit, at best NO_MEM.         *)
DmaAnswer(c, r) ==
  IF Presents(c, "IommuDomain", WRITE) /\ Presents(r, "Region", READ)
  THEN "NO_MEM" ELSE "NO_CAP"

AnswerTo(call, c) ==
  CASE call = "send" -> IF Presents(c, "Endpoint", WRITE) THEN "OK" ELSE "NO_CAP"
    [] call = "recv" -> IF Presents(c, "Endpoint", READ) THEN "OK" ELSE "NO_CAP"
    [] call = "poll" -> PollAnswer(c)
    [] call = "bar" -> BarAnswer(c)
    [] call = "make" -> MakeAnswer(c, 1)
    [] call = "map" -> MapAnswer(c)
    [] call = "free" -> FreeAnswer(c)
    [] call = "spawn" -> SpawnAnswer(c, NoDelegate)
    [] call = "dma" -> DmaAnswer(c, Mbox)

(* The processes this step takes out of a wait find `code`; the running    *)
(* one goes on with the context `own`.                                     *)
Woken(p) == state[p].kind \in {"Send", "Recv", "Irq"} /\ state'[p] = Ready
Continue(own, code) ==
  ctx' = [p \in Procs |->
    IF p = current THEN own
    ELSE IF Woken(p) THEN [ctx[p] EXCEPT !.got = code] ELSE ctx[p]]

(* An instruction whose call was refused, or that makes none. *)
Quietly(own) ==
  /\ UNCHANGED <<vars, machine, marks, killed, preempts>>
  /\ ctx' = [ctx EXCEPT ![current] = own]

userStable == <<machine, marks, killed, preempts>>

-----------------------------------------------------------------------------
(* Refusals, rendezvous, processes.                                        *)

ExecRefused ==
  /\ At("Refused")
  /\ Check(\A k \in Instr.calls : AnswerTo(k[1], k[2]) = "NO_CAP")
  /\ Quietly(Onward)

(* Producer and consumer hold what these calls need (a refused one would   *)
(* leave the process without a step, which the deadlock check reports).    *)
ExecSend ==
  /\ At("SendWord")
  /\ Send(0)
  /\ Continue([Onward EXCEPT !.got = Instr.word], Instr.word)
  /\ UNCHANGED <<userStable, said>>

ExecRecv ==
  LET senders == Waiters(BlockedSend(caps[current][0].object))
  IN  /\ At("RecvWord")
      /\ Recv(0)
      /\ Continue([Onward EXCEPT !.got =
                     IF senders # {} THEN ctx[Min(senders)].got ELSE NoCap], 0)
      /\ UNCHANGED <<userStable, said>>

ExecHeard ==
  /\ At("Heard")
  /\ Check(me.got = Instr.word)
  /\ Quietly(Onward)

ExecSpawn ==
  LET answer == SpawnAnswer(Instr.cap, Instr.deleg)
      child == Min(Procs \ LiveIn(state))
  IN  /\ At("SpawnWith")
      /\ Check(answer = "OK")
      /\ IF answer = "OK"
         THEN /\ Spawn(Instr.cap, Instr.deleg, Instr.request)
              /\ ctx' = [ctx EXCEPT ![current] = Onward,
                                    ![child] = Start("Child")]
              /\ UNCHANGED userStable
         ELSE Quietly(Onward)

ExecSpawnRefused ==
  /\ At("SpawnRefused")
  /\ Check(SpawnAnswer(0, NoDelegate) # "OK")
  /\ Quietly(Onward)

ExecRevoke ==
  /\ At("RevokeAll")
  /\ Check(caps[current][Instr.cap] # NullCap)
  /\ IF caps[current][Instr.cap] # NullCap
     THEN Revoke(Instr.cap) /\ Continue(Onward, NoCap) /\ UNCHANGED userStable
     ELSE Quietly(Onward)

(* The process is gone, whichever way. *)
Ends ==
  /\ Teardown
  /\ Continue(Unloaded, NoCap)
  /\ marks' = {m \in marks : \E r \in regions' : r.id = m[1]}
  /\ UNCHANGED <<machine, preempts, said>>

ExecLeave == At("Leave") /\ Ends /\ UNCHANGED killed
ExecDie == At("Die") /\ Ends /\ UNCHANGED killed

(* The page fault of an access the program did not mean to fault.          *)
Killed == Ends /\ killed' = killed \cup {me.script}

-----------------------------------------------------------------------------
(* Regions.                                                                *)

(* The make_region of an instruction that goes on with the context `own`   *)
(* when it is granted, and `otherwise` when it is not.                     *)
Making(c, pages, own, otherwise) ==
  IF MakeAnswer(c, pages) = "OK"
  THEN /\ MakeRegion(c, pages)
       /\ ctx' = [ctx EXCEPT ![current] = own]
       /\ UNCHANGED userStable
  ELSE Quietly(otherwise)
NewCap == Min(FreeCaps(caps[current]))

ExecMake ==
  /\ At("Make")
  /\ Check(MakeAnswer(Instr.cap, Instr.pages) = "OK")
  /\ Making(Instr.cap, Instr.pages, [Onward EXCEPT !.made = NewCap],
            [Onward EXCEPT !.made = NoReg])

(* Mint until refused, and count. *)
ExecFill ==
  LET granted == MakeAnswer(Instr.cap, 1) = "OK"
  IN  /\ At("Fill")
      /\ Check(granted \/ me.n = Instr.expected)
      /\ Making(Instr.cap, 1, [me EXCEPT !.n = @ + 1, !.made = NewCap], Onward)

ExecStillMints ==
  /\ At("StillMints")
  /\ Check(MakeAnswer(Instr.cap, 1) # "NO_CAP")
  /\ Quietly(Onward)

ExecNoUnit ==
  /\ At("NoUnit")
  /\ Check(DmaAnswer(Instr.cap, Instr.region) = "NO_MEM")
  /\ Quietly(Onward)

(* The address is the share slot's, so what is checked is which slot the   *)
(* kernel chose.                                                           *)
ExecMap ==
  /\ At("MapAt")
  /\ Check(/\ MapAnswer(Instr.cap) = "OK"
           /\ Min(SlotsFor(caps[current][Instr.cap].object)) = Instr.slot)
  /\ IF MapAnswer(Instr.cap) = "OK"
     THEN /\ MapRegion(Instr.cap)
          /\ ctx' = [ctx EXCEPT ![current] = Onward]
          /\ UNCHANGED userStable
     ELSE Quietly(Onward)

ExecUnmap ==
  /\ At("UnmapAt")
  /\ UnmapRegion(Instr.cap)
  /\ Check(leaf'[current][Instr.slot] = Unmapped)
  /\ ctx' = [ctx EXCEPT ![current] = Onward]
  /\ UNCHANGED userStable

ExecFree ==
  /\ At("FreeMade")
  /\ Check(me.made # NoReg /\ FreeAnswer(me.made) = "OK")
  /\ IF me.made # NoReg /\ FreeAnswer(me.made) = "OK"
     THEN /\ FreeRegion(me.made)
          /\ ctx' = [ctx EXCEPT ![current] = [Onward EXCEPT !.n = me.n]]
          /\ marks' = {m \in marks : m[1] # caps[current][me.made].object}
          /\ UNCHANGED <<machine, killed, preempts>>
     ELSE Quietly([Onward EXCEPT !.n = me.n])

(* Accesses through a share window: the page-table entry decides. *)
Entry(slot) == leaf[current][slot]
Holding(id) ==
  IF \E m \in marks : m[1] = id
  THEN (CHOOSE m \in marks : m[1] = id)[2] ELSE "zero"
Marked(id, mark) == {m \in marks : m[1] # id} \cup {<<id, mark>>}

ExecStore ==
  /\ At("Store")
  /\ IF Entry(Instr.slot).write
     THEN /\ marks' = Marked(Entry(Instr.slot).region, Instr.mark)
          /\ ctx' = [ctx EXCEPT ![current] = Onward]
          /\ UNCHANGED <<vars, machine, killed, preempts, said>>
     ELSE Killed

ExecLoad ==
  /\ At("Load")
  /\ IF Entry(Instr.slot) # Unmapped
     THEN /\ Check(Holding(Entry(Instr.slot).region) = Instr.mark)
          /\ Quietly(Onward)
     ELSE Killed

ExecReadOnly ==
  /\ At("ReadOnly")
  /\ Check(~Entry(Instr.slot).write)
  /\ Quietly(Onward)

-----------------------------------------------------------------------------
(* The device window.                                                      *)

ExecMapWindow ==
  /\ At("MapWindow")
  /\ MapBar(Instr.cap, TRUE)
  /\ ctx' = [ctx EXCEPT ![current] = Onward]
  /\ UNCHANGED <<userStable, said>>

ExecLoadWindow ==
  /\ At("LoadWindow")
  /\ IF window[current] # NoWindow
     THEN Quietly(Onward) /\ UNCHANGED said
     ELSE Killed

ExecWindowWritable ==
  /\ At("WindowWritable")
  /\ Check(window[current].write = Instr.expected)
  /\ Quietly(Onward)

-----------------------------------------------------------------------------
(* Interrupt lines.                                                        *)

LineOf(c) == caps[current][c].object
Pending(c) == irqPending[current][LineOf(c)]

(* The collecting half of POLL_IRQ and WAIT_IRQ, and then `own`. *)
Collecting(c, own) ==
  IF PollAnswer(c) = "OK" /\ Pending(c) > 0
  THEN /\ CollectIrq(c)
       /\ ctx' = [ctx EXCEPT ![current] = own]
       /\ UNCHANGED userStable
  ELSE Quietly(own)

ExecWait ==
  /\ At("Wait")
  /\ IF PollAnswer(Instr.cap) = "OK" /\ Pending(Instr.cap) = 0
     THEN /\ WaitIrq(Instr.cap)
          /\ Continue([Onward EXCEPT !.n = me.n, !.got = 1], NoCap)
          /\ UNCHANGED userStable
     ELSE Collecting(Instr.cap, [Onward EXCEPT !.n = me.n, !.got =
            IF PollAnswer(Instr.cap) = "OK" THEN Pending(Instr.cap) ELSE NoCap])
  /\ UNCHANGED said

(* Sum the credits; stop at the goal or on an error. *)
ExecTally ==
  LET sum == me.n + me.got
  IN  /\ At("Tally")
      /\ Check(me.got # NoCap)
      /\ Quietly(IF me.got # NoCap /\ sum < Instr.goal
                 THEN [me EXCEPT !.at = @ - Instr.back, !.n = sum] ELSE Onward)

ExecRounds ==
  /\ At("Rounds")
  /\ Quietly(IF me.got # NoCap /\ me.n + 1 < Instr.goal
             THEN [me EXCEPT !.at = @ - Instr.back, !.n = @ + 1] ELSE Onward)
  /\ UNCHANGED said

ExecDrain == At("Drain") /\ Collecting(Instr.cap, Onward) /\ UNCHANGED said

ExecQuiet ==
  /\ At("Quiet")
  /\ Check(PollAnswer(Instr.cap) = "OK" /\ Pending(Instr.cap) = 0)
  /\ Collecting(Instr.cap, [Onward EXCEPT !.n = me.n])

-----------------------------------------------------------------------------
(* Waiting for another process: a test, then YIELD, so many times.         *)

Waiting(over) ==
  IF over \/ me.n = Budget
  THEN Quietly(Onward)
  ELSE /\ Yield
       /\ ctx' = [ctx EXCEPT ![current].n = @ + 1]
       /\ UNCHANGED userStable

ExecUntilUnmapped ==
  At("UntilUnmapped") /\ Waiting(Entry(Instr.slot) = Unmapped) /\ UNCHANGED said

ExecUntilNoWindow ==
  At("UntilNoWindow") /\ Waiting(window[current] = NoWindow) /\ UNCHANGED said

ExecUntilTick ==
  /\ At("UntilTick")
  /\ IF Pending(Instr.cap) > 0 THEN Collecting(Instr.cap, Onward)
                               ELSE Waiting(FALSE)
  /\ UNCHANGED said

ExecYieldBack ==
  /\ At("YieldBack")
  /\ IF me.n = Budget THEN Quietly(Onward)
     ELSE /\ Yield
          /\ ctx' = [ctx EXCEPT ![current] =
               [me EXCEPT !.at = @ - Instr.back, !.n = @ + 1]]
          /\ UNCHANGED userStable
  /\ UNCHANGED said

-----------------------------------------------------------------------------
(* What a child is for, and the chain.                                     *)

ExecIfBorrower ==
  /\ At("IfBorrower")
  /\ IF MapAnswer(0) = "OK"
     THEN /\ MapRegion(0)
          /\ ctx' = [ctx EXCEPT ![current] = Branch(Instr.then)]
          /\ UNCHANGED userStable
     ELSE Quietly(Branch(Instr.else))
  /\ UNCHANGED said

(* `mapped_probe` of the second page. *)
ExecIfTwoPages ==
  LET two == \E r \in regions : r.id = Entry(0).region /\ r.pages = 2
  IN  /\ At("IfTwoPages")
      /\ Quietly(Branch(IF two THEN Instr.then ELSE Instr.else))
      /\ UNCHANGED said

ExecIfLine ==
  /\ At("IfLine")
  /\ Collecting(0, Branch(IF PollAnswer(0) = "OK" THEN Instr.then
                                                  ELSE Instr.else))
  /\ UNCHANGED said

ExecIfWindow ==
  /\ At("IfWindow")
  /\ IF BarAnswer(0) = "OK"
     THEN /\ MapBar(0, TRUE)
          /\ ctx' = [ctx EXCEPT ![current] = Branch(Instr.then)]
          /\ UNCHANGED userStable
     ELSE Quietly(Branch(Instr.else))
  /\ UNCHANGED said

ExecIfMade ==
  /\ At("IfMade")
  /\ Check(MakeAnswer(Instr.cap, 1) # "NO_MEM")
  /\ Making(Instr.cap, 1, [Onward EXCEPT !.made = NewCap], Branch(Instr.else))

ExecKeep ==
  /\ At("Keep")
  /\ Making(0, 1, [Onward EXCEPT !.kept = NewCap], Onward)
  /\ UNCHANGED said

(* Map the kept region and sign it. *)
ExecSign ==
  /\ At("Sign")
  /\ IF me.kept # NoReg /\ MapAnswer(me.kept) = "OK"
     THEN /\ MapRegion(me.kept)
          /\ marks' = Marked(caps[current][me.kept].object, "minted")
          /\ ctx' = [ctx EXCEPT ![current] = Onward]
          /\ UNCHANGED <<machine, killed, preempts>>
     ELSE Quietly([Onward EXCEPT !.kept = NoReg])
  /\ UNCHANGED said

ExecMint ==
  LET answer == MakeAnswer(0, 1)
  IN  /\ At("Mint")
      /\ Check(answer # "NO_MEM")
      /\ Making(0, 1, [me EXCEPT !.at = @ + 1, !.made = NewCap],
                Branch(IF answer = "NO_MEM" THEN Instr.dry ELSE Instr.gone))

ExecKeptIntact ==
  /\ At("KeptIntact")
  /\ IF me.kept = NoReg \/ Entry(0) # Unmapped
     THEN /\ Check(me.kept = NoReg \/ Holding(Entry(0).region) = "minted")
          /\ Quietly(Onward)
     ELSE Killed

ExecAccuse == At("Accuse") /\ Check(FALSE) /\ Quietly(Onward)

-----------------------------------------------------------------------------
Exec ==
  \/ ExecRefused \/ ExecSend \/ ExecRecv \/ ExecHeard
  \/ ExecSpawn \/ ExecSpawnRefused \/ ExecRevoke \/ ExecLeave \/ ExecDie
  \/ ExecMake \/ ExecFill \/ ExecStillMints \/ ExecNoUnit
  \/ ExecMap \/ ExecUnmap \/ ExecFree
  \/ ExecStore \/ ExecLoad \/ ExecReadOnly
  \/ ExecMapWindow \/ ExecLoadWindow \/ ExecWindowWritable
  \/ ExecWait \/ ExecTally \/ ExecRounds \/ ExecDrain \/ ExecQuiet
  \/ ExecUntilUnmapped \/ ExecUntilNoWindow \/ ExecUntilTick \/ ExecYieldBack
  \/ ExecIfBorrower \/ ExecIfTwoPages \/ ExecIfLine \/ ExecIfWindow
  \/ ExecIfMade \/ ExecKeep \/ ExecSign \/ ExecMint \/ ExecKeptIntact
  \/ ExecAccuse

(* A timer interrupt while a process runs. *)
Preempt ==
  /\ preempts < MaxPreempts
  /\ PreemptTrap
  /\ ctx' = [p \in Procs |->
       IF Woken(p) THEN [ctx[p] EXCEPT !.got = 1] ELSE ctx[p]]
  /\ preempts' = preempts + 1
  /\ UNCHANGED <<machine, marks, said, killed>>

(* A timer interrupt while the CPU is parked. *)
IdleTick ==
  /\ IdleInterrupt(Timer)
  /\ ctx' = [p \in Procs |->
       IF Woken(p) THEN [ctx[p] EXCEPT !.got = 1] ELSE ctx[p]]
  /\ UNCHANGED <<userStable, said>>

(* The byte of the harness (tools/run-qemu.sh, tools/run-qemu-riscv.sh),   *)
(* which sends it once the worker has announced its console wait.          *)
Announced ==
  \E p \in Procs :
    \/ state[p] = BlockedIrq(Console)
    \/ /\ state[p] = Ready /\ ctx[p].script = "Worker"
       /\ Program(p)[ctx[p].at] = Wait(7)

Byte ==
  /\ Announced
  /\ DeviceTrap \/ IdleInterrupt(Console)
  /\ ctx' = [p \in Procs |->
       IF Woken(p) THEN [ctx[p] EXCEPT !.got = 1] ELSE ctx[p]]
  /\ UNCHANGED <<userStable, said>>

(* The machine has stopped. *)
Stopped == halt # "no" /\ UNCHANGED allVars

UserInit ==
  /\ Init
  /\ machine \in Machines
  /\ ctx = [p \in Procs |-> CASE p = 0 -> Start("Producer")
                              [] p = 1 -> Start("Consumer")
                              [] p = 2 -> Start("Worker")
                              [] OTHER -> Unloaded]
  /\ marks = {}
  /\ said = {}
  /\ killed = {}
  /\ preempts = 0

UserNext == Exec \/ Preempt \/ IdleTick \/ Byte \/ Stopped

(* The CPU does not stop in the middle of a process (an instruction is     *)
(* always there to execute, so this is weak fairness of Exec with its      *)
(* enabling condition written out), the timer is periodic, and the harness *)
(* keeps its word.                                                         *)
UserSpec ==
  /\ UserInit /\ [][UserNext]_allVars
  /\ []<>~Running \/ []<><<Exec>>_allVars
  /\ WF_allVars(IdleTick) /\ WF_allVars(Byte)

-----------------------------------------------------------------------------
(* The lines that accuse the kernel of what only a schedule did, by build. *)
(* The worker's `spin` ended before the borrower had run (the token is     *)
(* missing from the mailbox, then and after the re-mapping); it spawns     *)
(* before a slot is free again; and the chain meets a full region table,   *)
(* before it delegates or as it mints, which the x86_64 program also       *)
(* reports as a revoked capability that is still usable.                   *)
Races ==
  [x86_64 |->
     {"the borrower never reported back",
      "re-mapped and its contents were gone", "late spawn refused",
      "could not test delegation", "out of regions",
      "still usable after revoke"},
   riscv64 |->
     {"the borrower never reported back", "could not re-map",
      "late spawn refused", "could not test delegation"}]

(* No schedule makes a program print a "(bug)" line, other than the ones   *)
(* that are a fact about the schedule; a revoked capability is called      *)
(* usable only by a program that ran out of regions, hence tested nothing; *)
(* and no process is killed by an access it meant to survive, other than   *)
(* a borrower or driver overtaken by the worker's REVOKE (a reader that    *)
(* lost its window before it counted the pages takes itself for the        *)
(* writer).  Every other refusal, rendezvous, mapping, quota and           *)
(* revocation the two programs check holds under every interleaving.       *)
OnlyRacesAccuse ==
  /\ said \subseteq Races[machine]
  /\ "still usable after revoke" \in said => "out of regions" \in said
  /\ killed \subseteq {"Reader", "Writer", "Driver"}

(* Every boot ends with BOOT OK: nobody is left behind blocked, parked or  *)
(* leaking, whatever the schedule.                                         *)
BootCompletes == <>(halt = "ok")
=============================================================================
