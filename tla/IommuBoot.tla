------------------------------ MODULE IommuBoot ------------------------------
(***************************************************************************)
(* The x86 boot's IOMMU: finding the unit and the PCI functions, giving    *)
(* each bounded device a table and every other function an entry that      *)
(* denies, enabling translation, publishing the domains (program_dte), and *)
(* then proving containment by making the one device the nucleus can drive *)
(* attempt transfers (prove_containment).                                  *)
(*                                                                         *)
(* The proof is a straight program of stores, transfers and flushes, so it *)
(* is data here: Script holds it phase by phase, and there is one action   *)
(* per kind of instruction.  What the program prints is what it claims:    *)
(* `lines` holds the verdicts, each with whether it came out well.         *)
(*                                                                         *)
(* Hardware can disappoint.  A store to a table entry may not take, a      *)
(* transfer may not finish while it is waited for and land later or never, *)
(* a flush may go unanswered, frames run out, and the unit itself may be   *)
(* broken in one of the ways the proof exists to notice (`fault`).  The    *)
(* unit caches every translation it performs and every entry it consults.  *)
(*                                                                         *)
(* `dom` of IommuDomain is DEVICE_DOMAINS[0].  After the boot the calls of *)
(* IommuDomain follow, on the frames and addresses Frames and Iovas name.  *)
(***************************************************************************)
EXTENDS IommuDomain, Firmware

CONSTANTS Boots,         \* records: the machine, its frames, the unit's fault
          MAX_DOMAINS,   \* domain slots
          MaxStuck,      \* bound: transfers that do not finish in time
          MaxTimeouts,   \* bound: flushes that are not answered in time
          MaxLost        \* bound: stores to the device table that do not take

(* What the scan takes for granted about config space: a function has one  *)
(* BDF, and only a device whose function 0 says so has others.             *)
TopologyOk(fns) ==
  /\ IsFiniteSet(fns)
  /\ \A f \in fns : {f.bus, f.dev, f.func, f.secondary} \subseteq Nat
  /\ \A f, g \in fns : Bdf(f) = Bdf(g) => f = g
  /\ \A f \in fns : f.func # 0 =>
       \E z \in fns : z.bus = f.bus /\ z.dev = f.dev /\ z.func = 0 /\ z.multi

ASSUME BootAssumption ==
  /\ MAX_DOMAINS \in Nat \ {0}
  /\ MaxBuses \in Nat \ {0} /\ MaxFunctions \in Nat
  /\ \A b \in Boots : TopologyOk(b.fns)

VARIABLES boot,      \* the member of Boots this run is
          pc,        \* [phase, at]
          free,      \* general frames left
          walk,      \* what `enumerate` returned
          staged,    \* the slots being built: bdf, or NoBdf
          slots,     \* DOMAIN_SLOTS: bdf, or NoBdf
          table,     \* the device table: bdf -> entry
          unit,      \* registers that took: "ELBR", "CBBR", "store", "CTRL"
          dom2,      \* DEVICE_DOMAINS[1]
          l1,        \* per domain, the leaves [iova, frame, rights]
          iotlb,     \* translations the unit has cached, with their domain
          devtab,    \* the entry it has cached for edu: << >> or <<entry>>
          owed,      \* flushes queued and not executed
          mem,       \* frame -> what its 64 bytes hold
          buffer,    \* edu's own buffer
          inflight,  \* a transfer that is still running: << >> or <<transfer>>
          got,       \* locals of the proof
          lines,     \* verdicts printed: <<name, it came out well>>
          stuck, unacked, lost   \* how often hardware disappointed

tables == <<staged, slots, table, unit>>
model == <<dom, dom2, l1>>
caches == <<iotlb, devtab, owed>>
device == <<mem, buffer, inflight>>
counts == <<stuck, unacked, lost>>
bvars == <<boot, pc, free, walk, tables, model, caches, device, got, lines,
           counts>>

NoBdf == -1
PASS == -1       \* an entry with V = 0: the unit lets everything through
DENY == 0        \* the root of the empty deny table; a domain's root is 1, 2
RESERVED == -2   \* an entry with a reserved bit set
Entry(root, id) == [root |-> root, domain |-> id]
DenyEntry == Entry(DENY, MAX_DOMAINS + 1)
Doms == 1..MAX_DOMAINS
RW == {"READ", "WRITE"}
RO == {"READ"}

Present == ToSet(walk.out)
Target == FindDmaDevice(boot.fns)
Edu == Bdf(Target[1])
At(phase) == [phase |-> phase, at |-> 1]
In(phase) == pc.phase = phase

BootInit ==
  /\ boot \in Boots
  /\ pc = At("find") /\ free = boot.frames
  /\ walk = [buses |-> << >>, out |-> << >>, truncated |-> FALSE]
  /\ staged = [d \in Doms |-> NoBdf] /\ slots = staged
  /\ table = [b \in {Bdf(f) : f \in boot.fns} |-> Entry(PASS, 0)]
  /\ unit = {}
  /\ dom = EmptyDomain /\ dom2 = EmptyDomain /\ l1 = [d \in Doms |-> {}]
  /\ iotlb = {} /\ devtab = << >> /\ owed = {}
  /\ mem = << >> /\ buffer = "zero" /\ inflight = << >>
  /\ got = << >> /\ lines = {}
  /\ stuck = 0 /\ unacked = 0 /\ lost = 0

-----------------------------------------------------------------------------
(* Bringing the unit up. *)
Goto(phase) == pc' = At(phase)

(* The base from ACPI, the aperture, the device table and its register. *)
FindUnit ==
  /\ In("find")
  /\ IF AmdViBase(boot.acpi) # 0 /\ boot.apertureMaps /\ boot.contiguous
                                 /\ "DTBR" \in boot.regs
     THEN Goto("scan") ELSE Goto("done")
  /\ UNCHANGED <<boot, free, walk, tables, model, caches, device, got, lines,
                 counts>>

(* program_dte: no target, more functions than the scan holds, or none.    *)
Scan ==
  /\ In("scan")
  /\ walk' = Enumerate(boot.fns)
  /\ IF Target = << >> \/ walk'.truncated \/ walk'.out = << >>
     THEN Goto("done") ELSE Goto("bind")
  /\ UNCHANGED <<boot, free, tables, model, caches, device, got, lines,
                 counts>>

(* The device the i-th domain goes to. *)
Candidates == LET all == Bindable(walk.out)
              IN  SubSeq(all, 1, IF Len(all) < MAX_DOMAINS THEN Len(all)
                                                           ELSE MAX_DOMAINS)

(* Bind the next device: three frames for its table, its entry, which may  *)
(* not take.  Out of frames ends the loop.                                 *)
BindDevice(takes) ==
  /\ In("bind")
  /\ pc.at <= Len(Candidates)
  /\ free >= 3
  /\ free' = free - 3
  /\ LET b == Bdf(Candidates[pc.at])
     IN  IF takes
         THEN /\ table' = [table EXCEPT ![b] = Entry(pc.at, pc.at)]
              /\ staged' = [staged EXCEPT ![pc.at] = b]
              /\ UNCHANGED lost
         ELSE /\ lost < MaxLost
              /\ lost' = lost + 1
              /\ UNCHANGED <<table, staged>>
  /\ pc' = [pc EXCEPT !.at = @ + 1]
  /\ UNCHANGED <<boot, walk, slots, unit, model, caches, device, got, lines,
                 stuck, unacked>>

(* A root that finds no frame for the levels below it is not given back.   *)
BindEnds ==
  /\ In("bind")
  /\ pc.at > Len(Candidates) \/ free < 3
  /\ free' = IF pc.at > Len(Candidates) THEN free ELSE 0
  /\ IF \A d \in Doms : staged[d] = NoBdf THEN Goto("done") ELSE Goto("deny")
  /\ UNCHANGED <<boot, walk, tables, model, caches, device, got, lines,
                 counts>>

Bound == {staged[d] : d \in Doms} \ {NoBdf}
Unbound == {Bdf(f) : f \in Present} \ Bound

(* Every other function gets the deny entry; some stores may not take.  No *)
(* frame for the empty table: nothing is enabled.                          *)
DenyRest ==
  /\ In("deny")
  /\ IF free = 0
     THEN Goto("done") /\ UNCHANGED <<free, table, lost>>
     ELSE \E missed \in SUBSET Unbound :
            /\ lost + Cardinality(missed) <= MaxLost
            /\ lost' = lost + Cardinality(missed)
            /\ table' = [b \in DOMAIN table |->
                 IF b \in Unbound \ missed THEN DenyEntry ELSE table[b]]
            /\ free' = free - 1
            /\ Goto("sweep")
  /\ UNCHANGED <<boot, walk, staged, slots, unit, model, caches, device, got,
                 lines, stuck, unacked>>

(* What an entry has to be, in both words. *)
Wanted(b) == IF b \in Bound
             THEN LET d == CHOOSE d \in Doms : staged[d] = b IN Entry(d, d)
             ELSE DenyEntry

(* The entries read back and found to be something else. *)
Swept == {b \in {Bdf(f) : f \in Present} : table[b] # Wanted(b)}

(* One of them ends the boot (A::exit). *)
Sweep ==
  /\ In("sweep")
  /\ IF Swept # {} THEN Goto("exit") ELSE Goto("arm")
  /\ UNCHANGED <<boot, free, walk, tables, model, caches, device, got, lines,
                 counts>>

(* Event log, command buffer and the store its completion waits use: each  *)
(* if there is a frame and the register takes it.                          *)
Arm ==
  LET cmd == free >= 2 /\ "CBBR" \in boot.regs
      store == free >= 3 /\ "CBBR" \in boot.regs
  IN  /\ In("arm")
      /\ unit' = (IF free >= 1 /\ "ELBR" \in boot.regs THEN {"ELBR"} ELSE {})
                 \cup (IF cmd THEN {"CBBR"} ELSE {})
                 \cup (IF store THEN {"store"} ELSE {})
      /\ free' = free - Min({free, IF "CBBR" \in boot.regs THEN 3 ELSE 2})
      /\ Goto("enable")
      /\ UNCHANGED <<boot, walk, staged, slots, table, model, caches, device,
                     got, lines, counts>>

(* Enable; the domains are published if and only if that took. *)
Enable ==
  /\ In("enable")
  /\ IF "CTRL" \in boot.regs
     THEN /\ unit' = unit \cup {"CTRL"}
          /\ slots' = staged
          /\ Goto("drive")
     ELSE Goto("done") /\ UNCHANGED <<unit, slots>>
  /\ UNCHANGED <<boot, free, walk, staged, table, model, caches, device, got,
                 lines, counts>>

(* prove_containment needs edu, its BAR, and the register that says so. *)
Drive ==
  /\ In("drive")
  /\ IF Target # << >> /\ IsEdu(Target[1]) /\ boot.bar
     THEN Goto("contained") ELSE Goto("done")
  /\ UNCHANGED <<boot, free, walk, tables, model, caches, device, got, lines,
                 counts>>
-----------------------------------------------------------------------------
(* The instructions of the proof.  A device address is an IOVA or, where   *)
(* the unit lets it through, the frame's own.                              *)
alloc(f, orelse) == [op |-> "alloc", frame |-> f, orelse |-> orelse]
fill(f, with) == [op |-> "fill", frame |-> f, with |-> with]
see(f, as) == [op |-> "see", frame |-> f, as |-> as]
need(D, orelse) == [op |-> "need", domains |-> D, orelse |-> orelse]
grant(d, f, r) == [op |-> "grant", d |-> d, frame |-> f, rights |-> r]
revoke(d, f) == [op |-> "revoke", d |-> d, frame |-> f]
leaf(v, f, r, as) ==
  [op |-> "leaf", iova |-> v, frame |-> f, rights |-> r, as |-> as]
put(d, v, f) == [op |-> "put", d |-> d, iova |-> v, frame |-> f]
clear(d, V) == [op |-> "clear", d |-> d, iovas |-> V]
unmap(d, v) == [op |-> "unmap", d |-> d, iova |-> v]
in(addr, as) == [op |-> "run", access |-> "READ", addr |-> addr, after |-> "-",
                 as |-> as]
out(addr, after, as) == [op |-> "run", access |-> "WRITE", addr |-> addr,
                         after |-> after, as |-> as]
entry(root) == [op |-> "entry", root |-> root]
flush(d) == [op |-> "flush", d |-> d]
say(name) == [op |-> "say", name |-> name]
Op(name) == [op |-> name]

(* With empty tables: push a pattern in, bring the buffer out. *)
Attempted == <<
  alloc("target", "done"), fill("target", "SENTINEL"),
  alloc("src", "done"), fill("src", "PATTERN"),
  in("src", "in_ok"), out("target", "-", "out_ok"), see("target", "wrote") >>

(* Grant two frames and map them, and try to map one that is not granted.  *)
(* An early end leaves what was granted and mapped so far.                 *)
Mapped == <<
  need({1}, "perdevice"), alloc("dst", "perdevice"), alloc("ro", "perdevice"),
  grant(1, "dst", RW), grant(1, "src", RW), grant(1, "ro", RO),
  leaf("IOVA", "dst", RW, "dst_ok"), leaf("IOVA_SRC", "src", RW, "src_ok"),
  alloc("ungranted", "perdevice"), fill("ungranted", "SENTINEL"),
  leaf("IOVA_UNGRANTED", "ungranted", RW, "ungranted_ok"), Op("check") >>

(* Through translation: in and out, then a write to the page granted for   *)
(* reading, to the address wider rights were refused for, and to the one   *)
(* nothing was mapped at.                                                  *)
Probed == <<
  in("IOVA_SRC", "loaded"), out("IOVA", "loaded", "ok"), see("dst", "landed"),
  fill("ro", "SENTINEL"), leaf("IOVA_RO", "ro", RO, "ro_ok"),
  leaf("IOVA_WIDER", "ro", RW, "wider_ok"),
  out("IOVA_RO", "-", "ro_done"), out("IOVA_WIDER", "-", "ignored"),
  see("ro", "ro_seen"),
  out("IOVA_UNGRANTED", "-", "ungranted_done"),
  see("ungranted", "ungranted_seen"),
  say("TRANSLATED"), say("UNREACHABLE") >>

(* Faulty variant of Withdrawn: the model is taken for the hardware. *)
WithdrawnFromModel == << revoke(1, "ro"), revoke(1, "dst"), revoke(1, "src") >>

(* Withdraw, in the model and in the table. *)
Withdrawn == <<
  revoke(1, "ro"), clear(1, {"IOVA_RO", "IOVA_WIDER"}),
  revoke(1, "dst"), clear(1, {"IOVA"}),
  revoke(1, "src"), clear(1, {"IOVA_SRC"}) >>

(* Tell the unit, and try the address that worked a moment ago. *)
Revoked == <<
  flush(1), fill("dst", "SENTINEL"), out("IOVA", "-", "ignored"),
  see("dst", "after_withdraw"), say("REVOKED") >>

(* Under the deny entry: pull a marked frame into the buffer... *)
DenyRead == <<
  grant(1, "src", RW), put(1, "IOVA_SRC", "src"),
  fill("src", "SENTINEL"), fill("dst", "READMARK"),
  in("IOVA_SRC", "load_ok"),
  entry(DENY), flush(1), in("dst", "attempt_ok"), entry(1), flush(1),
  out("IOVA_SRC", "-", "extract_ok"), see("src", "leaked"),
  clear(1, {"IOVA_SRC"}), unmap(1, "IOVA_SRC"), revoke(1, "src"), flush(1),
  say("DENY_BLOCKS_READS") >>

(* Faulty variant of DenyWrite: only the address of the lost mapping. *)
DenyWriteIova == <<
  fill("dst", "SENTINEL"), entry(DENY), flush(1),
  out("IOVA", "-", "done"), see("dst", "seen"),
  entry(1), flush(1), say("DENY_WORKS"), say("RIGHTS") >>

(* ...and write, to the address and to the frame itself. *)
DenyWrite == <<
  fill("dst", "SENTINEL"), entry(DENY), flush(1),
  out("IOVA", "-", "first"), out("dst", "first", "done"), see("dst", "seen"),
  entry(1), flush(1), say("DENY_WORKS"), say("RIGHTS") >>

(* A frame mapped in the other device's domain, then in edu's own. *)
PerDevice == <<
  alloc("other", "controls"), need({1, 2}, "controls"),
  fill("other", "SENTINEL"),
  grant(2, "other", RW), put(2, "IOVA_OTHER", "other"),
  out("IOVA_OTHER", "-", "ignored"), see("other", "across"),
  grant(1, "other", RW), put(1, "IOVA_OTHER", "other"),
  out("IOVA_OTHER", "-", "ignored"), see("other", "within"), say("PER-DEVICE"),
  clear(1, {"IOVA_OTHER"}), unmap(1, "IOVA_OTHER"), revoke(1, "other"),
  clear(2, {"IOVA_OTHER"}), unmap(2, "IOVA_OTHER"), revoke(2, "other"),
  flush(1), flush(2) >>

(* An entry the unit must reject and a command it does not know. *)
Controls == << entry(RESERVED), out("IOVA_FRESH", "-", "ignored"), entry(1),
               Op("illegal"), say("CONTAINED") >>

Script == [contained |-> Attempted, translated |-> Mapped \o Probed,
           withdraw |-> Withdrawn \o Revoked,
           denied |-> DenyRead \o DenyWrite, perdevice |-> PerDevice,
           controls |-> Controls]
Following == [contained |-> "translated", translated |-> "withdraw",
              withdraw |-> "denied", denied |-> "perdevice",
              perdevice |-> "controls", controls |-> "done"]

-----------------------------------------------------------------------------
(* The program counter. *)
Step == Script[pc.phase][pc.at]
Doing(op) == pc.phase \in DOMAIN Script /\ Step.op = op
Advance == pc' = IF pc.at < Len(Script[pc.phase])
                 THEN [pc EXCEPT !.at = @ + 1] ELSE At(Following[pc.phase])
Set(name, value) == got' = (name :> value) @@ got

Alloc ==
  /\ Doing("alloc")
  /\ IF free > 0
     THEN /\ free' = free - 1
          /\ mem' = (Step.frame :> "zero") @@ mem
          /\ Advance
     ELSE Goto(Step.orelse) /\ UNCHANGED <<free, mem>>
  /\ UNCHANGED <<boot, walk, tables, model, caches, buffer, inflight, got,
                 lines, counts>>

Fill ==
  /\ Doing("fill")
  /\ mem' = [mem EXCEPT ![Step.frame] = Step.with]
  /\ Advance
  /\ UNCHANGED <<boot, free, walk, tables, model, caches, buffer, inflight,
                 got, lines, counts>>

(* `first_disturbed`, and the reads of a single word. *)
See ==
  /\ Doing("see")
  /\ Set(Step.as, mem[Step.frame])
  /\ Advance
  /\ UNCHANGED <<boot, free, walk, tables, model, caches, device, lines,
                 counts>>

(* Phases that need a table the boot may not have built, and the end of    *)
(* `translated` when the domain decided otherwise than it must.            *)
Check ==
  /\ Doing("need") \/ Doing("check")
  /\ IF Step.op = "need"
     THEN IF \A d \in Step.domains : staged[d] # NoBdf
          THEN Advance ELSE Goto(Step.orelse)
     ELSE IF got.dst_ok /\ got.src_ok /\ ~got.ungranted_ok
          THEN Advance ELSE Goto("perdevice")
  /\ UNCHANGED <<boot, free, walk, tables, model, caches, device, got, lines,
                 counts>>

(* The domain decides and the leaf records what it allowed (`leaf`); the   *)
(* later phases write theirs whatever it said (`put`).                     *)
Leaf(v, f, r) == [iova |-> v, frame |-> f, rights |-> r]
Write(leaves, new) == {m \in leaves : m.iova # new.iova} \cup {new}

Domain ==
  /\ \/ /\ Doing("grant") \/ Doing("revoke")
        /\ LET after(d) == IF Step.op = "revoke" THEN RevokeFrame(d, Step.frame)
                           ELSE Grant(d, Step.frame, Step.rights, G)
           IN  IF Step.d = 1 THEN dom' = after(dom) /\ UNCHANGED dom2
                             ELSE dom2' = after(dom2) /\ UNCHANGED dom
        /\ UNCHANGED <<l1, got>>
     \/ /\ Doing("leaf")
        /\ LET ok == MapAnswer(dom, Step.iova, Step.frame, Step.rights, M)
           IN  /\ Set(Step.as, ok = "Ok")
               /\ l1' = [l1 EXCEPT ![1] = IF ok # "Ok" THEN @ ELSE
                   Write(@, Leaf(Step.iova, Step.frame, Step.rights))]
        /\ dom' = Map(dom, Step.iova, Step.frame, Step.rights, M)
        /\ UNCHANGED dom2
     \/ /\ Doing("put")
        /\ l1' = [l1 EXCEPT ![Step.d] =
                    Write(@, Leaf(Step.iova, Step.frame, RW))]
        /\ IF Step.d = 1
           THEN dom' = Map(dom, Step.iova, Step.frame, RW, M) /\ UNCHANGED dom2
           ELSE dom2' = Map(dom2, Step.iova, Step.frame, RW, M) /\ UNCHANGED dom
        /\ UNCHANGED got
     \/ /\ Doing("clear")
        /\ l1' = [l1 EXCEPT ![Step.d] = {m \in @ : m.iova \notin Step.iovas}]
        /\ UNCHANGED <<dom, dom2, got>>
     \/ /\ Doing("unmap")
        /\ IF Step.d = 1 THEN dom' = Unmap(dom, Step.iova) /\ UNCHANGED dom2
                         ELSE dom2' = Unmap(dom2, Step.iova) /\ UNCHANGED dom
        /\ UNCHANGED <<l1, got>>
  /\ Advance
  /\ UNCHANGED <<boot, free, walk, tables, caches, device, lines, counts>>

(* Word 0 of edu's entry.  If its entry was never built the address is 0,  *)
(* and the store goes to the bottom of memory.                             *)
StoreEntry ==
  /\ Doing("entry")
  /\ table' = IF staged[1] = NoBdf THEN table
              ELSE [table EXCEPT ![staged[1]].root = Step.root]
  /\ Advance
  /\ UNCHANGED <<boot, free, walk, staged, slots, unit, model, caches, device,
                 got, lines, counts>>

(* What the unit makes of a command it does not know: perhaps it stops. *)
IllegalCommand ==
  /\ Doing("illegal")
  /\ unit' \in {unit, unit \ {"store"}}
  /\ Advance
  /\ UNCHANGED <<boot, free, walk, staged, slots, table, model, caches,
                 device, got, lines, counts>>
-----------------------------------------------------------------------------
(* The unit: where an access of edu ends up.  Cached translations answer   *)
(* first, then the cached or the stored entry, then the table it names.    *)
Hits(v) == {t \in iotlb : t.iova = v}
EduEntry == IF devtab # << >> THEN devtab[1] ELSE table[Edu]
Through(addr) == IF addr \in DOMAIN mem THEN {addr} ELSE {}

Walked(addr) ==
  LET own == {m \in l1[EduEntry.root] : m.iova = addr}
      any == {m \in UNION {l1[d] : d \in Doms} : m.iova = addr}
  IN  IF boot.fault = "shared" THEN any ELSE own

Lets(rights, access) == access \in rights \/ boot.fault = "rights"
DenyLets(access) ==
  boot.fault = "deny passes" \/ <<boot.fault, access>> \in
    {<<"deny lets read", "READ">>, <<"deny lets write", "WRITE">>}

Reached(addr, access) ==
  IF boot.fault = "off" THEN Through(addr)
  ELSE IF boot.fault = "wall" THEN {}
  ELSE IF Hits(addr) # {}
  THEN {t.frame : t \in {t \in Hits(addr) : Lets(t.rights, access)}}
  ELSE CASE EduEntry.root = PASS -> Through(addr)
         [] EduEntry.root = RESERVED -> {}
         [] EduEntry.root = DENY ->
              IF DenyLets(access) THEN Through(addr) ELSE {}
         [] OTHER -> {m.frame : m \in {m \in Walked(addr) :
                                         Lets(m.rights, access)}}

(* One transfer of 64 bytes.  A refused read leaves the buffer zeroed. *)
Land(t) ==
  LET frames == Reached(t.addr, t.access)
      f == CHOOSE f \in frames : TRUE
      walks == boot.fault \notin {"off", "wall"} /\ Hits(t.addr) = {}
  IN  /\ buffer' = IF t.access = "WRITE" THEN buffer
                   ELSE IF frames = {} THEN "zero" ELSE mem[f]
      /\ mem' = IF t.access = "WRITE" /\ frames # {}
                THEN [mem EXCEPT ![f] = buffer] ELSE mem
      /\ devtab' = IF walks THEN <<EduEntry>> ELSE devtab
      /\ iotlb' = IF walks /\ EduEntry.root > 0 /\ frames # {}
                  THEN iotlb \cup {[iova |-> m.iova, frame |-> m.frame,
                                    rights |-> m.rights,
                                    domain |-> EduEntry.domain] :
                                   m \in Walked(t.addr)}
                  ELSE iotlb
      /\ UNCHANGED owed

(* `run`: program the device and poll it.  It finishes... *)
Asks == Doing("run") /\ (Step.after # "-" => got[Step.after])

TransferDone ==
  /\ Asks
  /\ Land(Step)
  /\ inflight' = << >>
  /\ Set(Step.as, TRUE)
  /\ Advance
  /\ UNCHANGED <<boot, free, walk, tables, model, lines, counts>>

(* ...or the poll gives up on it... *)
TransferStuck ==
  /\ Asks
  /\ stuck < MaxStuck
  /\ stuck' = stuck + 1
  /\ inflight' = <<Step>>
  /\ Set(Step.as, FALSE)
  /\ Advance
  /\ UNCHANGED <<boot, free, walk, tables, model, caches, mem, buffer, lines,
                 unacked, lost>>

(* ...or an earlier one did, and this one is not asked for. *)
TransferSkipped ==
  /\ Doing("run") /\ ~Asks
  /\ Set(Step.as, FALSE)
  /\ Advance
  /\ UNCHANGED <<boot, free, walk, tables, model, caches, device, lines,
                 counts>>

TransferLate ==
  /\ inflight # << >>
  /\ Land(inflight[1])
  /\ inflight' = << >>
  /\ UNCHANGED <<boot, pc, free, walk, tables, model, got, lines, counts>>

(* The unit executes the flushes of the domains D: their translations, and *)
(* the entry of the device bound to each.                                  *)
Execute(D) ==
  /\ iotlb' = IF boot.fault = "stale" THEN iotlb
              ELSE {t \in iotlb : t.domain \notin D}
  /\ devtab' = IF 1 \in D THEN << >> ELSE devtab
  /\ owed' = {}

(* `iommu_invalidate`: answered, with everything queued before it... *)
FlushAnswered ==
  /\ Doing("flush")
  /\ "store" \in unit
  /\ Execute(owed \cup {Step.d})
  /\ Advance
  /\ UNCHANGED <<boot, free, walk, tables, model, device, got, lines, counts>>

(* ...or not in time, or there is nothing to ask with. *)
FlushUnanswered ==
  /\ Doing("flush")
  /\ IF "store" \in unit
     THEN unacked < MaxTimeouts /\ owed' = owed \cup {Step.d}
     ELSE UNCHANGED owed
  /\ unacked' = unacked + 1
  /\ Advance
  /\ UNCHANGED <<boot, free, walk, tables, model, iotlb, devtab, device, got,
                 lines, stuck, lost>>

FlushLate ==
  /\ owed # {}
  /\ Execute(owed)
  /\ UNCHANGED <<boot, pc, free, walk, tables, model, device, got, lines,
                 counts>>

-----------------------------------------------------------------------------
(* The verdicts: what each line was printed from. *)
Good(name) ==
  CASE name = "CONTAINED" -> got.wrote = "SENTINEL"
    [] name = "TRANSLATED" -> got.landed = "PATTERN"
    [] name = "UNREACHABLE" -> got.ungranted_done
                               /\ got.ungranted_seen = "SENTINEL"
    [] name = "REVOKED" -> got.after_withdraw = "SENTINEL"
    [] name = "DENY_BLOCKS_READS" ->
         /\ got.load_ok /\ got.attempt_ok /\ got.extract_ok
         /\ got.leaked # "READMARK"
    [] name = "DENY_WORKS" -> got.done /\ got.seen = "SENTINEL"
    [] name = "RIGHTS" -> got.ro_done /\ got.ro_seen = "SENTINEL"
    [] name = "PER-DEVICE" -> got.across = "SENTINEL"
                              /\ got.within # "SENTINEL"

Say ==
  /\ Doing("say")
  /\ lines' = lines \cup {<<Step.name, Good(Step.name)>>}
  /\ Advance
  /\ UNCHANGED <<boot, free, walk, tables, model, caches, device, got, counts>>

(* The calls that follow the boot, on a unit that is as it should be. *)
Calls ==
  /\ In("done") \/ In("calls")
  /\ slots[1] # NoBdf
  /\ boot.fault = "none" /\ stuck + unacked + lost = 0
  /\ Next
  /\ Goto("calls")
  /\ UNCHANGED <<boot, free, walk, tables, dom2, l1, caches, device, got,
                 lines, counts>>

BringUp == \/ FindUnit \/ Scan \/ BindDevice(TRUE) \/ BindDevice(FALSE)
           \/ BindEnds \/ DenyRest \/ Sweep \/ Arm \/ Enable \/ Drive
Proof == \/ Alloc \/ Fill \/ See \/ Check \/ Domain \/ StoreEntry
         \/ IllegalCommand \/ TransferDone \/ TransferStuck
         \/ TransferSkipped \/ FlushAnswered \/ FlushUnanswered \/ Say
Hardware == TransferLate \/ FlushLate

BootNext == BringUp \/ Proof \/ Hardware \/ Calls

BootSpec == BootInit /\ [][BootNext]_bvars

-----------------------------------------------------------------------------
(* The functions the unit may see transfers from: those behind any chain   *)
(* of bridges, as a closure and not as a walk.                             *)
Behind(fns) ==
  LET reach[k \in 0..Cardinality(fns)] ==
        IF k = 0 THEN {0}
        ELSE reach[k - 1] \cup {f.secondary : f \in {f \in fns :
               f.kind = "bridge" /\ f.bus \in reach[k - 1]}}
  IN  {f \in fns : f.bus \in reach[Cardinality(fns)]}

(* A published domain is a domain the hardware enforces.  From the moment  *)
(* DOMAIN_SLOTS names a device the unit translates, no function on any bus *)
(* is passed through, and each one is under its own table with its own     *)
(* DomainID, which only a function whose requester id is its BDF may have, *)
(* or under the empty table that no flush of a domain speaks for.  The     *)
(* device being driven is the one exception: the proof swaps its entry.    *)
PublishedBounded ==
  (\E d \in Doms : slots[d] # NoBdf) =>
    /\ "CTRL" \in unit
    /\ \A f \in Behind(boot.fns) :
         LET e == table[Bdf(f)]
             mine == {d \in Doms : slots[d] = Bdf(f)}
         IN  /\ e.root # PASS
             /\ mine = {} => e = DenyEntry
             /\ \A d \in mine : /\ f.bus = 0 /\ e.domain = d
                                /\ e.root = d \/ (d = 1 /\ Bdf(f) = Edu)

Faultless == boot.fault = "none" /\ stuck + unacked + lost = 0
Claimed(name) == <<name, TRUE>> \in lines

(* The fault each verdict is there to notice. *)
Notices == {<<"off", "CONTAINED">>, <<"wall", "TRANSLATED">>,
            <<"wall", "PER-DEVICE">>, <<"rights", "RIGHTS">>,
            <<"stale", "REVOKED">>, <<"shared", "PER-DEVICE">>,
            <<"deny passes", "DENY_WORKS">>,
            <<"deny passes", "DENY_BLOCKS_READS">>,
            <<"deny lets write", "DENY_WORKS">>,
            <<"deny lets read", "DENY_BLOCKS_READS">>}

(* The verdicts that are printed only if the transfers they rest on ran. *)
Conclusive == {"TRANSLATED", "RIGHTS", "DENY_WORKS", "DENY_BLOCKS_READS"}

(* The proof can fail.  On a unit that is broken in one of these ways, and *)
(* with every flush answered, the line that claims otherwise is not        *)
(* printed: if the device finishes every transfer, and for the verdicts    *)
(* that insist on their transfers also if it does not, unless another line *)
(* reports a failure.  (DENY WORKS needs the failure of the read probe     *)
(* before it: a read that never ran leaves the sentinel in the buffer, and *)
(* the sentinel written over itself shows nothing.)  On a sound machine no *)
(* verdict comes out badly.                                                *)
ProbesDiscriminate ==
  /\ unacked = 0 => \A n \in Notices :
       (stuck = 0 \/ (n[2] \in Conclusive /\ \A l \in lines : l[2]))
         => ~(boot.fault = n[1] /\ Claimed(n[2]))
  /\ Faultless => \A l \in lines : l[2]

(* The proof leaves nothing behind: when it is over no grant, no leaf and, *)
(* if the unit did what it was told, no cached translation of its frames   *)
(* stands in either domain, and edu is back under its own entry.  The one  *)
(* exception is a boot that ran out of frames between the first grant and  *)
(* the last allocation of `translated`.                                    *)
NothingStands ==
  In("done") =>
    \/ /\ dom = EmptyDomain /\ dom2 = EmptyDomain
       /\ \A d \in Doms : l1[d] = {}
       /\ boot.fault = "none" /\ unacked = 0 => iotlb = {}
       /\ slots[1] # NoBdf => table[slots[1]] = Entry(1, 1)
    \/ "ro" \in DOMAIN mem /\ "ungranted" \notin DOMAIN mem /\ free = 0
=============================================================================
