---------------------------- MODULE MCIommuBoot ----------------------------
(***************************************************************************)
(* Machines to boot: edu and a network card on the root bus, the IOMMU, a  *)
(* bridge with a card behind it; topologies that do not fit the scan, that *)
(* loop, that have no edu; tables that do not check out; registers that do *)
(* not take; and every number of frames at which something fails.          *)
(***************************************************************************)
EXTENDS IommuBoot

MCRights == RW

Fn(bus, dev, func, kind) ==
  [bus |-> bus, dev |-> dev, func |-> func, kind |-> kind, secondary |-> 0,
   multi |-> FALSE]
Bridge(bus, dev, to) == [Fn(bus, dev, 0, "bridge") EXCEPT !.secondary = to]

edu == Fn(0, 5, 0, "edu")
nic == Fn(0, 2, 0, "ethernet")
vga == Fn(0, 1, 0, "other")
behind == Fn(1, 0, 0, "ethernet")

(* Two domains, one function left over, one behind a bridge. *)
Rig == {Fn(0, 0, 0, "iommu"), nic, edu, Bridge(0, 6, 1), behind}
Loops == {edu, Bridge(0, 6, 1), Bridge(1, 0, 0), Bridge(1, 1, 1)}
TooManyBuses == {edu, Bridge(0, 6, 1), Bridge(1, 0, 2), Fn(2, 0, 0, "ethernet")}
TooManyFunctions == Rig \cup {vga}
NoEdu == {nic, vga}
NoTarget == {vga}

Rsdp == [signature |-> TRUE, sum |-> TRUE, revision |-> 2, extendedSum |-> TRUE,
         rsdt |-> 40]
Ivrs == [signature |-> "IVRS", len |-> 80, sum |-> TRUE,
         block |-> [len |-> 24, base |-> 1]]
Tables(ivrs) == (40 :> [signature |-> "RSDT", len |-> 44, sum |-> TRUE,
                        entries |-> <<300, 90, 150>>])
                @@ (90 :> [signature |-> "FACP", len |-> 40, sum |-> FALSE])
                @@ (150 :> ivrs)
Acpi(rsdp, ivrs) ==
  [firmware |-> TRUE,
   window |-> <<[Rsdp EXCEPT !.sum = FALSE], rsdp>>,
   tables |-> Tables(ivrs)]
Pvh(magic, at) ==
  [firmware |-> FALSE, tables |-> Tables(Ivrs),
   info |-> [magic |-> magic, rsdp |-> at, at |-> Rsdp]]

Registers == {"DTBR", "ELBR", "CBBR", "CTRL"}
Sound == [fns |-> Rig, acpi |-> Acpi(Rsdp, Ivrs), frames |-> 16,
          fault |-> "none", regs |-> Registers, apertureMaps |-> TRUE,
          contiguous |-> TRUE, bar |-> TRUE]

MCBoots ==
  {[Sound EXCEPT !.frames = n] : n \in 0..16}
  \cup {[Sound EXCEPT !.fns = F] : F \in {Loops, TooManyBuses, NoEdu, NoTarget,
                                          TooManyFunctions, {edu}, {}}}
  \cup {[Sound EXCEPT !.fault = n[1]] : n \in Notices}
  \cup {[Sound EXCEPT !.regs = @ \ {r}] : r \in Registers}
  \cup {[Sound EXCEPT !.apertureMaps = FALSE], [Sound EXCEPT !.contiguous = FALSE],
        [Sound EXCEPT !.bar = FALSE]}
  \cup {[Sound EXCEPT !.acpi = a] : a \in
         {Acpi([Rsdp EXCEPT !.extendedSum = FALSE], Ivrs),
          Acpi(Rsdp, [Ivrs EXCEPT !.sum = FALSE]),
          Acpi(Rsdp, [Ivrs EXCEPT !.block.len = 40]),
          Acpi(Rsdp, [Ivrs EXCEPT !.len = 60]),
          Pvh(TRUE, 10), Pvh(TRUE, 0), Pvh(FALSE, 10)}}
=============================================================================
