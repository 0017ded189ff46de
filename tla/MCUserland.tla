----------------------------- MODULE MCUserland -----------------------------
(* The user programs on the grant tables they are booted with.             *)
EXTENDS Userland, TLC

(* grants_for, in its order, on a machine without an IOMMU: aperture 1 is  *)
(* the stand-in window at DEVICE_PHYS, and the bounded device's entry is   *)
(* NO_AUTHORITY.                                                           *)
BootTables ==
  (0 :> <<Cap("Endpoint", {WRITE}, 0)>>)
    @@ (1 :> <<Cap("Endpoint", {READ}, 0)>>)
    @@ (2 :> <<Cap("Endpoint", {}, 0), Cap("Mmio", ALL, 1),
               Cap("Untyped", ALL, 0), Cap("Endpoint", RO, 1),
               Cap("Untyped", RO, 0), Cap("Mmio", {WRITE}, 1),
               Cap("Irq", RO, 0), Cap("Irq", RO, 1),
               Cap("IommuDomain", ALL, 1), Cap("IommuDomain", RO, 1),
               Cap("IommuDomain", ALL, 3), Cap("IommuDomain", ALL, 2),
               Cap("Endpoint", {}, 0)>>)

MCLines == {0, 1}
MCMachines == {"x86_64", "riscv64"}
NoRequests == {}
=============================================================================
