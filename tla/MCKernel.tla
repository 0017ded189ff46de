------------------------------ MODULE MCKernel ------------------------------
(* Instances of the kernel for TLC: the grant tables of the runs.          *)
EXTENDS KernelSafety, TLC

RO == {READ}
WO == {WRITE}
RW == {READ, WRITE}

(* Rendezvous next to interrupt waits: a process that can spawn, talk and  *)
(* wait for the timer, and a peer that talks and waits for the console.    *)
WaitGrants ==
  (0 :> <<Cap("Untyped", WO, 0), Cap("Irq", RO, 0), Cap("Endpoint", RW, 0)>>)
    @@ (1 :> <<Cap("Endpoint", RW, 0), Cap("Irq", RO, 1)>>)
IpcRequests == {RO, WO}

(* Memory: a process that may create regions and processes, both of which  *)
(* it can hand on.                                                         *)
RegionGrants == (0 :> <<Cap("Untyped", RW, 0)>>)
RegionRequests == {RW, RO}

(* The grant tables the repository boots with, in the order of grants_for: *)
(* producer, consumer, worker.  The worker's IommuDomain capabilities are  *)
(* left out: nothing in this build uses them.  The machine is an x86 with  *)
(* a device whose DMA is bounded: aperture 1 is the stand-in window at     *)
(* DEVICE_PHYS, aperture 2 that device's BAR.  (Without a domain the BAR's *)
(* entry becomes NO_AUTHORITY, and on riscv it names the stand-in window.) *)
ALL == Rights
ShippedGrants ==
  (0 :> <<Cap("Endpoint", WO, 0)>>)
    @@ (1 :> <<Cap("Endpoint", RO, 0)>>)
    @@ (2 :> <<Cap("Endpoint", {}, 0), Cap("Mmio", ALL, 1),
               Cap("Untyped", ALL, 0), Cap("Endpoint", RO, 1),
               Cap("Untyped", RO, 0), Cap("Mmio", WO, 1),
               Cap("Irq", RO, 0), Cap("Irq", RO, 1),
               Cap("Mmio", ALL, 2)>>)
ShippedRequests == {ALL, RO}

MCLines == {0, 1}
=============================================================================
