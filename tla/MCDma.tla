-------------------------------- MODULE MCDma --------------------------------
(* Two processes, one of which drives the devices. *)
EXTENDS Dma

MCDomains == {1, 2}
MCOneDomain == {1}
MCTwo == 1..2
MCThree == 1..3
MCFour == 1..4
=============================================================================
