--------------------------- MODULE MCLedgerTable ---------------------------
(* Four table slots, so that a chain of three delegations, a fan-out and a *)
(* recycled slot all happen; the ledger can be full.                       *)
EXTENDS LedgerTable

MCProcs == 0..3
=============================================================================
