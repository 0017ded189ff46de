----------------------------- MODULE MCRunQueue -----------------------------
(* The run queue on a handful of threads, one more than it can hold, so    *)
(* that `add` is refused for want of room as well as for a duplicate.      *)
EXTENDS RunQueue

MCThreads == 0..4
=============================================================================
