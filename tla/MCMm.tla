--------------------------------- MODULE MCMm ---------------------------------
(* Pages of two bytes, words of three bits: regions that start, end and    *)
(* overlap inside pages, and a bitmap shorter than the memory it is for.   *)
EXTENDS Mm

MCRegion(kinds, starts, lens) == [usable : kinds, start : starts, len : lens]

(* One region of memory with another over it, of either kind. *)
MCOverlaps ==
  {{a, b} : a \in MCRegion({TRUE}, {0, 1}, {9, 12}),
            b \in MCRegion(BOOLEAN, {2, 5, 10, 11}, 0..4)}
=============================================================================
