------------------------- MODULE MCHistoricalExport -------------------------
(***************************************************************************)
(* Model values and bounds for checking HistoricalExport with TLC: seconds  *)
(* of two units and a range that starts in the middle of one. Two events of *)
(* the first interval have the same key, one of them before the range; the  *)
(* second interval has two pages; the fifth event is in the range, and cut; *)
(* the last is in none.                                                     *)
(***************************************************************************)
EXTENDS HistoricalExport, TLC

CONSTANTS e1, e2, e3, e4, e5, e6

Both == {<<5, 8>>, <<11, 11>>}
Times == e1 :> 4 @@ e2 :> 5 @@ e3 :> 6 @@ e4 :> 7 @@ e5 :> 8 @@ e6 :> 14
Keys == e1 :> 1 @@ e2 :> 1 @@ e3 :> 3 @@ e4 :> 2 @@ e5 :> 1 @@ e6 :> 4

(* Three starts, or two and a fault, only as long as no two exports overlap.  *)
Bounded == starts > 1 /\ starts + faults = 3 => ~races

Symmetry == Permutations(JobThread)

=============================================================================
