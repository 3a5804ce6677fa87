--------------------------- MODULE MCLineHandler ----------------------------
(***************************************************************************)
(* Instances of the line handler for TLC: every record may be logged by a  *)
(* goroutine or from the callback of another record's call.                *)
(***************************************************************************)
EXTENDS LineHandler, TLC

CONSTANTS r1, r2, huge, l1, l2, l3

MCRecords == {r1, r2, huge}
MCLines == {l1, l2, l3}
MCSymmetry == Permutations({r1, r2}) \cup Permutations(MCLines)
=============================================================================
