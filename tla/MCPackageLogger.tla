-------------------------- MODULE MCPackageLogger ---------------------------
(***************************************************************************)
(* Instances of the package-level logger for TLC. There is no symmetry:    *)
(* liveness is checked with them.                                          *)
(***************************************************************************)
EXTENDS PackageLogger

CONSTANTS g1, g2, l0, l1, l2, k1, k2

MCGoroutines == {g1, g2}
MCHooks == {k1, k2}
=============================================================================
