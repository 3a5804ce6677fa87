--------------------------- MODULE MCSamplerAudit ---------------------------
(***************************************************************************)
(* Instances of the audited sampler: two goroutines and three messages,    *)
(* one of them FATAL, on two counters.                                     *)
(***************************************************************************)
EXTENDS SamplerAudit, TLC

CONSTANTS p1, p2, msg, other, fatal

MCProcs == {p1, p2}
MCKeys == {msg, other, fatal}
MCFatalKeys == {fatal}
MCBucketOf == (msg :> 0) @@ (other :> 1) @@ (fatal :> 0)
MCSymmetry == Permutations(MCProcs)
=============================================================================
