-------------------------------- MODULE Loops --------------------------------
(***************************************************************************)
(* Loops of the code that go over a slice and append some of its elements  *)
(* to another slice, step by step.                                         *)
(***************************************************************************)
EXTENDS Naturals, Sequences

(* What a loop over s has appended after n steps, if it leaves out the     *)
(* elements whose index is not in keep.                                    *)
Appended(s, keep) ==
  LET after[n \in 0..Len(s)] ==
        IF n = 0 THEN <<>>
        ELSE IF n \in keep THEN Append(after[n - 1], s[n])
        ELSE after[n - 1]
  IN  after
=============================================================================
