------------------------- MODULE MCDerivedHandlers --------------------------
(***************************************************************************)
(* Instances for TLC of the derived handlers, and of the requests of       *)
(* MCHttpAccess. The two have nothing to do with each other: one of them   *)
(* is at work in a behavior, while the other stays as it is.               *)
(***************************************************************************)
EXTENDS DerivedHandlers, MCHttpAccess, TLC

CONSTANTS g1, g2, h0, h1, h2, x, y

MCGoroutines == {g1, g2}
MCIds == {h0, h1, h2}
MCValues == {x, y}
MCAttrLists == {<<>>, <<x>>, <<y, x>>}
MCNames == {x}
MCSymmetry == Permutations(MCGoroutines) \cup Permutations(MCIds \ {h0})

(* The two before anything happens to them.                                *)
RequestRests ==
  RequestInit /\ setup = [flush |-> FALSE, hijack |-> FALSE, enabled |-> {}]

MCInit == Init /\ RequestInit

MCNext ==
  \/ Next /\ RequestRests /\ UNCHANGED requestVars
  \/ RequestNext /\ Init /\ UNCHANGED vars

MCSpec == MCInit /\ [][MCNext]_<<vars, requestVars>>
=============================================================================
