------------------------------ MODULE MCErrors ------------------------------
(***************************************************************************)
(* An instance for TLC of errors that are made, shown and asserted: texts  *)
(* of no, one and two lines, and errors of the program's own types, one    *)
(* whose text ends as its cause does, one that wraps several, one whose    *)
(* Error and one whose Unwrap panics, and a nil pointer.                   *)
(***************************************************************************)
EXTENDS Recorder

CONSTANTS r1, r2

MCRecords == {r1, r2}
MCSymmetry == Permutations(MCRecords)

MCTexts == {<<>>, <<"a">>, <<"b", NewLine, "c">>}

Type(text, unwrap, panics, nil, stack) ==
  [text |-> text, unwrap |-> unwrap, causes |-> <<>>, panics |-> panics,
   nil |-> nil, stack |-> stack]

MCCustoms ==
  {Type(<<"d", Colon, "a">>, "one", {}, FALSE, TRUE),
   Type(<<"a">>, "many", {}, FALSE, TRUE),
   Type(<<"p">>, "one", {"message"}, FALSE, FALSE),
   Type(<<"q">>, "many", {"unwrap"}, FALSE, FALSE),
   Type(<<>>, "none", {}, TRUE, FALSE)}
=============================================================================
