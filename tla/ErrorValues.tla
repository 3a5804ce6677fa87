---------------------------- MODULE ErrorValues -----------------------------
(***************************************************************************)
(* Errors as a program makes them, with errors.New, fmt.Errorf, errors.Join*)
(* or as types of its own, and what errors.go finds out about one: its     *)
(* message, its causes and whether it has a stack. Errors are logged as    *)
(* they are, so methods may panic, errors may be typed nil pointers, and   *)
(* an error may wrap itself.                                               *)
(*                                                                         *)
(* An error is a number, errs[e] what it is: its text, a sequence of pieces*)
(* of text; its Unwrap method ("none", "one" or "many") and what that      *)
(* returns; which methods panic; whether it is a nil pointer; and whether  *)
(* "%+v" formats it with a stack.                                          *)
(***************************************************************************)
EXTENDS Integers, Sequences, SequencesExt

CONSTANTS
  Texts,     \* what errors.New and fmt.Errorf are given
  Customs,   \* errors of the program's own types, still without causes
  MaxErrors, \* bound on errors
  Nil        \* a nil error

ASSUME ErrorAssumption ==
  /\ MaxErrors \in Nat
  /\ Nil \notin Nat

(* Pieces of text with a meaning of their own.                             *)
Colon == ": "
NewLine == "\n"
NilText == <<"<nil>">>
PanicText == <<"<error message panicked>">>

VARIABLE errs

Errors == DOMAIN errs

Error(text, unwrap, causes, panics) ==
  [text |-> text, unwrap |-> unwrap, causes |-> causes, panics |-> panics,
   nil |-> FALSE, stack |-> FALSE]

MessagePanics(e) == errs[e].nil \/ "message" \in errs[e].panics

(* The texts of causes, one after the other, with sep between them.        *)
Joined(texts, sep) ==
  FlattenSeq([i \in 1..Len(texts) |-> IF i = 1 THEN texts[i] ELSE <<sep>> \o texts[i]])

Make(error) ==
  /\ Len(errs) < MaxErrors
  /\ errs' = Append(errs, error)

New == \E text \in Texts : Make(Error(text, "none", <<>>, {}))

(* fmt.Errorf("text: %w", e), which survives a panic of e's Error.         *)
Wrap ==
  \E text \in Texts, e \in Errors :
    Make(Error(text \o <<Colon>> \o
                 (IF MessagePanics(e) THEN <<"%!w(PANIC)">> ELSE errs[e].text),
               "one", <<e>>, {}))

Lists(S) == UNION {[1..n -> S] : n \in 0..2}

(* errors.Join leaves nil out; its Error calls that of each cause.         *)
Join ==
  \E list \in Lists(Errors \cup {Nil}) :
    LET causes == SelectSeq(list, LAMBDA c : c # Nil)
    IN  /\ causes # <<>>
        /\ Make(Error(Joined([i \in DOMAIN causes |-> errs[causes[i]].text], NewLine),
                      "many", causes,
                      IF \E i \in DOMAIN causes : MessagePanics(causes[i])
                      THEN {"message"} ELSE {}))

(* An error of the program's own, which may hold nil errors and itself.    *)
Custom ==
  \E custom \in Customs, list \in Lists(Errors \cup {Nil, Len(errs) + 1}) :
    /\ custom.unwrap = "none" => list = <<>>
    /\ custom.unwrap = "one" => Len(list) = 1
    /\ Make([custom EXCEPT !.causes = list])

(* The program stores a cause in an error that had none.                   *)
SetCause ==
  \E e \in Errors, cause \in Errors :
    /\ errs[e].unwrap = "one" /\ errs[e].causes = <<Nil>>
    /\ errs' = [errs EXCEPT ![e].causes = <<cause>>]

Init == errs = <<>>

Next == New \/ Wrap \/ Join \/ Custom \/ SetCause

-----------------------------------------------------------------------------
(* isNilError                                                              *)
IsNilError(e) == e = Nil \/ errs[e].nil

(* unwrapMany and unwrapOne: an Unwrap that panics returns nothing.        *)
Unwrap(e) == IF "unwrap" \in errs[e].panics THEN <<>> ELSE errs[e].causes

NotNil(list) == SelectSeq(list, LAMBDA c : c # Nil)

(* errorCauses: nil causes are left out; a typed nil pointer is a cause.   *)
ErrorCauses(e) == IF IsNilError(e) THEN <<>> ELSE NotNil(Unwrap(e))

(* errorMessage                                                            *)
ErrorMessage(e) ==
  IF IsNilError(e) THEN NilText
  ELSE IF "message" \in errs[e].panics THEN PanicText
  ELSE errs[e].text

(* errorStack: whether there is one.                                       *)
ErrorStack(e) == ~IsNilError(e) /\ errs[e].stack
=============================================================================
