------------------------------ MODULE Recorder ------------------------------
(***************************************************************************)
(* gloqtest.Recorder: goroutines log errors to it, into the store of       *)
(* RecordStore, while a test asserts what was logged.                      *)
(*                                                                         *)
(* A record is one call of Log with an error as its attribute. Level and   *)
(* message, which must be equal, are the same for all.                     *)
(***************************************************************************)
EXTENDS ErrorDetails, RecordStore, FiniteSets

CONSTANTS
  MaxVaried, \* bound on errors, unless they are a chain
  MaxLogged  \* the same, once records are logged

ASSUME RecorderAssumption == MaxVaried \in Nat /\ MaxLogged \in Nat

VARIABLE attr \* per record: the error that is its attribute, or None

recorderVars == <<storeVars, attr>>

vars == <<errs, recorderVars>>

RecorderInit ==
  /\ Init
  /\ StoreInit
  /\ attr = [r \in Records |-> None]

-----------------------------------------------------------------------------
(* e == target: errors are pointers, and nil pointers of a type are equal. *)
Same(e, target) ==
  LET Type(x) == [errs[x] EXCEPT !.causes = <<>>]
  IN  e = target \/ (errs[e].nil /\ Type(e) = Type(target))

RECURSIVE Is(_, _), Walkable(_, _)

(* errors.Is, which neither recovers nor stops at a depth.                 *)
Is(e, target) ==
  e # Nil /\ (Same(e, target) \/ \E i \in DOMAIN errs[e].causes :
                                   Is(errs[e].causes[i], target))

(* Whether errors.Is can walk e at all.                                    *)
Walkable(e, within) ==
  e # Nil =>
    /\ e \notin within
    /\ "unwrap" \notin errs[e].panics
    /\ \A i \in DOMAIN errs[e].causes :
         Walkable(errs[e].causes[i], within \cup {e})

(* As Matches, but the error must be the one that was logged.              *)
MatchesItself(r, target) == attr[r] = target

(* matches, for a record with the error given as attribute.                *)
Matches(r, target) == attr[r] # None /\ Is(attr[r], target)

(* Find and Count, in a copy of the store.                                 *)
Find(records, target) == SelectInSeq(records, LAMBDA r : Matches(r, target)) # 0

Count(records, target) == Len(SelectSeq(records, LAMBDA r : Matches(r, target)))

-----------------------------------------------------------------------------
(* Every error wraps the one before it, with the same text.                *)
Chain ==
  \A e \in Errors :
    errs[e] = IF e = 1 THEN Error(errs[1].text, "none", <<>>, {})
              ELSE Error(errs[1].text \o <<Colon>> \o errs[e - 1].text,
                         "one", <<e - 1>>, {})

(* Bounds: errors are made before anything is recorded; there are more than*)
(* a few of them only in a chain; and the recorder is used with none that  *)
(* errors.Is cannot walk.                                                  *)
Unused == test = Idle /\ resets = 0 /\ \A r \in Records : log[r] = None

InUse ==
  /\ Len(errs) <= MaxLogged \/ Chain
  /\ \A e \in Errors : Walkable(e, {})

(* The program makes its errors.                                           *)
MakeErrors ==
  /\ Unused
  /\ Next
  /\ Len(errs') <= MaxVaried \/ Chain'
  /\ UNCHANGED recorderVars

(* Handle of a record with an error.                                       *)
LogError(r) ==
  /\ InUse
  /\ Log(r)
  /\ \E e \in Errors : attr' = [attr EXCEPT ![r] = e]
  /\ UNCHANGED errs

PutIn(r) ==
  /\ Lock(r) \/ Store(r)
  /\ UNCHANGED <<errs, attr>>

(* An assertion for a record with an error that target is found in.        *)
AssertLogged ==
  /\ \/ \E target \in Errors : InUse /\ Search({r \in Records : Matches(r, target)})
     \/ Dump
     \/ Errorf
  /\ UNCHANGED <<errs, attr>>

ResetStore ==
  /\ InUse
  /\ Reset
  /\ UNCHANGED <<errs, attr>>

RecorderNext ==
  \/ MakeErrors
  \/ \E r \in Records : LogError(r) \/ PutIn(r)
  \/ AssertLogged
  \/ ResetStore

Spec == RecorderInit /\ [][RecorderNext]_vars

-----------------------------------------------------------------------------
RECURSIVE Below(_, _)

(* The errors that handlers show for e, down to depth levels below it.     *)
Below(e, depth) ==
  {e} \cup (IF depth = 0 THEN {}
            ELSE UNION {Below(ErrorCauses(e)[i], depth - 1) :
                          i \in DOMAIN ErrorCauses(e)})

(* "Errors match with errors.Is": an assertion finds and counts a record by*)
(* every error that the handlers show for it, and by those they leave out  *)
(* below their limit of depth, which errors.Is does not have; an error that*)
(* is nowhere in the chain finds nothing.                                  *)
CausesAreFound ==
  \A target \in Errors :
    LET Holds(r, depth) ==
          \E cause \in Below(attr[r], depth) : Same(cause, target)
        holding == {r \in Stored : Holds(r, Len(errs))}
    IN  /\ \A r \in Stored : Holds(r, MaxErrorDepth) => Find(store, target)
        /\ Find(store, target) <=> holding # {}
        /\ Count(store, target) = Cardinality(holding)
=============================================================================
