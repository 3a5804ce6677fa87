--------------------------- MODULE HandlerValues ----------------------------
(***************************************************************************)
(* What With and WithGroup promise, as slog.Handler asks: handlers are     *)
(* values. A derived handler has what its parent had, in order, and then   *)
(* what was added; nothing that happens later changes a handler.           *)
(***************************************************************************)
EXTENDS Integers, Sequences

CONSTANTS
  Goroutines,
  Ids,       \* handlers that may exist
  Root,      \* the one NewHandler returned
  AttrLists, \* what WithAttrs is called with, as far as it renders
  Names,     \* what WithGroup is called with
  None

VARIABLES
  handler,  \* per id: its attributes and groups, or None
  job       \* per goroutine: the WithAttrs call it is in, or None

valueVars == <<handler, job>>

Init ==
  /\ handler = [h \in Ids |-> IF h = Root THEN [prefix |-> <<>>, groups |-> <<>>]
                              ELSE None]
  /\ job = [g \in Goroutines |-> None]

Begin(g) ==
  /\ job[g] = None
  /\ \E h \in Ids, attrs \in AttrLists :
       /\ handler[h] # None
       /\ job' = [job EXCEPT ![g] = [parent |-> h, attrs |-> attrs]]
  /\ UNCHANGED handler

(* WithAttrs returns a new handler.                                        *)
Finish(g) ==
  /\ job[g] # None
  /\ \E h \in Ids :
       /\ handler[h] = None
       /\ handler' = [handler EXCEPT ![h] =
            [prefix |-> handler[job[g].parent].prefix \o job[g].attrs,
             groups |-> handler[job[g].parent].groups]]
  /\ job' = [job EXCEPT ![g] = None]

(* WithAttrs panics, or returns its receiver: no handler comes of it.      *)
Leave(g) ==
  /\ job[g] # None
  /\ job' = [job EXCEPT ![g] = None]
  /\ UNCHANGED handler

WithGroup(g) ==
  /\ job[g] = None
  /\ \E p, h \in Ids, name \in Names :
       /\ handler[p] # None
       /\ handler[h] = None
       /\ handler' = [handler EXCEPT ![h] =
            [handler[p] EXCEPT !.groups = Append(@, name)]]
  /\ UNCHANGED job

Next == \E g \in Goroutines : Begin(g) \/ Finish(g) \/ Leave(g) \/ WithGroup(g)

Spec == Init /\ [][Next]_valueVars
=============================================================================
