-------------------------- MODULE DerivedHandlers ---------------------------
(***************************************************************************)
(* WithAttrs and WithGroup of the pretty and JSON handlers, with the Go    *)
(* slices they build on. A slice is an array, a length and a capacity;     *)
(* append writes into the array while there is capacity and moves to a new *)
(* one, with as much room to spare as the runtime likes, when there is not.*)
(* Slices of a parent and its children start out on the same array.        *)
(*                                                                         *)
(* prefix stands for everything WithAttrs renders into: the text, and in   *)
(* the pretty handler the errors and stacks kept beside it.                *)
(***************************************************************************)
EXTENDS Integers, Sequences

CONSTANTS
  Goroutines,  \* goroutines that derive handlers
  Ids,         \* handlers that may exist
  Root,        \* the one NewHandler returned
  Values,      \* rendered attributes and group names
  AttrLists,   \* what WithAttrs is called with, as far as it renders
  Names,       \* what WithGroup is called with
  Spare,       \* bound on the room append leaves in a new array
  MaxArrays,   \* bound on the arrays ever made
  None         \* no handler, no call, an unused cell

Slices == [arr : Nat, len : Nat, cap : Nat]

Handlers == [prefix : Slices, groups : Slices]

Jobs == [parent : Ids, attrs : AttrLists, done : Nat, clone : Handlers]

(* A cell of an array that nothing was appended to holds None.             *)
Cells == Values \cup {None}

(* A handler and a call as their users see them.                           *)
ShownHandlers == [prefix : Seq(Cells), groups : Seq(Cells)]

ShownJobs == [parent : Ids, attrs : AttrLists]

ASSUME DerivedAssumption ==
  /\ Root \in Ids
  /\ AttrLists \subseteq Seq(Values)
  /\ Names \subseteq Values
  /\ Spare \in Nat
  /\ MaxArrays \in Nat
  /\ None \notin Handlers \cup Jobs \cup ShownHandlers \cup ShownJobs

VARIABLES
  heap,     \* the backing arrays
  handler,  \* per id: the handler's slices, or None
  job       \* per goroutine: the WithAttrs call it is in, or None

vars == <<heap, handler, job>>

NilSlice == [arr |-> 0, len |-> 0, cap |-> 0]

(* What slice s shows of arrays m.                                         *)
View(m, s) == [i \in 1..s.len |-> m[s.arr][i]]

(* As Clip, but the capacity is left as it is.                             *)
Unclipped(s) == s

(* As Clip, but the capacity is one too large.                             *)
ClippedLate(s) == [s EXCEPT !.cap = s.len + 1]

(* s[:len(s):len(s)]                                                       *)
Clip(s) == [s EXCEPT !.cap = s.len]

(* append(s, v) with arrays m: the slice it returns and the arrays it      *)
(* leaves; room is what a new array has to spare.                          *)
GoAppend(m, s, v, room) ==
  IF s.len < s.cap
  THEN [slice |-> [s EXCEPT !.len = @ + 1],
        heap  |-> [m EXCEPT ![s.arr][s.len + 1] = v]]
  ELSE [slice |-> [arr |-> Len(m) + 1, len |-> s.len + 1,
                   cap |-> s.len + 1 + room],
        heap  |-> Append(m, [i \in 1..(s.len + 1 + room) |->
                    IF i <= s.len THEN m[s.arr][i]
                    ELSE IF i = s.len + 1 THEN v ELSE None])]

(* clone: every slice is clipped, so that the next append copies.          *)
Clone(h) == [prefix |-> Clip(h.prefix), groups |-> Clip(h.groups)]

Init ==
  /\ heap = <<>>
  /\ handler = [h \in Ids |->
       IF h = Root THEN [prefix |-> NilSlice, groups |-> NilSlice] ELSE None]
  /\ job = [g \in Goroutines |-> None]

(* WithAttrs begins: the receiver is cloned. attrs are the attributes that *)
(* render to something; ReplaceAttr functions may have removed all others. *)
WithAttrs(g) ==
  /\ job[g] = None
  /\ \E h \in Ids, attrs \in AttrLists :
       /\ handler[h] # None
       /\ job' = [job EXCEPT ![g] =
            [parent |-> h, attrs |-> attrs, done |-> 0,
             clone |-> Clone(handler[h])]]
  /\ UNCHANGED <<heap, handler>>

(* The next attribute is rendered and appended.                            *)
AppendAttr(g) ==
  /\ job[g] # None
  /\ job[g].done < Len(job[g].attrs)
  /\ Len(heap) < MaxArrays
  /\ \E room \in 0..Spare :
       LET grown == GoAppend(heap, job[g].clone.prefix,
                             job[g].attrs[job[g].done + 1], room)
       IN  /\ heap' = grown.heap
           /\ job' = [job EXCEPT ![g].done = @ + 1,
                                 ![g].clone.prefix = grown.slice]
  /\ UNCHANGED handler

(* WithAttrs returns the clone.                                            *)
Return(g) ==
  /\ job[g] # None
  /\ job[g].done = Len(job[g].attrs)
  /\ \E h \in Ids :
       /\ handler[h] = None
       /\ handler' = [handler EXCEPT ![h] = job[g].clone]
  /\ job' = [job EXCEPT ![g] = None]
  /\ UNCHANGED heap

(* WithAttrs of the JSON handler returns its receiver when nothing was     *)
(* rendered; user code called while rendering may panic.                   *)
Abandon(g) ==
  /\ job[g] # None
  /\ job' = [job EXCEPT ![g] = None]
  /\ UNCHANGED <<heap, handler>>

WithGroup(g) ==
  /\ job[g] = None
  /\ Len(heap) < MaxArrays
  /\ \E p, h \in Ids, name \in Names, room \in 0..Spare :
       /\ handler[p] # None
       /\ handler[h] = None
       /\ LET clone == Clone(handler[p])
              grown == GoAppend(heap, clone.groups, name, room)
          IN  /\ heap' = grown.heap
              /\ handler' = [handler EXCEPT ![h] =
                               [clone EXCEPT !.groups = grown.slice]]
  /\ UNCHANGED job

Step(g) ==
  WithAttrs(g) \/ AppendAttr(g) \/ Return(g) \/ Abandon(g) \/ WithGroup(g)

Next == \E g \in Goroutines : Step(g)

Spec == Init /\ [][Next]_vars

-----------------------------------------------------------------------------
(* A slice lies within its array.                                          *)
Fits(m, s) ==
  /\ s.len <= s.cap
  /\ s.arr <= Len(m)
  /\ IF s.arr = 0 THEN s.cap = 0 ELSE s.cap <= Len(m[s.arr])

HandlerFits(h) == Fits(heap, h.prefix) /\ Fits(heap, h.groups)

(* The type invariant.                                                     *)
TypeOK ==
  /\ heap \in Seq(Seq(Cells))
  /\ handler \in [Ids -> Handlers \cup {None}]
  /\ job \in [Goroutines -> Jobs \cup {None}]
  /\ \A h \in Ids : handler[h] # None => HandlerFits(handler[h])
  /\ \A g \in Goroutines : job[g] # None =>
       HandlerFits(job[g].clone) /\ job[g].done <= Len(job[g].attrs)

Shown(h) ==
  [prefix |-> View(heap, h.prefix), groups |-> View(heap, h.groups)]

(* The handlers as their users see them.                                   *)
Immutable ==
  INSTANCE HandlerValues WITH
    handler <- [h \in Ids |-> IF handler[h] = None THEN None
                              ELSE Shown(handler[h])],
    job <- [g \in Goroutines |-> IF job[g] = None THEN None
              ELSE [parent |-> job[g].parent, attrs |-> job[g].attrs]]

(* Handlers are values: whatever goroutines derive from the same handlers  *)
(* at the same time, each gets its parent's attributes and then its own,   *)
(* and no handler changes once it has been returned.                       *)
ImplementsValues == Immutable!Spec
=============================================================================
