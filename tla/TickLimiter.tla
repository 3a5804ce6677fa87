---------------------------- MODULE TickLimiter ----------------------------
(***************************************************************************)
(* What gloq.Sample promises, with the counting made atomic: every record  *)
(* that is not FATAL is counted, in one step, in the window of its bucket, *)
(* and the number it gets there decides whether it is passed on.           *)
(*                                                                         *)
(* The rule is stated as the comment on type Sampling states it: the first *)
(* First records of a window, then every Thereafter-th one.                *)
(***************************************************************************)
EXTENDS Integers

CONSTANTS
  Procs,       \* goroutines that log
  Keys,        \* (level, message) pairs
  FatalKeys,   \* the keys whose level is FATAL or above
  Buckets,     \* counters shared by all keys
  BucketOf,    \* the counter of each key
  TickMod,     \* tick numbers are kept modulo this
  CountMax,    \* the largest number a window can hand out
  First,
  Thereafter

VARIABLES
  window,      \* per bucket: the tick being counted and how many so far
  call         \* per goroutine: its call of Handle

limiterVars == <<window, call>>

Idle == [st |-> "idle"]

Open(k, t) == [st |-> "open", key |-> k, tick |-> t]

Judged(k, chosen) == [st |-> IF chosen THEN "pass" ELSE "drop", key |-> k]

(* Number n of a window is one of the first, or First plus a multiple.     *)
Chosen(n) ==
  \/ n \in 1..First
  \/ Thereafter # 0 /\ \E j \in 1..n : n = First + j * Thereafter

(* The window after one more record of tick t; a full window stays full.   *)
Bumped(w, t) ==
  IF w.tick = t
  THEN [w EXCEPT !.n = IF @ = CountMax THEN @ ELSE @ + 1]
  ELSE [tick |-> t, n |-> 1]

Init ==
  /\ window = [b \in Buckets |-> [tick |-> 0, n |-> 0]]
  /\ call = [p \in Procs |-> Idle]

(* A record enters; a FATAL one is passed on as it is, never counted.      *)
Enter(p) ==
  /\ call[p] = Idle
  /\ \/ \E k \in FatalKeys : call' = [call EXCEPT ![p] = Judged(k, TRUE)]
     \/ \E k \in Keys \ FatalKeys, t \in 0..(TickMod - 1) :
          call' = [call EXCEPT ![p] = Open(k, t)]
  /\ UNCHANGED window

(* The single step in which a record is counted and judged.                *)
Judge(p) ==
  /\ call[p].st = "open"
  /\ LET b == BucketOf[call[p].key]
         w == Bumped(window[b], call[p].tick)
     IN  /\ window' = [window EXCEPT ![b] = w]
         /\ call' = [call EXCEPT ![p] = Judged(call[p].key, Chosen(w.n))]

(* The call returns.                                                       *)
Leave(p) ==
  /\ call[p].st \in {"pass", "drop"}
  /\ call' = [call EXCEPT ![p] = Idle]
  /\ UNCHANGED window

Next == \E p \in Procs : Enter(p) \/ Judge(p) \/ Leave(p)

Spec == Init /\ [][Next]_limiterVars
=============================================================================
