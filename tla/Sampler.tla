------------------------------ MODULE Sampler ------------------------------
(***************************************************************************)
(* The sampling handler of sample.go: goroutines hand records to Handle,   *)
(* which computes the record's tick, counts the record with a              *)
(* compare-and-swap loop on one of a fixed array of 64-bit words, and      *)
(* passes it on or drops it by the number it got.                          *)
(*                                                                         *)
(* A counter word holds the tick in its upper 32 bits and the count in its *)
(* lower 32; it is the record [tick, n], loaded and swapped as a whole.    *)
(* TickMod and CountMax stand for 2^32 and 2^32 - 1.                       *)
(***************************************************************************)
EXTENDS Integers

CONSTANTS
  Procs,          \* goroutines that log through the handler
  Keys,           \* (level, message) pairs
  FatalKeys,      \* those at LevelFatal or above
  Buckets,        \* indexes of the counters array
  BucketOf,       \* sampleKey(level, message) % sampleBuckets
  TickMod,        \* 2^32
  CountMax,       \* math.MaxUint32
  RawTick,        \* Sampling.Tick as the caller gave it
  DefaultTick,    \* one second
  RawFirst,       \* Sampling.First as given
  RawThereafter,  \* Sampling.Thereafter as given
  Backdate,       \* how much older than the clock a record may be
  NoTime,         \* the zero time.Time
  NoRecord,       \* what an idle goroutine is handling
  MaxTime         \* bound on the clock

ASSUME SamplerAssumption ==
  /\ FatalKeys \subseteq Keys
  /\ BucketOf \in [Keys -> Buckets]
  /\ TickMod \in Nat \ {0}
  /\ CountMax \in Nat \ {0}
  /\ DefaultTick \in Nat \ {0}
  /\ RawTick \in Int
  /\ RawFirst \in Int
  /\ RawThereafter \in Int
  /\ Backdate \in Nat
  /\ MaxTime \in Nat
  /\ NoTime \notin Int
  /\ NoRecord \notin [key : Keys, time : {NoTime} \cup Int]

-----------------------------------------------------------------------------
(* Sample(handler, sampling): the options after normalisation.             *)

TickLen    == IF RawTick <= 0 THEN DefaultTick ELSE RawTick
First      == IF RawFirst < 0 THEN 0 ELSE RawFirst
Thereafter == IF RawThereafter < 0 THEN 0 ELSE RawThereafter

(* Go's integer division rounds towards zero.                              *)
GoQuot(a, b) == IF a >= 0 THEN a \div b ELSE -((-a) \div b)
GoRem(a, b)  == a - b * GoQuot(a, b)

(* As TickOf, but earlier moments are not corrected for.                   *)
TickTowardsZero(elapsed) == GoQuot(elapsed, TickLen)

(* The tick of a moment: time since the handler was created (moment 0)     *)
(* divided by the tick length, corrected downwards for earlier moments.    *)
TickOf(elapsed) ==
  GoQuot(elapsed, TickLen)
    - (IF elapsed < 0 /\ GoRem(elapsed, TickLen) # 0 THEN 1 ELSE 0)

(* As Uint32, but the tick is not cut down to 32 bits.                     *)
Uncut(t) == t

Uint32(t) == t % TickMod

Admits(n) ==
  \/ n <= First
  \/ Thereafter > 0 /\ (n - First) % Thereafter = 0

Words == [tick : 0..(TickMod - 1), n : 0..CountMax]

(* As Fresh, but the record that opens a window is not counted.            *)
FreshAtZero(t) == [tick |-> t, n |-> 0]

Fresh(t) == [tick |-> t, n |-> 1]

(* old + 1 on the packed word: a full count carries into the tick.         *)
PlusOne(w) ==
  IF w.n < CountMax THEN [w EXCEPT !.n = @ + 1]
  ELSE [tick |-> (w.tick + 1) % TickMod, n |-> 0]

(* As Saturated, but no counter is ever taken for full.                    *)
NeverFull(w, t) == FALSE

Saturated(w, t) == w.tick = t /\ w.n = CountMax

Following(w, t) == IF w.tick = t THEN PlusOne(w) ELSE Fresh(t)

-----------------------------------------------------------------------------
VARIABLES
  clock,     \* the wall clock, in time units since the handler was made
  counters,  \* the counter words
  pc,        \* where each goroutine is in Handle
  rec,       \* the record each goroutine is handling
  tick,      \* Handle's local tick, a 64-bit integer
  old        \* sampleCount's local old

vars == <<clock, counters, pc, rec, tick, old>>

Bucket(p) == BucketOf[rec[p].key]

Stamps == {NoTime} \cup (-Backdate..MaxTime)

Records == [key : Keys, time : Stamps]

Zero == [tick |-> 0, n |-> 0]

Init ==
  /\ clock = 0
  /\ counters = [b \in Buckets |-> Zero]
  /\ pc = [p \in Procs |-> "idle"]
  /\ rec = [p \in Procs |-> NoRecord]
  /\ tick = [p \in Procs |-> 0]
  /\ old = [p \in Procs |-> Zero]

Elapse ==
  /\ clock < MaxTime
  /\ clock' = clock + 1
  /\ UNCHANGED <<counters, pc, rec, tick, old>>

(* A goroutine builds a record, stamped now, earlier, or not at all.       *)
Log(p) ==
  /\ pc[p] = "idle"
  /\ \E k \in Keys, t \in {NoTime} \cup ((clock - Backdate)..clock) :
       rec' = [rec EXCEPT ![p] = [key |-> k, time |-> t]]
  /\ pc' = [pc EXCEPT ![p] = "handle"]
  /\ UNCHANGED <<clock, counters, tick, old>>

(* Handle up to the call of sampleCount: FATAL records go straight to the  *)
(* inner handler; for the others the tick is computed, from the clock when *)
(* the record carries no time.                                             *)
Handle(p) ==
  /\ pc[p] = "handle"
  /\ IF rec[p].key \in FatalKeys
     THEN /\ pc' = [pc EXCEPT ![p] = "pass"]
          /\ UNCHANGED tick
     ELSE /\ pc' = [pc EXCEPT ![p] = "load"]
          /\ tick' = [tick EXCEPT ![p] =
               TickOf(IF rec[p].time = NoTime THEN clock ELSE rec[p].time)]
  /\ UNCHANGED <<clock, counters, rec, old>>

(* What Handle does with the number sampleCount returned.                  *)
Judge(p, n) ==
  pc' = [pc EXCEPT ![p] = IF Admits(n) THEN "pass" ELSE "drop"]

(* sampleCount: counter.Load(), and the early return of a full counter.    *)
Load(p) ==
  /\ pc[p] = "load"
  /\ LET w == counters[Bucket(p)]
     IN  /\ old' = [old EXCEPT ![p] = w]
         /\ IF Saturated(w, Uint32(tick[p]))
            THEN Judge(p, CountMax)
            ELSE pc' = [pc EXCEPT ![p] = "cas"]
  /\ UNCHANGED <<clock, counters, rec, tick>>

(* As Cas, but a plain store: what others counted since Load is lost.      *)
BlindStore(p) ==
  /\ pc[p] = "cas"
  /\ LET next == Following(old[p], Uint32(tick[p]))
     IN  /\ counters' = [counters EXCEPT ![Bucket(p)] = next]
         /\ Judge(p, next.n)
  /\ UNCHANGED <<clock, rec, tick, old>>

(* As Cas, but a failed swap is retried without loading the counter again. *)
CasWithoutReload(p) ==
  /\ pc[p] = "cas"
  /\ LET next == Following(old[p], Uint32(tick[p]))
     IN  IF counters[Bucket(p)] = old[p]
         THEN /\ counters' = [counters EXCEPT ![Bucket(p)] = next]
              /\ Judge(p, next.n)
         ELSE UNCHANGED <<counters, pc>>
  /\ UNCHANGED <<clock, rec, tick, old>>

(* sampleCount: counter.CompareAndSwap(old, next), and the loop.           *)
Cas(p) ==
  /\ pc[p] = "cas"
  /\ LET next == Following(old[p], Uint32(tick[p]))
     IN  IF counters[Bucket(p)] = old[p]
         THEN /\ counters' = [counters EXCEPT ![Bucket(p)] = next]
              /\ Judge(p, next.n)
         ELSE /\ pc' = [pc EXCEPT ![p] = "load"]
              /\ UNCHANGED counters
  /\ UNCHANGED <<clock, rec, tick, old>>

(* The inner handler's Handle returns, or Handle returns nil; the locals   *)
(* go out of scope.                                                        *)
Return(p) ==
  /\ pc[p] \in {"pass", "drop"}
  /\ pc' = [pc EXCEPT ![p] = "idle"]
  /\ rec' = [rec EXCEPT ![p] = NoRecord]
  /\ tick' = [tick EXCEPT ![p] = 0]
  /\ old' = [old EXCEPT ![p] = Zero]
  /\ UNCHANGED <<clock, counters>>

Step(p) == Handle(p) \/ Load(p) \/ Cas(p) \/ Return(p)

Next == Elapse \/ \E p \in Procs : Log(p) \/ Step(p)

Spec == Init /\ [][Next]_vars

-----------------------------------------------------------------------------
(* The type invariant: counter words stay within their 64 bits, ticks are  *)
(* those of the clock's range, and goroutines are at a point of Handle.    *)
TypeOK ==
  /\ clock \in 0..MaxTime
  /\ counters \in [Buckets -> Words]
  /\ pc \in [Procs -> {"idle", "handle", "load", "cas", "pass", "drop"}]
  /\ rec \in [Procs -> Records \cup {NoRecord}]
  /\ \A p \in Procs : pc[p] # "idle" => rec[p] \in Records
  /\ tick \in [Procs -> Int]
  /\ old \in [Procs -> Words]

InLoop(p) == pc[p] \in {"load", "cas"}

(* Lock-freedom of sampleCount, which "needs no locks": if goroutines keep *)
(* being inside the loop, records keep being counted; a failed swap always *)
(* means that another goroutine's record was counted. One goroutine may    *)
(* lose every race, so nothing is promised to a single call.               *)
LockFree ==
  \/ []<>(\A p \in Procs : ~InLoop(p))
  \/ []<><<\E p \in Procs : InLoop(p) /\ pc'[p] \in {"pass", "drop"}>>_vars

(* The call of each goroutine, as the abstract limiter sees it: it enters  *)
(* when its tick is known and is judged when its number is.                *)
CallOf(p) ==
  CASE pc[p] \in {"idle", "handle"} -> [st |-> "idle"]
    [] pc[p] \in {"load", "cas"} ->
         [st |-> "open", key |-> rec[p].key, tick |-> Uint32(tick[p])]
    [] OTHER -> [st |-> pc[p], key |-> rec[p].key]

Limiter == INSTANCE TickLimiter
             WITH window <- counters, call <- [p \in Procs |-> CallOf(p)]

(* The compare-and-swap loop counts as if each record were counted in one  *)
(* atomic step, and judges by the documented rule of First and Thereafter. *)
ImplementsLimiter == Limiter!Spec
=============================================================================
