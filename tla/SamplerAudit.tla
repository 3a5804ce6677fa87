---------------------------- MODULE SamplerAudit ----------------------------
(***************************************************************************)
(* The sampler of Sampler.tla with a ledger beside it: what was passed on  *)
(* in the current window of each counter, and, tick by tick, how many      *)
(* records were counted and how many of those were passed on. The ledger   *)
(* has ticks of its own, by the records' times. It is written in the step  *)
(* in which a record gets its number and is read by no action.             *)
(***************************************************************************)
EXTENDS Sampler, FiniteSets

CONSTANT MaxRecords  \* bound on the records handed to Handle

ASSUME AuditAssumption == MaxRecords \in Nat

VARIABLES
  started,   \* records handed to Handle so far
  granted,   \* per counter: records passed on in its current window
  counted,   \* per counter and tick: records counted
  passed,    \* per counter and tick: records passed on
  latest,    \* per counter: the latest tick counted
  disturbed  \* counters whose windows do not follow the ticks, see Disturbs

audit == <<started, granted, counted, passed, latest, disturbed>>
auditVars == <<vars, audit>>

(* The interval that a moment lies in, before the handler was created too. *)
Interval(time) == time \div TickLen

Ticks == Interval(-Backdate)..Interval(MaxTime)

(* The tick p's record belongs to. One without a time belongs to that of   *)
(* the moment Handle has read, which is not before the handler was created.*)
Due(p) == IF rec[p].time = NoTime THEN tick[p] ELSE Interval(rec[p].time)

AuditInit ==
  /\ Init
  /\ started = 0
  /\ granted = [b \in Buckets |-> 0]
  /\ counted = [b \in Buckets |-> [t \in Ticks |-> 0]]
  /\ passed = [b \in Buckets |-> [t \in Ticks |-> 0]]
  /\ latest = [b \in Buckets |-> Interval(-Backdate)]
  /\ disturbed = {}

(* A record counted late, after one of a later tick; a tick whose lower 32 *)
(* bits are those of the latest; a number past the largest.                *)
Disturbs(b, t, w) ==
  \/ t < latest[b]
  \/ w.n > 0 /\ t # latest[b] /\ Uint32(t) = Uint32(latest[b])
  \/ Saturated(w, Uint32(t))

Bit(condition) == IF condition THEN 1 ELSE 0

(* The entry for a record of tick t that is counted from word w.           *)
Grant(b, t, w, pass) ==
  granted' = [granted EXCEPT ![b] =
                (IF w.tick = Uint32(t) THEN @ ELSE 0) + Bit(pass)]

(* The same, for a record that belongs to tick t.                          *)
Account(b, t, w, pass) ==
  /\ counted' = [counted EXCEPT ![b][t] = @ + 1]
  /\ passed' = [passed EXCEPT ![b][t] = @ + Bit(pass)]
  /\ latest' = [latest EXCEPT ![b] = IF t > @ THEN t ELSE @]
  /\ disturbed' = IF Disturbs(b, t, w) THEN disturbed \cup {b} ELSE disturbed
  /\ UNCHANGED started

ALog(p) ==
  /\ started < MaxRecords
  /\ Log(p)
  /\ started' = started + 1
  /\ UNCHANGED <<granted, counted, passed, latest, disturbed>>

ACount(p) ==
  /\ Load(p) \/ Cas(p)
  /\ IF pc'[p] \in {"pass", "drop"}
     THEN /\ Grant(Bucket(p), tick[p], counters[Bucket(p)], pc'[p] = "pass")
          /\ Account(Bucket(p), Due(p), counters[Bucket(p)], pc'[p] = "pass")
     ELSE UNCHANGED audit

AuditNext ==
  \/ Elapse /\ UNCHANGED audit
  \/ \E p \in Procs :
       \/ ALog(p)
       \/ Handle(p) /\ UNCHANGED audit
       \/ ACount(p)
       \/ Return(p) /\ UNCHANGED audit

AuditSpec == AuditInit /\ [][AuditNext]_auditVars

(* A goroutine inside Handle is scheduled; nobody is obliged to log.       *)
Scheduled(p) == ((Handle(p) \/ Return(p)) /\ UNCHANGED audit) \/ ACount(p)

FairAuditSpec == AuditSpec /\ \A p \in Procs : WF_auditVars(Scheduled(p))

-----------------------------------------------------------------------------
(* How many of the first n numbers of a window are passed on.              *)
Quota(n) == Cardinality({m \in 1..n : Admits(m)})

(* However the goroutines' loads and swaps interleave, a window that has   *)
(* counted n records has passed on exactly the quota of n: no number is    *)
(* handed out twice and none is skipped. (At the largest count sampleCount *)
(* stops counting, and nothing is claimed.)                                *)
WindowQuota ==
  \A b \in Buckets :
    counters[b].n < CountMax => granted[b] = Quota(counters[b].n)

(* "Within every Tick, the first First records [...] are written. After    *)
(* that only every Thereafter-th one is": exactly the quota of each tick   *)
(* is passed on by every counter that counted its records in tick order,   *)
(* never met a tick 2^32 ticks after the one it was at, and was not full.  *)
ExactWhenInOrder ==
  \A b \in Buckets \ disturbed :
    \A t \in Ticks : passed[b][t] = Quota(counted[b][t])

(* The same comment taken as it stands: no tick passes on more than its    *)
(* quota, whatever the order in which goroutines reach the counter.        *)
PerTickLimit ==
  \A b \in Buckets, t \in Ticks : passed[b][t] <= Quota(counted[b][t])
=============================================================================
