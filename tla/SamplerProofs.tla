--------------------------- MODULE SamplerProofs ----------------------------
(***************************************************************************)
(* Proofs about the sampler, for every number of goroutines, every keys,   *)
(* any First, Thereafter and Tick and any width of the counter words.      *)
(***************************************************************************)
EXTENDS SamplerAudit, FiniteSetTheorems, TLAPS

-----------------------------------------------------------------------------
(* The normalised options are what the arithmetic of Handle relies on.     *)
LEMMA Normalised ==
  /\ TickLen \in Nat \ {0}
  /\ First \in Nat
  /\ Thereafter \in Nat
BY SamplerAssumption DEF SamplerAssumption, TickLen, First, Thereafter

(* The correction after Go's division makes the tick the floor of elapsed  *)
(* over tick, on both sides of the moment the handler was created: tick    *)
(* numbers never share an interval there.                                  *)
LEMMA TickIsFloor ==
  ASSUME NEW e \in Int
  PROVE  /\ TickOf(e) \in Int
         /\ TickOf(e) * TickLen <= e
         /\ e < (TickOf(e) + 1) * TickLen
<1>1. TickLen \in Nat \ {0}
  BY Normalised
<1>2. CASE e >= 0
  BY <1>1, <1>2 DEF TickOf, GoQuot, GoRem
<1>3. CASE e < 0
  <2> DEFINE q == (-e) \div TickLen
  <2>1. q \in Nat /\ q * TickLen <= -e /\ -e < (q + 1) * TickLen
    BY <1>1, <1>3
  <2>2. TickOf(e) = -q - (IF e + TickLen * q # 0 THEN 1 ELSE 0)
    BY <1>1, <1>3, <2>1 DEF TickOf, GoQuot, GoRem
  <2> QED
    BY <1>1, <2>1, <2>2
<1> QED
  BY <1>2, <1>3

LEMMA Uint32Type ==
  ASSUME NEW t \in Int
  PROVE  Uint32(t) \in 0..(TickMod - 1)
BY SamplerAssumption DEF SamplerAssumption, Uint32

LEMMA FollowingType ==
  ASSUME NEW w \in Words, NEW t \in 0..(TickMod - 1)
  PROVE  Following(w, t) \in Words
BY SamplerAssumption DEF SamplerAssumption, Following, PlusOne, Fresh, Words

-----------------------------------------------------------------------------
(* Type correctness: whatever the goroutines do, counter words stay within *)
(* their widths and every goroutine inside Handle handles a record.        *)
LEMMA TypeInit == Init => TypeOK
BY SamplerAssumption
   DEF SamplerAssumption, Init, TypeOK, Records, Words, Zero

LEMMA TypeNext == TypeOK /\ [Next]_vars => TypeOK'
<1> SUFFICES ASSUME TypeOK, [Next]_vars PROVE TypeOK'
  OBVIOUS
<1> USE SamplerAssumption DEF SamplerAssumption
<1>1. ASSUME Elapse PROVE TypeOK'
  BY <1>1 DEF Elapse, TypeOK, Records
<1>2. ASSUME NEW p \in Procs, Log(p) PROVE TypeOK'
  <2>1. PICK k \in Keys, t \in {NoTime} \cup ((clock - Backdate)..clock) :
          rec' = [rec EXCEPT ![p] = [key |-> k, time |-> t]]
    BY <1>2 DEF Log
  <2>2. t \in Stamps
    BY DEF Stamps, TypeOK
  <2> QED
    BY <1>2, <2>1, <2>2 DEF Log, TypeOK, Records
<1>3. ASSUME NEW p \in Procs, Handle(p) PROVE TypeOK'
  <2>1. rec[p] \in Records
    BY <1>3 DEF Handle, TypeOK
  <2>2. (IF rec[p].time = NoTime THEN clock ELSE rec[p].time) \in Int
    BY <2>1 DEF Records, Stamps, TypeOK
  <2>3. TickOf(IF rec[p].time = NoTime THEN clock ELSE rec[p].time) \in Int
    BY <2>2, TickIsFloor
  <2> QED
    BY <1>3, <2>1, <2>3 DEF Handle, TypeOK
<1>4. ASSUME NEW p \in Procs, Load(p) PROVE TypeOK'
  <2>1. Bucket(p) \in Buckets
    BY <1>4 DEF Load, TypeOK, Bucket, Records
  <2> QED
    BY <1>4, <2>1 DEF Load, Judge, TypeOK
<1>5. ASSUME NEW p \in Procs, Cas(p) PROVE TypeOK'
  <2>1. Bucket(p) \in Buckets
    BY <1>5 DEF Cas, TypeOK, Bucket, Records
  <2>2. Following(old[p], Uint32(tick[p])) \in Words
    BY FollowingType, Uint32Type DEF TypeOK
  <2> QED
    BY <1>5, <2>1, <2>2 DEF Cas, Judge, TypeOK
<1>6. ASSUME NEW p \in Procs, Return(p) PROVE TypeOK'
  BY <1>6 DEF Return, TypeOK, Words, Zero
<1>7. CASE UNCHANGED vars
  BY <1>7 DEF vars, TypeOK
<1> QED
  BY <1>1, <1>2, <1>3, <1>4, <1>5, <1>6, <1>7 DEF Next, Step

(* Every reachable state of the sampler is well typed.                     *)
THEOREM SamplerTypeCorrect == Spec => []TypeOK
BY TypeInit, TypeNext, PTL DEF Spec

-----------------------------------------------------------------------------
(* The quota of a window grows by one exactly at the admitted numbers.     *)
LEMMA QuotaGrows ==
  ASSUME NEW n \in Nat
  PROVE  /\ Quota(0) = 0
         /\ Quota(n) \in Nat
         /\ Quota(n + 1) = Quota(n) + Bit(Admits(n + 1))
<1> DEFINE S(k) == {m \in 1..k : Admits(m)}
<1>1. IsFiniteSet(S(n))
  <2>1. IsFiniteSet(1..n) /\ S(n) \subseteq 1..n
    BY FS_Interval
  <2> QED
    BY <2>1, FS_Subset
<1>2. Cardinality(S(n)) \in Nat
  BY <1>1, FS_CardinalityType
<1>3. n + 1 \notin S(n)
  OBVIOUS
<1>4. S(n + 1) = IF Admits(n + 1) THEN S(n) \cup {n + 1} ELSE S(n)
  OBVIOUS
<1>5. Cardinality(S(n) \cup {n + 1}) = Cardinality(S(n)) + 1
  BY <1>1, <1>3, FS_AddElement
<1>6. Cardinality(S(0)) = 0
  <2>1. S(0) = {}
    OBVIOUS
  <2> QED
    BY <2>1, FS_EmptySet
<1> QED
  BY <1>2, <1>4, <1>5, <1>6 DEF Quota, Bit

(* WindowQuota is not inductive: it also matters that a goroutine about to *)
(* swap did not load a full window of its own tick, whose successor would  *)
(* carry into the tick bits.                                               *)
SwapHasRoom ==
  \A p \in Procs : pc[p] = "cas" => ~Saturated(old[p], Uint32(tick[p]))

QuotaInv ==
  /\ granted \in [Buckets -> Int]
  /\ SwapHasRoom
  /\ WindowQuota

LEMMA QuotaInit == AuditInit => QuotaInv
BY QuotaGrows
   DEF AuditInit, Init, QuotaInv, SwapHasRoom, WindowQuota, Zero

(* A successful swap gives the window its next number, and the ledger gains*)
(* what Admits says of that number.                                        *)
LEMMA SwapKeepsQuota ==
  ASSUME TypeOK, QuotaInv, NEW p \in Procs, Cas(p), ACount(p),
         counters[Bucket(p)] = old[p]
  PROVE  QuotaInv'
<1> DEFINE b == Bucket(p)
           t == Uint32(tick[p])
           next == Following(old[p], t)
<1> USE SamplerAssumption DEF SamplerAssumption
<1>1. b \in Buckets
  BY DEF Cas, TypeOK, Bucket, Records
<1>2. t \in 0..(TickMod - 1) /\ old[p] \in Words
  BY Uint32Type DEF TypeOK
<1>3. /\ counters' = [counters EXCEPT ![b] = next]
      /\ pc' = [pc EXCEPT ![p] = IF Admits(next.n) THEN "pass" ELSE "drop"]
      /\ UNCHANGED <<tick, old>>
  BY DEF Cas, Judge
<1>4. granted' = [granted EXCEPT ![b] =
                    (IF old[p].tick = t THEN @ ELSE 0) + Bit(Admits(next.n))]
  <2>1. pc'[p] = IF Admits(next.n) THEN "pass" ELSE "drop"
    BY <1>3 DEF TypeOK
  <2>2. Grant(b, tick[p], counters[b], pc'[p] = "pass")
    BY <2>1 DEF ACount
  <2> QED
    BY <2>1, <2>2 DEF Grant, Bit
<1>5. ~Saturated(old[p], t)
  BY DEF Cas, QuotaInv, SwapHasRoom
<1>6. granted'[b] = Quota(next.n)
  <2>1. CASE old[p].tick = t
    <3>1. old[p].n \in Nat /\ old[p].n < CountMax /\ next.n = old[p].n + 1
      BY <1>2, <1>5, <2>1 DEF Saturated, Words, Following, PlusOne
    <3>2. granted[b] = Quota(old[p].n)
      BY <1>1, <3>1 DEF QuotaInv, WindowQuota
    <3> QED
      BY <1>1, <1>4, <2>1, <3>1, <3>2, QuotaGrows DEF QuotaInv
  <2>2. CASE old[p].tick # t
    <3>1. next.n = 1
      BY <2>2 DEF Following, Fresh
    <3>2. Quota(1) = 0 + Bit(Admits(1))
      BY QuotaGrows, 0 + 1 = 1
    <3> QED
      BY <1>1, <1>4, <2>2, <3>1, <3>2 DEF QuotaInv
  <2> QED
    BY <2>1, <2>2
<1>7. granted' \in [Buckets -> Int]
  BY <1>1, <1>4 DEF QuotaInv, Bit
<1>8. SwapHasRoom'
  BY <1>3 DEF QuotaInv, SwapHasRoom, TypeOK, Saturated, Uint32
<1>9. WindowQuota'
  <2> SUFFICES ASSUME NEW c \in Buckets, counters'[c].n < CountMax
               PROVE  granted'[c] = Quota(counters'[c].n)
    BY DEF WindowQuota, Quota, Admits
  <2>1. CASE c = b
    BY <1>1, <1>3, <1>6, <2>1 DEF TypeOK
  <2>2. CASE c # b
    BY <1>1, <1>3, <1>4, <2>2 DEF TypeOK, QuotaInv, WindowQuota
  <2> QED
    BY <2>1, <2>2
<1> QED
  BY <1>7, <1>8, <1>9 DEF QuotaInv

(* A load that returns at once counts in a full window, where nothing is   *)
(* claimed; any other load leaves room for the swap.                       *)
LEMMA LoadKeepsQuota ==
  ASSUME TypeOK, QuotaInv, NEW p \in Procs, Load(p), ACount(p)
  PROVE  QuotaInv'
<1> DEFINE b == Bucket(p)
           t == Uint32(tick[p])
<1>1. b \in Buckets
  BY SamplerAssumption DEF SamplerAssumption, Load, TypeOK, Bucket, Records
<1>2. UNCHANGED <<counters, tick>> /\ old' = [old EXCEPT ![p] = counters[b]]
  BY DEF Load
<1>3. CASE Saturated(counters[b], t)
  <2>1. pc' = [pc EXCEPT ![p] = IF Admits(CountMax) THEN "pass" ELSE "drop"]
    BY <1>3 DEF Load, Judge
  <2>2. Grant(b, tick[p], counters[b], pc'[p] = "pass")
    BY <2>1 DEF ACount, TypeOK
  <2>3. \A c \in Buckets : c # b => granted'[c] = granted[c]
    BY <1>1, <2>2 DEF Grant, QuotaInv
  <2>4. granted' \in [Buckets -> Int]
    BY <1>1, <2>2 DEF Grant, QuotaInv, Bit
  <2>5. SwapHasRoom'
    BY <1>2, <2>1 DEF QuotaInv, SwapHasRoom, TypeOK, Saturated, Uint32
  <2>6. WindowQuota'
    <3> SUFFICES ASSUME NEW c \in Buckets, counters'[c].n < CountMax
                 PROVE  granted'[c] = Quota(counters'[c].n)
      BY DEF WindowQuota, Quota, Admits
    <3>1. counters[c].n < CountMax
      BY <1>2
    <3>2. c # b
      BY <1>3, <3>1, SamplerAssumption DEF SamplerAssumption, Saturated
    <3> QED
      BY <1>2, <2>3, <3>1, <3>2 DEF QuotaInv, WindowQuota
  <2> QED
    BY <2>4, <2>5, <2>6 DEF QuotaInv
<1>4. CASE ~Saturated(counters[b], t)
  <2>1. pc' = [pc EXCEPT ![p] = "cas"]
    BY <1>4 DEF Load
  <2>2. UNCHANGED granted
    BY <2>1 DEF ACount, TypeOK, audit
  <2>3. SwapHasRoom'
    BY <1>1, <1>2, <1>4, <2>1
       DEF QuotaInv, SwapHasRoom, TypeOK, Saturated, Uint32
  <2> QED
    BY <1>2, <2>2, <2>3 DEF QuotaInv, WindowQuota, Quota, Admits
<1> QED
  BY <1>3, <1>4

LEMMA QuotaNext == TypeOK /\ QuotaInv /\ [AuditNext]_auditVars => QuotaInv'
<1> SUFFICES ASSUME TypeOK, QuotaInv, [AuditNext]_auditVars PROVE QuotaInv'
  OBVIOUS
<1> USE DEF QuotaInv, SwapHasRoom, WindowQuota, Quota, Admits, Saturated,
            Uint32, TypeOK
<1>1. ASSUME Elapse, UNCHANGED audit PROVE QuotaInv'
  BY <1>1 DEF Elapse, audit
<1>2. ASSUME NEW p \in Procs, ALog(p) PROVE QuotaInv'
  BY <1>2 DEF ALog, Log
<1>3. ASSUME NEW p \in Procs, Handle(p), UNCHANGED audit PROVE QuotaInv'
  BY <1>3 DEF Handle, audit
<1>4. ASSUME NEW p \in Procs, ACount(p) PROVE QuotaInv'
  <2>1. CASE Load(p)
    BY <1>4, <2>1, LoadKeepsQuota
  <2>2. CASE Cas(p) /\ counters[Bucket(p)] = old[p]
    BY <1>4, <2>2, SwapKeepsQuota
  <2>3. CASE Cas(p) /\ counters[Bucket(p)] # old[p]
    <3>1. pc' = [pc EXCEPT ![p] = "load"] /\ UNCHANGED <<counters, tick, old>>
      BY <2>3 DEF Cas
    <3>2. UNCHANGED granted
      BY <1>4, <3>1 DEF ACount, audit
    <3> QED
      BY <3>1, <3>2
  <2> QED
    BY <1>4, <2>1, <2>2, <2>3 DEF ACount
<1>5. ASSUME NEW p \in Procs, Return(p), UNCHANGED audit PROVE QuotaInv'
  BY <1>5 DEF Return, audit
<1>6. CASE UNCHANGED auditVars
  BY <1>6 DEF auditVars, vars, audit
<1> QED
  BY <1>1, <1>2, <1>3, <1>4, <1>5, <1>6 DEF AuditNext

(* The ledger only watches: the audited sampler is the sampler.            *)
LEMMA AuditRefines == AuditSpec => Spec
<1>1. AuditInit => Init
  BY DEF AuditInit
<1>2. [AuditNext]_auditVars => [Next]_vars
  BY DEF AuditNext, Next, Step, ALog, ACount, auditVars, vars
<1> QED
  BY <1>1, <1>2, PTL DEF AuditSpec, Spec

(* In every window that is not full, exactly the quota of the records it   *)
(* has counted was passed on, however loads and swaps interleave.          *)
THEOREM WindowQuotaHolds == AuditSpec => []WindowQuota
<1>1. AuditSpec => []TypeOK
  BY AuditRefines, SamplerTypeCorrect, PTL
<1>2. QuotaInv => WindowQuota
  BY DEF QuotaInv
<1> QED
  BY <1>1, <1>2, QuotaInit, QuotaNext, PTL DEF AuditSpec

-----------------------------------------------------------------------------
(* A load that goes on to the swap leaves room for it, in every step.      *)
LEMMA RoomNext == TypeOK /\ SwapHasRoom /\ [Next]_vars => SwapHasRoom'
<1> SUFFICES ASSUME TypeOK, SwapHasRoom, [Next]_vars PROVE SwapHasRoom'
  OBVIOUS
<1> USE DEF SwapHasRoom, Saturated, Uint32, TypeOK
<1>1. ASSUME NEW p \in Procs, Load(p) PROVE SwapHasRoom'
  BY <1>1 DEF Load, Judge
<1>2. ASSUME NEW p \in Procs, Cas(p) PROVE SwapHasRoom'
  BY <1>2 DEF Cas, Judge
<1>3. ASSUME NEW p \in Procs, Log(p) \/ Handle(p) \/ Return(p)
      PROVE  SwapHasRoom'
  BY <1>3 DEF Log, Handle, Return
<1>4. CASE Elapse \/ UNCHANGED vars
  BY <1>4 DEF Elapse, vars
<1> QED
  BY <1>1, <1>2, <1>3, <1>4 DEF Next, Step

(* The tick of Handle is the interval that the moment lies in.             *)
LEMMA TickIsInterval ==
  ASSUME NEW e \in Int
  PROVE  TickOf(e) = Interval(e) /\ Interval(e) \in Int
<1> DEFINE k == TickOf(e)
           m == Interval(e)
           len == TickLen
<1>1. /\ k \in Int /\ len \in Nat \ {0}
      /\ k * len <= e /\ e < (k + 1) * len
  BY TickIsFloor, Normalised
<1>2. m \in Int /\ m * len <= e /\ e < (m + 1) * len
  BY <1>1 DEF Interval
<1> HIDE DEF k, m, len
<1>3. ASSUME NEW i \in Int, NEW j \in Int, i + 1 <= j, j * len <= e,
             e < (i + 1) * len
      PROVE  FALSE
  <2>1. (i + 1) * len <= j * len
    BY <1>1, <1>3
  <2>2. j * len \in Int /\ (i + 1) * len \in Int
    BY <1>1
  <2> QED
    BY <1>3, <2>1, <2>2
<1>4. k = m
  BY <1>1, <1>2, <1>3
<1> QED
  BY <1>2, <1>4 DEF k, m

(* Intervals follow time.                                                  *)
LEMMA IntervalMonotone ==
  ASSUME NEW d \in Int, NEW e \in Int, d <= e
  PROVE  Interval(d) <= Interval(e)
BY Normalised DEF Interval

(* What is counted is counted at a tick of the run, and at that which it   *)
(* belongs to.                                                             *)
TickInRange ==
  \A p \in Procs : InLoop(p) => tick[p] \in Ticks /\ tick[p] = Due(p)

LEMMA RangeNext == TypeOK /\ TickInRange /\ [Next]_vars => TickInRange'
<1> SUFFICES ASSUME TypeOK, TickInRange, [Next]_vars PROVE TickInRange'
  OBVIOUS
<1> USE DEF TickInRange, InLoop, TypeOK
<1>1. ASSUME NEW p \in Procs, Handle(p) PROVE TickInRange'
  <2> DEFINE e == IF rec[p].time = NoTime THEN clock ELSE rec[p].time
  <2>1. CASE rec[p].key \in FatalKeys
    BY <1>1, <2>1 DEF Handle, Due
  <2>2. CASE rec[p].key \notin FatalKeys
    <3>1. /\ Backdate \in Nat /\ MaxTime \in Nat
          /\ e \in Int /\ -Backdate <= e /\ e <= MaxTime
      BY <1>1, SamplerAssumption
         DEF Handle, SamplerAssumption, Records, Stamps
    <3>2. /\ Interval(e) \in Int /\ TickOf(e) = Interval(e)
          /\ Interval(-Backdate) \in Int /\ Interval(MaxTime) \in Int
      BY <3>1, TickIsInterval
    <3>3. /\ Interval(-Backdate) <= Interval(e)
          /\ Interval(e) <= Interval(MaxTime)
      BY <3>1, IntervalMonotone
    <3>4. TickOf(e) \in Ticks
      BY <3>2, <3>3 DEF Ticks
    <3>5. tick' = [tick EXCEPT ![p] = TickOf(e)] /\ UNCHANGED rec
      BY <1>1, <2>2 DEF Handle
    <3>6. pc' = [pc EXCEPT ![p] = "load"]
      BY <1>1, <2>2 DEF Handle
    <3>7. tick'[p] = Due(p)'
      BY <3>2, <3>5 DEF Due
    <3> HIDE DEF e
    <3>8. \A q \in Procs : q # p =>
            /\ tick'[q] = tick[q] /\ pc'[q] = pc[q]
            /\ Due(q)' = Due(q)
      BY <3>5, <3>6 DEF Due
    <3>9. tick'[p] \in Ticks
      BY <3>4, <3>5
    <3> QED
      BY <3>7, <3>8, <3>9 DEF Ticks, Interval
  <2> QED
    BY <2>1, <2>2
<1>2. ASSUME NEW p \in Procs, Log(p) \/ Load(p) \/ Cas(p) \/ Return(p)
      PROVE  TickInRange'
  BY <1>2 DEF Log, Load, Cas, Return, Judge, Due
<1>3. CASE Elapse \/ UNCHANGED vars
  BY <1>3 DEF Elapse, vars, Due
<1> QED
  BY <1>1, <1>2, <1>3 DEF Next, Step

LedgerTyped ==
  /\ counted \in [Buckets -> [Ticks -> Nat]]
  /\ passed \in [Buckets -> [Ticks -> Nat]]
  /\ latest \in [Buckets -> Ticks]

(* A counter that was never disturbed holds the count of the latest tick it*)
(* has counted, and counts no tick again once it is past it.               *)
InOrder(b) ==
  /\ \A t \in Ticks : passed[b][t] = Quota(counted[b][t])
  /\ \A t \in Ticks : t > latest[b] \/ counters[b].n = 0 => counted[b][t] = 0
  /\ counters[b].n > 0 => /\ counters[b].tick = Uint32(latest[b])
                         /\ counted[b][latest[b]] = counters[b].n

ExactInv ==
  /\ LedgerTyped
  /\ TickInRange
  /\ SwapHasRoom
  /\ \A b \in Buckets \ disturbed : InOrder(b)

LEMMA ExactInit == AuditInit => ExactInv
<1> SUFFICES ASSUME AuditInit PROVE ExactInv
  OBVIOUS
<1>1. Interval(-Backdate) \in Ticks
  <2>1. -Backdate \in Int /\ MaxTime \in Int /\ -Backdate <= MaxTime
    BY SamplerAssumption DEF SamplerAssumption
  <2> QED
    BY <2>1, TickIsInterval, IntervalMonotone DEF Ticks
<1>2. LedgerTyped
  BY <1>1 DEF AuditInit, LedgerTyped
<1>3. TickInRange /\ SwapHasRoom
  BY DEF AuditInit, Init, TickInRange, InLoop, SwapHasRoom
<1>4. ASSUME NEW b \in Buckets PROVE InOrder(b)
  BY <1>4, QuotaGrows DEF AuditInit, Init, InOrder, Zero
<1> QED
  BY <1>2, <1>3, <1>4 DEF ExactInv

(* An entry of the ledger touches one counter, and one tick of it.         *)
LEMMA AccountTyped ==
  ASSUME LedgerTyped, NEW b \in Buckets, NEW t \in Ticks, NEW w, NEW pass,
         pass \in BOOLEAN, Account(b, t, w, pass)
  PROVE  /\ LedgerTyped'
         /\ \A c \in Buckets \ {b} : /\ counted'[c] = counted[c]
                                     /\ passed'[c] = passed[c]
                                     /\ latest'[c] = latest[c]
         /\ \A u \in Ticks \ {t} : /\ counted'[b][u] = counted[b][u]
                                   /\ passed'[b][u] = passed[b][u]
         /\ counted'[b][t] = counted[b][t] + 1
         /\ passed'[b][t] = passed[b][t] + Bit(pass)
         /\ latest'[b] = IF t > latest[b] THEN t ELSE latest[b]
<1>1. Bit(pass) \in Nat
  BY DEF Bit
<1> DEFINE one == Bit(pass)
<1>2. /\ counted' = [counted EXCEPT ![b][t] = @ + 1]
      /\ passed' = [passed EXCEPT ![b][t] = @ + one]
      /\ latest' = [latest EXCEPT ![b] = IF t > @ THEN t ELSE @]
  BY DEF Account
<1> HIDE DEF one
<1>3. one \in Nat
  BY <1>1 DEF one
<1>4. LedgerTyped'
  BY <1>2, <1>3 DEF LedgerTyped
<1>5. /\ \A c \in Buckets \ {b} : /\ counted'[c] = counted[c]
                                  /\ passed'[c] = passed[c]
                                  /\ latest'[c] = latest[c]
      /\ \A u \in Ticks \ {t} : /\ counted'[b][u] = counted[b][u]
                                /\ passed'[b][u] = passed[b][u]
      /\ counted'[b][t] = counted[b][t] + 1
      /\ passed'[b][t] = passed[b][t] + one
      /\ latest'[b] = IF t > latest[b] THEN t ELSE latest[b]
  BY <1>2 DEF LedgerTyped
<1> QED
  BY <1>4, <1>5 DEF one

(* A record counted in tick order gets the number after those its tick has *)
(* counted.                                                                *)
LEMMA SwapKeepsOrder ==
  ASSUME TypeOK, ExactInv, NEW p \in Procs, Cas(p), ACount(p),
         counters[Bucket(p)] = old[p]
  PROVE  ExactInv'
<1> DEFINE b == Bucket(p)
           t == tick[p]
           w == old[p]
           next == Following(w, Uint32(t))
           good == Admits(next.n)
<1> USE SamplerAssumption DEF SamplerAssumption
<1>1. b \in Buckets /\ t \in Ticks /\ w \in Words /\ Uint32(t) \in 0..(TickMod - 1)
  <2>1. b \in Buckets /\ w \in Words /\ t \in Int
    BY DEF Cas, TypeOK, Bucket, Records
  <2>2. t \in Ticks
    BY DEF Cas, ExactInv, TickInRange, InLoop
  <2> QED
    BY <2>1, <2>2, Uint32Type
<1>2. /\ counters' = [counters EXCEPT ![b] = next]
      /\ pc' = [pc EXCEPT ![p] = IF good THEN "pass" ELSE "drop"]
      /\ UNCHANGED <<tick, old>>
  BY DEF Cas, Judge
<1>3. Account(b, t, w, pc'[p] = "pass") /\ Bit(pc'[p] = "pass") = Bit(good)
  <2>1. pc'[p] = IF good THEN "pass" ELSE "drop"
    BY <1>2 DEF TypeOK
  <2>2. t = Due(p)
    BY DEF Cas, ExactInv, TickInRange, InLoop
  <2>3. Account(b, t, w, pc'[p] = "pass")
    BY <2>1, <2>2 DEF ACount
  <2>4. Bit(pc'[p] = "pass") = Bit(good)
    BY <2>1 DEF Bit
  <2> QED
    BY <2>3, <2>4
<1>4. ~Saturated(w, Uint32(t)) /\ counters[b] = w
  BY DEF Cas, ExactInv, SwapHasRoom
<1>5. /\ LedgerTyped'
      /\ \A c \in Buckets \ {b} : /\ counted'[c] = counted[c]
                                  /\ passed'[c] = passed[c]
                                  /\ latest'[c] = latest[c]
      /\ \A u \in Ticks \ {t} : /\ counted'[b][u] = counted[b][u]
                                /\ passed'[b][u] = passed[b][u]
      /\ counted'[b][t] = counted[b][t] + 1
      /\ passed'[b][t] = passed[b][t] + Bit(good)
      /\ latest'[b] = IF t > latest[b] THEN t ELSE latest[b]
  <2>1. LedgerTyped
    BY DEF ExactInv
  <2> DEFINE pass == pc'[p] = "pass"
  <2>2. pass \in BOOLEAN /\ Account(b, t, w, pass) /\ Bit(pass) = Bit(good)
    BY <1>3
  <2> HIDE DEF pass, b, t, w, good
  <2> QED
    BY <1>1, <2>1, <2>2, AccountTyped
<1>6. TickInRange'
  <2>1. [Next]_vars
    BY DEF Next, Step
  <2> QED
    BY <2>1, RangeNext DEF ExactInv
<1>7. SwapHasRoom'
  BY <1>2 DEF ExactInv, SwapHasRoom, TypeOK, Saturated, Uint32
<1>8. disturbed' = IF Disturbs(b, t, w) THEN disturbed \cup {b} ELSE disturbed
  BY <1>3 DEF Account
<1>9. ASSUME NEW c \in Buckets \ disturbed', c # b PROVE InOrder(c)'
  <2>1. counters'[c] = counters[c] /\ InOrder(c)
    BY <1>2, <1>8, <1>9 DEF TypeOK, ExactInv
  <2> QED
    BY <1>5, <1>9, <2>1 DEF InOrder, Quota, Admits, Uint32
<1>10. ASSUME NEW c \in Buckets \ disturbed', c = b PROVE InOrder(c)'
  <2> DEFINE L == latest[b]
  <2>1. ~Disturbs(b, t, w) /\ InOrder(b)
    BY <1>1, <1>8, <1>10 DEF ExactInv
  <2>2. L \in Ticks /\ L \in Int /\ t \in Int /\ t >= L
    <3>1. L \in Ticks
      BY <1>1 DEF ExactInv, LedgerTyped
    <3>2. Interval(-Backdate) \in Int /\ Interval(MaxTime) \in Int
      BY TickIsInterval, SamplerAssumption DEF SamplerAssumption
    <3>3. \A u \in Ticks : u \in Int
      BY <3>2 DEF Ticks
    <3> QED
      BY <1>1, <2>1, <3>1, <3>3 DEF Disturbs
  <2>3. counters'[b] = next
    BY <1>1, <1>2 DEF TypeOK
  <2>4. latest'[b] = t
    BY <1>5, <2>2
  <2>5. next.n = counted[b][t] + 1 /\ next.tick = Uint32(t) /\ w.n \in Nat
    <3>1. w.n \in Nat /\ w.n <= CountMax
      BY <1>1 DEF Words
    <3>2. CASE w.n = 0
      <4>1. counted[b][t] = 0
        BY <1>1, <1>4, <2>1, <3>2 DEF InOrder
      <4> QED
        BY <1>1, <3>1, <3>2, <4>1 DEF Following, PlusOne, Fresh, Words
    <3>3. CASE w.n > 0 /\ t = L
      <4>1. w.tick = Uint32(t) /\ counted[b][t] = w.n
        BY <1>4, <2>1, <3>3 DEF InOrder
      <4>2. w.n < CountMax
        BY <1>4, <3>1, <4>1 DEF Saturated
      <4> QED
        BY <1>1, <3>1, <4>1, <4>2 DEF Following, PlusOne, Words
    <3>4. CASE w.n > 0 /\ t > L
      <4>1. counted[b][t] = 0
        BY <1>1, <2>1, <3>4 DEF InOrder
      <4>2. w.tick # Uint32(t)
        BY <1>4, <2>1, <2>2, <3>4 DEF Disturbs, InOrder
      <4> QED
        BY <3>1, <4>1, <4>2 DEF Following, Fresh
    <3> QED
      BY <2>2, <3>1, <3>2, <3>3, <3>4
  <2>6. counted[b][t] \in Nat /\ passed[b][t] = Quota(counted[b][t])
    BY <1>1, <2>1 DEF InOrder, ExactInv, LedgerTyped
  <2>7. passed'[b][t] = Quota(counted'[b][t])
    BY <1>5, <2>5, <2>6, QuotaGrows
  <2>8. \A u \in Ticks : passed'[b][u] = Quota(counted'[b][u])
    BY <1>5, <2>1, <2>7 DEF InOrder
  <2>9. next.n > 0 /\ counted'[b][t] = next.n
    BY <1>5, <2>5, <2>6
  <2>10. ASSUME NEW u \in Ticks, u > t PROVE counted'[b][u] = 0
    <3>1. u \in Int /\ u > L /\ u # t
      BY <2>2, <2>10, TickIsInterval, SamplerAssumption
         DEF SamplerAssumption, Ticks
    <3> QED
      BY <1>5, <2>1, <2>10, <3>1 DEF InOrder
  <2> HIDE DEF next, L, t, b
  <2> QED
    BY <1>10, <2>3, <2>4, <2>5, <2>8, <2>9, <2>10
       DEF InOrder, Quota, Admits, Uint32
<1> QED
  BY <1>5, <1>6, <1>7, <1>9, <1>10 DEF ExactInv

(* A counter that is full is disturbed by counting another record.         *)
LEMMA LoadKeepsOrder ==
  ASSUME TypeOK, ExactInv, NEW p \in Procs, Load(p), ACount(p)
  PROVE  ExactInv'
<1> DEFINE b == Bucket(p)
           t == tick[p]
           w == counters[b]
<1>1. b \in Buckets /\ t \in Ticks /\ t = Due(p)
  BY SamplerAssumption
     DEF SamplerAssumption, Load, TypeOK, Bucket, Records, ExactInv,
         TickInRange, InLoop
<1>2. UNCHANGED <<counters, tick>> /\ old' = [old EXCEPT ![p] = w]
  BY DEF Load
<1>3. TickInRange'
  <2>1. [Next]_vars
    BY DEF Next, Step
  <2> QED
    BY <2>1, RangeNext DEF ExactInv
<1>4. SwapHasRoom'
  <2>1. [Next]_vars
    BY DEF Next, Step
  <2> QED
    BY <2>1, RoomNext DEF ExactInv
<1>5. CASE Saturated(w, Uint32(t))
  <2>1. pc' = [pc EXCEPT ![p] = IF Admits(CountMax) THEN "pass" ELSE "drop"]
    BY <1>5 DEF Load, Judge
  <2> DEFINE pass == pc'[p] = "pass"
  <2>2. Account(b, t, w, pass) /\ pass \in BOOLEAN /\ LedgerTyped
    BY <1>1, <2>1 DEF ACount, TypeOK, ExactInv
  <2>3. disturbed' = disturbed \cup {b}
    BY <1>5, <2>2 DEF Account, Disturbs
  <2> HIDE DEF pass, t, w, b
  <2>4. /\ LedgerTyped'
        /\ \A c \in Buckets \ {b} : /\ counted'[c] = counted[c]
                                    /\ passed'[c] = passed[c]
                                    /\ latest'[c] = latest[c]
    BY <1>1, <2>2, AccountTyped
  <2>5. ASSUME NEW c \in Buckets \ disturbed' PROVE InOrder(c)'
    <3>1. c # b /\ InOrder(c)
      BY <2>3 DEF ExactInv
    <3> QED
      BY <1>2, <2>4, <3>1 DEF InOrder, Quota, Admits, Uint32
  <2> QED
    BY <1>3, <1>4, <2>4, <2>5 DEF ExactInv
<1>6. CASE ~Saturated(w, Uint32(t))
  <2>1. pc'[p] = "cas"
    BY <1>6 DEF Load, TypeOK
  <2>2. UNCHANGED audit
    BY <2>1 DEF ACount
  <2>3. UNCHANGED <<counted, passed, latest, disturbed, counters>>
    BY <1>2, <2>2 DEF audit
  <2> QED
    BY <1>3, <1>4, <2>3 DEF ExactInv, LedgerTyped, InOrder, Quota, Admits, Uint32
<1> QED
  BY <1>5, <1>6

LEMMA ExactNext == TypeOK /\ ExactInv /\ [AuditNext]_auditVars => ExactInv'
<1> SUFFICES ASSUME TypeOK, ExactInv, [AuditNext]_auditVars PROVE ExactInv'
  OBVIOUS
<1>1. ASSUME [Next]_vars,
             UNCHANGED <<counted, passed, latest, disturbed, counters>>
      PROVE  ExactInv'
  <2>1. TickInRange' /\ SwapHasRoom'
    BY <1>1, RangeNext, RoomNext DEF ExactInv
  <2> QED
    BY <1>1, <2>1 DEF ExactInv, LedgerTyped, InOrder, Quota, Admits, Uint32
<1>2. CASE Elapse /\ UNCHANGED audit
  BY <1>1, <1>2 DEF Elapse, Next, audit
<1>3. ASSUME NEW p \in Procs, ALog(p) PROVE ExactInv'
  BY <1>1, <1>3 DEF ALog, Log, Next
<1>4. ASSUME NEW p \in Procs, (Handle(p) \/ Return(p)) /\ UNCHANGED audit
      PROVE  ExactInv'
  BY <1>1, <1>4 DEF Handle, Return, Next, Step, audit
<1>5. ASSUME NEW p \in Procs, ACount(p) PROVE ExactInv'
  <2>1. CASE Load(p)
    BY <1>5, <2>1, LoadKeepsOrder
  <2>2. CASE Cas(p) /\ counters[Bucket(p)] = old[p]
    BY <1>5, <2>2, SwapKeepsOrder
  <2>3. CASE Cas(p) /\ counters[Bucket(p)] # old[p]
    <3>1. pc' = [pc EXCEPT ![p] = "load"] /\ UNCHANGED counters
      BY <2>3 DEF Cas
    <3>2. pc'[p] = "load"
      BY <3>1 DEF TypeOK
    <3>3. UNCHANGED audit
      BY <1>5, <3>2 DEF ACount
    <3> QED
      BY <1>1, <2>3, <3>1, <3>3 DEF Next, Step, audit
  <2> QED
    BY <1>5, <2>1, <2>2, <2>3 DEF ACount
<1>6. CASE UNCHANGED auditVars
  BY <1>1, <1>6 DEF auditVars, vars, audit
<1> QED
  BY <1>2, <1>3, <1>4, <1>5, <1>6 DEF AuditNext

(* A counter that counted its records in tick order, never met a tick 2^32 *)
(* ticks away and was not full passes on exactly the quota of each tick.   *)
THEOREM ExactWhenInOrderHolds == AuditSpec => []ExactWhenInOrder
<1>1. AuditSpec => []TypeOK
  BY AuditRefines, SamplerTypeCorrect, PTL
<1>2. ExactInv => ExactWhenInOrder
  BY DEF ExactInv, ExactWhenInOrder, InOrder
<1> QED
  BY <1>1, <1>2, ExactInit, ExactNext, PTL DEF AuditSpec

-----------------------------------------------------------------------------
(* The test of Handle, a remainder of zero, is the documented rule: one of *)
(* the first First, or every Thereafter-th one after them.                 *)
LEMMA AdmitsIsChosen ==
  ASSUME NEW n \in Nat \ {0}
  PROVE  Admits(n) <=> Limiter!Chosen(n)
<1>1. First \in Nat /\ Thereafter \in Nat
  BY Normalised
<1>2. CASE n <= First
  BY <1>1, <1>2 DEF Admits, Limiter!Chosen
<1>3. CASE n > First /\ Thereafter = 0
  BY <1>1, <1>3 DEF Admits, Limiter!Chosen
<1>4. CASE n > First /\ Thereafter > 0
  <2> DEFINE d == n - First
             q == d \div Thereafter
  <2>0. d \in Nat \ {0} /\ Thereafter \in Nat \ {0}
    BY <1>1, <1>4
  <2> HIDE DEF d
  <2>1. q \in Nat /\ d = Thereafter * q + (d % Thereafter)
    BY <2>0
  <2> USE DEF d
  <2>2. ASSUME d % Thereafter = 0
        PROVE  q \in 1..n /\ n = First + q * Thereafter
    BY <1>1, <1>4, <2>1, <2>2
  <2>3. ASSUME NEW j \in 1..n, n = First + j * Thereafter
        PROVE  d % Thereafter = 0
    BY <1>1, <1>4, <2>1, <2>3
  <2>4. (d % Thereafter = 0) <=> \E j \in 1..n : n = First + j * Thereafter
    BY <2>2, <2>3
  <2>5. Admits(n) <=> d % Thereafter = 0
    BY <1>1, <1>4 DEF Admits
  <2>6. Limiter!Chosen(n) <=> \E j \in 1..n : n = First + j * Thereafter
    BY <1>1, <1>4 DEF Limiter!Chosen
  <2> QED
    BY <2>4, <2>5, <2>6
<1> QED
  BY <1>1, <1>2, <1>3, <1>4

LEMMA LimiterInit == Init => Limiter!Init
BY DEF Init, Zero, CallOf, Limiter!Init, Limiter!Idle

LEMMA LimiterNext ==
  TypeOK /\ SwapHasRoom /\ [Next]_vars => [Limiter!Next]_(Limiter!limiterVars)
<1> SUFFICES ASSUME TypeOK, SwapHasRoom, [Next]_vars
             PROVE  Limiter!Next \/ UNCHANGED Limiter!limiterVars
  OBVIOUS
<1> DEFINE call == [p \in Procs |-> CallOf(p)]
<1> USE SamplerAssumption DEF SamplerAssumption
<1>0. ASSUME NEW p \in Procs,
             \A q \in Procs : q # p => /\ pc'[q] = pc[q] /\ rec'[q] = rec[q]
                                       /\ tick'[q] = tick[q]
      PROVE  call' = [call EXCEPT ![p] = CallOf(p)']
  BY <1>0 DEF CallOf, Uint32
<1>1. ASSUME Elapse PROVE UNCHANGED Limiter!limiterVars
  BY <1>1 DEF Elapse, Limiter!limiterVars, CallOf, Uint32
<1>2. ASSUME NEW p \in Procs, Log(p) PROVE UNCHANGED Limiter!limiterVars
  <2>1. CallOf(p)' = CallOf(p)
    BY <1>2 DEF Log, CallOf, TypeOK
  <2> QED
    BY <1>0, <1>2, <2>1 DEF Log, TypeOK, Limiter!limiterVars
<1>3. ASSUME NEW p \in Procs, Handle(p) PROVE Limiter!Enter(p)
  <2>1. call' = [call EXCEPT ![p] = CallOf(p)']
    BY <1>0, <1>3 DEF Handle, TypeOK
  <2>2. call[p] = Limiter!Idle
    BY <1>3 DEF Handle, CallOf, Limiter!Idle
  <2>3. rec'[p] = rec[p] /\ rec[p].key \in Keys /\ UNCHANGED counters
    BY <1>3 DEF Handle, TypeOK, Records
  <2>4. CASE rec[p].key \in FatalKeys
    <3>1. CallOf(p)' = Limiter!Judged(rec[p].key, TRUE)
      BY <1>3, <2>3, <2>4 DEF Handle, TypeOK, CallOf, Limiter!Judged
    <3> QED
      BY <2>1, <2>2, <2>3, <2>4, <3>1 DEF Limiter!Enter
  <2>5. CASE rec[p].key \notin FatalKeys
    <3>1. tick'[p] \in Int
      BY <1>3, TypeNext DEF TypeOK
    <3>2. Uint32(tick'[p]) \in 0..(TickMod - 1)
      BY <3>1, Uint32Type
    <3>3. CallOf(p)' = Limiter!Open(rec[p].key, Uint32(tick'[p]))
      BY <1>3, <2>3, <2>5
         DEF Handle, TypeOK, CallOf, Limiter!Open, Uint32
    <3> QED
      BY <2>1, <2>2, <2>3, <2>5, <3>2, <3>3 DEF Limiter!Enter
  <2> QED
    BY <2>4, <2>5
<1>4. ASSUME NEW p \in Procs, Load(p)
      PROVE  Limiter!Judge(p) \/ UNCHANGED Limiter!limiterVars
  <2> DEFINE b == Bucket(p)
             t == Uint32(tick[p])
  <2>1. /\ call' = [call EXCEPT ![p] = CallOf(p)']
        /\ UNCHANGED <<counters, rec, tick>>
    BY <1>0, <1>4 DEF Load, Judge, TypeOK
  <2>2. /\ call[p].st = "open" /\ call[p].key = rec[p].key
        /\ call[p].tick = t /\ BucketOf[call[p].key] = b
    BY <1>4 DEF Load, CallOf, Bucket
  <2>3. b \in Buckets /\ counters[b] \in Words
    BY <1>4 DEF Load, TypeOK, Bucket, Records
  <2>4. CASE Saturated(counters[b], t)
    <3>1. Limiter!Bumped(counters[b], t) = counters[b]
      BY <2>3, <2>4 DEF Saturated, Words, Limiter!Bumped
    <3>2. CallOf(p)' = Limiter!Judged(rec[p].key, Limiter!Chosen(CountMax))
      <4>1. Admits(CountMax) <=> Limiter!Chosen(CountMax)
        BY AdmitsIsChosen
      <4>2. pc'[p] = IF Limiter!Chosen(CountMax) THEN "pass" ELSE "drop"
        BY <1>4, <2>4, <4>1 DEF Load, Judge, TypeOK
      <4> QED
        BY <2>1, <4>2 DEF CallOf, Limiter!Judged
    <3>3. counters' = [counters EXCEPT ![b] = counters[b]]
      BY <2>1, <2>3 DEF TypeOK
    <3>4. Limiter!Bumped(counters[b], t).n = CountMax
      BY <2>4, <3>1 DEF Saturated
    <3> QED
      BY <2>1, <2>2, <3>1, <3>2, <3>3, <3>4 DEF Limiter!Judge
  <2>5. CASE ~Saturated(counters[b], t)
    <3>1. CallOf(p)' = CallOf(p)
      BY <1>4, <2>1, <2>5 DEF Load, TypeOK, CallOf, Uint32
    <3> QED
      BY <2>1, <3>1 DEF Limiter!limiterVars
  <2> QED
    BY <2>4, <2>5
<1>5. ASSUME NEW p \in Procs, Cas(p)
      PROVE  Limiter!Judge(p) \/ UNCHANGED Limiter!limiterVars
  <2> DEFINE b == Bucket(p)
             t == Uint32(tick[p])
             next == Following(old[p], t)
  <2>1. /\ call' = [call EXCEPT ![p] = CallOf(p)']
        /\ UNCHANGED <<rec, tick>>
    BY <1>0, <1>5 DEF Cas, Judge, TypeOK
  <2>2. /\ call[p].st = "open" /\ call[p].key = rec[p].key
        /\ call[p].tick = t /\ BucketOf[call[p].key] = b
    BY <1>5 DEF Cas, CallOf, Bucket
  <2>3. b \in Buckets /\ old[p] \in Words
    BY <1>5 DEF Cas, TypeOK, Bucket, Records
  <2>4. CASE counters[b] = old[p]
    <3>1. Limiter!Bumped(counters[b], t) = next /\ next.n \in Nat \ {0}
      BY <1>5, <2>3, <2>4
         DEF Cas, SwapHasRoom, Saturated, Words, Limiter!Bumped, Following,
             PlusOne, Fresh
    <3>2. CallOf(p)' = Limiter!Judged(rec[p].key, Limiter!Chosen(next.n))
      <4>1. Admits(next.n) <=> Limiter!Chosen(next.n)
        BY <3>1, AdmitsIsChosen
      <4>2. pc'[p] = IF Limiter!Chosen(next.n) THEN "pass" ELSE "drop"
        BY <1>5, <2>4, <4>1 DEF Cas, Judge, TypeOK
      <4> QED
        BY <2>1, <4>2 DEF CallOf, Limiter!Judged
    <3>3. counters' = [counters EXCEPT ![b] = next]
      BY <1>5, <2>4 DEF Cas
    <3> QED
      BY <2>1, <2>2, <2>4, <3>1, <3>2, <3>3 DEF Limiter!Judge
  <2>5. CASE counters[b] # old[p]
    <3>1. CallOf(p)' = CallOf(p) /\ UNCHANGED counters
      BY <1>5, <2>1, <2>5 DEF Cas, TypeOK, CallOf, Uint32
    <3> QED
      BY <2>1, <3>1 DEF Limiter!limiterVars
  <2> QED
    BY <2>4, <2>5
<1>6. ASSUME NEW p \in Procs, Return(p) PROVE Limiter!Leave(p)
  <2>1. call' = [call EXCEPT ![p] = CallOf(p)']
    BY <1>0, <1>6 DEF Return, TypeOK
  <2>2. call[p].st \in {"pass", "drop"}
    BY <1>6 DEF Return, CallOf
  <2>3. CallOf(p)' = Limiter!Idle
    BY <1>6 DEF Return, TypeOK, CallOf, Limiter!Idle
  <2> QED
    BY <1>6, <2>1, <2>2, <2>3 DEF Return, Limiter!Leave
<1>7. CASE UNCHANGED vars
  BY <1>7 DEF vars, Limiter!limiterVars, CallOf, Uint32
<1> QED
  BY <1>1, <1>2, <1>3, <1>4, <1>5, <1>6, <1>7
     DEF Next, Step, Limiter!Next

(* The compare-and-swap loop implements the limiter whose counting is      *)
(* atomic and whose rule is the documented one.                            *)
THEOREM SamplerImplementsLimiter == Spec => ImplementsLimiter
<1>1. Init => SwapHasRoom
  BY DEF Init, SwapHasRoom
<1>2. Spec => [](TypeOK /\ SwapHasRoom)
  BY <1>1, TypeInit, TypeNext, RoomNext, PTL DEF Spec
<1> QED
  BY <1>2, LimiterInit, LimiterNext, PTL DEF Spec, ImplementsLimiter,
     Limiter!Spec
=============================================================================
