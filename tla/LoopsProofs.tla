----------------------------- MODULE LoopsProofs -----------------------------
(***************************************************************************)
(* What the loops of Loops have appended when they end.                    *)
(***************************************************************************)
EXTENDS Loops, SequencesExt, SequenceTheorems, WellFoundedInduction, TLAPS

(* Induction up to N, for a set of numbers.                                *)
LEMMA UpTo ==
  ASSUME NEW N \in Nat, NEW S, 0 \in S,
         \A n \in 1..N : n - 1 \in S => n \in S
  PROVE  0..N \subseteq S
<1> DEFINE T == (0..N) \ S
<1>1. SUFFICES ASSUME T # {} PROVE FALSE
  OBVIOUS
<1>2. T \subseteq Nat
  OBVIOUS
<1>3. PICK m \in T : \A k \in T : ~(<<k, m>> \in OpToRel(<, Nat))
  <2> HIDE DEF T
  <2> QED
    BY <1>1, <1>2, WFMin, NatLessThanWellFounded, Zenon
<1>4. \A k \in T : ~(k < m)
  <2> HIDE DEF T
  <2> QED
    BY <1>2, <1>3 DEF OpToRel
<1>5. m \in 1..N /\ m - 1 \in 0..N /\ m - 1 < m
  OBVIOUS
<1> QED
  BY <1>4, <1>5

(* The steps of a loop that goes through N of them, and what it may have   *)
(* after each.                                                             *)
Steps(N, S) == [1..N -> [S -> S]]

Runs(N, S, base, step) ==
  {f \in [0..N -> S] :
     f[0] = base /\ \A n \in 1..N : f[n] = step[n][f[n - 1]]}

(* Such a loop exists.                                                     *)
LEMMA Recursion ==
  ASSUME NEW N \in Nat, NEW S, NEW base \in S, NEW step \in Steps(N, S)
  PROVE  Runs(N, S, base, step) # {}
<1> SUFFICES \E f \in [0..N -> S] :
               f[0] = base /\ \A n \in 1..N : f[n] = step[n][f[n - 1]]
  BY DEF Runs
<1> USE DEF Steps
<1> DEFINE Is(f, m) == f[0] = base /\ \A n \in 1..m : f[n] = step[n][f[n - 1]]
           T == {m \in 0..N : \E f \in [0..m -> S] : Is(f, m)}
<1>1. 0 \in T
  <2>1. [n \in 0..0 |-> base] \in [0..0 -> S] /\ Is([n \in 0..0 |-> base], 0)
    OBVIOUS
  <2> HIDE DEF Is
  <2> QED
    BY <2>1
<1>2. ASSUME NEW m \in 1..N, m - 1 \in T PROVE m \in T
  <2>1. PICK f \in [0..(m - 1) -> S] : Is(f, m - 1)
    BY <1>2
  <2> DEFINE g == [n \in 0..m |-> IF n = m THEN step[m][f[m - 1]] ELSE f[n]]
  <2>2. \A n \in 0..m : n # m => n \in 0..(m - 1)
    OBVIOUS
  <2>3. m - 1 \in 0..(m - 1) /\ m \in 0..m /\ 0 \in 0..(m - 1)
    OBVIOUS
  <2>4. step[m][f[m - 1]] \in S
    BY <2>3
  <2>5. g \in [0..m -> S]
    BY <2>2, <2>4
  <2>6. \A n \in 0..(m - 1) : g[n] = f[n]
    OBVIOUS
  <2>7. g[m] = step[m][f[m - 1]]
    BY <2>3
  <2>8. Is(g, m)
    <3>1. g[0] = base
      BY <2>1, <2>3, <2>6
    <3>2. ASSUME NEW n \in 1..m PROVE g[n] = step[n][g[n - 1]]
      <4>1. n - 1 \in 0..(m - 1)
        OBVIOUS
      <4>2. CASE n = m
        BY <2>6, <2>7, <4>1, <4>2
      <4>3. CASE n # m
        <5>1. n \in 1..(m - 1) /\ n \in 0..(m - 1)
          BY <4>3
        <5>2. f[n] = step[n][f[n - 1]]
          BY <2>1, <5>1
        <5> QED
          BY <2>6, <4>1, <5>1, <5>2
      <4> QED
        BY <4>2, <4>3
    <3> QED
      BY <3>1, <3>2
  <2> HIDE DEF g, Is
  <2> QED
    BY <2>5, <2>8
<1>3. 0..N \subseteq T
  <2> HIDE DEF T
  <2> QED
    BY <1>1, <1>2, UpTo
<1>4. N \in T
  BY <1>3
<1> QED
  BY <1>4

(* Induction over sequences, for a set of them.                            *)
LEMMA SeqInduction ==
  ASSUME NEW S, NEW T, <<>> \in T,
         \A s \in Seq(S), e \in S : s \in T => Append(s, e) \in T
  PROVE  Seq(S) \subseteq T
<1> SUFFICES ASSUME NEW s \in Seq(S) PROVE s \in T
  OBVIOUS
<1> DEFINE P == {n \in 0..Len(s) : SubSeq(s, 1, n) \in T}
<1>1. Len(s) \in Nat
  OBVIOUS
<1>2. 0 \in P
  <2>1. SubSeq(s, 1, 0) = <<>> /\ 0 \in 0..Len(s)
    BY <1>1
  <2> QED
    BY <2>1
<1>3. ASSUME NEW n \in 1..Len(s), n - 1 \in P PROVE n \in P
  <2>1. s[n] \in S /\ SubSeq(s, 1, n - 1) \in Seq(S)
    OBVIOUS
  <2>2. SubSeq(s, 1, n) = Append(SubSeq(s, 1, n - 1), s[n])
    BY <2>1, SubSeqRecursiveSecond, AppendIsConcat
  <2>3. SubSeq(s, 1, n) \in T
    BY <1>3, <2>1, <2>2
  <2> QED
    BY <2>3
<1>4. 0..Len(s) \subseteq P
  <2> HIDE DEF P
  <2> QED
    BY <1>1, <1>2, <1>3, UpTo
<1>5. SubSeq(s, 1, Len(s)) \in T
  BY <1>1, <1>4
<1>6. SubSeq(s, 1, Len(s)) = s
  OBVIOUS
<1> QED
  BY <1>5, <1>6

(* What FlattenSeq puts together, one sequence after the other.            *)
LEMMA FlattenIs ==
  ASSUME NEW S, NEW s \in Seq(Seq(S)), NEW f \in [0..Len(s) -> Seq(S)],
         f[0] = <<>>, \A n \in 1..Len(s) : f[n] = f[n - 1] \o s[n]
  PROVE  FlattenSeq(s) = f[Len(s)]
<1> DEFINE N == Len(s)
           Turn(g, i) == IF i = 1 THEN s[i] ELSE g[i - 1] \o s[i]
           Is(g) == g = [i \in 1..N |-> Turn(g, i)]
           c == CHOOSE g : Is(g)
           d == [n \in 0..N |-> IF n = 0 THEN <<>> ELSE c[n]]
<1>1. N \in Nat /\ \A n \in 1..N : s[n] \in Seq(S)
  OBVIOUS
<1>2. CASE N = 0
  BY <1>2 DEF FlattenSeq
<1>3. CASE N # 0
  <2>1. \A n \in 1..N : n \in 0..N /\ n - 1 \in 0..N
    BY <1>1
  <2>2. Is([i \in 1..N |-> f[i]])
    <3> DEFINE g == [i \in 1..N |-> f[i]]
    <3>1. ASSUME NEW i \in 1..N PROVE f[i] = Turn(g, i)
      <4>1. f[i] = f[i - 1] \o s[i]
        OBVIOUS
      <4>2. CASE i = 1
        <5>1. f[i] = s[i]
          BY <1>1, <4>1, <4>2, ConcatEmptySeq
        <5> QED
          BY <4>2, <5>1
      <4>3. CASE i # 1
        <5>1. i - 1 \in 1..N
          BY <1>1, <4>3
        <5> QED
          BY <4>1, <4>3, <5>1
      <4> QED
        BY <4>2, <4>3
    <3>2. g = [i \in 1..N |-> Turn(g, i)]
      <4> HIDE DEF Turn
      <4> QED
        BY <3>1
    <3> QED
      BY <3>2
  <2>3. Is(c)
    <3> HIDE DEF Is
    <3> QED
      BY <2>2
  <2>4. \A i \in 1..N : c[i] = Turn(c, i)
    <3> HIDE DEF Turn, c
    <3> QED
      BY <2>3
  <2>5. ASSUME NEW n \in 1..N, d[n - 1] = f[n - 1] PROVE d[n] = f[n]
    <3>1. d[n] = c[n] /\ c[n] = Turn(c, n)
      <4> HIDE DEF Turn, c
      <4> QED
        BY <2>1, <2>4
    <3>2. f[n] = f[n - 1] \o s[n]
      OBVIOUS
    <3>3. CASE n = 1
      <4>1. f[n] = s[n]
        BY <1>1, <3>2, <3>3, ConcatEmptySeq
      <4> HIDE DEF d, c
      <4> QED
        BY <3>1, <3>3, <4>1
    <3>4. CASE n # 1
      <4>1. d[n - 1] = c[n - 1]
        BY <2>1, <3>4
      <4> HIDE DEF d, c
      <4> QED
        BY <2>5, <3>1, <3>2, <3>4, <4>1
    <3> QED
      BY <3>3, <3>4
  <2>6. d[0] = f[0]
    BY <1>1
  <2>7. \A n \in 0..N : d[n] = f[n]
    <3> DEFINE T == {n \in 0..N : d[n] = f[n]}
    <3>1. N \in Nat
      BY <1>1
    <3>2. 0 \in T
      BY <2>6, <3>1
    <3>3. \A n \in 1..N : n - 1 \in T => n \in T
      <4> HIDE DEF d, N
      <4> QED
        BY <2>1, <2>5
    <3>4. 0..N \subseteq T
      <4> HIDE DEF T, N
      <4> QED
        BY <3>1, <3>2, <3>3, UpTo
    <3> HIDE DEF d, N
    <3> QED
      BY <3>4
  <2>8. FlattenSeq(s) = c[N]
    BY <1>3 DEF FlattenSeq
  <2>9. N \in 0..N /\ d[N] = c[N]
    BY <1>1, <1>3
  <2> QED
    BY <2>7, <2>8, <2>9
<1> QED
  BY <1>2, <1>3

LEMMA FlattenExists ==
  ASSUME NEW S, NEW s \in Seq(Seq(S))
  PROVE  \E f \in [0..Len(s) -> Seq(S)] :
           f[0] = <<>> /\ \A n \in 1..Len(s) : f[n] = f[n - 1] \o s[n]
<1> DEFINE N == Len(s)
           step == [n \in 1..N |-> [t \in Seq(S) |-> t \o s[n]]]
<1>1. N \in Nat /\ <<>> \in Seq(S) /\ \A n \in 1..N : s[n] \in Seq(S)
  OBVIOUS
<1>2. step \in [1..N -> [Seq(S) -> Seq(S)]]
  BY <1>1, ConcatProperties
<1>3. PICK f \in [0..N -> Seq(S)] :
        f[0] = <<>> /\ \A n \in 1..N : f[n] = step[n][f[n - 1]]
  <2> DEFINE none == <<>>
             all == Seq(S)
  <2>1. N \in Nat
    BY <1>1
  <2>2. none \in all
    BY <1>1
  <2>3. step \in Steps(N, all)
    BY <1>2 DEF Steps
  <2>4. Runs(N, all, none, step) # {}
    <3> HIDE DEF step, N, none, all
    <3> QED
      BY <2>1, <2>2, <2>3, Recursion
  <2> HIDE DEF step, N
  <2> QED
    BY <2>4 DEF Runs
<1>4. \A n \in 1..N : n - 1 \in 0..N
  BY <1>1
<1>5. \A n \in 1..N : f[n] = f[n - 1] \o s[n]
  BY <1>3, <1>4
<1> QED
  BY <1>3, <1>5

LEMMA FlattenType ==
  ASSUME NEW S, NEW s \in Seq(Seq(S))
  PROVE  FlattenSeq(s) \in Seq(S)
<1>1. PICK f \in [0..Len(s) -> Seq(S)] :
        f[0] = <<>> /\ \A n \in 1..Len(s) : f[n] = f[n - 1] \o s[n]
  BY FlattenExists
<1>2. FlattenSeq(s) = f[Len(s)]
  BY <1>1, FlattenIs
<1>3. Len(s) \in 0..Len(s)
  OBVIOUS
<1> QED
  BY <1>2, <1>3

LEMMA FlattenNone == FlattenSeq(<<>>) = <<>>
BY DEF FlattenSeq

LEMMA FlattenAppend ==
  ASSUME NEW S, NEW s \in Seq(Seq(S)), NEW e \in Seq(S)
  PROVE  FlattenSeq(Append(s, e)) = FlattenSeq(s) \o e
<1> DEFINE t == Append(s, e)
           N == Len(s)
<1>1. /\ N \in Nat /\ t \in Seq(Seq(S)) /\ Len(t) = N + 1
      /\ t[N + 1] = e /\ \A n \in 1..N : t[n] = s[n]
  BY AppendProperties
<1> HIDE DEF t
<1>2. PICK f \in [0..N -> Seq(S)] :
        f[0] = <<>> /\ \A n \in 1..N : f[n] = f[n - 1] \o s[n]
  BY FlattenExists
<1>3. PICK g \in [0..(N + 1) -> Seq(S)] :
        g[0] = <<>> /\ \A n \in 1..(N + 1) : g[n] = g[n - 1] \o t[n]
  <2>1. PICK g \in [0..Len(t) -> Seq(S)] :
          g[0] = <<>> /\ \A n \in 1..Len(t) : g[n] = g[n - 1] \o t[n]
    <3>1. t \in Seq(Seq(S))
      BY <1>1
    <3> HIDE DEF N
    <3> QED
      BY <3>1, FlattenExists
  <2>2. Len(t) = N + 1
    BY <1>1
  <2> HIDE DEF N
  <2> QED
    BY <2>1, <2>2
<1>4. ASSUME NEW n \in 1..N, g[n - 1] = f[n - 1] PROVE g[n] = f[n]
  <2>1. n \in 1..(N + 1)
    BY <1>1
  <2> QED
    BY <1>1, <1>2, <1>3, <1>4, <2>1
<1>5. g[0] = f[0]
  BY <1>2, <1>3
<1>6. \A n \in 0..N : g[n] = f[n]
  <2> DEFINE T == {n \in 0..N : g[n] = f[n]}
  <2>1. N \in Nat
    BY <1>1
  <2>2. 0 \in T
    BY <1>5, <2>1
  <2>3. \A n \in 1..N : n - 1 \in T => n \in T
    <3> HIDE DEF N
    <3> QED
      BY <1>4
  <2>4. 0..N \subseteq T
    <3> HIDE DEF T, N
    <3> QED
      BY <2>1, <2>2, <2>3, UpTo
  <2> QED
    BY <2>4
<1>7. N \in 0..N /\ N + 1 \in 1..(N + 1) /\ (N + 1) - 1 = N
  BY <1>1
<1>8. g[N + 1] = g[N] \o e
  BY <1>1, <1>3, <1>7
<1>9. FlattenSeq(t) = g[N + 1]
  BY <1>1, <1>3, FlattenIs
<1>10. FlattenSeq(s) = f[N]
  BY <1>2, FlattenIs
<1> QED
  BY <1>6, <1>7, <1>8, <1>9, <1>10 DEF t

(* The steps of a loop: the definition is one that a function meets.       *)
LEMMA AppendedStep ==
  ASSUME NEW s, Len(s) \in Nat, NEW keep
  PROVE  /\ Appended(s, keep)[0] = <<>>
         /\ \A n \in 1..Len(s) :
              Appended(s, keep)[n] =
                IF n \in keep THEN Append(Appended(s, keep)[n - 1], s[n])
                ELSE Appended(s, keep)[n - 1]
<1> DEFINE N == Len(s)
           Loop(f, n) == IF n = 0 THEN <<>>
                         ELSE IF n \in keep THEN Append(f[n - 1], s[n])
                         ELSE f[n - 1]
           Is(f, m) == f = [n \in 0..m |-> Loop(f, n)]
           S == {m \in 0..N : \E f : Is(f, m)}
<1>1. N \in Nat
  OBVIOUS
<1>2. \E f : Is(f, 0)
  <2>1. Is([n \in 0..0 |-> <<>>], 0)
    OBVIOUS
  <2> QED
    BY <2>1
<1>3. ASSUME NEW m \in 1..N, NEW f, Is(f, m - 1) PROVE \E g : Is(g, m)
  <2> DEFINE g == [n \in 0..m |-> Loop(f, n)]
  <2>1. \A n \in 0..(m - 1) : f[n] = Loop(f, n)
    <3> HIDE DEF Loop
    <3> QED
      BY <1>3
  <2>2. \A n \in 0..(m - 1) : g[n] = f[n]
    <3>1. \A n \in 0..(m - 1) : n \in 0..m
      BY <1>3
    <3> HIDE DEF Loop
    <3> QED
      BY <2>1, <3>1
  <2>3. ASSUME NEW n \in 0..m PROVE Loop(g, n) = Loop(f, n)
    <3>1. CASE n = 0
      BY <3>1
    <3>2. CASE n # 0
      <4>1. n - 1 \in 0..(m - 1)
        BY <1>3, <3>2
      <4>2. g[n - 1] = f[n - 1]
        BY <2>2, <4>1
      <4> HIDE DEF g
      <4> QED
        BY <3>2, <4>2
    <3> QED
      BY <3>1, <3>2
  <2>4. g = [n \in 0..m |-> Loop(g, n)]
    <3> HIDE DEF Loop
    <3> QED
      BY <2>3
  <2> QED
    BY <2>4
<1> HIDE DEF Is
<1>4. 0..N \subseteq S
  <2>1. 0 \in S
    BY <1>1, <1>2
  <2>2. \A m \in 1..N : m - 1 \in S => m \in S
    BY <1>1, <1>3
  <2> HIDE DEF S
  <2> QED
    BY <1>1, <2>1, <2>2, UpTo
<1>5. \E f : Is(f, N)
  BY <1>1, <1>4
<1> DEFINE a == Appended(s, keep)
<1>6. a = [n \in 0..N |-> Loop(a, n)]
  BY <1>5 DEF Appended, Is
<1> HIDE DEF a
<1>7. ASSUME NEW n \in 0..N PROVE a[n] = Loop(a, n)
  <2> HIDE DEF Loop
  <2> QED
    BY <1>6
<1> QED
  BY <1>1, <1>7 DEF a

(* In the end, what was kept is there, nothing else is, and nothing is     *)
(* there twice that was not.                                               *)
LEMMA AppendedAre ==
  ASSUME NEW S, NEW s \in Seq(S), NEW keep \in SUBSET (1..Len(s)),
         NEW t, t = Appended(s, keep)[Len(s)]
  PROVE  /\ t \in Seq(S)
         /\ \A i \in keep : \E k \in 1..Len(t) : t[k] = s[i]
         /\ \A k \in 1..Len(t) : \E i \in keep : t[k] = s[i]
         /\ (\A i, j \in keep : s[i] = s[j] => i = j) =>
              \A k, l \in 1..Len(t) : t[k] = t[l] => k = l
<1> DEFINE N == Len(s)
           a == Appended(s, keep)
           To(n) == keep \cap (1..n)
           Once(u) ==
             (\A i, j \in keep : s[i] = s[j] => i = j) =>
               \A k, l \in 1..Len(u) : u[k] = u[l] => k = l
           OK(u, n) ==
             /\ u \in Seq(S)
             /\ \A i \in To(n) : \E k \in 1..Len(u) : u[k] = s[i]
             /\ \A k \in 1..Len(u) : \E i \in To(n) : u[k] = s[i]
             /\ Once(u)
           T == {n \in 0..N : OK(a[n], n)}
<1>1. N \in Nat /\ (\A i \in 1..N : s[i] \in S)
  OBVIOUS
<1>2. OK(<<>>, 0)
  OBVIOUS
<1>3. ASSUME NEW n \in 1..N, NEW u, OK(u, n - 1), n \notin keep
      PROVE  OK(u, n)
  <2>1. To(n) = To(n - 1)
    BY <1>3
  <2> QED
    BY <1>3, <2>1
<1>4. ASSUME NEW n \in 1..N, NEW u, OK(u, n - 1), n \in keep
      PROVE  OK(Append(u, s[n]), n)
  <2> DEFINE v == Append(u, s[n])
  <2>1. /\ To(n) = To(n - 1) \cup {n} /\ s[n] \in S
        /\ \A i \in To(n - 1) : i \in keep /\ i # n
    BY <1>1, <1>4
  <2>2. /\ v \in Seq(S) /\ Len(u) \in Nat /\ Len(v) = Len(u) + 1
        /\ v[Len(u) + 1] = s[n] /\ \A k \in 1..Len(u) : v[k] = u[k]
        /\ 1..Len(v) = 1..Len(u) \cup {Len(u) + 1}
    BY <1>4, <2>1
  <2> HIDE DEF v, To, Once
  <2>3. /\ \A i \in To(n) : \E k \in 1..Len(v) : v[k] = s[i]
        /\ \A k \in 1..Len(v) : \E i \in To(n) : v[k] = s[i]
    <3>1. /\ \A i \in To(n - 1) : \E k \in 1..Len(u) : u[k] = s[i]
          /\ \A k \in 1..Len(u) : \E i \in To(n - 1) : u[k] = s[i]
      BY <1>4
    <3> QED
      BY <2>1, <2>2, <3>1
  <2>4. ASSUME \A i, j \in keep : s[i] = s[j] => i = j
        PROVE  \A k, l \in 1..Len(v) : v[k] = v[l] => k = l
    <3>1. /\ \A k \in 1..Len(u) : \E i \in To(n - 1) : u[k] = s[i]
          /\ \A k, l \in 1..Len(u) : u[k] = u[l] => k = l
      BY <1>4, <2>4 DEF Once
    <3>2. \A k \in 1..Len(u) : u[k] # s[n]
      BY <1>4, <2>1, <2>4, <3>1
    <3> QED
      BY <2>2, <3>1, <3>2
  <2>5. Once(v)
    BY <2>4 DEF Once
  <2> QED
    BY <2>2, <2>3, <2>5 DEF v
<1> HIDE DEF OK
<1>5. 0..N \subseteq T
  <2>1. 0 \in T
    BY <1>1, <1>2, AppendedStep
  <2>2. ASSUME NEW n \in 1..N, n - 1 \in T PROVE n \in T
    BY <1>1, <1>3, <1>4, <2>2, AppendedStep
  <2> HIDE DEF T
  <2> QED
    BY <1>1, <2>1, <2>2, UpTo
<1>6. OK(a[N], N) /\ To(N) = keep
  <2>1. N \in T
    BY <1>1, <1>5
  <2> QED
    BY <1>1, <2>1
<1> QED
  BY <1>6 DEF OK

(* What f makes of each element, and all of it in one sequence.            *)
Each(s, f) == [i \in DOMAIN s |-> f[s[i]]]

Flat(s, f) == FlattenSeq(Each(s, f))

(* The functions that f may be.                                            *)
Makers(S, R) == [S -> R]

LEMMA EachAppend ==
  ASSUME NEW S, NEW R, NEW f \in Makers(S, R), NEW s \in Seq(S), NEW e \in S
  PROVE  /\ Each(s, f) \in Seq(R)
         /\ Each(Append(s, e), f) = Append(Each(s, f), f[e])
<1> USE DEF Makers
<1> DEFINE t == Append(s, e)
           m == [i \in DOMAIN s |-> f[s[i]]]
           k == [i \in DOMAIN t |-> f[t[i]]]
           N == Len(s)
<1>1. /\ N \in Nat /\ DOMAIN s = 1..N /\ t \in Seq(S) /\ Len(t) = N + 1
      /\ t[N + 1] = e /\ \A i \in 1..N : t[i] = s[i] /\ s[i] \in S
  BY AppendProperties
<1>2. DOMAIN t = 1..(N + 1)
  <2> HIDE DEF t
  <2> QED
    BY <1>1
<1>3. m \in Seq(R) /\ Len(m) = N
  <2> HIDE DEF N
  <2> QED
    BY <1>1
<1>4. k \in Seq(R) /\ Len(k) = N + 1
  <2>1. \A i \in 1..(N + 1) : t[i] \in S
    <3> HIDE DEF t
    <3> QED
      BY <1>1
  <2> HIDE DEF t, N
  <2> QED
    BY <1>1, <1>2, <2>1
<1>5. f[e] \in R
  OBVIOUS
<1>6. /\ Append(m, f[e]) \in Seq(R) /\ Len(Append(m, f[e])) = N + 1
      /\ Append(m, f[e])[N + 1] = f[e]
      /\ \A i \in 1..N : Append(m, f[e])[i] = m[i]
  <2> HIDE DEF m, N
  <2> QED
    BY <1>3, <1>5, AppendProperties
<1>7. ASSUME NEW i \in 1..(N + 1) PROVE k[i] = Append(m, f[e])[i]
  <2>1. k[i] = f[t[i]]
    <3> HIDE DEF t
    <3> QED
      BY <1>2
  <2>2. CASE i = N + 1
    <3> HIDE DEF t, m, k
    <3> QED
      BY <1>1, <1>6, <2>1, <2>2
  <2>3. CASE i # N + 1
    <3>1. i \in 1..N
      BY <1>1, <2>3
    <3>2. m[i] = f[s[i]]
      BY <1>1, <3>1
    <3> HIDE DEF t, m, k
    <3> QED
      BY <1>1, <1>6, <2>1, <3>1, <3>2
  <2> QED
    BY <2>2, <2>3
<1>8. k = Append(m, f[e])
  <2> DEFINE a == Append(m, f[e])
  <2>1. a \in Seq(R) /\ Len(a) = N + 1 /\ \A i \in 1..(N + 1) : k[i] = a[i]
    BY <1>6, <1>7
  <2>2. k = a
    <3> HIDE DEF a, k, N
    <3> QED
      BY <1>4, <2>1, SeqEqual
  <2> QED
    BY <2>2
<1> QED
  BY <1>3, <1>8 DEF Each

LEMMA FlatNone ==
  ASSUME NEW f
  PROVE  Flat(<<>>, f) = <<>>
<1>1. [i \in DOMAIN <<>> |-> f[<<>>[i]]] = <<>>
  OBVIOUS
<1> QED
  BY <1>1, FlattenNone DEF Flat, Each

LEMMA FlatType ==
  ASSUME NEW S, NEW R, NEW f \in Makers(S, Seq(R)), NEW s \in Seq(S)
  PROVE  Flat(s, f) \in Seq(R)
<1> USE DEF Makers
<1>1. DOMAIN s = 1..Len(s) /\ Len(s) \in Nat /\ \A i \in 1..Len(s) : s[i] \in S
  OBVIOUS
<1>2. [i \in DOMAIN s |-> f[s[i]]] \in Seq(Seq(R))
  BY <1>1
<1> QED
  BY <1>2, FlattenType DEF Flat, Each

LEMMA FlatAppend ==
  ASSUME NEW S, NEW R, NEW f \in Makers(S, Seq(R)), NEW s \in Seq(S), NEW e \in S
  PROVE  Flat(Append(s, e), f) = Flat(s, f) \o f[e]
<1> DEFINE all == Seq(R)
<1>1. f \in Makers(S, all)
  BY DEF Makers
<1>2. /\ Each(s, f) \in Seq(all)
      /\ Each(Append(s, e), f) = Append(Each(s, f), f[e])
  <2> HIDE DEF all
  <2> QED
    BY <1>1, EachAppend
<1>3. f[e] \in all
  BY DEF Makers
<1>4. FlattenSeq(Append(Each(s, f), f[e])) = FlattenSeq(Each(s, f)) \o f[e]
  BY <1>2, <1>3, FlattenAppend
<1> QED
  BY <1>2, <1>4 DEF Flat

LEMMA PairIsAppend == \A a, b : Append(<<a>>, b) = <<a, b>>
<1> SUFFICES ASSUME NEW a, NEW b PROVE Append(<<a>>, b) = <<a, b>>
  OBVIOUS
<1> DEFINE S == {a, b}
           one == <<a>>
           two == <<a, b>>
           t == Append(one, b)
<1>1. /\ one \in Seq(S) /\ b \in S /\ Len(one) = 1 /\ one[1] = a
      /\ two \in Seq(S) /\ Len(two) = 2 /\ two[1] = a /\ two[2] = b
  OBVIOUS
<1>2. t \in Seq(S) /\ Len(t) = 2 /\ t[1] = a /\ t[2] = b
  <2>1. /\ t \in Seq(S) /\ Len(t) = Len(one) + 1
        /\ \A i \in 1..Len(one) : t[i] = one[i]
        /\ t[Len(one) + 1] = b
    <3>1. one \in Seq(S) /\ b \in S
      BY <1>1
    <3> HIDE DEF S, one
    <3>2. t \in Seq(S)
      BY <3>1
    <3>3. /\ Len(t) = Len(one) + 1 /\ t[Len(one) + 1] = b
          /\ \A i \in 1..Len(one) : t[i] = one[i]
      BY <3>1
    <3> QED
      BY <3>2, <3>3
  <2> HIDE DEF S, one, t
  <2> QED
    BY <1>1, <2>1
<1>3. \A i \in 1..2 : t[i] = two[i]
  <2> HIDE DEF t, two
  <2>1. \A i \in 1..2 : i = 1 \/ i = 2
    OBVIOUS
  <2> QED
    BY <1>1, <1>2, <2>1
<1>4. t = two
  <2> HIDE DEF t, two, S
  <2> QED
    BY <1>1, <1>2, <1>3, SeqEqual
<1> QED
  BY <1>4
=============================================================================
