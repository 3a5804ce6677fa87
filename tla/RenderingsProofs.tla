-------------------------- MODULE RenderingsProofs --------------------------
(***************************************************************************)
(* Theorems of Renderings: every record is rendered as the rules of        *)
(* AttrTree say, by the recorder, the pretty handler and the JSON handler, *)
(* for any attributes nested to any depth, any derivations, records and    *)
(* options; and theorems of RecordStore.                                   *)
(*                                                                         *)
(* What a handler makes of one attribute is shown by induction over        *)
(* attributes (AttrInduction), and of a list by the lemmas about loops and *)
(* Flat of LoopsProofs. What a handler carries along is shown by an        *)
(* invariant about all that may still be logged: what it has, put around   *)
(* anything, is what the rules put around it (RecorderInv, PrettyInv,      *)
(* JsonInv).                                                               *)
(*                                                                         *)
(* For JSON, Adds(s, m) says that a call in state s has written the        *)
(* members m with the commas they need, and nothing else if m is empty;    *)
(* TextAround says that what is written in the groups of a handler         *)
(* becomes, with what is open closed, what the rules put around it.        *)
(***************************************************************************)
EXTENDS Renderings, RecordStore, LoopsProofs

(* Induction over attributes: what is true of a group is if it is of all   *)
(* that the group holds.                                                   *)
LEMMA AttrInduction ==
  ASSUME NEW T,
         \A a \in Attrs :
           (a.kind = "group" => \A i \in DOMAIN a.attrs : a.attrs[i] \in T) => a \in T
  PROVE  Attrs \subseteq T
<1> DEFINE U == Attrs \ T
           D == {Nesting[a] : a \in U}
<1>1. SUFFICES ASSUME U # {} PROVE FALSE
  OBVIOUS
<1>2. D \subseteq Nat /\ D # {}
  BY <1>1, AttrAssumption
<1>3. PICK m \in D : \A n \in D : ~(<<n, m>> \in OpToRel(<, Nat))
  <2> HIDE DEF D
  <2> QED
    BY <1>2, WFMin, NatLessThanWellFounded, Zenon
<1>4. \A n \in D : ~(n < m)
  <2> HIDE DEF D
  <2> QED
    BY <1>2, <1>3 DEF OpToRel
<1>5. PICK a \in U : m = Nesting[a]
  OBVIOUS
<1>6. PICK i \in DOMAIN a.attrs : a.kind = "group" /\ a.attrs[i] \notin T
  BY <1>5
<1>7. a \in [kind : {"group"}, key : STRING \cup {NoKey}, attrs : Seq(Attrs)]
  <2>1. a \in Attrs /\ a.kind = "group"
    BY <1>5, <1>6
  <2> QED
    BY <2>1, AttrAssumption DEF Empty, Leaves
<1>8. a.attrs[i] \in U
  BY <1>6, <1>7
<1>9. Nesting[a.attrs[i]] < m
  BY <1>5, <1>6, AttrAssumption
<1> QED
  BY <1>4, <1>8, <1>9

(* What attributes are.                                                    *)
LEMMA AttrKinds ==
  ASSUME NEW a \in Attrs
  PROVE  \/ a = Empty /\ a.kind = "empty"
         \/ a \in Leaves /\ a.kind = "leaf" /\ a.key \in STRING /\ a.val \in STRING
         \/ /\ a.kind = "group" /\ a.key \in STRING \cup {NoKey}
            /\ a.attrs \in Seq(Attrs)
            /\ \A i \in DOMAIN a.attrs :
                 a.attrs[i] \in Attrs /\ Nesting[a.attrs[i]] < Nesting[a]
BY AttrAssumption DEF Empty, Leaves
-----------------------------------------------------------------------------
(* One turn of the recursion of KeptOf.                                    *)
KeptTurn(format, gone, kept, a) ==
  [path \in Paths |->
     CASE a.kind = "empty" -> <<>>
       [] a.kind = "leaf" ->
            IF <<path, a.key>> \in gone THEN <<>>
            ELSE <<LeafIn(format, path, a)>>
       [] OTHER ->
            Nest(format, a.key,
                 FlattenSeq([i \in DOMAIN a.attrs |->
                               kept[a.attrs[i]][In(path, a.key)]]))]

(* It depends on what a group holds only.                                  *)
LEMMA KeptTurnSame ==
  ASSUME NEW format, NEW gone, NEW a \in Attrs, NEW f, NEW g,
         a.kind = "group" => \A i \in DOMAIN a.attrs : f[a.attrs[i]] = g[a.attrs[i]]
  PROVE  KeptTurn(format, gone, f, a) = KeptTurn(format, gone, g, a)
<1>1. CASE a.kind # "group"
  BY <1>1, AttrKinds DEF KeptTurn
<1>2. CASE a.kind = "group"
  <2>1. ASSUME NEW path
        PROVE  [i \in DOMAIN a.attrs |-> f[a.attrs[i]][In(path, a.key)]]
                 = [i \in DOMAIN a.attrs |-> g[a.attrs[i]][In(path, a.key)]]
    BY <1>2
  <2> QED
    BY <1>2, <2>1 DEF KeptTurn
<1> QED
  BY <1>1, <1>2

(* KeptOf is its recursive definition.                                     *)
LEMMA KeptIs ==
  ASSUME NEW format, NEW gone
  PROVE  KeptOf(format, gone)
           = [a \in Attrs |-> KeptTurn(format, gone, KeptOf(format, gone), a)]
<1> DEFINE Turn(f, a) == KeptTurn(format, gone, f, a)
           Below(n) == {a \in Attrs : Nesting[a] < n}
           Is(f, n) == f = [a \in Below(n) |-> Turn(f, a)]
<1>1. ASSUME NEW a \in Attrs, NEW f, NEW g,
             a.kind = "group" => \A i \in DOMAIN a.attrs : f[a.attrs[i]] = g[a.attrs[i]]
      PROVE  Turn(f, a) = Turn(g, a)
  BY <1>1, KeptTurnSame
<1> HIDE DEF Turn
<1>2. ASSUME NEW N \in Nat PROVE \E f : Is(f, N)
  <2> DEFINE S == {n \in 0..N : \E f : Is(f, n)}
  <2>1. 0 \in S
    <3>1. Below(0) = {}
      BY AttrAssumption
    <3>2. Is([a \in {} |-> {}], 0)
      BY <3>1
    <3> HIDE DEF Is
    <3> QED
      BY <3>2
  <2>2. ASSUME NEW n \in 1..N, n - 1 \in S PROVE n \in S
    <3>1. PICK f : Is(f, n - 1)
      BY <2>2
    <3> DEFINE g == [a \in Below(n) |-> Turn(f, a)]
    <3>2. ASSUME NEW a \in Below(n) PROVE Turn(f, a) = Turn(g, a)
      <4>1. ASSUME a.kind = "group", NEW i \in DOMAIN a.attrs
            PROVE  f[a.attrs[i]] = g[a.attrs[i]]
        <5>1. a.attrs[i] \in Below(n - 1) /\ a.attrs[i] \in Below(n)
          BY <4>1, AttrKinds, AttrAssumption
        <5> QED
          BY <3>1, <5>1
      <4> HIDE DEF g
      <4> QED
        BY <1>1, <4>1
    <3>3. Is(g, n)
      BY <3>2
    <3> HIDE DEF g, Is
    <3> QED
      BY <3>3
  <2>3. 0..N \subseteq S
    <3> HIDE DEF S
    <3> QED
      BY <2>1, <2>2, UpTo
  <2> QED
    BY <2>3
<1> DEFINE c == [n \in Nat |-> CHOOSE f : Is(f, n)]
<1>3. ASSUME NEW n \in Nat PROVE Is(c[n], n)
  <2> HIDE DEF Is
  <2> QED
    BY <1>2
<1>4. ASSUME NEW a \in Attrs, NEW n \in Nat, Nesting[a] < n
      PROVE  c[n][a] = Turn(c[n], a)
  <2> HIDE DEF c
  <2> QED
    BY <1>3, <1>4
<1>5. ASSUME NEW m \in Nat, NEW n \in Nat
      PROVE  \A a \in Attrs : Nesting[a] < m /\ Nesting[a] < n => c[m][a] = c[n][a]
  <2> DEFINE T == {a \in Attrs :
                     Nesting[a] < m /\ Nesting[a] < n => c[m][a] = c[n][a]}
  <2> HIDE DEF c
  <2>1. ASSUME NEW a \in Attrs,
               a.kind = "group" => \A i \in DOMAIN a.attrs : a.attrs[i] \in T
        PROVE  a \in T
    <3> SUFFICES ASSUME Nesting[a] < m, Nesting[a] < n PROVE c[m][a] = c[n][a]
      OBVIOUS
    <3>1. ASSUME a.kind = "group", NEW i \in DOMAIN a.attrs
          PROVE  c[m][a.attrs[i]] = c[n][a.attrs[i]]
      <4>1. Nesting[a.attrs[i]] < m /\ Nesting[a.attrs[i]] < n
        BY <3>1, AttrKinds, AttrAssumption
      <4> QED
        BY <2>1, <3>1, <4>1
    <3>2. Turn(c[m], a) = Turn(c[n], a)
      BY <1>1, <3>1
    <3> QED
      BY <1>4, <3>2
  <2>2. Attrs \subseteq T
    <3> HIDE DEF T
    <3> QED
      BY <2>1, AttrInduction
  <2> QED
    BY <2>2
<1> DEFINE k == [a \in Attrs |-> c[Nesting[a] + 1][a]]
<1>6. ASSUME NEW a \in Attrs PROVE k[a] = Turn(k, a)
  <2>1. Nesting[a] \in Nat /\ Nesting[a] + 1 \in Nat /\ Nesting[a] < Nesting[a] + 1
    BY AttrAssumption
  <2>2. k[a] = Turn(c[Nesting[a] + 1], a)
    <3> HIDE DEF c
    <3> QED
      BY <1>4, <2>1
  <2>3. ASSUME a.kind = "group", NEW i \in DOMAIN a.attrs
        PROVE  c[Nesting[a] + 1][a.attrs[i]] = k[a.attrs[i]]
    <3> DEFINE b == a.attrs[i]
    <3>1. b \in Attrs /\ Nesting[b] < Nesting[a] /\ Nesting[b] \in Nat
      BY <2>3, AttrKinds, AttrAssumption
    <3>2. Nesting[b] < Nesting[a] + 1 /\ Nesting[b] < Nesting[b] + 1 /\ Nesting[b] + 1 \in Nat
      BY <2>1, <3>1
    <3> HIDE DEF b, c
    <3>3. c[Nesting[a] + 1][b] = c[Nesting[b] + 1][b]
      BY <1>5, <2>1, <3>1, <3>2
    <3>4. k[b] = c[Nesting[b] + 1][b]
      BY <3>1
    <3> QED
      BY <3>3, <3>4 DEF b
  <2> HIDE DEF k, c
  <2>4. Turn(c[Nesting[a] + 1], a) = Turn(k, a)
    BY <1>1, <2>3
  <2> QED
    BY <2>2, <2>4
<1> DEFINE Kept1(f) == f = [a \in Attrs |-> Turn(f, a)]
<1>7. Kept1(k)
  <2>1. k = [a \in Attrs |-> k[a]]
    BY DEF k
  <2> HIDE DEF k
  <2> QED
    BY <1>6, <2>1
<1>8. KeptOf(format, gone) = CHOOSE f : Kept1(f)
  BY DEF KeptOf, KeptTurn, Turn
<1> QED
  <2> HIDE DEF Kept1, k
  <2>1. Kept1(KeptOf(format, gone))
    BY <1>7, <1>8
  <2> QED
    BY <2>1 DEF Kept1, Turn

LEMMA InPaths ==
  ASSUME NEW path \in Paths, NEW name \in STRING \cup {NoKey}
  PROVE  In(path, name) \in Paths
<1>1. CASE name = NoKey
  BY <1>1 DEF In, Paths
<1>2. CASE name # NoKey
  <2> DEFINE S == STRING
  <2>1. name \in S /\ path \in Seq(S) /\ In(path, name) = Append(path, name)
    BY <1>2 DEF In, Paths
  <2> HIDE DEF S
  <2>2. Append(path, name) \in Seq(S)
    BY <2>1, AppendProperties
  <2> QED
    BY <2>1, <2>2 DEF Paths, S
<1> QED
  BY <1>1, <1>2

(* What is kept of each kind of attribute.                                 *)
LEMMA KeptAt ==
  ASSUME NEW format, NEW gone, NEW a \in Attrs, NEW path \in Paths
  PROVE  KeptOf(format, gone)[a][path]
           = KeptTurn(format, gone, KeptOf(format, gone), a)[path]
<1> DEFINE k == KeptOf(format, gone)
<1>1. k = [b \in Attrs |-> KeptTurn(format, gone, k, b)]
  BY KeptIs
<1> HIDE DEF k
<1>2. k[a] = KeptTurn(format, gone, k, a)
  BY <1>1
<1> QED
  BY <1>2 DEF k

(* What is kept of each kind of attribute.                                 *)
LEMMA KeptOfEmpty ==
  ASSUME NEW format, NEW gone, NEW a \in Attrs, NEW path \in Paths,
         a.kind = "empty"
  PROVE  KeptOf(format, gone)[a][path] = <<>>
<1> DEFINE k == KeptOf(format, gone)
<1>1. k[a][path] = KeptTurn(format, gone, k, a)[path]
  BY KeptAt
<1> HIDE DEF k
<1>2. KeptTurn(format, gone, k, a)[path] = <<>>
  BY DEF KeptTurn
<1> QED
  BY <1>1, <1>2 DEF k

LEMMA KeptOfLeaf ==
  ASSUME NEW format, NEW gone, NEW a \in Attrs, NEW path \in Paths,
         a.kind = "leaf"
  PROVE  KeptOf(format, gone)[a][path]
           = IF <<path, a.key>> \in gone THEN <<>> ELSE <<LeafIn(format, path, a)>>
<1> DEFINE k == KeptOf(format, gone)
<1>1. k[a][path] = KeptTurn(format, gone, k, a)[path]
  BY KeptAt
<1> HIDE DEF k
<1>2. KeptTurn(format, gone, k, a)[path]
        = IF <<path, a.key>> \in gone THEN <<>> ELSE <<LeafIn(format, path, a)>>
  BY DEF KeptTurn
<1> QED
  BY <1>1, <1>2 DEF k

LEMMA KeptOfGroup ==
  ASSUME NEW format, NEW gone, NEW a \in Attrs, NEW path \in Paths,
         a.kind = "group"
  PROVE  KeptOf(format, gone)[a][path]
           = Nest(format, a.key, Kept(format, a.attrs, In(path, a.key), gone))
<1> DEFINE k == KeptOf(format, gone)
<1>1. k[a][path] = KeptTurn(format, gone, k, a)[path]
  BY KeptAt
<1>2. Kept(format, a.attrs, In(path, a.key), gone)
        = FlattenSeq([i \in DOMAIN a.attrs |-> k[a.attrs[i]][In(path, a.key)]])
  BY DEF Kept
<1> HIDE DEF k
<1>3. KeptTurn(format, gone, k, a)[path]
        = Nest(format, a.key,
               FlattenSeq([i \in DOMAIN a.attrs |-> k[a.attrs[i]][In(path, a.key)]]))
  BY DEF KeptTurn
<1> QED
  BY <1>1, <1>2, <1>3 DEF k

(* What is kept in some groups, by attribute.                              *)
KeptIn(format, path, gone) == [a \in Attrs |-> KeptOf(format, gone)[a][path]]

(* What is kept of a list is what is kept of each, one after the other.    *)
LEMMA KeptIsFlat ==
  ASSUME NEW format, NEW gone, NEW attrs \in Seq(Attrs), NEW path
  PROVE  Kept(format, attrs, path, gone) = Flat(attrs, KeptIn(format, path, gone))
<1>1. [i \in DOMAIN attrs |-> KeptOf(format, gone)[attrs[i]][path]]
        = [i \in DOMAIN attrs |-> KeptIn(format, path, gone)[attrs[i]]]
  BY DEF KeptIn
<1> QED
  BY <1>1 DEF Kept, Flat, Each

LEMMA KeptSeqType ==
  ASSUME NEW format, NEW gone, NEW path, NEW S,
         \A a \in Attrs : KeptOf(format, gone)[a][path] \in Seq(S),
         NEW attrs \in Seq(Attrs)
  PROVE  Kept(format, attrs, path, gone) \in Seq(S)
<1> DEFINE f == KeptIn(format, path, gone)
<1>1. f \in Makers(Attrs, Seq(S))
  BY DEF KeptIn, Makers
<1> HIDE DEF f
<1>2. Flat(attrs, f) \in Seq(S)
  BY <1>1, FlatType
<1> QED
  BY <1>2, KeptIsFlat DEF f

(* A type of what is kept, if the format has one.                          *)
LEMMA KeptType ==
  ASSUME NEW format, NEW gone, NEW S,
         \A a \in Attrs, p \in Paths :
           a.kind = "leaf" => <<p, a.key>> \in gone \/ LeafIn(format, p, a) \in S,
         \A a \in Attrs, p \in Paths :
           LET m == Kept(format, a.attrs, In(p, a.key), gone)
           IN  /\ a.kind = "group" /\ a.key # NoKey
               /\ m \in Seq(S) /\ m # <<>>
               => GroupIn(format, a.key, m) \in S
  PROVE  \A a \in Attrs, p \in Paths : KeptOf(format, gone)[a][p] \in Seq(S)
<1> DEFINE k == KeptOf(format, gone)
           T == {a \in Attrs : \A p \in Paths : k[a][p] \in Seq(S)}
<1>1. ASSUME NEW a \in Attrs,
             a.kind = "group" => \A i \in DOMAIN a.attrs : a.attrs[i] \in T,
             NEW p \in Paths
      PROVE  k[a][p] \in Seq(S)
  <2>1. CASE a.kind = "empty"
    <3>1. k[a][p] = <<>>
      BY <2>1, KeptOfEmpty
    <3> HIDE DEF k
    <3> QED
      BY <3>1
  <2>2. CASE a.kind = "leaf"
    <3>1. k[a][p] = IF <<p, a.key>> \in gone THEN <<>> ELSE <<LeafIn(format, p, a)>>
      BY <2>2, KeptOfLeaf
    <3>2. <<p, a.key>> \in gone \/ LeafIn(format, p, a) \in S
      BY <2>2
    <3> DEFINE x == LeafIn(format, p, a)
    <3> HIDE DEF k, x
    <3> QED
      BY <3>1, <3>2 DEF x
  <2>3. CASE a.kind = "group"
    <3> DEFINE in == In(p, a.key)
               m == Kept(format, a.attrs, in, gone)
    <3>1. k[a][p] = Nest(format, a.key, m)
      BY <2>3, KeptOfGroup
    <3>2. a.key \in STRING \cup {NoKey} /\ a.attrs \in Seq(Attrs) /\ in \in Paths
      BY <2>3, AttrKinds, InPaths
    <3>3. m \in Seq(S)
      <4> DEFINE rest == [i \in DOMAIN a.attrs |-> k[a.attrs[i]][in]]
      <4>1. rest \in Seq(Seq(S))
        <5>1. \A i \in 1..Len(a.attrs) : k[a.attrs[i]][in] \in Seq(S)
          BY <1>1, <2>3, <3>2
        <5>2. DOMAIN a.attrs = 1..Len(a.attrs) /\ Len(a.attrs) \in Nat
          BY <3>2
        <5> DEFINE all == Seq(S)
        <5> HIDE DEF k, in, all
        <5> QED
          BY <5>1, <5>2 DEF all
      <4>2. FlattenSeq(rest) \in Seq(S)
        <5> HIDE DEF rest
        <5> QED
          BY <4>1, FlattenType
      <4> QED
        BY <4>2 DEF Kept
    <3> DEFINE g == GroupIn(format, a.key, m)
    <3>4. a.key # NoKey /\ m # <<>> => g \in S
      BY <2>3, <3>3
    <3>5. k[a][p] = IF a.key = NoKey \/ m = <<>> THEN m ELSE <<g>>
      BY <3>1 DEF Nest
    <3> HIDE DEF m, k, in, g
    <3> QED
      BY <3>3, <3>4, <3>5
  <2> QED
    BY <2>1, <2>2, <2>3, AttrKinds
<1>2. Attrs \subseteq T
  <2> DEFINE U == T
  <2>1. ASSUME NEW a \in Attrs,
               a.kind = "group" => \A i \in DOMAIN a.attrs : a.attrs[i] \in U
        PROVE  a \in U
    BY <1>1, <2>1
  <2> HIDE DEF U
  <2>2. Attrs \subseteq U
    BY <2>1, AttrInduction
  <2> QED
    BY <2>2 DEF U
<1> QED
  BY <1>2

(* The members that are kept of any attribute.                             *)
Pieces(format, gone) ==
  {KeptOf(format, gone)[a][p][1] : a \in Attrs, p \in Paths}

LEMMA KeptPieces ==
  ASSUME NEW format, NEW gone
  PROVE  \A a \in Attrs, p \in Paths :
           KeptOf(format, gone)[a][p] \in Seq(Pieces(format, gone))
<1> DEFINE k == KeptOf(format, gone)
           S == Pieces(format, gone)
<1>1. ASSUME NEW a \in Attrs, NEW p \in Paths, NEW x, k[a][p] = <<x>>
      PROVE  x \in S
  <2>1. x = k[a][p][1]
    BY <1>1
  <2> HIDE DEF k
  <2> QED
    BY <2>1 DEF Pieces, k
<1>2. ASSUME NEW a \in Attrs, NEW p \in Paths, a.kind = "leaf"
      PROVE  <<p, a.key>> \in gone \/ LeafIn(format, p, a) \in S
  <2> DEFINE x == LeafIn(format, p, a)
  <2>1. k[a][p] = IF <<p, a.key>> \in gone THEN <<>> ELSE <<x>>
    BY <1>2, KeptOfLeaf
  <2> HIDE DEF k, S, x
  <2> QED
    BY <1>1, <2>1 DEF x
<1>3. ASSUME NEW a \in Attrs, NEW p \in Paths, a.kind = "group", a.key # NoKey,
             Kept(format, a.attrs, In(p, a.key), gone) # <<>>
      PROVE  GroupIn(format, a.key, Kept(format, a.attrs, In(p, a.key), gone)) \in S
  <2> DEFINE x == GroupIn(format, a.key, Kept(format, a.attrs, In(p, a.key), gone))
  <2>1. k[a][p] = <<x>>
    BY <1>3, KeptOfGroup DEF Nest
  <2> HIDE DEF k, S, x
  <2> QED
    BY <1>1, <2>1 DEF x
<1> DEFINE U == S
<1>4. /\ \A a \in Attrs, p \in Paths :
           a.kind = "leaf" => <<p, a.key>> \in gone \/ LeafIn(format, p, a) \in U
      /\ \A a \in Attrs, p \in Paths :
           LET m == Kept(format, a.attrs, In(p, a.key), gone)
           IN  /\ a.kind = "group" /\ a.key # NoKey
               /\ m \in Seq(U) /\ m # <<>>
               => GroupIn(format, a.key, m) \in U
  BY <1>2, <1>3
<1> HIDE DEF k, S, U
<1>5. \A a \in Attrs, p \in Paths : KeptOf(format, gone)[a][p] \in Seq(U)
  BY <1>4, KeptType
<1> QED
  BY <1>5 DEF S, U
-----------------------------------------------------------------------------
(* The turns of the loop of Wrapped.                                       *)
WrappedTurns(f, format, list, members, gone) ==
  /\ Wrapped(format, list, members, gone) = f[Len(list)]
  /\ f[0] = members
  /\ \A n \in 1..Len(list) : f[n] = Around(format, list, Len(list) - n + 1, f[n - 1], gone)

(* Wrapped is its recursive definition.                                    *)
LEMMA WrappedLoop ==
  ASSUME NEW format, NEW list, Len(list) \in Nat, NEW members, NEW gone
  PROVE  \E f : WrappedTurns(f, format, list, members, gone)
<1> DEFINE N == Len(list)
           Loop(f, n) == IF n = 0 THEN members
                         ELSE Around(format, list, Len(list) - n + 1, f[n - 1], gone)
           Is(f, m) == f = [n \in 0..m |-> Loop(f, n)]
           S == {m \in 0..N : \E f : Is(f, m)}
<1>1. N \in Nat
  OBVIOUS
<1>2. \E f : Is(f, 0)
  <2>1. Is([n \in 0..0 |-> members], 0)
    OBVIOUS
  <2> QED
    BY <2>1
<1>3. ASSUME NEW m \in 1..N, NEW f, Is(f, m - 1) PROVE \E g : Is(g, m)
  <2> DEFINE g == [n \in 0..m |-> Loop(f, n)]
  <2>1. \A n \in 0..(m - 1) : f[n] = Loop(f, n)
    <3> HIDE DEF Loop
    <3> QED
      BY <1>3
  <2>2. \A n \in 0..(m - 1) : g[n] = f[n]
    <3>1. \A n \in 0..(m - 1) : n \in 0..m
      BY <1>3
    <3> HIDE DEF Loop
    <3> QED
      BY <2>1, <3>1
  <2>3. ASSUME NEW n \in 0..m PROVE Loop(g, n) = Loop(f, n)
    <3>1. CASE n = 0
      BY <3>1
    <3>2. CASE n # 0
      <4>1. n - 1 \in 0..(m - 1)
        BY <1>3, <3>2
      <4>2. g[n - 1] = f[n - 1]
        BY <2>2, <4>1
      <4> HIDE DEF g
      <4> QED
        BY <3>2, <4>2
    <3> QED
      BY <3>1, <3>2
  <2>4. g = [n \in 0..m |-> Loop(g, n)]
    <3> HIDE DEF Loop
    <3> QED
      BY <2>3
  <2> QED
    BY <2>4
<1> HIDE DEF Is
<1>4. 0..N \subseteq S
  <2>1. 0 \in S
    BY <1>1, <1>2
  <2>2. \A m \in 1..N : m - 1 \in S => m \in S
    BY <1>1, <1>3
  <2> HIDE DEF S
  <2> QED
    BY <1>1, <2>1, <2>2, UpTo
<1>5. \E f : Is(f, N)
  BY <1>1, <1>4
<1> DEFINE a == CHOOSE f : Is(f, N)
<1>6. Is(a, N)
  BY <1>5
<1>7. Wrapped(format, list, members, gone) = a[N]
  BY DEF Wrapped, Is
<1> HIDE DEF a
<1>8. \A n \in 0..N : a[n] = Loop(a, n)
  <2> HIDE DEF Loop
  <2> QED
    BY <1>6 DEF Is
<1>9. a[0] = members
  <2>1. 0 \in 0..N
    BY <1>1
  <2> QED
    BY <1>8, <2>1
<1>10. ASSUME NEW n \in 1..N PROVE a[n] = Around(format, list, Len(list) - n + 1, a[n - 1], gone)
  <2>1. n \in 0..N /\ n # 0
    BY <1>1
  <2> QED
    BY <1>8, <2>1
<1> QED
  BY <1>7, <1>9, <1>10 DEF WrappedTurns

(* The turns of the loop of WrapAll.                                       *)
WrapAllTurns(f, list, attrs) ==
  /\ Recorded!WrapAll(list, attrs) = f[Len(list)]
  /\ f[0] = attrs
  /\ \A n \in 1..Len(list) : f[n] = Recorded!Wrap(list[Len(list) - n + 1], f[n - 1])

(* WrapAll is its recursive definition.                                    *)
LEMMA WrapAllLoop ==
  ASSUME NEW list, Len(list) \in Nat, NEW attrs
  PROVE  \E f : WrapAllTurns(f, list, attrs)
<1> DEFINE N == Len(list)
           Loop(f, n) == IF n = 0 THEN attrs
                         ELSE Recorded!Wrap(list[Len(list) - n + 1], f[n - 1])
           Is(f, m) == f = [n \in 0..m |-> Loop(f, n)]
           S == {m \in 0..N : \E f : Is(f, m)}
<1>1. N \in Nat
  OBVIOUS
<1>2. \E f : Is(f, 0)
  <2>1. Is([n \in 0..0 |-> attrs], 0)
    OBVIOUS
  <2> QED
    BY <2>1
<1>3. ASSUME NEW m \in 1..N, NEW f, Is(f, m - 1) PROVE \E g : Is(g, m)
  <2> DEFINE g == [n \in 0..m |-> Loop(f, n)]
  <2>1. \A n \in 0..(m - 1) : f[n] = Loop(f, n)
    <3> HIDE DEF Loop
    <3> QED
      BY <1>3
  <2>2. \A n \in 0..(m - 1) : g[n] = f[n]
    <3>1. \A n \in 0..(m - 1) : n \in 0..m
      BY <1>3
    <3> HIDE DEF Loop
    <3> QED
      BY <2>1, <3>1
  <2>3. ASSUME NEW n \in 0..m PROVE Loop(g, n) = Loop(f, n)
    <3>1. CASE n = 0
      BY <3>1
    <3>2. CASE n # 0
      <4>1. n - 1 \in 0..(m - 1)
        BY <1>3, <3>2
      <4>2. g[n - 1] = f[n - 1]
        BY <2>2, <4>1
      <4> HIDE DEF g
      <4> QED
        BY <3>2, <4>2
    <3> QED
      BY <3>1, <3>2
  <2>4. g = [n \in 0..m |-> Loop(g, n)]
    <3> HIDE DEF Loop
    <3> QED
      BY <2>3
  <2> QED
    BY <2>4
<1> HIDE DEF Is
<1>4. 0..N \subseteq S
  <2>1. 0 \in S
    BY <1>1, <1>2
  <2>2. \A m \in 1..N : m - 1 \in S => m \in S
    BY <1>1, <1>3
  <2> HIDE DEF S
  <2> QED
    BY <1>1, <2>1, <2>2, UpTo
<1>5. \E f : Is(f, N)
  BY <1>1, <1>4
<1> DEFINE a == CHOOSE f : Is(f, N)
<1>6. Is(a, N)
  BY <1>5
<1>7. Recorded!WrapAll(list, attrs) = a[N]
  BY DEF Recorded!WrapAll, Is
<1> HIDE DEF a
<1>8. \A n \in 0..N : a[n] = Loop(a, n)
  <2> HIDE DEF Loop
  <2> QED
    BY <1>6 DEF Is
<1>9. a[0] = attrs
  <2>1. 0 \in 0..N
    BY <1>1
  <2> QED
    BY <1>8, <2>1
<1>10. ASSUME NEW n \in 1..N PROVE a[n] = Recorded!Wrap(list[Len(list) - n + 1], a[n - 1])
  <2>1. n \in 0..N /\ n # 0
    BY <1>1
  <2> QED
    BY <1>8, <2>1
<1> QED
  BY <1>7, <1>9, <1>10 DEF WrapAllTurns

(* The start of a list is what it was before it was appended to.           *)
LEMMA StartOfAppend ==
  ASSUME NEW S, NEW list \in Seq(S), NEW e \in S, NEW n \in 0..Len(list)
  PROVE  SubSeq(Append(list, e), 1, n) = SubSeq(list, 1, n)
<1> DEFINE t == Append(list, e)
           a == SubSeq(t, 1, n)
           b == SubSeq(list, 1, n)
<1>1. /\ Len(list) \in Nat /\ t \in Seq(S) /\ Len(t) = Len(list) + 1
      /\ \A i \in 1..Len(list) : t[i] = list[i]
  BY AppendProperties
<1>2. a \in Seq(S) /\ Len(a) = n /\ \A i \in 1..n : a[i] = t[i]
  <2> HIDE DEF t
  <2> QED
    BY <1>1
<1>3. b \in Seq(S) /\ Len(b) = n /\ \A i \in 1..n : b[i] = list[i]
  BY <1>1
<1>4. \A i \in 1..n : a[i] = b[i]
  <2> HIDE DEF a, b, t
  <2> QED
    BY <1>1, <1>2, <1>3
<1> HIDE DEF a, b, t
<1>5. a = b
  BY <1>2, <1>3, <1>4, SeqEqual
<1> QED
  BY <1>5 DEF a, b, t

LEMMA AllOfList ==
  ASSUME NEW S, NEW list \in Seq(S)
  PROVE  SubSeq(list, 1, Len(list)) = list
OBVIOUS

LEMMA WrappedNone ==
  ASSUME NEW format, NEW members, NEW gone
  PROVE  Wrapped(format, <<>>, members, gone) = members
<1> DEFINE none == <<>>
<1>1. Len(none) = 0 /\ Len(none) \in Nat
  OBVIOUS
<1> HIDE DEF none
<1>2. PICK f : WrappedTurns(f, format, none, members, gone)
  BY <1>1, WrappedLoop, Zenon
<1> QED
  BY <1>1, <1>2 DEF none, WrappedTurns

(* The innermost step is put around members first.                         *)
LEMMA WrappedAppend ==
  ASSUME NEW S, NEW list \in Seq(S), NEW e \in S,
         NEW format, NEW members, NEW gone
  PROVE  Wrapped(format, Append(list, e), members, gone)
           = Wrapped(format, list,
                     IF e.kind = "attrs"
                     THEN Kept(format, e.attrs, PathOf(list), gone) \o members
                     ELSE Nest(format, e.name, members),
                     gone)
<1> DEFINE N == Len(list)
           t == Append(list, e)
           in == IF e.kind = "attrs"
                 THEN Kept(format, e.attrs, PathOf(list), gone) \o members
                 ELSE Nest(format, e.name, members)
<1>1. /\ N \in Nat /\ t \in Seq(S) /\ Len(t) = N + 1
      /\ t[N + 1] = e /\ \A i \in 1..N : t[i] = list[i]
  BY AppendProperties
<1>2. Around(format, t, N + 1, members, gone) = in
  <2>1. SubSeq(t, 1, N + 1 - 1) = list
    <3>1. N + 1 - 1 = N /\ N \in 0..N
      BY <1>1
    <3> HIDE DEF t
    <3> QED
      BY <3>1, StartOfAppend, AllOfList DEF t
  <2>2. Around(format, t, N + 1, members, gone)
          = IF t[N + 1].kind = "attrs"
            THEN Kept(format, t[N + 1].attrs, PathOf(SubSeq(t, 1, N + 1 - 1)), gone)
                   \o members
            ELSE Nest(format, t[N + 1].name, members)
    BY DEF Around
  <2>3. t[N + 1] = e
    BY <1>1
  <2> HIDE DEF t, N
  <2> QED
    BY <2>1, <2>2, <2>3
<1>3. ASSUME NEW n \in 1..N, NEW m
      PROVE  Around(format, t, n, m, gone) = Around(format, list, n, m, gone)
  <2>1. n - 1 \in 0..N
    BY <1>1
  <2>2. SubSeq(t, 1, n - 1) = SubSeq(list, 1, n - 1)
    BY <2>1, StartOfAppend
  <2>3. t[n] = list[n]
    BY <1>1
  <2> HIDE DEF t, N
  <2> QED
    BY <2>2, <2>3 DEF Around
<1> HIDE DEF t, in
<1>4. PICK f : /\ Wrapped(format, t, members, gone) = f[N + 1]
               /\ f[0] = members
               /\ \A n \in 1..(N + 1) :
                    f[n] = Around(format, t, (N + 1) - n + 1, f[n - 1], gone)
  <2> HIDE DEF N
  <2>1. Len(t) \in Nat
    BY <1>1
  <2>2. PICK f : WrappedTurns(f, format, t, members, gone)
    BY <2>1, WrappedLoop
  <2>3. Len(t) = N + 1
    BY <1>1
  <2> QED
    BY <2>2, <2>3 DEF WrappedTurns
<1>5. PICK g : /\ Wrapped(format, list, in, gone) = g[N]
               /\ g[0] = in
               /\ \A n \in 1..N :
                    g[n] = Around(format, list, N - n + 1, g[n - 1], gone)
  BY <1>1, WrappedLoop DEF WrappedTurns
<1> DEFINE T == {n \in 0..N : f[n + 1] = g[n]}
<1> HIDE DEF N
<1>6. 0 \in T
  <2>1. 1 \in 1..(N + 1) /\ (N + 1) - 1 + 1 = N + 1 /\ 1 - 1 = 0 /\ 0 + 1 = 1
    BY <1>1
  <2>2. f[1] = Around(format, t, (N + 1) - 1 + 1, f[1 - 1], gone)
    BY <1>4, <2>1
  <2>3. f[1] = Around(format, t, N + 1, members, gone)
    BY <1>4, <2>1, <2>2
  <2> QED
    BY <1>1, <1>2, <1>5, <2>1, <2>3
<1>7. ASSUME NEW n \in 1..N, n - 1 \in T PROVE n \in T
  <2>1. /\ n + 1 \in 1..(N + 1) /\ (N + 1) - (n + 1) + 1 = N - n + 1
        /\ (n + 1) - 1 = n /\ N - n + 1 \in 1..N /\ n - 1 + 1 = n /\ n \in 0..N
    BY <1>1
  <2>2. f[n + 1] = Around(format, t, (N + 1) - (n + 1) + 1, f[(n + 1) - 1], gone)
    BY <1>4, <2>1
  <2>3. f[n + 1] = Around(format, t, N - n + 1, f[n], gone)
    BY <2>1, <2>2
  <2>4. f[n] = g[n - 1]
    BY <1>7, <2>1
  <2>5. f[n + 1] = Around(format, list, N - n + 1, g[n - 1], gone)
    BY <1>3, <2>1, <2>3, <2>4
  <2> QED
    BY <1>5, <2>1, <2>5
<1>8. N \in T
  <2>1. N \in 0..N
    BY <1>1
  <2> HIDE DEF T
  <2> QED
    BY <1>1, <1>6, <1>7, <2>1, UpTo
<1> QED
  BY <1>4, <1>5, <1>8 DEF t, in

LEMMA WrapAllNone ==
  ASSUME NEW attrs
  PROVE  Recorded!WrapAll(<<>>, attrs) = attrs
<1> DEFINE none == <<>>
<1>1. Len(none) = 0
  OBVIOUS
<1> HIDE DEF none
<1>2. PICK f : WrapAllTurns(f, none, attrs)
  BY <1>1, WrapAllLoop
<1> QED
  BY <1>1, <1>2 DEF none, WrapAllTurns

LEMMA WrapAllAppend ==
  ASSUME NEW S, NEW list \in Seq(S), NEW e \in S, NEW attrs
  PROVE  Recorded!WrapAll(Append(list, e), attrs)
           = Recorded!WrapAll(list, Recorded!Wrap(e, attrs))
<1> DEFINE N == Len(list)
           t == Append(list, e)
           in == Recorded!Wrap(e, attrs)
<1>1. /\ N \in Nat /\ t \in Seq(S) /\ Len(t) = N + 1
      /\ t[N + 1] = e /\ \A i \in 1..N : t[i] = list[i]
  BY AppendProperties
<1> HIDE DEF t, in
<1>4. PICK f : /\ Recorded!WrapAll(t, attrs) = f[N + 1]
               /\ f[0] = attrs
               /\ \A n \in 1..(N + 1) :
                    f[n] = Recorded!Wrap(t[(N + 1) - n + 1], f[n - 1])
  <2> HIDE DEF N
  <2>1. Len(t) \in Nat
    BY <1>1
  <2>2. PICK f : WrapAllTurns(f, t, attrs)
    BY <2>1, WrapAllLoop
  <2>3. Len(t) = N + 1
    BY <1>1
  <2> QED
    BY <2>2, <2>3 DEF WrapAllTurns
<1>5. PICK g : /\ Recorded!WrapAll(list, in) = g[N]
               /\ g[0] = in
               /\ \A n \in 1..N :
                    g[n] = Recorded!Wrap(list[N - n + 1], g[n - 1])
  BY <1>1, WrapAllLoop DEF WrapAllTurns
<1> DEFINE T == {n \in 0..N : f[n + 1] = g[n]}
<1> HIDE DEF N
<1>6. 0 \in T
  <2>1. 1 \in 1..(N + 1) /\ (N + 1) - 1 + 1 = N + 1 /\ 1 - 1 = 0 /\ 0 + 1 = 1
    BY <1>1
  <2>2. f[1] = Recorded!Wrap(t[(N + 1) - 1 + 1], f[1 - 1])
    BY <1>4, <2>1
  <2>3. f[1] = Recorded!Wrap(e, attrs)
    BY <1>1, <1>4, <2>1, <2>2
  <2> QED
    BY <1>1, <1>5, <2>1, <2>3 DEF in
<1>7. ASSUME NEW n \in 1..N, n - 1 \in T PROVE n \in T
  <2>1. /\ n + 1 \in 1..(N + 1) /\ (N + 1) - (n + 1) + 1 = N - n + 1
        /\ (n + 1) - 1 = n /\ N - n + 1 \in 1..N /\ n - 1 + 1 = n /\ n \in 0..N
    BY <1>1
  <2>2. f[n + 1] = Recorded!Wrap(t[(N + 1) - (n + 1) + 1], f[(n + 1) - 1])
    BY <1>4, <2>1
  <2>3. f[n + 1] = Recorded!Wrap(t[N - n + 1], f[n])
    BY <2>1, <2>2
  <2>4. f[n] = g[n - 1]
    BY <1>7, <2>1
  <2>5. f[n + 1] = Recorded!Wrap(list[N - n + 1], g[n - 1])
    BY <1>1, <2>1, <2>3, <2>4
  <2> QED
    BY <1>5, <2>1, <2>5
<1>8. N \in T
  <2>1. N \in 0..N
    BY <1>1
  <2> HIDE DEF T
  <2> QED
    BY <1>1, <1>6, <1>7, <2>1, UpTo
<1> QED
  BY <1>4, <1>5, <1>8 DEF t, in
-----------------------------------------------------------------------------
(* What the rules keep of attributes if nothing is removed, which is the   *)
(* same in whatever groups: it is what a recorder resolves them to.        *)
RecordOf == KeptOf("record", {})

LEMMA RecordNest ==
  ASSUME NEW name, NEW members
  PROVE  Nest("record", name, members)
           = IF members = <<>> \/ name = NoKey THEN members
             ELSE <<Group(name, members)>>
<1>1. GroupIn("record", name, members) = Group(name, members)
  BY DEF GroupIn
<1>2. Nest("record", name, members)
        = IF name = NoKey \/ members = <<>> THEN members
          ELSE <<GroupIn("record", name, members)>>
  BY DEF Nest
<1> DEFINE g == GroupIn("record", name, members)
           h == Group(name, members)
<1> HIDE DEF g, h
<1> QED
  BY <1>1, <1>2 DEF g, h

LEMMA RecordLeaf ==
  ASSUME NEW a \in Attrs, NEW p \in Paths, a.kind = "leaf"
  PROVE  KeptOf("record", {})[a][p] = <<a>>
<1> DEFINE gone == {}
<1>1. <<p, a.key>> \notin gone
  OBVIOUS
<1> HIDE DEF gone
<1>2. KeptOf("record", gone)[a][p]
        = IF <<p, a.key>> \in gone THEN <<>> ELSE <<LeafIn("record", p, a)>>
  BY KeptOfLeaf
<1>3. LeafIn("record", p, a) = a
  BY DEF LeafIn
<1> QED
  BY <1>1, <1>2, <1>3 DEF gone

LEMMA SameFlattenSeq == \A s : Recorded!FlattenSeq(s) = FlattenSeq(s)
BY DEF Recorded!FlattenSeq, FlattenSeq

(* Without ReplaceAttr the groups make no difference.                      *)
LEMMA RecordPaths ==
  \A a \in Attrs : \A p, q \in Paths : RecordOf[a][p] = RecordOf[a][q]
<1> DEFINE k == KeptOf("record", {})
           T == {a \in Attrs : \A p, q \in Paths : k[a][p] = k[a][q]}
<1>1. ASSUME NEW a \in Attrs,
             a.kind = "group" => \A i \in DOMAIN a.attrs : a.attrs[i] \in T,
             NEW p \in Paths, NEW q \in Paths
      PROVE  k[a][p] = k[a][q]
  <2>1. CASE a.kind = "empty"
    <3>1. k[a][p] = <<>> /\ k[a][q] = <<>>
      BY <2>1, KeptOfEmpty
    <3> QED
      BY <3>1
  <2>2. CASE a.kind = "leaf"
    <3>1. k[a][p] = <<a>> /\ k[a][q] = <<a>>
      BY <2>2, RecordLeaf
    <3> QED
      BY <3>1
  <2>3. CASE a.kind = "group"
    <3> DEFINE inP == In(p, a.key)
               inQ == In(q, a.key)
    <3>1. inP \in Paths /\ inQ \in Paths /\ a.attrs \in Seq(Attrs)
      BY <2>3, AttrKinds, InPaths
    <3>2. /\ k[a][p] = Nest("record", a.key, Kept("record", a.attrs, inP, {}))
          /\ k[a][q] = Nest("record", a.key, Kept("record", a.attrs, inQ, {}))
      BY <2>3, KeptOfGroup
    <3>3. ASSUME NEW i \in DOMAIN a.attrs PROVE k[a.attrs[i]][inP] = k[a.attrs[i]][inQ]
      BY <1>1, <2>3, <3>1
    <3>4. [i \in DOMAIN a.attrs |-> k[a.attrs[i]][inP]]
            = [i \in DOMAIN a.attrs |-> k[a.attrs[i]][inQ]]
      <4> HIDE DEF k, inP, inQ
      <4> QED
        BY <3>3
    <3>5. Kept("record", a.attrs, inP, {}) = Kept("record", a.attrs, inQ, {})
      BY <3>4 DEF Kept
    <3> QED
      BY <3>2, <3>5
  <2> QED
    BY <2>1, <2>2, <2>3, AttrKinds
<1>2. Attrs \subseteq T
  <2> DEFINE U == T
  <2>1. ASSUME NEW a \in Attrs,
               a.kind = "group" => \A i \in DOMAIN a.attrs : a.attrs[i] \in U
        PROVE  a \in U
    BY <1>1, <2>1
  <2> HIDE DEF U
  <2>2. Attrs \subseteq U
    BY <2>1, AttrInduction
  <2> QED
    BY <2>2 DEF U
<1> QED
  BY <1>2 DEF RecordOf

(* One turn of the recursion of AppendResolved.                            *)
ResolvedTurn(resolved, a) ==
  CASE a.kind = "empty" -> <<>>
    [] a.kind = "leaf" -> <<a>>
    [] OTHER ->
         LET children == FlattenSeq([i \in DOMAIN a.attrs |-> resolved[a.attrs[i]]])
         IN  IF children = <<>> \/ a.key = NoKey THEN children
             ELSE <<Group(a.key, children)>>

LEMMA ResolvedTurnSame ==
  ASSUME NEW a \in Attrs, NEW f, NEW g,
         a.kind = "group" => \A i \in DOMAIN a.attrs : f[a.attrs[i]] = g[a.attrs[i]]
  PROVE  ResolvedTurn(f, a) = ResolvedTurn(g, a)
<1>1. CASE a.kind # "group"
  BY <1>1, AttrKinds DEF ResolvedTurn
<1>2. CASE a.kind = "group"
  <2>1. [i \in DOMAIN a.attrs |-> f[a.attrs[i]]] = [i \in DOMAIN a.attrs |-> g[a.attrs[i]]]
    BY <1>2
  <2> QED
    BY <1>2, <2>1 DEF ResolvedTurn
<1> QED
  BY <1>1, <1>2

LEMMA ResolvedOfGroup ==
  ASSUME NEW a \in Attrs, NEW f, a.kind = "group"
  PROVE  ResolvedTurn(f, a)
           = Nest("record", a.key, FlattenSeq([i \in DOMAIN a.attrs |-> f[a.attrs[i]]]))
<1> DEFINE children == FlattenSeq([i \in DOMAIN a.attrs |-> f[a.attrs[i]]])
<1>1. ResolvedTurn(f, a) = IF children = <<>> \/ a.key = NoKey THEN children
                           ELSE <<Group(a.key, children)>>
  BY DEF ResolvedTurn
<1> HIDE DEF children
<1> QED
  BY <1>1, RecordNest DEF children

(* What a record keeps solves the recursion.                               *)
LEMMA RecordSolves ==
  ASSUME NEW r, r = [a \in Attrs |-> RecordOf[a][<<>>]]
  PROVE  \A a \in Attrs : r[a] = ResolvedTurn(r, a)
<1> SUFFICES ASSUME NEW a \in Attrs PROVE r[a] = ResolvedTurn(r, a)
  OBVIOUS
<1> DEFINE none == <<>>
           k == KeptOf("record", {})
<1>1. none \in Paths
  BY DEF Paths
<1>2. \A b \in Attrs : r[b] = k[b][none]
  BY DEF RecordOf
<1> HIDE DEF none
<1>3. CASE a.kind = "empty"
  <2>1. k[a][none] = <<>>
    BY <1>1, <1>3, KeptOfEmpty
  <2>2. ResolvedTurn(r, a) = <<>>
    BY <1>3 DEF ResolvedTurn
  <2> QED
    BY <1>2, <2>1, <2>2
<1>4. CASE a.kind = "leaf"
  <2>1. k[a][none] = <<a>>
    BY <1>1, <1>4, RecordLeaf
  <2>3. ResolvedTurn(r, a) = <<a>>
    BY <1>4 DEF ResolvedTurn
  <2> QED
    BY <1>2, <2>1, <2>3
<1>5. CASE a.kind = "group"
  <2> DEFINE in == In(none, a.key)
  <2>1. in \in Paths /\ a.attrs \in Seq(Attrs)
    BY <1>1, <1>5, AttrKinds, InPaths
  <2>2. k[a][none] = Nest("record", a.key, Kept("record", a.attrs, in, {}))
    BY <1>1, <1>5, KeptOfGroup
  <2>3. Kept("record", a.attrs, in, {}) = FlattenSeq([i \in DOMAIN a.attrs |-> k[a.attrs[i]][in]])
    BY DEF Kept
  <2>4. ASSUME NEW i \in DOMAIN a.attrs PROVE k[a.attrs[i]][in] = r[a.attrs[i]]
    <3>1. a.attrs[i] \in Attrs
      BY <1>5, AttrKinds
    <3>2. k[a.attrs[i]][in] = k[a.attrs[i]][none]
      BY <1>1, <2>1, <3>1, RecordPaths DEF RecordOf
    <3> QED
      BY <1>2, <3>1, <3>2
  <2>5. [i \in DOMAIN a.attrs |-> k[a.attrs[i]][in]] = [i \in DOMAIN a.attrs |-> r[a.attrs[i]]]
    <3> HIDE DEF k, in
    <3> QED
      BY <2>4
  <2>6. ResolvedTurn(r, a)
          = Nest("record", a.key, FlattenSeq([i \in DOMAIN a.attrs |-> r[a.attrs[i]]]))
    BY <1>5, ResolvedOfGroup
  <2> HIDE DEF k, in
  <2> QED
    BY <1>2, <2>2, <2>3, <2>5, <2>6
<1> QED
  BY <1>3, <1>4, <1>5, AttrKinds

(* By induction over attributes.                                           *)
LEMMA AppendResolvedIs ==
  ASSUME NEW a \in Attrs, NEW p \in Paths
  PROVE  Recorded!AppendResolved[a] = RecordOf[a][p]
<1> DEFINE r == [b \in Attrs |-> RecordOf[b][<<>>]]
           Is(f) == f = [b \in Attrs |-> ResolvedTurn(f, b)]
           c == Recorded!AppendResolved
<1>1. \A b \in Attrs : r[b] = ResolvedTurn(r, b)
  BY RecordSolves
<1>2. Is(r)
  <2>1. r = [b \in Attrs |-> r[b]]
    OBVIOUS
  <2> HIDE DEF r
  <2> QED
    BY <1>1, <2>1
<1>3. c = CHOOSE f : Is(f)
  BY SameFlattenSeq DEF Recorded!AppendResolved, ResolvedTurn, Recorded!Group, Group
<1>4. Is(c)
  <2> HIDE DEF Is, r, c
  <2> QED
    BY <1>2, <1>3
<1> HIDE DEF c, r
<1>5. \A b \in Attrs : c[b] = ResolvedTurn(c, b)
  BY <1>4
<1> DEFINE T == {b \in Attrs : c[b] = r[b]}
<1>6. ASSUME NEW b \in Attrs,
             b.kind = "group" => \A i \in DOMAIN b.attrs : b.attrs[i] \in T
      PROVE  b \in T
  <2>1. b.kind = "group" => \A i \in DOMAIN b.attrs : c[b.attrs[i]] = r[b.attrs[i]]
    BY <1>6
  <2>2. ResolvedTurn(c, b) = ResolvedTurn(r, b)
    BY <2>1, ResolvedTurnSame
  <2> QED
    BY <1>1, <1>5, <2>2
<1> HIDE DEF T
<1>7. a \in T
  BY <1>6, AttrInduction
<1>8. c[a] = r[a]
  BY <1>7 DEF T
<1>9. r[a] = RecordOf[a][p]
  <2>1. <<>> \in Paths
    BY DEF Paths
  <2> QED
    BY <2>1, RecordPaths DEF r
<1> QED
  BY <1>8, <1>9 DEF c

LEMMA ResolvedIs ==
  ASSUME NEW attrs \in Seq(Attrs), NEW p \in Paths
  PROVE  Recorded!Resolved(attrs) = Kept("record", attrs, p, {})
<1>1. ASSUME NEW i \in DOMAIN attrs
      PROVE  Recorded!AppendResolved[attrs[i]] = KeptOf("record", {})[attrs[i]][p]
  <2>1. attrs[i] \in Attrs
    OBVIOUS
  <2> QED
    BY <2>1, AppendResolvedIs DEF RecordOf
<1>2. [i \in DOMAIN attrs |-> Recorded!AppendResolved[attrs[i]]]
        = [i \in DOMAIN attrs |-> KeptOf("record", {})[attrs[i]][p]]
  BY <1>1
<1> QED
  BY <1>2, SameFlattenSeq DEF Recorded!Resolved, Kept

(* What loggers are derived with.                                          *)
AllSteps == {AttrStep(attrs) : attrs \in AttrLists} \cup {GroupStep(name) : name \in Names}

(* The groups a logger is in.                                              *)
LEMMA StepKinds ==
  ASSUME NEW s \in AllSteps
  PROVE  \/ s.kind = "attrs" /\ s.attrs \in AttrLists /\ s.attrs \in Seq(Attrs)
         \/ s.kind = "group" /\ s.name \in Names /\ s.name \in STRING \cup {NoKey}
BY RenderingAssumption DEF AllSteps, AttrStep, GroupStep

NameOf == [s \in AllSteps |->
             IF s.kind = "group" /\ s.name # NoKey THEN <<s.name>> ELSE <<>>]

LEMMA NamesAre == NameOf \in Makers(AllSteps, Seq(STRING))
<1> DEFINE S == STRING
           all == Seq(S)
<1>1. ASSUME NEW s \in AllSteps
      PROVE  (IF s.kind = "group" /\ s.name # NoKey THEN <<s.name>> ELSE <<>>) \in all
  <2>1. s.kind = "group" /\ s.name # NoKey => s.name \in S
    BY StepKinds
  <2> HIDE DEF S
  <2> QED
    BY <2>1
<1> HIDE DEF all
<1>2. NameOf \in [AllSteps -> all]
  BY <1>1 DEF NameOf
<1> QED
  BY <1>2 DEF all, Makers

LEMMA PathIsFlat ==
  ASSUME NEW list \in Seq(AllSteps)
  PROVE  PathOf(list) = Flat(list, NameOf)
<1>1. [i \in DOMAIN list |-> IF list[i].kind = "group" /\ list[i].name # NoKey
                             THEN <<list[i].name>> ELSE <<>>]
        = [i \in DOMAIN list |-> NameOf[list[i]]]
  BY DEF NameOf
<1> QED
  BY <1>1 DEF PathOf, Flat, Each

LEMMA PathType ==
  ASSUME NEW list \in Seq(AllSteps)
  PROVE  PathOf(list) \in Paths
<1> DEFINE S == STRING
<1>1. NameOf \in Makers(AllSteps, Seq(S))
  BY NamesAre
<1> HIDE DEF S
<1>2. Flat(list, NameOf) \in Seq(S)
  BY <1>1, FlatType
<1> QED
  BY <1>2, PathIsFlat DEF Paths, S

LEMMA PathAppend ==
  ASSUME NEW list \in Seq(AllSteps), NEW e \in AllSteps
  PROVE  PathOf(Append(list, e))
           = IF e.kind = "group" THEN In(PathOf(list), e.name) ELSE PathOf(list)
<1> DEFINE S == STRING
           path == PathOf(list)
<1>1. NameOf \in Makers(AllSteps, Seq(S))
  BY NamesAre
<1>2. Append(list, e) \in Seq(AllSteps)
  OBVIOUS
<1>3. path \in Seq(S)
  BY PathType DEF Paths
<1> HIDE DEF S
<1>4. Flat(Append(list, e), NameOf) = Flat(list, NameOf) \o NameOf[e]
  BY <1>1, FlatAppend
<1>5. PathOf(Append(list, e)) = path \o NameOf[e]
  BY <1>2, <1>4, PathIsFlat
<1> HIDE DEF path
<1>6. CASE e.kind = "group" /\ e.name # NoKey
  <2>1. NameOf[e] = <<e.name>> /\ e.name \in S
    BY <1>6, StepKinds DEF NameOf, S
  <2>2. path \o <<e.name>> = Append(path, e.name)
    BY <1>3, <2>1
  <2> QED
    BY <1>5, <1>6, <2>1, <2>2 DEF In, path
<1>7. CASE ~(e.kind = "group" /\ e.name # NoKey)
  <2>1. NameOf[e] = <<>>
    BY <1>7 DEF NameOf
  <2>2. path \o <<>> = path
    BY <1>3
  <2>3. e.kind = "group" => In(path, e.name) = path
    BY <1>7 DEF In
  <2> QED
    BY <1>5, <1>7, <2>1, <2>2, <2>3 DEF path
<1> QED
  BY <1>6, <1>7

LEMMA PathNone == PathOf(<<>>) = <<>>
<1>1. <<>> \in Seq(AllSteps)
  OBVIOUS
<1> QED
  BY <1>1, PathIsFlat, FlatNone
-----------------------------------------------------------------------------
(* What a recorder was derived with.                                       *)
RecorderSteps ==
  {AttrStep(Recorded!Resolved(attrs)) : attrs \in AttrLists}
    \cup {GroupStep(name) : name \in Names}

(* The steps that a recorder has kept, put around anything, are those of   *)
(* its logger put around it, although it keeps fewer.                      *)
RecorderInv ==
  /\ steps \in Seq(AllSteps)
  /\ recorder \in Seq(RecorderSteps)
  /\ \A S : \A x \in Seq(S) :
       Recorded!WrapAll(recorder, x) = Wrapped("record", steps, x, {})

LEMMA RecorderInvInit == LoggerInit => RecorderInv
<1> SUFFICES ASSUME LoggerInit PROVE RecorderInv
  OBVIOUS
<1>1. steps = <<>> /\ recorder = <<>>
  BY DEF LoggerInit, Recorded!NewRecorder
<1>2. steps \in Seq(AllSteps) /\ recorder \in Seq(RecorderSteps)
  BY <1>1
<1>3. \A x : Recorded!WrapAll(recorder, x) = x /\ Wrapped("record", steps, x, {}) = x
  BY <1>1, WrapAllNone, WrappedNone
<1> QED
  BY <1>2, <1>3 DEF RecorderInv

LEMMA RecorderInvWith ==
  ASSUME RecorderInv, NEW attrs \in AttrLists, With(attrs)
  PROVE  RecorderInv'
<1> DEFINE st == AttrStep(attrs)
           own == Recorded!Resolved(attrs)
           P == Pieces("record", {})
<1>1. /\ steps \in Seq(AllSteps) /\ recorder \in Seq(RecorderSteps)
      /\ steps' = Append(steps, st) /\ recorder' = Recorded!WithAttrs(recorder, attrs)
      /\ st \in AllSteps /\ AttrStep(own) \in RecorderSteps
  BY DEF RecorderInv, With, AllSteps, RecorderSteps
<1>2. attrs \in Seq(Attrs) /\ st.kind = "attrs" /\ st.attrs = attrs
  BY RenderingAssumption DEF AttrStep
<1>3. own = Kept("record", attrs, PathOf(steps), {}) /\ own \in Seq(P)
  <2>1. PathOf(steps) \in Paths
    BY <1>1, PathType
  <2>2. own = Kept("record", attrs, PathOf(steps), {})
    BY <1>2, <2>1, ResolvedIs
  <2>3. \A a \in Attrs : KeptOf("record", {})[a][PathOf(steps)] \in Seq(P)
    BY <2>1, KeptPieces
  <2>4. Kept("record", attrs, PathOf(steps), {}) \in Seq(P)
    <3> HIDE DEF P
    <3> QED
      BY <1>2, <2>3, KeptSeqType
  <2> QED
    BY <2>2, <2>4
<1>4. steps' \in Seq(AllSteps)
  BY <1>1
<1>5. recorder' = IF own = <<>> THEN recorder ELSE Append(recorder, AttrStep(own))
  BY <1>1 DEF Recorded!WithAttrs, Recorded!AttrStep, AttrStep
<1>6. recorder' \in Seq(RecorderSteps)
  <2> HIDE DEF own
  <2> QED
    BY <1>1, <1>5
<1>7. ASSUME NEW x PROVE Recorded!Wrap(AttrStep(own), x) = own \o x
  BY DEF Recorded!Wrap, AttrStep
<1> HIDE DEF own, P, st
<1>8. ASSUME NEW S, NEW x \in Seq(S)
      PROVE  Recorded!WrapAll(recorder', x) = Wrapped("record", steps', x, {})
  <2> DEFINE y == own \o x
             Q == P \cup S
  <2>1. own \in Seq(Q) /\ x \in Seq(Q)
    BY <1>3, <1>8
  <2>2. y \in Seq(Q)
    <3> HIDE DEF Q
    <3> QED
      BY <2>1
  <2>3. Wrapped("record", steps', x, {}) = Wrapped("record", steps, y, {})
    BY <1>1, <1>2, <1>3, WrappedAppend
  <2>4. Recorded!WrapAll(recorder, y) = Wrapped("record", steps, y, {})
    BY <2>2 DEF RecorderInv
  <2>5. Recorded!WrapAll(recorder', x) = Recorded!WrapAll(recorder, y)
    <3>1. CASE own = <<>>
      <4>1. y = x
        BY <1>8, <3>1
      <4> QED
        BY <1>5, <3>1, <4>1
    <3>2. CASE own # <<>>
      <4>1. recorder' = Append(recorder, AttrStep(own))
        BY <1>5, <3>2
      <4> DEFINE e == AttrStep(own)
      <4>2. e \in RecorderSteps /\ Recorded!Wrap(e, x) = y
        BY <1>1, <1>7
      <4> HIDE DEF e, y
      <4>3. Recorded!WrapAll(recorder', x)
              = Recorded!WrapAll(recorder, Recorded!Wrap(e, x))
        BY <1>1, <4>1, <4>2, WrapAllAppend DEF e
      <4> QED
        BY <4>2, <4>3
    <3> QED
      BY <3>1, <3>2
  <2> QED
    BY <2>3, <2>4, <2>5
<1> QED
  BY <1>4, <1>6, <1>8 DEF RecorderInv

LEMMA RecorderInvWithGroup ==
  ASSUME RecorderInv, NEW name \in Names, WithGroup(name)
  PROVE  RecorderInv'
<1> DEFINE st == GroupStep(name)
<1>1. /\ steps \in Seq(AllSteps) /\ recorder \in Seq(RecorderSteps)
      /\ steps' = Append(steps, st) /\ recorder' = Recorded!WithGroup(recorder, name)
      /\ st \in AllSteps /\ st \in RecorderSteps
      /\ st.kind = "group" /\ st.kind # "attrs" /\ st.name = name
  BY DEF RecorderInv, WithGroup, AllSteps, RecorderSteps, GroupStep
<1>2. recorder' = IF name = NoKey THEN recorder ELSE Append(recorder, st)
  BY <1>1 DEF Recorded!WithGroup, Recorded!GroupStep, GroupStep
<1>3. steps' \in Seq(AllSteps) /\ recorder' \in Seq(RecorderSteps)
  <2> HIDE DEF st
  <2> QED
    BY <1>1, <1>2
<1>4. ASSUME NEW x
      PROVE  Recorded!Wrap(st, x) = IF x # <<>> THEN <<Group(name, x)>> ELSE x
  BY DEF Recorded!Wrap, GroupStep, Recorded!Group, Group
<1> HIDE DEF st
<1>5. ASSUME NEW S, NEW x \in Seq(S)
      PROVE  Recorded!WrapAll(recorder', x) = Wrapped("record", steps', x, {})
  <2> DEFINE g == Group(name, x)
             y == Nest("record", name, x)
  <2>1. y = IF x = <<>> \/ name = NoKey THEN x ELSE <<g>>
    BY RecordNest
  <2> HIDE DEF g, y
  <2>2. \E Q : y \in Seq(Q)
    <3>1. CASE x = <<>> \/ name = NoKey
      BY <1>5, <2>1, <3>1
    <3>2. CASE ~(x = <<>> \/ name = NoKey)
      <4>1. y \in Seq({g})
        BY <2>1, <3>2
      <4> QED
        BY <4>1
    <3> QED
      BY <3>1, <3>2
  <2>3. Wrapped("record", steps', x, {}) = Wrapped("record", steps, y, {})
    BY <1>1, WrappedAppend DEF y
  <2>4. Recorded!WrapAll(recorder, y) = Wrapped("record", steps, y, {})
    BY <2>2 DEF RecorderInv
  <2>5. Recorded!WrapAll(recorder', x) = Recorded!WrapAll(recorder, y)
    <3>1. CASE name = NoKey
      BY <1>2, <2>1, <3>1
    <3>2. CASE name # NoKey
      <4>1. recorder' = Append(recorder, st)
        BY <1>2, <3>2
      <4>2. Recorded!Wrap(st, x) = y
        BY <1>4, <2>1, <3>2 DEF g
      <4> QED
        BY <1>1, <4>1, <4>2, WrapAllAppend
    <3> QED
      BY <3>1, <3>2
  <2> QED
    BY <2>3, <2>4, <2>5
<1> QED
  BY <1>3, <1>5 DEF RecorderInv

(* What a record is logged with is resolved, and the steps are put around  *)
(* it.                                                                     *)
LEMMA RecorderInvShown == RecorderInv => RecorderTellsAll
<1> SUFFICES ASSUME RecorderInv, NEW attrs \in AttrLists
             PROVE  Recorded!RecordAttrs(recorder, attrs) = Tree("record", steps, attrs, {})
  BY DEF RecorderTellsAll
<1> DEFINE x == Recorded!Resolved(attrs)
           P == Pieces("record", {})
<1>1. attrs \in Seq(Attrs) /\ PathOf(steps) \in Paths
  BY RenderingAssumption, PathType DEF RecorderInv
<1>2. x = Kept("record", attrs, PathOf(steps), {})
  BY <1>1, ResolvedIs
<1>3. \A a \in Attrs : KeptOf("record", {})[a][PathOf(steps)] \in Seq(P)
  BY <1>1, KeptPieces
<1> HIDE DEF P
<1>4. x \in Seq(P)
  BY <1>1, <1>2, <1>3, KeptSeqType
<1> HIDE DEF x
<1>5. Recorded!WrapAll(recorder, x) = Wrapped("record", steps, x, {})
  BY <1>4 DEF RecorderInv
<1> QED
  BY <1>2, <1>5 DEF Recorded!RecordAttrs, Tree, x

(* Every recorded record has exactly the attributes that its logger was    *)
(* derived with and was given, in order and in their groups, whatever its  *)
(* history.                                                                *)
THEOREM RecordsTellAll == LoggerSpec => []RecorderTellsAll
<1>1. RecorderInv /\ [LoggerNext]_loggerVars => RecorderInv'
  <2> SUFFICES ASSUME RecorderInv, [LoggerNext]_loggerVars PROVE RecorderInv'
    OBVIOUS
  <2>1. CASE UNCHANGED loggerVars
    BY <2>1 DEF loggerVars, RecorderInv
  <2>2. CASE LoggerNext
    BY <2>2, RecorderInvWith, RecorderInvWithGroup DEF LoggerNext
  <2> QED
    BY <2>1, <2>2
<1> QED
  BY <1>1, RecorderInvInit, RecorderInvShown, PTL DEF LoggerSpec
-----------------------------------------------------------------------------
(* Lists of lists, put together in any order.                              *)
LEMMA FlattenConcat ==
  ASSUME NEW S, NEW s \in Seq(Seq(S)), NEW t \in Seq(Seq(S))
  PROVE  FlattenSeq(s \o t) = FlattenSeq(s) \o FlattenSeq(t)
<1> DEFINE all == Seq(S)
           T == {u \in Seq(all) : FlattenSeq(s \o u) = FlattenSeq(s) \o FlattenSeq(u)}
<1>1. s \in Seq(all) /\ t \in Seq(all)
  OBVIOUS
<1>2. ASSUME NEW u \in Seq(all) PROVE FlattenSeq(u) \in Seq(S)
  BY FlattenType
<1>3. ASSUME NEW u \in Seq(all), NEW e \in all
      PROVE  FlattenSeq(Append(u, e)) = FlattenSeq(u) \o e
  BY FlattenAppend
<1>4. <<>> \in T
  <2> DEFINE x == FlattenSeq(s)
  <2>1. x \in Seq(S)
    BY <1>1, <1>2
  <2> HIDE DEF x, all
  <2>2. s \o <<>> = s /\ x \o <<>> = x /\ <<>> \in Seq(all)
    BY <1>1, <2>1, ConcatEmptySeq, EmptySeq
  <2> QED
    BY <2>2, FlattenNone DEF x
<1>5. ASSUME NEW u \in Seq(all), NEW e \in all, u \in T PROVE Append(u, e) \in T
  <2> DEFINE x == FlattenSeq(s)
             y == FlattenSeq(u)
  <2>1. x \in Seq(S) /\ y \in Seq(S) /\ e \in Seq(S)
    BY <1>1, <1>2
  <2>2. FlattenSeq(s \o u) = x \o y
    BY <1>5
  <2>3. FlattenSeq(Append(u, e)) = y \o e
    BY <1>3
  <2> HIDE DEF x, y
  <2>4. s \o Append(u, e) = Append(s \o u, e) /\ s \o u \in Seq(all)
    <3> HIDE DEF all
    <3> QED
      BY <1>1
  <2>5. FlattenSeq(s \o Append(u, e)) = (x \o y) \o e
    BY <1>3, <2>2, <2>4
  <2>6. (x \o y) \o e = x \o (y \o e)
    BY <2>1, ConcatAssociative
  <2>7. Append(u, e) \in Seq(all)
    <3> HIDE DEF all
    <3> QED
      OBVIOUS
  <2> QED
    BY <2>3, <2>5, <2>6, <2>7 DEF x
<1>6. Seq(all) \subseteq T
  <2> HIDE DEF T, all
  <2> QED
    BY <1>4, <1>5, SeqInduction
<1> QED
  BY <1>1, <1>6

LEMMA FlattenOne ==
  ASSUME NEW S, NEW e \in Seq(S)
  PROVE  FlattenSeq(<<e>>) = e
<1> DEFINE all == Seq(S)
           none == <<>>
<1>1. none \in Seq(all) /\ Append(none, e) = <<e>> /\ e \in all
  OBVIOUS
<1>2. FlattenSeq(Append(none, e)) = FlattenSeq(none) \o e
  <2> HIDE DEF none
  <2> QED
    BY <1>1, FlattenAppend
<1>3. none \o e = e
  BY ConcatEmptySeq
<1> QED
  BY <1>1, <1>2, <1>3, FlattenNone

LEMMA FlattenFlat ==
  ASSUME NEW S, NEW R, NEW f \in Makers(S, Seq(Seq(R))), NEW g \in Makers(S, Seq(R)),
         \A a \in S : g[a] = FlattenSeq(f[a]), NEW s \in Seq(S)
  PROVE  FlattenSeq(Flat(s, f)) = Flat(s, g)
<1> DEFINE all == Seq(R)
           T == {u \in Seq(S) : FlattenSeq(Flat(u, f)) = Flat(u, g)}
<1>1. f \in Makers(S, Seq(all)) /\ g \in Makers(S, Seq(R))
  OBVIOUS
<1>2. <<>> \in T
  <2>1. Flat(<<>>, f) = <<>> /\ Flat(<<>>, g) = <<>> /\ <<>> \in Seq(S)
    BY FlatNone
  <2> QED
    BY <2>1, FlattenNone
<1>3. ASSUME NEW u \in Seq(S), NEW e \in S, u \in T PROVE Append(u, e) \in T
  <2> DEFINE x == Flat(u, f)
             y == f[e]
  <2>1. x \in Seq(all) /\ y \in Seq(all)
    <3> HIDE DEF all
    <3> QED
      BY <1>1, FlatType DEF Makers
  <2>2. Flat(Append(u, e), f) = x \o y
    <3> HIDE DEF all
    <3> QED
      BY <1>1, FlatAppend
  <2>3. Flat(Append(u, e), g) = Flat(u, g) \o g[e]
    BY <1>1, FlatAppend
  <2>4. FlattenSeq(x) = Flat(u, g) /\ FlattenSeq(y) = g[e]
    BY <1>3
  <2> HIDE DEF x, y
  <2>5. FlattenSeq(x \o y) = FlattenSeq(x) \o FlattenSeq(y)
    BY <2>1, FlattenConcat
  <2>6. Append(u, e) \in Seq(S)
    OBVIOUS
  <2> QED
    BY <2>2, <2>3, <2>4, <2>5, <2>6
<1>4. Seq(S) \subseteq T
  <2> HIDE DEF T
  <2> QED
    BY <1>2, <1>3, SeqInduction
<1> QED
  BY <1>4
-----------------------------------------------------------------------------
(* The items of a line: groups, key and value.                             *)
Items == Paths \X STRING \X STRING

LEMMA SamePrettyFlatten == \A s : Pretty!FlattenSeq(s) = FlattenSeq(s)
BY DEF Pretty!FlattenSeq, FlattenSeq

(* What the rules keep for a pretty line are lists of items.               *)
LEMMA PrettyLeaf ==
  ASSUME NEW a \in Attrs, a.kind = "leaf", NEW p \in Paths
  PROVE  /\ LeafIn("pretty", p, a) = <<<<p, a.key, a.val>>>>
         /\ <<p, a.key, a.val>> \in Items
         /\ LeafIn("pretty", p, a) \in Seq(Items)
<1>1. a.key \in STRING /\ a.val \in STRING
  BY AttrKinds
<1>2. LeafIn("pretty", p, a) = <<<<p, a.key, a.val>>>>
  BY DEF LeafIn
<1>3. <<p, a.key, a.val>> \in Items
  <2> DEFINE S == STRING
  <2>1. a.key \in S /\ a.val \in S
    BY <1>1
  <2> HIDE DEF S
  <2>2. <<p, a.key, a.val>> \in Paths \X S \X S
    BY <2>1
  <2> QED
    BY <2>2 DEF Items, S
<1> DEFINE x == <<p, a.key, a.val>>
<1> HIDE DEF x
<1>4. <<x>> \in Seq(Items)
  BY <1>3 DEF x
<1> QED
  BY <1>2, <1>3, <1>4 DEF x

LEMMA PrettyGroup ==
  ASSUME NEW name, NEW members
  PROVE  GroupIn("pretty", name, members) = FlattenSeq(members)
BY DEF GroupIn

LEMMA PrettyType ==
  ASSUME NEW gone
  PROVE  \A a \in Attrs, p \in Paths :
           KeptOf("pretty", gone)[a][p] \in Seq(Seq(Items))
<1> DEFINE S == Seq(Items)
<1>1. \A a \in Attrs, p \in Paths :
           a.kind = "leaf" => <<p, a.key>> \in gone \/ LeafIn("pretty", p, a) \in S
  BY PrettyLeaf
<1>2. ASSUME NEW name, NEW m \in Seq(S)
      PROVE  GroupIn("pretty", name, m) \in S
  <2>1. FlattenSeq(m) \in S
    BY FlattenType
  <2> QED
    BY <2>1, PrettyGroup
<1> HIDE DEF S
<1>3. \A a \in Attrs, p \in Paths :
           LET m == Kept("pretty", a.attrs, In(p, a.key), gone)
           IN  /\ a.kind = "group" /\ a.key # NoKey
               /\ m \in Seq(S) /\ m # <<>>
               => GroupIn("pretty", a.key, m) \in S
  BY <1>2
<1>4. \A a \in Attrs, p \in Paths : KeptOf("pretty", gone)[a][p] \in Seq(S)
  BY <1>1, <1>3, KeptType
<1> QED
  BY <1>4 DEF S

(* A group around members changes no item: each has its groups with it.    *)
LEMMA PrettyNest ==
  ASSUME NEW name, NEW m \in Seq(Seq(Items))
  PROVE  /\ Nest("pretty", name, m) \in Seq(Seq(Items))
         /\ FlattenSeq(Nest("pretty", name, m)) = FlattenSeq(m)
<1> DEFINE x == FlattenSeq(m)
<1>1. x \in Seq(Items)
  BY FlattenType
<1>2. Nest("pretty", name, m) = IF name = NoKey \/ m = <<>> THEN m ELSE <<x>>
  <2>1. GroupIn("pretty", name, m) = x
    BY PrettyGroup
  <2>2. Nest("pretty", name, m)
          = IF name = NoKey \/ m = <<>> THEN m ELSE <<GroupIn("pretty", name, m)>>
    BY DEF Nest
  <2> DEFINE g == GroupIn("pretty", name, m)
  <2> HIDE DEF x, g
  <2> QED
    BY <2>1, <2>2 DEF g
<1> HIDE DEF x
<1>3. FlattenSeq(<<x>>) = x /\ <<x>> \in Seq(Seq(Items))
  BY <1>1, FlattenOne
<1> QED
  BY <1>2, <1>3 DEF x

(* The items of what is kept of an attribute.                              *)
ItemsOf(gone) ==
  [a \in Attrs |-> [p \in Paths |-> FlattenSeq(KeptOf("pretty", gone)[a][p])]]

ItemsIn(gone, p) == [a \in Attrs |-> ItemsOf(gone)[a][p]]

LEMMA ItemsOfList ==
  ASSUME NEW gone, NEW p \in Paths, NEW attrs \in Seq(Attrs)
  PROVE  /\ Kept("pretty", attrs, p, gone) \in Seq(Seq(Items))
         /\ FlattenSeq(Kept("pretty", attrs, p, gone))
              = FlattenSeq([i \in DOMAIN attrs |-> ItemsOf(gone)[attrs[i]][p]])
<1> DEFINE k == KeptOf("pretty", gone)
           f == KeptIn("pretty", p, gone)
           g == ItemsIn(gone, p)
           all == Seq(Items)
<1>1. \A a \in Attrs : k[a][p] \in Seq(all)
  BY PrettyType
<1>2. \A a \in Attrs : FlattenSeq(k[a][p]) \in Seq(Items)
  <2>1. ASSUME NEW x \in Seq(all) PROVE FlattenSeq(x) \in Seq(Items)
    BY FlattenType
  <2> HIDE DEF k, all
  <2> QED
    BY <1>1, <2>1
<1>3. f \in Makers(Attrs, Seq(all))
  <2> HIDE DEF k, all
  <2> QED
    BY <1>1 DEF KeptIn, Makers, k
<1>4. \A a \in Attrs : f[a] = k[a][p] /\ g[a] = FlattenSeq(k[a][p])
  BY DEF KeptIn, ItemsIn, ItemsOf
<1>5. g \in Makers(Attrs, Seq(Items))
  <2>1. g = [a \in Attrs |-> g[a]]
    BY DEF ItemsIn
  <2> HIDE DEF g, k
  <2> QED
    BY <1>2, <1>4, <2>1 DEF Makers
<1>6. Kept("pretty", attrs, p, gone) = Flat(attrs, f)
  BY KeptIsFlat
<1>7. Flat(attrs, f) \in Seq(all)
  <2> HIDE DEF f, all
  <2> QED
    BY <1>3, FlatType
<1>8. FlattenSeq(Flat(attrs, f)) = Flat(attrs, g)
  <2>1. \A a \in Attrs : g[a] = FlattenSeq(f[a])
    BY <1>4
  <2> HIDE DEF f, g
  <2> QED
    BY <1>3, <1>5, <2>1, FlattenFlat
<1>9. Flat(attrs, g) = FlattenSeq([i \in DOMAIN attrs |-> ItemsOf(gone)[attrs[i]][p]])
  <2>1. [i \in DOMAIN attrs |-> g[attrs[i]]]
          = [i \in DOMAIN attrs |-> ItemsOf(gone)[attrs[i]][p]]
    BY DEF ItemsIn
  <2> QED
    BY <2>1 DEF Flat, Each
<1> QED
  BY <1>6, <1>7, <1>8, <1>9

(* One turn of the recursion of appendAttr.                                *)
PrettyTurn(gone, appended, a) ==
  [groups \in Paths |->
     CASE a.kind = "empty" -> <<>>
       [] a.kind = "leaf" ->
            IF <<groups, a.key>> \in gone THEN <<>>
            ELSE <<<<groups, a.key, a.val>>>>
       [] OTHER ->
            LET in == IF a.key = NoKey THEN groups ELSE Append(groups, a.key)
            IN  FlattenSeq([i \in DOMAIN a.attrs |-> appended[a.attrs[i]][in]])]

LEMMA PrettyTurnGroup ==
  ASSUME NEW gone, NEW f, NEW a \in Attrs, a.kind = "group", NEW p \in Paths
  PROVE  PrettyTurn(gone, f, a)[p]
           = FlattenSeq([i \in DOMAIN a.attrs |-> f[a.attrs[i]][In(p, a.key)]])
BY DEF PrettyTurn, In

LEMMA PrettyTurnSame ==
  ASSUME NEW gone, NEW a \in Attrs, NEW f, NEW g,
         a.kind = "group" => \A i \in DOMAIN a.attrs : f[a.attrs[i]] = g[a.attrs[i]]
  PROVE  PrettyTurn(gone, f, a) = PrettyTurn(gone, g, a)
<1>1. CASE a.kind # "group"
  BY <1>1, AttrKinds DEF PrettyTurn
<1>2. CASE a.kind = "group"
  <2>1. ASSUME NEW p \in Paths
        PROVE  PrettyTurn(gone, f, a)[p] = PrettyTurn(gone, g, a)[p]
    <3>1. [i \in DOMAIN a.attrs |-> f[a.attrs[i]][In(p, a.key)]]
            = [i \in DOMAIN a.attrs |-> g[a.attrs[i]][In(p, a.key)]]
      BY <1>2
    <3>2. ASSUME NEW h
          PROVE  PrettyTurn(gone, h, a)[p]
                   = FlattenSeq([i \in DOMAIN a.attrs |-> h[a.attrs[i]][In(p, a.key)]])
      BY <1>2, PrettyTurnGroup
    <3> QED
      BY <3>1, <3>2
  <2>2. ASSUME NEW h
        PROVE  PrettyTurn(gone, h, a) = [p \in Paths |-> PrettyTurn(gone, h, a)[p]]
    BY DEF PrettyTurn
  <2> DEFINE x == PrettyTurn(gone, f, a)
             y == PrettyTurn(gone, g, a)
  <2>3. x = [p \in Paths |-> x[p]] /\ y = [p \in Paths |-> y[p]]
    BY <2>2
  <2> HIDE DEF x, y
  <2>4. \A p \in Paths : x[p] = y[p]
    BY <2>1 DEF x, y
  <2>5. x = y
    BY <2>3, <2>4
  <2> QED
    BY <2>5 DEF x, y
<1> QED
  BY <1>1, <1>2

(* What the rules keep solves the recursion of appendAttr, hence is what   *)
(* it appends.                                                             *)
LEMMA ItemsSolve ==
  ASSUME NEW gone, NEW a \in Attrs, NEW p \in Paths
  PROVE  ItemsOf(gone)[a][p] = PrettyTurn(gone, ItemsOf(gone), a)[p]
<1> DEFINE r == ItemsOf(gone)
           k == KeptOf("pretty", gone)
<1>1. r[a][p] = FlattenSeq(k[a][p])
  BY DEF ItemsOf
<1>2. CASE a.kind = "empty"
  <2>1. k[a][p] = <<>>
    BY <1>2, KeptOfEmpty
  <2> HIDE DEF r
  <2>2. PrettyTurn(gone, r, a)[p] = <<>>
    BY <1>2 DEF PrettyTurn
  <2> QED
    BY <1>1, <2>1, <2>2, FlattenNone DEF r
<1>3. CASE a.kind = "leaf"
  <2> DEFINE x == LeafIn("pretty", p, a)
  <2>1. k[a][p] = IF <<p, a.key>> \in gone THEN <<>> ELSE <<x>>
    BY <1>3, KeptOfLeaf
  <2>2. x = <<<<p, a.key, a.val>>>> /\ x \in Seq(Items)
    BY <1>3, PrettyLeaf
  <2> HIDE DEF r, k, x
  <2>3. PrettyTurn(gone, r, a)[p]
          = IF <<p, a.key>> \in gone THEN <<>> ELSE <<<<p, a.key, a.val>>>>
    BY <1>3 DEF PrettyTurn
  <2>4. FlattenSeq(<<x>>) = x
    BY <2>2, FlattenOne
  <2> QED
    BY <1>1, <2>1, <2>2, <2>3, <2>4, FlattenNone DEF r
<1>4. CASE a.kind = "group"
  <2> DEFINE in == In(p, a.key)
             m == Kept("pretty", a.attrs, in, gone)
  <2>1. in \in Paths /\ a.attrs \in Seq(Attrs)
    BY <1>4, AttrKinds, InPaths
  <2>2. k[a][p] = Nest("pretty", a.key, m)
    BY <1>4, KeptOfGroup
  <2>3. /\ m \in Seq(Seq(Items))
        /\ FlattenSeq(m) = FlattenSeq([i \in DOMAIN a.attrs |-> r[a.attrs[i]][in]])
    BY <2>1, ItemsOfList
  <2>4. PrettyTurn(gone, r, a)[p] = FlattenSeq([i \in DOMAIN a.attrs |-> r[a.attrs[i]][in]])
    BY <1>4, PrettyTurnGroup
  <2>5. FlattenSeq(Nest("pretty", a.key, m)) = FlattenSeq(m)
    <3> HIDE DEF m
    <3> QED
      BY <2>3, PrettyNest
  <2> QED
    BY <1>1, <2>2, <2>3, <2>4, <2>5
<1> QED
  BY <1>2, <1>3, <1>4, AttrKinds

LEMMA AppendAttrIs ==
  ASSUME NEW gone, NEW a \in Attrs
  PROVE  Pretty!AppendAttr(gone)[a] = ItemsOf(gone)[a]
<1> DEFINE r == ItemsOf(gone)
           Is(f) == f = [b \in Attrs |-> PrettyTurn(gone, f, b)]
           c == Pretty!AppendAttr(gone)
<1>1. \A b \in Attrs : r[b] = PrettyTurn(gone, r, b)
  <2> SUFFICES ASSUME NEW b \in Attrs PROVE r[b] = PrettyTurn(gone, r, b)
    OBVIOUS
  <2> DEFINE x == r[b]
             y == PrettyTurn(gone, r, b)
  <2>1. x = [p \in Paths |-> x[p]] /\ y = [p \in Paths |-> y[p]]
    BY DEF ItemsOf, PrettyTurn
  <2>2. \A p \in Paths : x[p] = y[p]
    BY ItemsSolve
  <2> HIDE DEF x, y
  <2>3. x = y
    BY <2>1, <2>2
  <2> QED
    BY <2>3 DEF x, y
<1>2. Is(r)
  <2>1. r = [b \in Attrs |-> r[b]]
    BY DEF ItemsOf
  <2> HIDE DEF r
  <2> QED
    BY <1>1, <2>1
<1>3. c = CHOOSE f : Is(f)
  BY SamePrettyFlatten DEF Pretty!AppendAttr, PrettyTurn, Pretty!Paths, Paths
<1>4. Is(c)
  <2> HIDE DEF Is, r, c
  <2> QED
    BY <1>2, <1>3
<1> HIDE DEF c, r
<1>5. \A b \in Attrs : c[b] = PrettyTurn(gone, c, b)
  BY <1>4
<1> DEFINE T == {b \in Attrs : c[b] = r[b]}
<1>6. ASSUME NEW b \in Attrs,
             b.kind = "group" => \A i \in DOMAIN b.attrs : b.attrs[i] \in T
      PROVE  b \in T
  <2>1. b.kind = "group" => \A i \in DOMAIN b.attrs : c[b.attrs[i]] = r[b.attrs[i]]
    BY <1>6
  <2>2. PrettyTurn(gone, c, b) = PrettyTurn(gone, r, b)
    BY <2>1, PrettyTurnSame
  <2> QED
    BY <1>1, <1>5, <2>2
<1> HIDE DEF T
<1>7. a \in T
  BY <1>6, AttrInduction
<1> QED
  BY <1>7 DEF T, c, r
-----------------------------------------------------------------------------
(* What a step adds to all that is put around members later.               *)
LEMMA WrappedAttrs ==
  ASSUME NEW list \in Seq(AllSteps), NEW attrs \in AttrLists,
         NEW format, NEW members, NEW gone
  PROVE  Wrapped(format, Append(list, AttrStep(attrs)), members, gone)
           = Wrapped(format, list,
                     Kept(format, attrs, PathOf(list), gone) \o members, gone)
<1> DEFINE e == AttrStep(attrs)
<1>1. e \in AllSteps /\ e.kind = "attrs" /\ e.attrs = attrs
  BY DEF AllSteps, AttrStep
<1> HIDE DEF e
<1>2. Wrapped(format, Append(list, e), members, gone)
        = Wrapped(format, list,
                  IF e.kind = "attrs"
                  THEN Kept(format, e.attrs, PathOf(list), gone) \o members
                  ELSE Nest(format, e.name, members), gone)
  BY <1>1, WrappedAppend
<1> QED
  BY <1>1, <1>2 DEF e

LEMMA WrappedGroup ==
  ASSUME NEW list \in Seq(AllSteps), NEW name \in Names,
         NEW format, NEW members, NEW gone
  PROVE  Wrapped(format, Append(list, GroupStep(name)), members, gone)
           = Wrapped(format, list, Nest(format, name, members), gone)
<1> DEFINE e == GroupStep(name)
<1>1. e \in AllSteps /\ e.kind # "attrs" /\ e.name = name
  BY DEF AllSteps, GroupStep
<1> HIDE DEF e
<1>2. Wrapped(format, Append(list, e), members, gone)
        = Wrapped(format, list,
                  IF e.kind = "attrs"
                  THEN Kept(format, e.attrs, PathOf(list), gone) \o members
                  ELSE Nest(format, e.name, members), gone)
  BY <1>1, WrappedAppend
<1> QED
  BY <1>1, <1>2 DEF e

(* The prefix, and then anything, is what the rules put around it, and the *)
(* groups of a handler are those of its logger.                            *)
PrettyInv ==
  /\ steps \in Seq(AllSteps)
  /\ pretty \in [options : Options, groups : Paths, prefix : Seq(Items)]
  /\ pretty.groups = PathOf(steps)
  /\ \A x \in Seq(Seq(Items)) :
       /\ Wrapped("pretty", steps, x, removed) \in Seq(Seq(Items))
       /\ FlattenSeq(Wrapped("pretty", steps, x, removed))
            = pretty.prefix \o FlattenSeq(x)

LEMMA OptionsRemove ==
  ASSUME NEW o \in Options
  PROVE  /\ o.removed = removed
         /\ \A key : (o.transforms /\ <<<<>>, key>> \in o.removed)
                       <=> <<<<>>, key>> \in removed
BY DEF Options

LEMMA PrettyInvInit == LoggerInit => PrettyInv
<1> SUFFICES ASSUME LoggerInit PROVE PrettyInv
  OBVIOUS
<1>1. steps = <<>>
  BY DEF LoggerInit
<1>2. PICK options \in Options : pretty = Pretty!NewHandler(options)
  BY DEF LoggerInit
<1>3. pretty = [options |-> options, groups |-> <<>>, prefix |-> <<>>]
  BY <1>2 DEF Pretty!NewHandler
<1>4. pretty \in [options : Options, groups : Paths, prefix : Seq(Items)]
  <2>1. <<>> \in Paths /\ <<>> \in Seq(Items)
    BY DEF Paths
  <2> QED
    BY <1>2, <1>3, <2>1
<1>5. pretty.groups = PathOf(steps)
  BY <1>1, <1>3, PathNone
<1>6. ASSUME NEW x \in Seq(Seq(Items))
      PROVE  /\ Wrapped("pretty", steps, x, removed) = x
             /\ pretty.prefix \o FlattenSeq(x) = FlattenSeq(x)
  <2>1. FlattenSeq(x) \in Seq(Items)
    BY FlattenType
  <2>2. <<>> \o FlattenSeq(x) = FlattenSeq(x)
    BY <2>1, ConcatEmptySeq
  <2> QED
    BY <1>1, <1>3, <2>2, WrappedNone
<1> QED
  BY <1>1, <1>4, <1>5, <1>6 DEF PrettyInv

(* What AppendAttrs appends.                                               *)
LEMMA AppendAttrsIs ==
  ASSUME PrettyInv, NEW attrs \in Seq(Attrs)
  PROVE  /\ Kept("pretty", attrs, PathOf(steps), removed) \in Seq(Seq(Items))
         /\ Pretty!AppendAttrs(pretty, attrs)
              = FlattenSeq(Kept("pretty", attrs, PathOf(steps), removed))
<1> DEFINE p == PathOf(steps)
           gone == pretty.options.removed
<1>1. pretty.groups = p /\ p \in Paths /\ pretty.options \in Options
  BY PathType DEF PrettyInv
<1>2. gone = removed
  BY <1>1, OptionsRemove
<1>3. /\ Kept("pretty", attrs, p, gone) \in Seq(Seq(Items))
      /\ FlattenSeq(Kept("pretty", attrs, p, gone))
           = FlattenSeq([i \in DOMAIN attrs |-> ItemsOf(gone)[attrs[i]][p]])
  BY <1>1, ItemsOfList
<1>4. ASSUME NEW i \in DOMAIN attrs
      PROVE  Pretty!AppendAttr(gone)[attrs[i]] = ItemsOf(gone)[attrs[i]]
  <2>1. attrs[i] \in Attrs
    OBVIOUS
  <2> QED
    BY <2>1, AppendAttrIs
<1>5. [i \in DOMAIN attrs |-> Pretty!AppendAttr(gone)[attrs[i]][p]]
        = [i \in DOMAIN attrs |-> ItemsOf(gone)[attrs[i]][p]]
  BY <1>4
<1>6. Pretty!AppendAttrs(pretty, attrs)
        = FlattenSeq([i \in DOMAIN attrs |-> Pretty!AppendAttr(gone)[attrs[i]][p]])
  BY <1>1, SamePrettyFlatten DEF Pretty!AppendAttrs
<1> QED
  BY <1>2, <1>3, <1>5, <1>6

LEMMA PrettyInvWith ==
  ASSUME PrettyInv, NEW attrs \in AttrLists, With(attrs)
  PROVE  PrettyInv'
<1> DEFINE st == AttrStep(attrs)
           own == Kept("pretty", attrs, PathOf(steps), removed)
           text == Pretty!AppendAttrs(pretty, attrs)
<1>1. /\ steps \in Seq(AllSteps) /\ steps' = Append(steps, st) /\ st \in AllSteps
      /\ pretty' = Pretty!WithAttrs(pretty, attrs) /\ removed' = removed
      /\ pretty \in [options : Options, groups : Paths, prefix : Seq(Items)]
      /\ pretty.groups = PathOf(steps)
  BY DEF PrettyInv, With, AllSteps
<1>2. attrs \in Seq(Attrs) /\ st.kind = "attrs" /\ st.attrs = attrs
  BY RenderingAssumption DEF AttrStep
<1>3. own \in Seq(Seq(Items)) /\ text = FlattenSeq(own)
  BY <1>2, AppendAttrsIs
<1>4. text \in Seq(Items)
  <2> HIDE DEF own, text
  <2> QED
    BY <1>3, FlattenType
<1>5. pretty' = [pretty EXCEPT !.prefix = @ \o text]
  BY <1>1 DEF Pretty!WithAttrs
<1>6. Options' = Options
  BY <1>1 DEF Options
<1>7. /\ pretty' \in [options : Options', groups : Paths, prefix : Seq(Items)]
      /\ pretty'.groups = pretty.groups /\ pretty'.prefix = pretty.prefix \o text
  <2> DEFINE prefix == pretty.prefix \o text
             all == Seq(Items)
  <2>1. pretty.prefix \in Seq(Items)
    BY <1>1
  <2>2. prefix \in all
    <3> HIDE DEF text
    <3> QED
      BY <1>4, <2>1
  <2>3. pretty' = [pretty EXCEPT !.prefix = prefix]
    BY <1>5
  <2> HIDE DEF prefix, all
  <2>4. pretty \in [options : Options, groups : Paths, prefix : all]
    BY <1>1 DEF all
  <2>5. /\ pretty' \in [options : Options, groups : Paths, prefix : all]
        /\ pretty'.groups = pretty.groups /\ pretty'.prefix = prefix
    BY <2>2, <2>3, <2>4
  <2> QED
    BY <1>6, <2>5 DEF prefix, all
<1>8. steps' \in Seq(AllSteps) /\ PathOf(steps') = PathOf(steps)
  <2>1. st.kind # "group"
    BY <1>2
  <2> HIDE DEF st
  <2> QED
    BY <1>1, <2>1, PathAppend
<1> HIDE DEF st, own, text
<1>9. ASSUME NEW x \in Seq(Seq(Items))
      PROVE  /\ Wrapped("pretty", steps', x, removed') \in Seq(Seq(Items))
             /\ FlattenSeq(Wrapped("pretty", steps', x, removed'))
                  = pretty'.prefix \o FlattenSeq(x)
  <2> DEFINE y == own \o x
             all == Seq(Items)
  <2>1. y \in Seq(all)
    <3> HIDE DEF all
    <3> QED
      BY <1>3 DEF all
  <2>2. Wrapped("pretty", steps', x, removed') = Wrapped("pretty", steps, y, removed)
    BY <1>1, WrappedAttrs DEF own, st
  <2>3. FlattenSeq(y) = text \o FlattenSeq(x)
    BY <1>3, FlattenConcat
  <2> DEFINE f == FlattenSeq(x)
  <2>4. f \in Seq(Items)
    BY FlattenType
  <2> HIDE DEF y, all, f
  <2>5. /\ Wrapped("pretty", steps, y, removed) \in Seq(Seq(Items))
        /\ FlattenSeq(Wrapped("pretty", steps, y, removed)) = pretty.prefix \o FlattenSeq(y)
    BY <2>1 DEF PrettyInv, all
  <2> DEFINE prefix == pretty.prefix
  <2>6. prefix \in Seq(Items)
    BY <1>1
  <2> HIDE DEF prefix
  <2>7. (prefix \o text) \o f = prefix \o (text \o f)
    BY <1>4, <2>4, <2>6, ConcatAssociative
  <2> QED
    BY <1>7, <2>2, <2>3, <2>5, <2>7 DEF f, prefix
<1> QED
  BY <1>1, <1>7, <1>8, <1>9 DEF PrettyInv

LEMMA PrettyInvWithGroup ==
  ASSUME PrettyInv, NEW name \in Names, WithGroup(name)
  PROVE  PrettyInv'
<1> DEFINE st == GroupStep(name)
<1>1. /\ steps \in Seq(AllSteps) /\ steps' = Append(steps, st) /\ st \in AllSteps
      /\ pretty' = Pretty!WithGroup(pretty, name) /\ removed' = removed
      /\ pretty \in [options : Options, groups : Paths, prefix : Seq(Items)]
      /\ pretty.groups = PathOf(steps)
      /\ st.kind = "group" /\ st.kind # "attrs" /\ st.name = name
  BY DEF PrettyInv, WithGroup, AllSteps, GroupStep
<1>2. name \in STRING \cup {NoKey}
  BY RenderingAssumption
<1>3. Options' = Options
  BY <1>1 DEF Options
<1>4. pretty' = [pretty EXCEPT !.groups = In(@, name)]
  <2>1. pretty' = IF name = NoKey THEN pretty ELSE [pretty EXCEPT !.groups = Append(@, name)]
    BY <1>1 DEF Pretty!WithGroup
  <2>2. pretty = [pretty EXCEPT !.groups = pretty.groups]
    BY <1>1
  <2> QED
    BY <2>1, <2>2 DEF In
<1> HIDE DEF st
<1>5. steps' \in Seq(AllSteps) /\ PathOf(steps') = In(PathOf(steps), name)
  BY <1>1, PathAppend
<1>6. In(pretty.groups, name) \in Paths
  BY <1>1, <1>2, InPaths
<1>7. /\ pretty' \in [options : Options', groups : Paths, prefix : Seq(Items)]
      /\ pretty'.groups = PathOf(steps') /\ pretty'.prefix = pretty.prefix
  BY <1>1, <1>3, <1>4, <1>5, <1>6
<1>8. ASSUME NEW x \in Seq(Seq(Items))
      PROVE  /\ Wrapped("pretty", steps', x, removed') \in Seq(Seq(Items))
             /\ FlattenSeq(Wrapped("pretty", steps', x, removed'))
                  = pretty'.prefix \o FlattenSeq(x)
  <2> DEFINE y == Nest("pretty", name, x)
  <2>1. y \in Seq(Seq(Items)) /\ FlattenSeq(y) = FlattenSeq(x)
    BY PrettyNest
  <2>2. Wrapped("pretty", Append(steps, st), x, removed) = Wrapped("pretty", steps, y, removed)
    BY <1>1, WrappedGroup DEF st
  <2> HIDE DEF y
  <2>3. /\ Wrapped("pretty", steps, y, removed) \in Seq(Seq(Items))
        /\ FlattenSeq(Wrapped("pretty", steps, y, removed)) = pretty.prefix \o FlattenSeq(y)
    BY <2>1 DEF PrettyInv
  <2> QED
    BY <1>1, <1>7, <2>1, <2>2, <2>3
<1> QED
  BY <1>5, <1>7, <1>8 DEF PrettyInv

(* What is built in is shown unless it is removed.                         *)
LEMMA PrettyBuiltins ==
  ASSUME NEW o \in Options
  PROVE  /\ Pretty!Builtins(o, record) = PrettyItems(o)
         /\ \E R : Pretty!Builtins(o, record) \in Seq(R)
<1> DEFINE Item(key, val, is) ==
             IF is /\ <<<<>>, key>> \notin o.removed THEN <<<<<<>>, key, val>>>> ELSE <<>>
<1>1. ASSUME NEW key, NEW val
      PROVE  Pretty!AppendBuiltin(o, key, val) = Item(key, val, TRUE)
  <2>1. Pretty!AppendBuiltin(o, key, val)
          = IF o.transforms /\ <<<<>>, key>> \in o.removed THEN <<>>
            ELSE <<<<<<>>, key, val>>>>
    BY DEF Pretty!AppendBuiltin
  <2>2. (o.transforms /\ <<<<>>, key>> \in o.removed) <=> <<<<>>, key>> \in o.removed
    BY OptionsRemove
  <2> QED
    BY <2>1, <2>2
<1>2. Pretty!LevelName(record.level) = LevelName(record.level)
  BY DEF Pretty!LevelName, LevelName, Pretty!SlogString, SlogString, Pretty!Text, Text,
         Pretty!LevelFatal, LevelFatal, Pretty!LevelSuccess, LevelSuccess,
         Pretty!LevelTrace, LevelTrace, Pretty!LevelDebug, LevelDebug,
         Pretty!LevelInfo, LevelInfo, Pretty!LevelWarn, LevelWarn,
         Pretty!LevelError, LevelError
<1>3. /\ (IF record.time THEN Pretty!AppendBuiltin(o, "time", Pretty!TimeVal) ELSE <<>>)
           = Item("time", Pretty!TimeVal, record.time)
      /\ Pretty!AppendBuiltin(o, "level", Pretty!LevelName(record.level))
           = Item("level", LevelName(record.level), TRUE)
      /\ (IF o.addSource /\ record.pc
          THEN Pretty!AppendBuiltin(o, "source", Pretty!SourceVal) ELSE <<>>)
           = Item("source", Pretty!SourceVal, o.addSource /\ record.pc)
      /\ Pretty!AppendBuiltin(o, "msg", Pretty!MessageVal)
           = Item("msg", Pretty!MessageVal, TRUE)
  BY <1>1, <1>2
<1>4. Pretty!Builtins(o, record)
        = Item("time", Pretty!TimeVal, record.time)
            \o Item("level", LevelName(record.level), TRUE)
            \o Item("source", Pretty!SourceVal, o.addSource /\ record.pc)
            \o Item("msg", Pretty!MessageVal, TRUE)
  <2> HIDE DEF Item
  <2> QED
    BY <1>3 DEF Pretty!Builtins
<1> DEFINE a == <<<<>>, "time", Pretty!TimeVal>>
           b == <<<<>>, "level", LevelName(record.level)>>
           c == <<<<>>, "source", Pretty!SourceVal>>
           d == <<<<>>, "msg", Pretty!MessageVal>>
           R == {a, b, c, d}
<1>5. /\ Item("time", Pretty!TimeVal, record.time) \in {<<>>, <<a>>}
      /\ Item("level", LevelName(record.level), TRUE) \in {<<>>, <<b>>}
      /\ Item("source", Pretty!SourceVal, o.addSource /\ record.pc) \in {<<>>, <<c>>}
      /\ Item("msg", Pretty!MessageVal, TRUE) \in {<<>>, <<d>>}
  OBVIOUS
<1>6. /\ {<<>>, <<a>>} \subseteq Seq(R) /\ {<<>>, <<b>>} \subseteq Seq(R)
      /\ {<<>>, <<c>>} \subseteq Seq(R) /\ {<<>>, <<d>>} \subseteq Seq(R)
  <2> HIDE DEF a, b, c, d
  <2> QED
    OBVIOUS
<1>7. Pretty!Builtins(o, record) \in Seq(R)
  <2> DEFINE time == Item("time", Pretty!TimeVal, record.time)
             level == Item("level", LevelName(record.level), TRUE)
             source == Item("source", Pretty!SourceVal, o.addSource /\ record.pc)
             msg == Item("msg", Pretty!MessageVal, TRUE)
  <2>1. time \in Seq(R) /\ level \in Seq(R) /\ source \in Seq(R) /\ msg \in Seq(R)
    <3> HIDE DEF Item, R, a, b, c, d
    <3> QED
      BY <1>5, <1>6
  <2> HIDE DEF R, time, level, source, msg
  <2>2. time \o level \o source \o msg \in Seq(R)
    BY <2>1
  <2> QED
    BY <1>4, <2>2 DEF time, level, source, msg
<1> QED
  BY <1>4, <1>7 DEF PrettyItems

(* A line is what is built in, the prefix and the attributes of the        *)
(* record.                                                                 *)
LEMMA PrettyInvShown == PrettyInv => PrettyTellsAll
<1> SUFFICES ASSUME PrettyInv, NEW attrs \in AttrLists
             PROVE  Pretty!Line(pretty, record, attrs)
                      = PrettyItems(pretty.options)
                          \o FlattenSeq(Tree("pretty", steps, attrs, removed))
  BY DEF PrettyTellsAll
<1> DEFINE own == Kept("pretty", attrs, PathOf(steps), removed)
           text == Pretty!AppendAttrs(pretty, attrs)
           front == Pretty!Builtins(pretty.options, record)
<1>1. attrs \in Seq(Attrs)
  BY RenderingAssumption
<1>2. own \in Seq(Seq(Items)) /\ text = FlattenSeq(own)
  BY <1>1, AppendAttrsIs
<1>3. front = PrettyItems(pretty.options) /\ \E R : front \in Seq(R)
  BY PrettyBuiltins DEF PrettyInv
<1>4. Pretty!Line(pretty, record, attrs) = front \o pretty.prefix \o text
  BY DEF Pretty!Line
<1>5. Tree("pretty", steps, attrs, removed) = Wrapped("pretty", steps, own, removed)
  BY DEF Tree
<1> HIDE DEF own, text, front
<1>6. FlattenSeq(Wrapped("pretty", steps, own, removed)) = pretty.prefix \o text
  BY <1>2 DEF PrettyInv
<1>7. (front \o pretty.prefix) \o text = front \o (pretty.prefix \o text)
  <2>1. PICK R : front \in Seq(R)
    BY <1>3
  <2> DEFINE S == R \cup Items
             prefix == pretty.prefix
  <2>2. prefix \in Seq(Items) /\ text \in Seq(Items)
    <3>1. FlattenSeq(own) \in Seq(Items)
      BY <1>2, FlattenType
    <3> QED
      BY <1>2, <3>1 DEF PrettyInv
  <2> HIDE DEF prefix
  <2>3. front \in Seq(S) /\ prefix \in Seq(S) /\ text \in Seq(S)
    BY <2>1, <2>2
  <2> HIDE DEF S
  <2>4. (front \o prefix) \o text = front \o (prefix \o text)
    BY <2>3, ConcatAssociative
  <2> QED
    BY <2>4 DEF prefix
<1> QED
  BY <1>3, <1>4, <1>5, <1>6, <1>7

(* Every pretty line is what is built in, and then each attribute that is  *)
(* kept, once and in order, with the groups it is in.                      *)
THEOREM PrettyLinesTellAll == LoggerSpec => []PrettyTellsAll
<1>1. PrettyInv /\ [LoggerNext]_loggerVars => PrettyInv'
  <2> SUFFICES ASSUME PrettyInv, [LoggerNext]_loggerVars PROVE PrettyInv'
    OBVIOUS
  <2>1. CASE UNCHANGED loggerVars
    BY <2>1 DEF loggerVars, PrettyInv, Options
  <2>2. CASE LoggerNext
    BY <2>2, PrettyInvWith, PrettyInvWithGroup DEF LoggerNext
  <2> QED
    BY <2>1, <2>2
<1> QED
  BY <1>1, PrettyInvInit, PrettyInvShown, PTL DEF LoggerSpec
-----------------------------------------------------------------------------
(* Members of an object, with commas between them.                         *)
LEMMA Assoc ==
  \A S0 : \A s1, s2, s3 \in Seq(S0) : (s1 \o s2) \o s3 = s1 \o (s2 \o s3)
BY ConcatAssociative

(* The tokens of members with the commas between them.                     *)
Separated(members) ==
  [i \in DOMAIN members |->
     IF i = 1 THEN members[i] ELSE <<CommaTok>> \o members[i]]

LEMMA SeparatedAppend ==
  ASSUME NEW S, CommaTok \in S, NEW list \in Seq(Seq(S)), NEW m \in Seq(S)
  PROVE  /\ Separated(list) \in Seq(Seq(S))
         /\ Separated(Append(list, m))
              = Append(Separated(list), IF list = <<>> THEN m ELSE <<CommaTok>> \o m)
<1> DEFINE all == Seq(S)
           N == Len(list)
           t == Append(list, m)
           Part(i, x) == IF i = 1 THEN x ELSE <<CommaTok>> \o x
           a == [i \in DOMAIN list |-> Part(i, list[i])]
           b == [i \in DOMAIN t |-> Part(i, t[i])]
           last == Part(N + 1, m)
           c == Append(a, last)
<1>1. /\ list \in Seq(all) /\ m \in all /\ N \in Nat /\ DOMAIN list = 1..N
      /\ t \in Seq(all) /\ Len(t) = N + 1 /\ DOMAIN t = 1..(N + 1)
      /\ t[N + 1] = m /\ \A i \in 1..N : t[i] = list[i] /\ list[i] \in all
  <2> HIDE DEF all
  <2>1. m \in all
    BY DEF all
  <2>2. list \in Seq(all)
    BY DEF all
  <2>3. t \in Seq(all) /\ Len(t) = N + 1
    BY <2>1, <2>2, AppendProperties
  <2>4. DOMAIN t = 1..(N + 1)
    <3> HIDE DEF t
    <3> QED
      BY <2>3, LenProperties
  <2> QED
    BY <2>1, <2>2, <2>3, <2>4, AppendProperties
<1>2. ASSUME NEW i, NEW x \in all PROVE Part(i, x) \in all
  <2>1. <<CommaTok>> \in Seq(S)
    OBVIOUS
  <2>2. <<CommaTok>> \o x \in Seq(S)
    BY <2>1
  <2> QED
    BY <2>2
<1> HIDE DEF all, Part
<1>3. a \in Seq(all) /\ Len(a) = N
  <2> HIDE DEF N
  <2> QED
    BY <1>1, <1>2
<1>4. b \in Seq(all) /\ Len(b) = N + 1
  <2>1. \A i \in 1..(N + 1) : t[i] \in all
    <3> HIDE DEF t
    <3> QED
      BY <1>1
  <2> HIDE DEF t, N
  <2> QED
    BY <1>1, <1>2, <2>1, SMTT(30)
<1>5. last \in all
  BY <1>1, <1>2
<1>6. /\ c \in Seq(all) /\ Len(c) = N + 1 /\ c[N + 1] = last
      /\ \A i \in 1..N : c[i] = a[i]
  <2> HIDE DEF a, N, last
  <2> QED
    BY <1>3, <1>5, AppendProperties
<1>7. ASSUME NEW i \in 1..(N + 1) PROVE b[i] = c[i]
  <2>1. b[i] = Part(i, t[i])
    <3> HIDE DEF t, N
    <3> QED
      BY <1>1
  <2>2. CASE i = N + 1
    <3> HIDE DEF t, a, b, c
    <3> QED
      BY <1>1, <1>6, <2>1, <2>2
  <2>3. CASE i # N + 1
    <3>1. i \in 1..N
      BY <1>1, <2>3
    <3>2. a[i] = Part(i, list[i])
      BY <1>1, <3>1
    <3> HIDE DEF t, a, b, c
    <3> QED
      BY <1>1, <1>6, <2>1, <3>1, <3>2
  <2> QED
    BY <2>2, <2>3
<1>8. b = c
  <2> HIDE DEF a, b, c, N
  <2> QED
    BY <1>4, <1>6, <1>7, SeqEqual
<1>9. a = Separated(list) /\ b = Separated(t)
  BY DEF Separated, Part
<1>10. last = IF list = <<>> THEN m ELSE <<CommaTok>> \o m
  <2>1. N + 1 = 1 <=> list = <<>>
    BY <1>1
  <2> QED
    BY <2>1 DEF Part
<1> QED
  BY <1>3, <1>8, <1>9, <1>10 DEF all

LEMMA JsonTextNone == JsonText(<<>>) = <<>>
<1>1. Separated(<<>>) = <<>>
  BY DEF Separated
<1> QED
  BY <1>1, FlattenNone DEF JsonText, Separated

LEMMA JsonTextType ==
  ASSUME NEW S, CommaTok \in S, NEW list \in Seq(Seq(S))
  PROVE  JsonText(list) \in Seq(S)
<1>1. <<>> \in Seq(S)
  OBVIOUS
<1>2. Separated(list) \in Seq(Seq(S))
  BY <1>1, SeparatedAppend
<1>3. FlattenSeq(Separated(list)) \in Seq(S)
  BY <1>2, FlattenType
<1> QED
  BY <1>3 DEF JsonText, Separated

LEMMA JsonTextAppend ==
  ASSUME NEW S, CommaTok \in S, NEW list \in Seq(Seq(S)), NEW m \in Seq(S)
  PROVE  JsonText(Append(list, m))
           = IF list = <<>> THEN m ELSE JsonText(list) \o (<<CommaTok>> \o m)
<1> DEFINE x == Separated(list)
           y == IF list = <<>> THEN m ELSE <<CommaTok>> \o m
<1>1. x \in Seq(Seq(S)) /\ Separated(Append(list, m)) = Append(x, y)
  BY SeparatedAppend
<1>2. y \in Seq(S)
  <2>1. <<CommaTok>> \in Seq(S)
    OBVIOUS
  <2>2. <<CommaTok>> \o m \in Seq(S)
    BY <2>1
  <2> QED
    BY <2>2
<1>3. JsonText(list) = FlattenSeq(x) /\ JsonText(Append(list, m)) = FlattenSeq(Append(x, y))
  BY <1>1 DEF JsonText, Separated
<1> HIDE DEF x, y
<1>4. FlattenSeq(Append(x, y)) = FlattenSeq(x) \o y
  BY <1>1, <1>2, FlattenAppend
<1>5. CASE list = <<>>
  <2>1. FlattenSeq(x) = <<>> /\ y = m
    BY <1>3, <1>5, JsonTextNone DEF y
  <2>2. <<>> \o m = m
    BY ConcatEmptySeq
  <2> QED
    BY <1>3, <1>4, <1>5, <2>1, <2>2
<1>6. CASE list # <<>>
  BY <1>3, <1>4, <1>6 DEF y
<1> QED
  BY <1>5, <1>6

LEMMA JsonTextOne ==
  ASSUME NEW S, CommaTok \in S, NEW m \in Seq(S)
  PROVE  JsonText(<<m>>) = m
<1> DEFINE none == <<>>
<1>1. none \in Seq(Seq(S)) /\ Append(none, m) = <<m>> /\ none = <<>>
  OBVIOUS
<1> HIDE DEF none
<1>2. JsonText(Append(none, m)) = m
  BY <1>1, JsonTextAppend
<1> QED
  BY <1>1, <1>2

LEMMA JsonTextConcat ==
  ASSUME NEW S, CommaTok \in S, NEW s \in Seq(Seq(S)), NEW t \in Seq(Seq(S))
  PROVE  s # <<>> /\ t # <<>> =>
           JsonText(s \o t) = JsonText(s) \o (<<CommaTok>> \o JsonText(t))
<1>7. \A a, b, c \in Seq(S) : (a \o b) \o c = a \o (b \o c)
  BY Assoc, SMTT(30)
<1>8. SUFFICES ASSUME s # <<>>, t # <<>>
               PROVE  JsonText(s \o t) = JsonText(s) \o (<<CommaTok>> \o JsonText(t))
  OBVIOUS
<1> DEFINE all == Seq(S)
           comma == <<CommaTok>>
           T == {u \in Seq(all) : u = <<>> \/ JsonText(s \o u) = JsonText(s) \o (comma \o JsonText(u))}
<1>1. s \in Seq(all) /\ t \in Seq(all) /\ comma \in Seq(S)
  OBVIOUS
<1>2. ASSUME NEW u \in Seq(all) PROVE JsonText(u) \in Seq(S)
  BY JsonTextType
<1>3. ASSUME NEW u \in Seq(all), NEW e \in all
      PROVE  JsonText(Append(u, e)) = IF u = <<>> THEN e ELSE JsonText(u) \o (comma \o e)
  BY JsonTextAppend
<1>4. <<>> \in T
  OBVIOUS
<1>5. ASSUME NEW u \in Seq(all), NEW e \in all, u \in T PROVE Append(u, e) \in T
  <2> DEFINE x == JsonText(s)
             y == JsonText(u)
  <2>1. x \in Seq(S) /\ y \in Seq(S) /\ e \in Seq(S)
    BY <1>1, <1>2
  <2>2. s \o Append(u, e) = Append(s \o u, e) /\ s \o u \in Seq(all) /\ s \o u # <<>>
    <3> HIDE DEF all
    <3> QED
      BY <1>1, <1>8
  <2>3. Append(u, e) \in Seq(all)
    <3> HIDE DEF all
    <3> QED
      OBVIOUS
  <2>4. JsonText(s \o Append(u, e)) = JsonText(s \o u) \o (comma \o e)
    BY <1>3, <2>2
  <2>5. CASE u = <<>>
    <3>1. s \o u = s
      BY <1>1, <2>5
    <3>2. JsonText(Append(u, e)) = e
      BY <1>3, <2>5
    <3> QED
      BY <2>3, <2>4, <3>1, <3>2
  <2>6. CASE u # <<>>
    <3>1. JsonText(s \o u) = x \o (comma \o y)
      BY <1>5, <2>6
    <3>2. JsonText(Append(u, e)) = y \o (comma \o e)
      BY <1>3, <2>6
    <3> HIDE DEF x, y, comma
    <3> DEFINE ce == comma \o e
               cy == comma \o y
    <3>3. ce \in Seq(S) /\ cy \in Seq(S)
      BY <1>1, <2>1
    <3>4. comma \in Seq(S) /\ y \in Seq(S) /\ x \in Seq(S)
      BY <1>1, <2>1
    <3> HIDE DEF cy, ce
    <3>5. (comma \o y) \o ce = comma \o (y \o ce)
      BY <1>7, <3>3, <3>4, SMTT(30)
    <3>6. (x \o cy) \o ce = x \o (cy \o ce)
      BY <1>7, <3>3, <3>4, SMTT(30)
    <3> QED
      BY <2>3, <2>4, <3>1, <3>2, <3>5, <3>6 DEF x, cy, ce
  <2> QED
    BY <2>5, <2>6
<1>6. Seq(all) \subseteq T
  <2> HIDE DEF T, all
  <2> QED
    BY <1>4, <1>5, SeqInduction
<1> QED
  BY <1>1, <1>6, <1>8
-----------------------------------------------------------------------------
(* Tokens of JSON.                                                         *)
Toks == Json!Tokens

LEMMA SameTokens ==
  /\ Json!BraceTok = BraceTok /\ Json!CloseTok = CloseTok /\ Json!CommaTok = CommaTok
  /\ \A k : Json!KeyTok(k) = KeyTok(k)
  /\ \A v : Json!ValTok(v) = ValTok(v)
  /\ \A l : Json!LevelTok(l) = LevelTok(l)
  /\ Json!Paths = Paths
BY DEF Json!BraceTok, BraceTok, Json!CloseTok, CloseTok, Json!CommaTok, CommaTok,
       Json!KeyTok, KeyTok, Json!ValTok, ValTok, Json!LevelTok, LevelTok,
       Json!Paths, Paths

LEMMA PunctuationTokens ==
  /\ BraceTok \in Toks /\ CloseTok \in Toks /\ CommaTok \in Toks
  /\ CloseTok # BraceTok
BY DEF Toks, Json!Tokens, BraceTok, CloseTok, CommaTok

LEMMA KeyToken ==
  ASSUME NEW k \in STRING
  PROVE  KeyTok(k) \in Toks /\ KeyTok(k) # BraceTok
<1>1. KeyTok(k).tok = "key" /\ BraceTok.tok = "{"
  BY DEF KeyTok, BraceTok
<1>2. KeyTok(k) \in [tok : {"key"}, key : STRING]
  BY DEF KeyTok
<1> QED
  BY <1>1, <1>2 DEF Toks, Json!Tokens

LEMMA ValToken ==
  ASSUME NEW v \in STRING
  PROVE  ValTok(v) \in Toks /\ ValTok(v) # BraceTok
<1>1. ValTok(v).tok = "val" /\ BraceTok.tok = "{"
  BY DEF ValTok, BraceTok
<1>2. ValTok(v) \in [tok : {"val"}, val : STRING]
  BY DEF ValTok
<1> QED
  BY <1>1, <1>2 DEF Toks, Json!Tokens

LEMMA LevelTokenType ==
  ASSUME NEW l \in [name : STRING, offset : Int]
  PROVE  LevelTok(l) \in Toks /\ LevelTok(l) # BraceTok
<1>1. LevelTok(l).tok = "level" /\ BraceTok.tok = "{"
  BY DEF LevelTok, BraceTok
<1>2. LevelTok(l) \in [tok : {"level"}, level : [name : STRING, offset : Int]]
  BY DEF LevelTok
<1> QED
  BY <1>1, <1>2 DEF Toks, Json!Tokens

(* Texts that are not empty and do not end with an opening brace.          *)
Ended == {m \in Seq(Toks) : m # <<>> /\ m[Len(m)] # BraceTok}

LEMMA EndedConcat ==
  ASSUME NEW x \in Seq(Toks), NEW y \in Ended
  PROVE  x \o y \in Ended
<1>1. y \in Seq(Toks) /\ y # <<>> /\ y[Len(y)] # BraceTok
  BY DEF Ended
<1>2. /\ x \o y \in Seq(Toks) /\ Len(x \o y) = Len(x) + Len(y)
      /\ \A i \in 1..(Len(x) + Len(y)) :
           (x \o y)[i] = IF i <= Len(x) THEN x[i] ELSE y[i - Len(x)]
  BY <1>1, ConcatProperties
<1>3. Len(x) \in Nat /\ Len(y) \in Nat /\ Len(y) # 0
  BY <1>1
<1> DEFINE z == x \o y
<1> HIDE DEF z
<1>4. z[Len(z)] = y[Len(y)]
  <2>1. Len(x) + Len(y) \in 1..(Len(x) + Len(y)) /\ ~(Len(x) + Len(y) <= Len(x))
        /\ (Len(x) + Len(y)) - Len(x) = Len(y)
    BY <1>3
  <2> QED
    BY <1>2, <2>1 DEF z
<1>5. z # <<>>
  BY <1>2, <1>3 DEF z
<1> QED
  BY <1>1, <1>2, <1>4, <1>5 DEF Ended, z

LEMMA EndedOne ==
  ASSUME NEW t \in Toks, t # BraceTok
  PROVE  <<t>> \in Ended
<1>1. <<t>> \in Seq(Toks) /\ Len(<<t>>) = 1 /\ <<t>>[1] = t /\ <<t>> # <<>>
  OBVIOUS
<1> QED
  BY <1>1 DEF Ended

LEMMA EndedType ==
  /\ Ended \subseteq Seq(Toks)
  /\ Seq(Ended) \subseteq Seq(Seq(Toks))
<1>1. Ended \subseteq Seq(Toks)
  BY DEF Ended
<1> DEFINE all == Seq(Toks)
<1> HIDE DEF all
<1>2. Ended \subseteq all => Seq(Ended) \subseteq Seq(all)
  BY SeqMonotonic
<1> QED
  BY <1>1, <1>2 DEF all

LEMMA JsonTextEnded ==
  \A list \in Seq(Ended) : list # <<>> => JsonText(list) \in Ended
<1> DEFINE T == {list \in Seq(Ended) : list # <<>> => JsonText(list) \in Ended}
<1>1. <<>> \in T
  OBVIOUS
<1>2. ASSUME NEW list \in Seq(Ended), NEW m \in Ended, list \in T
      PROVE  Append(list, m) \in T
  <2>1. list \in Seq(Seq(Toks)) /\ m \in Seq(Toks) /\ CommaTok \in Toks
    BY EndedType, PunctuationTokens
  <2> DEFINE c == <<CommaTok>>
  <2>2. JsonText(Append(list, m)) = IF list = <<>> THEN m ELSE JsonText(list) \o (c \o m)
    BY <2>1, JsonTextAppend
  <2>3. c \in Seq(Toks)
    BY <2>1
  <2> HIDE DEF c
  <2>4. c \o m \in Ended
    BY <2>3, EndedConcat
  <2>5. JsonText(list) \in Seq(Toks)
    BY <2>1, JsonTextType
  <2>6. JsonText(list) \o (c \o m) \in Ended
    BY <2>4, <2>5, EndedConcat
  <2>7. Append(list, m) \in Seq(Ended)
    OBVIOUS
  <2> QED
    BY <2>2, <2>6, <2>7
<1>3. Seq(Ended) \subseteq T
  <2> HIDE DEF T
  <2> QED
    BY <1>1, <1>2, SeqInduction
<1> QED
  BY <1>3
-----------------------------------------------------------------------------
(* What the rules keep for JSON are texts of members.                      *)
LEMMA JsonLeaf ==
  ASSUME NEW a \in Attrs, a.kind = "leaf", NEW p \in Paths
  PROVE  /\ LeafIn("json", p, a) = <<KeyTok(a.key), ValTok(a.val)>>
         /\ LeafIn("json", p, a) \in Ended
<1>1. a.key \in STRING /\ a.val \in STRING
  BY AttrKinds
<1>2. LeafIn("json", p, a) = <<KeyTok(a.key), ValTok(a.val)>>
  BY DEF LeafIn
<1> DEFINE k == KeyTok(a.key)
           v == ValTok(a.val)
<1>3. k \in Toks /\ v \in Toks /\ v # BraceTok
  BY <1>1, KeyToken, ValToken
<1> HIDE DEF k, v
<1>4. <<k, v>> \in Seq(Toks) /\ Len(<<k, v>>) = 2 /\ <<k, v>>[2] = v /\ <<k, v>> # <<>>
  BY <1>3
<1>5. <<k, v>> \in Ended
  BY <1>3, <1>4 DEF Ended
<1> QED
  BY <1>2, <1>5 DEF k, v

LEMMA JsonGroup ==
  ASSUME NEW name \in STRING, NEW m \in Seq(Ended)
  PROVE  /\ GroupIn("json", name, m)
              = <<KeyTok(name)>> \o (<<BraceTok>> \o JsonText(m) \o <<CloseTok>>)
         /\ GroupIn("json", name, m) \in Ended
<1>1. GroupIn("json", name, m)
        = <<KeyTok(name)>> \o (<<BraceTok>> \o JsonText(m) \o <<CloseTok>>)
  BY DEF GroupIn, JsonObject
<1> DEFINE k == <<KeyTok(name)>>
           b == <<BraceTok>>
           c == <<CloseTok>>
           t == JsonText(m)
<1>2. k \in Seq(Toks) /\ b \in Seq(Toks)
  <2>1. KeyTok(name) \in Toks /\ BraceTok \in Toks
    BY KeyToken, PunctuationTokens
  <2>2. ASSUME NEW x \in Toks PROVE <<x>> \in Seq(Toks)
    OBVIOUS
  <2> QED
    BY <2>1, <2>2
<1>3. c \in Ended
  BY PunctuationTokens, EndedOne
<1>4. t \in Seq(Toks)
  BY EndedType, PunctuationTokens, JsonTextType
<1> HIDE DEF k, b, c, t
<1>5. b \o t \in Seq(Toks)
  BY <1>2, <1>4
<1>6. b \o t \o c \in Ended
  BY <1>3, <1>5, EndedConcat
<1>7. k \o (b \o t \o c) \in Ended
  BY <1>2, <1>6, EndedConcat
<1> QED
  BY <1>1, <1>7 DEF k, b, c, t

LEMMA JsonType ==
  ASSUME NEW gone
  PROVE  \A a \in Attrs, p \in Paths : KeptOf("json", gone)[a][p] \in Seq(Ended)
<1>1. \A a \in Attrs, p \in Paths :
           a.kind = "leaf" => <<p, a.key>> \in gone \/ LeafIn("json", p, a) \in Ended
  BY JsonLeaf
<1>2. ASSUME NEW a \in Attrs, NEW m \in Seq(Ended), a.kind = "group", a.key # NoKey
      PROVE  GroupIn("json", a.key, m) \in Ended
  <2>1. a.key \in STRING
    BY <1>2, AttrKinds
  <2> QED
    BY <2>1, JsonGroup
<1>3. \A a \in Attrs, p \in Paths :
           LET m == Kept("json", a.attrs, In(p, a.key), gone)
           IN  /\ a.kind = "group" /\ a.key # NoKey
               /\ m \in Seq(Ended) /\ m # <<>>
               => GroupIn("json", a.key, m) \in Ended
  BY <1>2
<1> QED
  BY <1>1, <1>3, KeptType

(* One turn of the recursion of appendAttr.                                *)
JsonTurn(o, append, a) ==
  [s \in Json!States(o) |->
     CASE a.kind = "empty" -> Json!Written(s, FALSE)
       [] a.kind = "leaf" -> Json!AppendLeaf(s, a)
       [] OTHER ->
            Json!AppendGroup(s, a.key, [i \in DOMAIN a.attrs |-> append[a.attrs[i]]])]

LEMMA JsonTurnSame ==
  ASSUME NEW o, NEW a \in Attrs, NEW f, NEW g,
         a.kind = "group" => \A i \in DOMAIN a.attrs : f[a.attrs[i]] = g[a.attrs[i]]
  PROVE  JsonTurn(o, f, a) = JsonTurn(o, g, a)
<1>1. CASE a.kind # "group"
  BY <1>1, AttrKinds DEF JsonTurn
<1>2. CASE a.kind = "group"
  <2>1. [i \in DOMAIN a.attrs |-> f[a.attrs[i]]] = [i \in DOMAIN a.attrs |-> g[a.attrs[i]]]
    BY <1>2
  <2> QED
    BY <1>2, <2>1 DEF JsonTurn
<1> QED
  BY <1>1, <1>2
-----------------------------------------------------------------------------
(* appendAttr is its recursive definition.                                 *)
LEMMA JsonIs ==
  ASSUME NEW o
  PROVE  Json!AppendAttr(o) = [a \in Attrs |-> JsonTurn(o, Json!AppendAttr(o), a)]
<1> DEFINE Turn(f, a) == JsonTurn(o, f, a)
           Below(n) == {a \in Attrs : Nesting[a] < n}
           Is(f, n) == f = [a \in Below(n) |-> Turn(f, a)]
<1>1. ASSUME NEW a \in Attrs, NEW f, NEW g,
             a.kind = "group" => \A i \in DOMAIN a.attrs : f[a.attrs[i]] = g[a.attrs[i]]
      PROVE  Turn(f, a) = Turn(g, a)
  BY <1>1, JsonTurnSame
<1> HIDE DEF Turn
<1>2. ASSUME NEW N \in Nat PROVE \E f : Is(f, N)
  <2> DEFINE S == {n \in 0..N : \E f : Is(f, n)}
  <2>1. 0 \in S
    <3>1. Below(0) = {}
      BY AttrAssumption
    <3>2. Is([a \in {} |-> {}], 0)
      BY <3>1
    <3> HIDE DEF Is
    <3> QED
      BY <3>2
  <2>2. ASSUME NEW n \in 1..N, n - 1 \in S PROVE n \in S
    <3>1. PICK f : Is(f, n - 1)
      BY <2>2
    <3> DEFINE g == [a \in Below(n) |-> Turn(f, a)]
    <3>2. ASSUME NEW a \in Below(n) PROVE Turn(f, a) = Turn(g, a)
      <4>1. ASSUME a.kind = "group", NEW i \in DOMAIN a.attrs
            PROVE  f[a.attrs[i]] = g[a.attrs[i]]
        <5>1. a.attrs[i] \in Below(n - 1) /\ a.attrs[i] \in Below(n)
          BY <4>1, AttrKinds, AttrAssumption
        <5> QED
          BY <3>1, <5>1
      <4> HIDE DEF g
      <4> QED
        BY <1>1, <4>1
    <3>3. Is(g, n)
      BY <3>2
    <3> HIDE DEF g, Is
    <3> QED
      BY <3>3
  <2>3. 0..N \subseteq S
    <3> HIDE DEF S
    <3> QED
      BY <2>1, <2>2, UpTo
  <2> QED
    BY <2>3
<1> DEFINE c == [n \in Nat |-> CHOOSE f : Is(f, n)]
<1>3. ASSUME NEW n \in Nat PROVE Is(c[n], n)
  <2> HIDE DEF Is
  <2> QED
    BY <1>2
<1>4. ASSUME NEW a \in Attrs, NEW n \in Nat, Nesting[a] < n
      PROVE  c[n][a] = Turn(c[n], a)
  <2> HIDE DEF c
  <2> QED
    BY <1>3, <1>4
<1>5. ASSUME NEW m \in Nat, NEW n \in Nat
      PROVE  \A a \in Attrs : Nesting[a] < m /\ Nesting[a] < n => c[m][a] = c[n][a]
  <2> DEFINE T == {a \in Attrs :
                     Nesting[a] < m /\ Nesting[a] < n => c[m][a] = c[n][a]}
  <2> HIDE DEF c
  <2>1. ASSUME NEW a \in Attrs,
               a.kind = "group" => \A i \in DOMAIN a.attrs : a.attrs[i] \in T
        PROVE  a \in T
    <3> SUFFICES ASSUME Nesting[a] < m, Nesting[a] < n PROVE c[m][a] = c[n][a]
      OBVIOUS
    <3>1. ASSUME a.kind = "group", NEW i \in DOMAIN a.attrs
          PROVE  c[m][a.attrs[i]] = c[n][a.attrs[i]]
      <4>1. Nesting[a.attrs[i]] < m /\ Nesting[a.attrs[i]] < n
        BY <3>1, AttrKinds, AttrAssumption
      <4> QED
        BY <2>1, <3>1, <4>1
    <3>2. Turn(c[m], a) = Turn(c[n], a)
      BY <1>1, <3>1
    <3> QED
      BY <1>4, <3>2
  <2>2. Attrs \subseteq T
    <3> HIDE DEF T
    <3> QED
      BY <2>1, AttrInduction
  <2> QED
    BY <2>2
<1> DEFINE k == [a \in Attrs |-> c[Nesting[a] + 1][a]]
<1>6. ASSUME NEW a \in Attrs PROVE k[a] = Turn(k, a)
  <2>1. Nesting[a] \in Nat /\ Nesting[a] + 1 \in Nat /\ Nesting[a] < Nesting[a] + 1
    BY AttrAssumption
  <2>2. k[a] = Turn(c[Nesting[a] + 1], a)
    <3> HIDE DEF c
    <3> QED
      BY <1>4, <2>1
  <2>3. ASSUME a.kind = "group", NEW i \in DOMAIN a.attrs
        PROVE  c[Nesting[a] + 1][a.attrs[i]] = k[a.attrs[i]]
    <3> DEFINE b == a.attrs[i]
    <3>1. b \in Attrs /\ Nesting[b] < Nesting[a] /\ Nesting[b] \in Nat
      BY <2>3, AttrKinds, AttrAssumption
    <3>2. Nesting[b] < Nesting[a] + 1 /\ Nesting[b] < Nesting[b] + 1 /\ Nesting[b] + 1 \in Nat
      BY <2>1, <3>1
    <3> HIDE DEF b, c
    <3>3. c[Nesting[a] + 1][b] = c[Nesting[b] + 1][b]
      BY <1>5, <2>1, <3>1, <3>2
    <3>4. k[b] = c[Nesting[b] + 1][b]
      BY <3>1
    <3> QED
      BY <3>3, <3>4 DEF b
  <2> HIDE DEF k, c
  <2>4. Turn(c[Nesting[a] + 1], a) = Turn(k, a)
    BY <1>1, <2>3
  <2> QED
    BY <2>2, <2>4
<1> DEFINE IsJson(f) == f = [a \in Attrs |-> Turn(f, a)]
<1>7. IsJson(k)
  <2>1. k = [a \in Attrs |-> k[a]]
    BY DEF k
  <2> HIDE DEF k
  <2> QED
    BY <1>6, <2>1
<1>8. Json!AppendAttr(o) = CHOOSE f : IsJson(f)
  BY DEF Json!AppendAttr, JsonTurn, Turn
<1> QED
  <2> HIDE DEF IsJson, k
  <2>1. IsJson(Json!AppendAttr(o))
    BY <1>7, <1>8
  <2> QED
    BY <2>1 DEF IsJson, Turn

LEMMA JsonAt ==
  ASSUME NEW o, NEW a \in Attrs
  PROVE  Json!AppendAttr(o)[a] = JsonTurn(o, Json!AppendAttr(o), a)
<1> DEFINE k == Json!AppendAttr(o)
<1>1. k = [b \in Attrs |-> JsonTurn(o, k, b)]
  BY JsonIs
<1> HIDE DEF k
<1>2. k[a] = JsonTurn(o, k, a)
  BY <1>1
<1> QED
  BY <1>2 DEF k

LEMMA JsonOfEmpty ==
  ASSUME NEW o, NEW a \in Attrs, NEW s \in Json!States(o), a.kind = "empty"
  PROVE  Json!AppendAttr(o)[a][s] = Json!Written(s, FALSE)
<1> DEFINE k == Json!AppendAttr(o)
<1>1. k[a] = JsonTurn(o, k, a)
  BY JsonAt
<1> HIDE DEF k
<1>2. JsonTurn(o, k, a)[s] = Json!Written(s, FALSE)
  BY DEF JsonTurn
<1> QED
  BY <1>1, <1>2 DEF k

LEMMA JsonOfLeaf ==
  ASSUME NEW o, NEW a \in Attrs, NEW s \in Json!States(o), a.kind = "leaf"
  PROVE  Json!AppendAttr(o)[a][s] = Json!AppendLeaf(s, a)
<1> DEFINE k == Json!AppendAttr(o)
<1>1. k[a] = JsonTurn(o, k, a)
  BY JsonAt
<1> HIDE DEF k
<1>2. JsonTurn(o, k, a)[s] = Json!AppendLeaf(s, a)
  BY DEF JsonTurn
<1> QED
  BY <1>1, <1>2 DEF k

LEMMA JsonOfGroup ==
  ASSUME NEW o, NEW a \in Attrs, NEW s \in Json!States(o), a.kind = "group"
  PROVE  Json!AppendAttr(o)[a][s] = Json!AppendGroup(s, a.key, Json!Calls(o, a.attrs))
<1> DEFINE k == Json!AppendAttr(o)
<1>1. k[a] = JsonTurn(o, k, a)
  BY JsonAt
<1>2. Json!Calls(o, a.attrs) = [i \in DOMAIN a.attrs |-> k[a.attrs[i]]]
  BY DEF Json!Calls
<1> HIDE DEF k
<1>3. JsonTurn(o, k, a)[s]
        = Json!AppendGroup(s, a.key, [i \in DOMAIN a.attrs |-> k[a.attrs[i]]])
  BY DEF JsonTurn
<1> QED
  BY <1>1, <1>2, <1>3 DEF k
-----------------------------------------------------------------------------
(* One call after another.                                                 *)
NextOf(call, last) ==
  LET next == call[last.s]
  IN  Json!Written(next.s, last.written \/ next.written)

(* The turns of the loop of AppendEach.                                    *)
AppendEachTurns(f, start, calls) ==
  /\ Json!AppendEach(start, calls) = f[Len(calls)]
  /\ f[0] = Json!Written(start, FALSE)
  /\ \A n \in 1..Len(calls) : f[n] = NextOf(calls[n], f[n - 1])

(* The loops are their recursive definitions.                              *)
LEMMA AppendEachLoop ==
  ASSUME NEW start, NEW calls, Len(calls) \in Nat
  PROVE  \E f : AppendEachTurns(f, start, calls)
<1> DEFINE N == Len(calls)
           Loop(f, n) == IF n = 0 THEN Json!Written(start, FALSE)
                         ELSE NextOf(calls[n], f[n - 1])
           Is(f, m) == f = [n \in 0..m |-> Loop(f, n)]
           S == {m \in 0..N : \E f : Is(f, m)}
<1>1. N \in Nat
  OBVIOUS
<1>2. \E f : Is(f, 0)
  <2>1. Is([n \in 0..0 |-> Json!Written(start, FALSE)], 0)
    OBVIOUS
  <2> QED
    BY <2>1
<1>3. ASSUME NEW m \in 1..N, NEW f, Is(f, m - 1) PROVE \E g : Is(g, m)
  <2> DEFINE g == [n \in 0..m |-> Loop(f, n)]
  <2>1. \A n \in 0..(m - 1) : f[n] = Loop(f, n)
    <3> HIDE DEF Loop
    <3> QED
      BY <1>3
  <2>2. \A n \in 0..(m - 1) : g[n] = f[n]
    <3>1. \A n \in 0..(m - 1) : n \in 0..m
      BY <1>3
    <3> HIDE DEF Loop
    <3> QED
      BY <2>1, <3>1
  <2>3. ASSUME NEW n \in 0..m PROVE Loop(g, n) = Loop(f, n)
    <3>1. CASE n = 0
      BY <3>1
    <3>2. CASE n # 0
      <4>1. n - 1 \in 0..(m - 1)
        BY <1>3, <3>2
      <4>2. g[n - 1] = f[n - 1]
        BY <2>2, <4>1
      <4> HIDE DEF g
      <4> QED
        BY <3>2, <4>2
    <3> QED
      BY <3>1, <3>2
  <2>4. g = [n \in 0..m |-> Loop(g, n)]
    <3> HIDE DEF Loop
    <3> QED
      BY <2>3
  <2> QED
    BY <2>4
<1> HIDE DEF Is
<1>4. 0..N \subseteq S
  <2>1. 0 \in S
    BY <1>1, <1>2
  <2>2. \A m \in 1..N : m - 1 \in S => m \in S
    BY <1>1, <1>3
  <2> HIDE DEF S
  <2> QED
    BY <1>1, <2>1, <2>2, UpTo
<1>5. \E f : Is(f, N)
  BY <1>1, <1>4
<1> DEFINE a == CHOOSE f : Is(f, N)
<1>6. Is(a, N)
  BY <1>5
<1>7. Json!AppendEach(start, calls) = a[N]
  BY DEF Json!AppendEach, NextOf, Is
<1> HIDE DEF a
<1>8. \A n \in 0..N : a[n] = Loop(a, n)
  <2> HIDE DEF Loop
  <2> QED
    BY <1>6 DEF Is
<1>9. a[0] = Json!Written(start, FALSE)
  <2>1. 0 \in 0..N
    BY <1>1
  <2> QED
    BY <1>8, <2>1
<1>10. ASSUME NEW n \in 1..N PROVE a[n] = NextOf(calls[n], a[n - 1])
  <2>1. n \in 0..N /\ n # 0
    BY <1>1
  <2> QED
    BY <1>8, <2>1
<1> QED
  BY <1>7, <1>9, <1>10 DEF AppendEachTurns

(* The turns of the loop of OpenGroups.                                    *)
OpenGroupsTurns(f, s, names) ==
  /\ Json!OpenGroups(s, names) = f[Len(names)]
  /\ f[0] = s
  /\ \A n \in 1..Len(names) : f[n] = Json!OpenGroup(f[n - 1], names[n])

LEMMA OpenGroupsLoop ==
  ASSUME NEW s, NEW names, Len(names) \in Nat
  PROVE  \E f : OpenGroupsTurns(f, s, names)
<1> DEFINE N == Len(names)
           Loop(f, n) == IF n = 0 THEN s
                         ELSE Json!OpenGroup(f[n - 1], names[n])
           Is(f, m) == f = [n \in 0..m |-> Loop(f, n)]
           S == {m \in 0..N : \E f : Is(f, m)}
<1>1. N \in Nat
  OBVIOUS
<1>2. \E f : Is(f, 0)
  <2>1. Is([n \in 0..0 |-> s], 0)
    OBVIOUS
  <2> QED
    BY <2>1
<1>3. ASSUME NEW m \in 1..N, NEW f, Is(f, m - 1) PROVE \E g : Is(g, m)
  <2> DEFINE g == [n \in 0..m |-> Loop(f, n)]
  <2>1. \A n \in 0..(m - 1) : f[n] = Loop(f, n)
    <3> HIDE DEF Loop
    <3> QED
      BY <1>3
  <2>2. \A n \in 0..(m - 1) : g[n] = f[n]
    <3>1. \A n \in 0..(m - 1) : n \in 0..m
      BY <1>3
    <3> HIDE DEF Loop
    <3> QED
      BY <2>1, <3>1
  <2>3. ASSUME NEW n \in 0..m PROVE Loop(g, n) = Loop(f, n)
    <3>1. CASE n = 0
      BY <3>1
    <3>2. CASE n # 0
      <4>1. n - 1 \in 0..(m - 1)
        BY <1>3, <3>2
      <4>2. g[n - 1] = f[n - 1]
        BY <2>2, <4>1
      <4> HIDE DEF g
      <4> QED
        BY <3>2, <4>2
    <3> QED
      BY <3>1, <3>2
  <2>4. g = [n \in 0..m |-> Loop(g, n)]
    <3> HIDE DEF Loop
    <3> QED
      BY <2>3
  <2> QED
    BY <2>4
<1> HIDE DEF Is
<1>4. 0..N \subseteq S
  <2>1. 0 \in S
    BY <1>1, <1>2
  <2>2. \A m \in 1..N : m - 1 \in S => m \in S
    BY <1>1, <1>3
  <2> HIDE DEF S
  <2> QED
    BY <1>1, <2>1, <2>2, UpTo
<1>5. \E f : Is(f, N)
  BY <1>1, <1>4
<1> DEFINE a == CHOOSE f : Is(f, N)
<1>6. Is(a, N)
  BY <1>5
<1>7. Json!OpenGroups(s, names) = a[N]
  BY DEF Json!OpenGroups, Is
<1> HIDE DEF a
<1>8. \A n \in 0..N : a[n] = Loop(a, n)
  <2> HIDE DEF Loop
  <2> QED
    BY <1>6 DEF Is
<1>9. a[0] = s
  <2>1. 0 \in 0..N
    BY <1>1
  <2> QED
    BY <1>8, <2>1
<1>10. ASSUME NEW n \in 1..N PROVE a[n] = Json!OpenGroup(a[n - 1], names[n])
  <2>1. n \in 0..N /\ n # 0
    BY <1>1
  <2> QED
    BY <1>8, <2>1
<1> QED
  BY <1>7, <1>9, <1>10 DEF OpenGroupsTurns
-----------------------------------------------------------------------------
(* What is written after a state: a comma if one is due, and members.      *)
Lead(sep) == IF sep THEN <<CommaTok>> ELSE <<>>

(* A state after members were written.                                     *)
After(s, m) ==
  IF m = <<>> THEN s
  ELSE [s EXCEPT !.buf = @ \o (Lead(s.sep) \o JsonText(m)), !.sep = TRUE]

LEMMA StatesAre ==
  ASSUME NEW o
  PROVE  Json!States(o)
           = [options : {o}, buf : Seq(Toks), sep : BOOLEAN, groups : Paths,
              track : BOOLEAN]
BY SameTokens DEF Json!States, Toks

LEMMA LeadType == \A sep \in BOOLEAN : Lead(sep) \in Seq(Toks)
BY PunctuationTokens DEF Lead

LEMMA TextType == \A m \in Seq(Ended) : JsonText(m) \in Seq(Toks)
<1> SUFFICES ASSUME NEW m \in Seq(Ended) PROVE JsonText(m) \in Seq(Toks)
  OBVIOUS
<1>1. m \in Seq(Seq(Toks)) /\ CommaTok \in Toks
  BY EndedType, PunctuationTokens
<1> QED
  BY <1>1, JsonTextType

LEMMA AfterType ==
  ASSUME NEW o, NEW s \in Json!States(o), NEW m \in Seq(Ended)
  PROVE  /\ After(s, m) \in Json!States(o)
         /\ After(s, m).options = s.options
         /\ After(s, m).groups = s.groups
         /\ After(s, m).track = s.track
         /\ After(s, m).sep = (s.sep \/ m # <<>>)
<1> DEFINE toks == Seq(Toks)
           text == s.buf \o (Lead(s.sep) \o JsonText(m))
<1>1. s \in [options : {o}, buf : toks, sep : BOOLEAN, groups : Paths, track : BOOLEAN]
  BY StatesAre
<1>2. s.buf \in Seq(Toks) /\ Lead(s.sep) \in Seq(Toks) /\ JsonText(m) \in Seq(Toks)
  BY <1>1, LeadType, TextType
<1>3. text \in toks
  <2> DEFINE x == s.buf
             y == Lead(s.sep)
             z == JsonText(m)
  <2>1. x \in toks /\ y \in toks /\ z \in toks
    BY <1>2
  <2> HIDE DEF x, y, z
  <2>2. x \o (y \o z) \in toks
    BY <2>1
  <2> QED
    BY <2>2 DEF x, y, z
<1>4. After(s, m) = IF m = <<>> THEN s ELSE [s EXCEPT !.buf = text, !.sep = TRUE]
  BY DEF After
<1> HIDE DEF text, toks
<1>5. /\ After(s, m) \in [options : {o}, buf : toks, sep : BOOLEAN, groups : Paths,
                          track : BOOLEAN]
      /\ After(s, m).options = s.options
      /\ After(s, m).groups = s.groups
      /\ After(s, m).track = s.track
      /\ After(s, m).sep = (s.sep \/ m # <<>>)
  BY <1>1, <1>3, <1>4
<1> QED
  BY <1>5, StatesAre DEF toks

(* Texts joined: the name keeps what joining does from the provers.        *)
Join(x, y) == x \o y

LEMMA FourParts ==
  ASSUME NEW S, NEW b \in Seq(S), NEW l \in Seq(S), NEW x \in Seq(S), NEW d \in Seq(S)
  PROVE  Join(Join(b, Join(l, x)), d) = Join(b, Join(l, Join(x, d)))
<1>1. (b \o (l \o x)) \o d = b \o (l \o (x \o d))
  OBVIOUS
<1> QED
  BY <1>1 DEF Join

LEMMA AfterAfter ==
  ASSUME NEW o, NEW s \in Json!States(o), NEW m \in Seq(Ended), NEW n \in Seq(Ended)
  PROVE  After(After(s, m), n) = After(s, m \o n)
<1> DEFINE b == s.buf
           l == Lead(s.sep)
           x == JsonText(m)
           y == JsonText(n)
           c == <<CommaTok>>
           toks == Seq(Toks)
<1>1. s \in [options : {o}, buf : toks, sep : BOOLEAN, groups : Paths, track : BOOLEAN]
  BY StatesAre
<1>2. b \in toks /\ l \in toks /\ x \in toks /\ y \in toks /\ c \in toks
  <2>1. b \in toks /\ l \in toks
    BY <1>1, LeadType
  <2>2. x \in toks /\ y \in toks
    BY TextType
  <2>3. c \in toks
    BY PunctuationTokens
  <2> QED
    BY <2>1, <2>2, <2>3
<1>3. \A p, q, r, d \in toks : Join(Join(p, Join(q, r)), d) = Join(p, Join(q, Join(r, d)))
  BY FourParts
<1>4. \A p, q \in toks : p \o q \in toks
  OBVIOUS
<1>5. CASE m = <<>>
  <2>1. m \o n = n
    BY <1>5
  <2>2. After(s, m) = s
    BY <1>5 DEF After
  <2> QED
    BY <2>1, <2>2
<1>6. CASE n = <<>>
  <2>1. m \o n = m
    BY <1>6
  <2>2. After(After(s, m), n) = After(s, m)
    BY <1>6 DEF After
  <2> QED
    BY <2>1, <2>2
<1>7. CASE m # <<>> /\ n # <<>>
  <2>1. JsonText(m \o n) = x \o (c \o y)
    <3>1. m \in Seq(Seq(Toks)) /\ n \in Seq(Seq(Toks)) /\ CommaTok \in Toks
      BY EndedType, PunctuationTokens
    <3> QED
      BY <1>7, <3>1, JsonTextConcat
  <2>2. m \o n # <<>>
    BY <1>7
  <2> DEFINE t == After(s, m)
             one == b \o (l \o x)
  <2>3. t = [s EXCEPT !.buf = one, !.sep = TRUE]
    BY <1>7 DEF After
  <2>4. After(t, n) = [t EXCEPT !.buf = @ \o (Lead(t.sep) \o y), !.sep = TRUE]
    BY <1>7 DEF After
  <2>5. After(s, m \o n) = [s EXCEPT !.buf = b \o (l \o (x \o (c \o y))), !.sep = TRUE]
    BY <2>1, <2>2 DEF After
  <2> HIDE DEF b, l, x, y, c, toks, t
  <2>6. one \o (c \o y) = b \o (l \o (x \o (c \o y)))
    <3>1. c \o y \in toks
      BY <1>2, <1>4
    <3>2. Join(c, y) \in toks
      BY <3>1 DEF Join
    <3>3. Join(Join(b, Join(l, x)), Join(c, y)) = Join(b, Join(l, Join(x, Join(c, y))))
      BY <1>2, <1>3, <3>2
    <3> QED
      BY <3>3 DEF Join
  <2> HIDE DEF one
  <2>7. t.sep = TRUE /\ t.buf = one
    BY <1>1, <2>3
  <2>8. Lead(t.sep) = c
    BY <2>7 DEF Lead, c
  <2>9. After(t, n) = [t EXCEPT !.buf = one \o (c \o y), !.sep = TRUE]
    BY <2>4, <2>7, <2>8
  <2> DEFINE two == one \o (c \o y)
  <2>10. After(s, m \o n) = [s EXCEPT !.buf = two, !.sep = TRUE]
    BY <2>5, <2>6
  <2> HIDE DEF two
  <2>11. [t EXCEPT !.buf = two, !.sep = TRUE] = [s EXCEPT !.buf = two, !.sep = TRUE]
    BY <1>1, <2>3
  <2> QED
    BY <2>9, <2>10, <2>11 DEF two, t
<1> QED
  BY <1>5, <1>6, <1>7

(* What a call makes of a state in which members were written.             *)
Adds(s, m) == Json!Written(After(s, m), m # <<>>)

(* An attribute is added as the rules say.                                 *)
AddsRight(o, a) ==
  \A s \in Json!States(o) : s.track \/ a.kind # "group" =>
    Json!AppendAttr(o)[a][s] = Adds(s, KeptOf("json", o.removed)[a][s.groups])

LEMMA StatePaths ==
  ASSUME NEW o, NEW s \in Json!States(o)
  PROVE  s.groups \in Paths /\ s.options = o
BY StatesAre

(* A loop of calls that each write what is kept of an attribute writes     *)
(* what is kept of all.                                                    *)
LEMMA NextAdds ==
  ASSUME NEW o, NEW s \in Json!States(o), NEW m \in Seq(Ended), NEW a \in Attrs,
         AddsRight(o, a), s.track \/ a.kind # "group"
  PROVE  NextOf(Json!AppendAttr(o)[a], Adds(s, m))
           = Adds(s, m \o KeptOf("json", o.removed)[a][s.groups])
<1> DEFINE t == After(s, m)
           k == KeptOf("json", o.removed)[a][s.groups]
           call == Json!AppendAttr(o)[a]
<1>1. t \in Json!States(o) /\ t.groups = s.groups /\ t.track = s.track
  BY AfterType
<1>2. k \in Seq(Ended)
  BY StatePaths, JsonType
<1>3. call[t] = Adds(t, k)
  <2> HIDE DEF t
  <2> QED
    BY <1>1 DEF AddsRight
<1>4. After(t, k) = After(s, m \o k)
  <2> HIDE DEF k
  <2> QED
    BY <1>2, AfterAfter
<1>5. m \o k # <<>> <=> (m # <<>> \/ k # <<>>)
  <2> HIDE DEF k
  <2> QED
    BY <1>2
<1> DEFINE last == Adds(s, m)
<1>6. last.s = t /\ last.written = (m # <<>>)
  BY DEF Adds, Json!Written
<1>7. call[t].s = After(t, k) /\ call[t].written = (k # <<>>)
  <2> HIDE DEF call, t, k
  <2> QED
    BY <1>3 DEF Adds, Json!Written
<1>8. NextOf(call, last) = Json!Written(call[last.s].s, last.written \/ call[last.s].written)
  BY DEF NextOf
<1> HIDE DEF last, call, t, k
<1>9. NextOf(call, last) = Json!Written(After(s, m \o k), m \o k # <<>>)
  <2>1. last.written \/ call[last.s].written <=> m \o k # <<>>
    BY <1>5, <1>6, <1>7
  <2>2. (last.written \/ call[last.s].written) \in BOOLEAN
    BY <1>6
  <2>3. (last.written \/ call[last.s].written) = (m \o k # <<>>)
    BY <2>1
  <2> QED
    BY <1>4, <1>6, <1>7, <1>8, <2>3
<1> QED
  BY <1>9 DEF last, call, k, Adds

LEMMA StartAppend ==
  ASSUME NEW S, NEW list \in Seq(S), NEW n \in 1..Len(list)
  PROVE  /\ SubSeq(list, 1, n - 1) \in Seq(S) /\ list[n] \in S
         /\ SubSeq(list, 1, n) = Append(SubSeq(list, 1, n - 1), list[n])
<1> DEFINE a == SubSeq(list, 1, n - 1)
           b == SubSeq(list, 1, n)
           c == Append(a, list[n])
<1>1. Len(list) \in Nat /\ list[n] \in S
  OBVIOUS
<1>2. a \in Seq(S) /\ Len(a) = n - 1 /\ \A i \in 1..(n - 1) : a[i] = list[i]
  BY <1>1
<1>3. b \in Seq(S) /\ Len(b) = n /\ \A i \in 1..n : b[i] = list[i]
  BY <1>1
<1> HIDE DEF a, b
<1>4. c \in Seq(S) /\ Len(c) = n /\ c[n] = list[n] /\ \A i \in 1..(n - 1) : c[i] = a[i]
  BY <1>1, <1>2, AppendProperties
<1> HIDE DEF c
<1>5. \A i \in 1..n : b[i] = c[i]
  BY <1>2, <1>3, <1>4
<1>6. b = c
  BY <1>3, <1>4, <1>5, SeqEqual
<1> QED
  BY <1>1, <1>2, <1>6 DEF a, b, c

LEMMA StartNone ==
  ASSUME NEW list
  PROVE  SubSeq(list, 1, 0) = <<>>
OBVIOUS

LEMMA JsonKept ==
  ASSUME NEW gone, NEW p \in Paths, NEW attrs \in Seq(Attrs)
  PROVE  Kept("json", attrs, p, gone) \in Seq(Ended)
<1> DEFINE json0 == "json"
           S == Ended
<1>1. \A a \in Attrs : KeptOf(json0, gone)[a][p] \in Seq(S)
  BY JsonType
<1> HIDE DEF json0, S
<1>2. Kept(json0, attrs, p, gone) \in Seq(S)
  BY <1>1, KeptSeqType
<1> QED
  BY <1>2 DEF json0, S

LEMMA JsonKeptNone ==
  ASSUME NEW gone, NEW p
  PROVE  Kept("json", <<>>, p, gone) = <<>>
<1>1. <<>> \in Seq(Attrs)
  OBVIOUS
<1>2. Kept("json", <<>>, p, gone) = Flat(<<>>, KeptIn("json", p, gone))
  BY <1>1, KeptIsFlat
<1> DEFINE f == KeptIn("json", p, gone)
<1> HIDE DEF f
<1>3. Flat(<<>>, f) = <<>>
  BY FlatNone
<1> QED
  BY <1>2, <1>3 DEF f

LEMMA JsonKeptAppend ==
  ASSUME NEW gone, NEW p \in Paths, NEW attrs \in Seq(Attrs), NEW e \in Attrs
  PROVE  Kept("json", Append(attrs, e), p, gone)
           = Kept("json", attrs, p, gone) \o KeptOf("json", gone)[e][p]
<1> DEFINE f == KeptIn("json", p, gone)
<1>1. f \in Makers(Attrs, Seq(Ended)) /\ f[e] = KeptOf("json", gone)[e][p]
  BY JsonType DEF KeptIn, Makers
<1>2. Append(attrs, e) \in Seq(Attrs)
  OBVIOUS
<1> HIDE DEF f
<1>3. Flat(Append(attrs, e), f) = Flat(attrs, f) \o f[e]
  BY <1>1, FlatAppend
<1> QED
  BY <1>1, <1>2, <1>3, KeptIsFlat DEF f

LEMMA EachAdds ==
  ASSUME NEW o, NEW attrs \in Seq(Attrs), NEW s \in Json!States(o),
         \A i \in DOMAIN attrs : AddsRight(o, attrs[i]),
         s.track \/ \A i \in DOMAIN attrs : attrs[i].kind # "group"
  PROVE  Json!AppendEach(s, Json!Calls(o, attrs))
           = Adds(s, Kept("json", attrs, s.groups, o.removed))
<1> DEFINE N == Len(attrs)
           gone == o.removed
           p == s.groups
           calls == Json!Calls(o, attrs)
           Start(n) == Kept("json", SubSeq(attrs, 1, n), p, gone)
<1>1. N \in Nat /\ DOMAIN attrs = 1..N /\ \A n \in 1..N : attrs[n] \in Attrs
  OBVIOUS
<1>2. Len(calls) = N /\ \A n \in 1..N : calls[n] = Json!AppendAttr(o)[attrs[n]]
  <2>1. calls = [n \in 1..N |-> Json!AppendAttr(o)[attrs[n]]]
    BY <1>1 DEF Json!Calls
  <2> HIDE DEF calls, N
  <2>2. Len(calls) = N
    BY <1>1, <2>1
  <2> QED
    BY <2>1, <2>2
<1>3. PICK f : AppendEachTurns(f, s, calls)
  <2> HIDE DEF calls
  <2> QED
    BY <1>1, <1>2, AppendEachLoop
<1>4. p \in Paths
  BY StatePaths
<1> HIDE DEF gone, p
<1>5. \A a \in Attrs : KeptOf("json", gone)[a][p] \in Seq(Ended)
  BY <1>4, JsonType
<1>6. ASSUME NEW n \in 1..N
      PROVE  /\ Start(n - 1) \in Seq(Ended)
             /\ Start(n) = Start(n - 1) \o KeptOf("json", gone)[attrs[n]][p]
  <2> DEFINE list == SubSeq(attrs, 1, n - 1)
  <2>1. list \in Seq(Attrs) /\ SubSeq(attrs, 1, n) = Append(list, attrs[n])
        /\ attrs[n] \in Attrs
    BY StartAppend
  <2> HIDE DEF list
  <2>2. /\ Kept("json", list, p, gone) \in Seq(Ended)
        /\ Kept("json", Append(list, attrs[n]), p, gone)
             = Kept("json", list, p, gone) \o KeptOf("json", gone)[attrs[n]][p]
    BY <1>4, <2>1, JsonKept, JsonKeptAppend
  <2> QED
    BY <2>1, <2>2 DEF list
<1>7. Start(0) = <<>>
  <2>1. SubSeq(attrs, 1, 0) = <<>>
    BY StartNone
  <2> QED
    BY <2>1, JsonKeptNone
<1>8. Start(N) = Kept("json", attrs, p, gone)
  BY AllOfList
<1> HIDE DEF Start, N
<1> DEFINE T == {n \in 0..N : f[n] = Adds(s, Start(n))}
<1>9. 0 \in T
  <2>1. f[0] = Json!Written(s, FALSE)
    BY <1>3 DEF AppendEachTurns
  <2>2. After(s, <<>>) = s
    BY DEF After
  <2>3. Adds(s, <<>>) = Json!Written(s, FALSE)
    BY <2>2 DEF Adds
  <2>4. 0 \in 0..N /\ f[0] = Adds(s, Start(0))
    <3>1. Adds(s, Start(0)) = Json!Written(s, FALSE)
      BY <1>7, <2>3
    <3>2. 0 \in 0..N
      BY <1>1
    <3> QED
      BY <2>1, <3>1, <3>2
  <2> QED
    BY <2>4
<1>10. ASSUME NEW n \in 1..N, n - 1 \in T PROVE n \in T
  <2>1. f[n] = NextOf(calls[n], f[n - 1])
    BY <1>2, <1>3 DEF AppendEachTurns
  <2>2. f[n - 1] = Adds(s, Start(n - 1)) /\ calls[n] = Json!AppendAttr(o)[attrs[n]]
    BY <1>2, <1>10
  <2> DEFINE a == attrs[n]
             m == Start(n - 1)
  <2>3. AddsRight(o, a) /\ a \in Attrs /\ (s.track \/ a.kind # "group") /\ m \in Seq(Ended)
    BY <1>1, <1>6
  <2> HIDE DEF a, m
  <2>4. NextOf(Json!AppendAttr(o)[a], Adds(s, m)) = Adds(s, m \o KeptOf("json", o.removed)[a][s.groups])
    BY <2>3, NextAdds
  <2>5. f[n] = Adds(s, Start(n))
    BY <1>6, <2>1, <2>2, <2>4 DEF a, m, gone, p
  <2>6. n \in 0..N
    BY <1>1
  <2> QED
    BY <2>5, <2>6
<1>11. 0..N \subseteq T
  <2> HIDE DEF T
  <2> QED
    BY <1>1, <1>9, <1>10, UpTo
<1>12. f[N] = Adds(s, Start(N))
  BY <1>1, <1>11
<1> QED
  BY <1>2, <1>3, <1>8, <1>12 DEF AppendEachTurns, calls, gone, p
-----------------------------------------------------------------------------
(* A state after one member was written.                                   *)
Wrote(s, x) ==
  [s EXCEPT !.buf = Join(s.buf, Join(Lead(s.sep), x)), !.sep = TRUE]

LEMMA JoinType ==
  ASSUME NEW S, NEW x \in Seq(S), NEW y \in Seq(S)
  PROVE  Join(x, y) \in Seq(S)
BY DEF Join

LEMMA JoinAssoc ==
  ASSUME NEW S, NEW x \in Seq(S), NEW y \in Seq(S), NEW z \in Seq(S)
  PROVE  Join(Join(x, y), z) = Join(x, Join(y, z))
<1>1. (x \o y) \o z = x \o (y \o z)
  OBVIOUS
<1> QED
  BY <1>1 DEF Join

LEMMA JoinEmpty ==
  ASSUME NEW S, NEW x \in Seq(S)
  PROVE  Join(x, <<>>) = x /\ Join(<<>>, x) = x
<1>1. x \o <<>> = x /\ <<>> \o x = x
  BY ConcatEmptySeq
<1> QED
  BY <1>1 DEF Join

(* What a state has.                                                       *)
LEMMA StateParts ==
  ASSUME NEW o, NEW s \in Json!States(o)
  PROVE  /\ s.buf \in Seq(Toks) /\ s.sep \in BOOLEAN /\ s.groups \in Paths
         /\ s.track \in BOOLEAN /\ s.options = o /\ Lead(s.sep) \in Seq(Toks)
         /\ s = [options |-> s.options, buf |-> s.buf, sep |-> s.sep,
                 groups |-> s.groups, track |-> s.track]
<1>1. s \in [options : {o}, buf : Seq(Toks), sep : BOOLEAN, groups : Paths,
             track : BOOLEAN]
  BY StatesAre
<1> DEFINE toks == Seq(Toks)
<1> HIDE DEF toks
<1>2. s \in [options : {o}, buf : toks, sep : BOOLEAN, groups : Paths,
             track : BOOLEAN]
  BY <1>1 DEF toks
<1>3. /\ s.buf \in toks /\ s.sep \in BOOLEAN /\ s.groups \in Paths
      /\ s.track \in BOOLEAN /\ s.options = o
      /\ s = [options |-> s.options, buf |-> s.buf, sep |-> s.sep,
              groups |-> s.groups, track |-> s.track]
  BY <1>2
<1> QED
  BY <1>3, LeadType DEF toks

(* A state with other text is a state.                                     *)
LEMMA StateWith ==
  ASSUME NEW o, NEW s \in Json!States(o), NEW text \in Seq(Toks),
         NEW sep \in BOOLEAN, NEW groups \in Paths
  PROVE  [s EXCEPT !.buf = text, !.sep = sep, !.groups = groups] \in Json!States(o)
<1> DEFINE toks == Seq(Toks)
<1>1. s \in [options : {o}, buf : toks, sep : BOOLEAN, groups : Paths,
             track : BOOLEAN]
  BY StatesAre
<1>2. text \in toks
  OBVIOUS
<1> HIDE DEF toks
<1>3. [s EXCEPT !.buf = text, !.sep = sep, !.groups = groups]
        \in [options : {o}, buf : toks, sep : BOOLEAN, groups : Paths, track : BOOLEAN]
  BY <1>1, <1>2
<1> QED
  BY <1>3, StatesAre DEF toks

LEMMA AfterWrote ==
  ASSUME NEW o, NEW s \in Json!States(o), NEW m \in Seq(Ended), m # <<>>
  PROVE  After(s, m) = Wrote(s, JsonText(m))
BY DEF After, Wrote, Join

LEMMA AfterOne ==
  ASSUME NEW o, NEW s \in Json!States(o), NEW x \in Ended
  PROVE  /\ After(s, <<x>>) = Wrote(s, x)
         /\ <<x>> \in Seq(Ended) /\ <<x>> # <<>>
<1>1. <<x>> \in Seq(Ended) /\ <<x>> # <<>>
  OBVIOUS
<1>2. JsonText(<<x>>) = x
  <2>1. x \in Seq(Toks) /\ CommaTok \in Toks
    BY PunctuationTokens DEF Ended
  <2> QED
    BY <2>1, JsonTextOne
<1> QED
  BY <1>1, <1>2, AfterWrote

LEMMA PutAfterKey ==
  ASSUME NEW o, NEW s \in Json!States(o), NEW k \in STRING, NEW x \in Seq(Toks)
  PROVE  /\ Json!Put(Json!AppendKey(s, k), x) = Wrote(s, Join(<<KeyTok(k)>>, x))
         /\ Wrote(s, Join(<<KeyTok(k)>>, x)) \in Json!States(o)
<1> DEFINE toks == Seq(Toks)
           b == s.buf
           l == Lead(s.sep)
           c == <<KeyTok(k)>>
           t == Json!AppendKey(s, k)
           text == Join(Join(b, l), c)
           comma == <<CommaTok>>
<1>1. /\ b \in toks /\ l \in toks /\ c \in toks /\ x \in toks
      /\ s.sep \in BOOLEAN /\ s.groups \in Paths
  <2>1. KeyTok(k) \in Toks
    BY KeyToken
  <2>2. c \in toks
    <3>1. ASSUME NEW z \in Toks PROVE <<z>> \in Seq(Toks)
      OBVIOUS
    <3> QED
      BY <2>1, <3>1
  <2> QED
    BY <2>2, StateParts
<1>2. Json!Comma(s) = [s EXCEPT !.buf = Join(b, l)]
  <2>1. CASE s.sep
    BY <2>1, SameTokens DEF Json!Comma, Json!Put, Lead, Join
  <2>2. CASE ~s.sep
    <3>1. Join(b, l) = b
      BY <1>1, <2>2, JoinEmpty DEF Lead
    <3>2. s = [s EXCEPT !.buf = b]
      BY StateParts
    <3> QED
      BY <2>2, <3>1, <3>2 DEF Json!Comma
  <2> QED
    BY <1>1, <2>1, <2>2
<1>3. t = [s EXCEPT !.buf = text, !.sep = TRUE]
  <2>1. t = [[s EXCEPT !.buf = Join(b, l)] EXCEPT !.buf = @ \o c, !.sep = TRUE]
    BY <1>2, SameTokens DEF Json!AppendKey, Json!Put
  <2> DEFINE bl == Join(b, l)
  <2> HIDE DEF bl, c
  <2>2. t = [s EXCEPT !.buf = bl \o c, !.sep = TRUE]
    <3>1. [s EXCEPT !.buf = bl].buf = bl
      BY StateParts
    <3> QED
      BY <2>1, <3>1, StateParts DEF bl
  <2> QED
    BY <2>2 DEF Join, bl
<1>4. Json!Put(t, x) = [t EXCEPT !.buf = @ \o x]
  BY DEF Json!Put
<1>5. Join(text, x) = Join(b, Join(l, Join(c, x)))
  <2> HIDE DEF b, l, c
  <2>1. Join(b, l) \in toks /\ Join(c, x) \in toks
    BY <1>1, JoinType
  <2>2. Join(Join(Join(b, l), c), x) = Join(Join(b, l), Join(c, x))
    BY <1>1, <2>1, JoinAssoc
  <2>3. Join(Join(b, l), Join(c, x)) = Join(b, Join(l, Join(c, x)))
    BY <1>1, <2>1, JoinAssoc
  <2> QED
    BY <2>2, <2>3
<1>6. Json!Put(t, x) = [s EXCEPT !.buf = Join(text, x), !.sep = TRUE]
  <2> HIDE DEF text, t
  <2>1. t.buf = text
    BY <1>3, StateParts
  <2>2. Json!Put(t, x) = [t EXCEPT !.buf = Join(text, x)]
    BY <1>4, <2>1 DEF Join
  <2> DEFINE y == Join(text, x)
  <2> HIDE DEF y
  <2>3. [t EXCEPT !.buf = y] = [s EXCEPT !.buf = y, !.sep = TRUE]
    BY <1>3, StateParts
  <2> QED
    BY <2>2, <2>3 DEF y
<1>7. Json!Put(t, x) = Wrote(s, Join(c, x))
  <2> HIDE DEF c, t, text
  <2> QED
    BY <1>5, <1>6 DEF Wrote
<1>8. Wrote(s, Join(c, x)) \in Json!States(o)
  <2> DEFINE y == Join(b, Join(l, Join(c, x)))
  <2>1. y \in toks
    <3> HIDE DEF b, l, c
    <3>1. Join(c, x) \in toks
      BY <1>1, JoinType
    <3>2. Join(l, Join(c, x)) \in toks
      BY <1>1, <3>1, JoinType
    <3> QED
      BY <1>1, <3>2, JoinType
  <2>2. Wrote(s, Join(c, x)) = [s EXCEPT !.buf = y, !.sep = TRUE]
    BY DEF Wrote
  <2> HIDE DEF y
  <2>3. [s EXCEPT !.buf = y, !.sep = TRUE] = [s EXCEPT !.buf = y, !.sep = TRUE, !.groups = s.groups]
    BY StateParts
  <2>4. [s EXCEPT !.buf = y, !.sep = TRUE, !.groups = s.groups] \in Json!States(o)
    <3>1. y \in Seq(Toks) /\ TRUE \in BOOLEAN
      BY <2>1
    <3> QED
      BY <1>1, <3>1, StateWith
  <2> QED
    BY <2>2, <2>3, <2>4
<1> QED
  BY <1>7, <1>8
-----------------------------------------------------------------------------
(* Options without ReplaceAttr functions remove nothing.                   *)
Fair(o) == o.transforms \/ o.removed = {}

LEMMA RemovesIs ==
  ASSUME NEW o, Fair(o), NEW s \in Json!States(o), NEW key
  PROVE  Json!Removes(s, key) <=> <<s.groups, key>> \in o.removed
<1>1. s.options = o
  BY StateParts
<1> QED
  BY <1>1 DEF Json!Removes, Fair

LEMMA OneToken ==
  ASSUME NEW S, NEW z \in S
  PROVE  <<z>> \in Seq(S)
OBVIOUS

LEMMA JoinPair ==
  ASSUME NEW S, NEW x \in S, NEW y \in S
  PROVE  Join(<<x>>, <<y>>) = <<x, y>>
<1> DEFINE one == <<x>>
           two == <<y>>
           all == <<x, y>>
           c == one \o two
<1>1. one \in Seq(S) /\ two \in Seq(S) /\ Len(one) = 1 /\ Len(two) = 1
      /\ one[1] = x /\ two[1] = y
  OBVIOUS
<1>2. all \in Seq(S) /\ Len(all) = 2 /\ all[1] = x /\ all[2] = y
  OBVIOUS
<1> HIDE DEF one, two
<1>3. /\ c \in Seq(S) /\ Len(c) = Len(one) + Len(two)
      /\ \A i \in 1..(Len(one) + Len(two)) :
           c[i] = IF i <= Len(one) THEN one[i] ELSE two[i - Len(one)]
  BY <1>1, ConcatProperties
<1> HIDE DEF all, c
<1>4. Len(c) = 2 /\ c[1] = x /\ c[2] = y
  BY <1>1, <1>3
<1>5. \A i \in 1..2 : c[i] = all[i]
  BY <1>2, <1>4
<1>6. c = all
  BY <1>2, <1>3, <1>4, <1>5, SeqEqual
<1> QED
  BY <1>6 DEF c, one, two, all, Join

(* A leaf is written as the rules say.                                     *)
LEMMA LeafAdds ==
  ASSUME NEW o, Fair(o), NEW a \in Attrs, a.kind = "leaf"
  PROVE  AddsRight(o, a)
<1> SUFFICES ASSUME NEW s \in Json!States(o)
             PROVE  Json!AppendAttr(o)[a][s]
                      = Adds(s, KeptOf("json", o.removed)[a][s.groups])
  BY DEF AddsRight
<1> DEFINE x == LeafIn("json", s.groups, a)
           gone == o.removed
           kept == KeptOf("json", gone)[a][s.groups]
<1>1. s.groups \in Paths /\ a.key \in STRING /\ a.val \in STRING
  BY StateParts, AttrKinds
<1>2. Json!AppendAttr(o)[a][s] = Json!AppendLeaf(s, a)
  BY JsonOfLeaf
<1>3. kept = IF <<s.groups, a.key>> \in gone THEN <<>> ELSE <<x>>
  BY <1>1, KeptOfLeaf
<1>4. x = <<KeyTok(a.key), ValTok(a.val)>> /\ x \in Ended
  BY <1>1, JsonLeaf
<1> HIDE DEF gone, kept, x
<1>5. CASE <<s.groups, a.key>> \in gone
  <2>1. Json!AppendLeaf(s, a) = Json!Written(s, FALSE)
    BY <1>5, RemovesIs DEF Json!AppendLeaf, gone
  <2>2. kept = <<>>
    BY <1>3, <1>5
  <2>3. Adds(s, <<>>) = Json!Written(s, FALSE)
    BY DEF Adds, After
  <2> QED
    BY <1>2, <2>1, <2>2, <2>3 DEF kept, gone
<1>6. CASE <<s.groups, a.key>> \notin gone
  <2> DEFINE v == <<ValTok(a.val)>>
  <2>1. Json!AppendLeaf(s, a) = Json!Written(Json!Put(Json!AppendKey(s, a.key), v), TRUE)
    BY <1>6, RemovesIs, SameTokens DEF Json!AppendLeaf, gone
  <2>2. v \in Seq(Toks)
    BY <1>1, ValToken, OneToken
  <2>3. Join(<<KeyTok(a.key)>>, v) = x
    BY <1>1, <1>4, JoinPair, KeyToken, ValToken
  <2> HIDE DEF v
  <2>4. Json!Put(Json!AppendKey(s, a.key), v) = Wrote(s, x)
    BY <1>1, <2>2, <2>3, PutAfterKey
  <2>5. After(s, <<x>>) = Wrote(s, x) /\ <<x>> # <<>>
    BY <1>4, AfterOne
  <2>6. kept = <<x>>
    BY <1>3, <1>6
  <2>7. Adds(s, <<x>>) = Json!Written(Wrote(s, x), TRUE)
    BY <2>5 DEF Adds
  <2> QED
    BY <1>2, <2>1, <2>4, <2>6, <2>7 DEF kept, gone
<1> QED
  BY <1>5, <1>6
-----------------------------------------------------------------------------
(* A state in which a group was opened.                                    *)
Opened(s, name) ==
  [s EXCEPT !.buf = Join(s.buf, Join(Lead(s.sep), Join(<<KeyTok(name)>>, <<BraceTok>>))),
            !.sep = FALSE,
            !.groups = IF s.track THEN Append(s.groups, name) ELSE s.groups]

(* Groups are opened, filled, and closed, or cut off again.                *)
LEMMA OpenGroupIs ==
  ASSUME NEW o, NEW s \in Json!States(o), NEW name \in STRING
  PROVE  Json!OpenGroup(s, name) = Opened(s, name) /\ Opened(s, name) \in Json!States(o)
<1> DEFINE brace == <<BraceTok>>
           x == Join(<<KeyTok(name)>>, brace)
           u == Json!Put(Json!AppendKey(s, name), brace)
           g == IF s.track THEN Append(s.groups, name) ELSE s.groups
<1>1. brace \in Seq(Toks)
  BY PunctuationTokens, OneToken
<1>2. u = Wrote(s, x) /\ Wrote(s, x) \in Json!States(o)
  <2> HIDE DEF brace
  <2> QED
    BY <1>1, PutAfterKey
<1>3. s.groups \in Paths /\ s.track \in BOOLEAN
  BY StateParts
<1>4. g \in Paths
  <2>1. Append(s.groups, name) \in Paths
    <3> DEFINE S == STRING
    <3>1. name \in S /\ s.groups \in Seq(S)
      BY <1>3 DEF Paths
    <3> HIDE DEF S
    <3>2. Append(s.groups, name) \in Seq(S)
      BY <3>1, AppendProperties
    <3> QED
      BY <3>2 DEF Paths, S
  <2> QED
    BY <1>3, <2>1
<1>5. Json!OpenGroup(s, name)
        = [u EXCEPT !.sep = FALSE, !.groups = IF s.track THEN Append(@, name) ELSE @]
  BY SameTokens DEF Json!OpenGroup
<1> DEFINE text == Join(s.buf, Join(Lead(s.sep), x))
<1>6. u = [s EXCEPT !.buf = text, !.sep = TRUE]
  BY <1>2 DEF Wrote
<1>7. Opened(s, name) = [s EXCEPT !.buf = text, !.sep = FALSE, !.groups = g]
  BY DEF Opened
<1>8. text \in Seq(Toks)
  <2>1. Wrote(s, x).buf = text
    <3> HIDE DEF text, u
    <3> QED
      BY <1>2, <1>6, StateParts, ZenonT(30)
  <2> HIDE DEF text, x
  <2> QED
    BY <1>2, <2>1, StateParts
<1> HIDE DEF text, u
<1>9. u.groups = s.groups
  BY <1>6, StateParts
<1>10. Json!OpenGroup(s, name) = [u EXCEPT !.sep = FALSE, !.groups = g]
  BY <1>5, <1>9
<1> HIDE DEF g
<1>11. [u EXCEPT !.sep = FALSE, !.groups = g] = [s EXCEPT !.buf = text, !.sep = FALSE, !.groups = g]
  BY <1>6, StateParts
<1>12. [s EXCEPT !.buf = text, !.sep = FALSE, !.groups = g] \in Json!States(o)
  <2>1. FALSE \in BOOLEAN
    OBVIOUS
  <2> QED
    BY <1>4, <1>8, <2>1, StateWith
<1> QED
  BY <1>7, <1>10, <1>11, <1>12

LEMMA CutJoin ==
  ASSUME NEW S, NEW x \in Seq(S), NEW y \in Seq(S)
  PROVE  SubSeq(Join(x, y), 1, Len(x)) = x
<1> DEFINE z == x \o y
           c == SubSeq(z, 1, Len(x))
<1>1. /\ z \in Seq(S) /\ Len(z) = Len(x) + Len(y) /\ Len(x) \in Nat /\ Len(y) \in Nat
      /\ \A i \in 1..(Len(x) + Len(y)) : z[i] = IF i <= Len(x) THEN x[i] ELSE y[i - Len(x)]
  BY ConcatProperties
<1> HIDE DEF z
<1>2. c \in Seq(S) /\ Len(c) = Len(x) /\ \A i \in 1..Len(x) : c[i] = z[i]
  BY <1>1
<1>3. \A i \in 1..Len(x) : z[i] = x[i]
  BY <1>1
<1> HIDE DEF c
<1>4. c = x
  BY <1>2, <1>3, SeqEqual
<1> QED
  BY <1>4 DEF c, z, Join

LEMMA CutAppend ==
  ASSUME NEW S, NEW x \in Seq(S), NEW e \in S
  PROVE  /\ SubSeq(Append(x, e), 1, Len(x)) = x
         /\ Len(Append(x, e)) - 1 = Len(x)
<1>1. Len(x) \in Nat /\ Len(x) \in 0..Len(x) /\ Len(Append(x, e)) = Len(x) + 1
  BY AppendProperties
<1>2. SubSeq(Append(x, e), 1, Len(x)) = SubSeq(x, 1, Len(x))
  BY <1>1, StartOfAppend
<1>3. SubSeq(x, 1, Len(x)) = x
  BY AllOfList
<1> QED
  BY <1>1, <1>2, <1>3

(* The text of a group, in one piece.                                      *)
LEMMA GroupText ==
  ASSUME NEW S, NEW b \in Seq(S), NEW l \in Seq(S), NEW k \in Seq(S),
         NEW br \in Seq(S), NEW t \in Seq(S), NEW c \in Seq(S)
  PROVE  Join(Join(Join(b, Join(l, Join(k, br))), t), c)
           = Join(b, Join(l, Join(k, Join(Join(br, t), c))))
<1> DEFINE all == Seq(S)
<1>1. \A x, y \in all : Join(x, y) \in all
  BY JoinType
<1>2. \A x, y, z \in all : Join(Join(x, y), z) = Join(x, Join(y, z))
  BY JoinAssoc
<1>3. b \in all /\ l \in all /\ k \in all /\ br \in all /\ t \in all /\ c \in all
  OBVIOUS
<1> HIDE DEF all
<1> DEFINE kb == Join(k, br)
           lkb == Join(l, kb)
           tc == Join(t, c)
<1>4. kb \in all /\ tc \in all
  BY <1>1, <1>3
<1>5. lkb \in all
  BY <1>1, <1>3, <1>4
<1> HIDE DEF lkb, tc
<1>6. Join(Join(Join(b, lkb), t), c) = Join(Join(b, lkb), tc)
  <2>1. Join(b, lkb) \in all
    BY <1>1, <1>3, <1>5
  <2> QED
    BY <1>2, <1>3, <2>1 DEF tc
<1>7. Join(Join(b, lkb), tc) = Join(b, Join(lkb, tc))
  BY <1>2, <1>3, <1>4, <1>5
<1>8. Join(lkb, tc) = Join(l, Join(kb, tc))
  BY <1>2, <1>3, <1>4 DEF lkb
<1>9. Join(kb, tc) = Join(k, Join(br, tc))
  BY <1>2, <1>3, <1>4
<1>10. Join(br, tc) = Join(Join(br, t), c)
  BY <1>2, <1>3 DEF tc
<1> QED
  BY <1>6, <1>7, <1>8, <1>9, <1>10 DEF lkb

LEMMA OpenedParts ==
  ASSUME NEW o, NEW s \in Json!States(o), NEW name \in STRING
  PROVE  LET u == Opened(s, name)
         IN  /\ u \in Json!States(o) /\ u.track = s.track /\ u.sep = FALSE
             /\ u.groups = IF s.track THEN Append(s.groups, name) ELSE s.groups
             /\ u.buf = Join(s.buf, Join(Lead(s.sep), Join(<<KeyTok(name)>>, <<BraceTok>>)))
<1> DEFINE u == Opened(s, name)
           text == Join(s.buf, Join(Lead(s.sep), Join(<<KeyTok(name)>>, <<BraceTok>>)))
           g == IF s.track THEN Append(s.groups, name) ELSE s.groups
<1>1. u \in Json!States(o)
  BY OpenGroupIs
<1>2. u = [s EXCEPT !.buf = text, !.sep = FALSE, !.groups = g]
  BY DEF Opened
<1> HIDE DEF u, text, g
<1>3. s = [options |-> s.options, buf |-> s.buf, sep |-> s.sep,
           groups |-> s.groups, track |-> s.track]
  BY StateParts
<1>4. u.groups = g /\ u.buf = text
  BY <1>2, <1>3
<1>5. u.sep = FALSE
  BY <1>2, <1>3
<1>6. u.track = s.track
  BY <1>2, <1>3
<1> QED
  BY <1>1, <1>4, <1>5, <1>6 DEF u, text, g

(* An empty group is cut off again.                                        *)
LEMMA CutOpened ==
  ASSUME NEW o, NEW s \in Json!States(o), NEW name \in STRING
  PROVE  [Opened(s, name) EXCEPT !.buf = SubSeq(@, 1, Len(s.buf)), !.sep = s.sep,
                                 !.groups = SubSeq(@, 1, Len(s.groups))] = s
<1> DEFINE u == Opened(s, name)
           rest == Join(Lead(s.sep), Join(<<KeyTok(name)>>, <<BraceTok>>))
<1>1. u.groups = (IF s.track THEN Append(s.groups, name) ELSE s.groups) /\ u.buf = Join(s.buf, rest)
  BY OpenedParts
<1>2. rest \in Seq(Toks) /\ s.buf \in Seq(Toks) /\ s.groups \in Paths
  <2> DEFINE k == <<KeyTok(name)>>
             b == <<BraceTok>>
             l == Lead(s.sep)
  <2>1. k \in Seq(Toks) /\ b \in Seq(Toks)
    BY KeyToken, PunctuationTokens, OneToken
  <2>2. l \in Seq(Toks) /\ s.buf \in Seq(Toks) /\ s.groups \in Paths
    BY StateParts
  <2> HIDE DEF k, b, l
  <2>3. Join(k, b) \in Seq(Toks)
    BY <2>1, JoinType
  <2>4. Join(l, Join(k, b)) \in Seq(Toks)
    BY <2>2, <2>3, JoinType
  <2> QED
    BY <2>2, <2>4 DEF k, b, l
<1> HIDE DEF rest
<1>3. SubSeq(u.buf, 1, Len(s.buf)) = s.buf
  BY <1>1, <1>2, CutJoin
<1>4. SubSeq(u.groups, 1, Len(s.groups)) = s.groups
  <2> DEFINE S == STRING
  <2>1. name \in S /\ s.groups \in Seq(S)
    BY <1>2 DEF Paths
  <2> HIDE DEF S
  <2>2. SubSeq(Append(s.groups, name), 1, Len(s.groups)) = s.groups
    BY <2>1, CutAppend
  <2>3. SubSeq(s.groups, 1, Len(s.groups)) = s.groups
    BY <2>1, AllOfList
  <2> HIDE DEF u
  <2> QED
    BY <1>1, <2>2, <2>3
<1> DEFINE text == Join(s.buf, Join(Lead(s.sep), Join(<<KeyTok(name)>>, <<BraceTok>>)))
           g == IF s.track THEN Append(s.groups, name) ELSE s.groups
<1>5. u = [s EXCEPT !.buf = text, !.sep = FALSE, !.groups = g]
  BY DEF Opened
<1>6. [u EXCEPT !.buf = SubSeq(@, 1, Len(s.buf)), !.sep = s.sep,
                !.groups = SubSeq(@, 1, Len(s.groups))]
        = [u EXCEPT !.buf = s.buf, !.sep = s.sep, !.groups = s.groups]
  <2> HIDE DEF u
  <2> QED
    BY <1>3, <1>4
<1> HIDE DEF u, text, g
<1>7. [u EXCEPT !.buf = s.buf, !.sep = s.sep, !.groups = s.groups] = s
  <2>1. s = [options |-> s.options, buf |-> s.buf, sep |-> s.sep,
             groups |-> s.groups, track |-> s.track]
    BY StateParts
  <2> QED
    BY <1>5, <2>1
<1> QED
  BY <1>6, <1>7 DEF u

(* A group that holds members is one member.                               *)
LEMMA ClosedGroup ==
  ASSUME NEW o, NEW s \in Json!States(o), NEW name \in STRING,
         NEW m \in Seq(Ended), m # <<>>
  PROVE  Json!CloseGroup(After(Opened(s, name), m))
           = After(s, <<GroupIn("json", name, m)>>)
<1> DEFINE u == Opened(s, name)
           v == After(u, m)
           t == JsonText(m)
           b == s.buf
           l == Lead(s.sep)
           k == <<KeyTok(name)>>
           br == <<BraceTok>>
           c == <<CloseTok>>
           toks == Seq(Toks)
           text == Join(b, Join(l, Join(k, br)))
           member == GroupIn("json", name, m)
           g == IF s.track THEN Append(s.groups, name) ELSE s.groups
<1>1. /\ u \in Json!States(o) /\ u.track = s.track /\ u.sep = FALSE
      /\ u.groups = g /\ u.buf = text
  BY OpenedParts
<1>2. b \in toks /\ l \in toks /\ k \in toks /\ br \in toks /\ c \in toks /\ t \in toks
  <2>1. k \in Seq(Toks) /\ br \in Seq(Toks) /\ c \in Seq(Toks)
    BY KeyToken, PunctuationTokens, OneToken
  <2>2. b \in toks /\ l \in toks
    BY StateParts
  <2>3. t \in toks
    BY TextType
  <2> QED
    BY <2>1, <2>2, <2>3
<1>3. member = Join(k, Join(Join(br, t), c)) /\ member \in Ended
  BY JsonGroup DEF Join
<1>4. Join(Join(text, t), c) = Join(b, Join(l, member))
  <2> HIDE DEF b, l, k, br, c, t, member
  <2>1. Join(Join(text, t), c) = Join(b, Join(l, Join(k, Join(Join(br, t), c))))
    BY <1>2, GroupText DEF toks
  <2> QED
    BY <1>3, <2>1
<1>5. text \in toks
  <2> HIDE DEF b, l, k, br
  <2>1. Join(k, br) \in toks
    BY <1>2, JoinType
  <2>2. Join(l, Join(k, br)) \in toks
    BY <1>2, <2>1, JoinType
  <2> QED
    BY <1>2, <2>2, JoinType
<1>6. v = [u EXCEPT !.buf = Join(text, t), !.sep = TRUE]
  <2>1. v = Wrote(u, t)
    <3> HIDE DEF u
    <3> QED
      BY <1>1, AfterWrote
  <2>2. Lead(u.sep) = <<>>
    BY <1>1 DEF Lead
  <2>3. Join(<<>>, t) = t
    BY <1>2, JoinEmpty
  <2> HIDE DEF u, t, text
  <2> QED
    BY <1>1, <2>1, <2>2, <2>3 DEF Wrote
<1>7. v \in Json!States(o) /\ v.track = s.track
  <2> HIDE DEF u
  <2> QED
    BY <1>1, AfterType
<1>8. Json!CloseGroup(v) = [v EXCEPT !.buf = Join(@, c), !.sep = TRUE,
                                     !.groups = IF s.track THEN SubSeq(@, 1, Len(@) - 1) ELSE @]
  <2> HIDE DEF v
  <2>1. Json!Put(v, c) = [v EXCEPT !.buf = Join(@, c)]
    BY DEF Json!Put, Join
  <2>2. Json!CloseGroup(v) = [Json!Put(v, c) EXCEPT !.sep = TRUE,
                                !.groups = IF s.track THEN SubSeq(@, 1, Len(@) - 1) ELSE @]
    BY <1>7, SameTokens DEF Json!CloseGroup, Json!Front, Json!Put
  <2> HIDE DEF c
  <2>3. v = [options |-> v.options, buf |-> v.buf, sep |-> v.sep,
             groups |-> v.groups, track |-> v.track]
    BY <1>7, StateParts
  <2> QED
    BY <2>1, <2>2, <2>3
<1>9. /\ s = [options |-> s.options, buf |-> s.buf, sep |-> s.sep,
              groups |-> s.groups, track |-> s.track]
      /\ s.groups \in Paths
  BY StateParts
<1> DEFINE front == IF s.track THEN SubSeq(g, 1, Len(g) - 1) ELSE g
<1>10. front = s.groups
  <2> DEFINE S == STRING
  <2>1. name \in S /\ s.groups \in Seq(S)
    BY <1>9 DEF Paths
  <2> HIDE DEF S
  <2> DEFINE more == Append(s.groups, name)
  <2>2. SubSeq(more, 1, Len(more) - 1) = s.groups
    BY <2>1, CutAppend
  <2> HIDE DEF more
  <2>3. g = IF s.track THEN more ELSE s.groups
    BY DEF more
  <2> HIDE DEF g
  <2> QED
    BY <2>2, <2>3
<1>11. u = [s EXCEPT !.buf = text, !.sep = FALSE, !.groups = g]
  BY DEF Opened
<1> HIDE DEF u, v, text, g, front, c, t, member, b, l
<1> DEFINE one == Join(text, t)
           two == Join(one, c)
<1>12. Json!CloseGroup(v) = [s EXCEPT !.buf = two, !.sep = TRUE, !.groups = front]
  <2> HIDE DEF one
  <2>1. v = [s EXCEPT !.buf = one, !.sep = TRUE, !.groups = g]
    BY <1>6, <1>9, <1>11 DEF one
  <2>2. v.buf = one /\ v.groups = g
    BY <1>9, <2>1
  <2> HIDE DEF two
  <2>3. Json!CloseGroup(v) = [v EXCEPT !.buf = two, !.sep = TRUE, !.groups = front]
    BY <1>8, <2>2 DEF two, front
  <2> QED
    BY <1>9, <2>1, <2>3
<1>13. two = Join(b, Join(l, member))
  BY <1>4
<1> HIDE DEF two
<1>14. [s EXCEPT !.buf = two, !.sep = TRUE, !.groups = front]
         = [s EXCEPT !.buf = two, !.sep = TRUE]
  BY <1>9, <1>10
<1>15. [s EXCEPT !.buf = two, !.sep = TRUE] = Wrote(s, member)
  BY <1>13 DEF Wrote, b, l
<1>16. After(s, <<member>>) = Wrote(s, member)
  BY <1>3, AfterOne
<1> QED
  BY <1>12, <1>14, <1>15, <1>16 DEF u, v, member

(* A group is written as the rules say if what it holds is.                *)
LEMMA GroupAdds ==
  ASSUME NEW o, NEW a \in Attrs, a.kind = "group",
         \A i \in DOMAIN a.attrs : AddsRight(o, a.attrs[i])
  PROVE  AddsRight(o, a)
<1> SUFFICES ASSUME NEW s \in Json!States(o), s.track
             PROVE  Json!AppendAttr(o)[a][s]
                      = Adds(s, KeptOf("json", o.removed)[a][s.groups])
  BY DEF AddsRight
<1> DEFINE gone == o.removed
           key == a.key
           p == In(s.groups, key)
           m == Kept("json", a.attrs, p, gone)
           u == IF key = NoKey THEN s ELSE Opened(s, key)
           in == Adds(u, m)
<1>1. a.attrs \in Seq(Attrs) /\ key \in STRING \cup {NoKey} /\ s.groups \in Paths
  BY AttrKinds, StateParts
<1>2. p \in Paths
  BY <1>1, InPaths
<1>3. m \in Seq(Ended)
  BY <1>1, <1>2, JsonKept
<1>4. KeptOf("json", gone)[a][s.groups] = Nest("json", key, m)
  BY <1>1, KeptOfGroup
<1>5. u \in Json!States(o) /\ u.track /\ u.groups = p
  <2>1. CASE key = NoKey
    BY <2>1 DEF In
  <2>2. CASE key # NoKey
    <3>1. key \in STRING
      BY <1>1, <2>2
    <3>2. Opened(s, key) \in Json!States(o) /\ Opened(s, key).track
          /\ Opened(s, key).groups = Append(s.groups, key)
      BY <3>1, OpenedParts
    <3> QED
      BY <2>2, <3>2 DEF In
  <2> QED
    BY <2>1, <2>2
<1>6. u = IF key = NoKey THEN s ELSE Json!OpenGroup(s, key)
  BY <1>1, OpenGroupIs
<1>7. Json!AppendEach(u, Json!Calls(o, a.attrs)) = in
  <2> HIDE DEF u
  <2>1. Json!AppendEach(u, Json!Calls(o, a.attrs))
          = Adds(u, Kept("json", a.attrs, u.groups, o.removed))
    BY <1>1, <1>5, EachAdds
  <2> QED
    BY <1>5, <2>1
<1>8. in.s = After(u, m) /\ in.written = (m # <<>>)
  BY DEF Adds, Json!Written
<1>9. Json!AppendAttr(o)[a][s] = Json!AppendGroup(s, key, Json!Calls(o, a.attrs))
  BY JsonOfGroup
<1>10. Json!AppendGroup(s, key, Json!Calls(o, a.attrs))
         = CASE ~in.written ->
                  Json!Written([in.s EXCEPT !.buf = SubSeq(@, 1, Len(s.buf)),
                                            !.sep = s.sep,
                                            !.groups = SubSeq(@, 1, Len(s.groups))], FALSE)
             [] in.written /\ key = NoKey -> in
             [] OTHER -> Json!Written(Json!CloseGroup(in.s), TRUE)
  <2> HIDE DEF in, u
  <2> QED
    BY <1>6, <1>7 DEF Json!AppendGroup
<1> HIDE DEF in, m, gone
<1>11. CASE m = <<>>
  <2>1. in.s = u /\ ~in.written
    BY <1>8, <1>11 DEF After
  <2>2. Nest("json", key, m) = <<>>
    BY <1>11 DEF Nest
  <2>3. [u EXCEPT !.buf = SubSeq(@, 1, Len(s.buf)), !.sep = s.sep,
                  !.groups = SubSeq(@, 1, Len(s.groups))] = s
    <3>1. CASE key = NoKey
      <4>1. u = s
        BY <3>1
      <4>2. SubSeq(s.buf, 1, Len(s.buf)) = s.buf
        BY StateParts, AllOfList
      <4>3. SubSeq(s.groups, 1, Len(s.groups)) = s.groups
        <5>1. s.groups \in Seq(STRING)
          BY <1>1 DEF Paths
        <5> QED
          BY <5>1, AllOfList
      <4>4. [s EXCEPT !.buf = s.buf, !.sep = s.sep, !.groups = s.groups] = s
        BY StateParts
      <4> QED
        BY <4>1, <4>2, <4>3, <4>4
    <3>2. CASE key # NoKey
      <4>1. key \in STRING /\ u = Opened(s, key)
        BY <1>1, <3>2
      <4> HIDE DEF u
      <4> QED
        BY <4>1, CutOpened
    <3> QED
      BY <3>1, <3>2
  <2>4. Adds(s, <<>>) = Json!Written(s, FALSE)
    BY DEF Adds, After
  <2>5. Json!AppendGroup(s, key, Json!Calls(o, a.attrs)) = Json!Written(s, FALSE)
    <3> HIDE DEF u
    <3> QED
      BY <1>10, <2>1, <2>3
  <2> QED
    BY <1>4, <1>9, <2>2, <2>4, <2>5 DEF gone
<1>12. CASE m # <<>> /\ key = NoKey
  <2>1. in.written
    BY <1>8, <1>12
  <2>2. Json!AppendGroup(s, key, Json!Calls(o, a.attrs)) = in
    BY <1>10, <1>12, <2>1
  <2>3. Nest("json", key, m) = m
    BY <1>12 DEF Nest
  <2>4. in = Adds(s, m)
    BY <1>12 DEF in
  <2> QED
    BY <1>4, <1>9, <2>2, <2>3, <2>4 DEF gone
<1>13. CASE m # <<>> /\ key # NoKey
  <2> DEFINE one == <<GroupIn("json", key, m)>>
  <2>1. in.written /\ key \in STRING /\ u = Opened(s, key)
    BY <1>1, <1>8, <1>13
  <2>2. Json!AppendGroup(s, key, Json!Calls(o, a.attrs)) = Json!Written(Json!CloseGroup(in.s), TRUE)
    BY <1>10, <1>13, <2>1
  <2>3. Json!CloseGroup(in.s) = After(s, one)
    <3> HIDE DEF u
    <3> QED
      BY <1>3, <1>8, <1>13, <2>1, ClosedGroup
  <2>4. Nest("json", key, m) = one /\ one # <<>>
    BY <1>13 DEF Nest
  <2> HIDE DEF one
  <2>5. Adds(s, one) = Json!Written(After(s, one), TRUE)
    BY <2>4 DEF Adds
  <2> QED
    BY <1>4, <1>9, <2>2, <2>3, <2>4, <2>5 DEF gone
<1> QED
  BY <1>11, <1>12, <1>13
-----------------------------------------------------------------------------
(* By induction over attributes, each is written as the rules say.         *)
LEMMA AttrsAdd ==
  ASSUME NEW o, Fair(o)
  PROVE  \A a \in Attrs : AddsRight(o, a)
<1> DEFINE T == {a \in Attrs : AddsRight(o, a)}
<1>1. ASSUME NEW a \in Attrs,
             a.kind = "group" => \A i \in DOMAIN a.attrs : a.attrs[i] \in T
      PROVE  a \in T
  <2>1. CASE a.kind = "empty"
    <3>1. ASSUME NEW s \in Json!States(o)
          PROVE  Json!AppendAttr(o)[a][s] = Adds(s, KeptOf("json", o.removed)[a][s.groups])
      <4> DEFINE kept == KeptOf("json", o.removed)[a][s.groups]
      <4>1. kept = <<>>
        BY <2>1, StateParts, KeptOfEmpty
      <4>2. Json!AppendAttr(o)[a][s] = Json!Written(s, FALSE)
        BY <2>1, JsonOfEmpty
      <4> HIDE DEF kept
      <4>3. Adds(s, <<>>) = Json!Written(s, FALSE)
        BY DEF Adds, After
      <4> QED
        BY <4>1, <4>2, <4>3 DEF kept
    <3>2. AddsRight(o, a)
      BY <3>1 DEF AddsRight
    <3> QED
      BY <3>2
  <2>2. CASE a.kind = "leaf"
    <3>1. AddsRight(o, a)
      BY <2>2, LeafAdds
    <3> QED
      BY <3>1
  <2>3. CASE a.kind = "group"
    <3>1. \A i \in DOMAIN a.attrs : AddsRight(o, a.attrs[i])
      BY <1>1, <2>3
    <3>2. AddsRight(o, a)
      BY <2>3, <3>1, GroupAdds
    <3> QED
      BY <3>2
  <2> QED
    BY <2>1, <2>2, <2>3, AttrKinds
<1>2. Attrs \subseteq T
  <2> HIDE DEF T
  <2> QED
    BY <1>1, AttrInduction
<1> QED
  BY <1>2

(* All that AppendAll makes of a list.                                     *)
LEMMA AllAdds ==
  ASSUME NEW o, Fair(o), NEW s \in Json!States(o), NEW attrs \in Seq(Attrs),
         s.track \/ \A i \in DOMAIN attrs : attrs[i].kind # "group"
  PROVE  Json!AppendEach(s, Json!Calls(o, attrs))
           = Adds(s, Kept("json", attrs, s.groups, o.removed))
<1>1. \A i \in DOMAIN attrs : AddsRight(o, attrs[i])
  BY AttrsAdd
<1> QED
  BY <1>1, EachAdds
-----------------------------------------------------------------------------
(* Parts of sequences: groups are opened in a prefix, or still to be       *)
(* opened.                                                                 *)
LEMMA FrontPart ==
  ASSUME NEW S, NEW list \in Seq(S), NEW n \in 0..Len(list)
  PROVE  /\ SubSeq(list, 1, n) \in Seq(S)
         /\ SubSeq(list, n + 1, Len(list)) \in Seq(S)
         /\ SubSeq(list, 1, n) \o SubSeq(list, n + 1, Len(list)) = list
<1> DEFINE N == Len(list)
           a == SubSeq(list, 1, n)
           b == SubSeq(list, n + 1, N)
           c == a \o b
<1>1. N \in Nat /\ n \in Nat /\ n <= N
  OBVIOUS
<1>2. a \in Seq(S) /\ Len(a) = n /\ \A i \in 1..n : a[i] = list[i]
  BY <1>1
<1>3. b \in Seq(S) /\ Len(b) = N - n /\ \A i \in 1..(N - n) : b[i] = list[n + i]
  <2>1. \A i \in (n + 1)..N : list[i] \in S
    BY <1>1
  <2>2. b = [i \in 1..(N - n) |-> list[n + i]]
    BY <1>1
  <2>3. \A i \in 1..(N - n) : n + i \in (n + 1)..N
    BY <1>1
  <2>4. N - n \in Nat
    BY <1>1
  <2> HIDE DEF N, b
  <2>5. \A i \in 1..(N - n) : list[n + i] \in S
    BY <2>1, <2>3
  <2> QED
    BY <2>2, <2>4, <2>5
<1> HIDE DEF a, b, N
<1>4. /\ c \in Seq(S) /\ Len(c) = Len(a) + Len(b)
      /\ \A i \in 1..(Len(a) + Len(b)) : c[i] = IF i <= Len(a) THEN a[i] ELSE b[i - Len(a)]
  BY <1>2, <1>3, ConcatProperties
<1> HIDE DEF c
<1>5. ASSUME NEW i \in 1..N PROVE c[i] = list[i]
  <2>1. CASE i <= n
    BY <1>1, <1>2, <1>3, <1>4, <2>1
  <2>2. CASE ~(i <= n)
    <3>1. i - n \in 1..(N - n) /\ n + (i - n) = i
      BY <1>1, <2>2
    <3>2. c[i] = b[i - n]
      BY <1>1, <1>2, <1>3, <1>4, <2>2
    <3> QED
      BY <1>3, <3>1, <3>2
  <2> QED
    BY <2>1, <2>2
<1>6. Len(c) = N
  BY <1>1, <1>2, <1>3, <1>4
<1>7. c = list
  BY <1>4, <1>5, <1>6, SeqEqual DEF N
<1> QED
  BY <1>2, <1>3, <1>7 DEF a, b, c, N

LEMMA EndOfAppend ==
  ASSUME NEW S, NEW list \in Seq(S), NEW e \in S, NEW n \in 0..Len(list)
  PROVE  SubSeq(Append(list, e), n + 1, Len(list) + 1)
           = Append(SubSeq(list, n + 1, Len(list)), e)
<1> DEFINE N == Len(list)
           t == Append(list, e)
           a == SubSeq(t, n + 1, N + 1)
           b == SubSeq(list, n + 1, N)
           c == Append(b, e)
<1>1. N \in Nat /\ n \in Nat /\ n <= N
  OBVIOUS
<1>2. /\ t \in Seq(S) /\ Len(t) = N + 1 /\ t[N + 1] = e
      /\ \A i \in 1..N : t[i] = list[i]
  BY AppendProperties
<1>3. b \in Seq(S) /\ Len(b) = N - n /\ \A i \in 1..(N - n) : b[i] = list[n + i]
  <2>1. b \in Seq(S)
    BY FrontPart
  <2>2. b = [i \in 1..(N - n) |-> list[n + i]]
    BY <1>1
  <2>3. N - n \in Nat
    BY <1>1
  <2> HIDE DEF b, N
  <2> QED
    BY <2>1, <2>2, <2>3
<1>4. /\ a \in Seq(S) /\ Len(a) = N - n + 1
      /\ \A i \in 1..(N - n + 1) : a[i] = t[n + i]
  <2> HIDE DEF t, N
  <2>1. n \in 0..Len(t) /\ Len(t) = N + 1
    BY <1>1, <1>2
  <2>2. a \in Seq(S)
    BY <1>2, <2>1, FrontPart
  <2>3. a = [i \in 1..(N - n + 1) |-> t[n + i]]
    BY <1>1, <1>2
  <2>4. N - n + 1 \in Nat
    BY <1>1
  <2> HIDE DEF a
  <2> QED
    BY <2>2, <2>3, <2>4
<1> HIDE DEF a, b, t, N
<1>5. /\ c \in Seq(S) /\ Len(c) = N - n + 1 /\ c[N - n + 1] = e
      /\ \A i \in 1..(N - n) : c[i] = b[i]
  <2>1. b \in Seq(S) /\ e \in S
    BY <1>3
  <2>2. /\ c \in Seq(S) /\ Len(c) = Len(b) + 1 /\ c[Len(b) + 1] = e
        /\ \A i \in 1..Len(b) : c[i] = b[i]
    BY <2>1, AppendProperties
  <2> HIDE DEF c
  <2> QED
    BY <1>3, <2>2
<1> HIDE DEF c
<1>6. ASSUME NEW i \in 1..(N - n + 1) PROVE a[i] = c[i]
  <2>1. CASE i = N - n + 1
    BY <1>1, <1>2, <1>4, <1>5, <2>1
  <2>2. CASE i # N - n + 1
    <3>1. i \in 1..(N - n) /\ n + i \in 1..N
      BY <1>1, <2>2
    <3> QED
      BY <1>2, <1>3, <1>4, <1>5, <3>1
  <2> QED
    BY <2>1, <2>2
<1>7. a = c
  BY <1>4, <1>5, <1>6, SeqEqual
<1> QED
  BY <1>7 DEF a, b, c, t, N

LEMMA PastTheEnd ==
  ASSUME NEW S, NEW list \in Seq(S)
  PROVE  SubSeq(list, Len(list) + 1, Len(list)) = <<>>
<1>1. Len(list) \in Nat
  OBVIOUS
<1> QED
  BY <1>1

(* The braces and keys of groups within groups.                            *)
OpenOf == [name \in STRING |-> Join(<<KeyTok(name)>>, <<BraceTok>>)]

Opens(names) == Flat(names, OpenOf)

LEMMA OpenOfType ==
  /\ OpenOf \in Makers(STRING, Seq(Toks))
  /\ \A name \in STRING : OpenOf[name] = Join(<<KeyTok(name)>>, <<BraceTok>>)
                          /\ OpenOf[name] \in Seq(Toks)
<1>1. ASSUME NEW name \in STRING PROVE Join(<<KeyTok(name)>>, <<BraceTok>>) \in Seq(Toks)
  <2> DEFINE k == <<KeyTok(name)>>
             b == <<BraceTok>>
  <2>1. k \in Seq(Toks) /\ b \in Seq(Toks)
    BY KeyToken, PunctuationTokens, OneToken
  <2> HIDE DEF k, b
  <2>2. Join(k, b) \in Seq(Toks)
    BY <2>1, JoinType
  <2> QED
    BY <2>2 DEF k, b
<1> DEFINE all == Seq(Toks)
<1>2. \A name \in STRING : Join(<<KeyTok(name)>>, <<BraceTok>>) \in all
  BY <1>1
<1> HIDE DEF all
<1>3. OpenOf \in [STRING -> all]
  BY <1>2 DEF OpenOf
<1> QED
  BY <1>2, <1>3 DEF Makers, OpenOf, all

LEMMA OpensAre ==
  ASSUME NEW names \in Paths
  PROVE  /\ Opens(names) \in Seq(Toks)
         /\ Opens(<<>>) = <<>>
         /\ \A name \in STRING :
              Opens(Append(names, name))
                = Join(Opens(names), Join(<<KeyTok(name)>>, <<BraceTok>>))
<1> DEFINE S == STRING
<1>1. names \in Seq(S) /\ OpenOf \in Makers(S, Seq(Toks))
  BY OpenOfType DEF Paths
<1> HIDE DEF S
<1>2. Flat(names, OpenOf) \in Seq(Toks)
  BY <1>1, FlatType
<1>3. ASSUME NEW name \in S
      PROVE  Flat(Append(names, name), OpenOf) = Flat(names, OpenOf) \o OpenOf[name]
  BY <1>1, FlatAppend
<1> USE DEF S
<1>4. ASSUME NEW name \in STRING
      PROVE  Opens(Append(names, name)) = Join(Opens(names), Join(<<KeyTok(name)>>, <<BraceTok>>))
  <2> DEFINE x == OpenOf[name]
             y == Flat(names, OpenOf)
  <2>1. Flat(Append(names, name), OpenOf) = y \o x
    BY <1>3
  <2>2. x = Join(<<KeyTok(name)>>, <<BraceTok>>)
    BY OpenOfType
  <2> HIDE DEF x, y
  <2>3. Flat(Append(names, name), OpenOf) = Join(y, x)
    BY <2>1 DEF Join
  <2> QED
    BY <2>2, <2>3 DEF Opens, y
<1>5. Opens(<<>>) = <<>>
  BY FlatNone DEF Opens
<1> QED
  BY <1>2, <1>4, <1>5 DEF Opens

(* A state in which groups within groups were opened.                      *)
AllOpened(s, names) ==
  IF names = <<>> THEN s
  ELSE [s EXCEPT !.buf = Join(s.buf, Join(Lead(s.sep), Opens(names))),
                 !.sep = FALSE,
                 !.groups = s.groups \o names]

LEMMA AppendNotNone ==
  ASSUME NEW S, NEW list \in Seq(S), NEW e \in S
  PROVE  Append(list, e) \in Seq(S) /\ Append(list, e) # <<>>
<1>1. Append(list, e) \in Seq(S) /\ Len(Append(list, e)) = Len(list) + 1 /\ Len(list) \in Nat
  BY AppendProperties
<1> DEFINE t == Append(list, e)
<1> HIDE DEF t
<1>2. Len(t) # 0
  BY <1>1 DEF t
<1>3. t # <<>>
  BY <1>2
<1> QED
  BY <1>1, <1>3 DEF t

LEMMA ConcatAppend ==
  ASSUME NEW S, NEW s \in Seq(S), NEW t \in Seq(S), NEW e \in S
  PROVE  Append(s \o t, e) = s \o Append(t, e) /\ s \o t \in Seq(S)
OBVIOUS

LEMMA PathAppends ==
  ASSUME NEW names \in Paths, NEW name \in STRING
  PROVE  Append(names, name) \in Paths /\ Append(names, name) # <<>>
<1> DEFINE S == STRING
<1>1. name \in S /\ names \in Seq(S)
  BY DEF Paths
<1> HIDE DEF S
<1>2. Append(names, name) \in Seq(S) /\ Append(names, name) # <<>>
  BY <1>1, AppendNotNone
<1> QED
  BY <1>2 DEF Paths, S

LEMMA GroupsAppend ==
  ASSUME NEW g \in Paths, NEW names \in Paths, NEW name \in STRING
  PROVE  /\ Append(g \o names, name) = g \o Append(names, name)
         /\ g \o names \in Paths /\ g \o <<>> = g
<1> DEFINE S == STRING
<1>1. g \in Seq(S) /\ name \in S /\ names \in Seq(S)
  BY DEF Paths
<1> HIDE DEF S
<1>2. Append(g \o names, name) = g \o Append(names, name) /\ g \o names \in Seq(S)
  BY <1>1, ConcatAppend
<1>3. g \o <<>> = g
  BY <1>1, ConcatEmptySeq
<1> QED
  BY <1>2, <1>3 DEF Paths, S

LEMMA GroupsConcat ==
  ASSUME NEW g \in Paths, NEW names \in Paths
  PROVE  g \o names \in Paths
<1> DEFINE S == STRING
<1>1. g \in Seq(S) /\ names \in Seq(S)
  BY DEF Paths
<1> HIDE DEF S
<1>2. g \o names \in Seq(S)
  BY <1>1
<1> QED
  BY <1>2 DEF Paths, S

LEMMA OpenedType ==
  ASSUME NEW o, NEW s \in Json!States(o), NEW names \in Paths
  PROVE  AllOpened(s, names) \in Json!States(o)
<1>1. CASE names = <<>>
  BY <1>1 DEF AllOpened
<1>2. CASE names # <<>>
  <2> DEFINE b == s.buf
             l == Lead(s.sep)
             x == Opens(names)
             text == Join(b, Join(l, x))
             g == s.groups \o names
  <2>1. b \in Seq(Toks) /\ l \in Seq(Toks) /\ x \in Seq(Toks) /\ s.groups \in Paths
    BY StateParts, OpensAre
  <2>2. text \in Seq(Toks)
    <3> HIDE DEF b, l, x
    <3>1. Join(l, x) \in Seq(Toks)
      BY <2>1, JoinType
    <3> QED
      BY <2>1, <3>1, JoinType
  <2>3. g \in Paths
    BY <2>1, GroupsConcat
  <2>4. AllOpened(s, names) = [s EXCEPT !.buf = text, !.sep = FALSE, !.groups = g]
    BY <1>2 DEF AllOpened
  <2> HIDE DEF text, g
  <2>5. [s EXCEPT !.buf = text, !.sep = FALSE, !.groups = g] \in Json!States(o)
    <3>1. FALSE \in BOOLEAN
      OBVIOUS
    <3> QED
      BY <2>2, <2>3, <3>1, StateWith
  <2> QED
    BY <2>4, <2>5
<1> QED
  BY <1>1, <1>2

LEMMA OpenedMore ==
  ASSUME NEW o, NEW s \in Json!States(o), s.track, NEW names \in Paths, NEW name \in STRING
  PROVE  Json!OpenGroup(AllOpened(s, names), name) = AllOpened(s, Append(names, name))
<1> DEFINE u == AllOpened(s, names)
           b == s.buf
           l == Lead(s.sep)
           x == Opens(names)
           kb == Join(<<KeyTok(name)>>, <<BraceTok>>)
           y == Opens(Append(names, name))
           g == s.groups
           all == Append(names, name)
           text == Join(b, Join(l, y))
           groups == g \o all
<1>1. u \in Json!States(o)
  BY OpenedType
<1>2. Json!OpenGroup(u, name) = Opened(u, name)
  <2> HIDE DEF u
  <2> QED
    BY <1>1, OpenGroupIs
<1>3. /\ b \in Seq(Toks) /\ l \in Seq(Toks) /\ x \in Seq(Toks) /\ kb \in Seq(Toks)
      /\ g \in Paths
  <2>1. OpenOf[name] = kb /\ OpenOf[name] \in Seq(Toks)
    BY OpenOfType
  <2> QED
    BY <2>1, StateParts, OpensAre
<1>4. y = Join(x, kb) /\ all # <<>>
  BY OpensAre, PathAppends
<1>5. AllOpened(s, all) = [s EXCEPT !.buf = text, !.sep = FALSE, !.groups = groups]
  <2> HIDE DEF all
  <2> QED
    BY <1>4 DEF AllOpened, all
<1>6. s = [options |-> s.options, buf |-> s.buf, sep |-> s.sep,
           groups |-> s.groups, track |-> s.track]
  BY StateParts
<1> DEFINE text1 == Join(u.buf, Join(Lead(u.sep), kb))
           groups1 == Append(u.groups, name)
<1>7. u.track
  <2>1. CASE names = <<>>
    BY <2>1 DEF AllOpened
  <2>2. CASE names # <<>>
    <3> DEFINE t == Join(b, Join(l, x))
               h == g \o names
    <3>1. u = [s EXCEPT !.buf = t, !.sep = FALSE, !.groups = h]
      BY <2>2 DEF AllOpened
    <3> HIDE DEF u, t, h
    <3> QED
      BY <1>6, <3>1
  <2> QED
    BY <2>1, <2>2
<1>8. Opened(u, name) = [u EXCEPT !.buf = text1, !.sep = FALSE, !.groups = groups1]
  <2> HIDE DEF u
  <2> QED
    BY <1>7 DEF Opened
<1>9. CASE names = <<>>
  <2>1. u = s
    BY <1>9 DEF AllOpened
  <2>2. y = kb
    <3>1. x = <<>>
      BY <1>9, OpensAre
    <3> HIDE DEF x, kb, y
    <3> QED
      BY <1>3, <1>4, <3>1, JoinEmpty
  <2>3. text1 = text
    <3> HIDE DEF y, kb, u
    <3> QED
      BY <2>1, <2>2
  <2>4. groups1 = groups
    <3>1. Append(g \o names, name) = g \o Append(names, name) /\ g \o <<>> = g
      <4> HIDE DEF g
      <4> QED
        BY <1>3, GroupsAppend
    <3>2. g \o names = g
      BY <1>9, <3>1
    <3>3. u.groups = g
      BY <2>1
    <3> HIDE DEF u, g
    <3> QED
      BY <3>1, <3>2, <3>3
  <2> HIDE DEF u, text, text1, groups, groups1
  <2> QED
    BY <1>2, <1>5, <1>8, <2>1, <2>3, <2>4 DEF u, all
<1>10. CASE names # <<>>
  <2> DEFINE t == Join(b, Join(l, x))
             h == g \o names
  <2>1. u = [s EXCEPT !.buf = t, !.sep = FALSE, !.groups = h]
    BY <1>10 DEF AllOpened
  <2>2. u.buf = t /\ u.sep = FALSE /\ u.groups = h
    <3> HIDE DEF u, t, h
    <3> QED
      BY <1>6, <2>1
  <2>3. groups1 = groups
    <3>1. Append(g \o names, name) = g \o Append(names, name)
      <4> HIDE DEF g
      <4> QED
        BY <1>3, GroupsAppend
    <3> HIDE DEF u, g
    <3> QED
      BY <2>2, <3>1
  <2>4. text1 = text
    <3>1. Join(Lead(FALSE), kb) = kb
      <4>1. Lead(FALSE) = <<>>
        BY DEF Lead
      <4> HIDE DEF kb
      <4> QED
        BY <1>3, <4>1, JoinEmpty
    <3>2. Join(t, kb) = Join(b, Join(l, Join(x, kb)))
      <4> HIDE DEF b, l, x, kb
      <4> QED
        BY <1>3, FourParts
    <3>3. text1 = Join(t, kb)
      <4> HIDE DEF u, t, kb
      <4> QED
        BY <2>2, <3>1
    <3> HIDE DEF text1, t, y, kb, x, b, l
    <3> QED
      BY <1>4, <3>2, <3>3
  <2> HIDE DEF u, t, h, text, text1, groups, groups1
  <2>5. [u EXCEPT !.buf = text1, !.sep = FALSE, !.groups = groups1]
          = [s EXCEPT !.buf = text, !.sep = FALSE, !.groups = groups]
    BY <1>6, <2>1, <2>3, <2>4
  <2> QED
    BY <1>2, <1>5, <1>8, <2>5 DEF u, all
<1> QED
  BY <1>9, <1>10

(* Groups opened one after the other, by the names.                        *)
LEMMA OpenGroupsAre ==
  ASSUME NEW o, NEW s \in Json!States(o), s.track, NEW names \in Paths
  PROVE  Json!OpenGroups(s, names) = AllOpened(s, names)
<1> DEFINE N == Len(names)
           Start(n) == SubSeq(names, 1, n)
<1>1. N \in Nat /\ names \in Seq(STRING)
  BY DEF Paths
<1>2. PICK f : OpenGroupsTurns(f, s, names)
  BY <1>1, OpenGroupsLoop
<1>3. ASSUME NEW n \in 1..N
      PROVE  /\ Start(n - 1) \in Paths /\ names[n] \in STRING
             /\ Start(n) = Append(Start(n - 1), names[n])
  <2> DEFINE S == STRING
  <2>1. names \in Seq(S)
    BY <1>1
  <2> HIDE DEF S
  <2>2. SubSeq(names, 1, n - 1) \in Seq(S) /\ names[n] \in S
        /\ SubSeq(names, 1, n) = Append(SubSeq(names, 1, n - 1), names[n])
    BY <2>1, StartAppend
  <2> QED
    BY <2>2 DEF Paths, S
<1>4. Start(0) = <<>> /\ Start(N) = names
  BY <1>1, StartNone, AllOfList
<1> HIDE DEF Start, N
<1> DEFINE U == {n \in 0..N : f[n] = AllOpened(s, Start(n))}
<1>5. 0 \in U
  <2>1. AllOpened(s, <<>>) = s
    BY DEF AllOpened
  <2>2. f[0] = s
    BY <1>2 DEF OpenGroupsTurns
  <2>3. 0 \in 0..N
    BY <1>1
  <2>4. AllOpened(s, Start(0)) = s
    BY <1>4, <2>1
  <2> QED
    BY <2>2, <2>3, <2>4
<1>6. ASSUME NEW n \in 1..N, n - 1 \in U PROVE n \in U
  <2>1. f[n] = Json!OpenGroup(f[n - 1], names[n])
    BY <1>2 DEF OpenGroupsTurns, N
  <2>2. f[n - 1] = AllOpened(s, Start(n - 1))
    BY <1>6
  <2> DEFINE list == Start(n - 1)
             name == names[n]
  <2>3. list \in Paths /\ name \in STRING
    BY <1>3
  <2> HIDE DEF list, name
  <2>4. Json!OpenGroup(AllOpened(s, list), name) = AllOpened(s, Append(list, name))
    BY <2>3, OpenedMore
  <2>5. f[n] = AllOpened(s, Start(n))
    BY <1>3, <2>1, <2>2, <2>4 DEF list, name
  <2>6. n \in 0..N
    BY <1>1
  <2> QED
    BY <2>5, <2>6
<1>7. 0..N \subseteq U
  <2> HIDE DEF U
  <2> QED
    BY <1>1, <1>5, <1>6, UpTo
<1>8. f[N] = AllOpened(s, Start(N))
  BY <1>1, <1>7
<1> QED
  BY <1>2, <1>4, <1>8 DEF OpenGroupsTurns, N

(* What is written once groups are opened.                                 *)
LEMMA WrittenInOpened ==
  ASSUME NEW o, NEW s \in Json!States(o), NEW names \in Paths,
         NEW m \in Seq(Ended), m # <<>>
  PROVE  After(AllOpened(s, names), m).buf
           = Join(s.buf, Join(Lead(s.sep), Join(Opens(names), JsonText(m))))
<1> DEFINE u == AllOpened(s, names)
           b == s.buf
           l == Lead(s.sep)
           x == Opens(names)
           t == JsonText(m)
<1>1. u \in Json!States(o)
  BY OpenedType
<1>2. After(u, m) = Wrote(u, t)
  <2> HIDE DEF u
  <2> QED
    BY <1>1, AfterWrote
<1>3. Wrote(u, t).buf = Join(u.buf, Join(Lead(u.sep), t))
  <2> DEFINE y == Join(u.buf, Join(Lead(u.sep), t))
  <2>1. Wrote(u, t) = [u EXCEPT !.buf = y, !.sep = TRUE]
    BY DEF Wrote
  <2> HIDE DEF u, y
  <2> QED
    BY <1>1, <2>1, StateParts DEF y
<1>4. b \in Seq(Toks) /\ l \in Seq(Toks) /\ x \in Seq(Toks) /\ t \in Seq(Toks)
  BY StateParts, OpensAre, TextType
<1>5. CASE names = <<>>
  <2>1. u = s /\ x = <<>>
    BY <1>5, OpensAre DEF AllOpened
  <2>2. Join(x, t) = t
    <3> HIDE DEF x, t
    <3> QED
      BY <1>4, <2>1, JoinEmpty
  <2> HIDE DEF u, x, t
  <2> QED
    BY <1>2, <1>3, <2>1, <2>2 DEF u, x, t
<1>6. CASE names # <<>>
  <2> DEFINE y == Join(b, Join(l, x))
             h == s.groups \o names
  <2>1. u = [s EXCEPT !.buf = y, !.sep = FALSE, !.groups = h]
    BY <1>6 DEF AllOpened
  <2>2. u.buf = y /\ u.sep = FALSE
    <3> HIDE DEF u, y, h
    <3> QED
      BY <2>1, StateParts
  <2>3. Lead(FALSE) = <<>>
    BY DEF Lead
  <2>4. Join(<<>>, t) = t
    <3> HIDE DEF t
    <3> QED
      BY <1>4, JoinEmpty
  <2>5. Join(y, t) = Join(b, Join(l, Join(x, t)))
    <3> HIDE DEF b, l, x, t
    <3> QED
      BY <1>4, FourParts
  <2> HIDE DEF u, x, t, y
  <2> QED
    BY <1>2, <1>3, <2>2, <2>3, <2>4, <2>5 DEF u, x, t
<1> QED
  BY <1>5, <1>6

LEMMA RepeatType ==
  ASSUME NEW S, NEW c \in S, NEW n \in Nat
  PROVE  LET r == [i \in 1..n |-> c]
         IN  r \in Seq(S) /\ Len(r) = n /\ \A i \in 1..n : r[i] = c
OBVIOUS

(* Groups closed one after the other.                                      *)
LEMMA RepeatMore ==
  ASSUME NEW S, NEW c \in S, NEW n \in Nat
  PROVE  LET r(m) == [i \in 1..m |-> c]
         IN  /\ r(0) = <<>>
             /\ r(n + 1) = Join(r(n), <<c>>)
             /\ r(n + 1) = Join(<<c>>, r(n))
<1> DEFINE r == [i \in 1..n |-> c]
           more == [i \in 1..(n + 1) |-> c]
           one == <<c>>
           a == r \o one
           b == one \o r
<1>1. r \in Seq(S) /\ Len(r) = n /\ \A i \in 1..n : r[i] = c
  BY RepeatType
<1>2. more \in Seq(S) /\ Len(more) = n + 1 /\ \A i \in 1..(n + 1) : more[i] = c
  <2>1. n + 1 \in Nat
    OBVIOUS
  <2> QED
    BY <2>1, RepeatType
<1>3. one \in Seq(S) /\ Len(one) = 1 /\ one[1] = c
  OBVIOUS
<1> HIDE DEF r, more, one
<1>4. /\ a \in Seq(S) /\ Len(a) = Len(r) + Len(one)
      /\ \A i \in 1..(Len(r) + Len(one)) : a[i] = IF i <= Len(r) THEN r[i] ELSE one[i - Len(r)]
  BY <1>1, <1>3, ConcatProperties
<1>5. /\ b \in Seq(S) /\ Len(b) = Len(one) + Len(r)
      /\ \A i \in 1..(Len(one) + Len(r)) : b[i] = IF i <= Len(one) THEN one[i] ELSE r[i - Len(one)]
  BY <1>1, <1>3, ConcatProperties
<1> HIDE DEF a, b
<1>6. ASSUME NEW i \in 1..(n + 1) PROVE a[i] = c /\ b[i] = c
  <2>1. CASE i = 1
    BY <1>1, <1>3, <1>4, <1>5, <2>1
  <2>2. CASE i # 1 /\ i = n + 1
    BY <1>1, <1>3, <1>4, <1>5, <2>2
  <2>3. CASE i # 1 /\ i # n + 1
    BY <1>1, <1>3, <1>4, <1>5, <2>3
  <2> QED
    BY <2>1, <2>2, <2>3
<1>7. Len(a) = n + 1 /\ Len(b) = n + 1
  BY <1>1, <1>3, <1>4, <1>5
<1>8. more = a
  BY <1>2, <1>4, <1>6, <1>7, SeqEqual
<1>9. more = b
  BY <1>2, <1>5, <1>6, <1>7, SeqEqual
<1>10. [i \in 1..0 |-> c] = <<>>
  OBVIOUS
<1> QED
  BY <1>8, <1>9, <1>10 DEF a, b, r, more, one, Join

LEMMA ClosedAre ==
  ASSUME NEW n \in Nat
  PROVE  /\ Json!Closed(n) \in Seq(Toks)
         /\ Json!Closed(0) = <<>>
         /\ Json!Closed(n + 1) = Join(Json!Closed(n), <<CloseTok>>)
         /\ Json!Closed(n + 1) = Join(<<CloseTok>>, Json!Closed(n))
<1>1. \A m : Json!Closed(m) = [i \in 1..m |-> CloseTok]
  BY SameTokens DEF Json!Closed
<1>2. CloseTok \in Toks
  BY PunctuationTokens
<1> QED
  BY <1>1, <1>2, RepeatType, RepeatMore

(* What follows is joined to what is joined already.                       *)
LEMMA JoinLast4 ==
  ASSUME NEW S, NEW a \in Seq(S), NEW b \in Seq(S), NEW c \in Seq(S),
         NEW d \in Seq(S), NEW e \in Seq(S)
  PROVE  Join(Join(a, Join(b, Join(c, d))), e)
           = Join(a, Join(b, Join(c, Join(d, e))))
<1> DEFINE all == Seq(S)
           cd == Join(c, d)
           bcd == Join(b, cd)
<1>1. \A x, y \in all : Join(x, y) \in all
  BY JoinType
<1>2. \A x, y, z \in all : Join(Join(x, y), z) = Join(x, Join(y, z))
  BY JoinAssoc
<1>3. a \in all /\ b \in all /\ c \in all /\ d \in all /\ e \in all
  OBVIOUS
<1> HIDE DEF all
<1>4. cd \in all
  BY <1>1, <1>3
<1>5. Join(cd, e) = Join(c, Join(d, e))
  BY <1>2, <1>3
<1> HIDE DEF cd
<1>6. bcd \in all
  BY <1>1, <1>3, <1>4
<1>7. Join(bcd, e) = Join(b, Join(cd, e))
  BY <1>2, <1>3, <1>4
<1> HIDE DEF bcd
<1>8. Join(Join(a, bcd), e) = Join(a, Join(bcd, e))
  BY <1>2, <1>3, <1>6
<1> QED
  BY <1>5, <1>7, <1>8 DEF bcd, cd
-----------------------------------------------------------------------------
(* The groups of a handler that are not open in its prefix.                *)
Pending(h) == SubSeq(h.groups, h.nOpen + 1, Len(h.groups))

(* The text of members inside the groups of a handler.                     *)
Inside(h, text) ==
  Join(h.prefix,
       Join(Lead(h.prefix # <<>>),
            Join(Opens(Pending(h)), Join(text, Json!Closed(Len(h.groups))))))

(* The text of all that a logger was derived with, around members.         *)
TextAround(x) ==
  LET w == Wrapped("json", steps, x, removed)
  IN  /\ w \in Seq(Ended)
      /\ x = <<>> => /\ JsonText(w) = Join(json.prefix, Json!Closed(json.nOpen))
                     /\ w = <<>> <=> json.prefix = <<>>
      /\ x # <<>> => w # <<>> /\ JsonText(w) = Inside(json, JsonText(x))

(* The handlers there are.                                                 *)
JsonHandlers ==
  [options : Options, groups : Paths, nOpen : Nat, prefix : Seq(Toks)]

(* Handlers, the groups they are in and what is open in their prefix, and  *)
(* TextAround for anything that goes in them.                              *)
JsonInv ==
  /\ steps \in Seq(AllSteps)
  /\ json \in JsonHandlers
  /\ json.groups = PathOf(steps)
  /\ json.nOpen \in 0..Len(json.groups)
  /\ json.prefix = <<>> => json.nOpen = 0
  /\ json.prefix # <<>> => json.prefix \in Ended
  /\ \A x \in Seq(Ended) : TextAround(x)

(* A new handler has nothing, and nothing is put around members.           *)
LEMMA JsonInvInit == LoggerInit => JsonInv
<1> SUFFICES ASSUME LoggerInit PROVE JsonInv
  OBVIOUS
<1>1. steps = <<>>
  BY DEF LoggerInit
<1>2. PICK options \in Options : json = Json!NewHandler(options)
  BY DEF LoggerInit
<1>3. json = [options |-> options, groups |-> <<>>, nOpen |-> 0, prefix |-> <<>>]
  BY <1>2 DEF Json!NewHandler
<1>4. json \in JsonHandlers
  <2>1. <<>> \in Paths /\ <<>> \in Seq(Toks) /\ 0 \in Nat
    BY DEF Paths
  <2> QED
    BY <1>2, <1>3, <2>1 DEF JsonHandlers
<1>5. /\ json.groups = PathOf(steps) /\ json.nOpen \in 0..Len(json.groups)
      /\ json.prefix = <<>> /\ json.nOpen = 0 /\ json.groups = <<>> /\ Len(json.groups) = 0
  BY <1>1, <1>3, PathNone
<1>6. ASSUME NEW x \in Seq(Ended) PROVE TextAround(x)
  <2>1. Wrapped("json", steps, x, removed) = x
    BY <1>1, WrappedNone
  <2> DEFINE t == JsonText(x)
             c == Json!Closed(0)
  <2>2. c = <<>> /\ t \in Seq(Toks)
    BY ClosedAre, TextType
  <2>3. x = <<>> => t = Join(json.prefix, Json!Closed(json.nOpen))
    <3>1. Join(<<>>, <<>>) = <<>>
      BY DEF Join
    <3> QED
      BY <1>5, <2>2, <3>1, JsonTextNone
  <2>4. Inside(json, t) = t
    <3>1. Pending(json) = <<>>
      BY <1>5 DEF Pending
    <3>2. Opens(<<>>) = <<>>
      BY FlatNone DEF Opens
    <3>3. Lead(json.prefix # <<>>) = <<>>
      BY <1>5 DEF Lead
    <3> HIDE DEF t
    <3>4. Join(<<>>, t) = t /\ Join(t, <<>>) = t
      BY <2>2, JoinEmpty
    <3> QED
      BY <1>5, <2>2, <3>1, <3>2, <3>3, <3>4 DEF Inside
  <2> QED
    BY <1>5, <2>1, <2>3, <2>4 DEF TextAround
<1> QED
  BY <1>1, <1>4, <1>5, <1>6 DEF JsonInv

LEMMA RegroupOpen ==
  ASSUME NEW S, NEW p \in Seq(S), NEW k \in Seq(S), NEW b \in Seq(S),
         NEW t \in Seq(S), NEW c \in Seq(S), NEW d \in Seq(S)
  PROVE  Join(p, Join(Join(k, Join(Join(b, t), c)), d))
           = Join(Join(p, Join(k, b)), Join(t, Join(c, d)))
<1> DEFINE all == Seq(S)
           cd == Join(c, d)
           bt == Join(b, t)
           kb == Join(k, b)
           tcd == Join(t, cd)
<1>1. \A x, y \in all : Join(x, y) \in all
  BY JoinType
<1>2. \A x, y, z \in all : Join(Join(x, y), z) = Join(x, Join(y, z))
  BY JoinAssoc
<1>3. p \in all /\ k \in all /\ b \in all /\ c \in all /\ d \in all /\ t \in all
  OBVIOUS
<1> HIDE DEF all
<1>4. cd \in all /\ bt \in all /\ kb \in all
  BY <1>1, <1>3
<1>5. tcd \in all
  BY <1>1, <1>3, <1>4
<1>6. Join(Join(k, Join(bt, c)), d) = Join(k, Join(bt, cd))
  <2> HIDE DEF bt
  <2>1. Join(bt, c) \in all
    BY <1>1, <1>3, <1>4
  <2>2. Join(Join(k, Join(bt, c)), d) = Join(k, Join(Join(bt, c), d))
    BY <1>2, <1>3, <2>1
  <2>3. Join(Join(bt, c), d) = Join(bt, cd)
    BY <1>2, <1>3, <1>4
  <2> QED
    BY <2>2, <2>3
<1>7. Join(bt, cd) = Join(b, tcd)
  <2> HIDE DEF cd
  <2> QED
    BY <1>2, <1>3, <1>4
<1>8. Join(k, Join(b, tcd)) = Join(kb, tcd)
  <2> HIDE DEF tcd
  <2> QED
    BY <1>2, <1>3, <1>5
<1>9. Join(p, Join(kb, tcd)) = Join(Join(p, kb), tcd)
  <2> HIDE DEF tcd, kb
  <2> QED
    BY <1>2, <1>3, <1>4, <1>5
<1> QED
  BY <1>6, <1>7, <1>8, <1>9

LEMMA PendingType ==
  ASSUME NEW h, h.groups \in Paths, h.nOpen \in 0..Len(h.groups)
  PROVE  /\ Pending(h) \in Paths /\ SubSeq(h.groups, 1, h.nOpen) \in Paths
         /\ SubSeq(h.groups, 1, h.nOpen) \o Pending(h) = h.groups
         /\ Len(h.groups) \in Nat
<1> DEFINE S == STRING
           g == h.groups
           n == h.nOpen
<1>1. g \in Seq(S) /\ n \in 0..Len(g)
  BY DEF Paths
<1>2. Len(g) \in Nat
  BY <1>1
<1> HIDE DEF S, g, n
<1>3. /\ SubSeq(g, 1, n) \in Seq(S) /\ SubSeq(g, n + 1, Len(g)) \in Seq(S)
      /\ SubSeq(g, 1, n) \o SubSeq(g, n + 1, Len(g)) = g
  BY <1>1, FrontPart
<1> QED
  BY <1>2, <1>3 DEF Pending, g, n, Paths, S
-----------------------------------------------------------------------------
(* A group of WithGroup stays pending: it is opened once there are         *)
(* members.                                                                *)
LEMMA JsonInvWithGroup ==
  ASSUME JsonInv, NEW name \in Names, WithGroup(name)
  PROVE  JsonInv'
<1> DEFINE st == GroupStep(name)
<1>1. /\ steps \in Seq(AllSteps) /\ json \in JsonHandlers
      /\ json.groups = PathOf(steps) /\ json.nOpen \in 0..Len(json.groups)
      /\ json.prefix = <<>> => json.nOpen = 0
      /\ json.prefix # <<>> => json.prefix \in Ended
      /\ \A x \in Seq(Ended) : TextAround(x)
  BY DEF JsonInv
<1>2. /\ steps' = Append(steps, st) /\ json' = Json!WithGroup(json, name)
      /\ removed' = removed
  BY DEF WithGroup
<1>3. st \in AllSteps /\ st.kind = "group" /\ st.name = name
      /\ name \in STRING \cup {NoKey}
  BY RenderingAssumption DEF AllSteps, GroupStep
<1>4. steps' \in Seq(AllSteps)
  <2> HIDE DEF st
  <2> QED
    BY <1>1, <1>2, <1>3
<1>5. PathOf(steps') = In(PathOf(steps), name)
  <2> HIDE DEF st
  <2> QED
    BY <1>1, <1>2, <1>3, PathAppend
<1>6. ASSUME NEW x
      PROVE  Wrapped("json", steps', x, removed')
               = Wrapped("json", steps, Nest("json", name, x), removed)
  BY <1>1, <1>2, WrappedGroup
<1>7. Options' = Options
  BY <1>2 DEF Options
<1>8. CASE name = NoKey
  <2>1. json' = json
    BY <1>2, <1>8 DEF Json!WithGroup
  <2>2. ASSUME NEW x PROVE Nest("json", name, x) = x
    BY <1>8 DEF Nest
  <2>3. In(PathOf(steps), name) = PathOf(steps)
    BY <1>8 DEF In
  <2>4. ASSUME NEW x \in Seq(Ended) PROVE TextAround(x)'
    <3>1. TextAround(x)
      BY <1>1
    <3>2. Wrapped("json", steps', x, removed') = Wrapped("json", steps, x, removed)
      BY <1>6, <2>2
    <3> QED
      BY <2>1, <3>1, <3>2 DEF TextAround, Inside, Pending
  <2>5. json' \in JsonHandlers'
    BY <1>1, <1>7, <2>1 DEF JsonHandlers
  <2> QED
    BY <1>1, <1>4, <1>5, <2>1, <2>3, <2>4, <2>5 DEF JsonInv
<1>9. CASE name # NoKey
  <2> DEFINE g == json.groups
             more == Append(g, name)
             P == Pending(json)
             L == Len(g)
  <2>1. name \in STRING /\ g \in Paths
    BY <1>1, <1>3, <1>9 DEF JsonHandlers
  <2>2. json' = [json EXCEPT !.groups = more]
    BY <1>2, <1>9 DEF Json!WithGroup
  <2>3. /\ json'.groups = more /\ json'.prefix = json.prefix /\ json'.nOpen = json.nOpen
        /\ json'.options = json.options
    <3> HIDE DEF more
    <3> QED
      BY <1>1, <2>2 DEF JsonHandlers
  <2>4. more \in Paths
    BY <2>1, PathAppends
  <2>5. L \in Nat /\ Len(more) = L + 1
    <3>1. g \in Seq(STRING)
      BY <2>1 DEF Paths
    <3> HIDE DEF g
    <3> QED
      BY <3>1, AppendProperties
  <2>6. json' \in JsonHandlers'
    <3> HIDE DEF more
    <3> QED
      BY <1>1, <1>7, <2>2, <2>4 DEF JsonHandlers
  <2>7. more = PathOf(steps')
    BY <1>1, <1>5, <1>9 DEF In
  <2>8. P \in Paths
    BY <1>1, <2>1, PendingType
  <2>9. Pending(json)' = Append(P, name)
    <3> DEFINE S == STRING
               n == json.nOpen
    <3>1. g \in Seq(S) /\ name \in S /\ n \in 0..Len(g)
      BY <1>1, <2>1 DEF Paths
    <3> HIDE DEF S, g, n
    <3>2. SubSeq(Append(g, name), n + 1, Len(g) + 1) = Append(SubSeq(g, n + 1, Len(g)), name)
      BY <3>1, EndOfAppend
    <3>3. Pending(json)' = SubSeq(more, n + 1, L + 1)
      BY <2>3, <2>5 DEF Pending, n
    <3>4. P = SubSeq(g, n + 1, Len(g))
      BY DEF Pending, g, n
    <3> QED
      BY <3>2, <3>3, <3>4
  <2> HIDE DEF P, L, more
  <2>10. ASSUME NEW x \in Seq(Ended) PROVE TextAround(x)'
    <3>1. CASE x = <<>>
      <4>1. Nest("json", name, x) = <<>>
        BY <3>1 DEF Nest
      <4>2. TextAround(x)
        BY <1>1
      <4>3. Wrapped("json", steps', x, removed') = Wrapped("json", steps, x, removed)
        BY <1>6, <3>1, <4>1
      <4> QED
        BY <2>3, <3>1, <4>2, <4>3 DEF TextAround
    <3>2. CASE x # <<>>
      <4> DEFINE G == GroupIn("json", name, x)
                 one == <<G>>
                 t == JsonText(x)
                 w == Wrapped("json", steps, one, removed)
                 k == <<KeyTok(name)>>
                 b == <<BraceTok>>
                 c == <<CloseTok>>
                 d == Json!Closed(L)
                 p == Opens(P)
      <4>1. Nest("json", name, x) = one
        BY <1>9, <3>2 DEF Nest
      <4>2. G \in Ended /\ G = Join(k, Join(Join(b, t), c))
        BY <2>1, JsonGroup DEF Join
      <4>3. one \in Seq(Ended) /\ one # <<>> /\ JsonText(one) = G
        <5> HIDE DEF G
        <5>1. one \in Seq(Ended) /\ one # <<>>
          BY <4>2
        <5>2. G \in Seq(Toks) /\ CommaTok \in Toks
          BY <4>2, PunctuationTokens DEF Ended
        <5>3. JsonText(one) = G
          BY <5>2, JsonTextOne
        <5> QED
          BY <5>1, <5>3
      <4>4. TextAround(one)
        <5> HIDE DEF one
        <5> QED
          BY <1>1, <4>3
      <4>5. w \in Seq(Ended) /\ w # <<>> /\ JsonText(w) = Inside(json, G)
        <5> HIDE DEF one, G
        <5> QED
          BY <4>3, <4>4 DEF TextAround
      <4>6. Wrapped("json", steps', x, removed') = w
        <5> HIDE DEF one
        <5> QED
          BY <1>6, <4>1
      <4>7. Inside(json, G) = Inside(json, t)'
        <5>1. /\ k \in Seq(Toks) /\ b \in Seq(Toks) /\ c \in Seq(Toks)
              /\ d \in Seq(Toks) /\ p \in Seq(Toks) /\ t \in Seq(Toks)
          <6>1. k \in Seq(Toks) /\ b \in Seq(Toks) /\ c \in Seq(Toks)
            BY <2>1, KeyToken, PunctuationTokens, OneToken
          <6>2. d \in Seq(Toks) /\ p \in Seq(Toks) /\ t \in Seq(Toks)
            BY <2>5, <2>8, ClosedAre, OpensAre, TextType
          <6> QED
            BY <6>1, <6>2
        <5>2. Opens(Append(P, name)) = Join(p, Join(k, b))
          BY <2>1, <2>8, OpensAre
        <5>3. Json!Closed(L + 1) = Join(c, d)
          BY <2>5, ClosedAre
        <5>4. Inside(json, G) = Join(json.prefix, Join(Lead(json.prefix # <<>>),
                                     Join(p, Join(G, d))))
          BY DEF Inside, P, L
        <5>5. Inside(json, t)' = Join(json.prefix, Join(Lead(json.prefix # <<>>),
                                     Join(Opens(Append(P, name)), Join(t, Json!Closed(L + 1)))))
          <6> HIDE DEF t, p, d
          <6> QED
            BY <2>3, <2>5, <2>9 DEF Inside
        <5> HIDE DEF k, b, c, d, p, t, G
        <5>6. Join(p, Join(Join(k, Join(Join(b, t), c)), d))
                = Join(Join(p, Join(k, b)), Join(t, Join(c, d)))
          BY <5>1, RegroupOpen
        <5> QED
          BY <4>2, <5>2, <5>3, <5>4, <5>5, <5>6
      <4> QED
        <5>1. x # <<>> /\ Wrapped("json", steps', x, removed') \in Seq(Ended)
              /\ Wrapped("json", steps', x, removed') # <<>>
              /\ JsonText(Wrapped("json", steps', x, removed')) = Inside(json, JsonText(x))'
          BY <3>2, <4>5, <4>6, <4>7
        <5> QED
          BY <5>1 DEF TextAround
    <3> QED
      BY <3>1, <3>2
  <2>11. json'.nOpen \in 0..Len(json'.groups)
    BY <1>1, <2>3, <2>5 DEF L
  <2>12. /\ steps' \in Seq(AllSteps') /\ json'.groups = PathOf(steps')
         /\ json'.prefix = <<>> => json'.nOpen = 0
         /\ json'.prefix # <<>> => json'.prefix \in Ended'
    BY <1>1, <1>4, <2>3, <2>7
  <2> QED
    BY <2>6, <2>10, <2>11, <2>12 DEF JsonInv
<1> QED
  BY <1>8, <1>9

LEMMA JoinEnded ==
  ASSUME NEW x \in Seq(Toks), NEW y \in Ended
  PROVE  Join(x, y) \in Ended /\ Join(x, y) \in Seq(Toks) /\ Join(x, y) # <<>>
<1>1. Join(x, y) \in Ended
  BY EndedConcat DEF Join
<1> QED
  BY <1>1 DEF Ended

LEMMA OptionsFair ==
  ASSUME NEW o \in Options
  PROVE  Fair(o) /\ o.removed = removed
BY DEF Options, Fair

(* What is added in the pending groups.                                    *)
LEMMA PendingAdds ==
  ASSUME JsonInv, NEW s \in Json!States(json.options), s.track,
         s.groups = SubSeq(json.groups, 1, json.nOpen), NEW attrs \in Seq(Attrs)
  PROVE  LET u   == AllOpened(s, Pending(json))
             own == Kept("json", attrs, PathOf(steps), removed)
         IN  /\ own \in Seq(Ended)
             /\ u \in Json!States(json.options)
             /\ Json!AppendAll(Json!OpenPending(s, json), attrs) = Adds(u, own)
<1> DEFINE o == json.options
           P == Pending(json)
           u == AllOpened(s, P)
           own == Kept("json", attrs, PathOf(steps), removed)
           g == json.groups
<1>1. /\ json \in JsonHandlers /\ g = PathOf(steps) /\ json.nOpen \in 0..Len(g)
  BY DEF JsonInv
<1>2. o \in Options /\ g \in Paths
  BY <1>1 DEF JsonHandlers
<1>3. Fair(o) /\ o.removed = removed
  <2> HIDE DEF o
  <2> QED
    BY <1>2, OptionsFair
<1>4. own \in Seq(Ended)
  <2> HIDE DEF g
  <2> QED
    BY <1>1, <1>2, JsonKept
<1>5. P \in Paths /\ SubSeq(g, 1, json.nOpen) \o P = g
  BY <1>1, <1>2, PendingType
<1>6. Json!OpenPending(s, json) = Json!OpenGroups(s, P)
  BY DEF Json!OpenPending, Pending
<1>7. s \in Json!States(o)
  OBVIOUS
<1> HIDE DEF P, o, g
<1>8. Json!OpenGroups(s, P) = u
  BY <1>5, <1>7, OpenGroupsAre
<1>9. u \in Json!States(o)
  BY <1>5, <1>7, OpenedType
<1>10. u.groups = g /\ u.track
  <2>1. CASE P = <<>>
    <3>1. u = s
      BY <2>1 DEF AllOpened
    <3>2. g = s.groups
      <4>1. s.groups \in Paths
        BY <1>7, StateParts
      <4>2. s.groups \o <<>> = s.groups
        <5> DEFINE S == STRING
                   q == s.groups
        <5>1. q \in Seq(S)
          BY <4>1 DEF Paths
        <5> HIDE DEF S, q
        <5>2. q \o <<>> = q
          BY <5>1, ConcatEmptySeq
        <5> QED
          BY <5>2 DEF q
      <4>3. s.groups \o P = g
        BY <1>5 DEF g
      <4> QED
        BY <2>1, <4>2, <4>3
    <3> HIDE DEF u
    <3> QED
      BY <3>1, <3>2
  <2>2. CASE P # <<>>
    <3> DEFINE text == Join(s.buf, Join(Lead(s.sep), Opens(P)))
               h == s.groups \o P
    <3>1. u = [s EXCEPT !.buf = text, !.sep = FALSE, !.groups = h]
      BY <2>2 DEF AllOpened
    <3>2. s = [options |-> s.options, buf |-> s.buf, sep |-> s.sep,
               groups |-> s.groups, track |-> s.track]
      BY <1>7, StateParts
    <3>3. h = g
      BY <1>5 DEF g
    <3> HIDE DEF u, text, h
    <3>4. u.groups = h
      BY <3>1, <3>2
    <3>5. u.track
      BY <3>1, <3>2
    <3> QED
      BY <3>3, <3>4, <3>5
  <2> QED
    BY <2>1, <2>2
<1> HIDE DEF u
<1>11. u.options = o
  BY <1>9, StateParts
<1>12. Json!AppendEach(u, Json!Calls(o, attrs)) = Adds(u, Kept("json", attrs, u.groups, o.removed))
  BY <1>3, <1>9, <1>10, AllAdds
<1>13. Kept("json", attrs, u.groups, o.removed) = own
  BY <1>1, <1>3, <1>10
<1>14. Json!AppendAll(u, attrs) = Json!AppendEach(u, Json!Calls(o, attrs))
  BY <1>11 DEF Json!AppendAll
<1> HIDE DEF own
<1>15. Json!AppendAll(Json!OpenPending(s, json), attrs) = Adds(u, own)
  BY <1>6, <1>8, <1>12, <1>13, <1>14
<1> QED
  BY <1>4, <1>9, <1>15 DEF own, u, P, o

(* The state that WithAttrs encodes into.                                  *)
LEMMA PrefixStateIs ==
  ASSUME JsonInv
  PROVE  LET s == Json!PrefixState(json)
         IN  /\ s \in Json!States(json.options) /\ s.track
             /\ s.groups = SubSeq(json.groups, 1, json.nOpen)
             /\ s.buf = json.prefix /\ s.sep = (json.prefix # <<>>)
<1> DEFINE s == Json!PrefixState(json)
           sep == json.prefix # <<>> /\ Json!Last(json.prefix) # Json!BraceTok
           g == SubSeq(json.groups, 1, json.nOpen)
<1>1. json \in JsonHandlers /\ json.nOpen \in 0..Len(json.groups)
      /\ (json.prefix # <<>> => json.prefix \in Ended)
  BY DEF JsonInv
<1>2. json.groups \in Paths /\ json.prefix \in Seq(Toks)
  BY <1>1 DEF JsonHandlers
<1>3. sep = (json.prefix # <<>>)
  <2>1. json.prefix # <<>> => json.prefix[Len(json.prefix)] # BraceTok
    BY <1>1 DEF Ended
  <2> QED
    BY <2>1, SameTokens DEF Json!Last
<1>4. g \in Paths
  BY <1>1, <1>2, PendingType
<1>5. s = [options |-> json.options, buf |-> json.prefix, sep |-> sep, groups |-> g,
           track |-> TRUE]
  BY DEF Json!PrefixState
<1>6. sep \in BOOLEAN
  OBVIOUS
<1> DEFINE toks == Seq(Toks)
<1>7. json.prefix \in toks
  BY <1>2
<1> HIDE DEF s, sep, g, toks
<1>8. s \in [options : {json.options}, buf : toks, sep : BOOLEAN, groups : Paths,
             track : BOOLEAN]
  BY <1>4, <1>5, <1>6, <1>7
<1>9. s \in Json!States(json.options)
  BY <1>8, StatesAre DEF toks
<1>10. s.groups = g /\ s.buf = json.prefix
  BY <1>5
<1>11. s.track
  BY <1>5
<1>12. s.sep = sep
  BY <1>5
<1> QED
  BY <1>3, <1>9, <1>10, <1>11, <1>12 DEF s, g

(* WithAttrs opens pending groups and writes attributes in them, or leaves *)
(* all as it is.                                                           *)
LEMMA JsonInvWith ==
  ASSUME JsonInv, NEW attrs \in AttrLists, With(attrs)
  PROVE  JsonInv'
<1> DEFINE st == AttrStep(attrs)
           own == Kept("json", attrs, PathOf(steps), removed)
           s == Json!PrefixState(json)
           P == Pending(json)
           u == AllOpened(s, P)
           g == json.groups
           L == Len(g)
<1>1. /\ steps \in Seq(AllSteps) /\ json \in JsonHandlers
      /\ json.groups = PathOf(steps) /\ json.nOpen \in 0..Len(json.groups)
      /\ json.prefix = <<>> => json.nOpen = 0
      /\ json.prefix # <<>> => json.prefix \in Ended
      /\ \A x \in Seq(Ended) : TextAround(x)
  BY DEF JsonInv
<1>2. /\ steps' = Append(steps, st) /\ json' = Json!WithAttrs(json, attrs)
      /\ removed' = removed
  BY DEF With
<1>3. st \in AllSteps /\ st.kind = "attrs" /\ attrs \in Seq(Attrs)
  BY RenderingAssumption DEF AllSteps, AttrStep
<1>4. steps' \in Seq(AllSteps)
  <2> HIDE DEF st
  <2> QED
    BY <1>1, <1>2, <1>3
<1>5. PathOf(steps') = PathOf(steps)
  <2> HIDE DEF st
  <2> QED
    BY <1>1, <1>2, <1>3, PathAppend
<1>6. ASSUME NEW x
      PROVE  Wrapped("json", steps', x, removed')
               = Wrapped("json", steps, own \o x, removed)
  BY <1>1, <1>2, WrappedAttrs
<1>7. Options' = Options
  BY <1>2 DEF Options
<1>8. /\ s \in Json!States(json.options) /\ s.track
      /\ s.groups = SubSeq(json.groups, 1, json.nOpen)
      /\ s.buf = json.prefix /\ s.sep = (json.prefix # <<>>)
  BY PrefixStateIs
<1>9. /\ own \in Seq(Ended) /\ u \in Json!States(json.options)
      /\ Json!AppendAll(Json!OpenPending(s, json), attrs) = Adds(u, own)
  <2> HIDE DEF s
  <2> QED
    BY <1>3, <1>8, PendingAdds
<1> DEFINE end == Adds(u, own)
<1>10. end.s = After(u, own) /\ end.written = (own # <<>>)
  BY DEF Adds, Json!Written
<1>11. json' = IF attrs = <<>> \/ ~end.written THEN json
               ELSE [json EXCEPT !.nOpen = L, !.prefix = end.s.buf]
  <2> HIDE DEF end
  <2> QED
    BY <1>2, <1>9 DEF Json!WithAttrs, s, end
<1>12. attrs = <<>> => own = <<>>
  BY JsonKeptNone
<1>13. g \in Paths /\ L \in Nat /\ P \in Paths
  <2>1. g \in Paths
    BY <1>1 DEF JsonHandlers
  <2> QED
    BY <1>1, <2>1, PendingType
<1> HIDE DEF own, end, u, s, P
<1>14. CASE own = <<>>
  <2>1. json' = json
    BY <1>10, <1>11, <1>14
  <2>2. ASSUME NEW x \in Seq(Ended) PROVE own \o x = x
    BY <1>14, ConcatEmptySeq
  <2>3. ASSUME NEW x \in Seq(Ended) PROVE TextAround(x)'
    <3>1. TextAround(x)
      BY <1>1
    <3>2. Wrapped("json", steps', x, removed') = Wrapped("json", steps, x, removed)
      BY <1>6, <2>2
    <3> QED
      BY <2>1, <3>1, <3>2 DEF TextAround, Inside, Pending
  <2>4. json' \in JsonHandlers'
    BY <1>1, <1>7, <2>1 DEF JsonHandlers
  <2> QED
    BY <1>1, <1>4, <1>5, <2>1, <2>3, <2>4 DEF JsonInv
<1>15. CASE own # <<>>
  <2> DEFINE prefix == After(u, own).buf
             q == json.prefix
             l == Lead(q # <<>>)
             p == Opens(P)
             a == JsonText(own)
             c == Json!Closed(L)
  <2>1. json' = [json EXCEPT !.nOpen = L, !.prefix = prefix]
    BY <1>10, <1>11, <1>12, <1>15
  <2>2. /\ json'.groups = g /\ json'.prefix = prefix /\ json'.nOpen = L
        /\ json'.options = json.options
    <3> HIDE DEF prefix, L
    <3> QED
      BY <1>1, <2>1 DEF JsonHandlers
  <2>3. prefix = Join(q, Join(l, Join(p, a)))
    <3>1. After(AllOpened(s, P), own).buf
            = Join(s.buf, Join(Lead(s.sep), Join(Opens(P), JsonText(own))))
      BY <1>8, <1>9, <1>13, <1>15, WrittenInOpened
    <3> QED
      BY <1>8, <3>1 DEF u
  <2>4. /\ q \in Seq(Toks) /\ l \in Seq(Toks) /\ p \in Seq(Toks) /\ a \in Ended
        /\ a \in Seq(Toks) /\ c \in Seq(Toks)
    <3>1. q \in Seq(Toks)
      BY <1>1 DEF JsonHandlers
    <3>2. l \in Seq(Toks)
      BY LeadType
    <3>3. p \in Seq(Toks) /\ c \in Seq(Toks)
      BY <1>13, OpensAre, ClosedAre
    <3>4. a \in Ended /\ a \in Seq(Toks)
      BY <1>9, <1>15, JsonTextEnded, TextType
    <3> QED
      BY <3>1, <3>2, <3>3, <3>4
  <2> HIDE DEF prefix, q, l, p, a, c
  <2>5. prefix \in Ended /\ prefix \in Seq(Toks) /\ prefix # <<>>
    <3>1. Join(p, a) \in Ended
      BY <2>4, JoinEnded
    <3>2. Join(l, Join(p, a)) \in Ended
      BY <2>4, <3>1, JoinEnded
    <3> QED
      BY <2>3, <2>4, <3>2, JoinEnded
  <2>6. json' \in JsonHandlers'
    <3> DEFINE toks == Seq(Toks)
    <3>1. prefix \in toks
      BY <2>5
    <3> HIDE DEF toks, L
    <3>2. json \in [options : Options, groups : Paths, nOpen : Nat, prefix : toks]
      BY <1>1 DEF JsonHandlers, toks
    <3>3. json' \in [options : Options, groups : Paths, nOpen : Nat, prefix : toks]
      BY <1>13, <2>1, <3>1, <3>2
    <3> QED
      BY <1>7, <3>3 DEF JsonHandlers, toks
  <2>7. Pending(json)' = <<>> /\ Opens(<<>>) = <<>>
    <3>1. SubSeq(g, Len(g) + 1, Len(g)) = <<>>
      <4> DEFINE S == STRING
      <4>1. g \in Seq(S)
        BY <1>13 DEF Paths
      <4> HIDE DEF S, g
      <4> QED
        BY <4>1, PastTheEnd
    <3>2. Opens(<<>>) = <<>>
      BY FlatNone DEF Opens
    <3> QED
      BY <2>2, <3>1, <3>2 DEF Pending
  <2>8. ASSUME NEW x \in Seq(Ended) PROVE TextAround(x)'
    <3> DEFINE w == Wrapped("json", steps', x, removed')
               y == own \o x
    <3>1. y \in Seq(Ended) /\ y # <<>>
      BY <1>9, <1>15
    <3>2. w = Wrapped("json", steps, y, removed)
      BY <1>6
    <3> HIDE DEF y, w
    <3>3. TextAround(y)
      BY <1>1, <3>1
    <3>4. w \in Seq(Ended) /\ w # <<>> /\ JsonText(w) = Inside(json, JsonText(y))
      BY <3>1, <3>2, <3>3 DEF TextAround
    <3>5. ASSUME NEW t PROVE Inside(json, t) = Join(q, Join(l, Join(p, Join(t, c))))
      BY DEF Inside, q, l, p, c, P, L
    <3>6. CASE x = <<>>
      <4>1. y = own
        BY <1>9, <3>6 DEF y
      <4>2. JsonText(w) = Join(q, Join(l, Join(p, Join(a, c))))
        BY <3>4, <3>5, <4>1 DEF a
      <4>3. JsonText(w) = Join(prefix, c)
        BY <2>3, <2>4, <4>2, JoinLast4
      <4> QED
        BY <2>2, <2>5, <3>4, <3>6, <4>3 DEF TextAround, c, w
    <3>7. CASE x # <<>>
      <4> DEFINE m == <<CommaTok>>
                 t == JsonText(x)
      <4>1. m \in Seq(Toks) /\ t \in Seq(Toks)
        <5>1. m \in Seq(Toks)
          BY PunctuationTokens, OneToken
        <5>2. t \in Seq(Toks)
          BY TextType
        <5> QED
          BY <5>1, <5>2
      <4>2. JsonText(y) = Join(a, Join(m, t))
        <5>1. own \in Seq(Seq(Toks)) /\ x \in Seq(Seq(Toks)) /\ CommaTok \in Toks
          BY <1>9, EndedType, PunctuationTokens
        <5>2. JsonText(own \o x) = JsonText(own) \o (<<CommaTok>> \o JsonText(x))
          BY <1>15, <3>7, <5>1, JsonTextConcat
        <5> QED
          BY <5>2 DEF a, Join, y
      <4>3. Inside(json, t)' = Join(prefix, Join(m, Join(t, c)))
        <5>1. Inside(json, t)' = Join(prefix, Join(Lead(prefix # <<>>),
                                   Join(Opens(<<>>), Join(t, c))))
          <6> HIDE DEF t
          <6>1. json'.groups = g /\ json'.prefix = prefix
            BY <2>2
          <6> QED
            BY <2>7, <6>1 DEF Inside, c, L
        <5>2. Lead(prefix # <<>>) = m
          BY <2>5 DEF Lead
        <5>3. Join(Opens(<<>>), Join(t, c)) = Join(t, c)
          <6> DEFINE tc == Join(t, c)
          <6>1. tc \in Seq(Toks)
            BY <2>4, <4>1, JoinType
          <6> HIDE DEF tc
          <6>2. Join(<<>>, tc) = tc
            BY <6>1, JoinEmpty
          <6> QED
            BY <2>7, <6>2 DEF tc
        <5> HIDE DEF t, m
        <5> QED
          BY <5>1, <5>2, <5>3
      <4> HIDE DEF m, t
      <4>4. JsonText(w) = Join(q, Join(l, Join(p, Join(Join(a, Join(m, t)), c))))
        BY <3>4, <3>5, <4>2
      <4>5. JsonText(w) = Join(prefix, Join(m, Join(t, c)))
        <5>1. Join(q, Join(l, Join(p, Join(Join(a, Join(m, t)), c))))
                = Join(Join(q, Join(l, Join(p, a))), Join(m, Join(t, c)))
          <6> DEFINE mtc == Join(m, Join(t, c))
          <6>1. Join(t, c) \in Seq(Toks)
            BY <2>4, <4>1, JoinType
          <6>2. mtc \in Seq(Toks)
            BY <4>1, <6>1, JoinType
          <6>3. Join(Join(a, Join(m, t)), c) = Join(a, mtc)
            BY <2>4, <4>1, FourParts
          <6> HIDE DEF mtc
          <6>4. Join(Join(q, Join(l, Join(p, a))), mtc) = Join(q, Join(l, Join(p, Join(a, mtc))))
            BY <2>4, <6>2, JoinLast4
          <6> QED
            BY <6>3, <6>4 DEF mtc
        <5> QED
          BY <2>3, <4>4, <5>1
      <4>6. JsonText(w) = Inside(json, t)'
        BY <4>3, <4>5
      <4> QED
        BY <3>4, <3>7, <4>6 DEF TextAround, t, w
    <3> QED
      BY <3>6, <3>7
  <2>9. json'.nOpen \in 0..Len(json'.groups)
    BY <1>13, <2>2
  <2> QED
    BY <1>1, <1>4, <1>5, <2>2, <2>5, <2>6, <2>8, <2>9 DEF JsonInv
<1> QED
  BY <1>14, <1>15
-----------------------------------------------------------------------------
(* What is built in: levels and keys, by the tables of the presets.        *)
LEMMA SameLevels ==
  /\ Json!LevelTrace = -8 /\ Json!LevelDebug = -4 /\ Json!LevelInfo = 0
  /\ Json!LevelSuccess = 2 /\ Json!LevelWarn = 4 /\ Json!LevelError = 8
  /\ Json!LevelFatal = 12
  /\ LevelTrace = -8 /\ LevelDebug = -4 /\ LevelInfo = 0 /\ LevelSuccess = 2
  /\ LevelWarn = 4 /\ LevelError = 8 /\ LevelFatal = 12
BY DEF Json!LevelTrace, Json!LevelDebug, Json!LevelInfo, Json!LevelSuccess,
       Json!LevelWarn, Json!LevelError, Json!LevelFatal, LevelTrace, LevelDebug,
       LevelInfo, LevelSuccess, LevelWarn, LevelError, LevelFatal

LEMMA SameNames ==
  ASSUME NEW l \in Int
  PROVE  Json!LevelName(l) = LevelName(l) /\ LevelName(l) \in [name : STRING, offset : Int]
<1>1. Json!LevelName(l) = LevelName(l)
  BY SameLevels DEF Json!LevelName, LevelName, Json!SlogString, SlogString, Json!Text, Text
<1>2. LevelName(l) \in [name : STRING, offset : Int]
  <2>1. ASSUME NEW s \in STRING, NEW n \in Int PROVE Text(s, n) \in [name : STRING, offset : Int]
    BY <2>1 DEF Text
  <2> DEFINE S == STRING
  <2>6. /\ "FATAL" \in S /\ "SUCCESS" \in S /\ "TRACE" \in S /\ "DEBUG" \in S
        /\ "INFO" \in S /\ "WARN" \in S /\ "ERROR" \in S
    BY LiteralAssumption
  <2>2. LevelName(l) = Text("FATAL", 0) \/ LevelName(l) = Text("SUCCESS", 0)
          \/ LevelName(l) = Text("TRACE", 0) \/ LevelName(l) = SlogString(l)
    BY DEF LevelName
  <2>3. SlogString(l) = Text("DEBUG", l - -4) \/ SlogString(l) = Text("INFO", l - 0)
          \/ SlogString(l) = Text("WARN", l - 4) \/ SlogString(l) = Text("ERROR", l - 8)
    BY SameLevels DEF SlogString
  <2>4. l - -4 \in Int /\ l - 0 \in Int /\ l - 4 \in Int /\ l - 8 \in Int /\ 0 \in Int
    OBVIOUS
  <2>5. SlogString(l) \in [name : STRING, offset : Int]
    BY <2>1, <2>3, <2>4, <2>6
  <2> DEFINE R == [name : STRING, offset : Int]
  <2>7. ASSUME NEW s \in S PROVE Text(s, 0) \in R
    BY <2>1, <2>4
  <2>8. SlogString(l) \in R
    BY <2>5
  <2> HIDE DEF R, S
  <2> QED
    BY <2>2, <2>6, <2>7, <2>8 DEF R
<1> QED
  BY <1>1, <1>2

LEMMA SameKeys ==
  ASSUME NEW preset \in PresetNames, NEW key \in {"time", "level", "source", "msg"}
  PROVE  /\ Json!BuiltinKey(preset, key) = PresetKeys[preset][key]
         /\ PresetKeys[preset][key] \in STRING
<1>1. CASE preset = "slog"
  <2> DEFINE r == [time |-> "time", level |-> "level", msg |-> "msg", source |-> "source"]
  <2>1. PresetKeys[preset] = r /\ Json!PresetKeys[preset] = r
    BY <1>1 DEF PresetKeys, Json!PresetKeys
  <2>2. Json!BuiltinKey(preset, key) = r[key]
    <3>1. DOMAIN r = {"time", "level", "msg", "source"}
      OBVIOUS
    <3> HIDE DEF r
    <3> QED
      BY <2>1, <3>1 DEF Json!BuiltinKey
  <2>4. r[key] \in STRING
    <3>1. DOMAIN r = {"time", "level", "msg", "source"}
      OBVIOUS
    <3> HIDE DEF r
    <3> QED
      BY <2>1, <3>1, LiteralAssumption
  <2> HIDE DEF r
  <2> QED
    BY <2>1, <2>2, <2>4
<1>2. CASE preset = "gcp"
  <2> DEFINE r == [time |-> "time", level |-> "severity", msg |-> "message", source |-> "logging.googleapis.com/sourceLocation"]
  <2>1. PresetKeys[preset] = r /\ Json!PresetKeys[preset] = r
    BY <1>2 DEF PresetKeys, Json!PresetKeys
  <2>2. Json!BuiltinKey(preset, key) = r[key]
    <3>1. DOMAIN r = {"time", "level", "msg", "source"}
      OBVIOUS
    <3> HIDE DEF r
    <3> QED
      BY <2>1, <3>1 DEF Json!BuiltinKey
  <2>4. r[key] \in STRING
    <3>1. DOMAIN r = {"time", "level", "msg", "source"}
      OBVIOUS
    <3> HIDE DEF r
    <3> QED
      BY <2>1, <3>1, LiteralAssumption
  <2> HIDE DEF r
  <2> QED
    BY <2>1, <2>2, <2>4
<1>3. CASE preset = "datadog"
  <2> DEFINE r == [time |-> "timestamp", level |-> "status", msg |-> "message", source |-> "source"]
  <2>1. PresetKeys[preset] = r /\ Json!PresetKeys[preset] = r
    BY <1>3 DEF PresetKeys, Json!PresetKeys
  <2>2. Json!BuiltinKey(preset, key) = r[key]
    <3>1. DOMAIN r = {"time", "level", "msg", "source"}
      OBVIOUS
    <3> HIDE DEF r
    <3> QED
      BY <2>1, <3>1 DEF Json!BuiltinKey
  <2>4. r[key] \in STRING
    <3>1. DOMAIN r = {"time", "level", "msg", "source"}
      OBVIOUS
    <3> HIDE DEF r
    <3> QED
      BY <2>1, <3>1, LiteralAssumption
  <2> HIDE DEF r
  <2> QED
    BY <2>1, <2>2, <2>4
<1> QED
  BY <1>1, <1>2, <1>3 DEF PresetNames

(* The built-in level at or below a level.                                 *)
LEMMA LevelBelowIs ==
  ASSUME NEW l \in Int
  PROVE  LevelBelow(l) = IF l >= 12 THEN 7 ELSE IF l >= 8 THEN 6 ELSE IF l >= 4 THEN 5
                         ELSE IF l >= 2 THEN 4 ELSE IF l >= 0 THEN 3
                         ELSE IF l >= -4 THEN 2 ELSE 1
<1> DEFINE B == BuiltInLevels
           Fits(i) == (i = 1 \/ B[i] <= l) /\ (i = 7 \/ l < B[i + 1])
           n == IF l >= 12 THEN 7 ELSE IF l >= 8 THEN 6 ELSE IF l >= 4 THEN 5
                ELSE IF l >= 2 THEN 4 ELSE IF l >= 0 THEN 3
                ELSE IF l >= -4 THEN 2 ELSE 1
<1>1. /\ B[1] = -8 /\ B[2] = -4 /\ B[3] = 0 /\ B[4] = 2 /\ B[5] = 4 /\ B[6] = 8 /\ B[7] = 12
      /\ DOMAIN B = 1..7 /\ Len(B) = 7
  BY SameLevels DEF BuiltInLevels
<1>2. LevelBelow(l) = CHOOSE i \in 1..7 : Fits(i)
  BY <1>1 DEF LevelBelow
<1> HIDE DEF B
<1>3. ASSUME NEW i \in 1..7, Fits(i) PROVE i = n
  <2>1. i = 1 \/ i = 2 \/ i = 3 \/ i = 4 \/ i = 5 \/ i = 6 \/ i = 7
    OBVIOUS
  <2> QED
    BY <1>1, <1>3, <2>1
<1>4. n \in 1..7
  OBVIOUS
<1>5. Fits(n)
  <2>1. n = 1 \/ n = 2 \/ n = 3 \/ n = 4 \/ n = 5 \/ n = 6 \/ n = 7
    OBVIOUS
  <2> QED
    BY <1>1, <2>1
<1> HIDE DEF Fits, n
<1>6. (CHOOSE i \in 1..7 : Fits(i)) = n
  BY <1>3, <1>4, <1>5
<1> QED
  BY <1>2, <1>6 DEF n

(* A level is shown as the tables say.                                     *)
LEMMA LevelShown ==
  ASSUME NEW preset \in PresetNames, NEW l \in Int
  PROVE  /\ Json!LevelToken(preset, PresetKeys[preset]["level"], l) = ShownLevel(preset, l)
         /\ ShownLevel(preset, l) \in Toks /\ ShownLevel(preset, l) # BraceTok
<1> DEFINE key == PresetKeys[preset]["level"]
           below == LevelBelow(l)
<1>1. CASE preset = "slog"
  <2>1. key = "level"
    BY <1>1 DEF PresetKeys
  <2>2. Json!LevelToken(preset, key, l) = LevelTok(LevelName(l))
    <3> HIDE DEF key
    <3> QED
      BY <1>1, <2>1, SameNames, SameTokens
         DEF Json!LevelToken, Json!HasLevelName, Json!AppendJSONLevel
  <2>3. ShownLevel(preset, l) = LevelTok(LevelName(l))
    BY <1>1 DEF ShownLevel
  <2>4. LevelTok(LevelName(l)) \in Toks /\ LevelTok(LevelName(l)) # BraceTok
    BY SameNames, LevelTokenType
  <2> QED
    BY <2>2, <2>3, <2>4
<1>2. CASE preset # "slog"
  <2>1. Json!LevelToken(preset, key, l) = ValTok(Json!PresetLevelName(preset, l))
    BY <1>2, SameTokens DEF Json!LevelToken, Json!HasLevelName
  <2>2. ShownLevel(preset, l) = ValTok(LevelNames[preset][below])
    BY <1>2 DEF ShownLevel
  <2>3. /\ Json!PresetLevelName(preset, l) = LevelNames[preset][below]
        /\ LevelNames[preset][below] \in STRING
    <3> HIDE DEF below
    <3>1. below = IF l >= 12 THEN 7 ELSE IF l >= 8 THEN 6 ELSE IF l >= 4 THEN 5
                  ELSE IF l >= 2 THEN 4 ELSE IF l >= 0 THEN 3
                  ELSE IF l >= -4 THEN 2 ELSE 1
      BY LevelBelowIs DEF below
    <3>2. CASE preset = "gcp"
      <4>1. Json!PresetLevelName(preset, l)
              = IF l >= 12 THEN "CRITICAL" ELSE IF l >= 8 THEN "ERROR"
                ELSE IF l >= 4 THEN "WARNING" ELSE IF l >= 2 THEN "NOTICE"
                ELSE IF l >= 0 THEN "INFO" ELSE "DEBUG"
        <5>1. Json!PresetLevelName(preset, l) = Json!GcpSeverity(l)
          BY <3>2 DEF Json!PresetLevelName
        <5> QED
          BY <5>1, SameLevels DEF Json!GcpSeverity
      <4> DEFINE t == LevelNames["gcp"]
      <4>2. /\ t[1] = "DEBUG" /\ t[2] = "DEBUG" /\ t[3] = "INFO" /\ t[4] = "NOTICE"
            /\ t[5] = "WARNING" /\ t[6] = "ERROR" /\ t[7] = "CRITICAL"
        BY DEF LevelNames
      <4> HIDE DEF t
      <4>3. Json!PresetLevelName(preset, l) = t[below]
        BY <3>1, <4>1, <4>2
      <4>4. t[below] \in STRING
        <5>1. /\ t[1] \in STRING /\ t[2] \in STRING /\ t[3] \in STRING /\ t[4] \in STRING
              /\ t[5] \in STRING /\ t[6] \in STRING /\ t[7] \in STRING
          BY <4>2, LiteralAssumption
        <5> QED
          BY <3>1, <5>1
      <4> QED
        BY <3>2, <4>3, <4>4 DEF t
    <3>3. CASE preset = "datadog"
      <4>1. Json!PresetLevelName(preset, l)
              = IF l >= 12 THEN "critical" ELSE IF l >= 8 THEN "error"
                ELSE IF l >= 4 THEN "warn" ELSE IF l >= 2 THEN "success"
                ELSE IF l >= 0 THEN "info" ELSE IF l >= -4 THEN "debug" ELSE "trace"
        <5>1. Json!PresetLevelName(preset, l) = Json!DatadogStatus(l)
          BY <3>3 DEF Json!PresetLevelName
        <5> QED
          BY <5>1, SameLevels DEF Json!DatadogStatus
      <4> DEFINE t == LevelNames["datadog"]
      <4>2. /\ t[1] = "trace" /\ t[2] = "debug" /\ t[3] = "info" /\ t[4] = "success"
            /\ t[5] = "warn" /\ t[6] = "error" /\ t[7] = "critical"
        BY DEF LevelNames
      <4> HIDE DEF t
      <4>3. Json!PresetLevelName(preset, l) = t[below]
        BY <3>1, <4>1, <4>2
      <4>4. t[below] \in STRING
        <5>1. /\ t[1] \in STRING /\ t[2] \in STRING /\ t[3] \in STRING /\ t[4] \in STRING
              /\ t[5] \in STRING /\ t[6] \in STRING /\ t[7] \in STRING
          BY <4>2, LiteralAssumption
        <5> QED
          BY <3>1, <5>1
      <4> QED
        BY <3>3, <4>3, <4>4 DEF t
    <3> QED
      BY <1>2, <3>2, <3>3 DEF PresetNames
  <2> DEFINE shown == LevelNames[preset][below]
  <2> HIDE DEF shown
  <2>4. ValTok(shown) \in Toks /\ ValTok(shown) # BraceTok
    BY <2>3, ValToken DEF shown
  <2> QED
    BY <2>1, <2>2, <2>3, <2>4 DEF shown
<1> QED
  BY <1>1, <1>2

(* One built-in attribute is one member.                                   *)
LEMMA MemberWritten ==
  ASSUME NEW o, NEW s \in Json!States(o), NEW k \in STRING,
         NEW v \in Toks, v # BraceTok
  PROVE  LET m == <<<<KeyTok(k)>> \o <<v>>>>
         IN  /\ m \in Seq(Ended) /\ m # <<>>
             /\ Json!Put(Json!AppendKey(s, k), <<v>>) = After(s, m)
<1> DEFINE x == <<v>>
           y == Join(<<KeyTok(k)>>, x)
<1>1. x \in Seq(Toks) /\ x \in Ended
  BY OneToken, EndedOne
<1> HIDE DEF x
<1>2. <<KeyTok(k)>> \in Seq(Toks)
  BY KeyToken, OneToken
<1>3. y \in Ended
  BY <1>1, <1>2, JoinEnded
<1>4. Json!Put(Json!AppendKey(s, k), x) = Wrote(s, y)
  BY <1>1, PutAfterKey
<1>5. y = <<KeyTok(k)>> \o <<v>>
  BY DEF Join, x
<1> HIDE DEF y
<1>6. After(s, <<y>>) = Wrote(s, y) /\ <<y>> \in Seq(Ended) /\ <<y>> # <<>>
  BY <1>3, AfterOne
<1> QED
  BY <1>4, <1>5, <1>6 DEF x
-----------------------------------------------------------------------------
(* The fields of a source written one by one.                              *)
WithField(t, a) == Json!Put(Json!AppendKey(t, a.key), <<Json!ValTok(a.val)>>)

SourceOpen(s, key) ==
  [Json!Put(Json!AppendKey(s, key), <<Json!BraceTok>>) EXCEPT !.sep = FALSE]

SourceTurns(f, s, key, fields) ==
  /\ fields # <<>> /\ ~s.options.transforms =>
       Json!AppendSource(s, key, fields)
         = [Json!Put(f[Len(fields)], <<Json!CloseTok>>) EXCEPT !.sep = TRUE]
  /\ f[0] = SourceOpen(s, key)
  /\ \A n \in 1..Len(fields) : f[n] = WithField(f[n - 1], fields[n])

(* A source is written field by field, or as a group.                      *)
LEMMA SourceLoop ==
  ASSUME NEW s, NEW key, NEW fields, Len(fields) \in Nat
  PROVE  \E f : SourceTurns(f, s, key, fields)
<1> DEFINE N == Len(fields)
           Loop(f, n) == IF n = 0 THEN SourceOpen(s, key)
                         ELSE WithField(f[n - 1], fields[n])
           Is(f, m) == f = [n \in 0..m |-> Loop(f, n)]
           S == {m \in 0..N : \E f : Is(f, m)}
<1>1. N \in Nat
  OBVIOUS
<1>2. \E f : Is(f, 0)
  <2>1. Is([n \in 0..0 |-> SourceOpen(s, key)], 0)
    OBVIOUS
  <2> QED
    BY <2>1
<1>3. ASSUME NEW m \in 1..N, NEW f, Is(f, m - 1) PROVE \E g : Is(g, m)
  <2> DEFINE g == [n \in 0..m |-> Loop(f, n)]
  <2>1. \A n \in 0..(m - 1) : f[n] = Loop(f, n)
    <3> HIDE DEF Loop
    <3> QED
      BY <1>3
  <2>2. \A n \in 0..(m - 1) : g[n] = f[n]
    <3>1. \A n \in 0..(m - 1) : n \in 0..m
      BY <1>3
    <3> HIDE DEF Loop
    <3> QED
      BY <2>1, <3>1
  <2>3. ASSUME NEW n \in 0..m PROVE Loop(g, n) = Loop(f, n)
    <3>1. CASE n = 0
      BY <3>1
    <3>2. CASE n # 0
      <4>1. n - 1 \in 0..(m - 1)
        BY <1>3, <3>2
      <4>2. g[n - 1] = f[n - 1]
        BY <2>2, <4>1
      <4> HIDE DEF g
      <4> QED
        BY <3>2, <4>2
    <3> QED
      BY <3>1, <3>2
  <2>4. g = [n \in 0..m |-> Loop(g, n)]
    <3> HIDE DEF Loop
    <3> QED
      BY <2>3
  <2> QED
    BY <2>4
<1> HIDE DEF Is
<1>4. 0..N \subseteq S
  <2>1. 0 \in S
    BY <1>1, <1>2
  <2>2. \A m \in 1..N : m - 1 \in S => m \in S
    BY <1>1, <1>3
  <2> HIDE DEF S
  <2> QED
    BY <1>1, <2>1, <2>2, UpTo
<1>5. \E f : Is(f, N)
  BY <1>1, <1>4
<1> DEFINE a == CHOOSE f : Is(f, N)
<1>6. Is(a, N)
  BY <1>5
<1>7. fields # <<>> /\ ~s.options.transforms =>
        Json!AppendSource(s, key, fields)
          = [Json!Put(a[N], <<Json!CloseTok>>) EXCEPT !.sep = TRUE]
  BY DEF Json!AppendSource, Is, WithField, SourceOpen
<1> HIDE DEF a
<1>8. \A n \in 0..N : a[n] = Loop(a, n)
  <2> HIDE DEF Loop
  <2> QED
    BY <1>6 DEF Is
<1>9. a[0] = SourceOpen(s, key)
  <2>1. 0 \in 0..N
    BY <1>1
  <2> QED
    BY <1>8, <2>1
<1>10. ASSUME NEW n \in 1..N PROVE a[n] = WithField(a[n - 1], fields[n])
  <2>1. n \in 0..N /\ n # 0
    BY <1>1
  <2> QED
    BY <1>8, <2>1
<1> QED
  BY <1>7, <1>9, <1>10 DEF SourceTurns

(* The member of a built-in attribute.                                     *)
MemberOf(o, key, tokens, is) ==
  IF is /\ <<<<>>, key>> \notin o.removed
  THEN <<<<KeyTok(PresetKeys[o.preset][key])>> \o tokens>> ELSE <<>>

LEMMA BuiltinWritten ==
  ASSUME NEW o, Fair(o), o.preset \in PresetNames,
         NEW s \in Json!States(o), s.groups = <<>>,
         NEW key \in {"time", "level", "source", "msg"}, NEW v \in Toks, v # BraceTok
  PROVE  LET m == MemberOf(o, key, <<v>>, TRUE)
         IN  /\ m \in Seq(Ended)
             /\ (IF Json!Removes(s, key) THEN s
                 ELSE Json!Put(Json!AppendKey(s, Json!BuiltinKey(o.preset, key)), <<v>>))
                  = After(s, m)
<1> DEFINE k == PresetKeys[o.preset][key]
           m == MemberOf(o, key, <<v>>, TRUE)
           one == <<<<KeyTok(k)>> \o <<v>>>>
<1>1. Json!BuiltinKey(o.preset, key) = k /\ k \in STRING
  BY SameKeys
<1>2. Json!Removes(s, key) <=> <<<<>>, key>> \in o.removed
  BY RemovesIs
<1>3. m = IF <<<<>>, key>> \notin o.removed THEN one ELSE <<>>
  BY DEF MemberOf
<1> HIDE DEF k, m
<1>4. one \in Seq(Ended) /\ Json!Put(Json!AppendKey(s, k), <<v>>) = After(s, one)
  BY <1>1, MemberWritten
<1> HIDE DEF one
<1>5. After(s, <<>>) = s
  BY DEF After
<1>6. CASE <<<<>>, key>> \in o.removed
  <2>1. m = <<>>
    BY <1>3, <1>6
  <2>2. m \in Seq(Ended)
    BY <2>1
  <2>3. s = After(s, m)
    BY <1>5, <2>1
  <2> QED
    BY <1>2, <1>6, <2>2, <2>3 DEF m
<1>7. CASE <<<<>>, key>> \notin o.removed
  <2>1. m = one
    BY <1>3, <1>7
  <2> QED
    BY <1>1, <1>2, <1>4, <1>7, <2>1 DEF m
<1> QED
  BY <1>6, <1>7

SourceOf(key, kept) == IF kept = <<>> THEN <<>> ELSE <<GroupIn("json", key, kept)>>

(* A field that is a leaf, when nothing is removed.                        *)
LEMMA FieldWritten ==
  ASSUME NEW o, o.removed = {}, NEW s \in Json!States(o), NEW a \in Attrs,
         a.kind = "leaf"
  PROVE  LET m == KeptOf("json", {})[a][s.groups]
         IN  m \in Seq(Ended) /\ m # <<>> /\ WithField(s, a) = After(s, m)
<1> DEFINE m == KeptOf("json", {})[a][s.groups]
<1>1. s.groups \in Paths
  BY StateParts
<1>2. m \in Seq(Ended)
  BY <1>1, JsonType
<1>3. m = <<LeafIn("json", s.groups, a)>>
  <2> DEFINE gone == {}
  <2>1. <<s.groups, a.key>> \notin gone
    OBVIOUS
  <2> HIDE DEF gone
  <2>2. KeptOf("json", gone)[a][s.groups]
          = IF <<s.groups, a.key>> \in gone THEN <<>> ELSE <<LeafIn("json", s.groups, a)>>
    BY <1>1, KeptOfLeaf
  <2>3. KeptOf("json", gone)[a][s.groups] = <<LeafIn("json", s.groups, a)>>
    BY <2>1, <2>2
  <2> QED
    BY <2>3 DEF gone
<1>4. Fair(o)
  BY DEF Fair
<1>5. Json!AppendAttr(o)[a][s] = Adds(s, m)
  BY <1>4, LeafAdds DEF AddsRight
<1>6. Json!AppendAttr(o)[a][s] = Json!AppendLeaf(s, a)
  BY JsonOfLeaf
<1>7. ~Json!Removes(s, a.key)
  BY <1>4, RemovesIs
<1>8. Json!AppendLeaf(s, a) = Json!Written(WithField(s, a), TRUE)
  BY <1>7 DEF Json!AppendLeaf, WithField
<1> HIDE DEF m
<1>9. Adds(s, m).s = After(s, m)
  BY DEF Adds, Json!Written
<1>10. Json!Written(WithField(s, a), TRUE).s = WithField(s, a)
  BY DEF Json!Written
<1>11. m # <<>>
  BY <1>3
<1> QED
  BY <1>2, <1>5, <1>6, <1>8, <1>9, <1>10, <1>11 DEF m

LEMMA SourceOpened ==
  ASSUME NEW o, NEW s \in Json!States(o), ~s.track, NEW key \in STRING
  PROVE  SourceOpen(s, key) = Opened(s, key)
<1> DEFINE t == Json!Put(Json!AppendKey(s, key), <<Json!BraceTok>>)
<1>1. Json!OpenGroup(s, key) = [t EXCEPT !.sep = FALSE, !.groups = @]
  BY DEF Json!OpenGroup
<1>2. SourceOpen(s, key) = [t EXCEPT !.sep = FALSE]
  BY DEF SourceOpen
<1>3. t = Wrote(s, Join(<<KeyTok(key)>>, <<BraceTok>>)) /\ t \in Json!States(o)
  <2>1. <<BraceTok>> \in Seq(Toks)
    BY PunctuationTokens, OneToken
  <2> QED
    BY <2>1, SameTokens, PutAfterKey
<1> HIDE DEF t
<1>4. t = [options |-> t.options, buf |-> t.buf, sep |-> t.sep,
           groups |-> t.groups, track |-> t.track]
  BY <1>3, StateParts
<1>5. [t EXCEPT !.sep = FALSE, !.groups = @] = [t EXCEPT !.sep = FALSE]
  BY <1>4
<1> QED
  BY <1>1, <1>2, <1>5, OpenGroupIs

LEMMA SourceClosed ==
  ASSUME NEW o, NEW v \in Json!States(o), ~v.track
  PROVE  [Json!Put(v, <<Json!CloseTok>>) EXCEPT !.sep = TRUE] = Json!CloseGroup(v)
<1> DEFINE t == Json!Put(v, <<Json!CloseTok>>)
           text == v.buf \o <<Json!CloseTok>>
<1>1. t = [v EXCEPT !.buf = text]
  BY DEF Json!Put
<1> HIDE DEF text
<1>2. v = [options |-> v.options, buf |-> v.buf, sep |-> v.sep,
           groups |-> v.groups, track |-> v.track]
  BY StateParts
<1>3. Json!CloseGroup(v) = [t EXCEPT !.sep = TRUE, !.groups = @]
  BY SameTokens DEF Json!CloseGroup
<1> HIDE DEF t
<1>4. t = [options |-> v.options, buf |-> text, sep |-> v.sep,
           groups |-> v.groups, track |-> v.track]
  BY <1>1, <1>2
<1>5. t \in Json!States(o)
  <2>1. text \in Seq(Toks)
    <3>1. v.buf \in Seq(Toks) /\ <<CloseTok>> \in Seq(Toks)
      BY StateParts, PunctuationTokens, OneToken
    <3> DEFINE b == v.buf
               c == <<CloseTok>>
    <3> HIDE DEF b, c
    <3>2. Join(b, c) \in Seq(Toks)
      BY <3>1, JoinType DEF b, c
    <3> QED
      BY <3>2, SameTokens DEF Join, b, c, text
  <2>2. v.sep \in BOOLEAN /\ v.groups \in Paths
    BY StateParts
  <2>3. t = [v EXCEPT !.buf = text, !.sep = v.sep, !.groups = v.groups]
    BY <1>1, <1>2
  <2> QED
    BY <2>1, <2>2, <2>3, StateWith
<1>6. t = [options |-> t.options, buf |-> t.buf, sep |-> t.sep,
           groups |-> t.groups, track |-> t.track]
  BY <1>5, StateParts
<1>7. [t EXCEPT !.sep = TRUE, !.groups = @] = [t EXCEPT !.sep = TRUE]
  BY <1>6
<1> QED
  BY <1>3, <1>7 DEF t

LEMMA NotNoneConcat ==
  ASSUME NEW S, NEW x \in Seq(S), NEW y \in Seq(S), y # <<>>
  PROVE  x \o y # <<>> /\ x \o y \in Seq(S)
<1>1. Len(x \o y) = Len(x) + Len(y) /\ Len(x) \in Nat /\ Len(y) \in Nat /\ x \o y \in Seq(S)
  BY ConcatProperties
<1>2. Len(y) # 0
  OBVIOUS
<1> DEFINE z == x \o y
<1> HIDE DEF z
<1>3. Len(z) # 0
  BY <1>1, <1>2 DEF z
<1>4. z # <<>>
  BY <1>3
<1> QED
  BY <1>1, <1>4 DEF z

LEMMA FieldsAreAttrs ==
  ASSUME NEW fields \in Seq(Attrs \cap Leaves)
  PROVE  /\ fields \in Seq(Attrs)
         /\ \A i \in DOMAIN fields : fields[i] \in Attrs /\ fields[i].kind = "leaf"
<1>1. Attrs \cap Leaves \subseteq Attrs
  OBVIOUS
<1>2. fields \in Seq(Attrs)
  <2> DEFINE L == Attrs \cap Leaves
  <2>1. L \subseteq Attrs /\ fields \in Seq(L)
    OBVIOUS
  <2> HIDE DEF L
  <2> QED
    BY <2>1
<1>3. \A a \in Leaves : a.kind = "leaf"
  BY DEF Leaves
<1> QED
  BY <1>2, <1>3

(* The source without ReplaceAttr functions.                               *)
LEMMA SourceLooped ==
  ASSUME NEW o, o.removed = {}, ~o.transforms, NEW s \in Json!States(o),
         s.groups = <<>>, ~s.track, NEW key \in STRING,
         NEW fields \in Seq(Attrs \cap Leaves), fields # <<>>
  PROVE  Json!AppendSource(s, key, fields)
           = After(s, SourceOf(key, Kept("json", fields, <<>>, {})))
<1> DEFINE N == Len(fields)
           u == Opened(s, key)
           p == s.groups
           gone == {}
           Start(n) == Kept("json", SubSeq(fields, 1, n), p, gone)
<1>1. /\ fields \in Seq(Attrs)
      /\ \A i \in DOMAIN fields : fields[i] \in Attrs /\ fields[i].kind = "leaf"
  BY FieldsAreAttrs
<1>2. N \in Nat /\ DOMAIN fields = 1..N /\ N # 0
  OBVIOUS
<1>3. PICK f : SourceTurns(f, s, key, fields)
  BY <1>2, SourceLoop
<1>4. u \in Json!States(o) /\ u.track = s.track /\ u.groups = p /\ u = SourceOpen(s, key)
  BY OpenedParts, SourceOpened
<1>5. p \in Paths /\ s.options = o
  BY StateParts
<1> HIDE DEF u, gone, p
<1>6. ASSUME NEW n \in 1..N
      PROVE  /\ Start(n - 1) \in Seq(Ended)
             /\ Start(n) = Start(n - 1) \o KeptOf("json", gone)[fields[n]][p]
  <2> DEFINE list == SubSeq(fields, 1, n - 1)
  <2>1. list \in Seq(Attrs) /\ SubSeq(fields, 1, n) = Append(list, fields[n])
        /\ fields[n] \in Attrs
    BY <1>1, StartAppend
  <2> HIDE DEF list
  <2>2. /\ Kept("json", list, p, gone) \in Seq(Ended)
        /\ Kept("json", Append(list, fields[n]), p, gone)
             = Kept("json", list, p, gone) \o KeptOf("json", gone)[fields[n]][p]
    BY <1>5, <2>1, JsonKept, JsonKeptAppend
  <2> QED
    BY <2>1, <2>2 DEF list
<1>7. Start(0) = <<>>
  <2>1. SubSeq(fields, 1, 0) = <<>>
    BY StartNone
  <2> QED
    BY <2>1, JsonKeptNone
<1>8. Start(N) = Kept("json", fields, p, gone)
  BY AllOfList
<1> HIDE DEF Start, N
<1> DEFINE T == {n \in 0..N : f[n] = After(u, Start(n)) /\ (n # 0 => Start(n) # <<>>)}
<1>9. 0 \in T
  <2>1. f[0] = u
    BY <1>3, <1>4 DEF SourceTurns
  <2>2. After(u, <<>>) = u
    BY DEF After
  <2>3. 0 \in 0..N /\ f[0] = After(u, Start(0))
    BY <1>2, <1>7, <2>1, <2>2
  <2> QED
    BY <2>3
<1>10. ASSUME NEW n \in 1..N, n - 1 \in T PROVE n \in T
  <2> DEFINE a == fields[n]
             m == Start(n - 1)
             v == After(u, m)
             k == KeptOf("json", gone)[a][p]
  <2>1. f[n] = WithField(f[n - 1], a)
    BY <1>3 DEF SourceTurns, N
  <2>2. f[n - 1] = v
    BY <1>10
  <2>3. a \in Attrs /\ a.kind = "leaf" /\ m \in Seq(Ended) /\ Start(n) = m \o k
    BY <1>1, <1>2, <1>6
  <2>4. v \in Json!States(o) /\ v.groups = p
    <3> HIDE DEF m
    <3> QED
      BY <1>4, <2>3, AfterType
  <2> HIDE DEF a, m, v
  <2>5. k \in Seq(Ended) /\ k # <<>> /\ WithField(v, a) = After(v, k)
    BY <2>3, <2>4, FieldWritten DEF gone
  <2> HIDE DEF k
  <2>6. After(v, k) = After(u, m \o k)
    BY <1>4, <2>3, <2>5, AfterAfter DEF v
  <2>7. m \o k # <<>>
    <3> DEFINE E == Ended
    <3>1. m \in Seq(E) /\ k \in Seq(E)
      BY <2>3, <2>5
    <3> HIDE DEF E
    <3> QED
      BY <2>5, <3>1, NotNoneConcat
  <2>8. f[n] = After(u, Start(n)) /\ Start(n) # <<>>
    BY <2>1, <2>2, <2>3, <2>5, <2>6, <2>7
  <2>9. n \in 0..N
    BY <1>2
  <2> QED
    BY <2>8, <2>9
<1>11. 0..N \subseteq T
  <2> HIDE DEF T
  <2> QED
    BY <1>2, <1>9, <1>10, UpTo
<1>12. f[N] = After(u, Start(N)) /\ Start(N) # <<>>
  BY <1>2, <1>11
<1> DEFINE kept == Start(N)
           v == After(u, kept)
<1>13. kept \in Seq(Ended)
  BY <1>1, <1>5, <1>8, JsonKept
<1> HIDE DEF kept
<1>14. v \in Json!States(o) /\ ~v.track
  BY <1>4, <1>13, AfterType
<1>15. Json!AppendSource(s, key, fields) = [Json!Put(v, <<Json!CloseTok>>) EXCEPT !.sep = TRUE]
  BY <1>3, <1>5, <1>12 DEF SourceTurns, N, kept
<1> HIDE DEF v
<1>16. Json!AppendSource(s, key, fields) = Json!CloseGroup(v)
  BY <1>14, <1>15, SourceClosed
<1>17. kept # <<>>
  BY <1>12 DEF kept
<1>18. Json!CloseGroup(v) = After(s, <<GroupIn("json", key, kept)>>)
  BY <1>13, <1>17, ClosedGroup DEF v, u
<1>19. Kept("json", fields, <<>>, {}) = kept
  BY <1>8 DEF kept, gone, p
<1> QED
  BY <1>16, <1>17, <1>18, <1>19 DEF SourceOf

(* The source with ReplaceAttr functions is a group like any other.        *)
LEMMA SourceReplaced ==
  ASSUME NEW o, Fair(o), NEW s \in Json!States(o),
         s.groups = <<>>, ~s.track, NEW key \in STRING,
         NEW fields \in Seq(Attrs \cap Leaves)
  PROVE  Json!AppendGroup(s, key, Json!Calls(o, fields)).s
           = After(s, SourceOf(key, Kept("json", fields, <<>>, o.removed)))
<1> DEFINE u == Opened(s, key)
           m == Kept("json", fields, <<>>, o.removed)
           in == Adds(u, m)
<1>1. /\ fields \in Seq(Attrs)
      /\ \A i \in DOMAIN fields : fields[i].kind # "group"
  <2>1. /\ fields \in Seq(Attrs)
        /\ \A i \in DOMAIN fields : fields[i] \in Attrs /\ fields[i].kind = "leaf"
    BY FieldsAreAttrs
  <2>2. "leaf" # "group"
    OBVIOUS
  <2> QED
    BY <2>1, <2>2
<1>2. u \in Json!States(o) /\ u.groups = <<>>
  BY OpenedParts
<1>3. m \in Seq(Ended)
  <2>1. <<>> \in Paths
    BY DEF Paths
  <2> QED
    BY <1>1, <2>1, JsonKept
<1>4. key # NoKey
  BY AttrAssumption
<1>5. Json!OpenGroup(s, key) = u
  BY OpenGroupIs
<1>6. Json!AppendEach(u, Json!Calls(o, fields)) = in
  <2> HIDE DEF u
  <2>1. Json!AppendEach(u, Json!Calls(o, fields))
          = Adds(u, Kept("json", fields, u.groups, o.removed))
    BY <1>1, <1>2, AllAdds
  <2> QED
    BY <1>2, <2>1
<1>7. in.s = After(u, m) /\ in.written = (m # <<>>)
  BY DEF Adds, Json!Written
<1>8. Json!AppendGroup(s, key, Json!Calls(o, fields))
         = CASE ~in.written ->
                  Json!Written([in.s EXCEPT !.buf = SubSeq(@, 1, Len(s.buf)),
                                            !.sep = s.sep,
                                            !.groups = SubSeq(@, 1, Len(s.groups))], FALSE)
             [] in.written /\ key = NoKey -> in
             [] OTHER -> Json!Written(Json!CloseGroup(in.s), TRUE)
  <2> HIDE DEF in, u
  <2> QED
    BY <1>4, <1>5, <1>6 DEF Json!AppendGroup
<1> HIDE DEF in, m
<1>9. CASE m = <<>>
  <2>1. in.s = u /\ ~in.written
    BY <1>7, <1>9 DEF After
  <2>2. [u EXCEPT !.buf = SubSeq(@, 1, Len(s.buf)), !.sep = s.sep,
                  !.groups = SubSeq(@, 1, Len(s.groups))] = s
    BY CutOpened
  <2> HIDE DEF u
  <2>3. Json!AppendGroup(s, key, Json!Calls(o, fields)) = Json!Written(s, FALSE)
    BY <1>8, <2>1, <2>2
  <2>4. Json!Written(s, FALSE).s = s
    BY DEF Json!Written
  <2>5. After(s, SourceOf(key, m)) = s
    BY <1>9 DEF SourceOf, After
  <2> QED
    BY <2>3, <2>4, <2>5 DEF m
<1>10. CASE m # <<>>
  <2>1. in.written
    BY <1>7, <1>10
  <2>2. Json!AppendGroup(s, key, Json!Calls(o, fields)) = Json!Written(Json!CloseGroup(in.s), TRUE)
    BY <1>4, <1>8, <2>1
  <2>3. Json!CloseGroup(in.s) = After(s, <<GroupIn("json", key, m)>>)
    BY <1>3, <1>7, <1>10, ClosedGroup
  <2>4. Json!Written(Json!CloseGroup(in.s), TRUE).s = Json!CloseGroup(in.s)
    BY DEF Json!Written
  <2>5. SourceOf(key, m) = <<GroupIn("json", key, m)>>
    BY <1>10 DEF SourceOf
  <2> QED
    BY <2>2, <2>3, <2>4, <2>5 DEF m
<1> QED
  BY <1>9, <1>10

(* Either way it is the same.                                              *)
LEMMA SourceIs ==
  ASSUME NEW o, Fair(o), NEW s \in Json!States(o),
         s.groups = <<>>, ~s.track, NEW key \in STRING,
         NEW fields \in Seq(Attrs \cap Leaves)
  PROVE  Json!AppendSource(s, key, fields)
           = After(s, SourceOf(key, Kept("json", fields, <<>>, o.removed)))
<1>1. s.options = o
  BY StateParts
<1>2. CASE fields = <<>>
  <2>1. Kept("json", fields, <<>>, o.removed) = <<>>
    BY <1>2, JsonKeptNone
  <2>2. After(s, SourceOf(key, <<>>)) = s
    BY DEF SourceOf, After
  <2>3. Json!AppendSource(s, key, fields) = s
    BY <1>2 DEF Json!AppendSource
  <2> QED
    BY <2>1, <2>2, <2>3
<1>3. CASE fields # <<>> /\ o.transforms
  <2>1. Json!AppendSource(s, key, fields) = Json!AppendGroup(s, key, Json!Calls(o, fields)).s
    BY <1>1, <1>3 DEF Json!AppendSource
  <2> QED
    BY <2>1, SourceReplaced
<1>4. CASE fields # <<>> /\ ~o.transforms
  <2>1. o.removed = {}
    BY <1>4 DEF Fair
  <2>2. Json!AppendSource(s, key, fields)
           = After(s, SourceOf(key, Kept("json", fields, <<>>, {})))
    BY <1>4, <2>1, SourceLooped
  <2> QED
    BY <2>1, <2>2
<1> QED
  BY <1>2, <1>3, <1>4

(* The member of a source.                                                 *)
LEMMA SourceWritten ==
  ASSUME NEW o, Fair(o), o.preset \in PresetNames, NEW s \in Json!States(o),
         s.groups = <<>>, ~s.track, NEW fields \in Seq(Attrs \cap Leaves)
  PROVE  LET kept == Kept("json", fields, <<>>, o.removed)
             m == MemberOf(o, "source", JsonObject(kept), kept # <<>>)
         IN  m \in Seq(Ended) /\ Json!AppendBuiltin(s, "source", fields) = After(s, m)
<1> DEFINE kept == Kept("json", fields, <<>>, o.removed)
           k == PresetKeys[o.preset]["source"]
           m == MemberOf(o, "source", JsonObject(kept), kept # <<>>)
           one == <<GroupIn("json", k, kept)>>
<1>1. Json!BuiltinKey(o.preset, "source") = k /\ k \in STRING
  BY SameKeys
<1>2. Json!Removes(s, "source") <=> <<<<>>, "source">> \in o.removed
  BY RemovesIs
<1>3. s.options = o
  BY StateParts
<1>4. kept \in Seq(Ended)
  <2>1. <<>> \in Paths
    BY DEF Paths
  <2>2. fields \in Seq(Attrs)
    BY FieldsAreAttrs
  <2> QED
    BY <2>1, <2>2, JsonKept
<1> HIDE DEF kept
<1>5. m = IF kept # <<>> /\ <<<<>>, "source">> \notin o.removed THEN one ELSE <<>>
  BY DEF MemberOf, GroupIn
<1> HIDE DEF k, m
<1>6. Json!AppendBuiltin(s, "source", fields)
        = IF Json!Removes(s, "source") THEN s ELSE Json!AppendSource(s, k, fields)
  BY <1>1, <1>3 DEF Json!AppendBuiltin
<1>7. Json!AppendSource(s, k, fields) = After(s, SourceOf(k, kept))
  BY <1>1, SourceIs DEF kept
<1>8. one \in Seq(Ended)
  <2>1. GroupIn("json", k, kept) \in Ended
    BY <1>1, <1>4, JsonGroup
  <2> QED
    BY <2>1
<1>9. <<>> \in Seq(Ended) /\ After(s, <<>>) = s
  BY DEF After
<1>10. SourceOf(k, kept) = IF kept # <<>> THEN one ELSE <<>>
  BY DEF SourceOf
<1> HIDE DEF one
<1>11. m \in Seq(Ended)
  BY <1>5, <1>8, <1>9
<1>12. CASE <<<<>>, "source">> \in o.removed
  <2>1. m = <<>>
    BY <1>5, <1>12
  <2>2. Json!AppendBuiltin(s, "source", fields) = s
    BY <1>2, <1>6, <1>12
  <2> QED
    BY <1>9, <1>11, <2>1, <2>2 DEF m, kept
<1>13. CASE <<<<>>, "source">> \notin o.removed
  <2>1. m = SourceOf(k, kept)
    BY <1>5, <1>10, <1>13
  <2>2. Json!AppendBuiltin(s, "source", fields) = After(s, SourceOf(k, kept))
    BY <1>2, <1>6, <1>7, <1>13
  <2>3. Json!AppendBuiltin(s, "source", fields) = After(s, m)
    BY <2>1, <2>2
  <2> QED
    BY <1>11, <2>3 DEF m, kept
<1> QED
  BY <1>12, <1>13
-----------------------------------------------------------------------------
(* What is written in no group.                                            *)
Outside(o) == {s \in Json!States(o) : s.groups = <<>> /\ ~s.track}

LEMMA OutsideAfter ==
  ASSUME NEW o, NEW s \in Outside(o), NEW m \in Seq(Ended)
  PROVE  After(s, m) \in Outside(o)
<1>1. s \in Json!States(o) /\ s.groups = <<>> /\ ~s.track
  BY DEF Outside
<1>2. /\ After(s, m) \in Json!States(o)
      /\ After(s, m).groups = s.groups /\ After(s, m).track = s.track
  BY <1>1, AfterType
<1> QED
  BY <1>1, <1>2 DEF Outside

LEMMA TextBuiltin ==
  ASSUME NEW o, Fair(o), o.preset \in PresetNames, NEW s \in Outside(o),
         NEW key \in {"time", "msg"}, NEW val \in {"stamp", "message"}
  PROVE  LET m == MemberOf(o, key, <<ValTok(val)>>, TRUE)
         IN  m \in Seq(Ended) /\ Json!AppendBuiltin(s, key, val) = After(s, m)
<1> DEFINE v == ValTok(val)
           k == Json!BuiltinKey(o.preset, key)
<1>1. s \in Json!States(o) /\ s.groups = <<>> /\ s.options = o
  BY StateParts DEF Outside
<1>2. v \in Toks /\ v # BraceTok
  BY LiteralAssumption, ValToken
<1>3. key \in {"time", "level", "source", "msg"} /\ key # "source" /\ key # "level"
  OBVIOUS
<1> DEFINE w == IF Json!Removes(s, key) THEN s ELSE Json!Put(Json!AppendKey(s, k), <<v>>)
<1>4. Json!AppendBuiltin(s, key, val) = w
  BY <1>1, <1>3, SameTokens DEF Json!AppendBuiltin
<1> HIDE DEF v
<1> DEFINE m == MemberOf(o, key, <<v>>, TRUE)
<1>5. m \in Seq(Ended)
      /\ w = After(s, m)
  BY <1>1, <1>2, <1>3, BuiltinWritten
<1> HIDE DEF w
<1>6. Json!AppendBuiltin(s, key, val) = After(s, m)
  BY <1>4, <1>5
<1>7. m \in Seq(Ended)
  BY <1>5
<1> QED
  BY <1>6, <1>7 DEF v

LEMMA LevelBuiltin ==
  ASSUME NEW o, Fair(o), o.preset \in PresetNames, NEW s \in Outside(o),
         NEW l \in Int
  PROVE  LET m == MemberOf(o, "level", <<ShownLevel(o.preset, l)>>, TRUE)
         IN  m \in Seq(Ended) /\ Json!AppendBuiltin(s, "level", l) = After(s, m)
<1> DEFINE v == ShownLevel(o.preset, l)
           k == Json!BuiltinKey(o.preset, "level")
<1>1. s \in Json!States(o) /\ s.groups = <<>> /\ s.options = o
  BY StateParts DEF Outside
<1>2. k = PresetKeys[o.preset]["level"]
  BY SameKeys
<1>3. v \in Toks /\ v # BraceTok /\ Json!LevelToken(o.preset, k, l) = v
  BY <1>2, LevelShown
<1>4. "level" \in {"time", "level", "source", "msg"} /\ "level" # "source"
  OBVIOUS
<1> HIDE DEF v
<1> DEFINE w == IF Json!Removes(s, "level") THEN s
                ELSE Json!Put(Json!AppendKey(s, k), <<v>>)
<1>5. Json!AppendBuiltin(s, "level", l) = w
  <2>1. Json!AppendBuiltin(s, "level", l)
        = IF Json!Removes(s, "level") THEN s
          ELSE Json!Put(Json!AppendKey(s, k), <<Json!LevelToken(o.preset, k, l)>>)
    BY <1>1, <1>4 DEF Json!AppendBuiltin
  <2> HIDE DEF k
  <2> QED
    BY <1>3, <2>1
<1> DEFINE m == MemberOf(o, "level", <<v>>, TRUE)
<1>6. m \in Seq(Ended)
      /\ w = After(s, m)
  BY <1>1, <1>3, <1>4, BuiltinWritten
<1> HIDE DEF w
<1>7. Json!AppendBuiltin(s, "level", l) = After(s, m)
  BY <1>5, <1>6
<1>8. m \in Seq(Ended)
  BY <1>6
<1> QED
  BY <1>7, <1>8 DEF v

(* Four members one after the other, each of which may be missing.         *)
LEMMA FourAfter ==
  ASSUME NEW o, NEW s \in Json!States(o), NEW a \in Seq(Ended), NEW b \in Seq(Ended),
         NEW c \in Seq(Ended), NEW d \in Seq(Ended)
  PROVE  /\ After(After(After(After(s, a), b), c), d) = After(s, a \o b \o c \o d)
         /\ a \o b \o c \o d \in Seq(Ended)
<1> DEFINE E == Ended
           ab == Join(a, b)
           abc == Join(ab, c)
           abcd == Join(abc, d)
<1>1. a \in Seq(E) /\ b \in Seq(E) /\ c \in Seq(E) /\ d \in Seq(E)
  OBVIOUS
<1> HIDE DEF E
<1>2. ab \in Seq(E)
  BY <1>1, JoinType
<1> HIDE DEF ab
<1>3. abc \in Seq(E)
  BY <1>1, <1>2, JoinType
<1> HIDE DEF abc
<1>4. abcd \in Seq(E)
  BY <1>1, <1>3, JoinType
<1>5. After(After(s, a), b) = After(s, ab)
  BY AfterAfter DEF ab, Join
<1>6. After(After(s, ab), c) = After(s, abc)
  BY <1>2, AfterAfter DEF abc, Join, E
<1>7. After(After(s, abc), d) = After(s, abcd)
  BY <1>3, AfterAfter DEF abcd, Join, E
<1>8. abcd = a \o b \o c \o d
  BY DEF abcd, abc, ab, Join
<1> HIDE DEF abcd
<1> QED
  BY <1>4, <1>5, <1>6, <1>7, <1>8 DEF E

StartOf(o) ==
  [options |-> o, buf |-> <<BraceTok>>, sep |-> FALSE, groups |-> <<>>, track |-> FALSE]

LEMMA StartOutside ==
  ASSUME NEW o
  PROVE  StartOf(o) \in Outside(o)
<1> DEFINE toks == Seq(Toks)
           b == <<BraceTok>>
           s == StartOf(o)
<1>1. b \in toks /\ <<>> \in Paths
  BY PunctuationTokens, OneToken DEF Paths
<1>2. s = [options |-> o, buf |-> b, sep |-> FALSE, groups |-> <<>>, track |-> FALSE]
  BY DEF StartOf
<1> HIDE DEF toks, b, s
<1>3. s \in [options : {o}, buf : toks, sep : BOOLEAN, groups : Paths, track : BOOLEAN]
  BY <1>1, <1>2
<1>4. s.groups = <<>>
  BY <1>2
<1>5. ~s.track
  BY <1>2
<1>6. s \in Json!States(o)
  BY <1>3, StatesAre DEF toks
<1> QED
  BY <1>4, <1>5, <1>6 DEF Outside, s

(* All that is built in.                                                   *)
LEMMA BuiltinsWritten ==
  ASSUME NEW o \in Options, record \in RecordKinds
  PROVE  /\ BuiltinMembers(o) \in Seq(Ended)
         /\ Json!AppendBuiltins(StartOf(o), record) = After(StartOf(o), BuiltinMembers(o))
<1> DEFINE s == StartOf(o)
           fields == Kept("json", record.source, <<>>, o.removed)
           T == MemberOf(o, "time", <<ValTok("stamp")>>, record.time)
           L == MemberOf(o, "level", <<ShownLevel(o.preset, record.level)>>, TRUE)
           S == MemberOf(o, "source", JsonObject(fields),
                         o.addSource /\ record.pc /\ fields # <<>>)
           M == MemberOf(o, "msg", <<ValTok("message")>>, TRUE)
           time == IF record.time THEN Json!AppendBuiltin(s, "time", "stamp") ELSE s
           level == Json!AppendBuiltin(time, "level", record.level)
           source == IF o.addSource
                     THEN Json!AppendBuiltin(level, "source",
                                             IF record.pc THEN record.source ELSE <<>>)
                     ELSE level
           msg == Json!AppendBuiltin(source, "msg", "message")
<1>1. /\ record.time \in BOOLEAN /\ record.level \in Int /\ record.pc \in BOOLEAN
      /\ record.source \in Seq(Attrs \cap Leaves)
  BY RenderingAssumption
<1>2. Fair(o) /\ o.preset \in PresetNames /\ o.addSource \in BOOLEAN
  BY OptionsFair DEF Options
<1>3. BuiltinMembers(o) = T \o L \o S \o M
  BY DEF BuiltinMembers, MemberOf, Json!TimeVal, Json!MessageVal
<1>4. s.options = o
  BY DEF StartOf
<1>5. Json!AppendBuiltins(s, record) = msg
  <2> HIDE DEF s
  <2> QED
    BY <1>4 DEF Json!AppendBuiltins, Json!TimeVal, Json!MessageVal
<1>6. s \in Outside(o)
  BY StartOutside
<1> HIDE DEF s
<1>7. ASSUME NEW t PROVE After(t, <<>>) = t /\ <<>> \in Seq(Ended)
  BY DEF After
<1>8. time = After(s, T) /\ T \in Seq(Ended)
  <2>1. CASE record.time
    <3>1. T = MemberOf(o, "time", <<ValTok("stamp")>>, TRUE)
      BY <2>1
    <3> HIDE DEF T
    <3>2. T \in Seq(Ended) /\ Json!AppendBuiltin(s, "time", "stamp") = After(s, T)
      BY <1>2, <1>6, <3>1, TextBuiltin
    <3> QED
      BY <2>1, <3>2
  <2>2. CASE ~record.time
    <3>1. T = <<>>
      BY <2>2 DEF MemberOf
    <3>2. time = s
      BY <2>2
    <3> HIDE DEF T, time
    <3> QED
      BY <1>7, <3>1, <3>2
  <2> QED
    BY <2>1, <2>2
<1> HIDE DEF T, time
<1>9. time \in Outside(o)
  BY <1>6, <1>8, OutsideAfter
<1>10. level = After(time, L) /\ L \in Seq(Ended)
  BY <1>1, <1>2, <1>9, LevelBuiltin
<1> HIDE DEF L, level
<1>11. level \in Outside(o)
  BY <1>9, <1>10, OutsideAfter
<1>12. source = After(level, S) /\ S \in Seq(Ended)
  <2>1. CASE o.addSource /\ record.pc
    <3>1. S = MemberOf(o, "source", JsonObject(fields), fields # <<>>)
      BY <2>1 DEF MemberOf
    <3>2. source = Json!AppendBuiltin(level, "source", record.source)
      BY <2>1
    <3>3. level \in Json!States(o) /\ level.groups = <<>> /\ ~level.track
      BY <1>11 DEF Outside
    <3> HIDE DEF S, source
    <3>4. /\ MemberOf(o, "source", JsonObject(fields), fields # <<>>) \in Seq(Ended)
          /\ Json!AppendBuiltin(level, "source", record.source)
               = After(level, MemberOf(o, "source", JsonObject(fields), fields # <<>>))
      BY <1>1, <1>2, <3>3, SourceWritten
    <3> QED
      BY <3>1, <3>2, <3>4
  <2>2. CASE o.addSource /\ ~record.pc
    <3> DEFINE none == MemberOf(o, "source", JsonObject(<<>>), FALSE)
    <3>1. S = <<>> /\ none = <<>>
      BY <2>2 DEF MemberOf
    <3>2. source = Json!AppendBuiltin(level, "source", <<>>)
      BY <2>2
    <3>3. level \in Json!States(o) /\ level.groups = <<>> /\ ~level.track
      BY <1>11 DEF Outside
    <3>4. Kept("json", <<>>, <<>>, o.removed) = <<>>
      BY JsonKeptNone
    <3> HIDE DEF S, source, none
    <3>5. <<>> \in Seq(Attrs \cap Leaves)
      OBVIOUS
    <3> DEFINE kept == Kept("json", <<>>, <<>>, o.removed)
               m == MemberOf(o, "source", JsonObject(kept), kept # <<>>)
    <3>6. Json!AppendBuiltin(level, "source", <<>>) = After(level, m)
      <4> HIDE DEF m
      <4> QED
        BY <1>2, <3>3, <3>5, SourceWritten DEF m
    <3>7. m = <<>>
      BY <3>4 DEF MemberOf
    <3> QED
      BY <1>7, <3>1, <3>2, <3>6, <3>7
  <2>3. CASE ~o.addSource
    <3>1. S = <<>>
      BY <2>3 DEF MemberOf
    <3>2. source = level
      BY <2>3
    <3> HIDE DEF S, source
    <3> QED
      BY <1>7, <3>1, <3>2
  <2> QED
    BY <2>1, <2>2, <2>3
<1> HIDE DEF S, source
<1>13. source \in Outside(o)
  BY <1>11, <1>12, OutsideAfter
<1>14. msg = After(source, M) /\ M \in Seq(Ended)
  BY <1>2, <1>13, TextBuiltin
<1> HIDE DEF M, msg
<1>15. s \in Json!States(o)
  BY <1>6 DEF Outside
<1>16. /\ After(After(After(After(s, T), L), S), M) = After(s, T \o L \o S \o M)
       /\ T \o L \o S \o M \in Seq(Ended)
  BY <1>8, <1>10, <1>12, <1>14, <1>15, FourAfter
<1> DEFINE B == T \o L \o S \o M
<1> HIDE DEF B
<1>17. msg = After(s, B)
  BY <1>8, <1>10, <1>12, <1>14, <1>16 DEF B
<1> QED
  BY <1>3, <1>5, <1>16, <1>17 DEF s, B
-----------------------------------------------------------------------------
(* The line, from its opening brace to its closing one.                    *)
LEMMA JsonTextLed ==
  ASSUME NEW x \in Seq(Ended), NEW y \in Seq(Ended), y # <<>>
  PROVE  JsonText(x \o y) = Join(JsonText(x), Join(Lead(x # <<>>), JsonText(y)))
<1> DEFINE t == JsonText(y)
<1>1. t \in Seq(Toks)
  BY TextType
<1>2. CASE x = <<>>
  <2>1. x \o y = y
    BY <1>2, ConcatEmptySeq
  <2>2. JsonText(x) = <<>> /\ Lead(x # <<>>) = <<>>
    BY <1>2, JsonTextNone DEF Lead
  <2> HIDE DEF t
  <2>3. Join(<<>>, t) = t
    BY <1>1, JoinEmpty
  <2> QED
    BY <2>1, <2>2, <2>3 DEF t
<1>3. CASE x # <<>>
  <2>1. x \in Seq(Seq(Toks)) /\ y \in Seq(Seq(Toks)) /\ CommaTok \in Toks
    BY EndedType, PunctuationTokens
  <2>2. JsonText(x \o y) = JsonText(x) \o (<<CommaTok>> \o JsonText(y))
    BY <1>3, <2>1, JsonTextConcat
  <2>3. Lead(x # <<>>) = <<CommaTok>>
    BY <1>3 DEF Lead
  <2> QED
    BY <2>2, <2>3 DEF Join
<1> QED
  BY <1>2, <1>3

(* What begins a line.                                                     *)
Begun(x) == Join(<<BraceTok>>, JsonText(x))

LEMMA BegunType ==
  ASSUME NEW x \in Seq(Ended)
  PROVE  Begun(x) \in Seq(Toks)
<1>1. <<BraceTok>> \in Seq(Toks) /\ JsonText(x) \in Seq(Toks)
  BY PunctuationTokens, OneToken, TextType
<1> DEFINE a == <<BraceTok>>
           t == JsonText(x)
<1> HIDE DEF a, t
<1>2. Join(a, t) \in Seq(Toks)
  BY <1>1, JoinType DEF a, t
<1> QED
  BY <1>2 DEF Begun, a, t

LEMMA ObjectOne ==
  ASSUME NEW x
  PROVE  JsonObject(x) = Join(Begun(x), <<CloseTok>>)
BY DEF JsonObject, Begun, Join

LEMMA ObjectText ==
  ASSUME NEW x \in Seq(Ended), NEW y \in Seq(Ended), y # <<>>
  PROVE  JsonObject(x \o y)
           = Join(Join(Begun(x), Join(Lead(x # <<>>), JsonText(y))), <<CloseTok>>)
<1> DEFINE a == <<BraceTok>>
           t == JsonText(x)
           l == Lead(x # <<>>)
           u == JsonText(y)
           lu == Join(l, u)
<1>1. a \in Seq(Toks) /\ t \in Seq(Toks) /\ l \in Seq(Toks) /\ u \in Seq(Toks)
  <2>1. a \in Seq(Toks)
    BY PunctuationTokens, OneToken
  <2>2. l \in Seq(Toks)
    BY LeadType
  <2> QED
    BY <2>1, <2>2, TextType
<1>2. JsonText(x \o y) = Join(t, lu)
  BY JsonTextLed
<1> HIDE DEF a, t, l, u
<1>3. lu \in Seq(Toks)
  BY <1>1, JoinType
<1> HIDE DEF lu
<1>4. Join(Join(a, t), lu) = Join(a, Join(t, lu))
  BY <1>1, <1>3, JoinAssoc
<1>5. Begun(x \o y) = Join(Begun(x), lu)
  BY <1>2, <1>4 DEF Begun, a, t
<1> QED
  BY <1>5, ObjectOne DEF lu, l, u

LEMMA BuiltinText ==
  ASSUME NEW o, NEW x \in Seq(Ended)
  PROVE  LET s == After(StartOf(o), x)
         IN  /\ s \in Json!States(o) /\ s.buf = Begun(x) /\ s.sep = (x # <<>>)
<1> DEFINE e == StartOf(o)
           s == After(e, x)
           b == <<BraceTok>>
           t == JsonText(x)
<1>1. e \in Json!States(o)
  BY StartOutside DEF Outside
<1>2. e.buf = b /\ e.sep = FALSE
  BY DEF StartOf
<1>3. b \in Seq(Toks) /\ t \in Seq(Toks)
  BY PunctuationTokens, OneToken, TextType
<1> HIDE DEF e, b
<1>4. s \in Json!States(o) /\ s.sep = (e.sep \/ x # <<>>)
  BY <1>1, AfterType
<1>5. s.buf = Begun(x)
  <2>1. CASE x = <<>>
    <3>1. s = e
      BY <2>1 DEF After
    <3>2. Begun(x) = Join(b, <<>>)
      BY <2>1, JsonTextNone DEF Begun, b
    <3>3. Join(b, <<>>) = b
      BY <1>3, JoinEmpty
    <3> HIDE DEF s
    <3> QED
      BY <1>2, <3>1, <3>2, <3>3
  <2>2. CASE x # <<>>
    <3>1. s = Wrote(e, t)
      BY <1>1, <2>2, AfterWrote
    <3> HIDE DEF s, t
    <3>2. Lead(e.sep) = <<>>
      BY <1>2 DEF Lead
    <3>3. Join(<<>>, t) = t
      BY <1>3, JoinEmpty
    <3> DEFINE text == Join(e.buf, Join(Lead(e.sep), t))
    <3>4. text = Join(b, t)
      BY <1>2, <3>2, <3>3
    <3>5. s = [e EXCEPT !.buf = text, !.sep = TRUE]
      BY <3>1 DEF Wrote
    <3> HIDE DEF text
    <3>6. e = [options |-> e.options, buf |-> e.buf, sep |-> e.sep,
               groups |-> e.groups, track |-> e.track]
      BY <1>1, StateParts
    <3>7. s.buf = text
      BY <3>5, <3>6
    <3> QED
      BY <3>4, <3>7 DEF Begun, b, t
  <2> QED
    BY <2>1, <2>2
<1> HIDE DEF s
<1>6. s.sep = (x # <<>>)
  BY <1>2, <1>4
<1> QED
  BY <1>4, <1>5, <1>6 DEF s, e

LEMMA PutAfterComma ==
  ASSUME NEW o, NEW s \in Json!States(o), NEW x \in Seq(Toks)
  PROVE  Json!Put(Json!Comma(s), x) = [s EXCEPT !.buf = Join(s.buf, Join(Lead(s.sep), x))]
<1> DEFINE b == s.buf
           m == <<CommaTok>>
           t == Join(b, m)
<1>1. b \in Seq(Toks) /\ s.sep \in BOOLEAN
  BY StateParts
<1>2. m \in Seq(Toks)
  BY PunctuationTokens, OneToken
<1>3. s = [options |-> s.options, buf |-> s.buf, sep |-> s.sep,
           groups |-> s.groups, track |-> s.track]
  BY StateParts
<1>4. \A u, y : Json!Put(u, y) = [u EXCEPT !.buf = Join(u.buf, y)]
  BY DEF Json!Put, Join
<1>5. CASE s.sep
  <2>1. Json!Comma(s) = Json!Put(s, m)
    BY <1>5, SameTokens DEF Json!Comma
  <2>2. Lead(s.sep) = m
    BY <1>5 DEF Lead
  <2> HIDE DEF m
  <2>3. Json!Put(s, m) = [s EXCEPT !.buf = t]
    BY <1>4
  <2>4. Join(t, x) = Join(b, Join(m, x))
    <3> HIDE DEF b
    <3> QED
      BY <1>1, <1>2, JoinAssoc
  <2> DEFINE u == [s EXCEPT !.buf = t]
  <2> HIDE DEF t
  <2>5. u.buf = t
    BY <1>3
  <2> DEFINE all == Join(b, Join(m, x))
  <2>6. Json!Put(u, x) = [u EXCEPT !.buf = all]
    <3>1. Json!Put(u, x) = [u EXCEPT !.buf = Join(u.buf, x)]
      BY <1>4
    <3> HIDE DEF u, all
    <3>2. Join(u.buf, x) = all
      BY <2>4, <2>5 DEF all
    <3> QED
      BY <3>1, <3>2
  <2> HIDE DEF all
  <2>7. [u EXCEPT !.buf = all] = [s EXCEPT !.buf = all]
    BY <1>3
  <2> HIDE DEF u
  <2> QED
    BY <2>1, <2>2, <2>3, <2>6, <2>7 DEF u, all
<1>6. CASE ~s.sep
  <2>1. Json!Comma(s) = s
    BY <1>6 DEF Json!Comma
  <2>2. Lead(s.sep) = <<>>
    BY <1>6 DEF Lead
  <2>3. Join(<<>>, x) = x
    BY JoinEmpty
  <2> QED
    BY <1>4, <2>1, <2>2, <2>3
<1> QED
  BY <1>1, <1>5, <1>6

(* What a line begins with before its own attributes.                      *)
LEMMA StartIs ==
  ASSUME JsonInv, NEW s \in Json!States(json.options)
  PROVE  LET t == Json!AppendPrefix(s, json)
             q == json.prefix
         IN  /\ t \in Json!States(json.options) /\ t.track
             /\ t.groups = SubSeq(json.groups, 1, json.nOpen)
             /\ t.buf = IF q = <<>> THEN s.buf ELSE Join(s.buf, Join(Lead(s.sep), q))
             /\ t.sep = IF q = <<>> THEN s.sep ELSE TRUE
<1> DEFINE o == json.options
           q == json.prefix
           g == SubSeq(json.groups, 1, json.nOpen)
           t == Json!AppendPrefix(s, json)
           buf == IF q = <<>> THEN s.buf ELSE Join(s.buf, Join(Lead(s.sep), q))
           sep == IF q = <<>> THEN s.sep ELSE TRUE
<1>1. json \in JsonHandlers /\ json.nOpen \in 0..Len(json.groups)
      /\ (q # <<>> => q \in Ended)
  BY DEF JsonInv
<1>2. json.groups \in Paths /\ q \in Seq(Toks)
  BY <1>1 DEF JsonHandlers
<1>3. g \in Paths
  BY <1>1, <1>2, PendingType
<1>4. s = [options |-> s.options, buf |-> s.buf, sep |-> s.sep,
           groups |-> s.groups, track |-> s.track]
      /\ s.options = o /\ s.buf \in Seq(Toks) /\ s.sep \in BOOLEAN /\ Lead(s.sep) \in Seq(Toks)
  BY StateParts
<1> DEFINE u == IF q = <<>> THEN s
                ELSE [Json!Put(Json!Comma(s), q) EXCEPT !.sep = Json!Last(q) # Json!BraceTok]
<1>5. t = [u EXCEPT !.groups = g, !.track = TRUE]
  BY DEF Json!AppendPrefix
<1>6. buf \in Seq(Toks)
  <2> DEFINE b == s.buf
             l == Lead(s.sep)
  <2> HIDE DEF b, l, q
  <2>1. b \in Seq(Toks) /\ l \in Seq(Toks) /\ q \in Seq(Toks)
    BY <1>2, <1>4 DEF b, l
  <2>2. Join(l, q) \in Seq(Toks)
    BY <2>1, JoinType
  <2>3. Join(b, Join(l, q)) \in Seq(Toks)
    BY <2>1, <2>2, JoinType
  <2> QED
    BY <2>1, <2>3 DEF b, l
<1>7. u = [s EXCEPT !.buf = buf, !.sep = sep]
  <2>1. CASE q = <<>>
    <3>1. buf = s.buf /\ sep = s.sep /\ u = s
      BY <2>1
    <3> HIDE DEF buf, sep, u
    <3> QED
      BY <1>4, <3>1
  <2>2. CASE q # <<>>
    <3> DEFINE p == Json!Put(Json!Comma(s), q)
               last == Json!Last(q) # Json!BraceTok
    <3>1. q[Len(q)] # BraceTok
      BY <1>1, <2>2 DEF Ended
    <3>2. last = TRUE
      BY <3>1, SameTokens DEF Json!Last
    <3>3. p = [s EXCEPT !.buf = buf]
      BY <1>2, <2>2, PutAfterComma
    <3>4. u = [p EXCEPT !.sep = last]
      BY <2>2
    <3>5. sep = TRUE
      BY <2>2
    <3> HIDE DEF buf, sep, u, p, last
    <3> QED
      BY <1>4, <3>2, <3>3, <3>4, <3>5
  <2> QED
    BY <2>1, <2>2
<1>8. sep \in BOOLEAN
  BY <1>4
<1> HIDE DEF u, t, buf, sep, g
<1>9. t = [options |-> s.options, buf |-> buf, sep |-> sep, groups |-> g, track |-> TRUE]
  BY <1>4, <1>5, <1>7
<1>10. t \in Json!States(o)
  <2> DEFINE toks == Seq(Toks)
  <2>1. buf \in toks
    BY <1>6
  <2> HIDE DEF toks, o
  <2>2. t \in [options : {o}, buf : toks, sep : BOOLEAN, groups : Paths, track : BOOLEAN]
    BY <1>3, <1>4, <1>8, <1>9, <2>1 DEF o
  <2> QED
    BY <2>2, StatesAre DEF toks
<1>11. t.track
  BY <1>9
<1>12. t.groups = g /\ t.buf = buf
  BY <1>9
<1>13. t.sep = sep
  BY <1>9
<1> QED
  BY <1>10, <1>11, <1>12, <1>13 DEF t, g, buf, sep

(* The end of a line with attributes of its own.                           *)
LEMMA EndText ==
  ASSUME NEW S, NEW a \in Seq(S), NEW p \in Seq(S), NEW t \in Seq(S),
         NEW c \in Seq(S), NEW e \in Seq(S)
  PROVE  Join(Join(a, Join(p, t)), Join(c, e)) = Join(Join(a, Join(p, Join(t, c))), e)
<1> DEFINE ce == Join(c, e)
           tc == Join(t, c)
<1>1. ce \in Seq(S) /\ tc \in Seq(S)
  BY JoinType
<1>2. Join(tc, e) = Join(t, ce)
  BY JoinAssoc
<1> HIDE DEF ce, tc
<1>3. Join(Join(a, Join(p, t)), ce) = Join(a, Join(p, Join(t, ce)))
  BY <1>1, FourParts
<1>4. Join(Join(a, Join(p, tc)), e) = Join(a, Join(p, Join(tc, e)))
  BY <1>1, FourParts
<1> QED
  BY <1>2, <1>3, <1>4 DEF ce, tc

(* The end of one without.                                                 *)
LEMMA ShortText ==
  ASSUME NEW S, NEW a \in Seq(S), NEW l \in Seq(S), NEW q \in Seq(S),
         NEW c \in Seq(S), NEW e \in Seq(S)
  PROVE  Join(Join(a, Join(l, q)), Join(c, e)) = Join(Join(a, Join(l, Join(q, c))), e)
BY EndText

(* A line is what is built in, the prefix, what goes in the groups that    *)
(* are pending, and braces.                                                *)
LEMMA JsonInvShown == JsonInv /\ record \in RecordKinds => JsonTellsAll
<1> SUFFICES ASSUME JsonInv, record \in RecordKinds, NEW attrs \in AttrLists
             PROVE  Json!Line(json, record, attrs)
                      = JsonObject(BuiltinMembers(json.options)
                                     \o Tree("json", steps, attrs \o TraceAttrs, removed))
  BY DEF JsonTellsAll
<1> DEFINE o == json.options
           g == json.groups
           n == json.nOpen
           q == json.prefix
           P == Pending(json)
           B == BuiltinMembers(o)
           list == attrs \o TraceAttrs
           own == Kept("json", list, PathOf(steps), removed)
           W == Wrapped("json", steps, own, removed)
           s == After(StartOf(o), B)
           start == Json!AppendPrefix(s, json)
           u == AllOpened(start, P)
           end == Adds(u, own)
           a == Begun(B)
           l == Lead(B # <<>>)
           e == <<CloseTok>>
<1>1. /\ json \in JsonHandlers /\ g = PathOf(steps) /\ n \in 0..Len(g)
      /\ q = <<>> => n = 0
      /\ q # <<>> => q \in Ended
      /\ \A x \in Seq(Ended) : TextAround(x)
  BY DEF JsonInv
<1>2. o \in Options /\ g \in Paths /\ q \in Seq(Toks)
  BY <1>1 DEF JsonHandlers
<1>3. /\ B \in Seq(Ended)
      /\ Json!AppendBuiltins(StartOf(o), record) = s
  <2> HIDE DEF o
  <2> QED
    BY <1>2, BuiltinsWritten
<1>4. list \in Seq(Attrs) /\ Json!StackOf(record) = TraceAttrs
  <2>1. attrs \in Seq(Attrs) /\ TraceAttrs \in Seq(Attrs)
    BY RenderingAssumption DEF TraceAttrs
  <2> QED
    BY <2>1 DEF Json!StackOf, TraceAttrs, LevelTrace, LevelDebug,
                Json!LevelTrace, Json!LevelDebug
<1>5. Tree("json", steps, list, removed) = W
  BY DEF Tree
<1> HIDE DEF list
<1>6. /\ s \in Json!States(o) /\ s.buf = a /\ s.sep = (B # <<>>)
  <2> HIDE DEF B, o
  <2> QED
    BY <1>3, BuiltinText
<1> HIDE DEF B, s
<1>7. /\ start \in Json!States(o) /\ start.track
      /\ start.groups = SubSeq(g, 1, n)
      /\ start.buf = IF q = <<>> THEN a ELSE Join(a, Join(l, q))
      /\ start.sep = IF q = <<>> THEN B # <<>> ELSE TRUE
  <2>1. /\ start \in Json!States(o) /\ start.track
        /\ start.groups = SubSeq(g, 1, n)
        /\ start.buf = IF q = <<>> THEN s.buf ELSE Join(s.buf, Join(Lead(s.sep), q))
        /\ start.sep = IF q = <<>> THEN s.sep ELSE TRUE
    BY <1>6, StartIs
  <2>2. Lead(s.sep) = l
    BY <1>6
  <2> HIDE DEF start, a, l, o, g, n, q
  <2> QED
    BY <1>6, <2>1, <2>2
<1> HIDE DEF start
<1>8. /\ own \in Seq(Ended) /\ u \in Json!States(o)
      /\ Json!AppendAll(Json!OpenPending(start, json), list) = end
  BY <1>4, <1>7, PendingAdds
<1>9. end.s = After(u, own) /\ end.written = (own # <<>>)
  BY DEF Adds, Json!Written
<1>10. Json!Line(json, record, attrs) = Json!Finish(json, start, end)
  <2> DEFINE empty == [options |-> o, buf |-> <<Json!BraceTok>>, sep |-> FALSE,
                       groups |-> <<>>, track |-> FALSE]
  <2>1. empty = StartOf(o)
    BY SameTokens DEF StartOf
  <2>2. Json!Line(json, record, attrs)
          = Json!AppendOwn(json, Json!AppendPrefix(Json!AppendBuiltins(empty, record), json), list)
    BY <1>4 DEF Json!Line, list
  <2> HIDE DEF empty
  <2>3. Json!Line(json, record, attrs) = Json!AppendOwn(json, start, list)
    BY <1>3, <2>1, <2>2 DEF start
  <2> HIDE DEF end
  <2> QED
    BY <1>8, <2>3 DEF Json!AppendOwn
<1>11. P \in Paths /\ Len(g) \in Nat /\ n \in Nat
  BY <1>1, <1>2, PendingType
<1>12. TextAround(own)
  <2> HIDE DEF own
  <2> QED
    BY <1>1, <1>8
<1>13. /\ a \in Seq(Toks) /\ l \in Seq(Toks) /\ e \in Seq(Toks)
  <2>1. a \in Seq(Toks)
    BY <1>3, BegunType
  <2>2. l \in Seq(Toks)
    BY LeadType
  <2>3. e \in Seq(Toks)
    BY PunctuationTokens, OneToken
  <2> QED
    BY <2>1, <2>2, <2>3
<1>14. W \in Seq(Ended)
       /\ (own = <<>> => JsonText(W) = Join(q, Json!Closed(n)) /\ (W = <<>> <=> q = <<>>))
       /\ (own # <<>> => W # <<>> /\ JsonText(W) = Inside(json, JsonText(own)))
  BY <1>12 DEF TextAround
<1> HIDE DEF own, end, u, P, W
<1>15. W # <<>> => JsonObject(B \o W) = Join(Join(a, Join(l, JsonText(W))), e)
  BY <1>3, <1>14, ObjectText
<1> HIDE DEF a, l, e
<1>16. CASE own # <<>>
  <2> DEFINE p == Opens(P)
             t == JsonText(own)
             c == Json!Closed(Len(g))
             m == Lead(q # <<>>)
  <2>1. Json!Finish(json, start, end) = Join(After(u, own).buf, Json!Closed(Len(g) + 1))
    BY <1>9, <1>16 DEF Json!Finish, Join
  <2>2. After(u, own).buf = Join(start.buf, Join(Lead(start.sep), Join(p, t)))
    BY <1>7, <1>8, <1>11, <1>16, WrittenInOpened DEF u
  <2>3. Json!Closed(Len(g) + 1) = Join(c, e)
    BY <1>11, ClosedAre DEF e
  <2>4. p \in Seq(Toks) /\ t \in Seq(Toks) /\ c \in Seq(Toks) /\ m \in Seq(Toks)
    <3>1. p \in Seq(Toks) /\ c \in Seq(Toks)
      BY <1>11, OpensAre, ClosedAre
    <3>2. t \in Seq(Toks) /\ m \in Seq(Toks)
      BY <1>8, TextType, LeadType
    <3> QED
      BY <3>1, <3>2
  <2>5. JsonText(W) = Join(q, Join(m, Join(p, Join(t, c))))
    BY <1>14, <1>16 DEF Inside, P
  <2> HIDE DEF p, t, c, m
  <2> DEFINE z == Join(p, t)
  <2>6. z \in Seq(Toks)
    BY <2>4, JoinType
  <2> HIDE DEF z
  <2>7. Join(start.buf, Join(Lead(start.sep), z)) = Join(a, Join(l, Join(q, Join(m, z))))
    <3>1. CASE q = <<>>
      <4>1. start.buf = a /\ Lead(start.sep) = l
        BY <1>7, <3>1 DEF l
      <4>2. m = <<>>
        BY <3>1 DEF m, Lead
      <4>3. Join(<<>>, Join(<<>>, z)) = z
        BY <2>6, JoinEmpty
      <4> HIDE DEF q
      <4> QED
        BY <3>1, <4>1, <4>2, <4>3
    <3>2. CASE q # <<>>
      <4>1. start.buf = Join(a, Join(l, q)) /\ Lead(start.sep) = m
        BY <1>7, <3>2 DEF m, Lead
      <4>2. Join(Join(a, Join(l, q)), Join(m, z)) = Join(a, Join(l, Join(q, Join(m, z))))
        <5> DEFINE y == Join(m, z)
        <5>1. y \in Seq(Toks) /\ q \in Seq(Toks)
          BY <1>2, <2>4, <2>6, JoinType
        <5> HIDE DEF y, q
        <5>2. Join(Join(a, Join(l, q)), y) = Join(a, Join(l, Join(q, y)))
          BY <1>13, <5>1, FourParts
        <5> QED
          BY <5>2 DEF y
      <4> HIDE DEF q
      <4> QED
        BY <4>1, <4>2
    <3> QED
      BY <3>1, <3>2
  <2> HIDE DEF q, g, o, n
  <2>8. Json!Finish(json, start, end)
          = Join(Join(a, Join(l, Join(q, Join(m, Join(p, t))))), Join(c, e))
    BY <2>1, <2>2, <2>3, <2>7 DEF z
  <2>9. JsonObject(B \o W) = Join(Join(a, Join(l, Join(q, Join(m, Join(p, Join(t, c)))))), e)
    BY <1>14, <1>15, <1>16, <2>5
  <2>10. Join(Join(a, Join(l, Join(q, Join(m, Join(p, t))))), Join(c, e))
           = Join(Join(a, Join(l, Join(q, Join(m, Join(p, Join(t, c)))))), e)
    <3> DEFINE S == Toks
    <3>1. /\ a \in Seq(S) /\ l \in Seq(S) /\ e \in Seq(S) /\ p \in Seq(S) /\ t \in Seq(S)
          /\ c \in Seq(S) /\ m \in Seq(S) /\ q \in Seq(S)
      BY <1>2, <1>13, <2>4 DEF q
    <3> HIDE DEF S
    <3> DEFINE A == Join(a, Join(l, Join(q, m)))
               pt == Join(p, t)
               ptc == Join(p, Join(t, c))
    <3>2. Join(q, m) \in Seq(S) /\ Join(t, c) \in Seq(S)
      BY <3>1, JoinType
    <3>3. Join(l, Join(q, m)) \in Seq(S) /\ pt \in Seq(S) /\ ptc \in Seq(S)
      BY <3>1, <3>2, JoinType
    <3>4. A \in Seq(S)
      BY <3>1, <3>3, JoinType
    <3> HIDE DEF pt, ptc
    <3>5. Join(A, pt) = Join(a, Join(l, Join(q, Join(m, pt))))
      BY <3>1, <3>3, JoinLast4
    <3>6. Join(A, ptc) = Join(a, Join(l, Join(q, Join(m, ptc))))
      BY <3>1, <3>3, JoinLast4
    <3> HIDE DEF A
    <3>7. Join(Join(A, Join(p, t)), Join(c, e)) = Join(Join(A, Join(p, Join(t, c))), e)
      BY <3>1, <3>4, EndText
    <3> QED
      BY <3>5, <3>6, <3>7 DEF pt, ptc
  <2> QED
    BY <1>5, <1>10, <2>8, <2>9, <2>10 DEF B, o, W, own, list
<1>17. CASE own = <<>>
  <2> DEFINE c == Json!Closed(n)
  <2>1. Json!Finish(json, start, end) = Join(start.buf, Json!Closed(n + 1))
    BY <1>9, <1>17 DEF Json!Finish, Join
  <2>2. Json!Closed(n + 1) = Join(c, e) /\ c \in Seq(Toks)
    BY <1>11, ClosedAre DEF e
  <2>3. JsonText(W) = Join(q, c)
    BY <1>14, <1>17
  <2>4. CASE q = <<>>
    <3>1. W = <<>>
      BY <1>14, <1>17, <2>4
    <3>2. B \o W = B
      BY <1>3, <3>1, ConcatEmptySeq
    <3>3. c = <<>>
      BY <1>1, <2>4, ClosedAre
    <3>4. Join(<<>>, e) = e
      BY <1>13, JoinEmpty
    <3>5. start.buf = a
      BY <1>7, <2>4
    <3>6. JsonObject(B) = Join(a, e)
      BY ObjectOne DEF a, e
    <3> HIDE DEF c, q, g, o, n
    <3>7. Json!Finish(json, start, end) = JsonObject(B \o W)
      BY <2>1, <2>2, <3>2, <3>3, <3>4, <3>5, <3>6
    <3> QED
      BY <1>5, <1>10, <3>7 DEF B, o, W, own, list
  <2>5. CASE q # <<>>
    <3>1. W # <<>>
      BY <1>14, <1>17, <2>5
    <3>2. start.buf = Join(a, Join(l, q))
      BY <1>7, <2>5
    <3> HIDE DEF c, q, g, o, n
    <3>3. Join(Join(a, Join(l, q)), Join(c, e)) = Join(Join(a, Join(l, Join(q, c))), e)
      BY <1>2, <1>13, <2>2, ShortText
    <3>4. Json!Finish(json, start, end) = JsonObject(B \o W)
      BY <1>15, <2>1, <2>2, <2>3, <3>1, <3>2, <3>3
    <3> QED
      BY <1>5, <1>10, <3>4 DEF B, o, W, own, list
  <2> QED
    BY <2>4, <2>5
<1> QED
  BY <1>16, <1>17

(* Every JSON line is one well-formed object of what is built in and of    *)
(* what a logger was derived with and is given, whatever its history.      *)
THEOREM JsonLinesTellAll == LoggerSpec => []JsonTellsAll
<1> DEFINE Inv == JsonInv /\ record \in RecordKinds
<1>1. LoggerInit => Inv
  BY JsonInvInit DEF LoggerInit
<1>2. Inv /\ [LoggerNext]_loggerVars => Inv'
  <2> SUFFICES ASSUME JsonInv, record \in RecordKinds, [LoggerNext]_loggerVars
               PROVE  JsonInv' /\ (record \in RecordKinds)'
    OBVIOUS
  <2>1. CASE UNCHANGED loggerVars
    <3>1. record' = record /\ steps' = steps /\ json' = json /\ removed' = removed
      BY <2>1 DEF loggerVars
    <3>2. Options' = Options
      BY <3>1 DEF Options
    <3>3. JsonHandlers' = JsonHandlers
      BY <3>2 DEF JsonHandlers
    <3>4. ASSUME NEW x PROVE TextAround(x)' <=> TextAround(x)
      BY <3>1 DEF TextAround, Inside, Pending
    <3> QED
      BY <3>1, <3>3, <3>4 DEF JsonInv
  <2>2. ASSUME NEW attrs \in AttrLists, With(attrs) PROVE JsonInv' /\ (record \in RecordKinds)'
    BY <2>2, JsonInvWith DEF With
  <2>3. ASSUME NEW name \in Names, WithGroup(name) PROVE JsonInv' /\ (record \in RecordKinds)'
    BY <2>3, JsonInvWithGroup DEF WithGroup
  <2> QED
    BY <2>1, <2>2, <2>3 DEF LoggerNext
<1>3. Inv => JsonTellsAll
  BY JsonInvShown
<1> QED
  BY <1>1, <1>2, <1>3, PTL DEF LoggerSpec
-----------------------------------------------------------------------------
(* The store of a recorder.                                                *)
Searches == [point : {"dump"}, hits : SUBSET Records, searched : Seq(Records)]

Failures == [point : {"failed"}, hits : SUBSET Records,
             searched : Seq(Records), listed : Seq(Records)]

Typed ==
  /\ TypeOK
  /\ log \in [Records -> HandleCalls \cup {None}]
  /\ test \in {Idle} \cup Searches \cup Failures

(* What append looked at is still the store when its result is stored.     *)
Current == \A r \in At("append") : log[r].seen = store

(* Between the search and the listing the store is only added to, or reset.*)
Follows(list) ==
  \/ Begins(test.searched, list)
  \/ \E i \in DOMAIN test.searched : test.searched[i] \in dropped

(* The store only grows between the search and the dump, but for Reset.    *)
Searching ==
  /\ test.point # "idle" =>
       \A i \in DOMAIN test.searched : test.searched[i] \notin test.hits
  /\ test.point = "dump" => Follows(store)
  /\ test.point = "failed" => Follows(test.listed)

(* The inductive invariant of the store.                                   *)
StoreInv == Typed /\ Current /\ StoredOnce /\ Searching

LEMMA StoreInvInit == StoreInit => StoreInv
<1> SUFFICES ASSUME StoreInit PROVE StoreInv
  OBVIOUS
<1> USE StoreAssumption DEF StoreInit, StoreAssumption, Idle
<1>1. Typed
  BY DEF Typed, TypeOK, At
<1>2. At("append") = {} /\ At("done") = {} /\ Stored = {}
  BY DEF At, Stored
<1>3. Current /\ StoredOnce /\ Searching
  BY <1>2 DEF Current, StoredOnce, Searching
<1> QED
  BY <1>1, <1>3 DEF StoreInv

(* A call moves on.                                                        *)
LEMMA Moves ==
  ASSUME Typed, NEW r \in Records, NEW c \in HandleCalls,
         log' = [log EXCEPT ![r] = c]
  PROVE  /\ log' \in [Records -> HandleCalls \cup {None}]
         /\ \A q \in Records : log'[q] # None => log'[q] \in HandleCalls
         /\ At("append")' =
              (At("append") \ {r}) \cup (IF c.point = "append" THEN {r} ELSE {})
         /\ At("done")' =
              (At("done") \ {r}) \cup (IF c.point = "done" THEN {r} ELSE {})
<1>1. log' \in [Records -> HandleCalls \cup {None}]
  BY DEF Typed
<1>2. \A q \in Records : log'[q] # None => log'[q] \in HandleCalls
  BY <1>1
<1>3. log'[r] = c /\ c # None /\ \A q \in Records : q # r => log'[q] = log[q]
  BY StoreAssumption DEF Typed, StoreAssumption
<1>4. At("append")' = (At("append") \ {r}) \cup (IF c.point = "append" THEN {r} ELSE {})
  BY <1>3 DEF At
<1>5. At("done")' = (At("done") \ {r}) \cup (IF c.point = "done" THEN {r} ELSE {})
  BY <1>3 DEF At
<1> QED
  BY <1>1, <1>2, <1>4, <1>5

LEMMA LogStep ==
  ASSUME StoreInv, NEW r \in Records, Log(r)
  PROVE  StoreInv'
<1> DEFINE c == [point |-> "lock", seen |-> <<>>]
<1>1. c \in HandleCalls /\ log' = [log EXCEPT ![r] = c] /\ log[r] = None
      /\ UNCHANGED <<mu, store, resets, dropped, test>>
  BY DEF Log, HandleCalls, Points
<1>2. At("append")' = At("append") /\ At("done")' = At("done")
  <2>1. r \notin At("append") /\ r \notin At("done") /\ c.point = "lock"
    BY <1>1 DEF At
  <2> HIDE DEF c
  <2>2. /\ At("append")' =
             (At("append") \ {r}) \cup (IF c.point = "append" THEN {r} ELSE {})
        /\ At("done")' =
             (At("done") \ {r}) \cup (IF c.point = "done" THEN {r} ELSE {})
    BY <1>1, Moves DEF StoreInv
  <2> QED
    BY <2>1, <2>2
<1>3. /\ log' \in [Records -> HandleCalls \cup {None}]
      /\ \A q \in Records : log'[q] # None => log'[q] \in HandleCalls
  <2> HIDE DEF c
  <2> QED
    BY <1>1, Moves DEF StoreInv
<1>4. Typed'
  BY <1>1, <1>2, <1>3 DEF StoreInv, Typed, TypeOK
<1>5. Current'
  <2>1. \A q \in At("append") : q \in Records /\ q # r
    BY <1>1 DEF At
  <2> QED
    BY <1>1, <1>2, <2>1 DEF StoreInv, Typed, Current
<1>6. StoredOnce' /\ Searching'
  BY <1>1, <1>2 DEF StoreInv, StoredOnce, Stored, Searching, Follows
<1> QED
  BY <1>4, <1>5, <1>6 DEF StoreInv

(* The mutex keeps all others from appending.                              *)
LEMMA LockStep ==
  ASSUME StoreInv, NEW r \in Records, Lock(r)
  PROVE  StoreInv'
<1> DEFINE c == [point |-> "append", seen |-> store]
<1>1. /\ c \in HandleCalls /\ log' = [log EXCEPT ![r] = c]
      /\ log[r] # None /\ log[r].point = "lock" /\ mu = None /\ mu' = r
      /\ UNCHANGED <<store, resets, dropped, test>>
  BY DEF Lock, HandleCalls, Points, StoreInv, Typed, TypeOK
<1>2. At("append") = {}
  BY <1>1, StoreAssumption DEF StoreAssumption, StoreInv, Typed, TypeOK, At
<1>3. At("append")' = {r} /\ At("done")' = At("done")
  <2>1. r \notin At("done") /\ c.point = "append"
    BY <1>1 DEF At
  <2> HIDE DEF c
  <2>2. /\ At("append")' =
             (At("append") \ {r}) \cup (IF c.point = "append" THEN {r} ELSE {})
        /\ At("done")' =
             (At("done") \ {r}) \cup (IF c.point = "done" THEN {r} ELSE {})
    BY <1>1, Moves DEF StoreInv
  <2> QED
    BY <1>2, <2>1, <2>2
<1>4. /\ log' \in [Records -> HandleCalls \cup {None}]
      /\ \A q \in Records : log'[q] # None => log'[q] \in HandleCalls
  <2> HIDE DEF c
  <2> QED
    BY <1>1, Moves DEF StoreInv
<1>5. Typed'
  BY <1>1, <1>3, <1>4 DEF StoreInv, Typed, TypeOK
<1>6. Current'
  BY <1>1, <1>3 DEF StoreInv, Typed, Current
<1>7. StoredOnce' /\ Searching'
  BY <1>1, <1>3 DEF StoreInv, StoredOnce, Stored, Searching, Follows
<1> QED
  BY <1>5, <1>6, <1>7 DEF StoreInv

(* So the record of a call is added to the store there is.                 *)
LEMMA StoreStep ==
  ASSUME StoreInv, NEW r \in Records, Store(r)
  PROVE  StoreInv'
<1> DEFINE c == [point |-> "done", seen |-> <<>>]
<1>1. /\ c \in HandleCalls /\ log' = [log EXCEPT ![r] = c]
      /\ r \in At("append") /\ mu' = None
      /\ UNCHANGED <<resets, dropped, test>>
  BY DEF Store, HandleCalls, Points, At
<1>2. store' = Append(store, r) /\ store \in Seq(Records)
  BY <1>1 DEF Store, StoreInv, Current, Typed, TypeOK
<1>3. /\ store' \in Seq(Records) /\ Len(store) \in Nat
      /\ Len(store') = Len(store) + 1 /\ store'[Len(store) + 1] = r
      /\ \A i \in 1..Len(store) : store'[i] = store[i]
      /\ DOMAIN store = 1..Len(store) /\ DOMAIN store' = 1..(Len(store) + 1)
  BY <1>2
<1>4. At("append") = {r}
  BY <1>1 DEF StoreInv, Typed, TypeOK, At
<1>5. At("append")' = {} /\ At("done")' = At("done") \cup {r}
  <2>1. c.point = "done"
    OBVIOUS
  <2> HIDE DEF c
  <2> QED
    BY <1>1, <1>4, <2>1, Moves DEF StoreInv
<1>6. /\ log' \in [Records -> HandleCalls \cup {None}]
      /\ \A q \in Records : log'[q] # None => log'[q] \in HandleCalls
  <2> HIDE DEF c
  <2> QED
    BY <1>1, Moves DEF StoreInv
<1>7. Typed'
  BY <1>1, <1>3, <1>5, <1>6, StoreAssumption
     DEF StoreAssumption, StoreInv, Typed, TypeOK
<1>8. Current'
  BY <1>5 DEF Current
<1>9. StoredOnce'
  <2>1. Stored' = Stored \cup {r}
    BY <1>3 DEF Stored
  <2>2. r \notin Stored /\ r \notin dropped
    BY <1>1 DEF StoreInv, StoredOnce, At
  <2>3. \A i \in 1..Len(store) : store[i] # r
    BY <1>3, <2>2 DEF Stored
  <2>4. \A i, j \in DOMAIN store' : store'[i] = store'[j] => i = j
    BY <1>3, <2>3 DEF StoreInv, StoredOnce
  <2> QED
    BY <1>1, <1>5, <2>1, <2>2, <2>4 DEF StoreInv, StoredOnce
<1>10. Searching'
  <2>1. test.point = "dump" /\ Begins(test.searched, store)
          => Begins(test.searched, store')
    <3>1. test.point = "dump" => test.searched \in Seq(Records)
      BY DEF StoreInv, Typed, Idle, Searches, Failures
    <3> QED
      BY <1>3, <3>1 DEF Begins
  <2> QED
    BY <1>1, <2>1 DEF StoreInv, Searching, Follows
<1> QED
  BY <1>7, <1>8, <1>9, <1>10 DEF StoreInv

LEMMA ResetStep ==
  ASSUME StoreInv, Reset
  PROVE  StoreInv'
<1>1. /\ mu = None /\ store' = <<>> /\ dropped' = dropped \cup Stored
      /\ resets' = resets + 1 /\ resets < MaxResets /\ UNCHANGED <<log, mu, test>>
  BY DEF Reset, Stored
<1>2. At("append") = {} /\ \A point : At(point)' = At(point)
  BY <1>1, StoreAssumption DEF StoreAssumption, StoreInv, Typed, TypeOK, At
<1>3. Stored \subseteq Records /\ Stored' = {}
  BY <1>1 DEF StoreInv, Typed, TypeOK, Stored
<1>4. Typed'
  BY <1>1, <1>2, <1>3, StoreAssumption
     DEF StoreAssumption, StoreInv, Typed, TypeOK
<1>5. Current' /\ StoredOnce'
  BY <1>1, <1>2, <1>3 DEF Current, StoreInv, StoredOnce
<1>6. Searching'
  <2>1. ASSUME test.point = "dump", Begins(test.searched, store)
        PROVE  Follows(store)'
    <3>1. test.searched \in Seq(Records) /\ store \in Seq(Records)
      BY <2>1 DEF StoreInv, Typed, TypeOK, Idle, Searches, Failures
    <3>2. CASE test.searched = <<>>
      BY <1>1, <3>2 DEF Follows, Begins
    <3>3. CASE test.searched # <<>>
      <4>1. 1 \in DOMAIN test.searched /\ 1 \in DOMAIN store
            /\ test.searched[1] = store[1]
        BY <2>1, <3>1, <3>3 DEF Begins
      <4>2. test.searched[1] \in dropped'
        BY <1>1, <4>1 DEF Stored
      <4> QED
        BY <1>1, <4>1, <4>2 DEF Follows
    <3> QED
      BY <3>2, <3>3
  <2> QED
    BY <1>1, <2>1 DEF StoreInv, Searching, Follows
<1> QED
  BY <1>4, <1>5, <1>6 DEF StoreInv

(* The steps of an assertion.                                              *)
LEMMA AssertStep ==
  ASSUME StoreInv, (\E hits \in SUBSET Records : Search(hits)) \/ Dump \/ Errorf
  PROVE  StoreInv'
<1>1. UNCHANGED <<log, mu, store, resets, dropped>>
  BY DEF Search, Dump, Errorf
<1>2. \A point : At(point)' = At(point)
  BY <1>1 DEF At
<1>3. TypeOK /\ store \in Seq(Records)
  BY DEF StoreInv, Typed, TypeOK
<1>4. test' \in {Idle} \cup Searches \cup Failures /\ Searching'
  <2>1. ASSUME NEW hits \in SUBSET Records, Search(hits)
        PROVE  test' \in {Idle} \cup Searches \cup Failures /\ Searching'
    <3>1. CASE test' = Idle
      BY <3>1 DEF Idle, Searching
    <3>2. CASE /\ test' = [point |-> "dump", hits |-> hits, searched |-> store]
               /\ \A i \in DOMAIN store : store[i] \notin hits
      <4>1. Begins(store, store)
        BY <1>3 DEF Begins
      <4> QED
        BY <1>1, <1>3, <3>2, <4>1 DEF Searching, Follows, Searches, Begins
    <3> QED
      BY <2>1, <3>1, <3>2 DEF Search
  <2>2. ASSUME Dump
        PROVE  test' \in {Idle} \cup Searches \cup Failures /\ Searching'
    <3>1. test \in Searches
      BY <2>2 DEF Dump, StoreInv, Typed, Idle, Failures
    <3>2. test' \in Failures
      BY <1>3, <2>2, <3>1 DEF Dump, Searches, Failures
    <3> QED
      BY <1>1, <2>2, <3>2 DEF Dump, StoreInv, Searching, Follows, Begins
  <2>3. ASSUME Errorf
        PROVE  test' \in {Idle} \cup Searches \cup Failures /\ Searching'
    BY <2>3 DEF Errorf, Idle, Searching
  <2> QED
    BY <2>1, <2>2, <2>3
<1>5. test'.point \in {"idle", "dump", "failed"}
  BY <1>4 DEF Idle, Searches, Failures
<1>6. Typed'
  BY <1>1, <1>2, <1>4, <1>5 DEF StoreInv, Typed, TypeOK
<1> QED
  BY <1>1, <1>2, <1>4, <1>6 DEF StoreInv, Current, StoredOnce, Stored

LEMMA StoreInvNext == StoreInv /\ [StoreNext]_storeVars => StoreInv'
<1> SUFFICES ASSUME StoreInv, [StoreNext]_storeVars PROVE StoreInv'
  OBVIOUS
<1>1. CASE UNCHANGED storeVars
  BY <1>1 DEF storeVars, StoreInv, Typed, TypeOK, Current, StoredOnce, Stored,
              Searching, Follows, At
<1> QED
  BY <1>1, LogStep, LockStep, StoreStep, ResetStep, AssertStep DEF StoreNext

(* The store is well typed, and its mutex is held by the call that appends.*)
THEOREM StoreTypeCorrect == StoreSpec => []TypeOK
<1>1. StoreInv => TypeOK
  BY DEF StoreInv, Typed
<1> QED
  BY <1>1, StoreInvInit, StoreInvNext, PTL DEF StoreSpec

(* Every record whose call has returned is in the store, once, or was there*)
(* when Reset was called, for any interleaving of calls and resets.        *)
THEOREM StoredOnceHolds == StoreSpec => []StoredOnce
<1>1. StoreInv => StoredOnce
  BY DEF StoreInv
<1> QED
  BY <1>1, StoreInvInit, StoreInvNext, PTL DEF StoreSpec

(* The listing of a failed assertion has all that was searched, first and  *)
(* in order, unless Reset came between.                                    *)
THEOREM FailureListsSearchedHolds == StoreSpec => []FailureListsSearched
<1>1. StoreInv => FailureListsSearched
  BY DEF StoreInv, Searching, Follows, FailureListsSearched
<1> QED
  BY <1>1, StoreInvInit, StoreInvNext, PTL DEF StoreSpec
=============================================================================
