----------------------- MODULE DerivedHandlersProofs ------------------------
(***************************************************************************)
(* The proof that handlers are values, for any goroutines, handlers and    *)
(* attributes and any growth of the arrays.                                *)
(***************************************************************************)
EXTENDS DerivedHandlers, TLAPS

Arrays == Seq(Seq(Cells))

(* Arrays m2 are m after a step that made arrays or wrote into array a.    *)
Grown(m, m2, a) ==
  /\ m2 \in Arrays
  /\ Len(m) <= Len(m2)
  /\ \A b \in 1..Len(m) : b # a => m2[b] = m[b]

(* Such a step leaves the slices with no part in a as they were.           *)
LEMMA ViewStable ==
  ASSUME NEW m \in Arrays, NEW m2, NEW a, Grown(m, m2, a),
         NEW s \in Slices, Fits(m, s), s.arr # a \/ s.arr = 0
  PROVE  View(m2, s) = View(m, s) /\ Fits(m2, s)
<1>1. CASE s.arr = 0
  BY <1>1 DEF View, Fits, Slices, Grown, Arrays
<1>2. CASE s.arr # 0
  <2>1. s.arr \in 1..Len(m) /\ s.arr # a
    BY <1>2 DEF Fits, Slices, Arrays
  <2>2. m2[s.arr] = m[s.arr]
    BY <2>1 DEF Grown
  <2> QED
    BY <2>1, <2>2 DEF View, Fits, Slices, Grown, Arrays
<1> QED
  BY <1>1, <1>2

LEMMA ViewType ==
  ASSUME NEW m \in Arrays, NEW s \in Slices, Fits(m, s)
  PROVE  /\ View(m, s) \in Seq(Cells)
         /\ Len(View(m, s)) = s.len
         /\ \A i \in 1..s.len : m[s.arr][i] \in Cells
<1>1. CASE s.arr = 0
  BY <1>1 DEF Fits, Slices, View
<1>2. CASE s.arr # 0
  <2>1. m[s.arr] \in Seq(Cells) /\ s.len <= Len(m[s.arr])
    BY <1>2 DEF Fits, Slices, Arrays
  <2>2. \A i \in 1..s.len : m[s.arr][i] \in Cells
    BY <2>1 DEF Slices
  <2> QED
    BY <2>2 DEF View, Slices
<1> QED
  BY <1>1, <1>2

(* Clipping changes the capacities only.                                   *)
LEMMA CloneSame ==
  ASSUME NEW m, NEW h \in Handlers, Fits(m, h.prefix), Fits(m, h.groups)
  PROVE  LET c == Clone(h)
         IN  /\ c \in Handlers /\ Fits(m, c.prefix) /\ Fits(m, c.groups)
             /\ c.prefix.arr = h.prefix.arr
             /\ c.groups.arr = h.groups.arr
             /\ ~(c.prefix.len < c.prefix.cap)
             /\ ~(c.groups.len < c.groups.cap)
             /\ View(m, c.prefix) = View(m, h.prefix)
             /\ View(m, c.groups) = View(m, h.groups)
<1>1. h.prefix \in Slices /\ h.groups \in Slices
  BY DEF Handlers
<1>2. /\ Clip(h.prefix) \in Slices /\ Fits(m, Clip(h.prefix))
      /\ Clip(h.prefix).arr = h.prefix.arr
      /\ ~(Clip(h.prefix).len < Clip(h.prefix).cap)
      /\ View(m, Clip(h.prefix)) = View(m, h.prefix)
  BY <1>1 DEF Clip, Fits, Slices, View
<1>3. /\ Clip(h.groups) \in Slices /\ Fits(m, Clip(h.groups))
      /\ Clip(h.groups).arr = h.groups.arr
      /\ ~(Clip(h.groups).len < Clip(h.groups).cap)
      /\ View(m, Clip(h.groups)) = View(m, h.groups)
  BY <1>1 DEF Clip, Fits, Slices, View
<1> QED
  BY <1>2, <1>3 DEF Clone, Handlers

(* append adds one element to what its slice shows. It writes only into    *)
(* the slice's array, and only if the slice has room there.                *)
LEMMA AppendAdds ==
  ASSUME NEW m \in Arrays, NEW s \in Slices, Fits(m, s),
         NEW v \in Values, NEW room \in Nat
  PROVE  LET s2 == GoAppend(m, s, v, room).slice
             m2 == GoAppend(m, s, v, room).heap
         IN  /\ Grown(m, m2, IF s.len < s.cap THEN s.arr ELSE 0)
             /\ s2 \in Slices /\ Fits(m2, s2)
             /\ View(m2, s2) = Append(View(m, s), v)
             /\ s2.arr = IF s.len < s.cap THEN s.arr ELSE Len(m) + 1
<1> DEFINE s2 == GoAppend(m, s, v, room).slice
           m2 == GoAppend(m, s, v, room).heap
<1>1. CASE s.len < s.cap
  <2>1. /\ s2 = [s EXCEPT !.len = @ + 1]
        /\ m2 = [m EXCEPT ![s.arr][s.len + 1] = v]
    BY <1>1 DEF GoAppend
  <2>2. /\ s.arr \in 1..Len(m)
        /\ m[s.arr] \in Seq(Cells)
        /\ s.len + 1 \in 1..Len(m[s.arr])
    BY <1>1 DEF Fits, Slices, Arrays
  <2>3. [m[s.arr] EXCEPT ![s.len + 1] = v] \in Seq(Cells)
    BY <2>2 DEF Cells
  <2>4. m2 \in Arrays /\ Len(m2) = Len(m)
    BY <2>1, <2>2, <2>3 DEF Arrays
  <2>5. s2 \in Slices /\ s2.arr = s.arr /\ s2.len = s.len + 1 /\ s2.cap = s.cap
    BY <2>1 DEF Slices
  <2>6. m2[s.arr] = [m[s.arr] EXCEPT ![s.len + 1] = v]
    <3> DEFINE cells == [m[s.arr] EXCEPT ![s.len + 1] = v]
    <3>1. m2 = [m EXCEPT ![s.arr] = cells]
      BY <2>1
    <3> HIDE DEF cells
    <3>2. m2[s.arr] = cells
      BY <2>2, <3>1 DEF Arrays
    <3> QED
      BY <3>2 DEF cells
  <2>7. \A b \in 1..Len(m) : b # s.arr => m2[b] = m[b]
    BY <2>1, <2>2 DEF Arrays
  <2> HIDE DEF s2, m2
  <2>8. Fits(m2, s2)
    BY <1>1, <2>2, <2>4, <2>5, <2>6 DEF Fits, Slices
  <2>9. View(m2, s2) = Append(View(m, s), v)
    BY <2>2, <2>5, <2>6 DEF View, Slices
  <2>10. Grown(m, m2, s.arr)
    BY <2>4, <2>7 DEF Grown
  <2> QED
    BY <1>1, <2>5, <2>8, <2>9, <2>10 DEF s2, m2
<1>2. CASE ~(s.len < s.cap)
  <2> DEFINE new == [i \in 1..(s.len + 1 + room) |->
                       IF i <= s.len THEN m[s.arr][i]
                       ELSE IF i = s.len + 1 THEN v ELSE None]
  <2>1. /\ s2 = [arr |-> Len(m) + 1, len |-> s.len + 1,
                 cap |-> s.len + 1 + room]
        /\ m2 = Append(m, new)
    BY <1>2 DEF GoAppend
  <2>2. \A i \in 1..(s.len + 1 + room) : new[i] \in Cells
    <3>1. \A i \in 1..s.len : m[s.arr][i] \in Cells
      BY ViewType
    <3> QED
      BY <3>1 DEF Cells, Slices
  <2>3. new \in Seq(Cells) /\ Len(new) = s.len + 1 + room
    BY <2>2 DEF Slices
  <2>4. /\ m2 \in Arrays /\ Len(m2) = Len(m) + 1
        /\ m2[Len(m) + 1] = new
        /\ \A b \in 1..Len(m) : m2[b] = m[b]
    BY <2>1, <2>3 DEF Arrays
  <2>5. s2 \in Slices /\ s2.arr = Len(m) + 1
    BY <2>1 DEF Slices, Arrays
  <2> HIDE DEF s2, m2
  <2>6. Fits(m2, s2)
    BY <2>1, <2>3, <2>4 DEF Fits, Slices, Arrays
  <2>7. View(m2, s2) = Append(View(m, s), v)
    BY <2>1, <2>4 DEF View, Slices, Arrays
  <2>8. Grown(m, m2, 0)
    BY <2>4 DEF Grown, Arrays
  <2> QED
    BY <1>2, <2>5, <2>6, <2>7, <2>8 DEF s2, m2
<1> QED
  BY <1>1, <1>2

-----------------------------------------------------------------------------
(* Handler h has no part in array a.                                       *)
ClearOf(h, a) == h.prefix.arr # a /\ h.groups.arr # a

(* The call of g appends in place only into an array of its own.           *)
Private(g) ==
  LET s == job[g].clone.prefix
  IN  s.len < s.cap =>
        /\ \A h \in Ids : handler[h] # None => ClearOf(handler[h], s.arr)
        /\ \A f \in Goroutines :
             f # g /\ job[f] # None => ClearOf(job[f].clone, s.arr)
        /\ job[g].clone.groups.arr # s.arr

(* What the call of g has rendered so far.                                 *)
OnTrack(g) ==
  LET p == job[g].parent
  IN  /\ handler[p] # None
      /\ View(heap, job[g].clone.prefix) =
           View(heap, handler[p].prefix)
             \o SubSeq(job[g].attrs, 1, job[g].done)
      /\ View(heap, job[g].clone.groups) = View(heap, handler[p].groups)

Inv ==
  /\ TypeOK
  /\ \A g \in Goroutines : job[g] # None => Private(g) /\ OnTrack(g)

(* No handler changes in the step.                                         *)
Kept ==
  \A h \in Ids : handler[h] # None =>
    /\ handler'[h] = handler[h]
    /\ View(heap', handler[h].prefix) = View(heap, handler[h].prefix)
    /\ View(heap', handler[h].groups) = View(heap, handler[h].groups)

LEMMA InvInit == Init => Inv
<1> SUFFICES ASSUME Init PROVE Inv
  OBVIOUS
<1> USE DerivedAssumption DEF DerivedAssumption
<1>1. [prefix |-> NilSlice, groups |-> NilSlice] \in Handlers
  BY DEF NilSlice, Handlers, Slices
<1>2. Fits(heap, NilSlice)
  BY DEF Init, Fits, NilSlice
<1>3. TypeOK
  BY <1>1, <1>2 DEF Init, TypeOK, HandlerFits
<1> QED
  BY <1>3 DEF Init, Inv

(* Steps that touch no array.                                              *)
LEMMA WithAttrsInv ==
  ASSUME Inv, NEW g \in Goroutines, WithAttrs(g)
  PROVE  Inv'
<1> USE DerivedAssumption DEF DerivedAssumption
<1>1. PICK h \in Ids, attrs \in AttrLists :
        /\ handler[h] # None
        /\ job' = [job EXCEPT ![g] =
             [parent |-> h, attrs |-> attrs, done |-> 0,
              clone |-> Clone(handler[h])]]
  BY DEF WithAttrs
<1> DEFINE c == Clone(handler[h])
<1>2. handler[h] \in Handlers /\ HandlerFits(handler[h])
  BY <1>1 DEF Inv, TypeOK
<1>3. /\ c \in Handlers /\ HandlerFits(c)
      /\ c.prefix.arr = handler[h].prefix.arr
      /\ c.groups.arr = handler[h].groups.arr
      /\ ~(c.prefix.len < c.prefix.cap)
      /\ View(heap, c.prefix) = View(heap, handler[h].prefix)
      /\ View(heap, c.groups) = View(heap, handler[h].groups)
  BY <1>2, CloneSame DEF HandlerFits
<1> HIDE DEF c
<1>4. /\ job'[g] = [parent |-> h, attrs |-> attrs, done |-> 0, clone |-> c]
      /\ \A f \in Goroutines : f # g => job'[f] = job[f]
      /\ UNCHANGED <<heap, handler>>
  BY <1>1 DEF WithAttrs, Inv, TypeOK, c
<1>5. job'[g] \in Jobs
  BY <1>3, <1>4 DEF Jobs
<1>6. TypeOK'
  <2>1. job' \in [Goroutines -> Jobs \cup {None}]
    BY <1>1, <1>4, <1>5 DEF Inv, TypeOK
  <2>2. attrs \in Seq(Values)
    OBVIOUS
  <2>3. \A f \in Goroutines : job'[f] # None =>
          HandlerFits(job'[f].clone) /\ job'[f].done <= Len(job'[f].attrs)
    BY <1>3, <1>4, <2>2 DEF Inv, TypeOK
  <2> QED
    BY <1>4, <2>1, <2>3 DEF Inv, TypeOK, HandlerFits
<1>7. ASSUME NEW f \in Goroutines, job'[f] # None PROVE Private(f)'
  <2>1. CASE f = g
    BY <1>3, <1>4, <2>1 DEF Private
  <2>2. CASE f # g
    <3>1. Private(f) /\ job'[f] = job[f]
      BY <1>4, <1>7, <2>2 DEF Inv
    <3> QED
      BY <1>1, <1>3, <1>4, <2>2, <3>1 DEF Private, ClearOf
  <2> QED
    BY <2>1, <2>2
<1>8. ASSUME NEW f \in Goroutines, job'[f] # None PROVE OnTrack(f)'
  <2>1. CASE f = g
    <3>1. View(heap, handler[h].prefix) \in Seq(Cells)
      BY <1>2, ViewType DEF Handlers, HandlerFits, Inv, TypeOK, Arrays
    <3>2. View(heap, handler[h].prefix) \o SubSeq(attrs, 1, 0)
            = View(heap, handler[h].prefix)
      BY <3>1
    <3> QED
      BY <1>1, <1>3, <1>4, <2>1, <3>2 DEF OnTrack
  <2>2. CASE f # g
    BY <1>4, <1>8, <2>2 DEF Inv, OnTrack
  <2> QED
    BY <2>1, <2>2
<1> QED
  BY <1>6, <1>7, <1>8 DEF Inv

LEMMA ReturnInv ==
  ASSUME Inv, NEW g \in Goroutines, Return(g)
  PROVE  Inv'
<1> USE DerivedAssumption DEF DerivedAssumption
<1>1. PICK h \in Ids :
        /\ handler[h] = None
        /\ handler' = [handler EXCEPT ![h] = job[g].clone]
  BY DEF Return
<1>2. /\ job[g] # None /\ job[g] \in Jobs /\ HandlerFits(job[g].clone)
      /\ job[g].clone \in Handlers
  BY DEF Return, Inv, TypeOK, Jobs
<1>3. /\ handler'[h] = job[g].clone /\ job'[g] = None
      /\ \A k \in Ids : k # h => handler'[k] = handler[k]
      /\ \A f \in Goroutines : f # g => job'[f] = job[f]
      /\ UNCHANGED heap
  BY <1>1 DEF Return, Inv, TypeOK
<1>4. TypeOK'
  <2>1. handler' \in [Ids -> Handlers \cup {None}]
    BY <1>1, <1>2 DEF Inv, TypeOK
  <2>2. job' \in [Goroutines -> Jobs \cup {None}]
    BY DEF Return, Inv, TypeOK
  <2> QED
    BY <1>2, <1>3, <2>1, <2>2 DEF Inv, TypeOK, HandlerFits
<1>5. ASSUME NEW f \in Goroutines, job'[f] # None
      PROVE  Private(f)' /\ OnTrack(f)'
  <2>1. f # g /\ job'[f] = job[f] /\ Private(f) /\ OnTrack(f)
    BY <1>3, <1>5 DEF Inv
  <2>2. job[f].parent \in Ids /\ job[f].parent # h
    BY <1>1, <1>5, <2>1 DEF Inv, TypeOK, Jobs, OnTrack
  <2>3. Private(f)'
    BY <1>2, <1>3, <2>1 DEF Private, ClearOf
  <2>4. OnTrack(f)'
    BY <1>3, <2>1, <2>2 DEF OnTrack
  <2> QED
    BY <2>3, <2>4
<1> QED
  BY <1>4, <1>5 DEF Inv

LEMMA AbandonInv ==
  ASSUME Inv, NEW g \in Goroutines, Abandon(g)
  PROVE  Inv'
<1>1. /\ job'[g] = None
      /\ \A f \in Goroutines : f # g => job'[f] = job[f]
      /\ UNCHANGED <<heap, handler>>
  BY DEF Abandon, Inv, TypeOK
<1>2. TypeOK'
  BY <1>1 DEF Abandon, Inv, TypeOK, HandlerFits
<1> QED
  BY <1>1, <1>2 DEF Inv, Private, OnTrack

(* The slices of the other handlers and calls keep what they show when a   *)
(* step writes only into an array that is the call's own, or new.          *)
LEMMA OthersStable ==
  ASSUME NEW m \in Arrays, NEW m2, NEW a, Grown(m, m2, a),
         NEW h \in Handlers, Fits(m, h.prefix), Fits(m, h.groups),
         a # 0 => ClearOf(h, a)
  PROVE  /\ View(m2, h.prefix) = View(m, h.prefix)
         /\ View(m2, h.groups) = View(m, h.groups)
         /\ Fits(m2, h.prefix) /\ Fits(m2, h.groups)
<1>1. h.prefix \in Slices /\ h.groups \in Slices
  BY DEF Handlers
<1>2. /\ h.prefix.arr # a \/ h.prefix.arr = 0
      /\ h.groups.arr # a \/ h.groups.arr = 0
  BY DEF ClearOf
<1> QED
  BY <1>1, <1>2, ViewStable

LEMMA SubSeqGrows ==
  ASSUME NEW s \in Seq(Values), NEW n \in Nat, n < Len(s)
  PROVE  SubSeq(s, 1, n + 1) = Append(SubSeq(s, 1, n), s[n + 1])
<1>1. /\ SubSeq(s, 1, n + 1) = [i \in 1..(n + 1) |-> s[i]]
      /\ SubSeq(s, 1, n) = [i \in 1..n |-> s[i]]
  OBVIOUS
<1>2. Append([i \in 1..n |-> s[i]], s[n + 1]) = [i \in 1..(n + 1) |-> s[i]]
  OBVIOUS
<1> QED
  BY <1>1, <1>2

LEMMA AppendAttrInv ==
  ASSUME Inv, NEW g \in Goroutines, AppendAttr(g)
  PROVE  /\ Inv' /\ Kept
         /\ job'[g] \in Jobs
         /\ job'[g].parent = job[g].parent /\ job'[g].attrs = job[g].attrs
         /\ \A f \in Goroutines : f # g => job'[f] = job[f]
<1> USE DerivedAssumption DEF DerivedAssumption
<1>1. PICK room \in 0..Spare :
        LET grown == GoAppend(heap, job[g].clone.prefix,
                              job[g].attrs[job[g].done + 1], room)
        IN  /\ heap' = grown.heap
            /\ job' = [job EXCEPT ![g].done = @ + 1,
                                  ![g].clone.prefix = grown.slice]
  BY DEF AppendAttr
<1> DEFINE j  == job[g]
           s  == j.clone.prefix
           v  == j.attrs[j.done + 1]
           s2 == GoAppend(heap, s, v, room).slice
           a  == IF s.len < s.cap THEN s.arr ELSE 0
<1>2. /\ j # None /\ j \in Jobs /\ j.clone \in Handlers /\ s \in Slices
      /\ j.clone.groups \in Slices
      /\ Fits(heap, s) /\ Fits(heap, j.clone.groups)
      /\ heap \in Arrays /\ UNCHANGED handler
      /\ j.attrs \in Seq(Values) /\ j.done \in Nat /\ j.done < Len(j.attrs)
      /\ Private(g) /\ OnTrack(g)
  BY DEF AppendAttr, Inv, TypeOK, Jobs, Handlers, HandlerFits, Arrays
<1>3. v \in Values
  BY <1>2
<1>4. /\ Grown(heap, heap', a)
      /\ s2 \in Slices /\ Fits(heap', s2)
      /\ View(heap', s2) = Append(View(heap, s), v)
      /\ s2.arr = IF s.len < s.cap THEN s.arr ELSE Len(heap) + 1
  <2> HIDE DEF s, v
  <2>1. heap' = GoAppend(heap, s, v, room).heap
    BY <1>1 DEF s, v
  <2>2. room \in Nat
    OBVIOUS
  <2> QED
    BY <1>2, <1>3, <2>1, <2>2, AppendAdds
<1>5. /\ job'[g] = [parent |-> j.parent, attrs |-> j.attrs, done |-> j.done + 1,
                    clone |-> [prefix |-> s2, groups |-> j.clone.groups]]
      /\ \A f \in Goroutines : f # g => job'[f] = job[f]
      /\ job' = [job EXCEPT ![g] = job'[g]]
  BY <1>1, <1>2 DEF Inv, TypeOK, Jobs, Handlers
<1> HIDE DEF s2
<1>6. a # 0 => /\ \A h \in Ids : handler[h] # None => ClearOf(handler[h], a)
               /\ \A f \in Goroutines :
                    f # g /\ job[f] # None => ClearOf(job[f].clone, a)
               /\ j.clone.groups.arr # a
  BY <1>2 DEF Private
<1> HIDE DEF a
<1>7. ASSUME NEW h \in Ids, handler[h] # None
      PROVE  /\ handler[h] \in Handlers
             /\ View(heap', handler[h].prefix) = View(heap, handler[h].prefix)
             /\ View(heap', handler[h].groups) = View(heap, handler[h].groups)
             /\ Fits(heap', handler[h].prefix)
             /\ Fits(heap', handler[h].groups)
  <2>1. /\ handler[h] \in Handlers /\ Fits(heap, handler[h].prefix)
        /\ Fits(heap, handler[h].groups)
    BY <1>7 DEF Inv, TypeOK, HandlerFits
  <2> QED
    BY <1>2, <1>4, <1>6, <1>7, <2>1, OthersStable
<1>8. ASSUME NEW f \in Goroutines, f # g, job[f] # None
      PROVE  /\ View(heap', job[f].clone.prefix) = View(heap, job[f].clone.prefix)
             /\ View(heap', job[f].clone.groups) = View(heap, job[f].clone.groups)
             /\ Fits(heap', job[f].clone.prefix)
             /\ Fits(heap', job[f].clone.groups)
             /\ job[f].clone \in Handlers
  <2>1. /\ job[f].clone \in Handlers /\ Fits(heap, job[f].clone.prefix)
        /\ Fits(heap, job[f].clone.groups)
    BY <1>8 DEF Inv, TypeOK, HandlerFits, Jobs
  <2> QED
    BY <1>2, <1>4, <1>6, <1>8, <2>1, OthersStable
<1>9. /\ View(heap', j.clone.groups) = View(heap, j.clone.groups)
      /\ Fits(heap', j.clone.groups)
  <2>1. j.clone.groups.arr # a \/ j.clone.groups.arr = 0
    BY <1>6
  <2> QED
    BY <1>2, <1>4, <2>1, ViewStable
<1>10. TypeOK'
  <2>1. job'[g] \in Jobs
    BY <1>2, <1>4, <1>5 DEF Jobs, Handlers
  <2>2. job' \in [Goroutines -> Jobs \cup {None}]
    BY <1>5, <2>1 DEF Inv, TypeOK
  <2>3. heap' \in Seq(Seq(Cells))
    BY <1>4 DEF Grown, Arrays
  <2>4. \A f \in Goroutines : job'[f] # None =>
          /\ Fits(heap', job'[f].clone.prefix)
          /\ Fits(heap', job'[f].clone.groups)
          /\ job'[f].done <= Len(job'[f].attrs)
    <3> SUFFICES ASSUME NEW f \in Goroutines, job'[f] # None
                 PROVE  /\ Fits(heap', job'[f].clone.prefix)
                        /\ Fits(heap', job'[f].clone.groups)
                        /\ job'[f].done <= Len(job'[f].attrs)
      OBVIOUS
    <3>1. CASE f = g
      BY <1>2, <1>4, <1>5, <1>9, <3>1
    <3>2. CASE f # g
      BY <1>5, <1>8, <3>2 DEF Inv, TypeOK
    <3> QED
      BY <3>1, <3>2
  <2> QED
    BY <1>2, <1>7, <2>2, <2>3, <2>4 DEF Inv, TypeOK, HandlerFits
<1>11. ASSUME NEW f \in Goroutines, job'[f] # None PROVE OnTrack(f)'
  <2>1. CASE f = g
    <3> DEFINE before == View(heap, handler[j.parent].prefix)
               done == SubSeq(j.attrs, 1, j.done)
    <3>1. j.parent \in Ids /\ handler[j.parent] # None
      BY <1>2 DEF OnTrack, Jobs
    <3>2. View(heap, s) = before \o done
      BY <1>2 DEF OnTrack
    <3>3. before \in Seq(Cells)
      BY <1>2, <3>1, ViewType DEF Inv, TypeOK, HandlerFits, Handlers
    <3>4. done \in Seq(Cells) /\ v \in Cells
      BY <1>2, <1>3 DEF Cells
    <3>5. SubSeq(j.attrs, 1, j.done + 1) = Append(done, v)
      BY <1>2, SubSeqGrows
    <3>6. Append(before \o done, v) = before \o Append(done, v)
      <4> HIDE DEF before, done, v
      <4> QED
        BY <3>3, <3>4
    <3>7. View(heap', s2) = before \o SubSeq(j.attrs, 1, j.done + 1)
      BY <1>4, <3>2, <3>5, <3>6
    <3>8. View(heap', j.clone.groups) = View(heap, handler[j.parent].groups)
      BY <1>2, <1>9 DEF OnTrack
    <3>9. /\ View(heap', handler[j.parent].prefix) = before
          /\ View(heap', handler[j.parent].groups)
               = View(heap, handler[j.parent].groups)
      BY <1>7, <3>1
    <3>10. /\ job'[f].parent = j.parent
           /\ job'[f].clone.prefix = s2
           /\ job'[f].clone.groups = j.clone.groups
           /\ job'[f].attrs = j.attrs /\ job'[f].done = j.done + 1
           /\ handler' = handler
      BY <1>2, <1>5, <2>1
    <3> HIDE DEF before, done, v, j
    <3> QED
      BY <3>1, <3>7, <3>8, <3>9, <3>10 DEF OnTrack
  <2>2. CASE f # g
    <3>1. job'[f] = job[f] /\ OnTrack(f)
      BY <1>5, <1>11, <2>2 DEF Inv
    <3>2. job[f].parent \in Ids /\ handler[job[f].parent] # None
      BY <1>11, <3>1 DEF OnTrack, Inv, TypeOK, Jobs
    <3> QED
      BY <1>2, <1>7, <1>8, <1>11, <2>2, <3>1, <3>2 DEF OnTrack
  <2> QED
    BY <2>1, <2>2
<1>12. ASSUME NEW f \in Goroutines, job'[f] # None PROVE Private(f)'
  <2>1. CASE f = g
    <3>1. CASE s.len < s.cap
      BY <1>2, <1>4, <1>5, <2>1, <3>1 DEF Private
    <3>2. CASE ~(s.len < s.cap)
      <4>1. s2.arr = Len(heap) + 1 /\ Len(heap) \in Nat
        BY <1>2, <1>4, <3>2 DEF Arrays
      <4>2. \A x \in Slices : Fits(heap, x) => x.arr # Len(heap) + 1
        BY <4>1 DEF Fits, Slices
      <4>3. \A h \in Ids : handler[h] # None => ClearOf(handler[h], s2.arr)
        BY <4>1, <4>2 DEF ClearOf, Inv, TypeOK, HandlerFits, Handlers
      <4>4. \A e \in Goroutines :
              e # g /\ job[e] # None => ClearOf(job[e].clone, s2.arr)
        BY <4>1, <4>2, <1>8 DEF ClearOf, Inv, TypeOK, HandlerFits, Handlers
      <4>5. j.clone.groups.arr # s2.arr
        BY <1>2, <4>1, <4>2
      <4> QED
        BY <1>2, <1>5, <2>1, <4>3, <4>4, <4>5 DEF Private
    <3> QED
      BY <3>1, <3>2
  <2>2. CASE f # g
    <3>1. job'[f] = job[f] /\ Private(f)
      BY <1>5, <1>12, <2>2 DEF Inv
    <3> SUFFICES ASSUME job[f].clone.prefix.len < job[f].clone.prefix.cap
                 PROVE  /\ s2.arr # job[f].clone.prefix.arr
                        /\ j.clone.groups.arr # job[f].clone.prefix.arr
      BY <1>2, <1>5, <3>1 DEF Private, ClearOf
    <3>2. ClearOf(j.clone, job[f].clone.prefix.arr)
      BY <1>2, <2>2, <3>1 DEF Private
    <3>3. job[f].clone.prefix \in Slices /\ Fits(heap, job[f].clone.prefix)
      BY <1>8, <1>12, <2>2, <3>1 DEF Inv, TypeOK, HandlerFits, Handlers
    <3>4. job[f].clone.prefix.arr <= Len(heap)
      BY <3>3 DEF Fits
    <3>5. s2.arr = s.arr \/ s2.arr = Len(heap) + 1
      BY <1>4
    <3>6. s.arr # job[f].clone.prefix.arr
          /\ j.clone.groups.arr # job[f].clone.prefix.arr
      BY <3>2 DEF ClearOf
    <3>7. Len(heap) + 1 # job[f].clone.prefix.arr
      <4>1. Len(heap) \in Nat /\ job[f].clone.prefix.arr \in Nat
        BY <1>2, <3>3 DEF Slices, Arrays
      <4> HIDE DEF j, s
      <4> QED  BY <3>4, <4>1
    <3> HIDE DEF s
    <3> QED
      BY <3>5, <3>6, <3>7
  <2> QED
    BY <2>1, <2>2
<1>13. Kept
  BY <1>2, <1>7 DEF Kept
<1>14. job'[g] \in Jobs
  BY <1>2, <1>4, <1>5 DEF Jobs, Handlers
<1> QED
  BY <1>5, <1>10, <1>11, <1>12, <1>13, <1>14 DEF Inv

(* WithGroup appends to a clipped slice, so it writes into a new array.    *)
LEMMA WithGroupShape ==
  ASSUME Inv, NEW g \in Goroutines, WithGroup(g)
  PROVE  \E p, h \in Ids, name \in Names, new \in Handlers :
           /\ handler[p] # None /\ handler[h] = None
           /\ handler' = [handler EXCEPT ![h] = new]
           /\ UNCHANGED job
           /\ Grown(heap, heap', 0)
           /\ Fits(heap', new.prefix) /\ Fits(heap', new.groups)
           /\ new.prefix.arr = handler[p].prefix.arr
           /\ new.groups.arr = Len(heap) + 1
           /\ View(heap', new.prefix) = View(heap, handler[p].prefix)
           /\ View(heap', new.groups) = Append(View(heap, handler[p].groups), name)
<1> USE DerivedAssumption DEF DerivedAssumption
<1>1. PICK p, h \in Ids, name \in Names, room \in 0..Spare :
        /\ handler[p] # None
        /\ handler[h] = None
        /\ LET clone == Clone(handler[p])
               grown == GoAppend(heap, clone.groups, name, room)
           IN  /\ heap' = grown.heap
               /\ handler' = [handler EXCEPT ![h] =
                                [clone EXCEPT !.groups = grown.slice]]
  BY DEF WithGroup
<1> DEFINE clone == Clone(handler[p])
           s2    == GoAppend(heap, clone.groups, name, room).slice
           new   == [clone EXCEPT !.groups = s2]
<1>2. handler[p] \in Handlers /\ HandlerFits(handler[p]) /\ heap \in Arrays
  BY <1>1 DEF Inv, TypeOK, Arrays
<1>3. /\ clone \in Handlers /\ Fits(heap, clone.prefix)
      /\ Fits(heap, clone.groups)
      /\ clone.prefix.arr = handler[p].prefix.arr
      /\ ~(clone.groups.len < clone.groups.cap)
      /\ View(heap, clone.prefix) = View(heap, handler[p].prefix)
      /\ View(heap, clone.groups) = View(heap, handler[p].groups)
  BY <1>2, CloneSame DEF HandlerFits
<1> HIDE DEF clone
<1>4. clone.prefix \in Slices /\ clone.groups \in Slices
  BY <1>3 DEF Handlers
<1>5. /\ Grown(heap, heap', 0)
      /\ s2 \in Slices /\ Fits(heap', s2)
      /\ View(heap', s2) = Append(View(heap, clone.groups), name)
      /\ s2.arr = Len(heap) + 1
  <2>1. heap' = GoAppend(heap, clone.groups, name, room).heap
    BY <1>1 DEF clone
  <2>2. name \in Values /\ room \in Nat
    OBVIOUS
  <2> QED
    BY <1>2, <1>3, <1>4, <2>1, <2>2, AppendAdds
<1> HIDE DEF s2
<1>6. new \in Handlers /\ new.prefix = clone.prefix /\ new.groups = s2
  BY <1>3, <1>4, <1>5 DEF Handlers
<1>7. View(heap', clone.prefix) = View(heap, clone.prefix)
      /\ Fits(heap', clone.prefix)
  BY <1>2, <1>3, <1>4, <1>5, ViewStable
<1>8. handler' = [handler EXCEPT ![h] = new] /\ UNCHANGED job
  BY <1>1 DEF WithGroup, clone, s2
<1> HIDE DEF new
<1>9. /\ handler[p] # None /\ handler[h] = None
      /\ Fits(heap', new.prefix) /\ Fits(heap', new.groups)
      /\ new.prefix.arr = handler[p].prefix.arr
      /\ new.groups.arr = Len(heap) + 1
      /\ View(heap', new.prefix) = View(heap, handler[p].prefix)
      /\ View(heap', new.groups) = Append(View(heap, handler[p].groups), name)
  BY <1>1, <1>3, <1>5, <1>6, <1>7
<1>10. new \in Handlers
  BY <1>6
<1> WITNESS p \in Ids, h \in Ids, name \in Names, new \in Handlers
<1> QED
  BY <1>5, <1>8, <1>9

LEMMA WithGroupInv ==
  ASSUME Inv, NEW g \in Goroutines, WithGroup(g)
  PROVE  Inv' /\ Kept
<1> USE DerivedAssumption DEF DerivedAssumption
<1>1. PICK p, h \in Ids, name \in Names, new \in Handlers :
           /\ handler[p] # None /\ handler[h] = None
           /\ handler' = [handler EXCEPT ![h] = new]
           /\ UNCHANGED job
           /\ Grown(heap, heap', 0)
           /\ Fits(heap', new.prefix) /\ Fits(heap', new.groups)
           /\ new.prefix.arr = handler[p].prefix.arr
           /\ new.groups.arr = Len(heap) + 1
           /\ View(heap', new.prefix) = View(heap, handler[p].prefix)
           /\ View(heap', new.groups) = Append(View(heap, handler[p].groups), name)
  BY WithGroupShape
<1>2. /\ handler'[h] = new
      /\ \A k \in Ids : k # h => handler'[k] = handler[k]
      /\ handler' \in [Ids -> Handlers \cup {None}]
      /\ heap \in Arrays /\ heap' \in Arrays
  BY <1>1 DEF Inv, TypeOK, Arrays, Grown
<1>3. ASSUME NEW k \in Ids, handler[k] # None
      PROVE  /\ View(heap', handler[k].prefix) = View(heap, handler[k].prefix)
             /\ View(heap', handler[k].groups) = View(heap, handler[k].groups)
             /\ Fits(heap', handler[k].prefix)
             /\ Fits(heap', handler[k].groups)
  <2>1. /\ handler[k] \in Handlers /\ Fits(heap, handler[k].prefix)
        /\ Fits(heap, handler[k].groups)
    BY <1>3 DEF Inv, TypeOK, HandlerFits
  <2> QED
    BY <1>1, <1>2, <2>1, OthersStable
<1>4. ASSUME NEW f \in Goroutines, job[f] # None
      PROVE  /\ job[f].clone \in Handlers
             /\ View(heap', job[f].clone.prefix) = View(heap, job[f].clone.prefix)
             /\ View(heap', job[f].clone.groups) = View(heap, job[f].clone.groups)
             /\ Fits(heap', job[f].clone.prefix)
             /\ Fits(heap', job[f].clone.groups)
             /\ Fits(heap, job[f].clone.prefix)
  <2>1. /\ job[f].clone \in Handlers /\ Fits(heap, job[f].clone.prefix)
        /\ Fits(heap, job[f].clone.groups)
    BY <1>4 DEF Inv, TypeOK, HandlerFits, Jobs
  <2> QED
    BY <1>1, <1>2, <2>1, OthersStable
<1>5. TypeOK'
  <2>1. heap' \in Seq(Seq(Cells))
    BY <1>2 DEF Arrays
  <2>2. \A k \in Ids : handler'[k] # None =>
          Fits(heap', handler'[k].prefix) /\ Fits(heap', handler'[k].groups)
    BY <1>1, <1>2, <1>3
  <2>3. \A f \in Goroutines : job'[f] # None =>
          /\ Fits(heap', job'[f].clone.prefix)
          /\ Fits(heap', job'[f].clone.groups)
          /\ job'[f].done <= Len(job'[f].attrs)
    BY <1>1, <1>4 DEF Inv, TypeOK
  <2>4. job' \in [Goroutines -> Jobs \cup {None}]
    BY <1>1 DEF Inv, TypeOK
  <2> QED
    BY <1>2, <2>1, <2>2, <2>3, <2>4 DEF TypeOK, HandlerFits
<1>6. ASSUME NEW f \in Goroutines, job'[f] # None PROVE Private(f)'
  <2>1. job'[f] = job[f] /\ Private(f)
    BY <1>1, <1>6 DEF Inv
  <2>2. job[f].clone.prefix.arr # Len(heap) + 1
    <3>1. job[f].clone.prefix \in Slices /\ Fits(heap, job[f].clone.prefix)
      BY <1>4, <1>6, <2>1 DEF Handlers
    <3>2. job[f].clone.prefix.arr <= Len(heap) /\ Len(heap) \in Nat
      BY <1>2, <3>1 DEF Fits, Arrays
    <3> QED
      BY <3>1, <3>2 DEF Slices
  <2>3. job[f].clone.prefix.len < job[f].clone.prefix.cap =>
          ClearOf(new, job[f].clone.prefix.arr)
    BY <1>1, <2>1, <2>2 DEF Private, ClearOf
  <2> QED
    BY <1>1, <1>2, <2>1, <2>3 DEF Private
<1>7. ASSUME NEW f \in Goroutines, job'[f] # None PROVE OnTrack(f)'
  <2>1. job'[f] = job[f] /\ OnTrack(f)
    BY <1>1, <1>7 DEF Inv
  <2>2. /\ job[f].parent \in Ids /\ handler[job[f].parent] # None
        /\ handler'[job[f].parent] = handler[job[f].parent]
    BY <1>1, <1>2, <1>7, <2>1 DEF OnTrack, Inv, TypeOK, Jobs
  <2> QED
    BY <1>3, <1>4, <1>7, <2>1, <2>2 DEF OnTrack
<1>8. Kept
  BY <1>1, <1>2, <1>3 DEF Kept
<1> QED
  BY <1>5, <1>6, <1>7, <1>8 DEF Inv

LEMMA InvNext == Inv /\ [Next]_vars => Inv'
<1> SUFFICES ASSUME Inv, [Next]_vars PROVE Inv'
  OBVIOUS
<1>1. CASE UNCHANGED vars
  BY <1>1 DEF vars, Inv, TypeOK, HandlerFits, Private, OnTrack
<1> QED
  BY <1>1, WithAttrsInv, AppendAttrInv, ReturnInv, AbandonInv, WithGroupInv
     DEF Next, Step

(* Every slice of every handler lies within its array, always.             *)
THEOREM HandlersTypeCorrect == Spec => []TypeOK
<1>1. Inv => TypeOK
  BY DEF Inv
<1> QED
  BY <1>1, InvInit, InvNext, PTL DEF Spec

-----------------------------------------------------------------------------
(* What the handlers and calls look like to their users.                   *)
HandlerView == [h \in Ids |-> IF handler[h] = None THEN None
                              ELSE Shown(handler[h])]

JobView == [g \in Goroutines |-> IF job[g] = None THEN None
              ELSE [parent |-> job[g].parent, attrs |-> job[g].attrs]]

LEMMA ViewsAreValues ==
  ASSUME Inv
  PROVE  /\ \A h \in Ids : HandlerView[h] = None <=> handler[h] = None
         /\ \A g \in Goroutines : JobView[g] = None <=> job[g] = None
<1> USE DerivedAssumption DEF DerivedAssumption
<1>1. ASSUME NEW h \in Ids, handler[h] # None
      PROVE  Shown(handler[h]) # None
  <2>1. /\ handler[h].prefix \in Slices /\ handler[h].groups \in Slices
        /\ Fits(heap, handler[h].prefix) /\ Fits(heap, handler[h].groups)
        /\ heap \in Arrays
    BY <1>1 DEF Inv, TypeOK, HandlerFits, Handlers, Arrays
  <2>2. /\ View(heap, handler[h].prefix) \in Seq(Cells)
        /\ View(heap, handler[h].groups) \in Seq(Cells)
    BY <2>1, ViewType
  <2>3. Shown(handler[h]) \in ShownHandlers
    BY <2>2 DEF Shown, ShownHandlers
  <2> QED
    BY <2>3
<1>2. ASSUME NEW g \in Goroutines, job[g] # None
      PROVE  [parent |-> job[g].parent, attrs |-> job[g].attrs] # None
  <2>1. [parent |-> job[g].parent, attrs |-> job[g].attrs] \in ShownJobs
    BY <1>2 DEF Inv, TypeOK, Jobs, ShownJobs
  <2> QED
    BY <2>1
<1> QED
  BY <1>1, <1>2 DEF HandlerView, JobView

LEMMA ValuesInit == Init => Immutable!Init
<1> SUFFICES ASSUME Init PROVE Immutable!Init
  OBVIOUS
<1>1. [prefix |-> NilSlice, groups |-> NilSlice] # None
  BY DerivedAssumption
     DEF DerivedAssumption, Handlers, Slices, NilSlice
<1>2. View(heap, NilSlice) = <<>>
  BY DEF View, NilSlice
<1>3. \A h \in Ids : handler[h] =
        IF h = Root THEN [prefix |-> NilSlice, groups |-> NilSlice] ELSE None
  BY DEF Init
<1>4. \A h \in Ids :
        (IF handler[h] = None THEN None ELSE Shown(handler[h]))
          = IF h = Root THEN [prefix |-> <<>>, groups |-> <<>>] ELSE None
  BY <1>1, <1>2, <1>3 DEF Shown
<1> QED
  BY <1>4 DEF Init, Immutable!Init

LEMMA ValuesNext ==
  Inv /\ [Next]_vars => [Immutable!Next]_(Immutable!valueVars)
<1> SUFFICES ASSUME Inv, [Next]_vars
             PROVE  Immutable!Next \/ UNCHANGED Immutable!valueVars
  OBVIOUS
<1> USE DerivedAssumption DEF DerivedAssumption
<1>1. ASSUME NEW g \in Goroutines, WithAttrs(g) PROVE Immutable!Begin(g)
  <2>1. PICK h \in Ids, attrs \in AttrLists :
          /\ handler[h] # None
          /\ job' = [job EXCEPT ![g] =
               [parent |-> h, attrs |-> attrs, done |-> 0,
                clone |-> Clone(handler[h])]]
    BY <1>1 DEF WithAttrs
  <2>2. /\ job[g] = None /\ UNCHANGED <<heap, handler>>
        /\ job \in [Goroutines -> Jobs \cup {None}]
    BY <1>1 DEF WithAttrs, Inv, TypeOK
  <2>3. Inv'
    BY <1>1, WithAttrsInv
  <2>4. job'[g] # None
    <3>1. job'[g] \in Jobs
      <4>1. handler[h] \in Handlers /\ HandlerFits(handler[h])
        BY <2>1 DEF Inv, TypeOK
      <4>2. Clone(handler[h]) \in Handlers
        BY <4>1, CloneSame DEF HandlerFits
      <4> QED
        BY <2>1, <2>2, <4>2 DEF Jobs
    <3> QED
      BY <3>1
  <2>5. JobView' = [JobView EXCEPT ![g] = [parent |-> h, attrs |-> attrs]]
    BY <2>1, <2>2, <2>4 DEF JobView
  <2>6. JobView[g] = None /\ HandlerView[h] # None
    BY <2>1, <2>2, ViewsAreValues
  <2>7. HandlerView' = HandlerView
    BY <2>2 DEF HandlerView, Shown
  <2> QED
    BY <2>5, <2>6, <2>7 DEF Immutable!Begin, HandlerView, JobView
<1>2. ASSUME NEW g \in Goroutines, AppendAttr(g)
      PROVE  UNCHANGED Immutable!valueVars
  <2>1. Kept /\ UNCHANGED handler
    BY <1>2, AppendAttrInv DEF AppendAttr
  <2>2. HandlerView' = HandlerView
    BY <2>1 DEF HandlerView, Shown, Kept
  <2>3. \A f \in Goroutines : /\ job'[f] = None <=> job[f] = None
                              /\ job'[f].parent = job[f].parent
                              /\ job'[f].attrs = job[f].attrs
    <3>1. job[g] # None
      BY <1>2 DEF AppendAttr
    <3> QED
      BY <1>2, <3>1, AppendAttrInv
  <2>4. JobView' = JobView
    BY <2>3 DEF JobView
  <2> QED
    BY <2>2, <2>4 DEF Immutable!valueVars, HandlerView, JobView
<1>3. ASSUME NEW g \in Goroutines, Return(g) PROVE Immutable!Finish(g)
  <2>1. PICK h \in Ids :
          /\ handler[h] = None
          /\ handler' = [handler EXCEPT ![h] = job[g].clone]
    BY <1>3 DEF Return
  <2>2. /\ job[g] # None /\ job[g] \in Jobs
        /\ job[g].done = Len(job[g].attrs)
        /\ UNCHANGED heap
        /\ job' = [job EXCEPT ![g] = None]
        /\ OnTrack(g)
    BY <1>3 DEF Return, Inv, TypeOK
  <2> DEFINE p == job[g].parent
             v == [prefix |-> HandlerView[p].prefix \o JobView[g].attrs,
                   groups |-> HandlerView[p].groups]
  <2>3. /\ JobView[g] = [parent |-> p, attrs |-> job[g].attrs]
        /\ p \in Ids /\ handler[p] # None
        /\ HandlerView[p] = Shown(handler[p])
    BY <2>2 DEF JobView, HandlerView, OnTrack, Jobs
  <2>4. SubSeq(job[g].attrs, 1, job[g].done) = job[g].attrs
    <3>1. job[g].attrs \in Seq(Values)
      BY <2>2 DEF Jobs
    <3> QED
      BY <2>2, <3>1
  <2>5. Shown(job[g].clone) = v
    <3>1. /\ HandlerView[p].prefix = View(heap, handler[p].prefix)
          /\ HandlerView[p].groups = View(heap, handler[p].groups)
          /\ JobView[g].attrs = job[g].attrs
      BY <2>3 DEF Shown
    <3>2. /\ View(heap, job[g].clone.prefix)
               = View(heap, handler[p].prefix) \o job[g].attrs
          /\ View(heap, job[g].clone.groups) = View(heap, handler[p].groups)
      BY <2>2, <2>4 DEF OnTrack
    <3> QED
      BY <3>1, <3>2 DEF Shown
  <2>6. job[g].clone # None
    BY <2>2 DEF Jobs
  <2>7. HandlerView' = [HandlerView EXCEPT ![h] = v]
    <3>1. /\ handler'[h] = job[g].clone
          /\ \A k \in Ids : k # h => handler'[k] = handler[k]
      BY <2>1 DEF Inv, TypeOK
    <3>2. \A k \in Ids :
            (IF handler'[k] = None THEN None
             ELSE [prefix |-> View(heap, handler'[k].prefix),
                   groups |-> View(heap, handler'[k].groups)])
              = IF k = h THEN v ELSE HandlerView[k]
      BY <2>5, <2>6, <3>1 DEF HandlerView, Shown
    <3> QED
      BY <2>2, <3>2 DEF HandlerView, Shown
  <2>8. JobView' = [JobView EXCEPT ![g] = None]
    BY <2>2 DEF JobView, Inv, TypeOK
  <2>9. JobView[g] # None /\ HandlerView[h] = None
    BY <2>1, <2>2, ViewsAreValues
  <2> QED
    BY <2>3, <2>7, <2>8, <2>9 DEF Immutable!Finish, HandlerView, JobView
<1>4. ASSUME NEW g \in Goroutines, Abandon(g) PROVE Immutable!Leave(g)
  <2>1. HandlerView' = HandlerView
    BY <1>4 DEF Abandon, HandlerView, Shown
  <2>2. JobView' = [JobView EXCEPT ![g] = None]
    BY <1>4 DEF Abandon, JobView, Inv, TypeOK
  <2>3. JobView[g] # None
    BY <1>4, ViewsAreValues DEF Abandon
  <2> QED
    BY <2>1, <2>2, <2>3 DEF Immutable!Leave, HandlerView, JobView
<1>5. ASSUME NEW g \in Goroutines, WithGroup(g) PROVE Immutable!WithGroup(g)
  <2>1. PICK p, h \in Ids, name \in Names, new \in Handlers :
           /\ handler[p] # None /\ handler[h] = None
           /\ handler' = [handler EXCEPT ![h] = new]
           /\ UNCHANGED job
           /\ View(heap', new.prefix) = View(heap, handler[p].prefix)
           /\ View(heap', new.groups) = Append(View(heap, handler[p].groups), name)
    BY <1>5, WithGroupShape
  <2>2. Kept
    BY <1>5, WithGroupInv
  <2>3. HandlerView[p] = Shown(handler[p])
    BY <2>1 DEF HandlerView
  <2> DEFINE v == [HandlerView[p] EXCEPT !.groups = Append(@, name)]
  <2>4. v = [prefix |-> View(heap', new.prefix), groups |-> View(heap', new.groups)]
    <3>1. HandlerView[p] = [prefix |-> View(heap, handler[p].prefix),
                            groups |-> View(heap, handler[p].groups)]
      BY <2>3 DEF Shown
    <3>2. v = [prefix |-> View(heap, handler[p].prefix),
               groups |-> Append(View(heap, handler[p].groups), name)]
      BY <3>1
    <3> QED
      BY <2>1, <3>2
  <2>5. HandlerView' = [HandlerView EXCEPT ![h] = v]
    <3>1. /\ handler'[h] = new /\ new # None
          /\ \A k \in Ids : k # h => handler'[k] = handler[k]
      BY <2>1 DEF Inv, TypeOK
    <3> HIDE DEF v
    <3>2. \A k \in Ids :
            (IF handler'[k] = None THEN None
             ELSE [prefix |-> View(heap', handler'[k].prefix),
                   groups |-> View(heap', handler'[k].groups)])
              = IF k = h THEN v ELSE HandlerView[k]
      BY <2>1, <2>2, <2>4, <3>1 DEF HandlerView, Shown, Kept
    <3> QED
      BY <3>2 DEF HandlerView, Shown
  <2>6. JobView' = JobView
    BY <2>1 DEF JobView
  <2>7. JobView[g] = None /\ HandlerView[p] # None /\ HandlerView[h] = None
    BY <1>5, <2>1, ViewsAreValues DEF WithGroup
  <2>8. \E p1, h1 \in Ids, n1 \in Names :
          /\ HandlerView[p1] # None
          /\ HandlerView[h1] = None
          /\ HandlerView' = [HandlerView EXCEPT ![h1] =
               [HandlerView[p1] EXCEPT !.groups = Append(@, n1)]]
    BY <2>5, <2>7
  <2> QED
    BY <2>6, <2>7, <2>8 DEF Immutable!WithGroup, HandlerView, JobView
<1>6. CASE UNCHANGED vars
  BY <1>6 DEF vars, Immutable!valueVars, Shown
<1> QED
  BY <1>1, <1>2, <1>3, <1>4, <1>5, <1>6 DEF Next, Step, Immutable!Next

(* Handlers are values: derivation on shared arrays implements derivation  *)
(* of plain, immutable sequences.                                          *)
THEOREM HandlersImplementValues == Spec => ImplementsValues
BY InvInit, InvNext, ValuesInit, ValuesNext, PTL
   DEF Spec, ImplementsValues, Immutable!Spec
=============================================================================
