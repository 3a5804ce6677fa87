----------------------------- MODULE LineProofs ------------------------------
(***************************************************************************)
(* Proofs about lines. The line handler, for any records, lines and        *)
(* attributes: the pool and the mutex are safe, and lines come out whole.  *)
(* What is in lines, for texts of any length: whatever is logged can be    *)
(* read back and forges nothing, and the traces start at their caller,     *)
(* however deep stacks are.                                                *)
(***************************************************************************)
EXTENDS LineHandler, WrittenText, TraceStack, LoopsProofs, SequenceTheorems, TLAPS

(* An active call has a line; this is what makes the steps well typed.     *)
HasLine == \A r \in Records : Active(r) => line[r] \in Lines

(* Nested calls wait for each other like the frames of one stack: a call   *)
(* is made from a callback that is still running, and a callback makes one *)
(* call at a time. A panic therefore unwinds the call below it only.       *)
Nested ==
  /\ \A r \in Records : st[r] = "callback" => pos[r] <= NumParts
  /\ \A r \in Records :
       Active(r) /\ parent[r] # None => st[parent[r]] = "callback"
  /\ \A r, q \in Records :
       Active(r) /\ Active(q) /\ parent[r] = parent[q] /\ parent[r] # None
         => r = q

Framed == TypeOK /\ HasLine /\ Nested

LEMMA FramedInit == Init => Framed
BY LineAssumption
   DEF LineAssumption, Init, Framed, Nested, TypeOK, HasLine, Active, States,
       Pieces

LEMMA AppendPartType ==
  ASSUME TypeOK, NEW r \in Records, line[r] \in Lines, pos[r] <= NumParts,
         AppendPart(r)
  PROVE  /\ pos' \in [Records -> 1..(NumParts + 1)]
         /\ buf' \in [Lines -> Seq(Pieces)]
         /\ details' \in [Lines -> Seq(Pieces)]
         /\ large' \subseteq Lines
<1> USE LineAssumption DEF LineAssumption
<1>0. -pos[r] \in -NumParts..NumParts /\ pos[r] \in -NumParts..NumParts
  BY DEF TypeOK
<1>1. <<r, pos[r]>> \in Pieces /\ <<r, -pos[r]>> \in Pieces
  BY <1>0 DEF Pieces
<1>2. /\ Append(buf[line[r]], <<r, pos[r]>>) \in Seq(Pieces)
      /\ Append(details[line[r]], <<r, -pos[r]>>) \in Seq(Pieces)
  BY <1>1 DEF TypeOK
<1>3. pos' \in [Records -> 1..(NumParts + 1)]
  BY DEF AppendPart, TypeOK
<1>4. buf' \in [Lines -> Seq(Pieces)]
  BY <1>2 DEF AppendPart, TypeOK
<1>5. details' \in [Lines -> Seq(Pieces)]
  BY <1>2 DEF AppendPart, TypeOK
<1> QED
  BY <1>3, <1>4, <1>5 DEF AppendPart, TypeOK

LEMMA BeginFramed ==
  ASSUME Framed, NEW r \in Records, Begin(r)
  PROVE  Framed'
<1> USE LineAssumption DEF LineAssumption, States, Framed
<1>1. PICK l \in Lines : line' = [line EXCEPT ![r] = l]
  BY DEF Begin, Get, TypeOK
<1>2. /\ pool' \subseteq Lines /\ large' \subseteq Lines
      /\ buf' \in [Lines -> Seq(Pieces)] /\ details' \in [Lines -> Seq(Pieces)]
  <2>1. <<>> \in Seq(Pieces)
    OBVIOUS
  <2>2. ASSUME NEW m \in Lines, buf' = [buf EXCEPT ![m] = <<>>],
               details' = [details EXCEPT ![m] = <<>>]
        PROVE  /\ buf' \in [Lines -> Seq(Pieces)]
               /\ details' \in [Lines -> Seq(Pieces)]
    BY <2>1, <2>2 DEF TypeOK
  <2>3. pool' \subseteq Lines /\ large' \subseteq Lines
    BY DEF Begin, Get, TypeOK
  <2>4. CASE UNCHANGED <<buf, details>>
    BY <2>3, <2>4 DEF TypeOK
  <2> QED
    BY <2>2, <2>3, <2>4 DEF Begin, Get
<1>3. PICK c \in {None} \cup {q \in Records : InCallback(q)} :
        parent' = [parent EXCEPT ![r] = c]
  BY DEF Begin
<1>4. st' = [st EXCEPT ![r] = "format"] /\ st[r] = "new" /\ UNCHANGED pos
  BY DEF Begin
<1>5. TypeOK' /\ HasLine'
  BY <1>1, <1>2, <1>3, <1>4 DEF Begin, TypeOK, HasLine, Active
<1>6. c # None => c \in Records /\ c # r /\ st[c] = "callback"
                 /\ \A q \in Records : parent[q] = c => ~Active(q)
  BY <1>3, <1>4 DEF InCallback
<1>7. \A q \in Records : Active(q)' <=> Active(q) \/ q = r
  BY <1>4 DEF Active, TypeOK
<1>8. Nested'
  BY <1>3, <1>4, <1>6, <1>7 DEF Nested, TypeOK, Active
<1> QED
  BY <1>5, <1>8

LEMMA FreeFramed ==
  ASSUME Framed, NEW r \in Records, Free(r)
  PROVE  Framed'
<1> USE LineAssumption DEF LineAssumption, States, Framed
<1>1. st[r] = "free" /\ line[r] \in Lines
  BY DEF Free, HasLine, Active
<1>2. line' = [line EXCEPT ![r] = None] /\ UNCHANGED <<parent, pos>>
  BY DEF Free
<1>3. /\ pool' \subseteq Lines
      /\ buf' \in [Lines -> Seq(Pieces)] /\ details' \in [Lines -> Seq(Pieces)]
  <2>1. <<>> \in Seq(Pieces)
    OBVIOUS
  <2>2. CASE UNCHANGED <<buf, details, pool>>
    BY <2>2 DEF TypeOK
  <2>3. CASE /\ buf' = [buf EXCEPT ![line[r]] = <<>>]
             /\ details' = [details EXCEPT ![line[r]] = <<>>]
             /\ pool' = pool \cup {line[r]}
    BY <1>1, <2>1, <2>3 DEF TypeOK
  <2> QED
    BY <2>2, <2>3 DEF Free, PutBack
<1>4. CASE st' = [st EXCEPT ![r] = "done"] /\ UNCHANGED result
  BY <1>1, <1>2, <1>3, <1>4 DEF Free, TypeOK, HasLine, Nested, Active
<1>5. CASE /\ parent[r] # None
           /\ st' = [st EXCEPT ![r] = "done", ![parent[r]] = "free"]
           /\ result' = [result EXCEPT ![parent[r]] = "panic"]
  <2>0. Active(r) /\ parent[r] \in Records
    BY <1>1, <1>5 DEF Active, TypeOK
  <2>1. /\ parent[r] \in Records /\ st[parent[r]] = "callback"
        /\ parent[r] # r
    BY <1>1, <1>5, <2>0 DEF Nested
  <2>2. TypeOK' /\ HasLine'
    BY <1>1, <1>2, <1>3, <1>5, <2>1 DEF Free, TypeOK, HasLine, Active
  <2>3. \A q \in Records : Active(q)' <=> Active(q) /\ q # r
    BY <1>1, <1>5, <2>1 DEF Active, TypeOK
  <2>4. Nested'
    BY <1>1, <1>2, <1>5, <2>1, <2>3 DEF Nested, TypeOK, Active
  <2> QED
    BY <2>2, <2>4
<1> QED
  BY <1>4, <1>5 DEF Free

LEMMA FramedNext == Framed /\ [Next]_vars => Framed'
<1> SUFFICES ASSUME Framed, [Next]_vars PROVE Framed'
  OBVIOUS
<1> USE LineAssumption DEF LineAssumption, States, Framed
<1>1. ASSUME NEW r \in Records, Plain(r) PROVE Framed'
  BY <1>1, AppendPartType DEF Plain, AppendPart, TypeOK, HasLine, Nested, Active
<1>2. ASSUME NEW r \in Records, EnterCallback(r) PROVE Framed'
  BY <1>2 DEF EnterCallback, TypeOK, HasLine, Nested, Active
<1>3. ASSUME NEW r \in Records, LeaveCallback(r) PROVE Framed'
  <2>1. st[r] = "callback" /\ pos[r] <= NumParts /\ line[r] \in Lines
    BY <1>3 DEF LeaveCallback, InCallback, Nested, HasLine, Active
  <2>2. TypeOK' /\ HasLine'
    BY <1>3, <2>1, AppendPartType DEF LeaveCallback, TypeOK, HasLine, Active
  <2>3. \A q \in Records : Active(q)' <=> Active(q)
    BY <1>3, <2>1 DEF LeaveCallback, Active, TypeOK
  <2>4. \A q \in Records : parent[q] = r => ~Active(q)
    BY <1>3 DEF LeaveCallback, InCallback
  <2>5. /\ UNCHANGED parent
        /\ \A q \in Records : q # r => st'[q] = st[q] /\ pos'[q] = pos[q]
        /\ st'[r] = "format"
    BY <1>3 DEF LeaveCallback, AppendPart, TypeOK
  <2>6. Nested'
    BY <2>3, <2>4, <2>5 DEF Nested, TypeOK
  <2> QED
    BY <2>2, <2>6
<1>4. ASSUME NEW r \in Records, CallbackPanics(r) PROVE Framed'
  <2>1. TypeOK' /\ HasLine'
    BY <1>4 DEF CallbackPanics, InCallback, TypeOK, HasLine, Active
  <2>2. \A q \in Records : Active(q)' <=> Active(q)
    BY <1>4 DEF CallbackPanics, InCallback, Active, TypeOK
  <2>3. Nested'
    BY <1>4, <2>2 DEF CallbackPanics, InCallback, Nested, TypeOK
  <2> QED
    BY <2>1, <2>3
<1>5. ASSUME NEW r \in Records, EndLine(r) PROVE Framed'
  <2>1. line[r] \in Lines
    BY <1>5 DEF EndLine, HasLine, Active
  <2>2. <<<<r, 0>>>> \in Seq(Pieces)
    BY DEF Pieces
  <2>3. buf[line[r]] \o <<<<r, 0>>>> \o details[line[r]] \in Seq(Pieces)
    BY <2>1, <2>2 DEF TypeOK
  <2> QED
    BY <1>5, <2>1, <2>3 DEF EndLine, TypeOK, HasLine, Nested, Active
<1>6. ASSUME NEW r \in Records, Lock(r) PROVE Framed'
  BY <1>6 DEF Lock, TypeOK, HasLine, Nested, Active
<1>7. ASSUME NEW r \in Records, WriteSome(r) PROVE Framed'
  <2>1. buf[line[r]] \in Seq(Pieces)
    BY <1>7 DEF WriteSome, HasLine, Active, TypeOK
  <2>2. buf[line[r]][sent[r] + 1] \in Pieces
    BY <1>7, <2>1 DEF WriteSome, TypeOK
  <2> QED
    BY <1>7, <2>2 DEF WriteSome, TypeOK, HasLine, Nested, Active
<1>8. ASSUME NEW r \in Records, WriteEnds(r) PROVE Framed'
  <2>1. PICK how \in {"ok", "error", "panic"} :
          result' = [result EXCEPT ![r] = how]
    BY <1>8 DEF WriteEnds
  <2> QED
    BY <1>8, <2>1 DEF WriteEnds, TypeOK, HasLine, Nested, Active
<1>9. ASSUME NEW r \in Records, Unlock(r) PROVE Framed'
  BY <1>9 DEF Unlock, TypeOK, HasLine, Nested, Active
<1>10. CASE Collect \/ UNCHANGED vars
  BY <1>10 DEF Collect, vars, TypeOK, HasLine, Nested, Active
<1> QED
  BY <1>1, <1>2, <1>3, <1>4, <1>5, <1>6, <1>7, <1>8, <1>9, <1>10,
     BeginFramed, FreeFramed DEF Next, Work

(* Every reachable state of the line handler is well typed.                *)
THEOREM LineTypeCorrect == Spec => []TypeOK
<1>1. Framed => TypeOK
  BY DEF Framed
<1> QED
  BY <1>1, FramedInit, FramedNext, PTL DEF Spec

-----------------------------------------------------------------------------
(* The mutex is held by exactly the call that is writing.                  *)
THEOREM LockedOnlyToWriteHolds == Spec => []LockedOnlyToWrite
<1>1. Init => LockedOnlyToWrite
  BY LineAssumption DEF LineAssumption, Init, LockedOnlyToWrite
<1>2. Framed /\ LockedOnlyToWrite /\ [Next]_vars => LockedOnlyToWrite'
  <2> SUFFICES ASSUME Framed, LockedOnlyToWrite, [Next]_vars
               PROVE  LockedOnlyToWrite'
    OBVIOUS
  <2> USE LineAssumption DEF LineAssumption, LockedOnlyToWrite, Framed, TypeOK
  <2>1. ASSUME NEW r \in Records,
               Begin(r) \/ Plain(r) \/ EnterCallback(r) \/ LeaveCallback(r)
                 \/ CallbackPanics(r) \/ EndLine(r)
        PROVE  LockedOnlyToWrite'
    BY <2>1 DEF Begin, Plain, EnterCallback, LeaveCallback, CallbackPanics,
                EndLine, InCallback
  <2>2. ASSUME NEW r \in Records, Lock(r) \/ Unlock(r)
        PROVE  LockedOnlyToWrite'
    BY <2>2 DEF Lock, Unlock
  <2>3. ASSUME NEW r \in Records, WriteSome(r) \/ WriteEnds(r)
        PROVE  LockedOnlyToWrite'
    BY <2>3 DEF WriteSome, WriteEnds
  <2>4. ASSUME NEW r \in Records, Free(r) PROVE LockedOnlyToWrite'
    <3>1. CASE st' = [st EXCEPT ![r] = "done"]
      BY <2>4, <3>1 DEF Free
    <3>2. CASE /\ parent[r] # None
               /\ st' = [st EXCEPT ![r] = "done", ![parent[r]] = "free"]
      <4>1. Active(r) /\ parent[r] \in Records
        BY <2>4, <3>2 DEF Free, Active
      <4>2. st[parent[r]] = "callback"
        BY <3>2, <4>1 DEF Nested
      <4> QED
        BY <2>4, <3>2, <4>1, <4>2 DEF Free
    <3> QED
      BY <2>4, <3>1, <3>2 DEF Free
  <2>5. CASE Collect \/ UNCHANGED vars
    BY <2>5 DEF Collect, vars
  <2> QED
    BY <2>1, <2>2, <2>3, <2>4, <2>5 DEF Next, Work
<1> QED
  BY <1>1, <1>2, FramedInit, FramedNext, PTL DEF Spec

-----------------------------------------------------------------------------
(* Steps of a call that formats or writes touch its own line only.         *)
LEMMA OwnLineOnly ==
  ASSUME Framed, PoolSafe, NEW r \in Records, Active(r), UNCHANGED <<line, pool>>,
         \A q \in Records : Active(q)' <=> Active(q),
         \A l \in Lines \ {line[r]} : /\ buf'[l] = buf[l]
                                      /\ details'[l] = details[l]
                                      /\ l \in large' => l \in large
  PROVE  PoolSafe'
<1>1. line[r] \notin pool
  BY DEF PoolSafe
<1>2. \A l \in pool' : l \in Lines \ {line[r]}
  BY <1>1 DEF Framed, TypeOK
<1>3. \A l \in pool' : buf'[l] = <<>> /\ details'[l] = <<>> /\ l \notin large'
  BY <1>2 DEF PoolSafe
<1>4. \A q \in Records : Active(q)' => line'[q] \in Lines \ pool'
  BY DEF PoolSafe
<1>5. \A q1, q2 \in Records :
        Active(q1)' /\ Active(q2)' /\ q1 # q2 => line'[q1] # line'[q2]
  BY DEF PoolSafe
<1> QED
  BY <1>3, <1>4, <1>5 DEF PoolSafe

LEMMA BeginPoolSafe ==
  ASSUME Framed, PoolSafe, NEW r \in Records, Begin(r)
  PROVE  PoolSafe'
<1>1. st[r] = "new" /\ st' = [st EXCEPT ![r] = "format"]
  BY DEF Begin
<1>2. \A q \in Records : Active(q)' <=> Active(q) \/ q = r
  BY <1>1 DEF Active, Framed, TypeOK
<1>3. ~Active(r)
  BY <1>1 DEF Active
<1>4. CASE \E l \in pool : /\ line' = [line EXCEPT ![r] = l]
                           /\ pool' = pool \ {l}
                           /\ UNCHANGED <<buf, details, large>>
  <2>1. PICK l \in pool : /\ line' = [line EXCEPT ![r] = l]
                          /\ pool' = pool \ {l}
                          /\ UNCHANGED <<buf, details, large>>
    BY <1>4
  <2>2. l \in Lines /\ \A q \in Records : Active(q) => line[q] # l
    BY <2>1 DEF PoolSafe, Framed, TypeOK
  <2>3. \A k \in pool' : /\ buf'[k] = <<>> /\ details'[k] = <<>>
                         /\ k \notin large'
    BY <2>1 DEF PoolSafe
  <2>4. \A q \in Records : Active(q)' => line'[q] \in Lines \ pool'
    BY <1>2, <2>1, <2>2 DEF PoolSafe, Framed, TypeOK
  <2>5. \A q1, q2 \in Records :
          Active(q1)' /\ Active(q2)' /\ q1 # q2 => line'[q1] # line'[q2]
    BY <1>2, <2>1, <2>2 DEF PoolSafe, Framed, TypeOK
  <2> QED
    BY <2>3, <2>4, <2>5 DEF PoolSafe
<1>5. CASE \E l \in Lines \ (pool \cup Used) :
              /\ line' = [line EXCEPT ![r] = l]
              /\ buf' = [buf EXCEPT ![l] = <<>>]
              /\ details' = [details EXCEPT ![l] = <<>>]
              /\ large' = large \ {l}
              /\ UNCHANGED pool
  <2>1. PICK l \in Lines \ (pool \cup Used) :
              /\ line' = [line EXCEPT ![r] = l]
              /\ buf' = [buf EXCEPT ![l] = <<>>]
              /\ details' = [details EXCEPT ![l] = <<>>]
              /\ large' = large \ {l}
              /\ UNCHANGED pool
    BY <1>5
  <2>2. \A q \in Records : Active(q) => line[q] # l
    BY <2>1 DEF Used
  <2> QED
    BY <1>2, <1>3, <2>1, <2>2 DEF PoolSafe, Framed, TypeOK
<1> QED
  BY <1>4, <1>5 DEF Begin, Get

LEMMA FreePoolSafe ==
  ASSUME Framed, PoolSafe, NEW r \in Records, Free(r)
  PROVE  PoolSafe'
<1>1. Active(r) /\ line' = [line EXCEPT ![r] = None]
  BY DEF Free, Active
<1>2. \A q \in Records : Active(q)' => Active(q) /\ q # r
  <2>1. CASE st' = [st EXCEPT ![r] = "done"]
    BY <2>1 DEF Active, Framed, TypeOK
  <2>2. CASE /\ parent[r] # None
             /\ st' = [st EXCEPT ![r] = "done", ![parent[r]] = "free"]
    <3>1. parent[r] \in Records /\ st[parent[r]] = "callback"
      BY <1>1, <2>2 DEF Framed, Nested, TypeOK
    <3>2. parent[r] # r
      BY <3>1 DEF Free
    <3> QED
      BY <1>1, <2>2, <3>1, <3>2 DEF Active, Framed, TypeOK
  <2> QED
    BY <2>1, <2>2 DEF Free
<1>3. line[r] \in Lines /\ \A q \in Records : Active(q) /\ q # r => line[q] # line[r]
  BY <1>1 DEF PoolSafe
<1>4. CASE line[r] \in large
  BY <1>1, <1>2, <1>4 DEF Free, PutBack, PoolSafe, Framed, TypeOK
<1>5. CASE line[r] \notin large
  BY <1>1, <1>2, <1>3, <1>5 DEF Free, PutBack, PoolSafe, Framed, TypeOK
<1> QED
  BY <1>4, <1>5

LEMMA PoolNext == Framed /\ PoolSafe /\ [Next]_vars => PoolSafe'
<1> SUFFICES ASSUME Framed, PoolSafe, [Next]_vars PROVE PoolSafe'
  OBVIOUS
<1>1. ASSUME NEW r \in Records, Plain(r) \/ LeaveCallback(r) PROVE PoolSafe'
  <2>1. /\ Active(r) /\ AppendPart(r) /\ UNCHANGED <<line, pool>>
        /\ UNCHANGED st \/ st' = [st EXCEPT ![r] = "format"]
    BY <1>1 DEF Plain, LeaveCallback, InCallback, Active
  <2>2. \A q \in Records : Active(q)' <=> Active(q)
    BY <2>1 DEF Active, Framed, TypeOK
  <2>3. \A l \in Lines \ {line[r]} : /\ buf'[l] = buf[l]
                                     /\ details'[l] = details[l]
                                     /\ l \in large' => l \in large
    BY <2>1 DEF AppendPart, Framed, TypeOK
  <2> QED
    BY <2>1, <2>2, <2>3, OwnLineOnly
<1>2. ASSUME NEW r \in Records, EndLine(r) PROVE PoolSafe'
  <2>1. \A q \in Records : Active(q)' <=> Active(q)
    BY <1>2 DEF EndLine, Active, Framed, TypeOK
  <2> QED
    BY <1>2, <2>1, OwnLineOnly DEF EndLine, Active, Framed, TypeOK
<1>3. ASSUME NEW r \in Records,
             EnterCallback(r) \/ CallbackPanics(r) \/ Lock(r) \/ WriteSome(r)
               \/ WriteEnds(r) \/ Unlock(r)
      PROVE  PoolSafe'
  <2>1. \A q \in Records : Active(q)' <=> Active(q)
    BY <1>3 DEF EnterCallback, CallbackPanics, InCallback, Lock, WriteSome,
                WriteEnds, Unlock, Active, Framed, TypeOK
  <2>2. UNCHANGED <<line, buf, details, large, pool>>
    BY <1>3 DEF EnterCallback, CallbackPanics, Lock, WriteSome, WriteEnds,
                Unlock
  <2> QED
    BY <2>1, <2>2 DEF PoolSafe
<1>4. CASE Collect \/ UNCHANGED vars
  BY <1>4 DEF Collect, vars, PoolSafe, Active
<1> QED
  BY <1>1, <1>2, <1>3, <1>4, BeginPoolSafe, FreePoolSafe DEF Next, Work

(* Pooled lines are empty, small and nobody's, and active calls never share*)
(* one, however calls nest, panic and interleave.                          *)
THEOREM PoolSafeHolds == Spec => []PoolSafe
<1>1. Init => PoolSafe
  BY DEF Init, PoolSafe, Active
<1> QED
  BY <1>1, FramedInit, FramedNext, PoolNext, PTL DEF Spec

-----------------------------------------------------------------------------
(* The text of a record grows attribute by attribute.                      *)
LEMMA PartsGrow ==
  ASSUME NEW r
  PROVE  /\ Parts(r, 0) = <<>>
         /\ \A n \in Nat : /\ Parts(r, n) \in Seq({r} \X Int)
                            /\ Parts(r, n + 1) = Append(Parts(r, n), <<r, n + 1>>)
<1>1. Parts(r, 0) = <<>>
  BY DEF Parts
<1>2. ASSUME NEW n \in Nat PROVE Parts(r, n) \in Seq({r} \X Int) /\ Len(Parts(r, n)) = n
  BY DEF Parts
<1>3. ASSUME NEW n \in Nat
      PROVE  Parts(r, n + 1) = Append(Parts(r, n), <<r, n + 1>>)
  <2> DEFINE s == Parts(r, n + 1)
             t == Append(Parts(r, n), <<r, n + 1>>)
  <2>1. s \in Seq({r} \X Int) /\ Len(s) = n + 1
    BY <1>2
  <2>2. t \in Seq({r} \X Int) /\ Len(t) = n + 1
    BY <1>2
  <2>3. \A k \in 1..(n + 1) : s[k] = t[k]
    BY <1>2 DEF Parts
  <2> HIDE DEF s, t
  <2>4. s \in Seq({r} \X Int) /\ t \in Seq({r} \X Int) /\ Len(s) = Len(t)
        /\ \A k \in 1..Len(s) : s[k] = t[k]
    BY <2>1, <2>2, <2>3
  <2>5. s = t
    BY <2>4, SeqEqual, Zenon
  <2> QED
    BY <2>5 DEF s, t
<1> QED
  BY <1>1, <1>2, <1>3

(* So do the details, where an attribute is an error.                      *)
LEMMA DetailsGrow ==
  ASSUME NEW r
  PROVE  /\ Details(r, 0) = <<>>
         /\ \A n \in 1..NumParts :
              Details(r, n) =
                IF n \in ErrorParts THEN Append(Details(r, n - 1), <<r, -n>>)
                ELSE Details(r, n - 1)
         /\ Details(r, NumParts) \in Seq({r} \X Int)
<1> DEFINE s == [i \in 1..NumParts |-> <<r, -i>>]
<1>1. s \in Seq({r} \X Int) /\ Len(s) = NumParts /\ NumParts \in Nat
      /\ ErrorParts \in SUBSET (1..Len(s)) /\ \A n \in 1..NumParts : s[n] = <<r, -n>>
  BY LineAssumption DEF LineAssumption
<1>2. \A n : Details(r, n) = Appended(s, ErrorParts)[n]
  BY DEF Details
<1> HIDE DEF s
<1>3. /\ Appended(s, ErrorParts)[0] = <<>>
      /\ \A n \in 1..NumParts :
           Appended(s, ErrorParts)[n] =
             IF n \in ErrorParts THEN Append(Appended(s, ErrorParts)[n - 1], s[n])
             ELSE Appended(s, ErrorParts)[n - 1]
  BY <1>1, AppendedStep
<1>4. Appended(s, ErrorParts)[NumParts] \in Seq({r} \X Int)
  BY <1>1, AppendedAre
<1> QED
  BY <1>1, <1>2, <1>3, <1>4

(* All of a record's line is its own.                                      *)
LEMMA ExpectedIsOwn ==
  ASSUME NEW r
  PROVE  /\ Expected(r) \in Seq({r} \X Int)
         /\ Len(Expected(r)) \in Nat
         /\ \A k \in 1..Len(Expected(r)) : Expected(r)[k][1] = r
<1>1. Expected(r) \in Seq({r} \X Int)
  <2>1. Parts(r, NumParts) \in Seq({r} \X Int)
    BY PartsGrow, LineAssumption DEF LineAssumption
  <2>2. Details(r, NumParts) \in Seq({r} \X Int)
    BY DetailsGrow
  <2>3. <<<<r, 0>>>> \in Seq({r} \X Int)
    OBVIOUS
  <2> QED
    BY <2>1, <2>2, <2>3 DEF Expected
<1> QED
  BY <1>1

(* What is in the line of each call.                                       *)
Formatted ==
  /\ \A r \in Records : st[r] = "new" => pos[r] = 1
  /\ \A r \in Records : st[r] \in {"format", "callback"} =>
       /\ buf[line[r]] = Parts(r, pos[r] - 1)
       /\ details[line[r]] = Details(r, pos[r] - 1)
  /\ \A r \in Records : st[r] \in {"lock", "write"} =>
       buf[line[r]] = Expected(r)

(* How much of it is written.                                              *)
Counted ==
  \A r \in Records :
    /\ sent[r] \in 0..Len(Expected(r))
    /\ st[r] \in {"new", "format", "callback", "lock"} => sent[r] = 0
    /\ result[r] = "ok" =>
         st[r] \in {"unlock", "free", "done"} /\ sent[r] = Len(Expected(r))

(* And where: the call that writes goes on at the end of the output.       *)
Stands(r, start) ==
  /\ start + sent[r] <= Len(out)
  /\ st[r] = "write" => start + sent[r] = Len(out)
  /\ Mine(r) = (start + 1)..(start + sent[r])
  /\ \A k \in 1..sent[r] : out[start + k] = Expected(r)[k]

Placed == \A r \in Records : \E start \in 0..Len(out) : Stands(r, start)

WholeInv == Formatted /\ Counted /\ Placed

LEMMA WholeInit == Init => WholeInv
<1> SUFFICES ASSUME Init PROVE WholeInv
  OBVIOUS
<1>1. Formatted
  BY DEF Init, Formatted
<1>2. Counted
  BY ExpectedIsOwn DEF Init, Counted
<1>3. \A r \in Records : Stands(r, 0)
  BY DEF Init, Stands, Mine
<1>4. 0 \in 0..Len(out)
  BY DEF Init
<1> QED
  BY <1>1, <1>2, <1>3, <1>4 DEF WholeInv, Placed

(* A step that leaves the writing alone.                                   *)
LEMMA WritingAlone ==
  ASSUME Framed, Counted, Placed, UNCHANGED <<sent, out>>,
         \A r \in Records : st[r] = "done" \/ st[r] = "unlock" \/ st[r] = "free"
           => st'[r] \in {"unlock", "free", "done"},
         \A r \in Records : st'[r] = "write" => st[r] = "write",
         \A r \in Records :
           st'[r] \in {"new", "format", "callback", "lock"} =>
             st[r] \in {"new", "format", "callback", "lock"},
         \A r \in Records : result'[r] = "ok" => result[r] = "ok"
  PROVE  Counted' /\ Placed'
<1>1. Counted'
  BY DEF Counted
<1>2. ASSUME NEW r \in Records, NEW start \in 0..Len(out), Stands(r, start)
      PROVE  Stands(r, start)'
  BY <1>2 DEF Stands, Mine
<1>3. Placed'
  BY <1>2 DEF Placed
<1> QED
  BY <1>1, <1>3

(* Handle begins with an empty line, from the pool or not.                 *)
LEMMA BeginFormatted ==
  ASSUME Framed, PoolSafe, Formatted, NEW r \in Records, Begin(r)
  PROVE  Formatted'
<1> USE DEF Framed, TypeOK
<1>1. st[r] = "new" /\ st' = [st EXCEPT ![r] = "format"] /\ pos[r] = 1
      /\ UNCHANGED pos
  BY DEF Begin, Formatted
<1>2. PICK l \in Lines : /\ line' = [line EXCEPT ![r] = l]
                         /\ buf'[l] = <<>> /\ details'[l] = <<>>
                         /\ \A k \in Lines \ {l} : /\ buf'[k] = buf[k]
                                                   /\ details'[k] = details[k]
                         /\ \A q \in Records : Active(q) => line[q] # l
  <2>1. ASSUME NEW l \in pool, line' = [line EXCEPT ![r] = l],
               UNCHANGED <<buf, details>>
        PROVE  /\ l \in Lines /\ buf'[l] = <<>> /\ details'[l] = <<>>
               /\ \A q \in Records : Active(q) => line[q] # l
    BY <2>1 DEF PoolSafe
  <2>2. ASSUME NEW l \in Lines \ (pool \cup Used),
               buf' = [buf EXCEPT ![l] = <<>>],
               details' = [details EXCEPT ![l] = <<>>]
        PROVE  /\ buf'[l] = <<>> /\ details'[l] = <<>>
               /\ \A k \in Lines \ {l} : /\ buf'[k] = buf[k]
                                         /\ details'[k] = details[k]
               /\ \A q \in Records : Active(q) => line[q] # l
    BY <2>2 DEF Used
  <2> QED
    BY <2>1, <2>2 DEF Begin, Get
<1>3. ASSUME NEW q \in Records, q # r, Active(q)
      PROVE  /\ buf'[line'[q]] = buf[line[q]]
             /\ details'[line'[q]] = details[line[q]]
  BY <1>2, <1>3 DEF HasLine
<1>4. Parts(r, 0) = <<>> /\ Details(r, 0) = <<>>
  BY PartsGrow, DetailsGrow
<1>5. /\ buf'[line'[r]] = Parts(r, pos'[r] - 1)
      /\ details'[line'[r]] = Details(r, pos'[r] - 1)
  BY <1>1, <1>2, <1>4
<1> QED
  BY <1>1, <1>3, <1>5 DEF Formatted, Active

(* Appending an attribute goes on in the same line.                        *)
LEMMA AppendFormatted ==
  ASSUME Framed, PoolSafe, Formatted, NEW r \in Records,
         st[r] \in {"format", "callback"}, pos[r] <= NumParts, AppendPart(r),
         UNCHANGED line, st' = [st EXCEPT ![r] = "format"]
  PROVE  Formatted'
<1> USE DEF Framed, TypeOK
<1>1. Active(r) /\ line[r] \in Lines /\ pos[r] \in 1..NumParts
  BY LineAssumption DEF LineAssumption, HasLine, Active
<1>2. ASSUME NEW q \in Records, q # r, Active(q)
      PROVE  /\ buf'[line'[q]] = buf[line[q]]
             /\ details'[line'[q]] = details[line[q]]
  <2>1. line[q] \in Lines /\ line[q] # line[r]
    BY <1>1, <1>2 DEF PoolSafe
  <2> QED
    BY <2>1 DEF AppendPart
<1>3. pos' = [pos EXCEPT ![r] = @ + 1]
  BY DEF AppendPart
<1>4. /\ Parts(r, pos[r]) = Append(Parts(r, pos[r] - 1), <<r, pos[r]>>)
      /\ Details(r, pos[r]) =
           IF pos[r] \in ErrorParts
           THEN Append(Details(r, pos[r] - 1), <<r, -pos[r]>>)
           ELSE Details(r, pos[r] - 1)
  <2>1. pos[r] - 1 \in Nat /\ (pos[r] - 1) + 1 = pos[r]
    BY <1>1
  <2>2. Parts(r, (pos[r] - 1) + 1) = Append(Parts(r, pos[r] - 1), <<r, (pos[r] - 1) + 1>>)
    BY <2>1, PartsGrow
  <2> QED
    BY <1>1, <2>1, <2>2, DetailsGrow
<1>5. /\ buf'[line[r]] = Parts(r, pos[r])
      /\ details'[line[r]] = Details(r, pos[r])
  BY <1>1, <1>4 DEF AppendPart, Formatted
<1>6. pos'[r] - 1 = pos[r] /\ \A q \in Records : q # r => pos'[q] = pos[q]
  BY <1>1, <1>3
<1> QED
  BY <1>2, <1>5, <1>6 DEF Formatted, Active

(* The finished line is the one expected.                                  *)
LEMMA EndFormatted ==
  ASSUME Framed, PoolSafe, Formatted, NEW r \in Records, EndLine(r)
  PROVE  Formatted'
<1> USE DEF Framed, TypeOK
<1>1. /\ Active(r) /\ line[r] \in Lines /\ pos[r] = NumParts + 1
      /\ pos[r] - 1 = NumParts
  <2>1. st[r] = "format" /\ pos[r] > NumParts
    BY DEF EndLine
  <2>2. pos[r] \in 1..(NumParts + 1) /\ NumParts \in Nat
    BY LineAssumption DEF LineAssumption
  <2>3. Active(r)
    BY <2>1 DEF Active
  <2>4. line[r] \in Lines
    BY <2>3 DEF HasLine
  <2> HIDE DEF Framed, TypeOK
  <2> QED
    BY <2>1, <2>2, <2>3, <2>4
<1>2. /\ buf' = [buf EXCEPT ![line[r]] = @ \o <<<<r, 0>>>> \o details[line[r]]]
      /\ st[r] = "format" /\ st' = [st EXCEPT ![r] = "lock"]
      /\ UNCHANGED <<line, pos, details>>
  BY DEF EndLine
<1>3. ASSUME NEW q \in Records, q # r, Active(q)
      PROVE  buf'[line'[q]] = buf[line[q]]
  BY <1>1, <1>2, <1>3 DEF PoolSafe
<1>4. buf'[line[r]] = Expected(r)
  BY <1>1, <1>2 DEF Formatted, Expected
<1> QED
  BY <1>2, <1>3, <1>4 DEF Formatted, Active

LEMMA FreeFormatted ==
  ASSUME Framed, PoolSafe, Formatted, NEW r \in Records, Free(r)
  PROVE  Formatted'
<1> USE DEF Framed, TypeOK
<1>1. Active(r) /\ line[r] \in Lines /\ UNCHANGED pos
      /\ line' = [line EXCEPT ![r] = None]
  BY DEF Free, HasLine, Active
<1>2. ASSUME NEW q \in Records, q # r, Active(q)
      PROVE  /\ buf'[line'[q]] = buf[line[q]]
             /\ details'[line'[q]] = details[line[q]]
  <2>1. line[q] \in Lines /\ line[q] # line[r] /\ line'[q] = line[q]
    BY <1>1, <1>2 DEF PoolSafe
  <2> QED
    BY <1>1, <2>1 DEF Free, PutBack
<1>3. \A q \in Records : st'[q] \notin {"free", "done"} => q # r /\ st'[q] = st[q]
  BY <1>1 DEF Free
<1> QED
  BY <1>1, <1>2, <1>3 DEF Formatted, Active

LEMMA FormattedNext ==
  Framed /\ PoolSafe /\ Formatted /\ [Next]_vars => Formatted'
<1> SUFFICES ASSUME Framed, PoolSafe, Formatted, [Next]_vars PROVE Formatted'
  OBVIOUS
<1>1. ASSUME NEW r \in Records, Plain(r) PROVE Formatted'
  <2>1. st' = [st EXCEPT ![r] = "format"]
    BY <1>1 DEF Plain, Framed, TypeOK
  <2> QED
    BY <1>1, <2>1, AppendFormatted DEF Plain
<1>2. ASSUME NEW r \in Records, LeaveCallback(r) PROVE Formatted'
  BY <1>2, AppendFormatted DEF LeaveCallback, InCallback, Framed, Nested
<1>3. ASSUME NEW r \in Records,
             EnterCallback(r) \/ CallbackPanics(r) \/ Lock(r) \/ WriteSome(r)
               \/ WriteEnds(r) \/ Unlock(r)
      PROVE  Formatted'
  <2>1. UNCHANGED <<line, buf, details, pos>>
    BY <1>3 DEF EnterCallback, CallbackPanics, Lock, WriteSome, WriteEnds,
                Unlock
  <2>2. \A q \in Records :
          /\ st'[q] = "new" => st[q] = "new"
          /\ st'[q] \in {"format", "callback"} => st[q] \in {"format", "callback"}
          /\ st'[q] \in {"lock", "write"} => st[q] \in {"lock", "write"}
    BY <1>3 DEF EnterCallback, CallbackPanics, Lock, WriteSome, WriteEnds,
                Unlock, Framed, TypeOK
  <2> QED
    BY <2>1, <2>2 DEF Formatted
<1>4. CASE Collect \/ UNCHANGED vars
  BY <1>4 DEF Collect, vars, Formatted
<1> QED
  BY <1>1, <1>2, <1>3, <1>4, BeginFormatted, EndFormatted, FreeFormatted
     DEF Next, Work

-----------------------------------------------------------------------------
(* The call that writes puts its pieces one after the other: no other call *)
(* is writing.                                                             *)
LEMMA WriteSomeWhole ==
  ASSUME Framed, LockedOnlyToWrite, Formatted, Counted, Placed,
         NEW r \in Records, WriteSome(r)
  PROVE  Counted' /\ Placed'
<1> DEFINE piece == Expected(r)[sent[r] + 1]
<1>1. /\ st[r] = "write" /\ sent[r] < Len(Expected(r))
      /\ out' = Append(out, piece)
      /\ sent' = [sent EXCEPT ![r] = @ + 1] /\ UNCHANGED <<st, result>>
  BY DEF WriteSome, Formatted
<1>2. sent[r] \in Nat /\ sent[r] + 1 \in 1..Len(Expected(r)) /\ piece[1] = r
  <2>1. sent[r] \in Nat
    BY DEF Framed, TypeOK
  <2>2. sent[r] + 1 \in 1..Len(Expected(r))
    BY <1>1, <2>1, ExpectedIsOwn
  <2> QED
    BY <2>1, <2>2, ExpectedIsOwn
<1>3. \A q \in Records : q # r => sent'[q] = sent[q] /\ st[q] # "write"
  BY <1>1 DEF LockedOnlyToWrite, Framed, TypeOK
<1>4. sent'[r] = sent[r] + 1
  BY <1>1 DEF Framed, TypeOK
<1> HIDE DEF piece
<1>5. /\ Len(out) \in Nat /\ Len(out') = Len(out) + 1
      /\ out'[Len(out) + 1] = piece /\ \A i \in 1..Len(out) : out'[i] = out[i]
  BY <1>1 DEF Framed, TypeOK
<1>6. Counted'
  BY <1>1, <1>2, <1>3, <1>4, ExpectedIsOwn DEF Counted
<1>7. ASSUME NEW q \in Records, q # r, NEW start \in 0..Len(out), Stands(q, start)
      PROVE  Stands(q, start)'
  <2>1. Mine(q)' = Mine(q)
    BY <1>2, <1>5, <1>7 DEF Mine
  <2>2. sent[q] \in Nat
    BY DEF Framed, TypeOK
  <2> QED
    BY <1>1, <1>3, <1>5, <1>7, <2>1, <2>2 DEF Stands
<1>8. ASSUME NEW start \in 0..Len(out), Stands(r, start)
      PROVE  Stands(r, start)'
  <2>1. start + sent[r] = Len(out) /\ Mine(r) = (start + 1)..(start + sent[r])
    BY <1>1, <1>8 DEF Stands
  <2> DEFINE n == sent[r]
             L == Len(out)
  <2>0. n \in Nat /\ L \in Nat /\ start \in Nat /\ start + n = L
        /\ start + (n + 1) = L + 1
    <3>1. n \in Nat /\ L \in Nat
      BY <1>2, <1>5
    <3>2. start + n = L /\ start \in 0..L
      BY <2>1
    <3> HIDE DEF n, L
    <3> QED
      BY <3>1, <3>2
  <2>2. Mine(r)' = Mine(r) \cup {Len(out) + 1}
    BY <1>2, <1>5 DEF Mine
  <2>3. Mine(r)' = (start + 1)..(start + sent'[r])
    <3>1. Mine(r)' = (start + 1)..(start + n) \cup {start + (n + 1)}
      BY <2>1, <2>2, <2>0
    <3> HIDE DEF n, L
    <3>2. Mine(r)' = (start + 1)..(start + (n + 1))
      BY <2>0, <3>1
    <3> QED
      BY <1>4, <3>2 DEF n
  <2>4. \A k \in 1..sent'[r] : out'[start + k] = Expected(r)[k]
    <3>1. ASSUME NEW k \in 1..sent[r] PROVE out'[start + k] = Expected(r)[k]
      BY <1>2, <1>5, <1>8, <2>1, <3>1 DEF Stands
    <3>2. out'[start + sent'[r]] = Expected(r)[sent'[r]]
      <4>1. piece = Expected(r)[sent'[r]]
        BY <1>4 DEF piece
      <4>2. start + sent'[r] = Len(out) + 1
        BY <1>4, <2>0
      <4> QED
        BY <1>5, <4>1, <4>2
    <3>3. \A k \in 1..(n + 1) : k \in 1..n \/ k = n + 1
      <4> HIDE DEF n
      <4> QED
        BY <2>0
    <3>4. sent'[r] = n + 1
      BY <1>4
    <3> HIDE DEF n
    <3>5. \A k \in 1..n : out'[start + k] = Expected(r)[k]
      BY <3>1 DEF n
    <3> QED
      BY <3>2, <3>3, <3>4, <3>5
  <2>5. start + sent'[r] = Len(out')
    BY <1>4, <1>5, <2>0
  <2>6. start + sent'[r] <= Len(out')
    BY <1>5, <2>5, <2>0
  <2> QED
    BY <2>3, <2>4, <2>5, <2>6 DEF Stands
<1>9. 0..Len(out) \subseteq 0..Len(out')
  BY <1>5
<1>10. Placed'
  BY <1>7, <1>8, <1>9 DEF Placed
<1> QED
  BY <1>6, <1>10

(* A call begins to write at the end of what has been written.             *)
LEMMA LockWhole ==
  ASSUME Framed, Counted, Placed, NEW r \in Records, Lock(r)
  PROVE  Counted' /\ Placed'
<1>1. /\ st[r] = "lock" /\ st' = [st EXCEPT ![r] = "write"]
      /\ UNCHANGED <<sent, out, result>>
  BY DEF Lock
<1>2. Counted'
  BY <1>1 DEF Counted, Framed, TypeOK
<1>3. ASSUME NEW q \in Records, q # r, NEW start \in 0..Len(out), Stands(q, start)
      PROVE  Stands(q, start)'
  BY <1>1, <1>3 DEF Stands, Mine, Framed, TypeOK
<1>4. sent[r] = 0 /\ Len(out) \in Nat
  BY <1>1 DEF Counted, Framed, TypeOK
<1>5. PICK start \in 0..Len(out) : Stands(r, start)
  BY DEF Placed
<1>6. Mine(r) = {}
  BY <1>4, <1>5 DEF Stands
<1>7. Stands(r, Len(out))'
  <2>1. Mine(r)' = {}
    BY <1>1, <1>6 DEF Mine
  <2> QED
    BY <1>1, <1>4, <2>1 DEF Stands
<1>8. Placed'
  BY <1>1, <1>3, <1>4, <1>7 DEF Placed
<1> QED
  BY <1>2, <1>8

(* Write returns nil only with all of the line taken.                      *)
LEMMA WriteEndsWhole ==
  ASSUME Framed, Formatted, Counted, Placed, NEW r \in Records, WriteEnds(r)
  PROVE  Counted' /\ Placed'
<1>1. PICK how \in {"ok", "error", "panic"} :
        /\ how = "ok" => sent[r] = Len(buf[line[r]])
        /\ result' = [result EXCEPT ![r] = how]
  BY DEF WriteEnds
<1>2. /\ st[r] = "write" /\ st' = [st EXCEPT ![r] = "unlock"]
      /\ UNCHANGED <<sent, out>>
  BY DEF WriteEnds
<1>3. how = "ok" => sent[r] = Len(Expected(r))
  BY <1>1, <1>2 DEF Formatted
<1>4. Counted'
  BY <1>1, <1>2, <1>3 DEF Counted, Framed, TypeOK
<1>5. ASSUME NEW q \in Records, NEW start \in 0..Len(out), Stands(q, start)
      PROVE  Stands(q, start)'
  BY <1>2, <1>5 DEF Stands, Mine, Framed, TypeOK
<1>6. Placed'
  BY <1>2, <1>5 DEF Placed
<1> QED
  BY <1>4, <1>6

LEMMA WritingNext ==
  Framed /\ LockedOnlyToWrite /\ Formatted /\ Counted /\ Placed /\ [Next]_vars
    => Counted' /\ Placed'
<1> SUFFICES ASSUME Framed, LockedOnlyToWrite, Formatted, Counted, Placed,
                    [Next]_vars
             PROVE  Counted' /\ Placed'
  OBVIOUS
<1>1. ASSUME NEW r \in Records,
             Begin(r) \/ Plain(r) \/ EnterCallback(r) \/ LeaveCallback(r)
               \/ CallbackPanics(r) \/ EndLine(r) \/ Unlock(r)
      PROVE  Counted' /\ Placed'
  <2>1. UNCHANGED <<sent, out>>
    BY <1>1 DEF Begin, Plain, EnterCallback, LeaveCallback, CallbackPanics,
                EndLine, Unlock
  <2>2. \A q \in Records :
          /\ st[q] = "done" \/ st[q] = "unlock" \/ st[q] = "free"
               => st'[q] \in {"unlock", "free", "done"}
          /\ st'[q] = "write" => st[q] = "write"
          /\ st'[q] \in {"new", "format", "callback", "lock"} =>
               st[q] \in {"new", "format", "callback", "lock"}
          /\ result'[q] = "ok" => result[q] = "ok"
    BY <1>1 DEF Begin, Plain, EnterCallback, LeaveCallback, CallbackPanics,
                EndLine, Unlock, InCallback, Framed, TypeOK
  <2> QED
    BY <2>1, <2>2, WritingAlone
<1>2. ASSUME NEW r \in Records, Free(r) PROVE Counted' /\ Placed'
  <2>1. st[r] = "free" /\ UNCHANGED <<sent, out>>
    BY <1>2 DEF Free
  <2>2. \A q \in Records :
          /\ st[q] = "done" \/ st[q] = "unlock" \/ st[q] = "free"
               => st'[q] \in {"unlock", "free", "done"}
          /\ st'[q] = "write" => st[q] = "write"
          /\ st'[q] \in {"new", "format", "callback", "lock"} =>
               st[q] \in {"new", "format", "callback", "lock"}
          /\ result'[q] = "ok" => result[q] = "ok"
    BY <1>2 DEF Free, Framed, TypeOK
  <2> QED
    BY <2>1, <2>2, WritingAlone
<1>3. CASE Collect \/ UNCHANGED vars
  <2>1. UNCHANGED <<st, sent, result, out>>
    BY <1>3 DEF Collect, vars
  <2> QED
    BY <2>1 DEF Counted, Placed, Stands, Mine
<1> QED
  BY <1>1, <1>2, <1>3, WriteSomeWhole, LockWhole, WriteEndsWhole DEF Next, Work

(* In the output the pieces of a record stand together, in order, and all  *)
(* of them when Handle returns nil, whatever other calls do meanwhile.     *)
THEOREM WholeLinesHolds == Spec => []WholeLines
<1>1. Framed /\ WholeInv => WholeLines
  <2> SUFFICES ASSUME Framed, WholeInv, NEW r \in Records
               PROVE  \E start \in 0..Len(out), n \in 0..Len(Expected(r)) :
                        /\ Mine(r) = (start + 1)..(start + n)
                        /\ \A k \in 1..n : out[start + k] = Expected(r)[k]
                        /\ st[r] \in {"new", "format", "callback", "lock"} => n = 0
                        /\ result[r] = "ok" => n = Len(Expected(r))
    BY DEF WholeLines
  <2>1. PICK start \in 0..Len(out) : Stands(r, start)
    BY DEF WholeInv, Placed
  <2> WITNESS start \in 0..Len(out)
  <2>2. sent[r] \in 0..Len(Expected(r))
    BY DEF WholeInv, Counted
  <2> WITNESS sent[r] \in 0..Len(Expected(r))
  <2> QED
    BY <2>1 DEF WholeInv, Counted, Stands
<1>2. Framed /\ LockedOnlyToWrite /\ PoolSafe /\ WholeInv /\ [Next]_vars => WholeInv'
  BY FormattedNext, WritingNext DEF WholeInv
<1> QED
  BY <1>1, <1>2, FramedInit, FramedNext, WholeInit, PoolSafeHolds,
     LockedOnlyToWriteHolds, PTL DEF Spec
-----------------------------------------------------------------------------
(* Everything that is in lines.                                            *)
Chars ==
  STRING \cup Special \cup {Space, Equal, Dot, Comma, Colon, Replacement}
    \cup {Letter(c) : c \in Special}

LEMMA LettersDiffer ==
  /\ \A c, d \in Special : Letter(c) = Letter(d) => c = d
  /\ \A c \in Special : Letter(c) \notin Unsafe
  /\ Backslash \notin Unsafe /\ Quote \notin Unsafe
BY DEF Letter, Special, Unsafe, Quote, Backslash, Tab, Newline, Control, Delete,
       Broken, Hidden, LineEnd, WideSpace

(* An escape is read as what it stands for.                                *)
LEMMA LetterIsMeant == \A c \in Special : Meant(Letter(c)) = c
<1> SUFFICES ASSUME NEW c \in Special PROVE Meant(Letter(c)) = c
  OBVIOUS
<1>1. \A d \in Special : Letter(d) = Letter(c) => d = c
  BY LettersDiffer
<1> QED
  BY <1>1 DEF Meant

Modes == {"start", "plain", "quoted", "escape", "closed"}

(* What a reader may have read.                                            *)
Readers ==
  [read : Seq([sep : Chars \cup {"start"}, text : Seq(Chars)]),
   sep : Chars \cup {"start"}, text : Seq(Chars), mode : Modes]

LEMMA ReadType ==
  ASSUME NEW r \in Readers, NEW c \in Chars, NEW seps
  PROVE  Read(r, c, seps) \in Readers
<1> DEFINE Part == [sep : Chars \cup {"start"}, text : Seq(Chars)]
<1>1. Meant(c) \in Chars
  BY DEF Meant, Chars
<1>2. /\ r.read \in Seq(Part) /\ r.text \in Seq(Chars)
      /\ [sep |-> r.sep, text |-> r.text] \in Part
  BY DEF Readers
<1>3. /\ Append(r.text, c) \in Seq(Chars)
      /\ Append(r.text, Meant(c)) \in Seq(Chars)
      /\ Append(r.read, [sep |-> r.sep, text |-> r.text]) \in Seq(Part)
      /\ <<>> \in Seq(Chars)
  <2> HIDE DEF Part
  <2> QED
    BY <1>1, <1>2
<1>4. Modes = {"start", "plain", "quoted", "escape", "closed"}
  BY DEF Modes
<1>5. /\ [r EXCEPT !.text = Append(@, Meant(c)), !.mode = "quoted"] \in Readers
      /\ [r EXCEPT !.text = Append(@, c), !.mode = "plain"] \in Readers
      /\ [r EXCEPT !.text = Append(@, c)] \in Readers
      /\ [r EXCEPT !.mode = "escape"] \in Readers
      /\ [r EXCEPT !.mode = "closed"] \in Readers
      /\ [r EXCEPT !.mode = "quoted"] \in Readers
  BY <1>3, <1>4 DEF Readers
<1>6. [read |-> Append(r.read, [sep |-> r.sep, text |-> r.text]),
       sep |-> c, text |-> <<>>, mode |-> "start"] \in Readers
  BY <1>3, <1>4 DEF Readers
<1> QED
  BY <1>5, <1>6 DEF Read
(* The reader after a whole line.                                          *)
ReadAll(r, chunk, seps) == Reading(r, chunk, seps)[Len(chunk)]

LEMMA ReadingSteps ==
  ASSUME NEW r \in Readers, NEW chunk \in Seq(Chars), NEW seps
  PROVE  /\ Reading(r, chunk, seps)[0] = r
         /\ \A n \in 1..Len(chunk) :
              Reading(r, chunk, seps)[n] =
                Read(Reading(r, chunk, seps)[n - 1], chunk[n], seps)
         /\ \A n \in 0..Len(chunk) : Reading(r, chunk, seps)[n] \in Readers
<1> DEFINE N == Len(chunk)
           step == [n \in 1..N |-> [q \in Readers |-> Read(q, chunk[n], seps)]]
           Turn(g, n) == IF n = 0 THEN r ELSE Read(g[n - 1], chunk[n], seps)
           Is(g) == g = [n \in 0..N |-> Turn(g, n)]
           c == CHOOSE g : Is(g)
<1>1. N \in Nat /\ \A n \in 1..N : chunk[n] \in Chars
  OBVIOUS
<1>2. step \in Steps(N, Readers)
  BY <1>1, ReadType DEF Steps
<1>3. PICK f \in Runs(N, Readers, r, step) : TRUE
  <2> HIDE DEF step, N
  <2> QED
    BY <1>1, <1>2, Recursion
<1>4. /\ f \in [0..N -> Readers] /\ f[0] = r
      /\ \A n \in 1..N : f[n] = step[n][f[n - 1]]
  <2> HIDE DEF step
  <2> QED
    BY DEF Runs
<1>5. \A n \in 1..N : n - 1 \in 0..N
  BY <1>1
<1>6. \A n \in 1..N : f[n] = Read(f[n - 1], chunk[n], seps)
  BY <1>4, <1>5
<1>7. Is(f)
  <2>1. \A n \in 0..N : f[n] = Turn(f, n)
    <3> HIDE DEF N
    <3>1. \A n \in 0..N : n = 0 \/ n \in 1..N
      BY <1>1
    <3> QED
      BY <1>4, <1>6, <3>1
  <2> HIDE DEF Turn
  <2> QED
    BY <1>4, <2>1
<1>8. Is(c)
  <2> HIDE DEF Is
  <2> QED
    BY <1>7
<1>9. Reading(r, chunk, seps) = c
  BY DEF Reading
<1>10. \A n \in 0..N : c[n] = Turn(c, n)
  <2> HIDE DEF Turn, c
  <2> QED
    BY <1>8
<1>11. c[0] = r
  <2>1. 0 \in 0..N
    BY <1>1
  <2> HIDE DEF c
  <2> QED
    BY <1>10, <2>1
<1>12. \A n \in 1..N : c[n] = Read(c[n - 1], chunk[n], seps)
  <2>1. \A n \in 1..N : n \in 0..N /\ n # 0
    BY <1>1
  <2> HIDE DEF c
  <2> QED
    BY <1>10, <2>1
<1>13. \A n \in 0..N : c[n] \in Readers
  <2> DEFINE T == {n \in 0..N : c[n] \in Readers}
  <2>1. 0 \in T
    <3> HIDE DEF c
    <3> QED
      BY <1>1, <1>11
  <2>2. \A n \in 1..N : n - 1 \in T => n \in T
    <3> HIDE DEF c, N
    <3>1. \A n \in 1..N : n \in 0..N
      BY <1>1
    <3> QED
      BY <1>1, <1>12, <3>1, ReadType
  <2>3. 0..N \subseteq T
    <3> HIDE DEF T, N
    <3> QED
      BY <1>1, <2>1, <2>2, UpTo
  <2> HIDE DEF c
  <2> QED
    BY <2>3
<1> HIDE DEF c
<1> QED
  BY <1>9, <1>11, <1>12, <1>13

LEMMA ReadAllType ==
  ASSUME NEW r \in Readers, NEW chunk \in Seq(Chars), NEW seps
  PROVE  ReadAll(r, chunk, seps) \in Readers
<1>1. Len(chunk) \in 0..Len(chunk)
  OBVIOUS
<1> QED
  BY <1>1, ReadingSteps DEF ReadAll

LEMMA ReadAllNone ==
  ASSUME NEW r \in Readers, NEW seps
  PROVE  ReadAll(r, <<>>, seps) = r
<1>1. <<>> \in Seq(Chars) /\ Len(<<>>) = 0
  OBVIOUS
<1>2. Reading(r, <<>>, seps)[0] = r
  BY <1>1, ReadingSteps, ZenonT(30)
<1> QED
  BY <1>1, <1>2 DEF ReadAll

LEMMA ReadAllAppend ==
  ASSUME NEW r \in Readers, NEW chunk \in Seq(Chars), NEW c \in Chars, NEW seps
  PROVE  ReadAll(r, Append(chunk, c), seps) = Read(ReadAll(r, chunk, seps), c, seps)
<1> DEFINE t == Append(chunk, c)
           N == Len(chunk)
           f == Reading(r, chunk, seps)
           g == Reading(r, t, seps)
           T == {n \in 0..N : g[n] = f[n]}
<1>1. /\ N \in Nat /\ t \in Seq(Chars) /\ Len(t) = N + 1
      /\ t[N + 1] = c /\ \A n \in 1..N : t[n] = chunk[n]
  BY AppendProperties
<1>2. f[0] = r /\ \A n \in 1..N : f[n] = Read(f[n - 1], chunk[n], seps)
  BY ReadingSteps
<1>3. g[0] = r /\ \A n \in 1..Len(t) : g[n] = Read(g[n - 1], t[n], seps)
  <2> HIDE DEF t
  <2> QED
    BY <1>1, ReadingSteps
<1>4. 0 \in T
  <2> HIDE DEF f, g
  <2> QED
    BY <1>1, <1>2, <1>3
<1>5. \A n \in 1..N : n - 1 \in T => n \in T
  <2>1. \A n \in 1..N : n \in 0..N /\ n \in 1..(N + 1)
    BY <1>1
  <2> HIDE DEF f, g, t, N
  <2> QED
    BY <1>1, <1>2, <1>3, <2>1
<1>6. 0..N \subseteq T
  <2> HIDE DEF T, N
  <2> QED
    BY <1>1, <1>4, <1>5, UpTo
<1>7. N \in 0..N /\ N + 1 \in 1..(N + 1) /\ (N + 1) - 1 = N
  BY <1>1
<1> HIDE DEF f, g, t, N
<1>8. g[N] = f[N]
  BY <1>6, <1>7 DEF T
<1>9. g[N + 1] = Read(f[N], c, seps)
  BY <1>1, <1>3, <1>7, <1>8
<1> QED
  BY <1>1, <1>9 DEF ReadAll, f, g, t, N

LEMMA ReadAllOne ==
  ASSUME NEW r \in Readers, NEW c \in Chars, NEW seps
  PROVE  ReadAll(r, <<c>>, seps) = Read(r, c, seps)
<1> DEFINE none == <<>>
<1>1. none \in Seq(Chars) /\ Append(none, c) = <<c>>
  OBVIOUS
<1>2. ReadAll(r, none, seps) = r
  BY ReadAllNone
<1>3. ReadAll(r, Append(none, c), seps) = Read(ReadAll(r, none, seps), c, seps)
  <2> HIDE DEF none
  <2> QED
    BY <1>1, ReadAllAppend
<1> QED
  BY <1>1, <1>2, <1>3

LEMMA ReadAllConcat ==
  ASSUME NEW r \in Readers, NEW a \in Seq(Chars), NEW b \in Seq(Chars), NEW seps
  PROVE  ReadAll(r, a \o b, seps) = ReadAll(ReadAll(r, a, seps), b, seps)
<1> DEFINE q == ReadAll(r, a, seps)
           T == {t \in Seq(Chars) : ReadAll(r, a \o t, seps) = ReadAll(q, t, seps)}
<1>1. q \in Readers
  BY ReadAllType
<1>2. <<>> \in T
  <2>1. a \o <<>> = a /\ <<>> \in Seq(Chars)
    OBVIOUS
  <2>2. ReadAll(q, <<>>, seps) = q
    <3> HIDE DEF q
    <3> QED
      BY <1>1, ReadAllNone
  <2> QED
    BY <2>1, <2>2
<1>3. ASSUME NEW t \in Seq(Chars), NEW c \in Chars, t \in T
      PROVE  Append(t, c) \in T
  <2>1. a \o Append(t, c) = Append(a \o t, c)
    <3>1. Append(t, c) = t \o <<c>> /\ <<c>> \in Seq(Chars)
      BY AppendIsConcat
    <3>2. a \o t \in Seq(Chars)
      BY ConcatProperties
    <3>3. Append(a \o t, c) = (a \o t) \o <<c>>
      BY <3>2, AppendIsConcat
    <3>4. (a \o t) \o <<c>> = a \o (t \o <<c>>)
      BY <3>1, ConcatAssociative
    <3> QED
      BY <3>1, <3>3, <3>4
  <2>2. a \o t \in Seq(Chars)
    BY ConcatProperties
  <2>3. ReadAll(r, Append(a \o t, c), seps) = Read(ReadAll(r, a \o t, seps), c, seps)
    BY <2>2, ReadAllAppend
  <2>4. ReadAll(q, Append(t, c), seps) = Read(ReadAll(q, t, seps), c, seps)
    <3> HIDE DEF q
    <3> QED
      BY <1>1, ReadAllAppend
  <2>5. ReadAll(r, a \o t, seps) = ReadAll(q, t, seps) /\ Append(t, c) \in Seq(Chars)
    BY <1>3
  <2> HIDE DEF q
  <2> QED
    BY <2>1, <2>3, <2>4, <2>5
<1>4. Seq(Chars) \subseteq T
  <2> HIDE DEF T
  <2> QED
    BY <1>2, <1>3, SeqInduction
<1> QED
  BY <1>4
-----------------------------------------------------------------------------
(* How a character is written where some are escaped.                      *)
Written(chars) ==
  [c \in Chars |-> IF c \in chars THEN Escape(c) ELSE <<c>>]

LEMMA WrittenType ==
  ASSUME NEW chars \in SUBSET Special
  PROVE  Written(chars) \in Makers(Chars, Seq(Chars))
<1>1. \A c \in Special : Letter(c) \in Chars
  BY DEF Chars
<1>2. Backslash \in Chars
  BY DEF Chars, Special
<1>3. \A c \in Special : Escape(c) \in Seq(Chars)
  BY <1>1, <1>2 DEF Escape
<1> QED
  BY <1>3 DEF Makers, Written

LEMMA EscapedIs ==
  ASSUME NEW text \in Seq(Chars), NEW chars
  PROVE  Escaped(text, chars) = Flat(text, Written(chars))
<1>1. \A i \in DOMAIN text : text[i] \in Chars
  OBVIOUS
<1>2. [i \in DOMAIN text |->
         IF text[i] \in chars THEN Escape(text[i]) ELSE <<text[i]>>]
        = Each(text, Written(chars))
  BY <1>1 DEF Each, Written
<1> QED
  BY <1>2 DEF Escaped, Flat

LEMMA EscapedType ==
  ASSUME NEW chars \in SUBSET Special, NEW text \in Seq(Chars)
  PROVE  Escaped(text, chars) \in Seq(Chars)
BY WrittenType, EscapedIs, FlatType

LEMMA EscapedAppend ==
  ASSUME NEW chars \in SUBSET Special, NEW text \in Seq(Chars), NEW c \in Chars
  PROVE  Escaped(Append(text, c), chars) = Escaped(text, chars) \o Written(chars)[c]
<1>1. Append(text, c) \in Seq(Chars)
  OBVIOUS
<1>2. Flat(Append(text, c), Written(chars))
        = Flat(text, Written(chars)) \o Written(chars)[c]
  BY WrittenType, FlatAppend
<1> QED
  BY <1>1, <1>2, EscapedIs

(* A reader that has read some text since the last separator, in some mode,*)
(* and one after a separator.                                              *)
WithText(r, text, mode) == [r EXCEPT !.text = text, !.mode = mode]

Separated(r, c) ==
  [read |-> Append(r.read, [sep |-> r.sep, text |-> r.text]),
   sep |-> c, text |-> <<>>, mode |-> "start"]

LEMMA WithTextIs ==
  ASSUME NEW r \in Readers, NEW text \in Seq(Chars), NEW mode \in Modes
  PROVE  /\ WithText(r, text, mode) \in Readers
         /\ WithText(r, text, mode).text = text
         /\ WithText(r, text, mode).mode = mode
         /\ WithText(r, text, mode).read = r.read
         /\ WithText(r, text, mode).sep = r.sep
BY DEF WithText, Readers

LEMMA WithTextTwice ==
  ASSUME NEW r \in Readers, NEW t, NEW m, NEW text, NEW mode
  PROVE  WithText(WithText(r, t, m), text, mode) = WithText(r, text, mode)
BY DEF WithText, Readers

LEMMA WithTextSame ==
  ASSUME NEW r \in Readers
  PROVE  WithText(r, r.text, r.mode) = r
BY DEF WithText, Readers

(* What a reader makes of a character.                                     *)
LEMMA ReadIs ==
  ASSUME NEW r \in Readers, NEW c, NEW seps, Quote \notin seps
  PROVE  /\ r.mode = "escape" =>
              Read(r, c, seps) = WithText(r, Append(r.text, Meant(c)), "quoted")
         /\ r.mode = "quoted" /\ c = Backslash =>
              Read(r, c, seps) = WithText(r, r.text, "escape")
         /\ r.mode = "quoted" /\ c = Quote =>
              Read(r, c, seps) = WithText(r, r.text, "closed")
         /\ r.mode = "quoted" /\ c \notin {Backslash, Quote} =>
              Read(r, c, seps) = WithText(r, Append(r.text, c), "quoted")
         /\ r.mode = "start" /\ c = Quote =>
              Read(r, c, seps) = WithText(r, r.text, "quoted")
         /\ r.mode \in {"start", "plain", "closed"} /\ c \in seps =>
              Read(r, c, seps) = Separated(r, c)
         /\ r.mode \in {"start", "plain"} /\ c \notin seps \cup {Quote} =>
              Read(r, c, seps) = WithText(r, Append(r.text, c), "plain")
<1>1. Quote # Backslash
  BY DEF Quote, Backslash
<1>2. \A m : WithText(r, r.text, m) = [r EXCEPT !.mode = m]
  BY DEF WithText, Readers
<1>3. r.mode = "quoted" => \A t : WithText(r, t, "quoted") = [r EXCEPT !.text = t]
  BY DEF WithText, Readers
<1>4. CASE r.mode = "escape"
  BY <1>4 DEF Read, WithText
<1>5. CASE r.mode = "quoted" /\ c = Backslash
  BY <1>1, <1>2, <1>5 DEF Read
<1>6. CASE r.mode = "quoted" /\ c = Quote
  BY <1>1, <1>2, <1>6 DEF Read
<1>7. CASE r.mode = "quoted" /\ c \notin {Backslash, Quote}
  BY <1>3, <1>7 DEF Read
<1>8. CASE r.mode = "start" /\ c = Quote
  BY <1>2, <1>8 DEF Read
<1>9. CASE r.mode \in {"start", "plain", "closed"} /\ c \in seps
  <2>1. c # Quote
    BY <1>9
  <2> QED
    BY <1>9, <2>1 DEF Read, Separated
<1>10. CASE r.mode \in {"start", "plain"} /\ c \notin seps \cup {Quote}
  BY <1>10 DEF Read, WithText
<1> QED
  BY <1>4, <1>5, <1>6, <1>7, <1>8, <1>9, <1>10

(* An escape, or a character that needs none, is read as what it was.      *)
LEMMA WrittenRead ==
  ASSUME NEW r \in Readers, r.mode = "quoted", NEW c \in Chars,
         NEW seps, Quote \notin seps,
         NEW chars \in SUBSET Special, {Quote, Backslash} \subseteq chars
  PROVE  ReadAll(r, Written(chars)[c], seps)
           = WithText(r, Append(r.text, c), "quoted")
<1>1. CASE c \in chars
  <2> DEFINE q == WithText(r, r.text, "escape")
             one == <<Backslash>>
             last == Letter(c)
  <2>1. Backslash \in Chars /\ last \in Chars /\ Meant(last) = c
    BY <1>1, LetterIsMeant DEF Chars, Special
  <2>2. r.text \in Seq(Chars) /\ "escape" \in Modes
    BY DEF Readers, Modes
  <2>3. q \in Readers /\ q.mode = "escape" /\ q.text = r.text
    BY <2>2, WithTextIs
  <2>4. ReadAll(r, one, seps) = q
    <3>1. Read(r, Backslash, seps) = q
      BY ReadIs
    <3> QED
      BY <2>1, <3>1, ReadAllOne
  <2>5. Read(q, last, seps) = WithText(q, Append(r.text, c), "quoted")
    <3> HIDE DEF q, last
    <3> QED
      BY <2>1, <2>3, ReadIs
  <2>6. WithText(q, Append(r.text, c), "quoted")
          = WithText(r, Append(r.text, c), "quoted")
    BY WithTextTwice
  <2>7. Written(chars)[c] = Append(one, last)
    BY <1>1, PairIsAppend DEF Written, Escape
  <2>8. one \in Seq(Chars)
    BY <2>1
  <2> HIDE DEF one, last, q
  <2>9. ReadAll(r, Append(one, last), seps) = Read(q, last, seps)
    BY <2>1, <2>4, <2>8, ReadAllAppend
  <2> QED
    BY <2>5, <2>6, <2>7, <2>9
<1>2. CASE c \notin chars
  <2>1. Written(chars)[c] = <<c>>
    BY <1>2 DEF Written
  <2>2. c \notin {Backslash, Quote}
    BY <1>2
  <2>3. Read(r, c, seps) = WithText(r, Append(r.text, c), "quoted")
    BY <2>2, ReadIs
  <2>4. ReadAll(r, <<c>>, seps) = Read(r, c, seps)
    BY ReadAllOne
  <2> QED
    BY <2>1, <2>3, <2>4
<1> QED
  BY <1>1, <1>2

LEMMA EscapedNone == \A chars : Escaped(<<>>, chars) = <<>>
<1> SUFFICES ASSUME NEW chars PROVE Escaped(<<>>, chars) = <<>>
  OBVIOUS
<1> DEFINE none == <<>>
<1>1. none \in Seq(Chars) /\ Flat(none, Written(chars)) = none
  BY FlatNone
<1>2. Escaped(none, chars) = none
  <2> HIDE DEF none
  <2> QED
    BY <1>1, EscapedIs
<1> QED
  BY <1>2

LEMMA EscapedRead ==
  ASSUME NEW r \in Readers, r.mode = "quoted", r.text = <<>>,
         NEW seps, Quote \notin seps,
         NEW chars \in SUBSET Special, {Quote, Backslash} \subseteq chars,
         NEW text \in Seq(Chars)
  PROVE  ReadAll(r, Escaped(text, chars), seps) = WithText(r, text, "quoted")
<1> DEFINE T == {t \in Seq(Chars) :
                   ReadAll(r, Escaped(t, chars), seps) = WithText(r, t, "quoted")}
<1>1. <<>> \in T
  <2>1. <<>> \in Seq(Chars)
    OBVIOUS
  <2>2. ReadAll(r, Escaped(<<>>, chars), seps) = r
    BY EscapedNone, ReadAllNone
  <2>3. WithText(r, <<>>, "quoted") = r
    BY WithTextSame
  <2> QED
    BY <2>1, <2>2, <2>3
<1>2. ASSUME NEW t \in Seq(Chars), NEW c \in Chars, t \in T
      PROVE  Append(t, c) \in T
  <2> DEFINE q == WithText(r, t, "quoted")
             e == Escaped(t, chars)
             w == Written(chars)[c]
  <2>1. e \in Seq(Chars) /\ Escaped(Append(t, c), chars) = e \o w
    BY EscapedType, EscapedAppend
  <2>2. w \in Seq(Chars)
    BY WrittenType DEF Makers
  <2>3. ReadAll(r, e, seps) = q /\ Append(t, c) \in Seq(Chars)
    BY <1>2
  <2>4. q \in Readers /\ q.mode = "quoted" /\ q.text = t
    <3>1. "quoted" \in Modes
      BY DEF Modes
    <3> QED
      BY <3>1, WithTextIs
  <2>5. ReadAll(q, w, seps) = WithText(q, Append(t, c), "quoted")
    <3> HIDE DEF q
    <3> QED
      BY <2>4, WrittenRead
  <2>6. WithText(q, Append(t, c), "quoted") = WithText(r, Append(t, c), "quoted")
    BY WithTextTwice
  <2> HIDE DEF q, e, w
  <2>7. ReadAll(r, e \o w, seps) = ReadAll(q, w, seps)
    BY <2>1, <2>2, <2>3, ReadAllConcat
  <2> QED
    BY <2>1, <2>3, <2>5, <2>6, <2>7
<1>3. Seq(Chars) \subseteq T
  <2> HIDE DEF T
  <2> QED
    BY <1>1, <1>2, SeqInduction
<1> QED
  BY <1>3
-----------------------------------------------------------------------------
(* A reader that is between texts, and one that is not in quotes.          *)
Between(r) == r \in Readers /\ r.mode = "start" /\ r.text = <<>>

Outside(r) == r \in Readers /\ r.mode \in {"start", "plain", "closed"}

(* Every reader that comes to a line between texts reads text in it.       *)
Shows(chunk, text, seps) ==
  /\ chunk \in Seq(Chars) /\ text \in Seq(Chars)
  /\ \A r : Between(r) =>
       \E m \in {"start", "plain", "closed"} :
         ReadAll(r, chunk, seps) = WithText(r, text, m)

LEMMA QuotedShows ==
  ASSUME NEW chars \in SUBSET Special, {Quote, Backslash} \subseteq chars,
         NEW text \in Seq(Chars), NEW seps, Quote \notin seps
  PROVE  Shows(<<Quote>> \o Escaped(text, chars) \o <<Quote>>, text, seps)
<1> DEFINE e == Escaped(text, chars)
           mark == <<Quote>>
<1>1. /\ mark \in Seq(Chars) /\ Quote \in Chars /\ e \in Seq(Chars)
      /\ mark \o e \in Seq(Chars) /\ mark \o e \o mark \in Seq(Chars)
  <2>1. Quote \in Chars
    BY DEF Chars, Special
  <2>2. mark \in Seq(Chars) /\ e \in Seq(Chars)
    BY <2>1, EscapedType
  <2> HIDE DEF e, mark
  <2> QED
    BY <2>1, <2>2, ConcatProperties
<1>2. ASSUME NEW r, Between(r)
      PROVE  ReadAll(r, mark \o e \o mark, seps) = WithText(r, text, "closed")
  <2> DEFINE q == WithText(r, <<>>, "quoted")
             p == WithText(q, text, "quoted")
  <2>1. r \in Readers /\ r.mode = "start" /\ r.text = <<>>
    BY <1>2 DEF Between
  <2>2. {"quoted", "closed"} \subseteq Modes /\ <<>> \in Seq(Chars)
    BY DEF Modes
  <2>3. q \in Readers /\ q.mode = "quoted" /\ q.text = <<>>
    <3> DEFINE none == <<>>
    <3>1. none \in Seq(Chars) /\ "quoted" \in Modes
      BY <2>2
    <3>2. /\ WithText(r, none, "quoted") \in Readers
          /\ WithText(r, none, "quoted").mode = "quoted"
          /\ WithText(r, none, "quoted").text = none
      <4> HIDE DEF none
      <4> QED
        BY <2>1, <3>1, WithTextIs
    <3> QED
      BY <3>2
  <2>4. p \in Readers /\ p.mode = "quoted" /\ p.text = text
    <3> HIDE DEF q
    <3> QED
      BY <2>2, <2>3, WithTextIs
  <2>5. ReadAll(r, mark, seps) = q
    <3>1. Read(r, Quote, seps) = q
      BY <2>1, ReadIs
    <3> QED
      BY <1>1, <2>1, <3>1, ReadAllOne
  <2>6. ReadAll(q, e, seps) = p
    <3> HIDE DEF q
    <3> QED
      BY <2>3, EscapedRead
  <2>7. ReadAll(r, mark \o e, seps) = p
    <3> HIDE DEF p, q, e, mark
    <3> QED
      BY <1>1, <2>1, <2>5, <2>6, ReadAllConcat
  <2>8. ReadAll(p, mark, seps) = WithText(p, text, "closed")
    <3> HIDE DEF p
    <3>1. Read(p, Quote, seps) = WithText(p, text, "closed")
      BY <2>4, ReadIs
    <3> QED
      BY <1>1, <2>4, <3>1, ReadAllOne
  <2>9. ReadAll(r, mark \o e \o mark, seps) = ReadAll(p, mark, seps)
    <3> DEFINE start == mark \o e
    <3>1. start \in Seq(Chars) /\ ReadAll(r, start, seps) = p
      BY <1>1, <2>7
    <3>2. ReadAll(r, start \o mark, seps) = ReadAll(p, mark, seps)
      <4> HIDE DEF p, start, mark
      <4> QED
        BY <1>1, <2>1, <3>1, ReadAllConcat
    <3> QED
      BY <3>2
  <2>10. WithText(p, text, "closed") = WithText(r, text, "closed")
    <3>1. WithText(q, text, "closed") = WithText(r, text, "closed")
      BY <2>1, WithTextTwice
    <3> HIDE DEF q
    <3>2. WithText(p, text, "closed") = WithText(q, text, "closed")
      BY <2>3, WithTextTwice
    <3> QED
      BY <3>1, <3>2
  <2> QED
    BY <2>8, <2>9, <2>10
<1> QED
  BY <1>1, <1>2 DEF Shows

(* A text in which nothing has to be quoted.                               *)
LEMMA PlainShows ==
  ASSUME NEW seps, Quote \notin seps,
         NEW text \in Seq(Chars \ (seps \cup {Quote}))
  PROVE  Shows(text, text, seps)
<1> DEFINE P == Chars \ (seps \cup {Quote})
           mode(t) == IF t = <<>> THEN "start" ELSE "plain"
           Good(r, t) == ReadAll(r, t, seps) = WithText(r, t, mode(t))
<1>1. \A t \in Seq(P) : t \in Seq(Chars)
  OBVIOUS
<1>2. ASSUME NEW r, Between(r) PROVE \A t \in Seq(P) : Good(r, t)
  <2> DEFINE T == {t \in Seq(P) : Good(r, t)}
  <2>1. r \in Readers /\ r.mode = "start" /\ r.text = <<>>
    BY <1>2 DEF Between
  <2>2. <<>> \in T
    <3>1. ReadAll(r, <<>>, seps) = r
      BY <2>1, ReadAllNone
    <3>2. WithText(r, <<>>, "start") = r
      BY <2>1, WithTextSame
    <3>3. <<>> \in Seq(P)
      OBVIOUS
    <3> QED
      BY <3>1, <3>2, <3>3
  <2>3. ASSUME NEW t \in Seq(P), NEW c \in P, t \in T
        PROVE  Append(t, c) \in T
    <3> DEFINE q == WithText(r, t, mode(t))
    <3>1. /\ t \in Seq(Chars) /\ c \in Chars /\ c \notin seps \cup {Quote}
          /\ Append(t, c) \in Seq(P)
      BY <1>1
    <3>2. Append(t, c) # <<>>
      <4> HIDE DEF P
      <4> QED
        BY AppendProperties
    <3>3. mode(t) \in {"start", "plain"} /\ mode(t) \in Modes
      BY DEF Modes
    <3>4. ReadAll(r, t, seps) = q
      BY <2>3
    <3>5. q \in Readers /\ q.mode = mode(t) /\ q.text = t
      <4> HIDE DEF mode
      <4> QED
        BY <2>1, <3>1, <3>3, WithTextIs
    <3>6. Read(q, c, seps) = WithText(q, Append(t, c), "plain")
      <4> HIDE DEF q, mode
      <4> QED
        BY <3>1, <3>3, <3>5, ReadIs
    <3>7. WithText(q, Append(t, c), "plain") = WithText(r, Append(t, c), "plain")
      <4> HIDE DEF mode
      <4> QED
        BY <2>1, WithTextTwice
    <3>8. ReadAll(r, Append(t, c), seps) = Read(q, c, seps)
      <4> HIDE DEF q, P
      <4> QED
        BY <2>1, <3>1, <3>4, ReadAllAppend
    <3>9. mode(Append(t, c)) = "plain"
      BY <3>2
    <3> HIDE DEF q, mode
    <3> QED
      BY <3>1, <3>6, <3>7, <3>8, <3>9
  <2>4. Seq(P) \subseteq T
    <3> HIDE DEF T, P
    <3> QED
      BY <2>2, <2>3, SeqInduction
  <2> QED
    BY <2>4
<1>3. \A r : Between(r) => \E m \in {"start", "plain", "closed"} :
                ReadAll(r, text, seps) = WithText(r, text, m)
  <2>1. mode(text) \in {"start", "plain", "closed"}
    OBVIOUS
  <2> HIDE DEF mode
  <2> QED
    BY <1>2, <2>1
<1> QED
  BY <1>1, <1>3 DEF Shows

(* All that a reader has read when a line ends here.                       *)
Done(r) == Append(r.read, [sep |-> r.sep, text |-> r.text])

ReadParts == [sep : Chars \cup {"start"}, text : Seq(Chars)]

LEMMA DoneType == \A r \in Readers : Done(r) \in Seq(ReadParts)
<1> SUFFICES ASSUME NEW r \in Readers PROVE Done(r) \in Seq(ReadParts)
  OBVIOUS
<1>1. r.read \in Seq(ReadParts) /\ [sep |-> r.sep, text |-> r.text] \in ReadParts
  BY DEF Readers, ReadParts
<1> QED
  BY <1>1 DEF Done

(* A separator and a text are read after what was read before.             *)
LEMMA TextRead ==
  ASSUME NEW r, Outside(r), NEW seps, Quote \notin seps,
         NEW c \in Chars, c \in seps,
         NEW chunk, NEW text, Shows(chunk, text, seps)
  PROVE  /\ Outside(ReadAll(r, <<c>> \o chunk, seps))
         /\ Done(ReadAll(r, <<c>> \o chunk, seps))
              = Append(Done(r), [sep |-> c, text |-> text])
<1> DEFINE q == Separated(r, c)
           mark == <<c>>
<1>1. /\ r \in Readers /\ r.mode \in {"start", "plain", "closed"}
      /\ chunk \in Seq(Chars) /\ text \in Seq(Chars)
  BY DEF Outside, Shows
<1>2. mark \in Seq(Chars) /\ ReadAll(r, mark, seps) = q
  <2>1. Read(r, c, seps) = q
    BY <1>1, ReadIs
  <2> QED
    BY <1>1, <2>1, ReadAllOne
<1>3. Between(q) /\ q.read = Done(r) /\ q.sep = c
  <2>1. q \in Readers
    <3> HIDE DEF q, mark
    <3> QED
      BY <1>1, <1>2, ReadAllType
  <2> QED
    BY <2>1 DEF Between, Separated, Done
<1>4. PICK m \in {"start", "plain", "closed"} :
        ReadAll(q, chunk, seps) = WithText(q, text, m)
  <2> HIDE DEF q
  <2> QED
    BY <1>3 DEF Shows
<1> DEFINE p == WithText(q, text, m)
<1>5. /\ p \in Readers /\ p.mode = m /\ p.text = text
      /\ p.read = Done(r) /\ p.sep = c
  <2>1. q \in Readers /\ m \in Modes
    BY <1>3 DEF Between, Modes
  <2> HIDE DEF q
  <2> QED
    BY <1>1, <1>3, <2>1, WithTextIs
<1>6. ReadAll(r, mark \o chunk, seps) = p
  <2> HIDE DEF q, mark
  <2> QED
    BY <1>1, <1>2, <1>4, ReadAllConcat
<1> HIDE DEF p, q
<1>7. Outside(p) /\ Done(p) = Append(Done(r), [sep |-> c, text |-> text])
  BY <1>5 DEF Outside, Done
<1> QED
  BY <1>6, <1>7

(* Two texts that are written, and read, one after the other.              *)
PairLine(begin, a, divide, b) == <<begin>> \o a \o <<divide>> \o b

Pair(begin, key, divide, value) ==
  <<[sep |-> begin, text |-> key], [sep |-> divide, text |-> value]>>

LEMMA PairRead ==
  ASSUME NEW r, Outside(r), NEW seps, Quote \notin seps,
         NEW begin \in Chars, NEW divide \in Chars, begin \in seps, divide \in seps,
         NEW a, NEW key, Shows(a, key, seps),
         NEW b, NEW value, Shows(b, value, seps)
  PROVE  /\ Outside(ReadAll(r, PairLine(begin, a, divide, b), seps))
         /\ Done(ReadAll(r, PairLine(begin, a, divide, b), seps))
              = Done(r) \o Pair(begin, key, divide, value)
<1> DEFINE x == <<begin>>
           y == <<divide>>
           first == x \o a
           second == y \o b
           p == ReadAll(r, first, seps)
           q == ReadAll(p, second, seps)
           k == [sep |-> begin, text |-> key]
           v == [sep |-> divide, text |-> value]
<1>1. /\ x \in Seq(Chars) /\ y \in Seq(Chars)
      /\ a \in Seq(Chars) /\ b \in Seq(Chars)
  BY DEF Shows
<1>2. /\ first \in Seq(Chars) /\ second \in Seq(Chars)
      /\ x \o a \o y \o b = first \o second
  <2>1. first \in Seq(Chars) /\ second \in Seq(Chars)
    <3> HIDE DEF x, y
    <3> QED
      BY <1>1, ConcatProperties
  <2>2. (first \o y) \o b = first \o (y \o b)
    <3> HIDE DEF x, y, first
    <3> QED
      BY <1>1, <2>1, ConcatAssociative
  <2> QED
    BY <2>1, <2>2
<1>3. Outside(p) /\ Done(p) = Append(Done(r), k)
  BY TextRead
<1>4. Outside(q) /\ Done(q) = Append(Done(p), v)
  <2>1. Outside(p)
    BY <1>3
  <2> HIDE DEF p
  <2> QED
    BY <2>1, TextRead
<1>5. ReadAll(r, first \o second, seps) = q
  <2>1. r \in Readers
    BY DEF Outside
  <2> HIDE DEF first, second
  <2> QED
    BY <1>2, <2>1, ReadAllConcat
<1>6. Done(r) \in Seq(ReadParts) /\ k \in ReadParts /\ v \in ReadParts
  <2>1. Done(r) \in Seq(ReadParts)
    BY DoneType DEF Outside
  <2>2. key \in Seq(Chars) /\ value \in Seq(Chars)
    BY DEF Shows
  <2>3. k \in ReadParts /\ v \in ReadParts
    BY <2>2 DEF ReadParts
  <2> QED
    BY <2>1, <2>3
<1>7. Append(Append(Done(r), k), v) = Done(r) \o <<k, v>>
  <2> DEFINE D == Done(r)
             one == <<k>>
             two == <<v>>
  <2>1. one \in Seq(ReadParts) /\ two \in Seq(ReadParts)
    BY <1>6
  <2> HIDE DEF D, k, v
  <2>2. Append(D, k) = D \o one /\ D \o one \in Seq(ReadParts)
    BY <1>6, AppendIsConcat, AppendProperties DEF D
  <2>3. Append(D \o one, v) = (D \o one) \o two
    BY <1>6, <2>2, AppendIsConcat
  <2>4. one \o two = <<k, v>>
    <3>1. Append(one, v) = one \o two
      <4> HIDE DEF one
      <4> QED
        BY <1>6, <2>1, AppendIsConcat
    <3> QED
      BY <3>1, PairIsAppend
  <2>5. (D \o one) \o two = D \o (one \o two)
    <3> HIDE DEF one, two
    <3> QED
      BY <1>6, <2>1, ConcatAssociative DEF D
  <2> HIDE DEF one, two
  <2> QED
    BY <2>2, <2>3, <2>4, <2>5 DEF D
<1> HIDE DEF p, q, x, y, first, second, k, v
<1>8. Done(q) = Done(r) \o <<k, v>>
  BY <1>3, <1>4, <1>7
<1>9. <<k, v>> = Pair(begin, key, divide, value)
  BY DEF k, v, Pair
<1>10. ReadAll(r, x \o a \o y \o b, seps) = q
  BY <1>2, <1>5
<1>11. Outside(q) /\ Done(q) = Done(r) \o Pair(begin, key, divide, value)
  BY <1>4, <1>8, <1>9
<1> QED
  BY <1>10, <1>11 DEF x, y, PairLine

(* Of what is logged, chunk is written and parts are read.                 *)
Tells(E, chunk, parts, seps) ==
  /\ chunk \in Makers(E, Seq(Chars))
  /\ parts \in Makers(E, Seq(ReadParts))
  /\ \A e \in E : \A r : Outside(r) =>
       /\ Outside(ReadAll(r, chunk[e], seps))
       /\ Done(ReadAll(r, chunk[e], seps)) = Done(r) \o parts[e]

LEMMA NewReaderIs ==
  Outside(NewReader) /\ Done(NewReader) = <<[sep |-> "start", text |-> <<>>]>>
BY DEF Outside, Readers, Modes, NewReader, Done

(* What is read of a list, with the nothing that is before it.             *)
Told(list, parts) ==
  <<[sep |-> "start", text |-> <<>>]>> \o Flat(list, parts)

(* However many are logged, and whatever they are.                         *)
LEMMA ListRead ==
  ASSUME NEW E, NEW chunk, NEW parts, NEW seps, Tells(E, chunk, parts, seps),
         NEW list \in Seq(E)
  PROVE  TextsIn(Flat(list, chunk), seps) = Told(list, parts)
<1> DEFINE after(s) == ReadAll(NewReader, Flat(s, chunk), seps)
           none == Done(NewReader)
           Good(s) == Outside(after(s)) /\ Done(after(s)) = none \o Flat(s, parts)
           T == {s \in Seq(E) : Good(s)}
<1>1. NewReader \in Readers /\ none \in Seq(ReadParts)
  BY NewReaderIs, DoneType DEF Outside
<1>2. <<>> \in T
  <2>1. <<>> \in Seq(E) /\ Flat(<<>>, chunk) = <<>> /\ Flat(<<>>, parts) = <<>>
    BY FlatNone
  <2>2. after(<<>>) = NewReader
    BY <1>1, <2>1, ReadAllNone
  <2>3. none \o <<>> = none
    <3> HIDE DEF none
    <3> QED
      BY <1>1
  <2> QED
    BY <2>1, <2>2, <2>3, NewReaderIs
<1>3. ASSUME NEW s \in Seq(E), NEW e \in E, s \in T
      PROVE  Append(s, e) \in T
  <2> DEFINE q == after(s)
             p == ReadAll(q, chunk[e], seps)
  <2>1. Outside(q) /\ Done(q) = none \o Flat(s, parts)
    BY <1>3
  <2>2. Outside(p) /\ Done(p) = Done(q) \o parts[e]
    <3> HIDE DEF q
    <3> QED
      BY <2>1 DEF Tells
  <2>3. /\ Flat(Append(s, e), chunk) = Flat(s, chunk) \o chunk[e]
        /\ Flat(Append(s, e), parts) = Flat(s, parts) \o parts[e]
        /\ Flat(s, chunk) \in Seq(Chars) /\ Flat(s, parts) \in Seq(ReadParts)
    <3>1. chunk \in Makers(E, Seq(Chars)) /\ parts \in Makers(E, Seq(ReadParts))
      BY DEF Tells
    <3> QED
      BY <3>1, FlatAppend, FlatType
  <2>4. chunk[e] \in Seq(Chars) /\ parts[e] \in Seq(ReadParts)
    BY DEF Tells, Makers
  <2>5. after(Append(s, e)) = p
    <3>1. ReadAll(NewReader, Flat(s, chunk) \o chunk[e], seps) = p
      <4> DEFINE l == Flat(s, chunk)
                 m == chunk[e]
      <4>1. l \in Seq(Chars) /\ m \in Seq(Chars)
        BY <2>3, <2>4
      <4>2. ReadAll(NewReader, l \o m, seps)
              = ReadAll(ReadAll(NewReader, l, seps), m, seps)
        <5> HIDE DEF l, m
        <5> QED
          BY <1>1, <4>1, ReadAllConcat
      <4> QED
        BY <4>2
    <3> HIDE DEF p
    <3> QED
      BY <2>3, <3>1
  <2>6. Done(p) = none \o Flat(Append(s, e), parts)
    <3>1. (none \o Flat(s, parts)) \o parts[e] = none \o (Flat(s, parts) \o parts[e])
      <4> DEFINE l == Flat(s, parts)
                 m == parts[e]
      <4>1. none \in Seq(ReadParts) /\ l \in Seq(ReadParts) /\ m \in Seq(ReadParts)
        BY <1>1, <2>3, <2>4
      <4> HIDE DEF none, l, m
      <4>2. (none \o l) \o m = none \o (l \o m)
        BY <4>1, ConcatAssociative, SMTT(30)
      <4> QED
        BY <4>2 DEF l, m
    <3> HIDE DEF p, q, none
    <3> QED
      BY <2>1, <2>2, <2>3, <3>1
  <2>7. Append(s, e) \in Seq(E)
    OBVIOUS
  <2> HIDE DEF p, after, none
  <2> QED
    BY <2>2, <2>5, <2>6, <2>7
<1>4. Seq(E) \subseteq T
  <2> HIDE DEF T
  <2> QED
    BY <1>2, <1>3, SeqInduction
<1>5. Done(after(list)) = none \o Flat(list, parts)
  <2> HIDE DEF after, none
  <2> QED
    BY <1>4
<1>6. TextsIn(Flat(list, chunk), seps) = Done(after(list))
  BY DEF TextsIn, Done, ReadAll
<1> HIDE DEF after
<1> QED
  BY <1>5, <1>6, NewReaderIs DEF Told
-----------------------------------------------------------------------------
(* What is not quoted, and what may be in a pretty line.                   *)
Unquoted == Chars \ ({Space, Equal, Quote, Tab, WideSpace} \cup Unsafe)

Safe == Chars \ Unsafe

(* No escape brings back what must stay out of a line.                     *)
LEMMA EscapedKeepsOut ==
  ASSUME NEW chars \in SUBSET Special, NEW B \in SUBSET Unsafe,
         NEW C \in SUBSET Chars, C \cap B \subseteq chars,
         NEW text \in Seq(C)
  PROVE  Escaped(text, chars) \in Seq(Chars \ B)
<1> DEFINE R == Chars \ B
           w == [c \in C |-> Written(chars)[c]]
<1>1. text \in Seq(Chars) /\ \A i \in DOMAIN text : text[i] \in C
  OBVIOUS
<1>2. Each(text, w) = Each(text, Written(chars))
  <2> HIDE DEF w
  <2>1. \A c \in C : w[c] = Written(chars)[c]
    BY DEF w
  <2> QED
    BY <1>1, <2>1 DEF Each
<1>3. \A c \in C : w[c] \in Seq(R)
  <2> SUFFICES ASSUME NEW c \in C PROVE Written(chars)[c] \in Seq(R)
    OBVIOUS
  <2>1. CASE c \in chars
    <3>1. Backslash \in R /\ Letter(c) \in R
      BY <2>1, LettersDiffer DEF Chars, Special
    <3>2. Written(chars)[c] = <<Backslash, Letter(c)>>
      BY <2>1 DEF Written, Escape
    <3> HIDE DEF R
    <3> QED
      BY <3>1, <3>2
  <2>2. CASE c \notin chars
    <3>1. c \in R /\ Written(chars)[c] = <<c>>
      BY <2>2 DEF Written
    <3> HIDE DEF R
    <3> QED
      BY <3>1
  <2> QED
    BY <2>1, <2>2
<1>4. w \in Makers(C, Seq(R))
  <2> HIDE DEF R
  <2> QED
    BY <1>3 DEF Makers
<1>5. Flat(text, w) \in Seq(R)
  <2> HIDE DEF w, R
  <2> QED
    BY <1>4, FlatType
<1>6. Flat(text, w) = Escaped(text, chars)
  BY <1>1, <1>2, EscapedIs DEF Flat
<1> QED
  BY <1>5, <1>6

LEMMA JoinedType ==
  ASSUME NEW C, Dot \in C, NEW groups \in Seq(Seq(C)), NEW key \in Seq(C)
  PROVE  JoinedKey(groups, key) \in Seq(C)
<1> DEFINE all == Seq(C)
           dot == <<Dot>>
           part(i) == IF i = 1 THEN groups[i] ELSE dot \o groups[i]
           parts == [i \in DOMAIN groups |-> part(i)]
           last == IF groups = <<>> \/ key = <<>> THEN key ELSE dot \o key
<1>1. dot \in all /\ key \in all
  OBVIOUS
<1>2. /\ Len(groups) \in Nat /\ DOMAIN groups = 1..Len(groups)
      /\ \A i \in 1..Len(groups) : groups[i] \in all
  OBVIOUS
<1>3. \A i \in 1..Len(groups) : part(i) \in all
  <2> HIDE DEF dot
  <2> QED
    BY <1>1, <1>2, ConcatProperties
<1>4. parts \in Seq(all)
  <2> HIDE DEF part, all
  <2> QED
    BY <1>2, <1>3
<1>5. FlattenSeq(parts) \in Seq(C)
  <2> HIDE DEF parts
  <2> QED
    BY <1>4, FlattenType
<1>6. last \in Seq(C)
  <2> HIDE DEF dot
  <2> QED
    BY <1>1, ConcatProperties
<1>7. JoinedKey(groups, key) = FlattenSeq(parts) \o last
  BY DEF JoinedKey
<1> HIDE DEF parts, last
<1> QED
  BY <1>5, <1>6, <1>7, ConcatProperties

LEMMA NoneNeedsQuoting ==
  ASSUME NEW value \in Seq(Chars), ~NeedsQuoting(value)
  PROVE  value \in Seq(Unquoted)
<1>1. /\ DOMAIN value = 1..Len(value) /\ Len(value) \in Nat
      /\ \A i \in 1..Len(value) : value[i] \in Chars
      /\ value = [i \in 1..Len(value) |-> value[i]]
  OBVIOUS
<1>2. \A i \in 1..Len(value) : value[i] \in Unquoted
  BY <1>1 DEF NeedsQuoting, Unquoted
<1> QED
  BY <1>1, <1>2

(* Quote cannot be mistaken for a separator.                               *)
LEMMA SeparatorsAre ==
  /\ Quote \notin {Space, Equal} /\ Quote \notin {Comma, Colon}
  /\ {Space, Equal, Comma, Colon, Quote, Dot} \subseteq Safe
  /\ Dot \in Unquoted /\ Unquoted \subseteq Safe /\ Safe \subseteq Chars
  /\ Unquoted \subseteq Chars \ ({Space, Equal} \cup {Quote})
BY DEF Safe, Unquoted, Chars, Special, Unsafe, Space, Equal, Comma, Colon, Quote,
       Dot, Backslash, Tab, Newline, Control, Delete, Broken, Hidden, LineEnd,
       WideSpace

LEMMA SpecialIsQuoted ==
  Special \in SUBSET Special /\ {Quote, Backslash} \subseteq Special
BY DEF Special

(* A value, or a key with its groups, is read as what it is, and is safe.  *)
LEMMA QuotedIs ==
  ASSUME NEW text \in Seq(Chars)
  PROVE  /\ Shows(Quoted(text), text, {Space, Equal})
         /\ Quoted(text) \in Seq(Safe)
<1> DEFINE e == Escaped(text, Special)
           mark == <<Quote>>
<1>1. Shows(Quoted(text), text, {Space, Equal})
  BY QuotedShows, SpecialIsQuoted, SeparatorsAre DEF Quoted
<1>2. e \in Seq(Safe)
  <2>1. Unsafe \in SUBSET Unsafe /\ Chars \in SUBSET Chars
        /\ Chars \cap Unsafe \subseteq Special
    BY DEF Special
  <2> QED
    BY <2>1, SpecialIsQuoted, EscapedKeepsOut DEF Safe
<1>3. mark \in Seq(Safe)
  BY SeparatorsAre
<1>4. mark \o e \o mark \in Seq(Safe)
  <2> HIDE DEF mark, e
  <2> QED
    BY <1>2, <1>3, ConcatProperties
<1> QED
  BY <1>1, <1>4 DEF Quoted

LEMMA PlainIs ==
  ASSUME NEW text \in Seq(Unquoted)
  PROVE  Shows(text, text, {Space, Equal}) /\ text \in Seq(Safe)
<1>1. /\ text \in Seq(Chars \ ({Space, Equal} \cup {Quote}))
      /\ text \in Seq(Safe)
  BY SeparatorsAre, SeqMonotonic
<1> QED
  BY <1>1, SeparatorsAre, PlainShows

LEMMA StringIs ==
  ASSUME NEW value \in Seq(Chars)
  PROVE  /\ Shows(AppendString(value), value, {Space, Equal})
         /\ AppendString(value) \in Seq(Safe)
BY QuotedIs, PlainIs, NoneNeedsQuoting DEF AppendString

LEMMA KeyIs ==
  ASSUME NEW groups \in Seq(Seq(Chars)), NEW key \in Seq(Chars)
  PROVE  /\ Shows(AppendKey(groups, key), JoinedKey(groups, key), {Space, Equal})
         /\ AppendKey(groups, key) \in Seq(Safe)
         /\ JoinedKey(groups, key) \in Seq(Chars)
<1>1. JoinedKey(groups, key) \in Seq(Chars)
  <2>1. Dot \in Chars
    BY DEF Chars
  <2> QED
    BY <2>1, JoinedType
<1>2. CASE NeedsQuoting(key) \/ \E i \in DOMAIN groups : NeedsQuoting(groups[i])
  BY <1>1, <1>2, QuotedIs DEF AppendKey
<1>3. CASE ~(NeedsQuoting(key) \/ \E i \in DOMAIN groups : NeedsQuoting(groups[i]))
  <2> DEFINE all == Seq(Unquoted)
  <2>1. key \in all
    BY <1>3, NoneNeedsQuoting
  <2>2. /\ Len(groups) \in Nat /\ DOMAIN groups = 1..Len(groups)
        /\ \A i \in 1..Len(groups) : groups[i] \in Seq(Chars)
        /\ groups = [i \in 1..Len(groups) |-> groups[i]]
    OBVIOUS
  <2>3. \A i \in 1..Len(groups) : groups[i] \in all
    BY <1>3, <2>2, NoneNeedsQuoting
  <2>4. groups \in Seq(all)
    <3> DEFINE n == Len(groups)
               g == [i \in 1..n |-> groups[i]]
    <3>1. n \in Nat /\ \A i \in 1..n : groups[i] \in all
      BY <2>2, <2>3
    <3>2. g \in Seq(all)
      <4> HIDE DEF all, n
      <4> QED
        BY <3>1
    <3>3. groups = g
      BY <2>2
    <3> HIDE DEF g
    <3> QED
      BY <3>2, <3>3
  <2>5. JoinedKey(groups, key) \in all
    BY <2>1, <2>4, JoinedType, SeparatorsAre
  <2>6. AppendKey(groups, key) = JoinedKey(groups, key)
    BY <1>3 DEF AppendKey
  <2> QED
    BY <1>1, <2>5, <2>6, PlainIs
<1> QED
  BY <1>2, <1>3, <1>1
-----------------------------------------------------------------------------
(* Attributes as they are in lines, and as they are read.                  *)
PrettyLine == [e \in Items |-> AppendItem(e)]

PrettyParts ==
  [e \in Items |-> Pair(Space, JoinedKey(e.groups, e.key), Equal, e.value)]

JSONLine ==
  [e \in Items |->
    PairLine(Comma, AppendJSONString(e.key), Colon, AppendJSONString(e.value))]

JSONParts == [e \in Items |-> Pair(Comma, Valid(e.key), Colon, Valid(e.value))]

LEMMA ItemType ==
  ASSUME NEW e \in Items
  PROVE  /\ e.groups \in Seq(Seq(Chars)) /\ e.key \in Seq(Chars)
         /\ e.value \in Seq(Chars)
<1> DEFINE all == Seq(Chars)
<1>1. Texts \subseteq all
  <2>1. STRING \subseteq Chars
    BY DEF Chars
  <2> QED
    BY <2>1, SeqMonotonic DEF Texts
<1>2. e.groups \in Seq(Texts) /\ e.key \in Texts /\ e.value \in Texts
  BY DEF Items
<1>3. e.groups \in Seq(all)
  <2> HIDE DEF all
  <2> QED
    BY <1>1, <1>2, SeqMonotonic
<1> QED
  BY <1>1, <1>2, <1>3

(* A key and a value between separators that are safe.                     *)
LEMMA PairType ==
  ASSUME NEW S, NEW begin \in S, NEW divide \in S, NEW a \in Seq(S), NEW b \in Seq(S)
  PROVE  PairLine(begin, a, divide, b) \in Seq(S)
<1> DEFINE x == <<begin>>
           y == <<divide>>
<1>1. x \in Seq(S) /\ y \in Seq(S)
  OBVIOUS
<1> HIDE DEF x, y
<1>2. x \o a \o y \o b \in Seq(S)
  BY <1>1, ConcatProperties
<1> QED
  BY <1>2 DEF x, y, PairLine

LEMMA PairPartsType ==
  ASSUME NEW begin \in Chars, NEW divide \in Chars,
         NEW key \in Seq(Chars), NEW value \in Seq(Chars)
  PROVE  Pair(begin, key, divide, value) \in Seq(ReadParts)
<1>1. /\ [sep |-> begin, text |-> key] \in ReadParts
      /\ [sep |-> divide, text |-> value] \in ReadParts
  BY DEF ReadParts
<1> QED
  BY <1>1 DEF Pair

LEMMA PrettyTells ==
  /\ Tells(Items, PrettyLine, PrettyParts, {Space, Equal})
  /\ PrettyLine \in Makers(Items, Seq(Safe))
<1> DEFINE seps == {Space, Equal}
<1>1. /\ Quote \notin seps /\ Space \in seps /\ Equal \in seps
      /\ Space \in Chars /\ Equal \in Chars /\ Space \in Safe /\ Equal \in Safe
  BY SeparatorsAre
<1>2. ASSUME NEW e \in Items
      PROVE  /\ PrettyLine[e] \in Seq(Safe)
             /\ PrettyParts[e] \in Seq(ReadParts)
             /\ \A r : Outside(r) =>
                  /\ Outside(ReadAll(r, PrettyLine[e], seps))
                  /\ Done(ReadAll(r, PrettyLine[e], seps)) = Done(r) \o PrettyParts[e]
  <2> DEFINE key == JoinedKey(e.groups, e.key)
             a == AppendKey(e.groups, e.key)
             b == AppendString(e.value)
             chunk == PairLine(Space, a, Equal, b)
  <2>1. /\ Shows(a, key, seps) /\ a \in Seq(Safe) /\ key \in Seq(Chars)
    BY ItemType, KeyIs
  <2>2. Shows(b, e.value, seps) /\ b \in Seq(Safe) /\ e.value \in Seq(Chars)
    BY ItemType, StringIs
  <2>3. PrettyLine[e] = chunk
    BY DEF PrettyLine, AppendItem, PairLine
  <2>4. PrettyParts[e] = Pair(Space, key, Equal, e.value)
    BY DEF PrettyParts
  <2>5. chunk \in Seq(Safe)
    <3> HIDE DEF a, b
    <3> QED
      BY <1>1, <2>1, <2>2, PairType
  <2>6. Pair(Space, key, Equal, e.value) \in Seq(ReadParts)
    <3> HIDE DEF key
    <3> QED
      BY <1>1, <2>1, <2>2, PairPartsType
  <2>7. ASSUME NEW r, Outside(r)
        PROVE  /\ Outside(ReadAll(r, chunk, seps))
               /\ Done(ReadAll(r, chunk, seps))
                    = Done(r) \o Pair(Space, key, Equal, e.value)
    <3>1. Shows(a, key, seps) /\ Shows(b, e.value, seps)
      BY <2>1, <2>2
    <3> HIDE DEF a, b, key, seps
    <3> QED
      BY <1>1, <2>7, <3>1, PairRead, SMTT(120)
  <2> HIDE DEF chunk, key, seps
  <2> QED
    BY <2>3, <2>4, <2>5, <2>6, <2>7
<1>3. PrettyLine \in Makers(Items, Seq(Safe))
  BY <1>2 DEF Makers, PrettyLine
<1>4. PrettyLine \in Makers(Items, Seq(Chars))
  <2>1. Seq(Safe) \subseteq Seq(Chars)
    BY SeparatorsAre, SeqMonotonic
  <2> QED
    BY <1>3, <2>1 DEF Makers
<1>5. PrettyParts \in Makers(Items, Seq(ReadParts))
  BY <1>2 DEF Makers, PrettyParts
<1> HIDE DEF seps
<1>6. Tells(Items, PrettyLine, PrettyParts, seps)
  BY <1>2, <1>4, <1>5 DEF Tells
<1> QED
  BY <1>3, <1>6 DEF seps

(* What may be in a JSON line.                                             *)
Enders == {Newline, Control, LineEnd, Broken}

LEMMA JSONStringIs ==
  ASSUME NEW value \in Seq(Chars)
  PROVE  /\ Shows(AppendJSONString(value), Valid(value), {Comma, Colon})
         /\ AppendJSONString(value) \in Seq(Chars \ Enders)
         /\ Valid(value) \in Seq(Chars)
<1> DEFINE chars == {Quote, Backslash, Newline, Tab, Control, LineEnd}
           C == Chars \ {Broken}
           v == Valid(value)
           e == Escaped(v, chars)
           mark == <<Quote>>
<1>1. /\ chars \in SUBSET Special /\ {Quote, Backslash} \subseteq chars
      /\ Enders \in SUBSET Unsafe /\ C \in SUBSET Chars
      /\ C \cap Enders \subseteq chars
  BY DEF Special, Unsafe, Enders
<1>2. /\ DOMAIN value = 1..Len(value) /\ Len(value) \in Nat
      /\ \A i \in 1..Len(value) : value[i] \in Chars
  OBVIOUS
<1>3. Replacement \in C
  BY DEF Chars, Replacement, Broken
<1>4. v \in Seq(C)
  <2>1. v = [i \in 1..Len(value) |->
               IF value[i] = Broken THEN Replacement ELSE value[i]]
    BY <1>2 DEF Valid
  <2>2. \A i \in 1..Len(value) :
          (IF value[i] = Broken THEN Replacement ELSE value[i]) \in C
    BY <1>2, <1>3
  <2> HIDE DEF v, C
  <2> QED
    BY <1>2, <2>1, <2>2
<1>5. v \in Seq(Chars)
  <2> HIDE DEF v
  <2> QED
    BY <1>1, <1>4, SeqMonotonic
<1>6. Shows(mark \o e \o mark, v, {Comma, Colon})
  <2> HIDE DEF v, chars
  <2> QED
    BY <1>1, <1>5, QuotedShows, SeparatorsAre
<1>7. e \in Seq(Chars \ Enders)
  <2> HIDE DEF v, chars, C
  <2> QED
    BY <1>1, <1>4, EscapedKeepsOut
<1>8. mark \in Seq(Chars \ Enders)
  <2>1. Quote \in Chars \ Enders
    BY <1>1, SeparatorsAre DEF Safe
  <2> QED
    BY <2>1
<1>9. mark \o e \o mark \in Seq(Chars \ Enders)
  <2> HIDE DEF mark, e
  <2> QED
    BY <1>7, <1>8, ConcatProperties
<1> QED
  BY <1>5, <1>6, <1>9 DEF AppendJSONString

LEMMA JSONTells ==
  /\ Tells(Items, JSONLine, JSONParts, {Comma, Colon})
  /\ JSONLine \in Makers(Items, Seq(Chars \ Enders))
<1> DEFINE seps == {Comma, Colon}
           S == Chars \ Enders
<1>1. /\ Quote \notin seps /\ Comma \in seps /\ Colon \in seps
      /\ Comma \in Chars /\ Colon \in Chars
  BY SeparatorsAre
<1>2. Comma \in S /\ Colon \in S
  BY SeparatorsAre DEF Safe, Enders, Unsafe
<1>3. ASSUME NEW e \in Items
      PROVE  /\ JSONLine[e] \in Seq(S)
             /\ JSONParts[e] \in Seq(ReadParts)
             /\ \A r : Outside(r) =>
                  /\ Outside(ReadAll(r, JSONLine[e], seps))
                  /\ Done(ReadAll(r, JSONLine[e], seps)) = Done(r) \o JSONParts[e]
  <2> DEFINE key == Valid(e.key)
             value == Valid(e.value)
             a == AppendJSONString(e.key)
             b == AppendJSONString(e.value)
             chunk == PairLine(Comma, a, Colon, b)
  <2>1. /\ Shows(a, key, seps) /\ a \in Seq(S) /\ key \in Seq(Chars)
    BY ItemType, JSONStringIs
  <2>2. Shows(b, value, seps) /\ b \in Seq(S) /\ value \in Seq(Chars)
    BY ItemType, JSONStringIs
  <2>3. JSONLine[e] = chunk
    BY DEF JSONLine
  <2>4. JSONParts[e] = Pair(Comma, key, Colon, value)
    BY DEF JSONParts
  <2>5. chunk \in Seq(S)
    <3> HIDE DEF a, b, S
    <3> QED
      BY <1>2, <2>1, <2>2, PairType
  <2>6. Pair(Comma, key, Colon, value) \in Seq(ReadParts)
    <3> HIDE DEF key, value
    <3> QED
      BY <1>1, <2>1, <2>2, PairPartsType
  <2>7. ASSUME NEW r, Outside(r)
        PROVE  /\ Outside(ReadAll(r, chunk, seps))
               /\ Done(ReadAll(r, chunk, seps))
                    = Done(r) \o Pair(Comma, key, Colon, value)
    <3>1. Shows(a, key, seps) /\ Shows(b, value, seps)
      BY <2>1, <2>2
    <3> HIDE DEF a, b, key, value, seps
    <3> QED
      BY <1>1, <2>7, <3>1, PairRead, SMTT(120)
  <2> HIDE DEF chunk, key, value, seps, S
  <2> QED
    BY <2>3, <2>4, <2>5, <2>6, <2>7
<1>4. JSONLine \in Makers(Items, Seq(S))
  <2> HIDE DEF S
  <2> QED
    BY <1>3 DEF Makers, JSONLine
<1>5. JSONLine \in Makers(Items, Seq(Chars))
  <2>1. Seq(S) \subseteq Seq(Chars)
    BY SeqMonotonic
  <2> HIDE DEF S
  <2> QED
    BY <1>4, <2>1 DEF Makers
<1>6. JSONParts \in Makers(Items, Seq(ReadParts))
  BY <1>3 DEF Makers, JSONParts
<1> HIDE DEF seps
<1>7. Tells(Items, JSONLine, JSONParts, seps)
  BY <1>3, <1>5, <1>6 DEF Tells
<1> QED
  BY <1>4, <1>7 DEF seps
-----------------------------------------------------------------------------
TextType == message \in Texts /\ items \in Seq(Items)

LEMMA LinesAreFlat ==
  ASSUME items \in Seq(Items)
  PROVE  /\ TextItems(items) = Flat(items, PrettyLine)
         /\ JSONMembers(items) = Flat(items, JSONLine)
<1>1. \A i \in DOMAIN items : items[i] \in Items
  OBVIOUS
<1>2. [i \in DOMAIN items |-> AppendItem(items[i])] = Each(items, PrettyLine)
  BY <1>1 DEF Each, PrettyLine
<1>3. [i \in DOMAIN items |->
         <<Comma>> \o AppendJSONString(items[i].key)
           \o <<Colon>> \o AppendJSONString(items[i].value)] = Each(items, JSONLine)
  BY <1>1 DEF Each, JSONLine, PairLine
<1> QED
  BY <1>2, <1>3 DEF TextItems, JSONMembers, Flat

(* The parts of each item are in f.                                        *)
Lists(f, begin, divide, parts) ==
  /\ DOMAIN f = DOMAIN items
  /\ \A i \in DOMAIN items :
       parts[items[i]] = Pair(begin, f[i][1], divide, f[i][2])

LEMMA PartsAreTold ==
  ASSUME NEW f, NEW begin, NEW divide, NEW parts, Lists(f, begin, divide, parts)
  PROVE  TextsOf(f, begin, divide) = Told(items, parts)
<1>1. [i \in DOMAIN f |->
        <<[sep |-> begin, text |-> f[i][1]], [sep |-> divide, text |-> f[i][2]]>>]
          = Each(items, parts)
  BY DEF Lists, Each, Pair
<1> QED
  BY <1>1 DEF TextsOf, Told, Flat

LEMMA ItemsAreTold ==
  ASSUME items \in Seq(Items)
  PROVE  /\ TextsOf([i \in DOMAIN items |->
                       <<JoinedKey(items[i].groups, items[i].key), items[i].value>>],
                    Space, Equal) = Told(items, PrettyParts)
         /\ TextsOf([i \in DOMAIN items |->
                       <<Valid(items[i].key), Valid(items[i].value)>>],
                    Comma, Colon) = Told(items, JSONParts)
<1> DEFINE f == [i \in DOMAIN items |->
                  <<JoinedKey(items[i].groups, items[i].key), items[i].value>>]
           g == [i \in DOMAIN items |->
                  <<Valid(items[i].key), Valid(items[i].value)>>]
<1>1. \A i \in DOMAIN items : items[i] \in Items
  OBVIOUS
<1>2. Lists(f, Space, Equal, PrettyParts)
  BY <1>1 DEF Lists, PrettyParts
<1>3. Lists(g, Comma, Colon, JSONParts)
  BY <1>1 DEF Lists, JSONParts
<1> HIDE DEF f, g
<1>4. /\ TextsOf(f, Space, Equal) = Told(items, PrettyParts)
      /\ TextsOf(g, Comma, Colon) = Told(items, JSONParts)
  BY <1>2, <1>3, PartsAreTold
<1> QED
  BY <1>4 DEF f, g

LEMMA RangeKeepsOut ==
  ASSUME NEW B, NEW chunk \in Seq(Chars \ B)
  PROVE  Range(chunk) \cap B = {}
<1>1. \A i \in DOMAIN chunk : chunk[i] \in Chars \ B
  OBVIOUS
<1> QED
  BY <1>1 DEF Range

LEMMA TextTypeCanBeRead == TextType => TextsCanBeRead
<1> SUFFICES ASSUME TextType PROVE TextsCanBeRead
  OBVIOUS
<1>1. items \in Seq(Items) /\ message \in Seq(Chars)
  <2>1. STRING \subseteq Chars
    BY DEF Chars
  <2> QED
    BY <2>1, SeqMonotonic DEF TextType, Texts
<1>2. NothingForged
  <2>1. AppendText(message) \in Seq(Safe)
    <3>1. /\ Unsafe \in SUBSET Special /\ Unsafe \in SUBSET Unsafe
          /\ Chars \in SUBSET Chars /\ Chars \cap Unsafe \subseteq Unsafe
      BY DEF Special
    <3> QED
      BY <1>1, <3>1, EscapedKeepsOut DEF AppendText, Safe
  <2>2. TextItems(items) \in Seq(Safe)
    BY <1>1, LinesAreFlat, PrettyTells, FlatType
  <2>3. AppendText(message) \o TextItems(items) \in Seq(Safe)
    BY <2>1, <2>2, ConcatProperties
  <2> QED
    BY <2>3, RangeKeepsOut DEF NothingForged, Safe
<1>3. ItemsCanBeRead
  <2> DEFINE seps == {Space, Equal}
  <2>1. TextsIn(Flat(items, PrettyLine), seps) = Told(items, PrettyParts)
    <3>1. Tells(Items, PrettyLine, PrettyParts, seps)
      BY PrettyTells
    <3> HIDE DEF seps
    <3> QED
      BY <1>1, <3>1, ListRead
  <2> QED
    BY <1>1, <2>1, LinesAreFlat, ItemsAreTold DEF ItemsCanBeRead
<1>4. JsonStringsCanBeRead
  <2> DEFINE seps == {Comma, Colon}
  <2>1. TextsIn(Flat(items, JSONLine), seps) = Told(items, JSONParts)
    <3>1. Tells(Items, JSONLine, JSONParts, seps)
      BY JSONTells
    <3> HIDE DEF seps
    <3> QED
      BY <1>1, <3>1, ListRead
  <2>2. JSONMembers(items) \in Seq(Chars \ Enders)
    BY <1>1, LinesAreFlat, JSONTells, FlatType
  <2>3. Range(JSONMembers(items)) \cap Enders = {}
    BY <2>2, RangeKeepsOut
  <2> QED
    BY <1>1, <2>1, <2>3, LinesAreFlat, ItemsAreTold
       DEF JsonStringsCanBeRead, Enders
<1> QED
  BY <1>2, <1>3, <1>4 DEF TextsCanBeRead

(* Whatever is logged, it can be read in a line, and forges nothing.       *)
THEOREM WhatIsLoggedCanBeRead == TextSpec => []TextsCanBeRead
<1>1. TextInit => TextType
  BY TextAssumption DEF TextAssumption, TextInit, TextType
<1>2. TextType /\ [\E item \in LoggedItems : LogItem(item)]_<<message, items>>
        => TextType'
  <2> SUFFICES ASSUME TextType,
                      [\E item \in LoggedItems : LogItem(item)]_<<message, items>>
               PROVE  TextType'
    OBVIOUS
  <2>1. ASSUME NEW item \in LoggedItems, LogItem(item) PROVE TextType'
    <3>1. item \in Items
      BY TextAssumption DEF TextAssumption
    <3>2. Append(items, item) \in Seq(Items)
      BY <3>1 DEF TextType
    <3> QED
      BY <2>1, <3>2 DEF LogItem, TextType
  <2>2. CASE UNCHANGED <<message, items>>
    BY <2>2 DEF TextType
  <2> QED
    BY <2>1, <2>2
<1>3. TextType => TextsCanBeRead
  BY TextTypeCanBeRead
<1> QED
  BY <1>1, <1>2, <1>3, PTL DEF TextSpec
-----------------------------------------------------------------------------
LoggingType ==
  logging \in [callers : Stacks, depth : Depths,
               form : {"call", "inlined", "none"}, here : BOOLEAN]

(* The size is positive, so that it grows when it is doubled.              *)
TraceInv == LoggingType /\ size \in Nat \ {0} /\ TraceStartsAtCaller

LEMMA LoggingParts ==
  ASSUME LoggingType
  PROVE  /\ logging.callers \in Seq(STRING) /\ Len(logging.callers) \in Nat \ {0}
         /\ \A i \in 1..Len(logging.callers) :
              logging.callers[i] \in STRING /\ logging.callers[i] # "gloq"
         /\ logging.depth \in Nat
         /\ logging.form \in {"call", "inlined", "none"}
         /\ logging.here \in BOOLEAN
<1>1. logging.callers \in Seq(STRING \ {"gloq"}) \ {<<>>} /\ logging.depth \in Nat
  BY TraceAssumption DEF TraceAssumption, LoggingType
<1>2. logging.callers # <<>> => Len(logging.callers) # 0
  BY <1>1
<1>3. logging.callers \in Seq(STRING)
  BY <1>1
<1>4. Len(logging.callers) \in Nat
  BY <1>3
<1>5. \A i \in 1..Len(logging.callers) :
        logging.callers[i] \in STRING \ {"gloq"}
  BY <1>1
<1> QED
  BY <1>1, <1>2, <1>3, <1>4, <1>5 DEF LoggingType

(* The frames on stacks.                                                   *)
Frames == STRING \cup {"gloq"}

(* What is on the stack, and how far down.                                 *)
LEMMA StackParts ==
  ASSUME LoggingType
  PROVE  LET D == logging.depth
             n == IF logging.here THEN Len(logging.callers) ELSE 0
         IN  /\ Stack \in Seq([frame : Frames, form : {"call", "inlined"}])
             /\ Len(Stack) = D + n
             /\ \A i \in 1..D : Stack[i] = PcOf("gloq")
             /\ \A i \in 1..n : Stack[D + i] = PcOf(logging.callers[i])
<1> DEFINE D == logging.depth
           n == IF logging.here THEN Len(logging.callers) ELSE 0
           P == [frame : Frames, form : {"call", "inlined"}]
           a == [i \in 1..D |-> PcOf("gloq")]
           b == IF logging.here
                THEN [i \in DOMAIN logging.callers |-> PcOf(logging.callers[i])]
                ELSE <<>>
<1>1. D \in Nat /\ n \in Nat
  BY LoggingParts
<1>2. a \in Seq(P) /\ Len(a) = D
  <2>1. PcOf("gloq") \in P
    <3>1. \A f \in Frames : PcOf(f) \in P
      BY DEF PcOf
    <3>2. "gloq" \in Frames
      BY DEF Frames
    <3> HIDE DEF P
    <3> QED
      BY <3>1, <3>2
  <2> HIDE DEF D, P
  <2> QED
    BY <1>1, <2>1
<1>3. /\ b \in Seq(P) /\ Len(b) = n
      /\ \A i \in 1..n : b[i] = PcOf(logging.callers[i])
  <2>1. CASE logging.here
    <3>1. DOMAIN logging.callers = 1..n
      BY LoggingParts, <2>1
    <3>2. \A i \in 1..n : PcOf(logging.callers[i]) \in P
      BY LoggingParts, <2>1 DEF PcOf, Frames
    <3> QED
      BY <1>1, <2>1, <3>1, <3>2
  <2>2. CASE ~logging.here
    BY <2>2
  <2> QED
    BY <2>1, <2>2
<1>4. Stack = a \o b
  BY DEF Stack
<1>5. \A i \in 1..D : a[i] = PcOf("gloq")
  OBVIOUS
<1> HIDE DEF a, b, D, n, P
<1>6. /\ Stack \in Seq(P) /\ Len(Stack) = D + n
      /\ \A i \in 1..(D + n) : Stack[i] = IF i <= D THEN a[i] ELSE b[i - D]
  BY <1>2, <1>3, <1>4, ConcatProperties
<1>7. \A i \in 1..D : Stack[i] = a[i]
  BY <1>1, <1>6
<1>8. \A i \in 1..n : Stack[D + i] = b[i]
  BY <1>1, <1>6
<1> QED
  BY <1>3, <1>5, <1>6, <1>7, <1>8 DEF D, n, P

(* The first element that passes a test, and none.                         *)
LEMMA FirstIs ==
  ASSUME NEW I, I \subseteq Nat, NEW k \in I, \A i \in I : k <= i
  PROVE  I # {} /\ Min(I) = k
<1>1. k \in I /\ \A y \in I : k =< y
  OBVIOUS
<1>2. \A x \in I : (\A y \in I : x =< y) => x = k
  OBVIOUS
<1> QED
  BY <1>1, <1>2 DEF Min

(* What a search of the whole stack finds.                                 *)
LEMMA FramesOfStack ==
  ASSUME LoggingType, logging.form # "none"
  PROVE  FramesFrom(Stack) =
           IF logging.here THEN logging.callers ELSE <<logging.callers[1]>>
<1> DEFINE D == logging.depth
           n == IF logging.here THEN Len(logging.callers) ELSE 0
           s == Stack
           same == {i \in 1..Len(s) : s[i] = Pc}
           like == {i \in 1..Len(s) : s[i].frame = Pc.frame}
           first(I) == IF I # {} THEN Min(I) ELSE 0
           P == [frame : Frames, form : {"call", "inlined"}]
<1>1. /\ D \in Nat /\ n \in Nat /\ Len(s) = D + n
      /\ \A i \in 1..D : s[i] = PcOf("gloq")
      /\ \A i \in 1..n : s[D + i] = PcOf(logging.callers[i])
      /\ s \in Seq(P)
  BY LoggingParts, StackParts
<1>2. /\ Pc = [frame |-> logging.callers[1], form |-> logging.form]
      /\ Pc.frame = logging.callers[1] /\ Pc.form = logging.form
      /\ Pc.frame # "gloq" /\ logging.form \in {"call", "inlined"}
  BY LoggingParts DEF Pc
<1>3. \A f : PcOf(f).frame = f /\ PcOf(f).form = "call"
  BY DEF PcOf
<1>4. FramesFrom(s) =
        CASE first(same) # 0 -> FramesOf(SubSeq(s, first(same), Len(s)))
          [] first(same) = 0 /\ first(like) # 0 ->
               FramesOf(SubSeq(s, first(like), Len(s)))
          [] OTHER -> <<Pc.frame>>
  BY DEF FramesFrom, SelectInSeq
<1> HIDE DEF s
<1>5. \A i \in 1..D : s[i] # Pc /\ s[i].frame # Pc.frame
  BY <1>1, <1>2, <1>3
<1>6. same \subseteq Nat /\ like \subseteq Nat
  BY <1>1
<1>7. CASE ~logging.here
  <2>1. same = {} /\ like = {}
    BY <1>1, <1>5, <1>7
  <2>2. first(same) = 0 /\ first(like) = 0
    BY <2>1
  <2> HIDE DEF first, same, like
  <2>3. FramesFrom(s) = <<Pc.frame>>
    BY <1>4, <2>2
  <2> QED
    BY <1>2, <1>7, <2>3 DEF s
<1>8. CASE logging.here
  <2>1. /\ n = Len(logging.callers) /\ 1 \in 1..n /\ D + 1 \in 1..Len(s)
        /\ s[D + 1] = PcOf(logging.callers[1])
    <3>1. n = Len(logging.callers) /\ n \in Nat \ {0}
      BY <1>8, LoggingParts
    <3> HIDE DEF n
    <3>2. 1 \in 1..n /\ D + 1 \in 1..Len(s)
      BY <1>1, <3>1
    <3> QED
      BY <1>1, <3>1, <3>2
  <2>2. \A i \in same \cup like : D + 1 <= i
    BY <1>1, <1>5
  <2>3. FramesOf(SubSeq(s, D + 1, Len(s))) = logging.callers
    <3> DEFINE t == SubSeq(s, D + 1, Len(s))
    <3>1. /\ t \in Seq(P) /\ Len(t) = n
          /\ \A i \in 1..n : t[i] = s[D + i]
      <4>1. \A i \in (D + 1)..Len(s) : s[i] \in P
        <5> HIDE DEF P
        <5>1. \A i \in (D + 1)..Len(s) : i \in 1..Len(s)
          BY <1>1
        <5> QED
          BY <1>1, <5>1
      <4>2. /\ t \in Seq(P)
            /\ Len(t) = IF D + 1 <= Len(s) THEN Len(s) - (D + 1) + 1 ELSE 0
            /\ \A i \in 1..(Len(s) - (D + 1) + 1) : t[i] = s[(D + 1) + i - 1]
        <5> HIDE DEF P
        <5>1. D + 1 \in Int /\ Len(s) \in Int
          BY <1>1
        <5> QED
          BY <4>1, <5>1, SubSeqProperties
      <4> HIDE DEF t, n
      <4>3. Len(s) - (D + 1) + 1 = n /\ D + 1 <= Len(s)
        BY <1>1, <2>1
      <4>4. \A i \in 1..n : (D + 1) + i - 1 = D + i
        BY <1>1
      <4> QED
        BY <4>2, <4>3, <4>4
    <3>2. DOMAIN t = 1..n
      <4> HIDE DEF t, n
      <4> QED
        BY <3>1
    <3>3. \A i \in 1..n : t[i].frame = logging.callers[i]
      <4> HIDE DEF t, n
      <4> QED
        BY <1>1, <1>3, <3>1
    <3> HIDE DEF t
    <3>4. FramesOf(t) = [i \in 1..n |-> t[i].frame]
      BY <3>2 DEF FramesOf
    <3>5. logging.callers = [i \in 1..n |-> logging.callers[i]]
      BY <2>1, LoggingParts
    <3>6. FramesOf(t) = logging.callers
      BY <3>3, <3>4, <3>5
    <3> QED
      BY <3>6 DEF t
  <2>4. CASE logging.form = "call"
    <3>1. D + 1 \in same
      BY <2>1, <2>4, <1>2 DEF PcOf
    <3>2. first(same) = D + 1
      <4>1. \A i \in same : D + 1 <= i
        BY <2>2
      <4> HIDE DEF same
      <4> QED
        BY <1>6, <3>1, <4>1, FirstIs
    <3> HIDE DEF same, like, first
    <3>3. D + 1 # 0
      BY <1>1
    <3>4. FramesFrom(s) = FramesOf(SubSeq(s, D + 1, Len(s)))
      BY <1>4, <3>2, <3>3
    <3> QED
      BY <1>8, <2>3, <3>4 DEF s
  <2>5. CASE logging.form = "inlined"
    <3>1. same = {}
      <4>1. \A i \in 1..Len(s) : s[i].form = "call"
        <5> SUFFICES ASSUME NEW i \in 1..Len(s) PROVE s[i].form = "call"
          OBVIOUS
        <5> HIDE DEF n, D
        <5>1. CASE i \in 1..D
          <6>1. s[i] = PcOf("gloq")
            BY <1>1, <5>1
          <6> QED
            BY <1>3, <6>1
        <5>2. CASE i \notin 1..D
          <6> DEFINE j == i - D
          <6>1. j \in 1..n /\ i = D + j
            BY <1>1, <5>2
          <6> HIDE DEF j
          <6>2. s[i] = PcOf(logging.callers[j])
            BY <1>1, <6>1
          <6> QED
            BY <1>3, <6>2
        <5> QED
          BY <5>1, <5>2
      <4> QED
        BY <1>2, <2>5, <4>1
    <3>2. first(same) = 0
      BY <3>1
    <3>3. D + 1 \in like
      BY <1>2, <1>3, <2>1
    <3>4. first(like) = D + 1
      <4>1. \A i \in like : D + 1 <= i
        BY <2>2
      <4> HIDE DEF like
      <4> QED
        BY <1>6, <3>3, <4>1, FirstIs
    <3> HIDE DEF same, like, first
    <3>5. D + 1 # 0
      BY <1>1
    <3>6. FramesFrom(s) = FramesOf(SubSeq(s, D + 1, Len(s)))
      BY <1>4, <3>2, <3>4, <3>5
    <3> QED
      BY <1>8, <2>3, <3>6 DEF s
  <2> QED
    BY <1>2, <2>4, <2>5
<1> QED
  BY <1>7, <1>8

LEMMA TraceInvInit ==
  TraceInit => TraceInv
BY TraceAssumption
   DEF TraceAssumption, TraceInit, TraceInv, LoggingType, TraceStartsAtCaller

LEMMA CaptureInv ==
  ASSUME TraceInv, Capture
  PROVE  TraceInv'
<1>1. UNCHANGED <<logging, size>> /\ LoggingType' /\ (size \in Nat \ {0})'
  BY DEF Capture, Return, TraceInv, LoggingType
<1>2. CASE Pc = NoPC /\ Return(<<>>)
  <2>1. logging.form = "none"
    <3>1. SUFFICES ASSUME logging.form # "none" PROVE FALSE
      OBVIOUS
    <3>2. Pc \in [frame : STRING, form : {"call", "inlined"}]
      BY <3>1, LoggingParts DEF Pc, TraceInv
    <3> QED
      BY <1>2, <3>2, TraceAssumption DEF TraceAssumption
  <2> QED
    BY <1>1, <1>2, <2>1 DEF Return, TraceInv, TraceStartsAtCaller
<1>3. CASE Pc # NoPC /\ Len(Callers) < size /\ Return(FramesFrom(Callers))
  <2>1. logging.form # "none"
    BY <1>3 DEF Pc
  <2>2. Callers = Stack
    <3>1. /\ Stack \in Seq([frame : Frames, form : {"call", "inlined"}])
          /\ size \in Nat
      BY StackParts DEF TraceInv
    <3>2. Len(Stack) \in Nat
      BY <3>1
    <3>3. CASE size < Len(Stack)
      <4>1. Callers = SubSeq(Stack, 1, size)
        BY <3>3 DEF Callers
      <4>2. Len(SubSeq(Stack, 1, size)) = size
        BY <3>1, <3>2, <3>3
      <4> QED
        BY <1>3, <3>1, <4>1, <4>2
    <3>4. CASE ~(size < Len(Stack))
      <4>1. Callers = SubSeq(Stack, 1, Len(Stack))
        BY <3>4 DEF Callers
      <4> HIDE DEF Stack
      <4> QED
        BY <3>1, <4>1, SubSeqFull
    <3> QED
      BY <3>3, <3>4
  <2>3. trace' = IF logging.here THEN logging.callers ELSE <<logging.callers[1]>>
    BY <1>3, <2>1, <2>2, FramesOfStack DEF Return, TraceInv
  <2>4. TraceStartsAtCaller'
    BY <1>1, <2>1, <2>3 DEF TraceStartsAtCaller
  <2> QED
    BY <1>1, <2>4 DEF TraceInv
<1> QED
  BY <1>2, <1>3 DEF Capture

(* TRACE records show the stack of their caller.                           *)
THEOREM TracesStartAtTheirCaller == TraceSpec => []TraceStartsAtCaller
<1>1. TraceInit => TraceInv
  BY TraceInvInit
<1>2. TraceInv /\ [TraceNext]_traceVars => TraceInv'
  <2> SUFFICES ASSUME TraceInv, [TraceNext]_traceVars PROVE TraceInv'
    OBVIOUS
  <2>1. CASE Grow
    BY <2>1 DEF Grow, TraceInv, LoggingType, TraceStartsAtCaller
  <2>2. CASE Capture
    BY <2>2, CaptureInv
  <2>3. CASE UNCHANGED traceVars
    BY <2>3 DEF traceVars, TraceInv, LoggingType, TraceStartsAtCaller
  <2> QED
    BY <2>1, <2>2, <2>3 DEF TraceNext
<1>3. TraceInv => TraceStartsAtCaller
  BY DEF TraceInv
<1> QED
  BY <1>1, <1>2, <1>3, PTL DEF TraceSpec
=============================================================================
