---------------------------- MODULE LineHandler -----------------------------
(***************************************************************************)
(* Handle of the pretty and JSON handlers: a record is formatted into a    *)
(* pooled line, attribute by attribute, with user code called in between;  *)
(* the finished line is written under the mutex shared by all handlers     *)
(* derived from one NewHandler call, and the line goes back to the pool.   *)
(*                                                                         *)
(* Every record is handled by one call of Handle, so calls are named by    *)
(* their records. User code called while formatting (LogValue, ReplaceAttr,*)
(* context extractors) may log other records through the same handler;     *)
(* their calls have the interrupted call as parent. All other calls run    *)
(* concurrently, each as a goroutine of its own.                           *)
(***************************************************************************)
EXTENDS Integers, Sequences, Loops

CONSTANTS
  Records,     \* records logged, each once
  HugeRecords, \* those that grow a line past maxPooledLine
  NumParts,    \* attributes of a record
  ErrorParts,  \* those printed, with detail, after the line
  Lines,       \* lineState objects
  None

ASSUME LineAssumption ==
  /\ HugeRecords \subseteq Records
  /\ NumParts \in Nat
  /\ ErrorParts \subseteq 1..NumParts
  /\ None \notin Records
  /\ None \notin Lines

VARIABLES
  st,       \* per record: where its call of Handle is
  parent,   \* per record: the call whose callback logs it, or None
  line,     \* per record: the local s, or None
  pos,      \* per record: the next attribute
  sent,     \* per record: how much of the line the writer has taken
  result,   \* per record: how the call ends
  buf,      \* per line: its text
  details,  \* per line: the errors to print after the text
  large,    \* lines whose buffer has grown past maxPooledLine
  pool,     \* lines in linePool
  mu,       \* the record whose call holds h.mu, or None
  out       \* what the writer was given, piece by piece

vars == <<st, parent, line, pos, sent, result, buf, details, large, pool, mu,
          out>>

States == {"new", "format", "callback", "lock", "write", "unlock", "free",
           "done"}

(* A piece of text: attribute i of r, the newline (0), or the detail of    *)
(* attribute i (-i).                                                       *)
Pieces == Records \X (-NumParts..NumParts)

Init ==
  /\ st = [r \in Records |-> "new"]
  /\ parent = [r \in Records |-> None]
  /\ line = [r \in Records |-> None]
  /\ pos = [r \in Records |-> 1]
  /\ sent = [r \in Records |-> 0]
  /\ result = [r \in Records |-> "none"]
  /\ buf = [l \in Lines |-> <<>>]
  /\ details = [l \in Lines |-> <<>>]
  /\ large = {}
  /\ pool = {}
  /\ mu = None
  /\ out = <<>>

Active(r) == st[r] \notin {"new", "done"}

Used == {line[r] : r \in {q \in Records : Active(q)}}

(* User code called by r is running, and not waiting for a nested call.    *)
InCallback(r) ==
  /\ st[r] = "callback"
  /\ \A c \in Records : parent[c] = r => ~Active(c)

-----------------------------------------------------------------------------
(* linePool.Get: a pooled line, or one made by New.                        *)
Get(r) ==
  \/ \E l \in pool :
       /\ line' = [line EXCEPT ![r] = l]
       /\ pool' = pool \ {l}
       /\ UNCHANGED <<buf, details, large>>
  \/ \E l \in Lines \ (pool \cup Used) :
       /\ line' = [line EXCEPT ![r] = l]
       /\ buf' = [buf EXCEPT ![l] = <<>>]
       /\ details' = [details EXCEPT ![l] = <<>>]
       /\ large' = large \ {l}
       /\ UNCHANGED pool

(* Handle begins, from a goroutine or from a callback of another call.     *)
Begin(r) ==
  /\ st[r] = "new"
  /\ \E c \in {None} \cup {q \in Records : InCallback(q)} :
       parent' = [parent EXCEPT ![r] = c]
  /\ Get(r)
  /\ st' = [st EXCEPT ![r] = "format"]
  /\ UNCHANGED <<pos, sent, result, mu, out>>

(* An attribute is appended; an error is kept to be printed after the line.*)
AppendPart(r) ==
  LET l == line[r]
  IN  /\ buf' = [buf EXCEPT ![l] = Append(@, <<r, pos[r]>>)]
      /\ details' = [details EXCEPT ![l] =
           IF pos[r] \in ErrorParts THEN Append(@, <<r, -pos[r]>>) ELSE @]
      /\ large' = IF r \in HugeRecords THEN large \cup {l} ELSE large
      /\ pos' = [pos EXCEPT ![r] = @ + 1]

(* As Plain, but going one attribute too far.                              *)
PlainPastEnd(r) ==
  /\ st[r] = "format" /\ pos[r] <= NumParts + 1
  /\ AppendPart(r)
  /\ UNCHANGED <<st, parent, line, sent, result, pool, mu, out>>

(* An attribute that calls no user code.                                   *)
Plain(r) ==
  /\ st[r] = "format" /\ pos[r] <= NumParts
  /\ AppendPart(r)
  /\ UNCHANGED <<st, parent, line, sent, result, pool, mu, out>>

(* An attribute whose value is computed or replaced by user code.          *)
EnterCallback(r) ==
  /\ st[r] = "format" /\ pos[r] <= NumParts
  /\ st' = [st EXCEPT ![r] = "callback"]
  /\ UNCHANGED <<parent, line, pos, sent, result, buf, details, large, pool,
                 mu, out>>

LeaveCallback(r) ==
  /\ InCallback(r)
  /\ AppendPart(r)
  /\ st' = [st EXCEPT ![r] = "format"]
  /\ UNCHANGED <<parent, line, sent, result, pool, mu, out>>

(* A panic in user code unwinds Handle, whose only deferred call is free.  *)
CallbackPanics(r) ==
  /\ InCallback(r)
  /\ st' = [st EXCEPT ![r] = "free"]
  /\ result' = [result EXCEPT ![r] = "panic"]
  /\ UNCHANGED <<parent, line, pos, sent, buf, details, large, pool, mu, out>>

(* The newline, then the details.                                          *)
EndLine(r) ==
  /\ st[r] = "format" /\ pos[r] > NumParts
  /\ buf' = [buf EXCEPT ![line[r]] = @ \o <<<<r, 0>>>> \o details[line[r]]]
  /\ st' = [st EXCEPT ![r] = "lock"]
  /\ UNCHANGED <<parent, line, pos, sent, result, details, large, pool, mu,
                 out>>

(* As Lock, but with a mutex of the handler's own.                         *)
LockAlone(r) ==
  /\ st[r] = "lock"
  /\ mu' = r
  /\ st' = [st EXCEPT ![r] = "write"]
  /\ UNCHANGED <<parent, line, pos, sent, result, buf, details, large, pool,
                 out>>

Lock(r) ==
  /\ st[r] = "lock"
  /\ mu = None
  /\ mu' = r
  /\ st' = [st EXCEPT ![r] = "write"]
  /\ UNCHANGED <<parent, line, pos, sent, result, buf, details, large, pool,
                 out>>

(* The writer takes the line bit by bit.                                   *)
WriteSome(r) ==
  /\ st[r] = "write"
  /\ sent[r] < Len(buf[line[r]])
  /\ out' = Append(out, buf[line[r]][sent[r] + 1])
  /\ sent' = [sent EXCEPT ![r] = @ + 1]
  /\ UNCHANGED <<st, parent, line, pos, result, buf, details, large, pool, mu>>

(* As WriteEnds, but Unlock is not deferred: a panic skips it.             *)
WriteEndsUndeferred(r) ==
  /\ st[r] = "write"
  /\ \E how \in {"ok", "error", "panic"} :
       /\ how = "ok" => sent[r] = Len(buf[line[r]])
       /\ result' = [result EXCEPT ![r] = how]
       /\ st' = [st EXCEPT ![r] = IF how = "panic" THEN "free" ELSE "unlock"]
  /\ UNCHANGED <<parent, line, pos, sent, buf, details, large, pool, mu, out>>

(* Write returns nil once it has all of the line; it may fail or panic at  *)
(* any point.                                                              *)
WriteEnds(r) ==
  /\ st[r] = "write"
  /\ \E how \in {"ok", "error", "panic"} :
       /\ how = "ok" => sent[r] = Len(buf[line[r]])
       /\ result' = [result EXCEPT ![r] = how]
  /\ st' = [st EXCEPT ![r] = "unlock"]
  /\ UNCHANGED <<parent, line, pos, sent, buf, details, large, pool, mu, out>>

(* The deferred Unlock, the last deferred and so the first to run.         *)
Unlock(r) ==
  /\ st[r] = "unlock"
  /\ mu' = None
  /\ st' = [st EXCEPT ![r] = "free"]
  /\ UNCHANGED <<parent, line, pos, sent, result, buf, details, large, pool,
                 out>>

(* As PutBack, but the line keeps the errors of the record.                *)
PutBackWithDetails(l) ==
  IF l \in large
  THEN UNCHANGED <<buf, details, pool>>
  ELSE /\ buf' = [buf EXCEPT ![l] = <<>>]
       /\ pool' = pool \cup {l}
       /\ UNCHANGED details

(* lineState.free: a line with a large buffer is left to the collector,    *)
(* any other is emptied and pooled.                                        *)
PutBack(l) ==
  IF l \in large
  THEN UNCHANGED <<buf, details, pool>>
  ELSE /\ buf' = [buf EXCEPT ![l] = <<>>]
       /\ details' = [details EXCEPT ![l] = <<>>]
       /\ pool' = pool \cup {l}

(* The call ends. A panic goes on into the calling callback, which either  *)
(* recovers (slog does so for LogValue) or unwinds the call it belongs to. *)
Free(r) ==
  /\ st[r] = "free"
  /\ PutBack(line[r])
  /\ line' = [line EXCEPT ![r] = None]
  /\ \/ /\ st' = [st EXCEPT ![r] = "done"]
        /\ UNCHANGED result
     \/ /\ result[r] = "panic"
        /\ parent[r] # None
        /\ st' = [st EXCEPT ![r] = "done", ![parent[r]] = "free"]
        /\ result' = [result EXCEPT ![parent[r]] = "panic"]
  /\ UNCHANGED <<parent, pos, sent, large, mu, out>>

(* The collector empties sync.Pool as it likes.                            *)
Collect ==
  /\ \E l \in pool : pool' = pool \ {l}
  /\ UNCHANGED <<st, parent, line, pos, sent, result, buf, details, large, mu,
                 out>>

Work(r) ==
  \/ Plain(r) \/ EnterCallback(r) \/ LeaveCallback(r) \/ CallbackPanics(r)
  \/ EndLine(r) \/ WriteSome(r) \/ WriteEnds(r) \/ Unlock(r) \/ Free(r)

Next == Collect \/ \E r \in Records : Begin(r) \/ Work(r) \/ Lock(r)

Spec == Init /\ [][Next]_vars

(* Goroutines are scheduled, and user code and the writer return or panic. *)
(* Weak fairness of Lock is enough: each call takes the mutex once.        *)
FairSpec == Spec /\ \A r \in Records : WF_vars(Work(r) \/ Lock(r))

-----------------------------------------------------------------------------
(* The type invariant.                                                     *)
TypeOK ==
  /\ st \in [Records -> States]
  /\ parent \in [Records -> Records \cup {None}]
  /\ line \in [Records -> Lines \cup {None}]
  /\ pos \in [Records -> 1..(NumParts + 1)]
  /\ sent \in [Records -> Nat]
  /\ result \in [Records -> {"none", "ok", "error", "panic"}]
  /\ buf \in [Lines -> Seq(Pieces)]
  /\ details \in [Lines -> Seq(Pieces)]
  /\ large \subseteq Lines
  /\ pool \subseteq Lines
  /\ mu \in Records \cup {None}
  /\ out \in Seq(Pieces)

(* The lines of the pool are empty, small, and nobody's, and no two calls  *)
(* format into the same line: after errors, panics and unwound nested      *)
(* calls as well, nothing of one record can reach another's line.          *)
PoolSafe ==
  /\ \A l \in pool : buf[l] = <<>> /\ details[l] = <<>> /\ l \notin large
  /\ \A r \in Records : Active(r) => line[r] \in Lines \ pool
  /\ \A r, q \in Records : Active(r) /\ Active(q) /\ r # q => line[r] # line[q]

(* The mutex is held by exactly the call that is writing, and never while  *)
(* user code runs, so a callback that logs cannot wait for its own call.   *)
LockedOnlyToWrite ==
  \A r \in Records : mu = r <=> st[r] \in {"write", "unlock"}

(* The line of a record, as it is written when nothing interferes: its     *)
(* first n attributes, the details of the errors among them, and all of it.*)
Parts(r, n) == [i \in 1..n |-> <<r, i>>]

Details(r, n) == Appended([i \in 1..NumParts |-> <<r, -i>>], ErrorParts)[n]

Expected(r) == Parts(r, NumParts) \o <<<<r, 0>>>> \o Details(r, NumParts)

(* Where the output has pieces of record r.                                *)
Mine(r) == {i \in 1..Len(out) : out[i][1] = r}

(* "Keep concurrent log lines from being mixed together": in the output    *)
(* the pieces of a record stand together, in order and with nothing of     *)
(* another record between them; the line is whole when Handle returns nil, *)
(* and there is none of it when formatting panicked.                       *)
WholeLines ==
  \A r \in Records :
    \E start \in 0..Len(out), n \in 0..Len(Expected(r)) :
      /\ Mine(r) = (start + 1)..(start + n)
      /\ \A k \in 1..n : out[start + k] = Expected(r)[k]
      /\ st[r] \in {"new", "format", "callback", "lock"} => n = 0
      /\ result[r] = "ok" => n = Len(Expected(r))

(* Every call of Handle returns: no call waits forever for the mutex, not  *)
(* even when writers fail or panic or callbacks log.                       *)
EveryCallReturns == \A r \in Records : Active(r) ~> st[r] = "done"
=============================================================================
