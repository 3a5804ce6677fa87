-------------------------- MODULE HttpAccessProofs --------------------------
(***************************************************************************)
(* Proofs about the HTTP middleware, for any statuses, sizes and number of *)
(* calls, whatever the wrapped handler does and however it ends: there is  *)
(* one access record if there should be one, it is true, and what was      *)
(* unwinding goes on.                                                      *)
(***************************************************************************)
EXTENDS HttpAccess, TLAPS

Entries == [status : Nat, bytes : Nat, level : AccessLevels, panicked : BOOLEAN]

LogOK == log \in Seq(Entries)

(* Where the middleware is tells how the handler ended, what unwinds, and  *)
(* whether the record is there: only the two calls of logRequest add it,   *)
(* the second only if the first was not reached.                           *)
Progress ==
  /\ pc \in {"start", "serve"} =>
       ending = "none" /\ active = "none" /\ log = <<>>
  /\ pc = "log" =>
       recorded /\ completed /\ ending = "returns" /\ active = "none" /\ log = <<>>
  /\ pc = "deferred" /\ completed =>
       /\ recorded /\ ending = "returns" /\ active \in {"none", "loggerPanics"}
       /\ Len(log) = 1 <=> Enabled(FALSE)
  /\ pc = "deferred" /\ ~completed =>
       /\ recorded /\ active = ending /\ log = <<>>
       /\ ending \in {"panics", "aborts", "goexits"}

(* The record has what the recorder has noted, and says how the handler    *)
(* ended; the recorder changes no more.                                    *)
Faithful ==
  \A i \in 1..Len(log) :
    /\ recorded
    /\ pc \in {"deferred", "done"}
    /\ ending = IF log[i].panicked THEN "panics" ELSE "returns"
    /\ log[i].status = Status(log[i].panicked)
    /\ log[i].level = LevelFor(Status(log[i].panicked), log[i].panicked)
    /\ log[i].bytes = rec.bytes

(* The recorder and the writer below agree, on the status unless a call    *)
(* misled the recorder, on the bytes always.                               *)
Agrees ==
  /\ recorded => rec.bytes = wire.bytes
  /\ recorded /\ ~misled => rec.status = SentStatus(TRUE)

(* Nothing is sent before the handler is served.                           *)
Fresh ==
  pc = "start" =>
    /\ rec = [status |-> 0, bytes |-> 0]
    /\ wire = [status |-> 0, bytes |-> 0, hijacked |-> FALSE]

(* What is there while a request is served and after.                      *)
Typed == RequestTypeOK /\ LogOK

LEMMA TypedInit == RequestInit => Typed
<1> SUFFICES ASSUME RequestInit PROVE Typed
  OBVIOUS
<1> USE HttpAssumption DEF HttpAssumption, RequestInit
<1>1. LogOK
  BY DEF LogOK
<1>2. rec \in Recs /\ wire \in Wires
  BY DEF Recs, Wires
<1>3. setup \in Setup
  OBVIOUS
<1>4. calls \in 0..MaxCalls
  OBVIOUS
<1>5. RequestTypeOK
  BY <1>2, <1>3, <1>4 DEF RequestTypeOK
<1> QED
  BY <1>1, <1>5 DEF Typed

(* The recorder's status is none, 101, 200, or one that was written.       *)
LEMMA StatusIsNat ==
  ASSUME NEW r \in Recs
  PROVE  r.status \in Nat
<1>1. r.status \in {0, 101, 200} \cup (Statuses \ 100..199)
  BY DEF Recs
<1>2. \A s \in Statuses : s \in Nat
  BY HttpAssumption DEF HttpAssumption
<1>3. CASE r.status \in Statuses
  BY <1>2, <1>3
<1>4. CASE r.status \in {0, 101, 200}
  BY <1>4
<1> QED
  BY <1>1, <1>3, <1>4

LEMMA NoteTypes ==
  ASSUME RequestTypeOK
  PROVE  /\ \A s \in Statuses : NoteHeader(rec, s) \in Recs
         /\ NoteOK(rec) \in Recs
         /\ \A m \in Nat : NoteBytes(NoteOK(rec), m) \in Recs
         /\ NoteHijack(rec) \in Recs
<1> USE DEF Recs
<1>1. rec \in Recs
  BY DEF RequestTypeOK
<1>2. \A s \in Statuses : NoteHeader(rec, s) \in Recs
  BY <1>1 DEF NoteHeader
<1>3. NoteOK(rec) \in Recs
  BY <1>1 DEF NoteOK
<1>4. \A m \in Nat : NoteBytes(NoteOK(rec), m) \in Recs
  BY <1>3 DEF NoteBytes
<1>5. NoteHijack(rec) \in Recs
  BY <1>1 DEF NoteHijack
<1> QED
  BY <1>2, <1>3, <1>4, <1>5

LEMMA WireTypes ==
  ASSUME RequestTypeOK
  PROVE  /\ \A s \in Statuses : WireHeader(wire, s) \in Wires
         /\ \A m \in Nat : WireWrite(wire, m) \in Wires
         /\ \A n, m \in Nat : WireReadFrom(wire, n, m) \in Wires
         /\ WireFlush(wire) \in Wires
         /\ [wire EXCEPT !.hijacked = TRUE] \in Wires
<1> USE DEF Wires
<1>1. wire \in Wires
  BY DEF RequestTypeOK
<1>2. \A s \in Statuses : WireHeader(wire, s) \in Wires
  BY <1>1 DEF WireHeader
<1>3. ASSUME NEW m \in Nat PROVE WireWrite(wire, m) \in Wires
  <2>1. wire.bytes + m \in Nat /\ wire.status \in {0, 200} \cup Statuses
    BY <1>1
  <2>2. CASE wire.hijacked
    BY <1>1, <2>2 DEF WireWrite
  <2>3. CASE ~wire.hijacked /\ wire.status = 0
    BY <1>1, <2>1, <2>3 DEF WireWrite
  <2>4. CASE ~wire.hijacked /\ wire.status # 0
    BY <1>1, <2>1, <2>4 DEF WireWrite
  <2> QED
    BY <2>2, <2>3, <2>4
<1>4. \A n, m \in Nat : WireReadFrom(wire, n, m) \in Wires
  BY <1>1, <1>3 DEF WireReadFrom
<1>5. WireFlush(wire) \in Wires
  BY <1>1 DEF WireFlush
<1>6. [wire EXCEPT !.hijacked = TRUE] \in Wires
  BY <1>1
<1> QED
  BY <1>2, <1>3, <1>4, <1>5, <1>6

(* What every call on the response writer does and leaves alone.           *)
CallStep(r, w) ==
  /\ Serving
  /\ rec' = IF recorded THEN r ELSE rec
  /\ wire' = w
  /\ calls' = calls + 1
  /\ misled' \in BOOLEAN
  /\ misled => misled'
  /\ UNCHANGED <<setup, recorded, log>>
  /\ UNCHANGED <<pc, ending, active, completed>> \/ Ends("panics")

(* And what it does in particular.                                         *)
Written ==
  \/ \E s \in Statuses :
       /\ CallStep(NoteHeader(rec, s), WireHeader(wire, s))
       /\ ~misled' /\ rec.status = 0 => s # 101 /\ ValidStatus(s)
  \/ \E n \in Sizes : \E m \in Takes(wire, n) :
       CallStep(NoteBytes(NoteOK(rec), m), WireWrite(wire, m))
  \/ \E n \in Sizes : \E m \in Takes(wire, n) :
       /\ CallStep(NoteBytes(NoteOK(rec), m), WireReadFrom(wire, n, m))
       /\ ~misled' /\ rec.status = 0 => n # 0
  \/ /\ CallStep(NoteOK(rec), WireFlush(wire))
     /\ ~misled' /\ rec.status = 0 => setup.flush
  \/ /\ ~wire.hijacked
     /\ CallStep(NoteHijack(rec), [wire EXCEPT !.hijacked = TRUE])
  \/ CallStep(rec, wire)

LEMMA CalledWrites ==
  WriteHeader \/ Write \/ ReadFrom \/ Flush \/ Hijack => Written
<1>1. ASSUME NEW r, NEW w, NEW b, Serving, Called(r, w, b),
             UNCHANGED <<setup, recorded, log>>,
             UNCHANGED <<pc, ending, active, completed>> \/ Ends("panics")
      PROVE  CallStep(r, w) /\ (~misled' /\ rec.status = 0 => ~b)
  BY <1>1, Zenon DEF CallStep, Called
<1>2. ASSUME WriteHeader PROVE Written
  BY <1>1, <1>2, Zenon DEF WriteHeader, Written
<1>3. ASSUME Write PROVE Written
  BY <1>1, <1>3, Zenon DEF Write, Written, middleware
<1>4. ASSUME ReadFrom PROVE Written
  BY <1>1, <1>4, Zenon DEF ReadFrom, Written, middleware
<1>5. ASSUME Flush PROVE Written
  BY <1>1, <1>5, Zenon DEF Flush, Written, middleware
<1>6. ASSUME Hijack PROVE Written
  BY <1>1, <1>6, Zenon DEF Hijack, Written, middleware
<1> QED
  BY <1>2, <1>3, <1>4, <1>5, <1>6

LEMMA WrittenTyped ==
  ASSUME Typed, Written
  PROVE  Typed'
<1> USE HttpAssumption DEF HttpAssumption
<1>1. ASSUME NEW r \in Recs, NEW w \in Wires, CallStep(r, w)
      PROVE  Typed'
  <2>1. rec' \in Recs /\ wire' \in Wires /\ misled' \in BOOLEAN
    BY <1>1 DEF Typed, RequestTypeOK, CallStep
  <2>2. calls' \in 0..MaxCalls
    BY <1>1 DEF Typed, RequestTypeOK, CallStep, Serving
  <2>3. /\ pc' \in {"serve", "log", "deferred", "done"} /\ completed' \in BOOLEAN
        /\ active' \in {"none", "panics", "aborts", "goexits", "loggerPanics"}
        /\ ending' \in {"none", "returns", "panics", "aborts", "goexits"}
    BY <1>1 DEF Typed, RequestTypeOK, CallStep, Serving, Ends
  <2>4. UNCHANGED <<setup, recorded, log>> /\ pc # "start"
    BY <1>1 DEF CallStep, Serving
  <2> QED
    BY <2>1, <2>2, <2>3, <2>4 DEF Typed, RequestTypeOK, LogOK
<1>2. rec \in Recs /\ wire \in Wires /\ RequestTypeOK
  BY DEF Typed, RequestTypeOK
<1>3. \A n \in Nat : \A m \in Takes(wire, n) : m \in Nat
  BY DEF Takes
<1>4. /\ \A s \in Statuses : NoteHeader(rec, s) \in Recs /\ WireHeader(wire, s) \in Wires
      /\ \A m \in Nat : NoteBytes(NoteOK(rec), m) \in Recs /\ WireWrite(wire, m) \in Wires
      /\ \A n, m \in Nat : WireReadFrom(wire, n, m) \in Wires
      /\ NoteOK(rec) \in Recs /\ WireFlush(wire) \in Wires
      /\ NoteHijack(rec) \in Recs /\ [wire EXCEPT !.hijacked = TRUE] \in Wires
  BY <1>2, NoteTypes, WireTypes
<1> QED
  BY <1>1, <1>2, <1>3, <1>4 DEF Written

LEMMA RequestIsEntry ==
  ASSUME Typed, NEW panicked \in BOOLEAN
  PROVE  AccessRecord(panicked) \in Entries
<1>1. Status(panicked) \in Nat
  BY StatusIsNat DEF Typed, RequestTypeOK, Status
<1>2. rec.bytes \in Nat
  BY DEF Typed, RequestTypeOK, Recs
<1>3. LevelFor(Status(panicked), panicked) \in AccessLevels
  BY DEF LevelFor, AccessLevels
<1> QED
  BY <1>1, <1>2, <1>3 DEF AccessRecord, Entries

LEMMA RequestTyped ==
  ASSUME Typed, NEW panicked \in BOOLEAN, LogRequest(panicked)
  PROVE  /\ log' \in Seq(Entries)
         /\ active' \in {"none", "panics", "aborts", "goexits", "loggerPanics"}
BY RequestIsEntry DEF LogRequest, Typed, RequestTypeOK, LogOK

LEMMA TypedNext == Typed /\ [RequestNext]_requestVars => Typed'
<1> SUFFICES ASSUME Typed, [RequestNext]_requestVars PROVE Typed'
  OBVIOUS
<1> USE HttpAssumption DEF HttpAssumption
<1>1. CASE Begin
  BY <1>1 DEF Begin, Typed, RequestTypeOK, LogOK
<1>2. CASE WriteHeader \/ Write \/ ReadFrom \/ Flush \/ Hijack
  BY <1>2, CalledWrites, WrittenTyped
<1>8. CASE HandlerEnds
  BY <1>8 DEF HandlerEnds, Ends, Typed, RequestTypeOK, LogOK
<1>9. CASE LogReturned
  <2>1. LogRequest(FALSE)
    BY <1>9 DEF LogReturned
  <2> QED
    BY <1>9, <2>1, RequestTyped DEF LogReturned, Typed, RequestTypeOK, LogOK
<1>10. CASE Deferred
  <2>1. LogRequest(TRUE) \/ UNCHANGED <<log, active>>
    BY <1>10 DEF Deferred
  <2> QED
    BY <1>10, <2>1, RequestTyped DEF Deferred, Typed, RequestTypeOK, LogOK
<1>11. CASE UNCHANGED requestVars
  BY <1>11 DEF requestVars, Typed, RequestTypeOK, LogOK
<1> QED
  BY <1>1, <1>2, <1>8, <1>9, <1>10, <1>11 DEF RequestNext

-----------------------------------------------------------------------------
(* All that is said of the log and of how the middleware ends.             *)
Rest == Progress /\ OneRecord /\ EndsAlike /\ Faithful

LEMMA RestInit == RequestInit => Rest
BY DEF RequestInit, Rest, Progress, OneRecord, EndsAlike, Faithful

(* While the handler is served there is no record; whatever it ends with   *)
(* is what unwinds.                                                        *)
LEMMA ServedRest ==
  ASSUME Typed, Rest, pc = "serve", UNCHANGED <<setup, recorded, log>>,
         \/ UNCHANGED <<pc, ending, active, completed>>
         \/ \E how \in {"returns", "panics", "aborts", "goexits"} : Ends(how)
  PROVE  Rest'
<1>1. log = <<>> /\ log' = <<>>
  BY DEF Rest, Progress
<1>2. Faithful'
  BY <1>1 DEF Faithful
<1>3. CASE UNCHANGED <<pc, ending, active, completed>>
  BY <1>1, <1>2, <1>3 DEF Rest, Progress, OneRecord, EndsAlike
<1>4. ASSUME NEW how \in {"returns", "panics", "aborts", "goexits"}, Ends(how)
      PROVE  Progress' /\ OneRecord' /\ EndsAlike'
  <2>1. Progress' /\ EndsAlike'
    BY <1>1, <1>4 DEF Typed, RequestTypeOK, Ends, Progress, EndsAlike
  <2>2. Len(log') = 0
    BY <1>1
  <2>3. pc' = "done" => ~recorded'
    BY <1>4 DEF Typed, RequestTypeOK, Ends
  <2> QED
    BY <2>1, <2>2, <2>3 DEF OneRecord
<1> QED
  BY <1>2, <1>3, <1>4 DEF Rest

(* logRequest is called where there is no record yet, and adds one that    *)
(* says what the recorder has noted, if its level is enabled.              *)
LEMMA RequestRest ==
  ASSUME Typed, NEW panicked \in BOOLEAN, LogRequest(panicked), recorded,
         log = <<>>, ending = IF panicked THEN "panics" ELSE "returns",
         pc' \in {"deferred", "done"},
         UNCHANGED <<setup, recorded, completed, rec, ending>>
  PROVE  /\ Faithful'
         /\ Len(log') <= 1
         /\ Len(log') = 1 <=> Enabled(panicked)'
         /\ active' \in {active, "loggerPanics"}
<1>1. Enabled(panicked)' = Enabled(panicked)
  BY DEF Enabled, AccessRecord, Status, LevelFor
<1>2. CASE ~Enabled(panicked)
  BY <1>1, <1>2 DEF LogRequest, Faithful
<1>3. CASE Enabled(panicked)
  <2> DEFINE e == AccessRecord(panicked)
  <2>1. e \in Entries
    BY RequestIsEntry
  <2>2. log' = <<e>> /\ Len(log') = 1 /\ log'[1] = e
    BY <1>3, <2>1 DEF LogRequest
  <2>3. Faithful'
    BY <2>2 DEF Faithful, AccessRecord, Status, LevelFor
  <2> QED
    BY <1>1, <1>3, <2>2, <2>3 DEF LogRequest
<1> QED
  BY <1>2, <1>3

LEMMA RestNext == Typed /\ Rest /\ [RequestNext]_requestVars => Rest'
<1> SUFFICES ASSUME Typed, Rest, [RequestNext]_requestVars PROVE Rest'
  OBVIOUS
<1>1. CASE Begin
  BY <1>1 DEF Begin, Rest, Progress, OneRecord, EndsAlike, Faithful
<1>2. CASE Written
  <2>1. /\ pc = "serve"
        /\ UNCHANGED <<setup, recorded, log>>
        /\ UNCHANGED <<pc, ending, active, completed>> \/ Ends("panics")
    BY <1>2 DEF Written, CallStep, Serving
  <2> QED
    BY <2>1, ServedRest
<1>4. CASE HandlerEnds
  BY <1>4, ServedRest DEF HandlerEnds
<1>5. CASE LogReturned
  <2>1. recorded /\ completed /\ ending = "returns" /\ active = "none"
        /\ log = <<>>
    BY <1>5 DEF LogReturned, Rest, Progress
  <2>2. /\ Faithful'
        /\ Len(log') <= 1
        /\ Len(log') = 1 <=> Enabled(FALSE)'
        /\ active' \in {active, "loggerPanics"}
    BY <1>5, <2>1, RequestRest DEF LogReturned
  <2> QED
    BY <1>5, <2>1, <2>2 DEF LogReturned, Rest, Progress, OneRecord, EndsAlike
<1>6. CASE Deferred
  <2>1. pc' = "done" /\ recorded' /\ ending' = ending
    BY <1>6 DEF Deferred, Rest, Progress
  <2>2. \A p \in BOOLEAN : Enabled(p)' = Enabled(p)
    BY <1>6 DEF Deferred, Enabled, AccessRecord, Status, LevelFor
  <2>3. CASE completed
    <3>1. UNCHANGED <<log, active>> /\ ending = "returns"
          /\ active \in {"none", "loggerPanics"}
          /\ (Len(log) = 1 <=> Enabled(FALSE))
      BY <1>6, <2>3 DEF Deferred, Rest, Progress
    <3>2. Progress' /\ EndsAlike' /\ OneRecord'
      BY <2>1, <2>2, <3>1 DEF Rest, Progress, EndsAlike, OneRecord
    <3>3. Faithful'
      BY <1>6, <2>1, <3>1 DEF Deferred, Rest, Faithful, Status, LevelFor
    <3> QED
      BY <3>2, <3>3 DEF Rest
  <2>4. CASE ~completed /\ active \in {"none", "goexits", "aborts"}
    <3>1. UNCHANGED <<log, active>> /\ active = ending /\ log = <<>>
          /\ ending \in {"goexits", "aborts"}
      BY <1>6, <2>4 DEF Deferred, Rest, Progress
    <3> QED
      BY <2>1, <3>1 DEF Rest, Progress, EndsAlike, Faithful, OneRecord
  <2>5. CASE ~completed /\ active \notin {"none", "goexits", "aborts"}
    <3>1. recorded /\ ending = "panics" /\ active = "panics" /\ log = <<>>
      BY <1>6, <2>5 DEF Deferred, Rest, Progress
    <3>2. /\ Faithful'
          /\ Len(log') <= 1
          /\ Len(log') = 1 <=> Enabled(TRUE)'
          /\ active' \in {active, "loggerPanics"}
      BY <1>6, <2>5, <3>1, RequestRest DEF Deferred
    <3> QED
      BY <2>1, <3>1, <3>2 DEF Rest, Progress, EndsAlike, OneRecord
  <2> QED
    BY <2>3, <2>4, <2>5
<1>7. CASE UNCHANGED requestVars
  <2>1. /\ UNCHANGED <<Status(TRUE), Status(FALSE)>>
        /\ \A p \in BOOLEAN : Enabled(p)' = Enabled(p)
    BY <1>7 DEF requestVars, Status, Enabled, AccessRecord, LevelFor
  <2>2. Progress' /\ EndsAlike' /\ OneRecord'
    BY <1>7, <2>1 DEF requestVars, Rest, Progress, EndsAlike, OneRecord
  <2>3. Faithful'
    BY <1>7, <2>1 DEF requestVars, Rest, Faithful, Status, LevelFor
  <2> QED
    BY <2>2, <2>3 DEF Rest
<1> QED
  BY <1>1, <1>2, <1>4, <1>5, <1>6, <1>7, CalledWrites DEF RequestNext

-----------------------------------------------------------------------------
LEMMA AgreesInit == RequestInit => Fresh /\ Agrees
BY DEF RequestInit, Fresh, Agrees, SentStatus

(* Every call leaves the recorder and the writer below with the same size, *)
(* and with the same status unless it misleads.                            *)
LEMMA WrittenAgrees ==
  ASSUME Typed, Agrees, Written
  PROVE  Agrees'
<1> USE DEF Agrees, SentStatus, CallStep
<1>1. /\ rec.bytes \in Nat /\ wire.bytes \in Nat
      /\ rec.status \in Nat
      /\ rec = [status |-> rec.status, bytes |-> rec.bytes]
      /\ wire = [status |-> wire.status, bytes |-> wire.bytes,
                 hijacked |-> wire.hijacked]
  BY StatusIsNat DEF Typed, RequestTypeOK, Recs, Wires
<1>2. \A s \in Statuses : s \in Nat \ {0}
  BY HttpAssumption DEF HttpAssumption
<1>3. ASSUME NEW s \in Statuses, CallStep(NoteHeader(rec, s), WireHeader(wire, s)),
             ~misled' /\ rec.status = 0 => s # 101 /\ ValidStatus(s)
      PROVE  Agrees'
  BY <1>1, <1>2, <1>3 DEF NoteHeader, WireHeader, Informational, ValidStatus
<1>4. ASSUME NEW n \in Sizes, NEW m \in Takes(wire, n),
             CallStep(NoteBytes(NoteOK(rec), m), WireWrite(wire, m))
      PROVE  Agrees'
  BY <1>1, <1>4 DEF NoteBytes, NoteOK, WireWrite, Takes
<1>5. ASSUME NEW n \in Sizes, NEW m \in Takes(wire, n),
             CallStep(NoteBytes(NoteOK(rec), m), WireReadFrom(wire, n, m)),
             ~misled' /\ rec.status = 0 => n # 0
      PROVE  Agrees'
  BY <1>1, <1>5 DEF NoteBytes, NoteOK, WireWrite, WireReadFrom, Takes
<1>6. ASSUME CallStep(NoteOK(rec), WireFlush(wire)),
             ~misled' /\ rec.status = 0 => setup.flush
      PROVE  Agrees'
  BY <1>1, <1>6 DEF NoteOK, WireFlush
<1>7. ASSUME ~wire.hijacked, CallStep(NoteHijack(rec), [wire EXCEPT !.hijacked = TRUE])
      PROVE  Agrees'
  BY <1>1, <1>7 DEF NoteHijack
<1>8. ASSUME CallStep(rec, wire) PROVE Agrees'
  BY <1>8
<1> QED
  BY <1>3, <1>4, <1>5, <1>6, <1>7, <1>8 DEF Written

LEMMA FreshNext == Fresh /\ [RequestNext]_requestVars => Fresh'
<1> SUFFICES ASSUME Fresh, [RequestNext]_requestVars, pc' = "start"
             PROVE  UNCHANGED requestVars
  BY DEF Fresh, requestVars
<1>1. CASE Written
  BY <1>1 DEF Written, CallStep, Serving, Ends
<1> QED
  BY <1>1, CalledWrites
     DEF RequestNext, Begin, Serving, HandlerEnds, Ends, LogReturned, Deferred

LEMMA AgreesNext ==
  Typed /\ Fresh /\ Agrees /\ [RequestNext]_requestVars => Agrees'
<1> SUFFICES ASSUME Typed, Fresh, Agrees, [RequestNext]_requestVars
             PROVE  Agrees'
  OBVIOUS
<1>1. CASE Written
  BY <1>1, WrittenAgrees
<1>2. CASE Begin
  BY <1>2 DEF Begin, Fresh, Agrees, SentStatus
<1>3. CASE UNCHANGED <<recorded, rec, wire, misled>>
  BY <1>3 DEF Agrees, SentStatus
<1>4. Begin \/ Written \/ UNCHANGED <<recorded, rec, wire, misled>>
  BY CalledWrites
     DEF RequestNext, requestVars, HandlerEnds, LogReturned, Deferred
<1> QED
  BY <1>1, <1>2, <1>3, <1>4

-----------------------------------------------------------------------------
IInv == Typed /\ Rest /\ Fresh /\ Agrees

LEMMA Invariance == RequestSpec => []IInv
<1>1. RequestInit => IInv
  BY TypedInit, RestInit, AgreesInit DEF IInv
<1>2. IInv /\ [RequestNext]_requestVars => IInv'
  BY TypedNext, RestNext, FreshNext, AgreesNext DEF IInv
<1> QED
  BY <1>1, <1>2, PTL DEF RequestSpec

(* The middleware is type correct.                                         *)
THEOREM TypeCorrect == RequestSpec => []RequestTypeOK
<1>1. IInv => RequestTypeOK
  BY DEF IInv, Typed
<1> QED
  BY <1>1, Invariance, PTL

(* Once a request is done it was logged exactly once, if it was not        *)
(* skipped, its handler returned or panicked and the record's level is     *)
(* enabled, and not at all otherwise; no request is ever logged twice.     *)
THEOREM LoggedOnce == RequestSpec => []OneRecord
<1>1. IInv => OneRecord
  BY DEF IInv, Rest
<1> QED
  BY <1>1, Invariance, PTL

(* Panics, aborts and Goexit pass through the middleware.                  *)
THEOREM PassedOn == RequestSpec => []EndsAlike
<1>1. IInv => EndsAlike
  BY DEF IInv, Rest
<1> QED
  BY <1>1, Invariance, PTL

(* Whatever order the handler calls the response writer in, the status and *)
(* level logged are those of the response, unless a call misled.           *)
THEOREM StatusIsTrue == RequestSpec => []TrueUnlessMisled
<1>1. ASSUME IInv, ~misled, NEW i \in 1..Len(log) PROVE Tells(i)
  <2>1. /\ recorded
        /\ log[i].status = Status(log[i].panicked)
        /\ log[i].level = LevelFor(Status(log[i].panicked), log[i].panicked)
    BY <1>1 DEF IInv, Rest, Faithful
  <2>2. rec.status = SentStatus(TRUE)
    BY <1>1, <2>1 DEF IInv, Agrees
  <2>3. Status(log[i].panicked) = SentStatus(log[i].panicked)
    BY <2>2 DEF Status, SentStatus
  <2> QED
    BY <2>1, <2>3 DEF Tells
<1>2. IInv => TrueUnlessMisled
  BY <1>1 DEF TrueUnlessMisled
<1> QED
  BY <1>2, Invariance, PTL

(* The size logged is what the writer below took.                          *)
THEOREM SizeIsTrue == RequestSpec => []BytesAreTaken
<1>1. ASSUME IInv PROVE BytesAreTaken
  BY <1>1 DEF IInv, Rest, Faithful, Agrees, BytesAreTaken
<1> QED
  BY <1>1, Invariance, PTL
=============================================================================
