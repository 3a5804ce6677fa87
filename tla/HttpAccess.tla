----------------------------- MODULE HttpAccess -----------------------------
(***************************************************************************)
(* gloqhttp.Middleware around one request: the wrapped handler writes its  *)
(* response through a recorder that notes status and size, and one access  *)
(* record is logged when it is done. Request IDs are left out.             *)
(*                                                                         *)
(* The wrapped handler is user code that may call the response writer in   *)
(* any order, return, panic, abort or end its goroutine. The writer below  *)
(* the recorder belongs to net/http and is external.                       *)
(***************************************************************************)
EXTENDS Integers, Sequences, FiniteSets

CONSTANTS
  Statuses,      \* what handlers pass to WriteHeader
  Sizes,         \* sizes of what handlers write
  MaxCalls,      \* bound on the wrapped handler's calls
  Setups         \* see Setup

AccessLevels == {"info", "warn", "error"}

(* Whether the writer below can flush and be hijacked, and the levels the  *)
(* logger is enabled for.                                                  *)
Setup == [flush : BOOLEAN, hijack : BOOLEAN, enabled : SUBSET AccessLevels]

ASSUME HttpAssumption ==
  /\ Statuses \subseteq Nat \ {0}
  /\ Sizes \subseteq Nat
  /\ MaxCalls \in Nat
  /\ Setups \subseteq Setup

VARIABLES
  setup,      \* what the middleware was set up with
  pc,         \* where the middleware is
  recorded,   \* whether the handler writes through a recorder
  completed,  \* whether next.ServeHTTP has returned
  active,     \* what is unwinding the middleware, or "none"
  rec,        \* responseRecorder: the status and bytes noted
  wire,       \* the writer below: the status sent, the bytes taken, hijacked
  calls,      \* calls the wrapped handler has made
  log         \* access records given to the logger's handler

(* Not in the code: how the wrapped handler ended, and whether the recorder*)
(* has taken a call for one that sends a header, or the other way round.   *)
VARIABLES ending, misled

requestVars ==
  <<setup, pc, recorded, completed, active, rec, wire, calls, log, ending,
    misled>>

middleware == <<setup, recorded, completed, active>>

RequestInit ==
  /\ setup \in Setups
  /\ pc = "start"
  /\ recorded = FALSE
  /\ completed = FALSE
  /\ active = "none"
  /\ rec = [status |-> 0, bytes |-> 0]
  /\ wire = [status |-> 0, bytes |-> 0, hijacked |-> FALSE]
  /\ calls = 0
  /\ log = <<>>
  /\ ending = "none"
  /\ misled = FALSE

(* Requests that WithSkip's function skips get no recorder.                *)
Begin ==
  /\ pc = "start"
  /\ recorded' \in BOOLEAN
  /\ pc' = "serve"
  /\ UNCHANGED <<setup, completed, active, rec, wire, calls, log, ending,
                 misled>>

-----------------------------------------------------------------------------
(* The writer below, as net/http has it.                                   *)

Informational(s) == s \in 100..199 /\ s # 101

ValidStatus(s) == s \in 100..999

(* WriteHeader: ignored once a header was sent or the connection hijacked. *)
WireHeader(w, s) ==
  IF w.hijacked \/ w.status # 0 \/ Informational(s) \/ ~ValidStatus(s) THEN w
  ELSE [w EXCEPT !.status = s]

(* It panics when given a status that is none.                             *)
HeaderPanics(w, s) == ~w.hijacked /\ w.status = 0 /\ ~ValidStatus(s)

BodyAllowed(s) == s >= 200 /\ s \notin {204, 304}

(* How many of n bytes Write may take.                                     *)
Takes(w, n) ==
  IF w.hijacked THEN {0}
  ELSE IF w.status = 0 \/ BodyAllowed(w.status) THEN 0..n ELSE {0}

WireWrite(w, m) ==
  IF w.hijacked THEN w
  ELSE [w EXCEPT !.status = IF @ = 0 THEN 200 ELSE @, !.bytes = @ + m]

(* Reading from a source with nothing in it does not get as far as Write.  *)
WireReadFrom(w, n, m) == IF n = 0 THEN w ELSE WireWrite(w, m)

WireFlush(w) ==
  IF setup.flush /\ ~w.hijacked /\ w.status = 0 THEN [w EXCEPT !.status = 200]
  ELSE w

-----------------------------------------------------------------------------
(* The recorder.                                                           *)

(* As NoteHeader, but informational responses are noted.                   *)
NoteInformational(r, s) == IF r.status = 0 THEN [r EXCEPT !.status = s] ELSE r

(* As NoteHeader, but the last status is noted instead of the first.       *)
NoteLast(r, s) == IF s \notin 100..199 THEN [r EXCEPT !.status = s] ELSE r

(* WriteHeader: informational responses are not noted.                     *)
NoteHeader(r, s) ==
  IF r.status = 0 /\ s \notin 100..199 THEN [r EXCEPT !.status = s] ELSE r

(* Write, ReadFrom and Flush send a 200 header if there is none.           *)
NoteOK(r) == IF r.status = 0 THEN [r EXCEPT !.status = 200] ELSE r

NoteBytes(r, m) == [r EXCEPT !.bytes = @ + m]

NoteHijack(r) == IF r.status = 0 THEN [r EXCEPT !.status = 101] ELSE r

(* A call on the writer the handler was given; misleading if the recorder  *)
(* and the writer below differ on whether a header is sent.                *)
Called(r, w, misleading) ==
  /\ rec' = IF recorded THEN r ELSE rec
  /\ wire' = w
  /\ misled' = (misled \/ (misleading /\ rec.status = 0))
  /\ calls' = calls + 1

Serving == pc = "serve" /\ calls < MaxCalls

(* As Ends, but a return is never marked as completed.                     *)
EndsUnmarked(how) ==
  /\ ending' = how
  /\ active' = IF how = "returns" THEN "none" ELSE how
  /\ completed' = FALSE
  /\ pc' = IF ~recorded THEN "done"
           ELSE IF how = "returns" THEN "log" ELSE "deferred"

(* What the wrapped handler ends with unwinds the middleware.              *)
Ends(how) ==
  /\ ending' = how
  /\ active' = IF how = "returns" THEN "none" ELSE how
  /\ completed' = (recorded /\ how = "returns")
  /\ pc' = IF ~recorded THEN "done"
           ELSE IF how = "returns" THEN "log" ELSE "deferred"

WriteHeader ==
  /\ Serving
  /\ \E s \in Statuses :
       /\ Called(NoteHeader(rec, s), WireHeader(wire, s),
                 s = 101 \/ ~ValidStatus(s))
       /\ \/ UNCHANGED <<pc, ending, active, completed>>
          \/ HeaderPanics(wire, s) /\ Ends("panics")
  /\ UNCHANGED <<setup, recorded, log>>

(* As Write, but all of the data is counted, taken or not.                 *)
WriteCountsAll ==
  /\ Serving
  /\ \E n \in Sizes : \E m \in Takes(wire, n) :
       Called(NoteBytes(NoteOK(rec), n), WireWrite(wire, m), FALSE)
  /\ UNCHANGED <<pc, middleware, log, ending>>

Write ==
  /\ Serving
  /\ \E n \in Sizes : \E m \in Takes(wire, n) :
       Called(NoteBytes(NoteOK(rec), m), WireWrite(wire, m), FALSE)
  /\ UNCHANGED <<pc, middleware, log, ending>>

ReadFrom ==
  /\ Serving
  /\ \E n \in Sizes : \E m \in Takes(wire, n) :
       Called(NoteBytes(NoteOK(rec), m), WireReadFrom(wire, n, m), n = 0)
  /\ UNCHANGED <<pc, middleware, log, ending>>

Flush ==
  /\ Serving
  /\ Called(NoteOK(rec), WireFlush(wire), ~setup.flush)
  /\ UNCHANGED <<pc, middleware, log, ending>>

Hijack ==
  /\ Serving
  /\ IF setup.hijack /\ ~wire.hijacked
     THEN Called(NoteHijack(rec), [wire EXCEPT !.hijacked = TRUE], FALSE)
     ELSE Called(rec, wire, FALSE)
  /\ UNCHANGED <<pc, middleware, log, ending>>

(* next.ServeHTTP ends. ErrAbortHandler is the panic of one that aborts.   *)
HandlerEnds ==
  /\ pc = "serve"
  /\ \E how \in {"returns", "panics", "aborts", "goexits"} : Ends(how)
  /\ UNCHANGED <<setup, recorded, rec, wire, calls, log, misled>>

-----------------------------------------------------------------------------
(* logRequest: the status is the one noted, or the 200 net/http will send. *)
Status(panicked) == IF rec.status = 0 /\ ~panicked THEN 200 ELSE rec.status

LevelFor(status, panicked) ==
  IF panicked \/ status >= 500 THEN "error"
  ELSE IF status >= 400 THEN "warn"
  ELSE "info"

AccessRecord(panicked) ==
  [status |-> Status(panicked), bytes |-> rec.bytes,
   level |-> LevelFor(Status(panicked), panicked), panicked |-> panicked]

(* Whether the record's level is enabled.                                  *)
Enabled(panicked) == AccessRecord(panicked).level \in setup.enabled

(* logRequest logs if the level is enabled; the handler that is given the  *)
(* record may panic.                                                       *)
LogRequest(panicked) ==
  IF Enabled(panicked)
  THEN /\ log' = Append(log, AccessRecord(panicked))
       /\ active' \in {active, "loggerPanics"}
  ELSE UNCHANGED <<log, active>>

LogReturned ==
  /\ pc = "log"
  /\ LogRequest(FALSE)
  /\ pc' = "deferred"
  /\ UNCHANGED <<setup, recorded, completed, rec, wire, calls, ending, misled>>

(* As Deferred, but a panic is recovered and not passed on.                *)
DeferredSwallows ==
  /\ pc = "deferred"
  /\ IF completed \/ active \in {"none", "goexits", "aborts"}
     THEN UNCHANGED <<log, active>>
     ELSE /\ log' = Append(log, AccessRecord(TRUE))
          /\ active' = "none"
  /\ pc' = "done"
  /\ UNCHANGED <<setup, recorded, completed, rec, wire, calls, ending, misled>>

(* The deferred function: nothing more to do for a completed request, nor  *)
(* where recover returns nil, as for Goexit, nor for an abort; other panics*)
(* are logged. What was unwinding goes on unwinding.                       *)
Deferred ==
  /\ pc = "deferred"
  /\ IF completed \/ active \in {"none", "goexits", "aborts"}
     THEN UNCHANGED <<log, active>>
     ELSE LogRequest(TRUE)
  /\ pc' = "done"
  /\ UNCHANGED <<setup, recorded, completed, rec, wire, calls, ending, misled>>

RequestNext ==
  \/ Begin
  \/ WriteHeader \/ Write \/ ReadFrom \/ Flush \/ Hijack
  \/ HandlerEnds \/ LogReturned \/ Deferred

RequestSpec == RequestInit /\ [][RequestNext]_requestVars

-----------------------------------------------------------------------------
(* What a recorder may note, and what the writer below may have.           *)
Recs == [status : {0, 101, 200} \cup (Statuses \ 100..199), bytes : Nat]

Wires == [status : {0, 200} \cup Statuses, bytes : Nat, hijacked : BOOLEAN]

(* The type invariant.                                                     *)
RequestTypeOK ==
  /\ setup \in Setup
  /\ pc \in {"start", "serve", "log", "deferred", "done"}
  /\ recorded \in BOOLEAN
  /\ completed \in BOOLEAN
  /\ active \in {"none", "panics", "aborts", "goexits", "loggerPanics"}
  /\ rec \in Recs
  /\ wire \in Wires
  /\ calls \in 0..MaxCalls
  /\ ending \in {"none", "returns", "panics", "aborts", "goexits"}
  /\ misled \in BOOLEAN

(* "writes one record per request": once a request is done it was logged  *)
(* exactly once if it was not skipped, its handler returned or panicked    *)
(* and the level its record has is enabled; requests that were skipped,    *)
(* aborted or left by Goexit were not logged. At no time is there a second *)
(* record, not even when the logger panics and the deferred function runs. *)
OneRecord ==
  /\ Len(log) <= 1
  /\ pc = "done" =>
       (Len(log) = 1 <=> /\ recorded
                         /\ ending \in {"returns", "panics"}
                         /\ Enabled(ending = "panics"))

(* "the panic continues as before", and so do an abort and Goexit: the     *)
(* middleware ends as the handler it wraps did, unless logging panics.     *)
EndsAlike ==
  pc = "done" =>
    \/ active = "loggerPanics"
    \/ active = IF ending = "returns" THEN "none" ELSE ending

(* The status of the response: 200 if the handler returned without sending *)
(* any, and none if it panicked.                                           *)
SentStatus(panicked) ==
  IF wire.status # 0 THEN wire.status
  ELSE IF wire.hijacked THEN 101
  ELSE IF panicked THEN 0 ELSE 200

(* Access record i has the status of the response that was sent, and the   *)
(* level that status calls for.                                            *)
Tells(i) ==
  LET sent == SentStatus(log[i].panicked)
  IN  /\ log[i].status = sent
      /\ log[i].level = LevelFor(sent, log[i].panicked)

(* "one record per request, with its [...] status [...], at INFO, WARN for *)
(* 4xx responses, or ERROR for 5xx responses and panics": so for every     *)
(* handler that returns.                                                   *)
StatusIsSent == \A i \in 1..Len(log) : ~log[i].panicked => Tells(i)

(* The same for handlers that panic as well, whatever the order of a       *)
(* handler's calls, unless one of them misled the recorder: a flush the    *)
(* writer below does not do, a source without bytes, or a WriteHeader with *)
(* 101 or with a number that is no status.                                 *)
TrueUnlessMisled == ~misled => \A i \in 1..Len(log) : Tells(i)

(* The size in the access record is what the writer below took, after      *)
(* short writes, writes without a body and hijacked connections as well.   *)
BytesAreTaken == \A i \in 1..Len(log) : log[i].bytes = wire.bytes
=============================================================================
