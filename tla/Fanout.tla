------------------------------- MODULE Fanout --------------------------------
(***************************************************************************)
(* Enabled and Handle of Fanout around handlers as HandlerSetup makes      *)
(* them: several goroutines log, while the level the handlers share is     *)
(* changed, writers fail and panic, and tests end. A call looks at the     *)
(* handlers one by one, first to see whether any is enabled, then to pass  *)
(* the record on to each that is.                                          *)
(***************************************************************************)
EXTENDS HandlerSetup, FiniteSets, Loops

CONSTANTS
  Goroutines,
  Given,     \* what Fanout is called with: the handlers, and None for nil
  Records,   \* records logged, each once
  LevelOf,   \* their levels
  VarLevels, \* what the shared level is set to
  Adders,    \* handlers that add an attribute to the record they are given
  Bug        \* what slog adds when a record was shared without Clone

ASSUME FanoutAssumption ==
  /\ Given \in Seq(Handlers \cup {None})
  /\ {Given[i] : i \in DOMAIN Given} \ {None} = Handlers
  /\ \A i, j \in DOMAIN Given : Given[i] = Given[j] => i = j \/ Given[i] = None
  /\ LevelOf \in [Records -> Int]
  /\ VarLevels \subseteq Int
  /\ Report \notin Records

VARIABLES
  levelVar, \* the value of Var
  ended,    \* the test of the test loggers is over
  call,     \* per goroutine: the logging call it is in, or None
  result    \* per record: its call when it ended, or None

vars == <<made, given, config, leveler, taken, levelVar, ended, call, result>>

(* Fanout leaves nil handlers out.                                         *)
Members == Appended(Given, {i \in DOMAIN Given : Given[i] # None})[Len(Given)]

Points == {"enabled", "check", "handle", "done", "panic", "disabled"}

(* What is known of a call, see Log.                                       *)
Calls ==
  [rec : Records, point : Points, at : 1..(Len(Members) + 1),
   errs : SUBSET Handlers, spare : Handlers \cup {None},
   always : SUBSET Handlers, ever : SUBSET Handlers]

ASSUME CallAssumption == None \notin Calls

(* Enabled of the pretty and the JSON handler.                             *)
EnabledAt(h, r, value) ==
  LevelOf[r] >= IF leveler[h] = Var THEN value ELSE leveler[h]

EnabledNow(r, value) == {h \in Handlers : EnabledAt(h, r, value)}

(* The zero LevelVar is at LevelInfo.                                      *)
Init ==
  /\ SetupInit
  /\ levelVar = LevelInfo
  /\ ended = FALSE
  /\ call = [g \in Goroutines |-> None]
  /\ result = [r \in Records |-> None]

Setup ==
  /\ ApplyOption \/ NewHandler
  /\ UNCHANGED <<levelVar, ended, call, result>>

-----------------------------------------------------------------------------
Current(g) == Members[call[g].at]

AtEnd(g) == call[g].at > Len(Members)

MoveOn(g) == call' = [call EXCEPT ![g].at = @ + 1]

(* The call of g ends.                                                     *)
End(g, last) ==
  /\ result' = [result EXCEPT ![last.rec] = last]
  /\ call' = [call EXCEPT ![g] = None]

(* A goroutine logs. errs is the local of Handle, spare the cell behind    *)
(* the attributes of the record; always and ever keep the handlers that    *)
(* were enabled all the time during the call, and at some time.            *)
Log(g) ==
  /\ Ready /\ InUse
  /\ call[g] = None
  /\ \E r \in Records :
       /\ result[r] = None
       /\ \A p \in Goroutines : call[p] # None => call[p].rec # r
       /\ call' = [call EXCEPT ![g] =
            [rec |-> r, point |-> "enabled", at |-> 1, errs |-> {},
             spare |-> None, always |-> EnabledNow(r, levelVar),
             ever |-> EnabledNow(r, levelVar)]]
  /\ UNCHANGED <<setupVars, levelVar, ended, result>>

(* Enabled asks the next handler, until one is enabled.                    *)
AskEnabled(g) ==
  /\ call[g] # None
  /\ call[g].point = "enabled"
  /\ IF AtEnd(g) THEN End(g, [call[g] EXCEPT !.point = "disabled"])
     ELSE /\ IF EnabledAt(Current(g), call[g].rec, levelVar)
             THEN call' = [call EXCEPT ![g].point = "check", ![g].at = 1]
             ELSE MoveOn(g)
          /\ UNCHANGED result
  /\ UNCHANGED <<setupVars, levelVar, ended>>

(* Handle asks the next handler.                                           *)
Check(g) ==
  /\ call[g] # None
  /\ call[g].point = "check"
  /\ ~AtEnd(g)
  /\ IF EnabledAt(Current(g), call[g].rec, levelVar)
     THEN call' = [call EXCEPT ![g].point = "handle"]
     ELSE MoveOn(g)
  /\ UNCHANGED <<setupVars, levelVar, ended, result>>

(* As Copy, but without Clone: the cell behind the attributes is shared.   *)
SharedCopy(spare) == [room |-> TRUE, spare |-> spare]

(* What Handle passes on: a Clone, with no room behind its attributes.     *)
Copy(spare) == [room |-> FALSE, spare |-> spare]

(* Record.AddAttrs by handler h: what it adds to its copy, and the cell    *)
(* behind the original's attributes afterwards.                            *)
AddAttrs(h, copy) ==
  IF h \notin Adders THEN [attrs |-> <<>>, spare |-> copy.spare]
  ELSE IF ~copy.room THEN [attrs |-> <<h>>, spare |-> copy.spare]
  ELSE IF copy.spare = None THEN [attrs |-> <<h>>, spare |-> h]
  ELSE [attrs |-> <<Bug, h>>, spare |-> copy.spare]

(* What Write of the handler's writer may do. That of a test logger        *)
(* recovers when the test is over, and pretends to have written.           *)
Write(h) ==
  IF h \in TestLoggers THEN IF ended THEN {"dropped"} ELSE {"taken"}
  ELSE IF h \in Failing THEN {"taken", "error", "panic"}
  ELSE {"taken"}

(* As Stops, but an error ends the call as well.                           *)
StopsAtError(how) == how \in {"error", "panic"}

(* An error is kept and the loop goes on; only a panic ends the call.      *)
Stops(how) == how = "panic"

(* Handle of the next handler, with a copy of the record.                  *)
Deliver(g) ==
  /\ call[g] # None
  /\ call[g].point = "handle"
  /\ \E how \in Write(Current(g)) :
       LET h == Current(g)
           added == AddAttrs(h, Copy(call[g].spare))
           entry == [rec |-> call[g].rec, attrs |-> added.attrs]
           next == [call[g] EXCEPT
                      !.spare = added.spare,
                      !.errs = IF how = "error" THEN @ \cup {h} ELSE @]
       IN  /\ taken' = IF how = "taken" THEN [taken EXCEPT ![h] = Append(@, entry)]
                       ELSE taken
           /\ IF Stops(how) THEN End(g, [next EXCEPT !.point = how])
              ELSE /\ call' = [call EXCEPT ![g] =
                        [next EXCEPT !.point = "check", !.at = @ + 1]]
                   /\ UNCHANGED result
  /\ UNCHANGED <<made, given, config, leveler, levelVar, ended>>

(* Handle joins the errors and returns.                                    *)
Return(g) ==
  /\ call[g] # None
  /\ call[g].point = "check"
  /\ AtEnd(g)
  /\ End(g, [call[g] EXCEPT !.point = "done"])
  /\ UNCHANGED <<setupVars, levelVar, ended>>

(* LevelVar.Set, at any time.                                              *)
SetLevel ==
  /\ Ready
  /\ \E value \in VarLevels \ {levelVar} :
       /\ levelVar' = value
       /\ call' = [g \in Goroutines |->
            IF call[g] = None THEN None
            ELSE [call[g] EXCEPT
                    !.always = @ \cap EnabledNow(call[g].rec, value),
                    !.ever = @ \cup EnabledNow(call[g].rec, value)]]
  /\ UNCHANGED <<setupVars, ended, result>>

EndTest ==
  /\ Ready
  /\ ~ended
  /\ ended' = TRUE
  /\ UNCHANGED <<setupVars, levelVar, call, result>>

Step(g) == Log(g) \/ AskEnabled(g) \/ Check(g) \/ Deliver(g) \/ Return(g)

Next == Setup \/ SetLevel \/ EndTest \/ \E g \in Goroutines : Step(g)

Spec == Init /\ [][Next]_vars

-----------------------------------------------------------------------------
CallOK(c) ==
  /\ c \in Calls
  /\ c.point = "handle" => c.at <= Len(Members)
  /\ c.always \subseteq c.ever

(* The type invariant.                                                     *)
TypeOK ==
  /\ made \in 0..Len(Order)
  /\ given \in Seq(Options)
  /\ config.level \in Int \/ config.level = Var
  /\ \A i \in DOMAIN Order : leveler[Order[i]] = None <=> i > made
  /\ \A h \in Handlers : \A n \in DOMAIN taken[h] :
       taken[h][n].rec \in Records \cup {Report}
  /\ levelVar \in VarLevels \cup {LevelInfo}
  /\ ended \in BOOLEAN
  /\ \A g \in Goroutines : call[g] # None => CallOK(call[g])
  /\ \A r \in Records : result[r] # None => CallOK(result[r])

(* Where handler h has record r, and how many times.                      *)
Took(h, r) == {n \in DOMAIN taken[h] : taken[h][n].rec = r}

Times(h, r) == Cardinality(Took(h, r))

(* "Records written after the test has finished are dropped": a goroutine  *)
(* that outlives its test is not ended by a panic of the test's log, and   *)
(* no error of it is reported.                                             *)
TestLoggersNeverFail ==
  \A r \in Records : result[r] # None =>
    /\ result[r].errs \cap TestLoggers = {}
    /\ result[r].point = "panic" => Members[result[r].at] \notin TestLoggers

(* "Every handler gets the record even if an earlier one fails": when      *)
(* Handle has returned, a handler that was enabled throughout the call has *)
(* the record, or is one whose error was joined, or a test logger whose    *)
(* test is over; one that was never enabled has not; none has it twice,    *)
(* and no test logger fails.                                               *)
Accounted ==
  /\ TestLoggersNeverFail
  /\ \A r \in Records, h \in Handlers :
       /\ Times(h, r) <= 1
       /\ result[r] # None /\ result[r].point # "panic" =>
            /\ h \in result[r].always =>
                 \/ Times(h, r) = 1
                 \/ h \in result[r].errs
                 \/ h \in TestLoggers /\ ended
            /\ h \notin result[r].ever => Times(h, r) = 0 /\ h \notin result[r].errs

(* "A handler may add attributes to the record it is given, so each one    *)
(* gets its own copy": no handler sees what another one has added.         *)
OwnCopy ==
  \A h \in Handlers : \A n \in DOMAIN taken[h] :
    taken[h][n].rec \in Records =>
      taken[h][n].attrs = IF h \in Adders THEN <<h>> ELSE <<>>
=============================================================================
