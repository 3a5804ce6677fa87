---------------------------- MODULE HandlerSetup -----------------------------
(***************************************************************************)
(* NewHandler and NewTestLogger, as far as levels go: the options are      *)
(* applied one after the other to the defaults, and the level they settle  *)
(* on is the handler's. An environment variable that names no level is     *)
(* reported by the new handler itself, in a WARN record.                   *)
(***************************************************************************)
EXTENDS Levels, Sequences

CONSTANTS
  Order,       \* the handlers made, one after the other
  TestLoggers, \* those that NewTestLogger makes
  Failing,     \* those whose writer may fail or panic
  Options,     \* what they are made with
  WrittenLevels, \* the levels that variables may be set to
  Var,         \* the *slog.LevelVar some of them share
  MaxOptions,  \* bound on the options of a handler
  UsedLevels,  \* bound: handlers with other levels are not used further
  Report,      \* the WARN record
  None         \* no level, an unset variable, no error

Handlers == {Order[i] : i \in DOMAIN Order}

(* The ways to write level l: its name and its number.                     *)
Written(l) == {LevelName(l), Text("", l)}

ASSUME SetupAssumption ==
  /\ Order \in Seq(Handlers)
  /\ \A i, j \in DOMAIN Order : Order[i] = Order[j] => i = j
  /\ MaxOptions \in Nat
  /\ WrittenLevels \subseteq Int
  /\ None # Var
  /\ Invalid \notin Int \cup {None, Var}
  /\ {None, Var, Malformed} \cap Int = {}

(* What the options are made with: a leveler or nil, or a variable, which  *)
(* is unset, holds a level in one of the two ways, or names no level.      *)
ASSUME OptionsAssumption ==
  \A o \in Options :
    \/ o.by = "level" /\ o.value \in Int \cup {Var, None}
    \/ /\ o.by = "env"
       /\ \/ o.value = None
          \/ \E l \in WrittenLevels : o.value \in Written(l)
          \/ ParseLevel(o.value) = Invalid

VARIABLES
  made,    \* how many handlers there are
  given,   \* the options applied so far to the next one
  config,  \* its config, as far as levels go
  leveler, \* per handler: its level, Var, or None before it is made
  taken    \* per handler: the records its writer has taken

setupVars == <<made, given, config, leveler, taken>>

(* As WithLevel, but nil is not ignored.                                   *)
WithLevelNil(c, level) == [level |-> level, levelErr |-> None]

(* As WithLevel, but nil discards an error.                                *)
WithLevelClearing(c, level) ==
  IF level = None THEN [c EXCEPT !.levelErr = None]
  ELSE [level |-> level, levelErr |-> None]

(* WithLevel; level may be nil. A level that is set makes up for an        *)
(* invalid one.                                                            *)
WithLevel(c, level) ==
  IF level = None THEN c ELSE [level |-> level, levelErr |-> None]

(* WithLevelFromEnv; value is that of the variable, None if it is unset or *)
(* empty.                                                                  *)
WithLevelFromEnv(c, value) ==
  IF value = None THEN c
  ELSE IF ParseLevel(value) = Invalid THEN [c EXCEPT !.levelErr = value]
  ELSE WithLevel(c, ParseLevel(value))

(* The config that the options of the i-th handler are applied to.         *)
StartConfig(i) ==
  LET default == [level |-> LevelInfo, levelErr |-> None]
  IN  IF i \in DOMAIN Order /\ Order[i] \in TestLoggers
      THEN WithLevel(default, LevelTrace) ELSE default

SetupInit ==
  /\ made = 0
  /\ given = <<>>
  /\ config = StartConfig(1)
  /\ leveler = [h \in Handlers |-> None]
  /\ taken = [h \in Handlers |-> <<>>]

Ready == made = Len(Order)

(* Bound: the handlers made so far have levels that are used, and none of  *)
(* them had an invalid value to report.                                    *)
InUse ==
  \A i \in 1..made :
    /\ leveler[Order[i]] \in UsedLevels
    /\ \A n \in DOMAIN taken[Order[i]] : taken[Order[i]][n].rec # Report

ApplyOption ==
  /\ ~Ready /\ InUse
  /\ Len(given) < MaxOptions
  /\ \E o \in Options :
       /\ given' = Append(given, o)
       /\ config' = IF o.by = "level" THEN WithLevel(config, o.value)
                    ELSE WithLevelFromEnv(config, o.value)
  /\ UNCHANGED <<made, leveler, taken>>

(* The WARN record that reports an invalid value.                          *)
Reported(value) == <<[rec |-> Report, attrs |-> <<value>>]>>

(* The handler is made, and reports the error that is left, if any, by a   *)
(* call of Handle, which asks for no level; errors of the writer are       *)
(* ignored.                                                                *)
NewHandler ==
  /\ ~Ready /\ InUse
  /\ LET h == Order[made + 1]
     IN  /\ leveler' = [leveler EXCEPT ![h] = config.level]
         /\ \/ /\ config.levelErr # None
               /\ taken' = [taken EXCEPT ![h] = Reported(config.levelErr)]
            \/ /\ config.levelErr = None \/ h \in Failing
               /\ UNCHANGED taken
  /\ made' = made + 1
  /\ given' = <<>>
  /\ config' = StartConfig(made + 2)

-----------------------------------------------------------------------------
(* The level an option asks for: None for none.                            *)
Asks(o) ==
  IF o.by = "level" \/ o.value = None THEN o.value
  ELSE IF \E l \in WrittenLevels : o.value \in Written(l)
  THEN CHOOSE l \in WrittenLevels : o.value \in Written(l)
  ELSE Invalid

AskValid == {i \in DOMAIN given : Asks(given[i]) \notin {None, Invalid}}

AskInvalid == {i \in DOMAIN given : Asks(given[i]) = Invalid}

IsLast(i, S) == \A j \in S : j <= i

(* Whatever the order of options, nil levels, unset and invalid variables  *)
(* included, the last valid level is the one that counts, and a level can  *)
(* be written as Level.String writes it, or as a number.                   *)
LastLevelWins ==
  IF AskValid = {} THEN config.level = StartConfig(made + 1).level
  ELSE \E i \in AskValid : IsLast(i, AskValid) /\ config.level = Asks(given[i])

(* NewHandler is called and returns handler h.                             *)
IsMade(h) == leveler[h] = None /\ leveler'[h] # None

(* "An invalid value is reported once with a WARN record when the handler  *)
(* is created", whatever the handler's level: at the least if no option    *)
(* after it asks for another level, be it with nil levels and unset        *)
(* variables behind it. A value that is fine is never reported, nor are    *)
(* there two records.                                                      *)
InvalidIsReported ==
  [][\A h \in Handlers \ Failing : IsMade(h) =>
       /\ \/ taken'[h] = <<>>
          \/ \E i \in AskInvalid : taken'[h] = Reported(given[i].value)
       /\ \A i \in AskInvalid :
            IsLast(i, AskValid \cup AskInvalid) => taken'[h] = Reported(given[i].value)
    ]_setupVars

(* The same of every invalid value, as it says, whichever options follow.  *)
EveryInvalidIsReported ==
  [][\A h \in Handlers \ Failing : IsMade(h) =>
       \A i \in AskInvalid :
         \E n \in DOMAIN taken'[h] : taken'[h][n].attrs = <<given[i].value>>
    ]_setupVars
=============================================================================
