------------------------------- MODULE Levels --------------------------------
(***************************************************************************)
(* Levels as numbers, and as texts such as "INFO+1": a name, which is ""   *)
(* in front of a plain number, and an offset. Case and spaces around a     *)
(* text do not matter to the code and are left out.                        *)
(***************************************************************************)
EXTENDS Integers

CONSTANTS
  Malformed, \* an offset that is no number
  Invalid    \* the error of ParseLevel

LevelDebug == -4
LevelInfo == 0
LevelWarn == 4
LevelError == 8

LevelTrace == LevelDebug - 4
LevelSuccess == LevelInfo + 2
LevelFatal == LevelError + 4

Text(name, offset) == [name |-> name, offset |-> offset]

(* slog.Level.String                                                       *)
SlogString(l) ==
  IF l < LevelInfo THEN Text("DEBUG", l - LevelDebug)
  ELSE IF l < LevelWarn THEN Text("INFO", l - LevelInfo)
  ELSE IF l < LevelError THEN Text("WARN", l - LevelWarn)
  ELSE Text("ERROR", l - LevelError)

LevelName(l) ==
  IF l = LevelFatal THEN Text("FATAL", 0)
  ELSE IF l = LevelSuccess THEN Text("SUCCESS", 0)
  ELSE IF l = LevelTrace THEN Text("TRACE", 0)
  ELSE SlogString(l)

Named ==
  [TRACE |-> LevelTrace, DEBUG |-> LevelDebug, INFO |-> LevelInfo,
   SUCCESS |-> LevelSuccess, WARN |-> LevelWarn, WARNING |-> LevelWarn,
   ERROR |-> LevelError, FATAL |-> LevelFatal]

(* As ParseLevel, but the sign is not part of the offset.                  *)
ParseLevelUnsigned(t) ==
  IF t.offset = Malformed THEN Invalid
  ELSE IF t.name = "" THEN t.offset
  ELSE IF t.name \notin DOMAIN Named THEN Invalid
  ELSE Named[t.name] + (IF t.offset < 0 THEN -t.offset ELSE t.offset)

ParseLevel(t) ==
  IF t.offset = Malformed THEN Invalid
  ELSE IF t.name = "" THEN t.offset
  ELSE IF t.name \notin DOMAIN Named THEN Invalid
  ELSE Named[t.name] + t.offset
=============================================================================
