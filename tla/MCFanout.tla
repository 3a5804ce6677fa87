------------------------------ MODULE MCFanout -------------------------------
(***************************************************************************)
(* An instance of Fanout for TLC: a writer that may fail, a test logger    *)
(* and a writer that does not fail.                                        *)
(***************************************************************************)
EXTENDS Fanout

CONSTANTS g1, g2, file, test, buffer, debug, warn

MCOrder == <<file, test, buffer>>
MCGiven == <<file, None, test, buffer>>
MCLevelOf == [r \in {debug, warn} |-> IF r = debug THEN LevelDebug ELSE LevelWarn]
MCVarLevels == {LevelDebug, LevelError}

(* The named levels, and some next to them.                                *)
MCWrittenLevels == (LevelTrace - 1)..(LevelFatal + 1)
MCUsedLevels == {Var, LevelInfo}

MCOptions ==
  {[by |-> "level", value |-> v] : v \in {None, Var, LevelInfo}}
  \cup {[by |-> "env", value |-> None]}
  \cup {[by |-> "env", value |-> t] :
          t \in {Text("LOUD", 0), Text("INFO", Malformed)}}
  \cup {[by |-> "env", value |-> t] :
          t \in {LevelName(l) : l \in MCWrittenLevels} \cup {Text("", LevelWarn)}}
=============================================================================
