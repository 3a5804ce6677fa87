----------------------------- MODULE Renderings -----------------------------
(***************************************************************************)
(* A fanout of a JSON handler, a pretty handler and a test recorder, from  *)
(* which loggers are derived with With and WithGroup. Each of the three    *)
(* must render every record as the rules of AttrTree say, whatever the     *)
(* history of the logger and whatever ReplaceAttr removes.                 *)
(***************************************************************************)
EXTENDS AttrTree, Presets

CONSTANTS
  AttrLists,  \* what With and the logging functions are given
  Names,      \* what WithGroup is given
  Removals,   \* sets of what ReplaceAttr functions may remove
  RecordKinds \* what a record has besides attributes

Json == INSTANCE JsonEncoder
Pretty == INSTANCE PrettyEncoder
Recorded == INSTANCE RecordTree

(* A source has fields that are no groups, and is logged like attributes;  *)
(* so is the stack of a TRACE record.                                      *)
ASSUME RenderingAssumption ==
  /\ Json!StackAttr \in Attrs \cap Leaves
  /\ AttrLists \subseteq Seq(Attrs)
  /\ Names \subseteq STRING \cup {NoKey}
  /\ RecordKinds \subseteq [time : BOOLEAN, level : Int, pc : BOOLEAN,
                             source : Seq(Attrs \cap Leaves)]

(* The names the code has for what is built in. The provers are not told   *)
(* that a literal is a string, TLC finds that it is.                       *)
ASSUME LiteralAssumption ==
  /\ \A preset \in PresetNames :
       \A key \in DOMAIN PresetKeys[preset] : PresetKeys[preset][key] \in STRING
  /\ {"TRACE", "DEBUG", "INFO", "SUCCESS", "WARN", "ERROR", "FATAL"} \subseteq STRING
  /\ {"DEBUG", "INFO", "NOTICE", "WARNING", "ERROR", "CRITICAL"} \subseteq STRING
  /\ {"trace", "debug", "info", "success", "warn", "error", "critical"} \subseteq STRING
  /\ {"stamp", "message"} \subseteq STRING

VARIABLES removed, record, steps, json, pretty, recorder

loggerVars == <<removed, record, steps, json, pretty, recorder>>

(* The options of both handlers. Without ReplaceAttr functions nothing is  *)
(* removed.                                                                *)
Options ==
  {o \in [transforms : BOOLEAN, removed : {removed}, preset : PresetNames,
          addSource : BOOLEAN] : o.transforms \/ removed = {}}

(* New handlers and what they will be given to log, but for attributes.    *)
LoggerInit ==
  /\ removed \in Removals
  /\ record \in RecordKinds
  /\ steps = <<>>
  /\ \E options \in Options :
       /\ json = Json!NewHandler(options)
       /\ pretty = Pretty!NewHandler(options)
  /\ recorder = Recorded!NewRecorder

(* fanoutHandler.WithAttrs                                                 *)
With(attrs) ==
  /\ steps' = Append(steps, AttrStep(attrs))
  /\ json' = Json!WithAttrs(json, attrs)
  /\ pretty' = Pretty!WithAttrs(pretty, attrs)
  /\ recorder' = Recorded!WithAttrs(recorder, attrs)
  /\ UNCHANGED <<removed, record>>

(* fanoutHandler.WithGroup                                                 *)
WithGroup(name) ==
  /\ steps' = Append(steps, GroupStep(name))
  /\ json' = Json!WithGroup(json, name)
  /\ pretty' = Pretty!WithGroup(pretty, name)
  /\ recorder' = Recorded!WithGroup(recorder, name)
  /\ UNCHANGED <<removed, record>>

LoggerNext ==
  (\E attrs \in AttrLists : With(attrs)) \/ (\E name \in Names : WithGroup(name))

LoggerSpec == LoggerInit /\ [][LoggerNext]_loggerVars

-----------------------------------------------------------------------------
(* The built-in levels, and the names platforms have for them.             *)
BuiltInLevels ==
  <<LevelTrace, LevelDebug, LevelInfo, LevelSuccess, LevelWarn, LevelError,
    LevelFatal>>

LevelNames ==
  [gcp |-> <<"DEBUG", "DEBUG", "INFO", "NOTICE", "WARNING", "ERROR", "CRITICAL">>,
   datadog |-> <<"trace", "debug", "info", "success", "warn", "error", "critical">>]

(* The number of the built-in level at or below l, or of the lowest.       *)
LevelBelow(l) ==
  CHOOSE i \in DOMAIN BuiltInLevels :
    /\ i = 1 \/ BuiltInLevels[i] <= l
    /\ i = Len(BuiltInLevels) \/ l < BuiltInLevels[i + 1]

ShownLevel(preset, l) ==
  IF preset = "slog" THEN LevelTok(LevelName(l))
  ELSE ValTok(LevelNames[preset][LevelBelow(l)])

(* The members of a JSON object for what is built in: what options o leave *)
(* of it, as slog names it, under the names of the preset. A source is a   *)
(* group of the fields that are known.                                     *)
BuiltinMembers(o) ==
  LET fields == Kept("json", record.source, <<>>, o.removed)
      Member(key, tokens, is) ==
        IF is /\ <<<<>>, key>> \notin o.removed
        THEN <<<<KeyTok(PresetKeys[o.preset][key])>> \o tokens>> ELSE <<>>
  IN  Member("time", <<ValTok(Json!TimeVal)>>, record.time)
        \o Member("level", <<ShownLevel(o.preset, record.level)>>, TRUE)
        \o Member("source", JsonObject(fields),
                 o.addSource /\ record.pc /\ fields # <<>>)
        \o Member("msg", <<ValTok(Json!MessageVal)>>, TRUE)

(* A TRACE record's stack as an attribute, if its caller is known.         *)
TraceAttrs ==
  IF record.level <= LevelTrace /\ record.pc THEN <<Json!StackAttr>> ELSE <<>>

(* The items of a pretty line for what is built in. The fields of a source *)
(* are one item, which no preset changes.                                  *)
PrettyItems(o) ==
  LET Item(key, val, is) ==
        IF is /\ <<<<>>, key>> \notin o.removed THEN <<<<<<>>, key, val>>>> ELSE <<>>
  IN  Item("time", Pretty!TimeVal, record.time)
        \o Item("level", LevelName(record.level), TRUE)
        \o Item("source", Pretty!SourceVal, o.addSource /\ record.pc)
        \o Item("msg", Pretty!MessageVal, TRUE)

(* Every JSON line is one well-formed object with exactly the attributes   *)
(* that are kept, in order and in their groups: "a group whose attributes  *)
(* are all removed is left out completely", commas are neither missing nor *)
(* left over, and ReplaceAttr functions are told the right groups. Time,   *)
(* level, source and message come first, under the keys of the preset:     *)
(* "Levels between the built-in ones take the name of the level below      *)
(* them", ReplaceAttr functions "still see slog's standard keys", and one  *)
(* that removes nothing changes nothing. "Every TRACE record carries its   *)
(* call stack", as its last attribute, in its logger's groups, which it    *)
(* keeps from being left out unless it is removed as well.                 *)
JsonTellsAll ==
  \A attrs \in AttrLists :
    Json!Line(json, record, attrs) =
      JsonObject(BuiltinMembers(json.options)
                   \o Tree("json", steps, attrs \o TraceAttrs, removed))

(* Every pretty line has the same attributes, each with its dotted key,    *)
(* after the built-in ones, which do not depend on the preset. The stack   *)
(* of a TRACE record is below the line.                                    *)
PrettyTellsAll ==
  \A attrs \in AttrLists :
    Pretty!Line(pretty, record, attrs) =
      PrettyItems(pretty.options)
        \o FlattenSeq(Tree("pretty", steps, attrs, removed))

(* Every recorded record has the same attributes, but for ReplaceAttr,     *)
(* which a recorder does not have.                                         *)
RecorderTellsAll ==
  \A attrs \in AttrLists :
    Recorded!RecordAttrs(recorder, attrs) = Tree("record", steps, attrs, {})
=============================================================================
