------------------------------ MODULE Presets -------------------------------
(***************************************************************************)
(* The presets of preset.go: what JSON output calls the time, level,       *)
(* message and source of a record, and the level itself, for a log         *)
(* platform.                                                               *)
(***************************************************************************)
EXTENDS Levels

GcpSeverity(l) ==
  IF l >= LevelFatal THEN "CRITICAL"
  ELSE IF l >= LevelError THEN "ERROR"
  ELSE IF l >= LevelWarn THEN "WARNING"
  ELSE IF l >= LevelSuccess THEN "NOTICE"
  ELSE IF l >= LevelInfo THEN "INFO"
  ELSE "DEBUG"

DatadogStatus(l) ==
  IF l >= LevelFatal THEN "critical"
  ELSE IF l >= LevelError THEN "error"
  ELSE IF l >= LevelWarn THEN "warn"
  ELSE IF l >= LevelSuccess THEN "success"
  ELSE IF l >= LevelInfo THEN "info"
  ELSE IF l >= LevelDebug THEN "debug"
  ELSE "trace"

PresetNames == {"slog", "gcp", "datadog"}

(* The keys of the built-in attributes, by the keys slog has for them.     *)
PresetKeys ==
  [slog |-> [time |-> "time", level |-> "level", msg |-> "msg", source |-> "source"],
   gcp |-> [time |-> "time", level |-> "severity", msg |-> "message",
            source |-> "logging.googleapis.com/sourceLocation"],
   datadog |-> [time |-> "timestamp", level |-> "status", msg |-> "message",
                source |-> "source"]]

(* presetSpec.builtinKey                                                   *)
BuiltinKey(preset, key) ==
  IF key \in DOMAIN PresetKeys[preset] THEN PresetKeys[preset][key] ELSE key

HasLevelName(preset) == preset # "slog"

PresetLevelName(preset, l) ==
  IF preset = "gcp" THEN GcpSeverity(l) ELSE DatadogStatus(l)

=============================================================================
