---------------------------- MODULE JsonEncoder -----------------------------
(***************************************************************************)
(* The JSON handler's encoding of json.go, down to its tokens: braces,     *)
(* commas, keys and values. Attributes given to WithAttrs are encoded into *)
(* a prefix once; groups of WithGroup stay pending until something goes in *)
(* them; a group that turns out empty is cut off again.                    *)
(*                                                                         *)
(* A handler is [options, groups, nOpen, prefix], a jsonState [options,    *)
(* buf, sep, groups, track]. Options are [transforms, removed, preset,     *)
(* addSource]: whether there are ReplaceAttr functions, and what they      *)
(* remove.                                                                 *)
(***************************************************************************)
EXTENDS AttrTree, Presets

Tokens ==
  [tok : {"{", "}", ","}] \cup [tok : {"key"}, key : STRING]
    \cup [tok : {"val"}, val : STRING]
    \cup [tok : {"level"}, level : [name : STRING, offset : Int]]

States(o) ==
  [options : {o}, buf : Seq(Tokens), sep : BOOLEAN, groups : Paths, track : BOOLEAN]

NewHandler(options) ==
  [options |-> options, groups |-> <<>>, nOpen |-> 0, prefix |-> <<>>]

Put(s, tokens) == [s EXCEPT !.buf = @ \o tokens]

Comma(s) == IF s.sep THEN Put(s, <<CommaTok>>) ELSE s

AppendKey(s, k) == [Put(Comma(s), <<KeyTok(k)>>) EXCEPT !.sep = TRUE]

OpenGroup(s, name) ==
  [Put(AppendKey(s, name), <<BraceTok>>) EXCEPT
     !.sep = FALSE,
     !.groups = IF s.track THEN Append(@, name) ELSE @]

CloseGroup(s) ==
  [Put(s, <<CloseTok>>) EXCEPT
     !.sep = TRUE,
     !.groups = IF s.track THEN Front(@) ELSE @]

(* A loop that opens all of names.                                         *)
OpenGroups(s, names) ==
  LET after[n \in 0..Len(names)] ==
        IF n = 0 THEN s ELSE OpenGroup(after[n - 1], names[n])
  IN  after[Len(names)]

(* The pending groups of h are opened.                                     *)
OpenPending(s, h) == OpenGroups(s, SubSeq(h.groups, h.nOpen + 1, Len(h.groups)))

(* attrPipeline.apply, in the open groups: whether a function removes an   *)
(* attribute. Without functions there is nothing to ask.                   *)
Removes(s, key) == s.options.transforms /\ <<s.groups, key>> \in s.options.removed

Written(s, written) == [s |-> s, written |-> written]

(* A loop that makes one call of appendAttr after the other: the state, and*)
(* whether anything was written.                                           *)
AppendEach(start, calls) ==
  LET after[n \in 0..Len(calls)] ==
        IF n = 0 THEN Written(start, FALSE)
        ELSE LET last == after[n - 1]
                 next == calls[n][last.s]
             IN  Written(next.s, last.written \/ next.written)
  IN  after[Len(calls)]

AppendLeaf(s, a) ==
  IF Removes(s, a.key) THEN Written(s, FALSE)
  ELSE Written(Put(AppendKey(s, a.key), <<ValTok(a.val)>>), TRUE)

(* A group is encoded like any other list once it is opened.               *)
AppendGroup(s, key, calls) ==
  LET in == AppendEach(IF key = NoKey THEN s ELSE OpenGroup(s, key), calls)
  IN  CASE ~in.written ->
             Written([in.s EXCEPT !.buf = SubSeq(@, 1, Len(s.buf)),
                                  !.sep = s.sep,
                                  !.groups = SubSeq(@, 1, Len(s.groups))], FALSE)
        [] in.written /\ key = NoKey -> in
        [] OTHER -> Written(CloseGroup(in.s), TRUE)

(* appendAttr, under options o.                                            *)
AppendAttr(o) ==
  LET append[a \in Attrs] ==
        [s \in States(o) |->
           CASE a.kind = "empty" -> Written(s, FALSE)
             [] a.kind = "leaf" -> AppendLeaf(s, a)
             [] OTHER ->
                  AppendGroup(s, a.key, [i \in DOMAIN a.attrs |-> append[a.attrs[i]]])]
  IN  append

Calls(o, attrs) == [i \in DOMAIN attrs |-> AppendAttr(o)[attrs[i]]]

AppendAll(s, attrs) == AppendEach(s, Calls(s.options, attrs))

(* The state WithAttrs encodes into. A prefix never ends with an opening   *)
(* brace, but the code asks.                                               *)
PrefixState(h) ==
  [options |-> h.options, buf |-> h.prefix,
   sep |-> h.prefix # <<>> /\ Last(h.prefix) # BraceTok,
   groups |-> SubSeq(h.groups, 1, h.nOpen), track |-> TRUE]

(* As WithAttrs, but the groups opened in the prefix stay pending.         *)
WithAttrsStillPending(h, attrs) ==
  LET end == AppendAll(OpenPending(PrefixState(h), h), attrs)
  IN  IF attrs = <<>> \/ ~end.written THEN h
      ELSE [h EXCEPT !.prefix = end.s.buf]

WithAttrs(h, attrs) ==
  LET end == AppendAll(OpenPending(PrefixState(h), h), attrs)
  IN  IF attrs = <<>> \/ ~end.written THEN h
      ELSE [h EXCEPT !.nOpen = Len(h.groups), !.prefix = end.s.buf]

WithGroup(h, name) ==
  IF name = NoKey THEN h ELSE [h EXCEPT !.groups = Append(@, name)]

-----------------------------------------------------------------------------
(* A record is [time, level, pc, source]: whether it has a time, its level,*)
(* whether it has a PC, and what is known of the source, as attributes.    *)
TimeVal == "stamp"
MessageVal == "message"

(* appendJSONLevel                                                         *)
AppendJSONLevel(key, l) == IF key = "level" THEN LevelName(l) ELSE SlogString(l)

(* What is written for a level.                                            *)
LevelToken(preset, key, l) ==
  IF HasLevelName(preset) THEN ValTok(PresetLevelName(preset, l))
  ELSE LevelTok(AppendJSONLevel(key, l))

(* appendSource; without ReplaceAttr functions the fields are written one  *)
(* by one.                                                                 *)
AppendSource(s, key, fields) ==
  LET open == [Put(AppendKey(s, key), <<BraceTok>>) EXCEPT !.sep = FALSE]
      Field(t, a) == Put(AppendKey(t, a.key), <<ValTok(a.val)>>)
      after[n \in 0..Len(fields)] ==
        IF n = 0 THEN open ELSE Field(after[n - 1], fields[n])
  IN  IF fields = <<>> THEN s
      ELSE IF s.options.transforms
      THEN AppendGroup(s, key, Calls(s.options, fields)).s
      ELSE [Put(after[Len(fields)], <<CloseTok>>) EXCEPT !.sep = TRUE]

(* As AppendBuiltin, but ReplaceAttr functions see the key of the preset.  *)
AppendBuiltinRenamed(s, slogKey, val) ==
  LET o   == s.options
      key == BuiltinKey(o.preset, slogKey)
  IN  IF Removes(s, key) THEN s
      ELSE CASE slogKey = "source" -> AppendSource(s, key, val)
             [] slogKey = "level" ->
                  Put(AppendKey(s, key), <<LevelToken(o.preset, key, val)>>)
             [] OTHER -> Put(AppendKey(s, key), <<ValTok(val)>>)

(* appendBuiltinTime, -Level, -Source and -Message, directly or through    *)
(* ReplaceAttr functions and appendReplaced.                               *)
AppendBuiltin(s, slogKey, val) ==
  LET o   == s.options
      key == BuiltinKey(o.preset, slogKey)
  IN  IF Removes(s, slogKey) THEN s
      ELSE CASE slogKey = "source" -> AppendSource(s, key, val)
             [] slogKey = "level" ->
                  Put(AppendKey(s, key), <<LevelToken(o.preset, key, val)>>)
             [] OTHER -> Put(AppendKey(s, key), <<ValTok(val)>>)

(* The built-in attributes of a record.                                    *)
AppendBuiltins(s, record) ==
  LET time   == IF record.time THEN AppendBuiltin(s, "time", TimeVal) ELSE s
      level  == AppendBuiltin(time, "level", record.level)
      source == IF s.options.addSource
                THEN AppendBuiltin(level, "source",
                                   IF record.pc THEN record.source ELSE <<>>)
                ELSE level
  IN  AppendBuiltin(source, "msg", MessageVal)

(* The prefix, in which the first nOpen groups are open.                   *)
AppendPrefix(s, h) ==
  [IF h.prefix = <<>> THEN s
   ELSE [Put(Comma(s), h.prefix) EXCEPT !.sep = Last(h.prefix) # BraceTok]
     EXCEPT !.groups = SubSeq(h.groups, 1, h.nOpen), !.track = TRUE]

Closed(n) == [i \in 1..n |-> CloseTok]

(* The end of a line: the groups of h opened for attributes that wrote     *)
(* nothing are cut off again, and all that are open are closed.            *)
Finish(h, start, end) ==
  IF end.written
  THEN end.s.buf \o Closed(Len(h.groups) + 1)
  ELSE start.buf \o Closed(h.nOpen + 1)

(* The call stack that every TRACE record carries, unless its caller is not*)
(* known.                                                                  *)
StackAttr == Leaf("stack", "frames")

StackOf(record) ==
  IF record.level <= LevelTrace /\ record.pc THEN <<StackAttr>> ELSE <<>>

(* The record's own attributes, those of its context and its stack, in the *)
(* pending groups.                                                         *)
AppendOwn(h, start, attrs) ==
  Finish(h, start, AppendAll(OpenPending(start, h), attrs))

(* Handle                                                                  *)
Line(h, record, attrs) ==
  LET empty == [options |-> h.options, buf |-> <<BraceTok>>, sep |-> FALSE,
                groups |-> <<>>, track |-> FALSE]
  IN  AppendOwn(h, AppendPrefix(AppendBuiltins(empty, record), h),
                attrs \o StackOf(record))
=============================================================================
