---------------------------- MODULE MCRenderings ----------------------------
(***************************************************************************)
(* Instances for TLC of what is in a line. Of renderings: attributes and   *)
(* groups that can each turn out empty, nested and inlined groups, repeated*)
(* names. Of written texts: all classes of characters, alone and next to   *)
(* each other, in groups, keys and values. Of stacks: functions that call  *)
(* themselves and each other, past the first sizes of the buffer.          *)
(*                                                                         *)
(* The three have nothing to do with each other: one of them is at work in *)
(* a behavior, while the others stay as they are.                          *)
(***************************************************************************)
EXTENDS Lookups, WrittenText, TraceStack, FiniteSets

CONSTANT MaxSteps \* bound on derivations

MCAttrLists ==
  {<<>>,
   <<Empty, Leaf("k", "y")>>,
   <<Group("g", <<>>), Leaf("g", "x")>>,
   <<Group("g", <<Leaf("k", "x")>>), Leaf("k", "y")>>,
   <<Leaf("k", "x"), Group(NoKey, <<Leaf("k", "y"), Group("g", <<Leaf("g", "x")>>)>>)>>,
   <<Group("g", <<Group("g", <<Leaf("k", "x")>>), Group(NoKey, <<Empty>>)>>)>>}

MCNames == {"g", "k", NoKey}

SourceFields == <<Leaf("function", "f"), Leaf("file", "f.go")>>

(* Json!StackAttr                                                          *)
MCStack == <<Leaf("stack", "frames")>>

(* All attributes of lists, with all in their groups, and how deep those   *)
(* go.                                                                     *)
RECURSIVE AllOf(_), DepthOf(_)

AllOf(list) ==
  UNION {{list[i]} \cup (IF list[i].kind = "group" THEN AllOf(list[i].attrs) ELSE {}) :
         i \in DOMAIN list}

DepthOf(a) ==
  IF a.kind = "group"
  THEN 1 + Cardinality({DepthOf(b) : b \in AllOf(a.attrs)}) ELSE 0

MCAttrs ==
  UNION {AllOf(list) : list \in MCAttrLists \cup {SourceFields, MCStack}}

MCNesting == [a \in MCAttrs |-> DepthOf(a)]

(* Attributes in groups and outside, none, one or all of them; and all of  *)
(* what is built in.                                                       *)
MCBuiltin == {<<<<>>, key>> : key \in {"time", "level", "msg", "source"}}

MCInGroups == {<<<<>>, "k">>, <<<<"g">>, "k">>, <<<<"g", "g">>, "k">>}

MCRemovals ==
  {{}, MCInGroups, MCBuiltin, MCBuiltin \cup MCInGroups} \cup {{p} : p \in MCInGroups}

(* The stack of a TRACE record, inside of a group and outside.             *)
MCStackRemovals ==
  {{}, {<<<<"g">>, "stack">>}, {<<<<>>, "stack">>, <<<<"g">>, "stack">>}}

MCBuiltinRemovals ==
  SUBSET (MCBuiltin \cup {<<<<>>, "function">>, <<<<>>, "file">>})

(* A record with all that a record can have.                               *)
FullRecord ==
  [time |-> TRUE, level |-> LevelSuccess, pc |-> TRUE, source |-> SourceFields]

TraceRecord == [FullRecord EXCEPT !.level = LevelTrace]

(* A record with no more than it must have.                                *)
BareRecord ==
  [time |-> FALSE, level |-> LevelSuccess, pc |-> FALSE, source |-> <<>>]

(* Every level, and every combination of what else there may be.           *)
MCRecordKinds ==
  {[FullRecord EXCEPT !.level = l] : l \in -9..13}
  \cup [time : BOOLEAN, level : {LevelSuccess}, pc : BOOLEAN,
        source : {<<>>, Tail(SourceFields), SourceFields}]

MCAllRemovals == MCRemovals \cup MCStackRemovals \cup MCBuiltinRemovals

DefaultOptions ==
  [transforms |-> removed # {}, removed |-> removed, preset |-> "slog",
   addSource |-> TRUE]

(* Bound: what is built in is varied for new handlers only, levels other   *)
(* than one for few removals, and derivations are counted.                 *)
WithBuiltins ==
  /\ removed \in MCBuiltinRemovals
  /\ record.level = LevelSuccess \/ removed \in {{}, {<<<<>>, "level">>}, MCBuiltin}

WithDefaults ==
  /\ json.options = DefaultOptions
  /\ \/ removed \in MCRemovals /\ record = FullRecord
     \/ removed \in MCStackRemovals /\ record = TraceRecord

MayDerive ==
  /\ Len(steps) < IF removed \in {{}, MCInGroups} /\ record = FullRecord
                  THEN MaxSteps ELSE MaxSteps - 1
  /\ WithDefaults
-----------------------------------------------------------------------------
Classes == {"a", Space, Equal, Dot} \cup Special

(* Those that mean something to a reader.                                  *)
Meaningful == {"a", Space, Equal, Quote, Backslash}

TextsOfLength(n, chars) == [1..n -> chars]

MCMessages == UNION {TextsOfLength(n, Classes) : n \in 0..2}

Short(chars) == TextsOfLength(0, chars) \cup TextsOfLength(1, chars)

Item(groups, key, value) == [groups |-> groups, key |-> key, value |-> value]

(* Parts of a character each, or a part that is longer.                    *)
MCItems ==
  [groups : {<<>>} \cup {<<part>> : part \in TextsOfLength(1, {Equal, Quote})},
   key : Short(Meaningful), value : Short(Meaningful)]
  \cup {Item(<<>>, <<>>, v) : v \in TextsOfLength(1, Classes)}
  \cup {Item(<<>>, <<"a">>, v) : v \in TextsOfLength(2, {Quote, Backslash, Newline})}
  \cup {Item(<<>>, key, <<>>) : key \in TextsOfLength(1, Classes)}
  \cup {Item(<<>>, key, <<>>) : key \in TextsOfLength(3, {Quote, Backslash})}
-----------------------------------------------------------------------------
MCStacks == UNION {[1..n -> {"f", "main"}] : n \in 1..6}

MCDepths == 0..3
-----------------------------------------------------------------------------
(* The three before anything happens to them.                              *)
LoggerRests ==
  /\ removed = {} /\ record = BareRecord /\ steps = <<>>
  /\ json = Json!NewHandler(DefaultOptions)

TextRests == message = <<>> /\ items = <<>>

TraceRests ==
  /\ logging = [callers |-> <<"main">>, depth |-> 0, form |-> "none", here |-> FALSE]
  /\ searching = TRUE

MCInit ==
  /\ \/ TextRests /\ TraceRests
     \/ LoggerRests /\ TraceRests
     \/ LoggerRests /\ TextRests
  /\ LoggerInit /\ TextInit /\ TraceInit
  /\ LoggerRests \/ WithBuiltins \/ WithDefaults

textVars == <<message, items>>

MCNext ==
  \/ LoggerNext /\ MayDerive /\ TextRests /\ TraceRests /\ UNCHANGED <<textVars, traceVars>>
  \/ /\ \E item \in LoggedItems : LogItem(item)
     /\ LoggerRests /\ TraceRests /\ UNCHANGED <<loggerVars, traceVars>>
  \/ TraceNext /\ LoggerRests /\ TextRests /\ UNCHANGED <<loggerVars, textVars>>

MCSpec == MCInit /\ [][MCNext]_<<loggerVars, textVars, traceVars>>
=============================================================================
