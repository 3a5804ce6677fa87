--------------------------- MODULE PrettyEncoder ----------------------------
(***************************************************************************)
(* A pretty line: what is built in, without keys, then every attribute as  *)
(* one "key=value" with the groups it is in joined to its key. What        *)
(* WithAttrs is given is rendered once, with the groups there are at that  *)
(* time.                                                                   *)
(*                                                                         *)
(* A handler is [options, groups, prefix], with the options and records of *)
(* JsonEncoder; an item of a line is <<groups, key, value>>. The lines of  *)
(* errors and stacks are in ErrorDetails.                                  *)
(***************************************************************************)
EXTENDS AttrTree, Levels

NewHandler(options) == [options |-> options, groups |-> <<>>, prefix |-> <<>>]

(* What appendAttr appends for an attribute in groups.                     *)
AppendAttr(removed) ==
  LET appended[a \in Attrs] ==
        [groups \in Paths |->
           CASE a.kind = "empty" -> <<>>
             [] a.kind = "leaf" ->
                  IF <<groups, a.key>> \in removed THEN <<>>
                  ELSE <<<<groups, a.key, a.val>>>>
             [] OTHER ->
                  LET in == IF a.key = NoKey THEN groups ELSE Append(groups, a.key)
                  IN  FlattenSeq([i \in DOMAIN a.attrs |-> appended[a.attrs[i]][in]])]
  IN  appended

(* As AppendAttrs, but the groups of WithGroup are forgotten.              *)
AppendAttrsUngrouped(h, attrs) ==
  FlattenSeq([i \in DOMAIN attrs |-> AppendAttr(h.options.removed)[attrs[i]][<<>>]])

AppendAttrs(h, attrs) ==
  FlattenSeq([i \in DOMAIN attrs |->
                AppendAttr(h.options.removed)[attrs[i]][h.groups]])

WithAttrs(h, attrs) == [h EXCEPT !.prefix = @ \o AppendAttrs(h, attrs)]

WithGroup(h, name) ==
  IF name = NoKey THEN h ELSE [h EXCEPT !.groups = Append(@, name)]

-----------------------------------------------------------------------------
TimeVal == "stamp"
SourceVal == "file:line"
MessageVal == "message"

(* appendTime, appendLevel, appendSource and appendMessage. A source is    *)
(* its file and line.                                                      *)
AppendBuiltin(o, key, val) ==
  IF o.transforms /\ <<<<>>, key>> \in o.removed THEN <<>>
  ELSE <<<<<<>>, key, val>>>>

(* What Handle puts in front of the attributes.                            *)
Builtins(o, record) ==
  (IF record.time THEN AppendBuiltin(o, "time", TimeVal) ELSE <<>>)
    \o AppendBuiltin(o, "level", LevelName(record.level))
    \o (IF o.addSource /\ record.pc
        THEN AppendBuiltin(o, "source", SourceVal) ELSE <<>>)
    \o AppendBuiltin(o, "msg", MessageVal)

Line(h, record, attrs) ==
  Builtins(h.options, record) \o h.prefix \o AppendAttrs(h, attrs)
=============================================================================
