---------------------------- MODULE ErrorDetails ----------------------------
(***************************************************************************)
(* How the two handlers show an error with its causes: the JSON handler as *)
(* an object with an array of causes in it (json.go), the pretty handler as*)
(* lines below the record, indented two spaces per level (errors.go). Both *)
(* walk the causes on their own, down to a limit of depth.                 *)
(***************************************************************************)
EXTENDS ErrorValues, TLC

CONSTANT MaxErrorDepth

ASSUME DepthAssumption == MaxErrorDepth \in Nat

-----------------------------------------------------------------------------
RECURSIVE AppendJSONErrorTooDeep(_, _, _), AppendJSONError(_, _, _)

(* As AppendJSONError, but one level deeper.                               *)
AppendJSONErrorTooDeep(e, includeStack, depth) ==
  [message |-> ErrorMessage(e),
   causes |->
     IF depth <= MaxErrorDepth /\ ~IsNilError(e)
     THEN LET causes == NotNil(Unwrap(e))
          IN  [i \in DOMAIN causes |->
                 AppendJSONErrorTooDeep(causes[i], includeStack, depth + 1)]
     ELSE <<>>,
   stack |-> includeStack /\ ErrorStack(e)]

(* The JSON object of an error.                                            *)
AppendJSONError(e, includeStack, depth) ==
  [message |-> ErrorMessage(e),
   causes |->
     IF depth < MaxErrorDepth /\ ~IsNilError(e)
     THEN LET causes == NotNil(Unwrap(e))
          IN  [i \in DOMAIN causes |->
                 AppendJSONError(causes[i], includeStack, depth + 1)]
     ELSE <<>>,
   stack |-> includeStack /\ ErrorStack(e)]

-----------------------------------------------------------------------------
(* A line of the pretty handler; label is the key of the error, the number *)
(* of the cause, from 0 on (Only for one that has no number), Stack, or    *)
(* Continued for the rest of a text of several lines.                      *)
Key == "key"
Only == "caused by"
Stack == "stack"
Continued == ""

Line(indent, label, text) == [indent |-> indent, label |-> label, text |-> text]

CountText(n) == <<ToString(n), "errors">>

(* As ErrorDisplayMessage, but what a message ends with is cut off even if *)
(* no colon is in front of it.                                             *)
ErrorDisplayMessageCut(e, causes) ==
  LET message == ErrorMessage(e)
      suffix  == ErrorMessage(causes[1])
  IN  IF Len(causes) = 1 /\ IsSuffix(suffix, message) /\ suffix # message
      THEN SubSeq(message, 1, Len(message) - Len(suffix))
      ELSE message

(* What of a message is shown above causes: not what they say themselves.  *)
ErrorDisplayMessage(e, causes) ==
  LET message == ErrorMessage(e)
      suffix  == <<Colon>> \o ErrorMessage(causes[1])
      own     == SubSeq(message, 1, Len(message) - Len(suffix))
  IN  IF Len(causes) = 1 /\ IsSuffix(suffix, message) /\ own # <<>> THEN own
      ELSE IF /\ Len(causes) > 1
              /\ message = Joined([i \in DOMAIN causes |-> ErrorMessage(causes[i])],
                                  NewLine)
      THEN CountText(Len(causes))
      ELSE message

(* The lines of a text.                                                    *)
Lines(text) ==
  LET ends == SetToSortSeq({i \in DOMAIN text : text[i] = NewLine}, <)
      cuts == <<0>> \o ends \o <<Len(text) + 1>>
  IN  [i \in 1..(Len(cuts) - 1) |-> SubSeq(text, cuts[i] + 1, cuts[i + 1] - 1)]

(* "label: message", the further lines of a message indented below.        *)
WriteErrorLine(indent, label, message) ==
  [i \in DOMAIN Lines(message) |->
     IF i = 1 THEN Line(indent, label, Lines(message)[1])
     ELSE Line(indent + 1, Continued, Lines(message)[i])]

(* The stack of e, when it has one and stacks are asked for. Its text is   *)
(* left out.                                                               *)
StackLine(e, includeStack, indent) ==
  IF includeStack /\ ErrorStack(e)
  THEN WriteErrorLine(indent, Stack, <<>>) ELSE <<>>

RECURSIVE AppendPrettyCauses(_, _, _, _)

AppendPrettyCauses(causes, indent, includeStack, depth) ==
  LET Label(i) == IF Len(causes) > 1 THEN ToString(i - 1) ELSE Only
      Detail(i) ==
        LET below == ErrorCauses(causes[i])
        IN  WriteErrorLine(indent, Label(i), ErrorDisplayMessage(causes[i], below))
              \o StackLine(causes[i], includeStack, indent + 1)
              \o AppendPrettyCauses(below, indent + 1, includeStack, depth + 1)
  IN  IF depth >= MaxErrorDepth THEN <<>>
      ELSE FlattenSeq([i \in DOMAIN causes |-> Detail(i)])

(* The lines of a logged error.                                            *)
AppendPrettyError(e, includeStack) ==
  WriteErrorLine(1, Key, ErrorDisplayMessage(e, ErrorCauses(e)))
    \o AppendPrettyCauses(ErrorCauses(e), 2, includeStack, 0)
    \o StackLine(e, includeStack, 2)

-----------------------------------------------------------------------------
RECURSIVE Shown(_, _, _, _, _), JsonOutline(_, _, _), Readings(_, _)

Entry(level, number, text, stack) ==
  [level |-> level, number |-> number, text |-> text, stack |-> stack]

(* What is to be shown of e, which is cause number n of an error: itself   *)
(* and, down to the limit, its causes, each before what is below it.       *)
Shown(e, n, includeStack, level, limit) ==
  LET causes == IF errs[e].nil \/ "unwrap" \in errs[e].panics THEN <<>>
                ELSE SelectSeq(errs[e].causes, LAMBDA c : c # Nil)
  IN  <<Entry(level, n, ErrorMessage(e),
              includeStack /\ errs[e].stack /\ ~errs[e].nil)>>
        \o (IF level = limit THEN <<>>
            ELSE FlattenSeq([i \in DOMAIN causes |->
                               Shown(causes[i], i, includeStack, level + 1, limit)]))

(* What a handler is to show of e when it is logged.                       *)
ShownOf(e, includeStack) == Shown(e, 1, includeStack, 0, MaxErrorDepth)

(* A JSON object as such a list.                                           *)
JsonOutline(object, n, level) ==
  <<Entry(level, n, object.message, object.stack)>>
    \o FlattenSeq([i \in DOMAIN object.causes |->
                     JsonOutline(object.causes[i], i, level + 1)])

(* Pretty lines as such a list: a stack of the first level is that of the  *)
(* logged error, any other that of the cause just above it.                *)
PrettyOutline(lines) ==
  LET Number(label) ==
        IF label \in {Key, Only} THEN 1
        ELSE CHOOSE n \in 1..2 : ToString(n - 1) = label
      Read(list, line) ==
        CASE line.label = Stack ->
               [list EXCEPT ![IF line.indent = 2 THEN 1 ELSE Len(list)].stack = TRUE]
          [] line.label = Continued ->
               [list EXCEPT ![Len(list)].text = @ \o <<NewLine>> \o line.text]
          [] OTHER ->
               Append(list, Entry(line.indent - 1, Number(line.label), line.text, FALSE))
  IN  FoldLeft(Read, <<>>, lines)

(* What the i-th message of a pretty outline can stand for: itself, or it  *)
(* and what the causes below it say.                                       *)
Readings(list, i) ==
  LET below == {j \in (i + 1)..Len(list) :
                  /\ list[j].level = list[i].level + 1
                  /\ \A k \in i..j : k > i => list[k].level > list[i].level}
      kids  == SetToSortSeq(below, <)
  IN  {list[i].text} \cup
        CASE Len(kids) = 1 ->
               {list[i].text \o <<Colon>> \o r : r \in Readings(list, kids[1])}
          [] Len(kids) = 2 /\ list[i].text = CountText(2) ->
               {q \o <<NewLine>> \o r : q \in Readings(list, kids[1]),
                                        r \in Readings(list, kids[2])}
          [] OTHER -> {}

Structure(list) ==
  [i \in DOMAIN list |-> [list[i] EXCEPT !.text = <<>>]]

(* JSON shows every error with all its causes, each with its message and   *)
(* stack, in order, down to the limit and no further: errors that wrap     *)
(* themselves end there, and an Error or Unwrap that panics, nil causes    *)
(* and typed nil pointers neither end a record nor hide other causes.      *)
JsonShowsCauses ==
  \A e \in Errors, includeStack \in BOOLEAN :
    JsonOutline(AppendJSONError(e, includeStack, 0), 1, 0)
      = ShownOf(e, includeStack)

(* The pretty handler shows the same causes and stacks, to the same depth, *)
(* although it counts its depth from the causes; and every line it writes  *)
(* is indented, "so a multi-line message cannot be mistaken for a new      *)
(* record".                                                                *)
PrettyShowsCauses ==
  \A e \in Errors, includeStack \in BOOLEAN :
    LET lines == AppendPrettyError(e, includeStack)
    IN  /\ Structure(PrettyOutline(lines)) = Structure(ShownOf(e, includeStack))
        /\ \A i \in DOMAIN lines : lines[i].indent >= 1

(* Both handlers show what is to be shown, whatever the error.             *)
CausesAreShown == JsonShowsCauses /\ PrettyShowsCauses

(* What the pretty handler cuts off a message is what the causes below it  *)
(* say: from what is shown the whole message can be put together again.    *)
(* The exception are errors nested beyond the limit: the last one shown is *)
(* cut all the same, and its causes are not.                               *)
MessagesCanBeRead ==
  \A e \in Errors :
    LET list == PrettyOutline(AppendPrettyError(e, FALSE))
        Deep == ShownOf(e, FALSE) # Shown(e, 1, FALSE, 0, MaxErrorDepth + 1)
    IN  ~Deep => ErrorMessage(e) \in Readings(list, 1)
=============================================================================
