---------------------------- MODULE WrittenText -----------------------------
(***************************************************************************)
(* How texts get into a pretty line (escape.go, and appendKey of           *)
(* pretty.go), so that "logged data can never start a forged log line or   *)
(* smuggle in terminal control sequences", and into a JSON string.         *)
(*                                                                         *)
(* A text is a sequence of characters of which only the class matters:     *)
(* besides those named below all are ordinary. Escapes are two characters, *)
(* whatever their length. A reader that knows nothing but separators,      *)
(* quotes and escapes must find what was logged.                           *)
(***************************************************************************)
EXTENDS Integers, Sequences, SequencesExt

CONSTANTS
  Messages,    \* what messages there are
  LoggedItems, \* what attributes: [groups, key, value], each made of texts
  MaxSize      \* bound on characters of the message and items of a line

Texts == Seq(STRING)

Items == [groups : Seq(Texts), key : Texts, value : Texts]

ASSUME TextAssumption == Messages \subseteq Texts /\ LoggedItems \subseteq Items

VARIABLES
  message, \* the message of a line
  items    \* its attributes, as flat as they are in a pretty line

Space == " "
Equal == "="
Quote == "\""
Backslash == "\\"
Dot == "."
Comma == ","
Colon == ":"
Tab == "tab"
Newline == "newline"
Control == "control"   \* any other below the space, escape included
Delete == "delete"     \* 0x7f
Broken == "broken"     \* a byte that is no UTF-8
Hidden == "hidden"     \* not graphic, such as a direction override
LineEnd == "lineend"   \* U+2028 and U+2029, not graphic either
Replacement == "U+FFFD"
WideSpace == "nbsp"    \* graphic, but not printable for unicode.IsPrint

(* What moves the cursor, ends a line or cannot be seen.                   *)
Unsafe == {Newline, Control, Delete, Broken, Hidden, LineEnd}

(* What is escaped in one place or the other.                              *)
Special == {Quote, Backslash, Tab, WideSpace} \cup Unsafe

(* What an escape shows in place of a character.                           *)
Letter(c) ==
  CASE c = Newline -> "n"     [] c = Tab -> "t"
    [] c = Control -> "x1b"   [] c = Delete -> "x7f"
    [] c = Broken -> "xff"    [] c = Hidden -> "u202e"
    [] c = LineEnd -> "u2028" [] c = WideSpace -> "u00a0"
    [] OTHER -> c

Escape(c) == <<Backslash, Letter(c)>>

(* A text in which some characters are escaped.                            *)
Escaped(text, chars) ==
  FlattenSeq([i \in DOMAIN text |->
    IF text[i] \in chars THEN Escape(text[i]) ELSE <<text[i]>>])

(* As NeedsQuoting, but an equals sign is left as it is.                   *)
NeedsQuotingForSpaces(value) ==
  \E i \in DOMAIN value : value[i] \in {Space, Quote, Tab, WideSpace} \cup Unsafe

NeedsQuoting(value) ==
  \E i \in DOMAIN value :
    value[i] \in {Space, Equal, Quote, Tab, WideSpace} \cup Unsafe

(* strconv.AppendQuote                                                     *)
Quoted(value) == <<Quote>> \o Escaped(value, Special) \o <<Quote>>

AppendString(value) ==
  IF value = <<>> \/ NeedsQuoting(value) THEN Quoted(value) ELSE value

AppendText(text) == Escaped(text, Unsafe)

(* joinedKey: no group has an empty name.                                  *)
JoinedKey(groups, key) ==
  FlattenSeq([i \in DOMAIN groups |->
                IF i = 1 THEN groups[i] ELSE <<Dot>> \o groups[i]])
    \o IF groups = <<>> \/ key = <<>> THEN key ELSE <<Dot>> \o key

(* appendKey                                                               *)
AppendKey(groups, key) ==
  IF NeedsQuoting(key) \/ \E i \in DOMAIN groups : NeedsQuoting(groups[i])
  THEN Quoted(JoinedKey(groups, key))
  ELSE JoinedKey(groups, key)

(* What appendAttr appends for a text.                                     *)
AppendItem(item) ==
  <<Space>> \o AppendKey(item.groups, item.key)
    \o <<Equal>> \o AppendString(item.value)

TextItems(list) == FlattenSeq([i \in DOMAIN list |-> AppendItem(list[i])])
-----------------------------------------------------------------------------
(* What is no UTF-8 is replaced.                                           *)
Valid(text) ==
  [i \in DOMAIN text |-> IF text[i] = Broken THEN Replacement ELSE text[i]]

AppendJSONString(value) ==
  <<Quote>>
    \o Escaped(Valid(value), {Quote, Backslash, Newline, Tab, Control, LineEnd})
    \o <<Quote>>

(* Members of an object that come after another one.                       *)
JSONMembers(list) ==
  FlattenSeq([i \in DOMAIN list |->
    <<Comma>> \o AppendJSONString(list[i].key)
      \o <<Colon>> \o AppendJSONString(list[i].value)])
-----------------------------------------------------------------------------
(* A reader of texts between separators. It has read the texts before the  *)
(* last separator, each as [sep, text] with the separator before it, and   *)
(* some of the text after it.                                              *)
NewReader == [read |-> <<>>, sep |-> "start", text |-> <<>>, mode |-> "start"]

(* What an escape stands for; what is no escape stands for itself.         *)
Meant(c) ==
  IF \E d \in Special : Letter(d) = c
  THEN CHOOSE d \in Special : Letter(d) = c ELSE c

(* One character is read. What begins with a quote ends with the next that *)
(* is not escaped, anything else with a separator.                         *)
Read(r, c, seps) ==
  CASE r.mode = "escape" ->
         [r EXCEPT !.text = Append(@, Meant(c)), !.mode = "quoted"]
    [] r.mode = "quoted" /\ c = Backslash -> [r EXCEPT !.mode = "escape"]
    [] r.mode = "quoted" /\ c = Quote -> [r EXCEPT !.mode = "closed"]
    [] r.mode = "quoted" /\ c \notin {Backslash, Quote} ->
         [r EXCEPT !.text = Append(@, c)]
    [] r.mode = "start" /\ c = Quote -> [r EXCEPT !.mode = "quoted"]
    [] r.mode \notin {"quoted", "escape"} /\ c \in seps ->
         [read |-> Append(r.read, [sep |-> r.sep, text |-> r.text]),
          sep |-> c, text |-> <<>>, mode |-> "start"]
    [] OTHER -> [r EXCEPT !.text = Append(@, c), !.mode = "plain"]

(* The reader after each character of a line.                              *)
Reading(reader, line, seps) ==
  LET after[n \in 0..Len(line)] ==
        IF n = 0 THEN reader ELSE Read(after[n - 1], line[n], seps)
  IN  after

(* All that is read in a line.                                             *)
TextsIn(line, seps) ==
  LET r == Reading(NewReader, line, seps)[Len(line)]
  IN  Append(r.read, [sep |-> r.sep, text |-> r.text])

(* Keys and values, each with the separator before it.                     *)
TextsOf(pairs, begin, divide) ==
  <<[sep |-> "start", text |-> <<>>]>>
    \o FlattenSeq([i \in DOMAIN pairs |->
          <<[sep |-> begin, text |-> pairs[i][1]],
            [sep |-> divide, text |-> pairs[i][2]]>>])
-----------------------------------------------------------------------------
TextInit == message \in Messages /\ items = <<>>

(* A line is extended by an attribute.                                     *)
LogItem(item) ==
  /\ Len(message) + Len(items) < MaxSize
  /\ items' = Append(items, item)
  /\ UNCHANGED message

TextSpec == TextInit /\ [][\E item \in LoggedItems : LogItem(item)]_<<message, items>>

(* Whatever is logged, a pretty line is one line in which nothing is       *)
(* hidden: "logged data can never start a forged log line or smuggle in    *)
(* terminal control sequences".                                            *)
NothingForged ==
  Range(AppendText(message) \o TextItems(items)) \cap Unsafe = {}

(* The attributes of a pretty line can be told apart: reading it gives     *)
(* every key with its groups, and every value, as logged, whatever         *)
(* characters they are made of.                                            *)
ItemsCanBeRead ==
  TextsIn(TextItems(items), {Space, Equal}) =
    TextsOf([i \in DOMAIN items |->
               <<JoinedKey(items[i].groups, items[i].key), items[i].value>>],
            Space, Equal)

(* Whatever is logged, a JSON string ends where it should and is read as   *)
(* what was logged, but for what is no UTF-8, and nothing in it ends the   *)
(* line for any reader: "control characters, quotes, backslashes, U+2028,  *)
(* and U+2029 are escaped and invalid UTF-8 is replaced".                  *)
JsonStringsCanBeRead ==
  /\ TextsIn(JSONMembers(items), {Comma, Colon}) =
       TextsOf([i \in DOMAIN items |->
                  <<Valid(items[i].key), Valid(items[i].value)>>],
               Comma, Colon)
  /\ Range(JSONMembers(items)) \cap {Newline, Control, LineEnd, Broken} = {}

(* Whatever is logged can be read back, in both formats, and forges        *)
(* nothing.                                                                *)
TextsCanBeRead == NothingForged /\ ItemsCanBeRead /\ JsonStringsCanBeRead
=============================================================================
