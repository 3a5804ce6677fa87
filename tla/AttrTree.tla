------------------------------ MODULE AttrTree ------------------------------
(***************************************************************************)
(* Attributes, and the rules every slog handler follows for them: an empty *)
(* attribute or one that ReplaceAttr removed is left out, a group without  *)
(* a key is inlined, and a group with nothing in it is left out. A group   *)
(* opened by WithGroup holds all that comes after it.                      *)
(*                                                                         *)
(* ReplaceAttr functions are modelled by the set of what they remove, each *)
(* by the groups it is in and its key.                                     *)
(***************************************************************************)
EXTENDS Integers, Sequences, SequencesExt

CONSTANTS
  NoKey,  \* the empty key
  Attrs,  \* the attributes that are logged, with all that their groups hold
  Nesting \* how deep the groups of each go, at most

Leaf(k, v) == [kind |-> "leaf", key |-> k, val |-> v]

Group(k, attrs) == [kind |-> "group", key |-> k, attrs |-> attrs]

(* slog.Attr{}                                                             *)
Empty == [kind |-> "empty"]

Leaves == [kind : {"leaf"}, key : STRING, val : STRING]

ASSUME AttrAssumption ==
  /\ NoKey \notin STRING
  /\ \A a \in Attrs :
       \/ a = Empty
       \/ a \in Leaves
       \/ a \in [kind : {"group"}, key : STRING \cup {NoKey}, attrs : Seq(Attrs)]
  /\ Nesting \in [Attrs -> Nat]
  /\ \A a \in Attrs : a.kind = "group" =>
       \A i \in DOMAIN a.attrs : Nesting[a.attrs[i]] < Nesting[a]

(* What a logger was derived with, oldest first.                           *)
AttrStep(attrs) == [kind |-> "attrs", attrs |-> attrs]

GroupStep(name) == [kind |-> "group", name |-> name]

(* The names of groups within groups.                                      *)
Paths == Seq(STRING)

(* A name that is empty opens no group.                                    *)
In(path, name) == IF name = NoKey THEN path ELSE Append(path, name)

PathOf(steps) ==
  FlattenSeq([i \in DOMAIN steps |->
    IF steps[i].kind = "group" /\ steps[i].name # NoKey
    THEN <<steps[i].name>> ELSE <<>>])
-----------------------------------------------------------------------------
(* The tokens of JSON, of which a level is one as well.                    *)
BraceTok == [tok |-> "{"]
CloseTok == [tok |-> "}"]
CommaTok == [tok |-> ","]
KeyTok(k) == [tok |-> "key", key |-> k]
ValTok(v) == [tok |-> "val", val |-> v]
LevelTok(l) == [tok |-> "level", level |-> l]

(* Members of an object, with a comma between any two.                     *)
JsonText(members) ==
  FlattenSeq([i \in DOMAIN members |->
    IF i = 1 THEN members[i] ELSE <<CommaTok>> \o members[i]])

JsonObject(members) == <<BraceTok>> \o JsonText(members) \o <<CloseTok>>

(* What becomes of an attribute and of a group in a format: in JSON it is  *)
(* the tokens of a member, in a pretty line items [groups, key, value], in *)
(* a record an attribute.                                                  *)
LeafIn(format, path, a) ==
  CASE format = "json" -> <<KeyTok(a.key), ValTok(a.val)>>
    [] format = "pretty" -> <<<<path, a.key, a.val>>>>
    [] OTHER -> a

GroupIn(format, name, members) ==
  CASE format = "json" -> <<KeyTok(name)>> \o JsonObject(members)
    [] format = "pretty" -> FlattenSeq(members)
    [] OTHER -> Group(name, members)
-----------------------------------------------------------------------------
(* A group with nothing in it is left out.                                 *)
Nest(format, name, members) ==
  IF name = NoKey \/ members = <<>> THEN members
  ELSE <<GroupIn(format, name, members)>>

(* What is kept of an attribute in the groups of a path.                   *)
KeptOf(format, removed) ==
  LET kept[a \in Attrs] ==
        [path \in Paths |->
           CASE a.kind = "empty" -> <<>>
             [] a.kind = "leaf" ->
                  IF <<path, a.key>> \in removed THEN <<>>
                  ELSE <<LeafIn(format, path, a)>>
             [] OTHER ->
                  Nest(format, a.key,
                       FlattenSeq([i \in DOMAIN a.attrs |->
                                     kept[a.attrs[i]][In(path, a.key)]]))]
  IN  kept

Kept(format, attrs, path, removed) ==
  FlattenSeq([i \in DOMAIN attrs |-> KeptOf(format, removed)[attrs[i]][path]])

(* Step n put around all that comes after it.                              *)
Around(format, steps, n, members, removed) ==
  IF steps[n].kind = "attrs"
  THEN Kept(format, steps[n].attrs, PathOf(SubSeq(steps, 1, n - 1)), removed)
         \o members
  ELSE Nest(format, steps[n].name, members)

(* All steps put around members, from the innermost outwards.              *)
Wrapped(format, steps, members, removed) ==
  LET around[m \in 0..Len(steps)] ==
        IF m = 0 THEN members
        ELSE Around(format, steps, Len(steps) - m + 1, around[m - 1], removed)
  IN  around[Len(steps)]

(* The attributes of a record logged with attrs by a logger derived by     *)
(* steps.                                                                  *)
Tree(format, steps, attrs, removed) ==
  Wrapped(format, steps, Kept(format, attrs, PathOf(steps), removed), removed)
=============================================================================
