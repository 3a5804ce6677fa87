------------------------------- MODULE Lookups -------------------------------
(***************************************************************************)
(* How attributes are looked up in recorded records: Find matches a record *)
(* with the attributes asked for; Value and Map look attributes up.        *)
(***************************************************************************)
EXTENDS Renderings

NotFound == [kind |-> "none"]

Keyed(attrs, key) == {i \in DOMAIN attrs : attrs[i].key = key}

(* As FindAttr, but the first attribute with the key is taken.             *)
FindAttrFirst(attrs, key) ==
  LET keyed == Keyed(attrs, key)
  IN  IF keyed = {} THEN NotFound
      ELSE attrs[CHOOSE i \in keyed : \A j \in keyed : i <= j]

(* The last attribute with the key.                                        *)
FindAttr(attrs, key) ==
  LET keyed == Keyed(attrs, key)
  IN  IF keyed = {} THEN NotFound
      ELSE attrs[CHOOSE i \in keyed : \A j \in keyed : j <= i]

RECURSIVE ContainsAttrs(_, _), Value(_, _), AttrMap(_)

(* containsAttrs and valueMatches: each wanted attribute is there; groups  *)
(* are searched in groups, those without a key in attrs itself.            *)
ContainsAttrs(attrs, want) ==
  LET ValueMatches(actual, a) ==
        IF a.kind = "group"
        THEN actual.kind = "group" /\ ContainsAttrs(actual.attrs, a.attrs)
        ELSE actual.kind = "leaf" /\ actual.val = a.val
  IN  \A i \in DOMAIN want :
        IF want[i].kind = "group" /\ want[i].key = NoKey
        THEN ContainsAttrs(attrs, want[i].attrs)
        ELSE want[i].kind # "empty" /\ ValueMatches(FindAttr(attrs, want[i].key), want[i])

(* Record.Value, for the names a key is made of.                           *)
Value(attrs, path) ==
  LET attr == FindAttr(attrs, Head(path))
  IN  IF Len(path) = 1 THEN attr
      ELSE IF attr.kind = "group" THEN Value(attr.attrs, Tail(path))
      ELSE NotFound

(* attrMap, which puts one attribute after the other into the map.         *)
AttrMap(attrs) ==
  [key \in {attrs[i].key : i \in DOMAIN attrs} |->
     LET attr == attrs[CHOOSE i \in Keyed(attrs, key) :
                         \A j \in Keyed(attrs, key) : j <= i]
     IN  IF attr.kind = "group" THEN AttrMap(attr.attrs) ELSE attr.val]
-----------------------------------------------------------------------------
RECURSIVE LeavesIn(_, _), Visible(_, _), NoneEmpty(_)

(* The leaves of attributes, each with the groups it is in.                *)
LeavesIn(attrs, path) ==
  UNION {CASE attrs[i].kind = "empty" -> {}
           [] attrs[i].kind = "leaf" -> {<<path, attrs[i].key, attrs[i].val>>}
           [] OTHER -> LeavesIn(attrs[i].attrs, In(path, attrs[i].key)) :
         i \in DOMAIN attrs}

(* The leaves of a tree that no later attribute or group of the same name  *)
(* hides.                                                                  *)
Visible(tree, path) ==
  UNION {IF tree[i].kind = "leaf" THEN {<<path, tree[i].key, tree[i].val>>}
         ELSE Visible(tree[i].attrs, Append(path, tree[i].key)) :
         i \in {j \in DOMAIN tree : \A m \in DOMAIN tree :
                  m > j => tree[m].key # tree[j].key}}

(* Neither an empty attribute nor an empty group is among attrs; one that  *)
(* is asked for is never found.                                            *)
NoneEmpty(attrs) ==
  \A i \in DOMAIN attrs :
    CASE attrs[i].kind = "empty" -> FALSE
      [] attrs[i].kind = "leaf" -> TRUE
      [] OTHER -> attrs[i].attrs # <<>> /\ NoneEmpty(attrs[i].attrs)

(* Find, Count and the assertions take a record for one with the wanted    *)
(* attributes exactly if it has each of them, in its group, as the last    *)
(* one of its name, "which is the one most handlers show when a key is     *)
(* repeated". A record is found by the attributes it was logged with,      *)
(* those of its logger included, if no name is repeated among them. Value  *)
(* and Map look up the same attributes: Value by the path of one, Map by   *)
(* one key after the other, and neither one that a later attribute hides.  *)
FoundByAttrs ==
  removed = {} =>
    \A attrs \in AttrLists :
      LET found == Recorded!RecordAttrs(recorder, attrs)
          tree  == Tree("record", steps, attrs, {})
          Found(leaf) ==
            LET path == Append(leaf[1], leaf[2])
            IN  Value(found, path) = Leaf(leaf[2], leaf[3])
          Mapped(leaf) ==
            FoldLeft(LAMBDA map, key : map[key], AttrMap(found),
                     Append(leaf[1], leaf[2])) = leaf[3]
      IN  /\ \A want \in {tree} \cup {a \in AttrLists : NoneEmpty(a)} :
               ContainsAttrs(found, want)
                 <=> LeavesIn(want, <<>>) \subseteq Visible(tree, <<>>)
          /\ \A leaf \in LeavesIn(tree, <<>>) :
               IF leaf \in Visible(tree, <<>>) THEN Found(leaf) /\ Mapped(leaf)
               ELSE ~Found(leaf)
=============================================================================
