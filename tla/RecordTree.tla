----------------------------- MODULE RecordTree -----------------------------
(***************************************************************************)
(* How gloqtest.Recorder puts together the attributes of a record: the     *)
(* groups and attributes a recorder was derived with are kept as steps and *)
(* wrapped around the record's own, from the innermost outwards.           *)
(***************************************************************************)
EXTENDS AttrTree

NewRecorder == <<>>

(* What appendResolved appends for an attribute.                           *)
AppendResolved ==
  LET resolved[a \in Attrs] ==
        CASE a.kind = "empty" -> <<>>
          [] a.kind = "leaf" -> <<a>>
          [] OTHER ->
               LET children ==
                     FlattenSeq([i \in DOMAIN a.attrs |-> resolved[a.attrs[i]]])
               IN  IF children = <<>> \/ a.key = NoKey THEN children
                   ELSE <<Group(a.key, children)>>
  IN  resolved

Resolved(attrs) == FlattenSeq([i \in DOMAIN attrs |-> AppendResolved[attrs[i]]])

WithAttrs(steps, attrs) ==
  IF Resolved(attrs) = <<>> THEN steps
  ELSE Append(steps, AttrStep(Resolved(attrs)))

WithGroup(steps, name) ==
  IF name = NoKey THEN steps ELSE Append(steps, GroupStep(name))

(* As Wrap, but an empty group is kept.                                    *)
WrapAlways(step, attrs) ==
  IF step.kind = "attrs" THEN step.attrs \o attrs
  ELSE <<Group(step.name, attrs)>>

(* One step put around the attributes collected so far.                    *)
Wrap(step, attrs) ==
  IF step.kind = "attrs" THEN step.attrs \o attrs
  ELSE IF attrs # <<>> THEN <<Group(step.name, attrs)>>
  ELSE attrs

(* All of them, from the last one on.                                      *)
WrapAll(steps, attrs) ==
  LET wrapped[m \in 0..Len(steps)] ==
        IF m = 0 THEN attrs ELSE Wrap(steps[Len(steps) - m + 1], wrapped[m - 1])
  IN  wrapped[Len(steps)]

RecordAttrs(steps, attrs) == WrapAll(steps, Resolved(attrs))
=============================================================================
