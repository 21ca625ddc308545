----------------------------- MODULE MaskVerdicts -----------------------------
(***************************************************************************)
(* The verdicts of the trees that FieldMaskTree compiles, compared with    *)
(* what the lists of paths mean.                                           *)
(***************************************************************************)
EXTENDS FieldMaskTree, MaskMeaning

CONSTANT Queries  \* what CheckField() is asked: a path, and the kind of the field at its end

ASSUME QueriesAssumption == Queries \subseteq [path: Seq(Elements), kind: Kinds]

Met(q) ==
  LET verdicts == {Union(calls[n], q) : n \in 1..Len(calls)}
  IN  IF "exclude" \in verdicts THEN "exclude"
      ELSE IF "partial" \in verdicts THEN "partial" ELSE "include"

\* Between calls, CheckField() answers every query as the lists accepted so far
\* say: the union of the paths of each list, the intersection of the lists.
ExactVerdicts ==
  pc = "idle" /\ Unmixed(calls) =>
    \A q \in Queries : CheckField(root, q.path, q.kind) = Met(q)

Mask == INSTANCE FieldMask WITH
          Exact <- Unmixed,
          verdict <- [q \in Queries |-> CheckField(root, q.path, q.kind)],
          status <- IF pc = "aborted" THEN "aborted" ELSE status

\* The compiled tree implements the mask its lists stand for: each call of
\* AddOrIntersectFieldPaths() either breaks the tree and leaves the verdicts
\* alone, or makes every verdict of CheckField() the meet of what it was and
\* what the union of the new paths says.  A broken tree ends the process when it
\* is used, against what field_mask_tree.h:72-74 and 81-82 say; Mask!Abort has it
\* as the code does.
ImplementsMask == Mask!Spec
===============================================================================
