------------------------- MODULE FieldMaskPathChecker --------------------------
(***************************************************************************)
(* FieldMaskPathChecker (field_mask_path_checker.cc): a FieldMaskTree that *)
(* is asked differently.  A message inside a message of the same type is   *)
(* checked as if it were the outer one, so that a mask need represent a    *)
(* cycle of types only once.  AddOrIntersectFieldPaths() is the tree's.    *)
(***************************************************************************)
EXTENDS FieldMaskTree

\* The loop of CheckField() before the iteration for the element i + 1 of the
\* path: current_node, type_to_node, whether the element is the key of a map
\* with all keys included, and the verdict once there is one.
Start == [pos |-> <<>>, seen |-> <<>>, skip |-> FALSE, verdict |-> "none"]

Saw(seen, type) == \E i \in 1..Len(seen) : seen[i].type = type

\* Mutant: a node is looked up by its type only when it is the last one seen.
VisitLastOnly(tree, s) ==
  LET type == tree[s.pos].type
      last == s.seen[Len(s.seen)]
  IN  IF type = NoType THEN s
      ELSE IF s.seen # <<>> /\ last.type = type THEN [s EXCEPT !.pos = last.pos]
      ELSE [s EXCEPT !.seen = Append(@, [type |-> type, pos |-> s.pos])]

\* current_node is replaced by the first node of its type, if it is not that.
Visit(tree, s) ==
  LET type == tree[s.pos].type
      first == CHOOSE i \in 1..Len(s.seen) : s.seen[i].type = type
  IN  IF type = NoType THEN s
      ELSE IF Saw(s.seen, type) THEN [s EXCEPT !.pos = s.seen[first].pos]
      ELSE [s EXCEPT !.seen = Append(@, [type |-> type, pos |-> s.pos])]

\* One element of the path, at the node visited.
Follow(tree, s, name) ==
  LET child == Append(s.pos, name)
  IN  CASE tree[s.pos].leaf            -> [s EXCEPT !.verdict = "include"]
        [] ~tree[s.pos].leaf /\ HasChild(tree, s.pos, name) ->
             [s EXCEPT !.pos = child, !.skip = tree[child].all]
        [] OTHER                       -> [s EXCEPT !.verdict = "exclude"]

CheckPath(tree, query) ==
  LET before[i \in 0..Len(query)] ==
        IF i = 0 THEN Start
        ELSE LET s == before[i - 1]
             IN  IF s.verdict # "none" THEN s
                 ELSE IF s.skip THEN [s EXCEPT !.skip = FALSE]
                 ELSE Follow(tree, Visit(tree, s), query[i])
      end == before[Len(query)]
  IN  IF tree = NoTree THEN "include"
      ELSE IF end.verdict # "none" THEN end.verdict
      ELSE IF ~end.skip /\ tree[Visit(tree, end).pos].leaf THEN "include"
      ELSE "partial"
===============================================================================
