--------------------------- MODULE MCFieldMaskTree ----------------------------
(***************************************************************************)
(* FieldMaskTree on one schema:                                            *)
(*   message R { T a; map<string, T> m; E e; int32 p; Missing u;           *)
(*               map<string, R> n; }                                       *)
(*   message T { int32 f; T s; }                                           *)
(***************************************************************************)
EXTENDS MaskVerdicts

CONSTANTS R, T

MCElements == {"a", "m", "n", "e", "p", "u", "f", "s", "k", "j", "A", "x", "*"}

Fld(kind, map, type) == [kind |-> kind, map |-> map, type |-> type]

MCSchema ==
  [t \in {R, T} |->
     IF t = R
     THEN [n \in {"a", "m", "n", "e", "p", "u"} |->
             CASE n = "a" -> Fld("message", FALSE, T)
               [] n = "m" -> Fld("message", TRUE, T)
               [] n = "n" -> Fld("message", TRUE, R)
               [] n = "e" -> Fld("enum", FALSE, NoType)
               [] n = "p" -> Fld("primitive", FALSE, NoType)
               [] n = "u" -> Fld("message", FALSE, NoType)]
     ELSE [n \in {"f", "s"} |->
             IF n = "f" THEN Fld("primitive", FALSE, NoType) ELSE Fld("message", FALSE, T)]]

Sg(n) == [field |-> n, key |-> NoKey]
Keyed(n, k) == [field |-> n, key |-> k]

\* Legal paths, one of each shape; the second of `a` is longer than the first.
GoodPaths ==
  { <<>>, <<Sg("a")>>, <<Sg("a"), Sg("s")>>, <<Sg("a"), Sg("s"), Sg("f")>>,
    <<Sg("m")>>, <<Sg("m"), Sg("f")>>, <<Sg("m"), Sg("s")>>,
    <<Keyed("m", "k"), Sg("s")>>, <<Keyed("m", "k"), Sg("s"), Sg("f")>>,
    <<Keyed("m", "j"), Sg("f")>>, <<Keyed("m", Wildcard), Sg("s")>>,
    <<Keyed("m", "k")>>, <<Keyed("m", Wildcard)>>, <<Keyed("e", "A")>>,
    <<Keyed("e", Wildcard)>>, <<Sg("p")>> }

\* Illegal ones: no such field, below a primitive, a key on a message that is
\* no map, a type the finder does not know, a key that cannot be un-escaped.
BadPaths ==
  { <<Sg("x")>>, <<Sg("p"), Sg("f")>>, <<Keyed("a", "k"), Sg("f")>>,
    <<Sg("u")>>, <<Keyed("m", Malformed)>>, <<Sg("a"), Sg("x")>> }

Lists(ps) == {<<>>} \cup {<<p>> : p \in ps} \cup (ps \X ps)

MCPathLists ==
  Lists(GoodPaths) \cup {<<p>> : p \in BadPaths}
    \cup ({<<Sg("a")>>, <<Sg("a"), Sg("s")>>} \X BadPaths)

\* A key that is the name of a field: the second path of the first list is legal,
\* that of the second list is not.
ConfusedLists ==
  { <<<<Keyed("n", "m"), Sg("p")>>, <<Sg("n"), Sg("m"), Sg("f")>>>>,
    <<<<Keyed("n", "m"), Sg("a"), Sg("f")>>, <<Sg("n"), Sg("m"), Sg("a")>>>> }

\* A few lists, for the properties that are slow to check.
FewPathLists ==
  { <<>>, <<<<Sg("a")>>>>, <<<<Sg("a"), Sg("s"), Sg("f")>>, <<Sg("a"), Sg("s")>>>>,
    <<<<Sg("m"), Sg("s")>>, <<Sg("p")>>>>, <<<<Keyed("m", "k"), Sg("s")>>, <<Keyed("e", "A")>>>>,
    <<<<Keyed("m", "k")>>, <<Keyed("m", "j"), Sg("f")>>>>, <<<<Keyed("m", Wildcard), Sg("s")>>>>,
    <<<<Sg("a"), Sg("s")>>, <<Sg("x")>>>>, <<<<Keyed("a", "k"), Sg("f")>>>>,
    <<<<Sg("a")>>, <<Sg("a"), Sg("x")>>>>, <<<<Keyed("m", Malformed)>>>> }
    \cup ConfusedLists

MCMaskPaths == GoodPaths \cup BadPaths \cup UNION {{l[1], l[2]} : l \in ConfusedLists}

Q(path, kind) == [path |-> path, kind |-> kind]

MCQueries ==
  { Q(<<"a">>, "message"), Q(<<"a", "f">>, "primitive"), Q(<<"a", "s">>, "message"),
    Q(<<"a", "s", "f">>, "primitive"), Q(<<"a", "s", "s">>, "message"),
    Q(<<"m">>, "message"), Q(<<"p">>, "primitive"),
    Q(<<"e">>, "enum"), Q(<<"e", "A">>, "enum"), Q(<<"e", "x">>, "enum") }
  \cup UNION {{ Q(<<"m", k>>, "message"), Q(<<"m", k, "f">>, "primitive"),
                Q(<<"m", k, "s">>, "message"), Q(<<"m", k, "s", "f">>, "primitive"),
                Q(<<"m", k, "s", "s">>, "message") } : k \in {"k", "j", "x"}}

-------------------------------------------------------------------------------

\* Every call returns, or ends the process.
Returns == pc # "idle" ~> pc \in {"idle", "aborted"}

-------------------------------------------------------------------------------
(* Claims of the documentation that the code does not keep.                   *)

\* "The resulting tree will be the union of paths" (field_mask_tree.h:68).
UnionOfPaths ==
  pc = "idle" /\ Len(calls) = 1 /\ LegalList(calls[1]) =>
    \A q \in Queries : CheckField(root, q.path, q.kind) = Union(calls[1], q)
===============================================================================
