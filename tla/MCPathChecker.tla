----------------------------- MODULE MCPathChecker -----------------------------
(***************************************************************************)
(* FieldMaskPathChecker on types that contain each other:                  *)
(*   message A { B b; B b2; map<string, A> m; int32 x; }                   *)
(*   message B { A a; int32 x; int32 y; }                                  *)
(* The reference follows a path without a tree: whenever it arrives at a   *)
(* type it is inside of already, it goes back to where it entered that.    *)
(***************************************************************************)
EXTENDS FieldMaskPathChecker, MaskMeaning

CONSTANTS A, B

MCElements == {"b", "b2", "m", "x", "a", "y", "k", "*"}

Fld(kind, map, type) == [kind |-> kind, map |-> map, type |-> type]
Int == Fld("primitive", FALSE, NoType)
Message(type) == Fld("message", FALSE, type)

MCSchema ==
  [t \in {A, B} |->
     IF t = A THEN [n \in {"b", "b2", "m", "x"} |->
                      CASE n = "x" -> Int
                        [] n = "m" -> Fld("message", TRUE, A)
                        [] OTHER -> Message(B)]
     ELSE [n \in {"a", "x", "y"} |-> IF n = "a" THEN Message(A) ELSE Int]]

Sg(n) == [field |-> n, key |-> NoKey]

MCMaskPaths ==
  { <<Sg("b")>>, <<Sg("b"), Sg("x")>>, <<Sg("b"), Sg("a")>>, <<Sg("b"), Sg("a"), Sg("x")>>,
    <<Sg("b2"), Sg("y")>>, <<Sg("m")>>, <<Sg("m"), Sg("b2"), Sg("x")>>, <<Sg("x")>> }

MCPathLists == {<<>>} \cup {<<p>> : p \in MCMaskPaths} \cup (MCMaskPaths \X MCMaskPaths)

\* Paths of the fields of type t, up to n fields deep.
FieldsBelow(n) ==
  LET below[i \in 0..n] ==
        [t \in {A, B} |->
           {<<>>} \cup
             IF i = 0 THEN {}
             ELSE UNION {LET f == MCSchema[t][name]
                             through == IF f.map THEN <<name, "k">> ELSE <<name>>
                         IN  {<<name>>, through} \cup
                               IF f.type = NoType THEN {}
                               ELSE {through \o p : p \in below[i - 1][f.type]}
                         : name \in DOMAIN MCSchema[t]}]
  IN  below[n]

MCQueries == FieldsBelow(4)[A] \ {<<>>}

-------------------------------------------------------------------------------
(* Where a path is when cycles are taken back: `path` is the shortest way      *)
(* there, `inside` the types it is inside of with the lengths of `path` at     *)
(* them, `entered` the way before it was taken back, `key` says that a map key *)
(* comes next, and `left` remembers where it has been in types taken back.     *)

Home == [path |-> <<>>, inside |-> <<[type |-> A, at |-> <<>>]>>, entered |-> <<>>,
         key |-> FALSE, type |-> A, left |-> {[type |-> A, at |-> <<>>]}]

Arrive(s, way, type) ==
  LET known == {i \in 1..Len(s.inside) : s.inside[i].type = type}
      back == CHOOSE i \in known : TRUE
      here == [type |-> type, at |-> way]
      there == [s EXCEPT !.entered = way, !.key = FALSE, !.type = type]
  IN  IF type = NoType THEN [there EXCEPT !.path = way]
      ELSE IF known # {}
      THEN [there EXCEPT !.path = s.inside[back].at, !.inside = SubSeq(@, 1, back)]
      ELSE [there EXCEPT !.path = way, !.inside = Append(@, here), !.left = @ \cup {here}]

\* One element further.
Onward(s, name) ==
  LET way == Append(s.path, name)
      field == FindChildField(s.type, name)
  IN  IF s.key THEN Arrive(s, way, s.type)
      ELSE IF field.map
      THEN [s EXCEPT !.path = way, !.entered = way, !.key = TRUE, !.type = field.type]
      ELSE Arrive(s, way, field.type)

OnTheWay(query) ==
  LET after[i \in 0..Len(query)] ==
        IF i = 0 THEN Home ELSE Onward(after[i - 1], query[i])
  IN  [i \in 0..Len(query) |-> after[i]]

Way == [q \in MCQueries |-> OnTheWay(q)]

\* The lists' verdict on the message or field with that path.
Met(path) ==
  LET verdicts == {Union(calls[n], [path |-> path, kind |-> "message"]) : n \in 1..Len(calls)}
  IN  IF "exclude" \in verdicts THEN "exclude"
      ELSE IF "partial" \in verdicts THEN "partial" ELSE "include"

\* What is included as a whole includes what is below, what is excluded excludes
\* it; a map is not included before its key is known.  met[p] is Met(p).
Meaning(query, met) ==
  LET s == Way[query]
      included(i) == ~s[i].key /\ met[s[i].path] = "include"
      settling == {i \in 0..Len(query) : included(i) \/ met[s[i].entered] = "exclude"}
      first == CHOOSE i \in settling : \A j \in settling : i <= j
  IN  IF settling = {} THEN "partial" ELSE IF included(first) THEN "include" ELSE "exclude"

Ways == UNION {UNION {{Way[q][i].path, Way[q][i].entered} : i \in 0..Len(q)} : q \in MCQueries}

ChecksAsMeant(queries) ==
  LET met == [p \in Ways |-> Met(p)]
  IN  \A q \in queries : CheckPath(root, q) = Meaning(q, met)

\* The path enters no type in two ways.
OneWay(query) == \A i, j \in Way[query][Len(query)].left : i.type = j.type => i.at = j.at

OneWayQueries == {q \in MCQueries : OneWay(q)}

-------------------------------------------------------------------------------

\* Between calls, a path with cycles has the verdict of the shortest path with
\* the same way in (field_mask_path_checker.h:58-60), unless it enters one type
\* in two ways.
CyclesOnce ==
  pc = "idle" /\ status = "ok" =>
    ChecksAsMeant(OneWayQueries)

\* "It will be applied to an arbitrary number of nesting levels"
\* (field_mask_path_checker.h:59): also on the way through another field.
CyclesAnywhere ==
  pc = "idle" /\ status = "ok" => ChecksAsMeant(MCQueries)
===============================================================================
