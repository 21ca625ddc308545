--------------------------- MODULE MCProtoScrubber ----------------------------
(***************************************************************************)
(* ProtoScrubber on two groups of messages of                              *)
(*   message R { int32 a; B b; map<string, B> m; Missing u; Public g;      *)
(*               Struct st; }                                              *)
(*   message B { int32 c; repeated E e; B b; }                             *)
(* and Struct, whose fields are a map of Values.                           *)
(***************************************************************************)
EXTENDS ScrubbedMessage

Fld(name, kind, type) ==
  [name |-> name, kind |-> kind, type |-> type, map |-> FALSE, public |-> FALSE,
   repeated |-> FALSE]
Map(name, type) == [Fld(name, "message", type) EXCEPT !.map = TRUE, !.repeated = TRUE]

MCFields ==
  "R" :> (1 :> Fld("a", "number", NoType) @@ 2 :> Fld("b", "message", "B")
            @@ 3 :> Map("m", "ME") @@ 4 :> Fld("u", "message", NoType)
            @@ 5 :> [Fld("g", "message", "B") EXCEPT !.public = TRUE]
            @@ 6 :> Fld("st", "message", "Struct"))
  @@ "B" :> (1 :> Fld("c", "number", NoType) @@ 2 :> [Fld("e", "enum", NoType) EXCEPT !.repeated = TRUE]
               @@ 3 :> Fld("b", "message", "B"))
  @@ "ME" :> (1 :> Fld("key", "text", NoType) @@ 2 :> Fld("value", "message", "B"))
  @@ "Struct" :> (1 :> Map("fields", "FieldsEntry"))
  @@ "FieldsEntry" :> (1 :> Fld("key", "text", NoType)
                         @@ 2 :> Fld("value", "message", "Value"))
  @@ "Value" :> (1 :> Fld("number_value", "number", NoType)
                   @@ 2 :> Fld("struct_value", "message", "Struct"))

-------------------------------------------------------------------------------
(* Messages of plain fields, enums and submessages                            *)

a == Num(1, 7)
Unknown == Num(9, 0)
c == Num(1, 8)
A == 1
B == 2
NameA == ToString(A)
NameB == ToString(B)
e(v) == Num(2, v)
es(vs) == Str(2, vs)
b(fs) == Sub(2, fs)
bb(fs) == Sub(3, fs)

PlainAsts ==
  { <<>>, <<a, a>>, <<a, Unknown, a>>, <<b(<<>>)>>, <<b(<<c>>), a>>,
    <<a, b(<<c, e(A)>>), a>>, <<b(<<e(A), c, e(B), e(A)>>)>>,
    <<b(<<c, es(<<A, B, A>>), c>>), b(<<es(<<B>>)>>)>>,
    <<b(<<es(<<A, A, B, B, A>>)>>), a>>,
    <<b(<<bb(<<c>>), c>>), b(<<bb(<<>>)>>)>>,
    <<b(<<Unknown, bb(<<c, e(B), bb(<<c>>), e(A)>>), c>>), a>>,
    <<b(<<c, c, bb(<<c, c>>)>>), b(<<c>>)>>,
    <<Sub(5, <<c>>), a>>, <<a, Sub(4, <<c>>)>>,
    <<a, Zero, a>>, <<b(<<c, Zero>>), a>> }
  \cup {<<a, b(fs), a>> : fs \in {e(A), es(<<B, A>>), bb(<<c>>)} \X {c, bb(<<>>)}}

\* The end of these is missing, of the nested messages more, as much or less than
\* of the ones around them.
CutAsts ==
  {<<a, Missing(n[1], b(<<c, Missing(n[2], bb(<<c, e(A)>>))>>))>> :
     n \in {<<1, 1>>, <<1, 2>>, <<2, 1>>}}
  \cup { <<Missing(2, b(<<c>>))>>, <<a, Missing(1, Sub(5, <<c>>))>>,
          <<a, Missing(1, Sub(4, <<>>))>>, <<Missing(1, b(<<c, Missing(2, Str(9, <<A>>))>>))>> }

Sure == {"include", "exclude"}
Verdicts == Sure \cup {"partial"}
Opposite(v) == IF v = "include" THEN "exclude" ELSE "include"

\* A checker of these messages, with the verdicts it has on the fields.
Plain(va, vb, vc, ve, vbb, vA, unknown) ==
  [sort |-> "plain", a |-> va, b |-> vb, c |-> vc, e |-> ve, bb |-> vbb, A |-> vA,
   unknown |-> unknown]

PlainVerdict(r, p) ==
  CASE p = <<"a">> -> r.a
    [] p = <<"b">> -> r.b
    [] p = <<"b", "c">> -> r.c
    [] p = <<"b", "b">> -> r.bb
    [] p = <<"b", "b", "c">> -> Opposite(r.c)
    [] p[Len(p)] = "e" -> r.e
    [] p[Len(p)] = NameA -> r.A
    [] p[Len(p)] = NameB -> Opposite(r.A)
    [] OTHER -> r.a

\* The verdicts on a and c: not both are excluded.
Primitives == (Sure \X Sure) \ {<<"exclude", "exclude">>}

\* The verdicts on e and on its values, which are checked if e is partial; the
\* verdict on unknown fields goes with them, since they do not interfere.
EnumRules == {<<"include", "include">>, <<"exclude", "exclude">>} \cup ({"partial"} \X Sure)

\* Below a path that is not partially included no field is checked.
PlainRules ==
  { Plain(v[1], "partial", v[2], enum[1], vbb, enum[2], Opposite(enum[2])) :
      v \in Primitives, vbb \in Verdicts, enum \in EnumRules }
  \cup { Plain(va, vb, "include", "include", "include", "include", vu) :
           va \in Sure, vb \in Sure, vu \in Sure }

-------------------------------------------------------------------------------
(* Messages of maps and Structs                                               *)

k == <<107>>
j == <<106>>
NameK == ToString(k)
NameJ == ToString(j)
key(at) == Str(1, at)
Entry(n, at, v) == Sub(n, <<key(at), v>>)
m(at, fs) == Entry(3, at, Sub(2, fs))
st(fs) == Sub(6, fs)
Val(at, fs) == Entry(1, at, Sub(2, fs))
number == Num(1, 3)

MapAsts ==
  { <<a, m(k, <<c>>), a>>, <<m(k, <<>>), m(j, <<c>>)>>,
    <<m(j, <<c, e(A)>>), m(k, <<c, c>>), a>>,
    <<m(k, <<es(<<A, B>>)>>), m(k, <<e(B), c>>)>>,
    <<st(<<>>), a>>, <<st(<<Val(k, <<number>>)>>), a>>,
    <<a, st(<<Val(k, <<number>>), Val(j, <<number>>)>>), a>>,
    <<st(<<Val(k, <<Sub(2, <<Val(j, <<number>>), Val(k, <<number>>)>>)>>),
           Val(j, <<>>)>>)>>,
    <<st(<<Val(j, <<Sub(2, <<Val(k, <<>>)>>)>>), Val(k, <<number>>)>>), m(k, <<c>>)>>,
    <<m(k, <<c, Unknown>>), m(j, <<bb(<<c>>)>>)>>,
    <<Sub(3, <<key(k), Sub(2, <<c>>), Unknown>>), a>>,
    <<a, Sub(3, <<key(k), Sub(2, <<c>>), Zero>>), a>> }

\* As CutAsts.
CutMapAsts ==
  {<<a, Missing(n[1], Sub(3, <<key(k), Missing(n[2], Sub(2, <<c>>))>>))>> :
     n \in {<<1, 1>>, <<1, 2>>, <<2, 1>>}}
  \cup {<<Missing(1, st(<<Missing(1, Val(k, <<number>>))>>))>>}

\* Entries whose key is not what comes first.
LateKey == {<<Sub(3, <<Unknown, key(k), Sub(2, <<c>>)>>), a>>}

\* The last value of a packed enum is missing.
PackedCut == {<<a, Missing(1, b(<<c, Missing(1, es(<<A>>))>>))>>}

MapRule(va, vm, vk, vj, vc, vb, unknown) ==
  [sort |-> "map", a |-> va, m |-> vm, k |-> vk, j |-> vj, c |-> vc, b |-> vb,
   unknown |-> unknown]

MapVerdict(r, p) ==
  LET last == p[Len(p)]
  IN  IF p = <<"a">> THEN r.a
      ELSE IF p \in {<<"m">>, <<"st">>} THEN r.m
      ELSE IF p \in {<<"m", NameK>>, <<"st", "fields", NameK>>} THEN r.k
      ELSE IF p \in {<<"m", NameJ>>, <<"st", "fields", NameJ>>} THEN r.j
      ELSE IF last \in {"fields", "e", "b"} THEN "partial"
      ELSE IF last \in {"c", NameA, NameK} THEN r.c ELSE r.b

\* At least one of the two keys is partially included.
KeyRules == {vs \in Verdicts \X Verdicts : "partial" \in {vs[1], vs[2]}}

MapRules ==
  { MapRule(v[1], "partial", vs[1], vs[2], v[2], vb, vb) :
      v \in Primitives, vs \in KeyRules, vb \in Sure }
  \cup { MapRule(va, "include", "include", "include", "include", "include", "include") :
           va \in Sure }

-------------------------------------------------------------------------------
(* Checkers: most do not include a primitive field in part; a careless one    *)
(* says the same whatever the field.                                          *)

Careless(v, unknown) == [sort |-> "careless", says |-> v, unknown |-> unknown]

\* Includes everything but the fields named c.
AllButC == [sort |-> "all but c", unknown |-> "include"]

MCKnown(r, p, field, depth) ==
  CASE r.sort = "careless" -> r.says
    [] r.sort = "all but c" -> IF p[Len(p)] = "c" THEN "exclude"
                              ELSE IF field.kind = "message" THEN "partial" ELSE "include"
    [] OTHER ->
         LET v == IF r.sort = "plain" THEN PlainVerdict(r, p) ELSE MapVerdict(r, p)
         IN  IF v = "partial" /\ field.kind \in {"number", "text"} THEN "exclude" ELSE v

\* In a message inside another one the opposite is said of unknown fields, unless a
\* part of them is asked for.
MCOnUnknown(r, p, depth) ==
  IF Len(p) <= 1 \/ r.unknown = "partial" THEN r.unknown ELSE Opposite(r.unknown)

\* There is no Any in these messages.
MCOnType(r, type) == "include"
MCSupportsAny(r) == FALSE
MCTypeNamed(url) == NoType

PlainCheckers ==
  {<<>>, <<Careless("partial", "include")>>, <<Careless("partial", "partial")>>}
  \cup {<<r>> : r \in PlainRules}

\* Added to the others by AddFieldFilter().
MCFilters == {AllButC}

MapCheckers == {<<r>> : r \in MapRules}

-------------------------------------------------------------------------------

AllCases ==
  ((PlainAsts \cup CutAsts) \X PlainCheckers) \cup ((MapAsts \cup CutMapAsts) \X MapCheckers)
LateKeyCases == LateKey \X MapCheckers
PackedCutCases ==
  PackedCut \X {<<r>> : r \in {q \in PlainRules : q.b = "partial" /\ q.e = "partial"}}

\* The length a call will write for its field is at every moment the number of
\* bytes that its TagCopys make: those behind its own in the list, up to the one
\* of the call it is waiting for.  A map entry adds the copied key at the end.
Size(t) == IF t.copy > 0 THEN t.copy ELSE Len(t.tag) + VarintSize(t.length) + Len(t.message)

KeptBytes ==
  LET total[n \in 0..Len(copies)] == IF n = 0 THEN 0 ELSE total[n - 1] + Size(copies[n])
  IN  phase = "scan" =>
    \A i \in 1..Len(stack) :
      LET waiting == i < Len(stack)
          last == IF waiting THEN stack[i + 1].index - 1 ELSE Len(copies)
      IN  total[last] - total[stack[i].index]
            = stack[i].result
                + IF waiting /\ stack[i].kind = "entry" THEN stack[i].key.length ELSE 0

-------------------------------------------------------------------------------
(* Claims of the documentation that the code does not keep.                   *)

\* "Key field may not always be the first coming data" (proto_scrubber.cc:747):
\* an entry whose value is kept in part has its key, wherever that was.
LateKeyKept ==
  Done /\ phase = "ok" /\ ~checkOnly /\ checkers[1].m = "partial" /\ checkers[1].k = "partial"
    => \E i \in 1..Len(message) : SubSeq(message, i, i) = k

\* "Sets the limit of input_stream to be the length of the current field, so we can
\* do a sanity check at the end of this method to make sure we have consumed the
\* whole field" (proto_scrubber.cc:572-574): a call with a packed enum whose end
\* is missing is an error.
PackedConsumed == phase = "scan" ~> phase = "error"
===============================================================================
