-------------------------- MODULE MCScrubWithChecksum --------------------------
(***************************************************************************)
(* ProtoScrubber, called for a checksum or not, on messages of             *)
(*   message R { int32 a; B b; map<string, B> m; Missing u; Any any;       *)
(*               Struct st; Timestamp time; repeated int32 as;             *)
(*               map<int32, Any> x; BoolValue lost; }                      *)
(*   message B { int32 c; repeated E e; B b; Any any; }                    *)
(*   message DebugInfo { int32 c; }                                        *)
(* Struct, whose fields are a map of Values, and Any.  The type finder     *)
(* does not know Missing and BoolValue.                                    *)
(***************************************************************************)
EXTENDS ScrubWithChecksum, ScrubbedMessage, FieldCheckers

Fld(name, kind, type) ==
  [name |-> name, kind |-> kind, type |-> type, map |-> FALSE, public |-> FALSE,
   repeated |-> FALSE]
Repeated(field) == [field EXCEPT !.repeated = TRUE]
Map(name, type) == [Repeated(Fld(name, "message", type)) EXCEPT !.map = TRUE]
Numeric(name) == Fld(name, "number", NoType)
Textual(name) == Fld(name, "text", NoType)
MessageOf(name, type) == Fld(name, "message", type)

MCFields ==
  [R |-> <<Numeric("a"), MessageOf("b", "B"), Map("m", "ME"), MessageOf("u", "Missing"),
           MessageOf("any", "Any"), MessageOf("st", "Struct"), MessageOf("time", "Timestamp"),
           Repeated(Numeric("as")), Map("x", "XE"), MessageOf("lost", "BoolValue")>>,
   B |-> <<Numeric("c"), Repeated(Fld("e", "enum", NoType)), MessageOf("b", "B"),
           MessageOf("any", "Any")>>,
   DebugInfo |-> <<Numeric("c")>>,
   ME |-> <<Textual("key"), MessageOf("value", "B")>>,
   XE |-> <<Numeric("key"), MessageOf("value", "Any")>>,
   Any |-> <<Textual("type_url"), Textual("value")>>,
   Struct |-> <<Map("fields", "FieldsEntry")>>,
   FieldsEntry |-> <<Textual("key"), MessageOf("value", "Value")>>,
   Value |-> <<Numeric("number_value"), MessageOf("struct_value", "Struct")>>,
   Timestamp |-> <<Numeric("seconds"), Numeric("nanos")>>]

UrlB == <<66>>
UrlDebugInfo == <<68>>
UrlMissing == <<63>>
MCTypeNamed(url) ==
  CASE url = UrlB -> "B" [] url = UrlDebugInfo -> "DebugInfo" [] OTHER -> NoType

-------------------------------------------------------------------------------
(* Messages                                                                    *)

a == Num(1, 7)
Unknown == Num(12, 0)
b(fs) == Sub(2, fs)
k == <<107>>
m(fs) == Sub(3, <<Str(1, k), Sub(2, fs)>>)
u(fs) == Sub(4, fs)
AnyOf(url, fs) == <<Str(1, url), Sub(2, fs)>>
any(url, fs) == Sub(5, AnyOf(url, fs))
st(fs) == Sub(6, fs)
Val(fs) == Sub(1, <<Str(1, k), Sub(2, fs)>>)
time == Sub(7, <<Num(1, 6), Num(2, 7)>>)
x(v, fs) == Sub(9, <<Num(1, v), Sub(2, fs)>>)

c == Num(1, 8)
e(v) == Num(2, v)
es(vs) == Str(2, vs)
bb(fs) == Sub(3, fs)
bany(url, fs) == Sub(4, AnyOf(url, fs))

PlainAsts ==
  { <<a, b(<<c, e(1)>>), a, Num(8, 7), Str(8, <<7, 8>>), Unknown>>,
    <<b(<<es(<<1, 2, 1>>), bb(<<bb(<<Unknown, c>>), Unknown, c>>)>>), time>>,
    <<m(<<c>>), m(<<e(2), Unknown>>), a>>,
    <<st(<<Val(<<Num(1, 3)>>), Val(<<Sub(2, <<Val(<<>>)>>)>>)>>), a>>,
    <<a, u(<<c>>)>>, <<b(<<c, Zero>>), a>> }

AnyAsts ==
  { <<any(UrlB, <<c, e(1)>>), a>>, <<any(UrlB, <<>>), any(UrlDebugInfo, <<c>>)>>,
    <<any(UrlMissing, <<c>>), any(<<>>, <<c>>), Unknown>>,
    <<Sub(5, <<Sub(2, <<c, u(<<>>)>>), Unknown, Str(1, UrlB)>>), a>>,
    <<Sub(5, <<Str(1, UrlDebugInfo), Sub(2, <<e(1)>>), Str(1, UrlB), Sub(2, <<c, bb(<<c>>)>>)>>)>>,
    <<Sub(5, <<Str(1, UrlB)>>), Sub(5, <<>>), a>>,
    <<b(<<bany(UrlB, <<bany(UrlB, <<c>>), e(2), bany(UrlMissing, <<c>>)>>), c>>)>>,
    <<x(3, AnyOf(UrlB, <<c, Unknown>>)), x(4, <<>>)>>, <<any(UrlB, <<c, Zero>>), a>> }

\* An Any in each place, with each of some values.
Values == {<<c>>, <<e(1), Unknown>>, <<es(<<2, 1>>), c>>, <<bb(<<c, e(2)>>)>>,
           <<bany(UrlB, <<c>>)>>, <<bany(UrlDebugInfo, <<c>>), c>>, <<bany(UrlMissing, <<>>)>>}
Places(fs) == {<<any(UrlB, fs), a>>, <<b(<<c, bany(UrlB, fs)>>)>>, <<x(3, AnyOf(UrlB, fs)), a>>,
               <<any(UrlB, <<bany(UrlB, fs)>>)>>, <<b(<<bb(fs)>>), m(fs)>>}

\* Map entries with fields missing, twice, out of order or behind the value, and
\* malformed ones; and wrappers the checksummer stops inside of.
OddAsts ==
  { <<Sub(3, <<Str(1, k), Str(1, k), Sub(2, <<c, c>>)>>)>>,
    <<Sub(3, <<Str(1, k), Sub(2, <<c>>), Sub(2, <<c, c>>)>>), a>>,
    <<Sub(3, <<Unknown, Str(1, k), Sub(2, <<c>>), Unknown>>), a>>,
    <<Sub(3, <<Sub(2, <<c>>), Str(1, k)>>), a>>, <<Sub(3, <<Str(1, k)>>)>>, <<Sub(3, <<>>), a>>,
    <<Sub(3, <<Unknown, Str(1, k), Zero, Sub(2, <<c>>)>>), a>>,
    <<st(<<Sub(1, <<Str(1, k)>>)>>)>>, <<Sub(10, <<Num(1, 1)>>), a>>,
    <<a, Sub(10, <<Sub(10, <<>>), Sub(2, <<c>>)>>)>> }

-------------------------------------------------------------------------------
(* Checkers: UnknownFieldChecker, InternalFieldChecker, and rules that exclude *)
(* fields by name, and look into all other messages and enums.                 *)

\* Excluded are the fields, keys and values named in `cut` and, from depth `limit`
\* on, all of them; messages named in `whole` are not looked into.
Rule(cut, whole) ==
  [cut |-> cut, whole |-> whole, limit |-> 9, any |-> FALSE, drop |-> {}, look |-> {}]

\* Asked about an Any, it excludes the types in `drop` and looks into those in
\* `look`.
AnyRule(cut, drop, look) == [Rule(cut, {}) EXCEPT !.any = TRUE, !.drop = drop, !.look = look]

RuleNamed ==
  [cuts |-> Rule({"b", "any", "as"}, {}),
   cutsInside |-> Rule({"c", "m"}, {"time"}),
   cutsKeys |-> Rule({ToString(k), "3", "1", "lost"}, {}),
   cutsTypes |-> Rule({"a", "seconds", "u", "st"}, {"any"}),
   wholeKeys |-> Rule({}, {ToString(k)}),
   cutsFields |-> Rule({"c", "fields"}, {}),
   dropsB |-> AnyRule({}, {"B"}, {}),
   cutsInB |-> AnyRule({"c"}, {"DebugInfo"}, {"B"}),
   cutsInAny |-> AnyRule({"e", "a"}, {}, {"B", "DebugInfo"}),
   deep |-> [AnyRule({}, {}, {"B"}) EXCEPT !.limit = 3]]

IsRule(name) == name \in DOMAIN RuleNamed

MCOnKnown(name, p, field, depth) ==
  LET last == p[Len(p)]
      r == RuleNamed[name]
      opens == (field.kind = "message" /\ last \notin r.whole)
                 \/ (field.kind = "enum" /\ last = field.name)
  IN  IF ~IsRule(name) THEN CheckKnown(name, field, depth)
      ELSE IF last \in r.cut \/ depth >= r.limit THEN "exclude"
      ELSE IF opens THEN "partial" ELSE "include"

\* To a rule an unknown field is one without a name: excluded from depth `limit` on.
MCOnUnknown(name, p, depth) ==
  IF ~IsRule(name) THEN CheckUnknownField(name)
  ELSE IF depth + 1 >= RuleNamed[name].limit THEN "exclude" ELSE "include"

MCOnType(name, type) ==
  IF ~IsRule(name) THEN CheckType(name, type)
  ELSE CASE type \in RuleNamed[name].drop -> "exclude"
         [] type \in RuleNamed[name].look -> "partial"
         [] OTHER -> "include"

MCSupportsAny(name) == IF IsRule(name) THEN RuleNamed[name].any ELSE SupportAny(name)

Checkers ==
  {<<name>> : name \in {"cuts", "cutsInside", "cutsKeys", "cutsTypes", "dropsB", "cutsInB",
                        "cutsInAny", "deep"}}
  \cup {<<UnknownFieldChecker>>, <<UnknownFieldChecker, InternalFieldChecker>>,
        <<UnknownFieldChecker, "cutsInB">>}

OddCheckers == {<<"cutsKeys">>, <<"wholeKeys">>, <<"cutsFields">>}

MCCases == ((PlainAsts \cup AnyAsts \cup UNION {Places(fs) : fs \in Values}) \X Checkers) \cup (OddAsts \X OddCheckers)

-------------------------------------------------------------------------------

\* The checksum of what was scrubbed makes that of the message before out of that
\* of the message after.  The keys of values that a Struct lost are in neither.
SumsAddUp ==
  Done /\ phase = "ok" /\ summing /\ ~checkOnly /\ Regular =>
    LET kept == Kept([Env(checkers) EXCEPT !.erase = FALSE], RootType, <<>>, Ast)
        facts(fs) == Facts(Small, RootType, <<>>, fs, -1)
    IN  sum = Xor(facts(Ast), facts(kept))

\* UnknownFieldChecker takes the unknown fields out of a message, down to its
\* depth limit, and out of map entries, and nothing else.
RECURSIVE Clean(_, _, _)
Clean(type, fs, depth) ==
  LET child(f) == FieldOf(type, f).type
      closed(f) == f.sort # "sub" \/ FieldOf(type, f).kind # "message"
                     \/ child(f) \in WellKnownTypes \cup StructTypes \/ depth >= MaxDepth
      known == SelectSeq(fs, LAMBDA f : IsKnown(type, f))
  IN  [i \in 1..Len(known) |->
         LET f == known[i] IN IF closed(f) THEN f ELSE Sub(f.n, Clean(child(f), f.sub, depth + 1))]

UnknownsRemoved ==
  Done /\ phase = "ok" /\ ~checkOnly /\ Regular /\ checkers = <<UnknownFieldChecker>> =>
    message = Encode(Clean(RootType, Ast, 0))
===============================================================================
