----------------------------- MODULE MCChecksummer -----------------------------
(***************************************************************************)
(* Checksummer on messages of                                              *)
(*   message R { int32 a; repeated int32 as; string s; R r; repeated R rs; *)
(*               Any any; Timestamp time; Int32Value wrap; Missing u;      *)
(*               repeated string ss; map<string, R> m; BoolValue lost; }   *)
(* of which the type finder does not know Missing and BoolValue, and a     *)
(* reference that computes the checksum from the fields instead of the     *)
(* bytes.                                                                  *)
(***************************************************************************)
EXTENDS Checksummer, Messages

LOCAL INSTANCE SequencesExt

Fld(kind, repeated, type) == [kind |-> kind, repeated |-> repeated, type |-> type]
Number == Fld("number", FALSE, NoType)
Text == Fld("text", FALSE, NoType)
Message(type) == Fld("message", FALSE, type)
Repeated(field) == [field EXCEPT !.repeated = TRUE]

MCFields ==
  [R |-> <<Number, Repeated(Number), Text, Message("R"), Repeated(Message("R")),
           Message("Any"), Message("Timestamp"), Message("Int32Value"), Message("Missing"),
           Repeated(Text), Repeated(Message("Entry")), Message("BoolValue")>>,
   Any |-> <<Text, Text>>,
   Timestamp |-> <<Number, Number>>,
   Int32Value |-> <<Number>>,
   Entry |-> <<Text, Message("R")>>]

MCTypeNamed(url) == IF url = <<65>> THEN "R" ELSE NoType

-------------------------------------------------------------------------------
(* Messages                                                                    *)

a(v) == Num(1, v)
as(vs) == Str(2, vs)   \* packed
s == Str(3, <<97>>)
r(fs) == Sub(4, fs)
rs(fs) == Sub(5, fs)
any(url, fs) == Sub(6, <<Str(1, url), Sub(2, fs)>>)
time(fs) == Sub(7, fs)
wrap(fs) == Sub(8, fs)
ss(bytes) == Str(10, bytes)
m(k, fs) == Sub(11, <<Str(1, k), Sub(2, fs)>>)
lost(fs) == Sub(12, fs)
Unknown == Num(13, 5)

Children == {<<>>, <<a(9)>>, <<s, Num(2, 8)>>, <<as(<<7, 8>>), a(0)>>, <<Unknown, r(<<a(9)>>)>>,
             <<r(<<s>>), rs(<<a(9)>>), a(9)>>}

Asts ==
  { <<>>, <<a(1), a(2)>>, <<a(1), a(1)>>, <<a(0)>>, <<Str(3, <<>>), s>>,
    <<Num(2, 7), Num(2, 8), Num(2, 7), s>>, <<as(<<7, 8, 8>>), as(<<9>>), Num(2, 8)>>,
    <<as(<<>>), a(1)>>, <<Num(2, 7), as(<<7>>)>>, <<Num(3, 9), Str(1, <<9>>), a(1)>>,
    <<ss(<<97>>), ss(<<>>), ss(<<98>>), a(1)>>, <<Sub(9, <<>>), a(1)>>, <<a(1), Sub(9, <<a(1)>>)>>,
    <<time(<<Num(1, 6), Num(2, 7)>>), a(1)>>, <<time(<<Num(2, 0)>>)>>, <<time(<<Num(1, 6), Num(3, 5)>>), s>>, <<time(<<>>), a(1)>>,
    <<wrap(<<Num(1, 6)>>), a(1)>>, <<wrap(<<Num(1, 0)>>), a(1)>>, <<wrap(<<>>)>>,
    <<wrap(<<Str(9, <<>>)>>), a(1)>>, <<r(<<time(<<Num(1, 6)>>), wrap(<<Num(1, 6)>>)>>)>>,
    <<Sub(6, <<Str(1, <<65>>)>>), a(1)>>, <<Sub(6, <<Sub(2, <<a(1)>>)>>), a(1)>>,
    <<Sub(6, <<Sub(2, <<a(1)>>), Unknown, Str(1, <<65>>)>>), a(1)>>, <<Sub(6, <<>>)>>,
    <<any(<<66>>, <<a(1)>>)>>, <<a(1), any(<<66>>, <<>>)>>,
    <<any(<<65>>, <<any(<<65>>, <<a(6), s>>), a(1)>>), a(1)>>,
    <<m(<<97>>, <<a(1)>>), m(<<98>>, <<s>>), a(1)>>, <<r(<<m(<<97>>, <<>>), Sub(9, <<>>)>>), s>>,
    <<lost(<<>>), a(1)>>, <<r(<<lost(<<Num(1, 1)>>), a(1)>>), lost(<<lost(<<Num(1, 1)>>)>>)>>,
    <<lost(<<Num(2, 7), Sub(9, <<>>)>>), a(1)>> }
  \cup {<<r(fs), a(6)>> : fs \in Children}
  \cup {<<lost(fs), s>> : fs \in Children}
  \cup {<<rs(fs), rs(gs), s>> : fs \in Children, gs \in Children}
  \cup {<<a(1), any(<<65>>, fs), s>> : fs \in Children}

MCInputs == {[message |-> Encode(fs), tags |-> at] : fs \in Asts, at \in {<<>>, <<34>>}}

MCMaxDepths == {-1, 0, 1, 3}

Serialized == {[bytes |-> Encode(fs), fields |-> fs] : fs \in Asts}
Ast == (CHOOSE x \in Serialized : x.bytes = message).fields

-------------------------------------------------------------------------------

Small == Timestamps \cup Wrappers

\* A message as it is read: of a wrapper whose type is not found the fields are
\* taken for fields of the message around it.
RECURSIVE AsRead(_, _)
AsRead(type, fs) ==
  LET child(f) == FieldOf(type, f).type
      value(t, f) == IF f.n = 2 THEN [f EXCEPT !.sub = AsRead(t, @)] ELSE f
      field(f) ==
        CASE ~(Proper(type, f) /\ f.sort = "sub") -> <<f>>
          [] Proper(type, f) /\ f.sort = "sub" /\ child(f) \in Wrappers /\ ~Found(child(f)) ->
               <<Sub(f.n, <<>>)>> \o AsRead(type, f.sub)
          [] Proper(type, f) /\ f.sort = "sub" /\ child(f) = AnyType ->
               <<[f EXCEPT !.sub = [i \in 1..Len(@) |-> value(NamedBy(f), @[i])]]>>
          [] OTHER -> <<[f EXCEPT !.sub = AsRead(child(f), @)]>>
  IN  FlattenSeq([i \in 1..Len(fs) |-> field(fs[i])])

Seen == AsRead(RootType, Ast)

\* No message that is found is beyond the limit.
RECURSIVE Within(_, _, _)
Within(type, at, fs) ==
  ~Cut(maxDepth, at) /\ \A i \in 1..Len(fs) :
    LET f == fs[i]
        t == FieldOf(type, f).type
        inside == Append(at, TagOf(f))
    IN  Proper(type, f) /\ f.sort = "sub" /\ t \notin Small /\ Found(t) =>
          IF t = AnyType
          THEN NamedBy(f) # NoType => Within(NamedBy(f), inside \o <<18>>, ValueOf(f))
          ELSE Within(t, inside, f.sub)

\* What was asked for: the message, or its first field with its repetitions.
RunLength ==
  LET first == FieldOf(RootType, Seen[1])
      run == {n \in 1..Len(Seen) : \A i \in 1..n : TagOf(Seen[i]) = TagOf(Seen[1])}
  IN  IF first.repeated /\ ~(IsPackable(first) /\ Seen[1].sort = "bytes")
      THEN CHOOSE n \in run : \A k \in run : k <= n ELSE 1

\* A field that is asked for alone is serialized as its type says, and nothing
\* that was asked for is beyond the limit.
Answerable ==
  /\ call = "field" => Proper(RootType, Seen[1])
  /\ Within(RootType, parentTags, Seen)

Asked == IF call = "field" THEN SubSeq(Seen, 1, RunLength) ELSE Seen

-------------------------------------------------------------------------------

Done == phase \in {"ok", "error"}

\* The checksum is the xor over the fields that were asked for, in any order,
\* packed or not, behind the tags that lead to them.
ExactChecksum ==
  phase = "ok" /\ Answerable =>
    checksum = Facts(Small, RootType, parentTags, Asked, maxDepth)

\* A call fails exactly when the type of a message cannot be found, or that of
\* the message in an Any; a wrapper without a type is no error (AsRead).
FailsExactly ==
  Done /\ Answerable =>
    (phase = "error" <=> Unsummable(Small, RootType, parentTags, Asked, maxDepth))

\* CalculateSingleFieldChecksum() leaves its caller behind the tag of the next
\* field, which it returns, and with the tags the caller had.
StopsBehindField ==
  phase = "ok" /\ call = "field" /\ Answerable =>
    LET rest == SubSeq(Seen, RunLength + 1, Len(Seen))
    IN  /\ tags = parentTags
        /\ next = IF rest = <<>> THEN 0 ELSE TagOf(rest[1])
        /\ position = Len(Encode(Asked))
        /\ pos = position + IF rest = <<>> THEN 0 ELSE 1

\* Every call returns, also one that has left fields unread for their depth.
Terminates == phase \in {"scan", "failing"} ~> Done

-------------------------------------------------------------------------------
(* A claim of the documentation that the code does not keep.                   *)

\* "If the message nested depth exceeds the limit, skip calculating the child
\* checksum" (checksummer.cc:246-247): what is beyond the limit adds nothing, and
\* changes nothing else.
LimitSkipsChildren ==
  phase = "ok" /\ (call = "field" => Proper(RootType, Seen[1])) =>
    checksum = Facts(Small, RootType, parentTags, Asked, maxDepth)
===============================================================================
