------------------------------- MODULE Messages --------------------------------
(***************************************************************************)
(* Messages as they are before they are serialized, how they are           *)
(* serialized, and what their checksum is.                                 *)
(*                                                                         *)
(* A message is a sequence of fields: a number (or enum), bytes (a text,   *)
(* or a packed list of numbers), a submessage, or a zero byte in place of  *)
(* a tag.  A field may be longer, by its length, than what there is of it. *)
(***************************************************************************)
EXTENDS MessageTypes

LOCAL INSTANCE SequencesExt

FieldWith(n, sort, bytes, fs) ==
  [n |-> n, sort |-> sort, bytes |-> bytes, sub |-> fs, missing |-> 0]
Num(n, v) == FieldWith(n, "number", <<v>>, <<>>)
Str(n, bytes) == FieldWith(n, "bytes", bytes, <<>>)
Sub(n, fs) == FieldWith(n, "sub", <<>>, fs)
Zero == FieldWith(0, "zero", <<>>, <<>>)

\* The last field of a message, of which the last bytes are missing.
Missing(bytes, f) == [f EXCEPT !.missing = bytes]

TagOf(f) == MakeTag(f.n, IF f.sort = "number" THEN VarintWire ELSE LengthDelimited)

RECURSIVE Encode(_)
Encode(fs) ==
  LET body(f) == IF f.sort = "sub" THEN Encode(f.sub) ELSE f.bytes
      field(f) == CASE f.sort = "zero" -> <<0>>
                    [] f.sort = "number" -> <<TagOf(f)>> \o f.bytes
                    [] OTHER -> <<TagOf(f)>> \o Varint(Len(body(f)) + f.missing) \o body(f)
  IN  FlattenSeq([i \in 1..Len(fs) |-> field(fs[i])])

\* An Any: of several type_urls, or values, the last one counts.
LastOf(fs, n) == LET of == SelectSeq(fs, LAMBDA f : f.n = n)
                 IN  IF of = <<>> THEN Str(n, <<>>) ELSE of[Len(of)]
UrlOf(f) == LastOf(f.sub, 1).bytes
ValueOf(f) == LastOf(f.sub, 2).sub
NamedBy(f) == IF UrlOf(f) = <<>> THEN NoType ELSE TypeNamed(UrlOf(f))

-------------------------------------------------------------------------------
(* The checksum of the fields `fs` of a message of that type that is found     *)
(* behind the tags `at`, if messages are looked into that have at most `depth` *)
(* tags before them; and whether it cannot be computed.  `small` are the types *)
(* whose numbers count directly and not when they are 0.                       *)

XorAll(sets) == FoldLeft(Xor, {}, sets)

FieldOf(type, f) == Fields[type][f.n]
IsKnown(type, f) == Found(type) /\ f.n \in DOMAIN Fields[type]

\* A known field serialized as its type says.
Proper(type, f) ==
  /\ IsKnown(type, f)
  /\ LET kind == FieldOf(type, f).kind
     IN  CASE f.sort = "number" -> kind \in {"number", "enum"}
           [] f.sort = "bytes" -> kind = "text" \/ IsPackable(FieldOf(type, f))
           [] f.sort = "sub" -> kind = "message"
           [] f.sort = "zero" -> FALSE

Cut(depth, at) == depth >= 0 /\ Len(at) > depth

Counted(at, f) == {Pair(Append(at, TagOf(f)), f.bytes)}
NotZero(at, fs) ==
  UNION {IF fs[i].n \in {1, 2} /\ fs[i].bytes # <<0>> THEN Counted(at, fs[i]) ELSE {} :
           i \in 1..Len(fs)}

RECURSIVE Facts(_, _, _, _, _)
Facts(small, type, at, fs, depth) ==
  LET inside(f) == Append(at, TagOf(f))
      each(f) == [i \in 1..Len(f.bytes) |->
                    {Pair(Append(at, MakeTag(f.n, VarintWire)), <<f.bytes[i]>>)}]
      child(f) ==
        LET t == FieldOf(type, f).type
        IN  CASE t \in small -> NotZero(inside(f), f.sub)
              [] t = AnyType ->
                   Xor({Pair(Append(inside(f), MakeTag(1, LengthDelimited)), UrlOf(f))},
                       IF ValueOf(f) = <<>> THEN {}
                       ELSE Facts(small, NamedBy(f), Append(inside(f), MakeTag(2, LengthDelimited)),
                                  ValueOf(f), depth))
              [] OTHER -> Facts(small, t, inside(f), f.sub, depth)
      fact(f) == CASE ~Proper(type, f) -> {}
                   [] f.sort = "sub" /\ Proper(type, f) -> child(f)
                   [] f.sort = "bytes" /\ Proper(type, f) /\ IsPackable(FieldOf(type, f)) ->
                        XorAll(each(f))
                   [] OTHER -> IF f.bytes = <<>> THEN {} ELSE Counted(at, f)
  IN  IF Cut(depth, at) THEN {} ELSE XorAll([i \in 1..Len(fs) |-> fact(fs[i])])

RECURSIVE Unsummable(_, _, _, _, _)
Unsummable(small, type, at, fs, depth) ==
  ~Cut(depth, at) /\ \E i \in 1..Len(fs) :
    LET f == fs[i]
        t == FieldOf(type, f).type
        inside == Append(at, TagOf(f))
    IN  /\ Proper(type, f) /\ f.sort = "sub"
        /\ CASE t \in small -> FALSE
             [] t \notin small /\ ~Found(t) -> TRUE
             [] t = AnyType ->
                  \/ UrlOf(f) = <<>>
                  \/ ValueOf(f) # <<>> /\ NamedBy(f) = NoType
                  \/ ValueOf(f) # <<>> /\ NamedBy(f) # NoType
                       /\ Unsummable(small, NamedBy(f), Append(inside, MakeTag(2, LengthDelimited)),
                                     ValueOf(f), depth)
             [] OTHER -> Unsummable(small, t, inside, f.sub, depth)
===============================================================================
