--------------------------- MODULE ScrubbedMessage ----------------------------
(***************************************************************************)
(* What scrubbing a message means, on the message itself instead of its    *)
(* bytes: which fields are kept, and when a call has to fail.              *)
(*                                                                         *)
(* It is defined on regular messages: a known field is serialized as its   *)
(* type says, and a map entry has its key and its value, each once and in  *)
(* that order, perhaps with more behind them that is not kept in an entry  *)
(* the checkers look at.  Their end may be missing.                        *)
(***************************************************************************)
EXTENDS ProtoScrubber, Messages

LOCAL INSTANCE SequencesExt

CONSTANTS
  Cases,     \* the inputs of a run: messages as they are before they are
             \* serialized, each with a list of checkers to scrub it with
  Irregular, \* those of the messages that are not regular
  Small      \* the types whose numbers the checksummer reads in its own way

\* Who scrubs the message of a path: a list of checkers, the depth at which its
\* scrubber has begun, and whether a Struct forgets the keys of empty values; and
\* how many bytes of that message may be missing.
Env(cs) == [cs |-> cs, depth |-> 0, erase |-> TRUE, room |-> NoLimit]

Within(e, f) == [e EXCEPT !.room = Up(f.missing, @)]
InAny(e, q) ==
  [e EXCEPT !.cs = SelectSeq(@, SupportsAny), !.depth = @ + Len(q), !.room = NoLimit]

-------------------------------------------------------------------------------
(* Verdicts                                                                    *)

Together(verdicts) ==
  IF \E v \in verdicts : v = "exclude" THEN "exclude"
  ELSE IF \A v \in verdicts : v = "include" THEN "include" ELSE "partial"

Verdict(e, p, field) ==
  Together({OnKnown(e.cs[i], p, field, e.depth + Len(p) - 1) : i \in DOMAIN e.cs})

PathTo(type, p, f) == IF type = ValueType THEN p ELSE Append(p, FieldOf(type, f).name)

VerdictOn(e, type, p, f) ==
  IF ~IsKnown(type, f)
  THEN Together({OnUnknown(e.cs[i], p, e.depth + Len(p) - 1) : i \in DOMAIN e.cs})
  ELSE IF FieldOf(type, f).public THEN "include"
  ELSE Verdict(e, PathTo(type, p, f), FieldOf(type, f))

EnumVerdictOn(e, q, field, v) == Verdict(e, Append(q, ToString(v)), field)
EnumIncluded(e, q, field, v) == EnumVerdictOn(e, q, field, v) = "include"

\* The map entry f of type `type` found at path q: the path of its value, and
\* the verdict on it.
EntryPath(q, f) ==
  LET key == f.sub[1]
  IN  Append(q, IF key.sort = "bytes" THEN ToString(key.bytes) ELSE ToString(key.bytes[1]))
EntryVerdict(e, type, q, f) == Verdict(e, EntryPath(q, f), Fields[type][2])

\* An Any is looked into by the checkers that support it, if there are any.
IsAny(e, field) == field.type = AnyType /\ SelectSeq(e.cs, SupportsAny) # <<>>

AnyVerdict(e, f) ==
  LET cs == SelectSeq(e.cs, SupportsAny)
  IN  IF NamedBy(f) = NoType THEN "include"
      ELSE Together({OnType(cs[i], NamedBy(f)) : i \in DOMAIN cs})

-------------------------------------------------------------------------------
(* What is kept: KeptPart() of a field at path q that is partially included.   *)

RECURSIVE Kept(_, _, _, _), KeptPart(_, _, _, _)
Kept(e, type, p, fs) ==
  LET keep(f) == CASE VerdictOn(e, type, p, f) = "include" -> <<f>>
                   [] VerdictOn(e, type, p, f) = "exclude" -> <<>>
                   [] OTHER -> KeptPart(e, FieldOf(type, f), PathTo(type, p, f), f)
  IN  FlattenSeq([i \in 1..Len(fs) |-> keep(fs[i])])

KeptEntry(e, d, q, f) ==
  LET part == KeptPart(e, Fields[d.type][2], EntryPath(q, f), f.sub[2])
  IN  CASE EntryVerdict(e, d.type, q, f) = "include" -> <<Sub(f.n, SubSeq(f.sub, 1, 2))>>
        [] EntryVerdict(e, d.type, q, f) = "exclude" -> <<>>
        [] OTHER -> IF part = <<>> /\ d.type = StructEntry /\ e.erase THEN <<>>
                    ELSE <<Sub(f.n, <<f.sub[1]>> \o part)>>

\* An Any nothing is left in is dropped.
KeptAny(e, q, f) ==
  LET value == Kept(InAny(e, q), NamedBy(f), <<>>, ValueOf(f))
  IN  CASE AnyVerdict(e, f) = "include" -> <<f>>
        [] AnyVerdict(e, f) = "exclude" -> <<>>
        [] OTHER -> IF value = <<>> THEN <<>>
                    ELSE <<Sub(f.n, <<Str(1, UrlOf(f)), Sub(2, value)>>)>>

KeptPart(e, d, q, f) ==
  CASE d.kind = "enum" ->
         LET included(v) == EnumIncluded(e, q, d, v)
             values == SelectSeq(f.bytes, included)
         IN  IF f.sort = "number" /\ values = <<>> THEN <<>> ELSE <<[f EXCEPT !.bytes = values]>>
    [] IsAny(e, d) -> KeptAny(e, q, f)
    [] d.kind # "enum" /\ ~IsAny(e, d) /\ d.map -> KeptEntry(e, d, q, f)
    [] OTHER ->
         LET part == Kept(e, d.type, q, f.sub)
         IN  IF part = <<>> /\ d.type \in EmptyErased THEN <<>> ELSE <<Sub(f.n, part)>>

-------------------------------------------------------------------------------
(* When a call fails: a part of an unknown field is asked for, or of a field   *)
(* of unknown type, or the message is malformed; when what is copied is behind *)
(* the end of the data; with check, also when something is excluded other than *)
(* a packed enum value; and, asked for a checksum, when something excluded     *)
(* cannot be summed.                                                           *)

Lost(type, fs) == summing /\ Unsummable(Small, type, <<>>, fs, -1)

\* The field is to be copied, and by its length is behind the end of its message,
\* which is behind the end of the data.
Overruns(e, f) == ~checkOnly /\ f.missing > e.room

RECURSIVE Fails(_, _, _, _), PartFails(_, _, _, _)
Fails(e, type, p, fs) ==
  \E i \in 1..Len(fs) :
    LET f == fs[i]  v == VerdictOn(e, type, p, f)
    IN  \/ f.sort = "zero"
        \/ v = "include" /\ Overruns(e, f)
        \/ v = "exclude" /\ (checkOnly \/ Lost(type, <<f>>))
        \/ v = "partial" /\ ~IsKnown(type, f)
        \/ v = "partial" /\ IsKnown(type, f)
             /\ PartFails(e, FieldOf(type, f), PathTo(type, p, f), f)

EntryFails(e, d, q, f) ==
  CASE EntryVerdict(e, d.type, q, f) = "include" -> Overruns(e, f.sub[2])
    [] EntryVerdict(e, d.type, q, f) = "exclude" -> checkOnly \/ Lost(d.type, <<f.sub[2]>>)
    [] OTHER -> PartFails(e, Fields[d.type][2], EntryPath(q, f), f.sub[2])

AnyFails(e, q, f) ==
  \/ \E i \in 1..Len(f.sub) : f.sub[i].sort = "zero"
  \/ CASE AnyVerdict(e, f) = "include" -> FALSE
       [] AnyVerdict(e, f) = "exclude" -> checkOnly \/ Lost(NamedBy(f), ValueOf(f))
       [] OTHER -> Fails(InAny(e, q), NamedBy(f), <<>>, ValueOf(f))

PartFails(e, d, q, f) ==
  CASE d.kind = "enum" -> checkOnly /\ f.sort = "number"
                            /\ EnumVerdictOn(e, q, d, f.bytes[1]) = "exclude"
    [] d.kind # "enum" /\ ~Found(d.type) -> TRUE
    [] IsAny(e, d) -> AnyFails(e, q, f)
    [] d.kind # "enum" /\ Found(d.type) /\ ~IsAny(e, d) /\ d.map ->
         EntryFails(Within(e, f), d, q, f)
    [] OTHER -> Fails(Within(e, f), d.type, q, f.sub)

-------------------------------------------------------------------------------

MCInputs == {[message |-> Encode(case[1]), checkers |-> case[2]] : case \in Cases}

\* The message that was given, as it is before it is serialized.
Serialized == {[bytes |-> Encode(case[1]), fields |-> case[1]] : case \in Cases}
Ast == (CHOOSE s \in Serialized : s.bytes = original).fields

Done == phase \in {"ok", "error"} /\ checkers # <<>>
Regular == Ast \notin Irregular

\* A scrubbed message is the serialization of what the checkers leave of it,
\* also when it was scrubbed before with fewer checkers or the same.
OutputExact ==
  Done /\ phase = "ok" /\ Regular =>
    message = IF checkOnly THEN original ELSE Encode(Kept(Env(checkers), RootType, <<>>, Ast))

\* A call fails exactly when a checked part of the message cannot be scrubbed,
\* or, when only checking, something other than a packed value is excluded, or
\* something excluded cannot be summed.
FailsExactly ==
  Done /\ Regular => (phase = "error" <=> Fails(Env(checkers), RootType, <<>>, Ast))

\* A call that has started returns.
Terminates == phase \in {"scan", "sum", "copy"} ~> phase \in {"ok", "error"}
===============================================================================
