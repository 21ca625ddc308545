------------------------------ MODULE WireFormat -------------------------------
(***************************************************************************)
(* The bytes of serialized messages, as CodedInputStream, WireFormatLite   *)
(* and CodedOutputStream read and write them for the scrubber and the      *)
(* checksummer.  A byte is a number and has no meaning of its own: a scan  *)
(* that is out of step reads a length or a value as a tag.                 *)
(*                                                                         *)
(* Tags and values are below 128 and take one byte.  A length takes one    *)
(* byte below VarintBase and two from there on; the base is 128 in the     *)
(* format, and a smaller one lets the lengths of short messages cross it.  *)
(* The data may end in the middle of a field, but not of a tag, a number   *)
(* or a length.                                                            *)
(***************************************************************************)
EXTENDS Integers, Sequences

CONSTANT VarintBase

ASSUME VarintBaseAssumption == VarintBase \in Nat \ {0}

VarintWire == 0
LengthDelimited == 2

MakeTag(number, wire) == 8 * number + wire
NumberOf(tag) == tag \div 8
WireOf(tag) == tag % 8

VarintSize(n) == IF n < VarintBase THEN 1 ELSE 2
Varint(n) == IF n < VarintBase THEN <<n>> ELSE <<128 + (n % VarintBase), n \div VarintBase>>

-------------------------------------------------------------------------------
(* Reading `data` from position p on, up to the limit or the end of the data;  *)
(* positions count from 0.  A limit can be behind the end, that of a message   *)
(* that is not nested always is.                                               *)

NoLimit == 2147483647

Up(p, limit) == IF p < limit THEN p ELSE limit

\* Nothing can be read from here on.
EndOf(data, limit) == Up(Len(data), limit)

\* A tag, a number or a length, and the position behind it; 0 at the end.
ReadVarint(data, p, limit) ==
  IF p >= EndOf(data, limit) THEN 0
  ELSE IF data[p + 1] < 128 \/ p + 1 = EndOf(data, limit) THEN data[p + 1]
  ELSE data[p + 1] - 128 + VarintBase * data[p + 2]

AfterVarint(data, p, limit) ==
  IF p >= EndOf(data, limit) THEN p
  ELSE Up(p + IF data[p + 1] < 128 THEN 1 ELSE 2, EndOf(data, limit))

\* PushLimit() behind a length, and the string of that length.
EndOfLength(data, p, limit) ==
  Up(AfterVarint(data, p, limit) + ReadVarint(data, p, limit), limit)

EndOfString(data, p, limit) == EndOf(data, EndOfLength(data, p, limit))

ReadString(data, p, limit) ==
  SubSeq(data, AfterVarint(data, p, limit) + 1, EndOfString(data, p, limit))

\* Skip() of so many bytes: past the limit it goes to the limit, even if that is
\* behind the end of the data, otherwise not past that end.
Skip(data, p, n, limit) == IF p + n > limit THEN limit ELSE Up(p + n, Len(data))

\* The end of the field whose tag was read; the field number 0 is illegal, and
\* groups are not in the messages.
SkipField(data, tag, p, limit) ==
  IF NumberOf(tag) = 0 THEN p
  ELSE CASE WireOf(tag) = VarintWire      -> AfterVarint(data, p, limit)
         [] WireOf(tag) = LengthDelimited ->
              Skip(data, AfterVarint(data, p, limit), ReadVarint(data, p, limit), limit)
         [] WireOf(tag) = 1               -> Up(p + 8, EndOf(data, limit))
         [] WireOf(tag) = 5               -> Up(p + 4, EndOf(data, limit))
         [] OTHER                         -> p
===============================================================================
