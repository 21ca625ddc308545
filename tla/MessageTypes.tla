----------------------------- MODULE MessageTypes ------------------------------
(***************************************************************************)
(* The types of messages (google.protobuf.Type), which the scrubber and    *)
(* the checksummer are given by the caller's type finder, and the          *)
(* checksums they compute.                                                 *)
(*                                                                         *)
(* A field is a record of its name, its kind ("number", "enum", "text" or  *)
(* "message"), whether it is repeated and whether it is a map, the type of *)
(* a message, and whether that is one of Google's public types.            *)
(***************************************************************************)
EXTENDS WireFormat

CONSTANTS
  Fields,     \* Fields[t][n]: the field number n of message type t
  NoType,     \* nullptr in place of a Type
  AnyType,    \* google.protobuf.Any
  TypeNamed(_) \* TypeNamed(url): what the type finder has for a type_url

IsPackable(field) == field.repeated /\ field.kind \in {"number", "enum"}

WireTypeOf(field) ==
  IF field.kind \in {"number", "enum"} THEN VarintWire ELSE LengthDelimited

FindField(type, number) == number \in DOMAIN Fields[type]

\* type_url and value of an Any are a string and bytes.
AnyHasTexts ==
  \A n \in {1, 2} : FindField(AnyType, n) => Fields[AnyType][n].kind = "text"

FindAndVerifyField(type, tag) ==
  /\ FindField(type, NumberOf(tag))
  /\ LET field == Fields[type][NumberOf(tag)]
     IN  \/ WireOf(tag) = WireTypeOf(field)
         \/ IsPackable(field) /\ WireOf(tag) = LengthDelimited

\* What the type finder answers for the type_url of a field.
Found(type) == type \in DOMAIN Fields

-------------------------------------------------------------------------------
(* A checksum is the xor of the hashes of (tags, value): here the set of the   *)
(* pairs that have been added an odd number of times.                          *)

Pair(at, value) == [tags |-> at, value |-> value]

Xor(x, y) == (x \ y) \cup (y \ x)

\* AddToChecksum(): a pair with nothing in it does not count.
Added(set, at, value) ==
  IF at = <<>> \/ value = <<>> THEN set ELSE Xor(set, {Pair(at, value)})
===============================================================================
