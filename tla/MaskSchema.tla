------------------------------ MODULE MaskSchema ------------------------------
(***************************************************************************)
(* What a field mask is compiled against: the message types a type finder  *)
(* resolves, and the segments a mask path is made of.  The schema itself   *)
(* (google.protobuf.Type) is data handed to the library, so it is a        *)
(* parameter here.                                                         *)
(***************************************************************************)
EXTENDS Naturals, Sequences

CONSTANTS
  Elements,    \* names a path element can be: field names, map keys, enum values
  Types,       \* the message types the type finder resolves
  NoType,      \* nullptr in place of a Type: not a message, or not resolvable
  RootType,    \* the type the mask is applied to
  Schema,      \* Schema[t][n]: the field of type t named n
  StructTypes, \* Struct, Value and ListValue, whose fields nest in each other
  Struct, ListValue,  \* the two of them FindChildField() always searches
  NoKey,       \* a segment without a ["key"] part
  Malformed,   \* a ["key"] part that cannot be un-escaped
  Wildcard     \* the element "*"

Kinds == {"message", "enum", "primitive"}

\* A field: its kind, whether it is a map, and the type of what lies below it
\* (of the values, for a map); NoType when nothing can be nested in it.
FieldRecord == [kind: Kinds, map: BOOLEAN, type: Types \cup {NoType}]

Segments == [field: Elements, key: Elements \cup {NoKey, Malformed}]

ASSUME SchemaAssumption ==
  /\ NoType \notin Types /\ RootType \in Types
  /\ Wildcard \in Elements
  /\ NoKey \notin Elements /\ Malformed \notin Elements /\ NoKey # Malformed
  /\ DOMAIN Schema = Types
  /\ \A t \in Types : /\ DOMAIN Schema[t] \subseteq Elements \ {Wildcard}
                      /\ \A n \in DOMAIN Schema[t] :
                           /\ Schema[t][n] \in FieldRecord
                           /\ Schema[t][n].kind # "message" =>
                                ~Schema[t][n].map /\ Schema[t][n].type = NoType
  /\ StructTypes \subseteq Types
  /\ StructTypes # {} => {Struct, ListValue} \subseteq StructTypes

\* The types whose fields FindChildField() searches for a child of a node of
\* type t, in the order it searches them.
Searched(t) == IF t \in StructTypes THEN <<t, Struct, ListValue>> ELSE <<t>>

FieldNames(t) == UNION {DOMAIN Schema[Searched(t)[i]] : i \in 1..Len(Searched(t))}

\* The first field of that name wins (try_emplace).
FindChildField(t, name) ==
  LET here(i) == name \in DOMAIN Schema[Searched(t)[i]]
      first == CHOOSE i \in 1..Len(Searched(t)) :
                 here(i) /\ \A j \in 1..(i - 1) : ~here(j)
  IN  Schema[Searched(t)[first]][name]
===============================================================================
