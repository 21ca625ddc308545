----------------------------- MODULE MaskMeaning ------------------------------
(***************************************************************************)
(* What a list of mask paths means, independently of any tree: the         *)
(* elements of a message it includes, includes in part or excludes.        *)
(*                                                                         *)
(* A query is the path CheckField() is called with, field names and map    *)
(* keys alternating below maps, and the kind of the field at its end.      *)
(* The operators that follow a path through the schema are tabulated in    *)
(* Patterns and KeyedAt.                                                   *)
(***************************************************************************)
EXTENDS MaskSchema

CONSTANTS
  MaskPaths,  \* the paths of the lists
  AnyKey      \* in a pattern, stands for every map key

ASSUME AnyKeyAssumption == AnyKey \notin Elements

\* The type what follows the first i segments of a path is looked up in.
TypeAfter(path) ==
  LET below(t, name) == IF t # NoType /\ name \in FieldNames(t)
                        THEN FindChildField(t, name).type ELSE NoType
      after[i \in 0..Len(path)] ==
        IF i = 0 THEN RootType ELSE below(after[i - 1], path[i].field)
  IN  after

FieldAt(path, i) == FindChildField(TypeAfter(path)[i - 1], path[i].field)

\* The schema has the field, and the path may go on or put a key there: only
\* maps, enums and primitives have keys.
KnownField(path, i) ==
  /\ TypeAfter(path)[i - 1] # NoType
  /\ path[i].key # Malformed
  /\ path[i].field \in FieldNames(TypeAfter(path)[i - 1])

LegalSegment(path, i) ==
  /\ KnownField(path, i)
  /\ FieldAt(path, i).kind = "message" /\ ~FieldAt(path, i).map
       => FieldAt(path, i).type # NoType /\ path[i].key = NoKey

Legal(path) == \A i \in 1..Len(path) : LegalSegment(path, i)

\* The elements a segment stands for: a map field in the middle of a path
\* without a key is that field under all its keys.
SegmentPattern(path, i) ==
  LET s == path[i]
      allKeys == s.key = Wildcard \/ (s.key = NoKey /\ FieldAt(path, i).map /\ i < Len(path))
  IN  IF allKeys THEN <<s.field, AnyKey>>
      ELSE IF s.key = NoKey THEN <<s.field>> ELSE <<s.field, s.key>>

\* What the first i segments stand for.
PatternUpTo(path) ==
  LET upTo[i \in 0..Len(path)] ==
        IF i = 0 THEN <<>> ELSE upTo[i - 1] \o SegmentPattern(path, i)
  IN  upTo

Pattern(path) == PatternUpTo(path)[Len(path)]

\* The pattern of each legal path, and the segments of it that can have keys.
Patterns == [p \in {p \in MaskPaths : Legal(p)} |-> Pattern(p)]
KeyedAt == [p \in {p \in MaskPaths : Legal(p)} |->
            {i \in 1..Len(p) : FieldAt(p, i).map \/ p[i].key # NoKey}]

Agree(pattern, query, n) == \A i \in 1..n : pattern[i] \in {AnyKey, query[i]}

Covers(p, query) == Len(p) <= Len(query) /\ Agree(p, query, Len(p))
LeadsInto(p, query) == Len(query) < Len(p) /\ Agree(p, query, Len(query))

PathsOf(list) == {list[i] : i \in 1..Len(list)}

\* The union of the paths of one list; the empty list stands for everything.
Union(list, q) ==
  LET patterns == {Patterns[p] : p \in PathsOf(list)}
  IN  IF list = <<>> \/ (\E p \in patterns : Covers(p, q.path)) THEN "include"
      ELSE IF (\E p \in patterns : LeadsInto(p, q.path)) /\ q.kind \in {"message", "enum"}
      THEN "partial" ELSE "exclude"

-------------------------------------------------------------------------------
(* The lists the code compiles exactly.  Below one map, a list must not name  *)
(* some keys and address all keys, nor use "*" beside either but for whole    *)
(* entries m["k"]; and whole entries, m["*"] too, must not meet a list that   *)
(* addresses m under all keys, nor keys meet "*".                             *)

\* How a path addresses what has keys at its segment i; a path that ends at the
\* map itself is the whole map.
KeySort(path, i) ==
  IF path[i].key = Wildcard THEN IF i = Len(path) THEN "every" ELSE "wildcard"
  ELSE IF path[i].key # NoKey THEN IF i = Len(path) THEN "entry" ELSE "keys"
  ELSE IF i < Len(path) THEN "all" ELSE "map"

SameField(p, q, i) ==
  /\ i <= Len(p) /\ i <= Len(q)
  /\ \A j \in 1..i : p[j].field = q[j].field
  /\ i \in KeyedAt[p]

Compatible(p, q, clashes) ==
  \A i \in KeyedAt[p] : SameField(p, q, i) => {KeySort(p, i), KeySort(q, i)} \notin clashes

InOneList == {{"all", "keys"}, {"all", "entry"}, {"all", "wildcard"}, {"all", "every"},
              {"wildcard", "keys"}, {"every", "keys"}}
AcrossLists == {{"all", "entry"}, {"all", "every"}, {"wildcard", "keys"}, {"wildcard", "entry"},
                {"every", "keys"}, {"every", "entry"}}

LegalList(list) == \A p \in PathsOf(list) : p \in DOMAIN Patterns

CompatibleLists(k, l, clashes) ==
  \A p \in PathsOf(k), q \in PathsOf(l) : Compatible(p, q, clashes)

Unmixed(lists) ==
  /\ \A n \in 1..Len(lists) :
       LegalList(lists[n]) /\ CompatibleLists(lists[n], lists[n], InOneList)
  /\ \A m, n \in 1..Len(lists) : m < n => CompatibleLists(lists[m], lists[n], AcrossLists)

-------------------------------------------------------------------------------
(* The lists the code accepts, and those it rejects: legal ones are accepted  *)
(* and others rejected, but for illegal paths that the code does not notice,  *)
(* and for lists in which it takes a key for a field or a field for a key.    *)

FirstIllegal(path) ==
  CHOOSE i \in 1..Len(path) : /\ ~LegalSegment(path, i)
                              /\ \A j \in 1..(i - 1) : LegalSegment(path, j)

\* The illegal segment of a path is not looked at: an earlier path ends above
\* it, or names the same field, and the key on it is then taken as it is.
Excused(earlier, path) ==
  LET n == FirstIllegal(path)
      same(m) == \A i \in 1..m : earlier[i].field = path[i].field
  IN  IF Len(earlier) < n THEN same(Len(earlier)) ELSE KnownField(path, n) /\ same(n)

\* Keys of a map and fields of its values are children of one node.  Two paths
\* are confused when one names a key, and the other a field of that name under
\* all keys: the second goes on at the node of the first.
Confused(list) ==
  \E p, q \in PathsOf(list) : \E i \in 1..Len(p) :
    /\ i < Len(q) /\ \A j \in 1..i : p[j].field = q[j].field
    /\ q[i].key = NoKey /\ q[i + 1].field = p[i].key

Acceptable(list) ==
  \/ Confused(list)
  \/ \A i \in 1..Len(list) :
       Legal(list[i]) \/ \E j \in 1..(i - 1) : Excused(list[j], list[i])

Rejectable(list) == Confused(list) \/ ~LegalList(list)
===============================================================================
