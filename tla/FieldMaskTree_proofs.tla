------------------------- MODULE FieldMaskTree_proofs -------------------------
(***************************************************************************)
(* FieldMaskTree for every schema and all lists of paths: types, no call   *)
(* on a node that does not exist, and lists taken whole or not at all.     *)
(***************************************************************************)
EXTENDS MaskVerdicts, WellFoundedInduction, TLAPS

\* Only types of the schema are searched for a field.
LEMMA SearchedTypes ==
  ASSUME NEW t \in Types
  PROVE  /\ Len(Searched(t)) \in Nat /\ Len(Searched(t)) <= 3
         /\ \A i \in 1..Len(Searched(t)) : Searched(t)[i] \in Types
<1>1. CASE t \in StructTypes
  <2>1. Struct \in Types /\ ListValue \in Types
    BY <1>1, SchemaAssumption
  <2> QED
    BY <1>1, <2>1 DEF Searched
<1>2. CASE t \notin StructTypes
  BY <1>2 DEF Searched
<1> QED
  BY <1>1, <1>2

\* A field that is found is a field of the schema.
LEMMA FoundField ==
  ASSUME NEW t \in Types, NEW name \in FieldNames(t)
  PROVE  FindChildField(t, name) \in FieldRecord
<1> DEFINE here(i) == name \in DOMAIN Schema[Searched(t)[i]]
           isFirst(i) == here(i) /\ \A j \in 1..(i - 1) : ~here(j)
           first == CHOOSE i \in 1..Len(Searched(t)) : isFirst(i)
<1>1. \E i \in 1..Len(Searched(t)) : here(i)
  BY DEF FieldNames
<1>2. \E i \in 1..Len(Searched(t)) : isFirst(i)
  <2>1. CASE here(1)
    BY <1>1, <2>1, SearchedTypes
  <2>2. CASE ~here(1) /\ here(2) /\ 2 <= Len(Searched(t))
    BY <2>2, SearchedTypes
  <2>3. CASE ~here(1) /\ ~(here(2) /\ 2 <= Len(Searched(t)))
    <3>1. PICK i \in 1..Len(Searched(t)) : here(i)
      BY <1>1
    <3>2. i = 3 /\ 3 \in 1..Len(Searched(t)) /\ ~here(2)
      BY <2>3, <3>1, SearchedTypes
    <3> QED
      BY <2>3, <3>1, <3>2
  <2> QED
    BY <2>1, <2>2, <2>3
<1>3. first \in 1..Len(Searched(t)) /\ here(first)
  BY <1>2
<1>4. Searched(t)[first] \in Types
  BY <1>3, SearchedTypes
<1>5. Schema[Searched(t)[first]][name] \in FieldRecord
  BY <1>3, <1>4, SchemaAssumption
<1> QED
  BY <1>5 DEF FindChildField

-------------------------------------------------------------------------------
(* Sequences and trees                                                        *)

\* What follows s in s \o u is u.
LEMMA Suffix ==
  ASSUME NEW S, NEW s \in Seq(S), NEW u \in Seq(S)
  PROVE  SubSeq(s \o u, Len(s) + 1, Len(s \o u)) = u
  OBVIOUS

\* A sequence is its prefix followed by the rest.
LEMMA Split ==
  ASSUME NEW S, NEW s \in Seq(S), NEW p \in Seq(S),
         Len(s) <= Len(p), SubSeq(p, 1, Len(s)) = s
  PROVE  /\ SubSeq(p, Len(s) + 1, Len(p)) \in Seq(S)
         /\ s \o SubSeq(p, Len(s) + 1, Len(p)) = p
  OBVIOUS

\* Adding a node at a position gives a tree.
LEMMA AddTree ==
  ASSUME NEW t, IsTree(t), NEW p \in Positions, NEW n, IsNode(n)
  PROVE  IsTree(Add(t, p, n)) /\ DOMAIN Add(t, p, n) = DOMAIN t \cup {p}
  BY DEF IsTree, Add

\* Marking a node as a leaf gives a tree.
LEMMA LeafTree ==
  ASSUME NEW t, IsTree(t), NEW p \in DOMAIN t
  PROVE  /\ IsTree([t EXCEPT ![p].leaf = TRUE])
         /\ DOMAIN [t EXCEPT ![p].leaf = TRUE] = DOMAIN t
  BY DEF IsTree, IsNode

\* Putting the clone of a node at a position gives a tree that has the position.
LEMMA CloneTree ==
  ASSUME NEW to \in Positions, NEW ref, ref.pos \in Positions,
         IsTree(TreeOf(ref)), IsTree(merged), ref.pos \in DOMAIN TreeOf(ref)
  PROVE  /\ IsTree(WithClone(to, ref))
         /\ DOMAIN merged \cup {to} \subseteq DOMAIN WithClone(to, ref)
<1> DEFINE moved(p) == to \o SubSeq(p, Len(ref.pos) + 1, Len(p))
           new == {moved(p) : p \in Cloned(ref)}
           source(q) == ref.pos \o SubSeq(q, Len(to) + 1, Len(q))
<1> USE DEF Positions
<1>1. ASSUME NEW p \in Cloned(ref)
      PROVE  moved(p) \in Positions /\ source(moved(p)) \in DOMAIN TreeOf(ref)
  <2>1. /\ p \in DOMAIN TreeOf(ref) /\ p \in Seq(Elements)
        /\ Len(ref.pos) <= Len(p) /\ SubSeq(p, 1, Len(ref.pos)) = ref.pos
    BY DEF Cloned, IsTree
  <2> DEFINE rest == SubSeq(p, Len(ref.pos) + 1, Len(p))
  <2>2. rest \in Seq(Elements) /\ ref.pos \o rest = p
    BY <2>1, Split
  <2>3. SubSeq(to \o rest, Len(to) + 1, Len(to \o rest)) = rest
    BY <2>2, Suffix
  <2>4. moved(p) = to \o rest
    OBVIOUS
  <2> HIDE DEF moved, rest
  <2>5. moved(p) \in Positions
    BY <2>2, <2>4
  <2>6. source(moved(p)) = p
    BY <2>2, <2>3, <2>4
  <2> QED
    BY <2>1, <2>5, <2>6
<1>2. to \in new
  <2>1. ref.pos \in Cloned(ref)
    BY DEF Cloned
  <2>2. SubSeq(ref.pos, Len(ref.pos) + 1, Len(ref.pos)) = <<>>
    OBVIOUS
  <2>3. moved(ref.pos) = to
    BY <2>2
  <2> QED
    BY <2>1, <2>3
<1>3. new \subseteq Positions /\ \A q \in new : source(q) \in DOMAIN TreeOf(ref)
  BY <1>1
<1>4. WithClone(to, ref) =
        [q \in DOMAIN merged \cup new |->
           IF q \in new THEN TreeOf(ref)[source(q)] ELSE merged[q]]
  BY DEF WithClone
<1> HIDE DEF new, source
<1> QED
  BY <1>2, <1>3, <1>4 DEF IsTree

-------------------------------------------------------------------------------
(* The inductive invariant                                                    *)

Ref == [tree : {"root", "node"}, pos : Positions]
CallType == [to : Positions, this : Ref, other : Ref]

\* The trees have a root node; the one of an intersection is there as soon as
\* the first pending call has been taken.
RootNodes ==
  /\ root = NoTree \/ <<>> \in DOMAIN root
  /\ Busy => <<>> \in DOMAIN node
  /\ pc = "intersect" =>
       <<>> \in DOMAIN root /\ (<<>> \in DOMAIN merged \/ \E c \in work : c.to = <<>>)

IInv ==
  /\ TypeOK
  /\ PendingNodesExist
  /\ RootNodes
  /\ pc = "intersect" => work \subseteq CallType
  /\ Busy => status = "ok"
  /\ Idle => inserted = 0

\* Initially there is no tree and no call.
LEMMA InitInv == Init => IInv
  BY DEF Init, IInv, TypeOK, Busy, Idle, PendingNodesExist, RootNodes, Positions, PathsArgument,
         NoTree, IsTree

\* A call that is refused leaves the old tree, or none.
LEMMA RefusalStep ==
  ASSUME IInv, Busy, FailPath
  PROVE  IInv'
  BY DEF FailPath, Reset, IInv, TypeOK, Busy, Idle, PendingNodesExist, RootNodes, Positions,
         PathsArgument, IsTree

\* A call that starts keeps the invariant.
LEMMA StartInv ==
  ASSUME IInv, NEW list \in PathLists, AddOrIntersectFieldPaths(list)
  PROVE  IInv'
<1> USE DEF IInv, TypeOK, Busy, Idle, PendingNodesExist, RootNodes, PathsArgument
<1>1. list \in Seq(Seq(Segments))
  BY PathListsAssumption
<1>2. node' = [p \in {<<>>} |-> Node(RootType, list = <<>>, FALSE, FALSE)]
  BY DEF AddOrIntersectFieldPaths
<1>3. IsTree(node') /\ <<>> \in DOMAIN node'
  BY <1>2, SchemaAssumption DEF IsTree, IsNode, Node, Positions
<1> QED
  BY <1>1, <1>3 DEF AddOrIntersectFieldPaths

\* The steps of InsertField() keep the invariant.
LEMMA InsertFieldInv ==
  ASSUME IInv, InsertFieldStep
  PROVE  IInv'
<1> USE DEF IInv, TypeOK, Busy, Idle, PendingNodesExist, RootNodes, PathsArgument
<1>1. CASE MarkLeaf
  <2>1. IsTree(node') /\ DOMAIN node' = DOMAIN node
    BY <1>1, LeafTree DEF MarkLeaf, InField
  <2> QED
    BY <1>1, <2>1 DEF MarkLeaf, InField, EndPath, Positions
<1>2. CASE BelowNonMessage \/ BadSegment \/ BadChild
  BY <1>2, RefusalStep DEF BelowNonMessage, BadSegment, BadChild, NewField, FieldFound,
                           Searching, InField
<1>3. CASE AlreadyCovered
  BY <1>3 DEF AlreadyCovered, InField, EndPath, Positions
<1>4. CASE DescendToChild \/ AddFieldChild
  <2>1. FieldFound
    BY <1>4 DEF DescendToChild, AddFieldChild, NewField
  <2>2. /\ pc = "field" /\ segs # <<>> /\ Seg \in Segments /\ Tail(segs) \in Seq(Segments)
        /\ at \in DOMAIN node /\ IsNode(This) /\ This.type \in Types
        /\ Seg.key # Malformed /\ Seg.field \in FieldNames(This.type)
    BY <2>1 DEF FieldFound, Searching, InField, Seg, This, IsTree, IsNode
  <2>3. Seg.field \in Elements /\ Seg.key \in Elements \cup {NoKey}
    BY <2>2 DEF Segments
  <2>4. Append(at, Seg.field) \in Positions
    BY <2>3 DEF Positions
  <2>5. ChildField \in FieldRecord
    BY <2>2, FoundField DEF ChildField
  <2>6. CASE DescendToChild
    BY <2>2, <2>3, <2>4, <2>6 DEF DescendToChild, CallChild, HasChild
  <2>7. CASE AddFieldChild
    <3> DEFINE all == ChildField.map /\ Seg.key = NoKey
               new == NewChild(ChildField.type, Seg.key, all, Tail(segs))
    <3>1. IsNode(new)
      BY <2>5 DEF IsNode, NewChild, Node, FieldRecord
    <3>2. node' = Add(node, Append(at, Seg.field), new) /\ CallChild(Seg.field, Seg.key)
      BY <2>7 DEF AddFieldChild
    <3>3. /\ IsTree(node')
          /\ DOMAIN node' = DOMAIN node \cup {Append(at, Seg.field)}
      BY <2>2, <2>4, <3>1, <3>2, AddTree
    <3> QED
      BY <2>2, <2>3, <2>4, <3>2, <3>3 DEF CallChild
  <2> QED
    BY <1>4, <2>6, <2>7
<1> QED
  BY <1>1, <1>2, <1>3, <1>4 DEF InsertFieldStep

\* The steps of InsertValueField() keep the invariant.
LEMMA InsertValueFieldInv ==
  ASSUME IInv, InsertValueFieldStep
  PROVE  IInv'
<1> USE DEF IInv, TypeOK, Busy, Idle, PendingNodesExist, RootNodes, PathsArgument
<1>1. pc = "value" /\ at \in DOMAIN node /\ key \in Elements /\ IsNode(This)
  BY DEF InsertValueFieldStep, ValueCovered, ValueOfAllKeys, DescendToKey, AddKeyChild,
         InValue, This, IsTree
<1>2. Append(at, key) \in Positions
  BY <1>1 DEF Positions
<1>3. CASE ValueCovered
  BY <1>1, <1>3 DEF ValueCovered, EndPath, Positions
<1>4. CASE ValueOfAllKeys
  BY <1>1, <1>4 DEF ValueOfAllKeys, CallInsertField
<1>5. CASE DescendToKey
  BY <1>1, <1>2, <1>5 DEF DescendToKey, CallInsertField, HasChild
<1>6. CASE AddKeyChild
  <2> DEFINE new == NewChild(This.type, NoKey, FALSE, segs)
  <2>1. IsNode(new)
    BY <1>1 DEF IsNode, NewChild, Node
  <2>2. node' = Add(node, Append(at, key), new) /\ CallInsertField(Append(at, key))
    BY <1>6 DEF AddKeyChild
  <2>3. IsTree(node') /\ DOMAIN node' = DOMAIN node \cup {Append(at, key)}
    BY <1>1, <1>2, <2>1, <2>2, AddTree
  <2> QED
    BY <1>1, <1>2, <2>2, <2>3 DEF CallInsertField
<1> QED
  BY <1>3, <1>4, <1>5, <1>6 DEF InsertValueFieldStep

\* What a pending call of Intersect() is made on.
LEMMA PendingCall ==
  ASSUME IInv, pc = "intersect", NEW c \in work
  PROVE  /\ c \in CallType
         /\ IsTree(TreeOf(c.this)) /\ IsTree(TreeOf(c.other))
         /\ IsNode(NodeAt(c.this)) /\ IsNode(NodeAt(c.other))
         /\ c.this.pos \in DOMAIN TreeOf(c.this) /\ c.other.pos \in DOMAIN TreeOf(c.other)
<1>1. /\ c \in CallType /\ IsTree(root) /\ IsTree(node)
      /\ c.this.pos \in DOMAIN TreeOf(c.this) /\ c.other.pos \in DOMAIN TreeOf(c.other)
  BY DEF IInv, TypeOK, Busy, PendingNodesExist
<1>2. IsTree(TreeOf(c.this)) /\ IsTree(TreeOf(c.other))
  BY <1>1 DEF TreeOf
<1> QED
  BY <1>1, <1>2 DEF NodeAt, IsTree

\* A call that has put its result in place and left new ones on nodes that exist
\* keeps the invariant.
LEMMA KeepInv ==
  ASSUME IInv, pc = "intersect", NEW c \in work, NEW new, Keep(c, new),
         IsTree(merged'), DOMAIN merged \cup {c.to} \subseteq DOMAIN merged',
         new \subseteq CallType,
         \A d \in new : d.this.pos \in DOMAIN TreeOf(d.this) /\ d.other.pos \in DOMAIN TreeOf(d.other)
  PROVE  IInv'
<1> USE DEF IInv, TypeOK, Busy, Idle
<1>1. /\ pc' = "intersect" /\ work' = (work \ {c}) \cup new
      /\ root' = root /\ node' = node /\ status' = status
  BY DEF Keep
<1>2. TypeOK'
  BY <1>1 DEF Keep
<1>3. PendingNodesExist'
  BY <1>1 DEF PendingNodesExist, TreeOf
<1>4. RootNodes'
  BY <1>1 DEF RootNodes
<1> QED
  BY <1>1, <1>2, <1>3, <1>4 DEF Keep

\* The children that two nodes have by one name exist, and so does a position
\* for what becomes of them.
LEMMA ChildExists ==
  ASSUME NEW ref \in Ref, NEW name \in NamesBelow(ref)
  PROVE  /\ Child(ref, name) \in Ref
         /\ Child(ref, name).pos \in DOMAIN TreeOf(Child(ref, name))
  BY DEF Ref, Child, NamesBelow, Children, HasChild, TreeOf, Positions

\* A new pending call has the arguments it is given.
LEMMA CallFields ==
  ASSUME NEW to \in Positions, NEW this \in Ref, NEW other \in Ref
  PROVE  /\ Call(to, this, other) \in CallType
         /\ Call(to, this, other).this = this /\ Call(to, this, other).other = other
  BY DEF Call, CallType

\* The steps of Intersect() keep the invariant.
LEMMA IntersectCallInv ==
  ASSUME IInv, NEW c \in work, IntersectLeaf(c) \/ IntersectSame(c) \/ IntersectKeys(c)
  PROVE  IInv'
<1>1. pc = "intersect"
  BY DEF IntersectLeaf, IntersectSame, IntersectKeys, Intersecting
<1>2. /\ c \in CallType /\ c.to \in Positions /\ c.this \in Ref /\ c.other \in Ref
      /\ IsTree(TreeOf(c.this)) /\ IsTree(TreeOf(c.other))
      /\ IsNode(NodeAt(c.this)) /\ IsNode(NodeAt(c.other))
      /\ c.this.pos \in DOMAIN TreeOf(c.this) /\ c.other.pos \in DOMAIN TreeOf(c.other)
  BY <1>1, PendingCall DEF CallType
<1>3. IsTree(merged)
  BY <1>1 DEF IInv, TypeOK
<1>4. ASSUME NEW name \in Elements PROVE Append(c.to, name) \in Positions
  BY <1>2 DEF Positions
<1>5. CASE IntersectLeaf(c)
  <2>1. PICK ref \in {c.this, c.other} : merged' = WithClone(c.to, ref)
    BY <1>5 DEF IntersectLeaf
  <2>2. IsTree(merged') /\ DOMAIN merged \cup {c.to} \subseteq DOMAIN merged'
    BY <1>2, <1>3, <2>1, CloneTree DEF Ref
  <2>3. Keep(c, {})
    BY <1>5 DEF IntersectLeaf
  <2> QED
    BY <1>1, <2>2, <2>3, KeepInv
<1>6. CASE IntersectSame(c)
  <2> DEFINE both == NamesBelow(c.this) \cap NamesBelow(c.other)
             result == Node(NodeAt(c.this).type, FALSE,
                            NodeAt(c.this).map /\ NodeAt(c.other).map, NodeAt(c.this).all)
             new == {Call(Append(c.to, n), Child(c.this, n), Child(c.other, n)) : n \in both}
  <2>1. IsNode(result)
    BY <1>2 DEF IsNode, Node
  <2>2. merged' = Add(merged, c.to, result) /\ Keep(c, new)
    BY <1>6 DEF IntersectSame
  <2>3. IsTree(merged') /\ DOMAIN merged \cup {c.to} \subseteq DOMAIN merged'
    BY <1>2, <1>3, <2>1, <2>2, AddTree
  <2>4. ASSUME NEW n \in both
        PROVE  /\ Append(c.to, n) \in Positions
               /\ Child(c.this, n) \in Ref /\ Child(c.other, n) \in Ref
               /\ Child(c.this, n).pos \in DOMAIN TreeOf(Child(c.this, n))
               /\ Child(c.other, n).pos \in DOMAIN TreeOf(Child(c.other, n))
    BY <1>2, <1>4, ChildExists DEF NamesBelow, Children
  <2>5. ASSUME NEW d \in new
        PROVE  d \in CallType /\ d.this.pos \in DOMAIN TreeOf(d.this)
                             /\ d.other.pos \in DOMAIN TreeOf(d.other)
    <3>1. PICK n \in both : d = Call(Append(c.to, n), Child(c.this, n), Child(c.other, n))
      OBVIOUS
    <3> QED
      BY <2>4, <3>1, CallFields
  <2> QED
    BY <1>1, <2>2, <2>3, <2>5, KeepInv
<1>7. CASE IntersectKeys(c)
  <2> DEFINE keyed == IF NodeAt(c.this).all THEN c.other ELSE c.this
             allKeys == IF NodeAt(c.this).all THEN c.this ELSE c.other
             result == Node(NodeAt(c.this).type, FALSE, TRUE, FALSE)
             new == {Call(Append(c.to, n), Child(keyed, n), allKeys) : n \in NamesBelow(keyed)}
  <2>1. IsNode(result)
    BY <1>2 DEF IsNode, Node
  <2>2. merged' = Add(merged, c.to, result) /\ Keep(c, new)
    BY <1>7 DEF IntersectKeys
  <2>3. IsTree(merged') /\ DOMAIN merged \cup {c.to} \subseteq DOMAIN merged'
    BY <1>2, <1>3, <2>1, <2>2, AddTree
  <2>4. /\ keyed \in Ref /\ allKeys \in Ref
        /\ allKeys.pos \in DOMAIN TreeOf(allKeys)
    BY <1>2
  <2>5. ASSUME NEW n \in NamesBelow(keyed)
        PROVE  /\ Append(c.to, n) \in Positions /\ Child(keyed, n) \in Ref
               /\ Child(keyed, n).pos \in DOMAIN TreeOf(Child(keyed, n))
    BY <1>4, <2>4, ChildExists DEF NamesBelow, Children
  <2> HIDE DEF keyed, allKeys
  <2>6. ASSUME NEW d \in new
        PROVE  d \in CallType /\ d.this.pos \in DOMAIN TreeOf(d.this)
                             /\ d.other.pos \in DOMAIN TreeOf(d.other)
    <3>1. PICK n \in NamesBelow(keyed) : d = Call(Append(c.to, n), Child(keyed, n), allKeys)
      OBVIOUS
    <3> QED
      BY <2>4, <2>5, <3>1, CallFields
  <2> QED
    BY <1>1, <2>2, <2>3, <2>6, KeepInv
<1> QED
  BY <1>5, <1>6, <1>7

\* The steps that make the compiled tree the root keep the invariant.
LEMMA FinishInv ==
  ASSUME IInv, UseAsRoot \/ IntersectRoots \/ UseIntersection
  PROVE  IInv'
<1> USE DEF IInv, TypeOK, Busy, Idle, PendingNodesExist, RootNodes, PathsArgument, Positions
<1>1. CASE UseAsRoot
  BY <1>1 DEF UseAsRoot, Compiled, Finish, Reset
<1>2. CASE IntersectRoots
  <2>1. IsTree(<<>>)
    BY DEF IsTree
  <2> QED
    BY <1>2, <2>1 DEF IntersectRoots, Compiled, Call, CallType, Ref, TreeOf
<1>3. CASE UseIntersection
  BY <1>3 DEF UseIntersection, Finish, Reset
<1> QED
  BY <1>1, <1>2, <1>3

-------------------------------------------------------------------------------
(* The theorems                                                               *)

\* Every step keeps the inductive invariant.
LEMMA StepInv == IInv /\ [Next]_vars => IInv'
<1> SUFFICES ASSUME IInv, [Next]_vars PROVE IInv'
  OBVIOUS
<1>1. CASE UNCHANGED vars
  BY <1>1 DEF vars, locals, IInv, TypeOK, Busy, Idle, PendingNodesExist, RootNodes, TreeOf
<1>2. ASSUME NEW list \in PathLists, AddOrIntersectFieldPaths(list) PROVE IInv'
  BY <1>2, StartInv
<1>3. CASE AddOrIntersectOnBrokenTree \/ CheckFieldOnBrokenTree
  BY <1>3 DEF AddOrIntersectOnBrokenTree, CheckFieldOnBrokenTree, locals, IInv, TypeOK, Busy,
              Idle, PendingNodesExist, RootNodes
<1>4. CASE NextPath
  BY <1>4 DEF NextPath, IInv, TypeOK, Busy, Idle, PendingNodesExist, RootNodes, PathsArgument,
              Positions
<1>5. CASE InsertFieldStep \/ InsertValueFieldStep
  BY <1>5, InsertFieldInv, InsertValueFieldInv
<1>6. CASE IntersectStep
  BY <1>6, IntersectCallInv, FinishInv DEF IntersectStep
<1> QED
  BY <1>1, <1>2, <1>3, <1>4, <1>5, <1>6 DEF Next, Compiling

\* The inductive invariant holds in every reachable state.
LEMMA Invariance == Spec => []IInv
  BY InitInv, StepInv, PTL DEF Spec

\* The trees are made of nodes of the schema's types, whatever the lists.
THEOREM TypeCorrect == Spec => []TypeOK
<1>1. IInv => TypeOK
  BY DEF IInv
<1> QED
  BY <1>1, Invariance, PTL

\* No call of InsertField(), InsertValueField() or Intersect() is made on a node
\* that does not exist.
THEOREM NoDanglingNodes == Spec => []PendingNodesExist
<1>1. IInv => PendingNodesExist
  BY DEF IInv
<1> QED
  BY <1>1, Invariance, PTL

\* A list of paths is taken whole or refused whole, and a broken tree stays.
THEOREM ListsWholeOrNotAtAll == Spec => AllOrNothing
<1> DEFINE A == /\ root' # root \/ calls' # calls =>
                     status = "ok" /\ status' = "ok" /\ calls' = Append(calls, paths)
                /\ status = "invalid" => status' = "invalid"
<1>1. IInv /\ [Next]_vars => [A]_vars
  <2> SUFFICES ASSUME IInv, Next PROVE A
    OBVIOUS
  <2> USE DEF IInv, Busy
  <2>1. CASE UseAsRoot \/ UseIntersection
    BY <2>1 DEF UseAsRoot, UseIntersection, Compiled, Finish
  <2>2. CASE ~(UseAsRoot \/ UseIntersection)
    <3>1. root' = root /\ calls' = calls /\ status' \in {status, "invalid"}
      BY <2>2 DEF Next, AddOrIntersectFieldPaths, AddOrIntersectOnBrokenTree,
        CheckFieldOnBrokenTree, Compiling, NextPath, InsertFieldStep, InsertValueFieldStep,
        IntersectStep, MarkLeaf, BelowNonMessage, AlreadyCovered, BadSegment, DescendToChild,
        BadChild, AddFieldChild, ValueCovered, ValueOfAllKeys, DescendToKey, AddKeyChild,
        IntersectRoots, IntersectLeaf, IntersectSame, IntersectKeys, EndPath, FailPath,
        CallChild, CallInsertField, Keep
    <3> QED
      BY <3>1
  <2> QED
    BY <2>1, <2>2
<1> QED
  BY <1>1, Invariance, PTL DEF Spec, AllOrNothing

-------------------------------------------------------------------------------
(* Induction: a set of natural numbers that is not empty has a least one.     *)

\* The order of the natural numbers.
Less == {ss \in Nat \X Nat : ss[1] < ss[2]}

\* A set of natural numbers that is not empty has a least one.
LEMMA LeastNumber ==
  ASSUME NEW T, T \subseteq Nat, T # {}
  PROVE  \E x \in T : \A y \in T : x <= y
<1>1. IsWellFoundedOn(Less, Nat) BY NatLessThanWellFounded, Zenon DEF OpToRel, Less
<1>2. PICK x \in T : \A y \in T : <<y, x>> \notin Less BY <1>1, WFMin
<1>3. \A y \in Nat : y < x => <<y, x>> \in Less BY DEF Less
<1>4. ASSUME NEW y \in T PROVE x <= y
  <2>1. x \in Nat /\ y \in Nat OBVIOUS
  <2>2. ~(y < x) BY <1>2, <1>3, <2>1
  <2> QED BY <2>1, <2>2
<1> QED BY <1>4

\* A set of numbers up to n that has 0, and with each number the next, has all.
LEMMA UpTo ==
  ASSUME NEW N \in Nat, NEW T, 0 \in T, \A n \in 0..(N - 1) : n \in T => n + 1 \in T
  PROVE  \A n \in 0..N : n \in T
<1> DEFINE out == {n \in 0..N : n \notin T}
<1>1. SUFFICES ASSUME out # {} PROVE FALSE OBVIOUS
<1>2. out \subseteq Nat OBVIOUS
<1>3. PICK x \in out : \A y \in out : x <= y BY <1>1, <1>2, LeastNumber
<1>4. x # 0 /\ x - 1 \in 0..(N - 1) BY <1>3
<1>5. x - 1 \in T BY <1>3, <1>4
<1> QED BY <1>3, <1>4, <1>5

\* f is what a recursive function computes: from base, by the step of each index.
IsIterate(N, S, base, step, f) ==
  f \in [0..N -> S] /\ f[0] = base /\ \A i \in 1..N : f[i] = step[i][f[i - 1]]

\* What a recursion on the numbers up to N computes exists.
LEMMA Iterates ==
  ASSUME NEW N \in Nat, NEW S, NEW base \in S, NEW step \in [1..N -> [S -> S]]
  PROVE  \E f : IsIterate(N, S, base, step, f)
<1> DEFINE Good(n, f) == f \in [0..n -> S] /\ f[0] = base /\ \A i \in 1..n : f[i] = step[i][f[i - 1]]
           T == {n \in 0..N : \E f : Good(n, f)}
<1>1. 0 \in T
  <2>1. Good(0, [i \in 0..0 |-> base]) OBVIOUS
  <2> HIDE DEF Good
  <2> QED BY <2>1
<1>2. ASSUME NEW n \in 0..(N - 1), n \in T PROVE n + 1 \in T
  <2>1. PICK f : Good(n, f) BY <1>2
  <2> DEFINE g == [i \in 0..(n + 1) |-> IF i = n + 1 THEN step[n + 1][f[n]] ELSE f[i]]
  <2>2. step[n + 1][f[n]] \in S BY <2>1
  <2>3. g \in [0..(n + 1) -> S] /\ g[0] = base BY <2>1, <2>2
  <2>4. ASSUME NEW i \in 1..(n + 1) PROVE g[i] = step[i][g[i - 1]]
    <3>1. CASE i = n + 1 BY <3>1
    <3>2. CASE i # n + 1 BY <2>1, <3>2
    <3> QED BY <3>1, <3>2
  <2>5. Good(n + 1, g) BY <2>3, <2>4
  <2> HIDE DEF Good, g
  <2> QED BY <2>5
<1> HIDE DEF T
<1>3. \A n \in 0..(N - 1) : n \in T => n + 1 \in T BY <1>2
<1>4. \A n \in 0..N : n \in T BY <1>1, <1>3, UpTo
<1>5. N \in T BY <1>4
<1> QED BY <1>5 DEF T, IsIterate

-------------------------------------------------------------------------------
(* The walk of CheckField() through a tree                                     *)

\* The states of the walk: where it is, whether the next element is a map key that
\* is skipped, and the verdict once there is one.
WalkState(tree) == [pos : DOMAIN tree, skip : BOOLEAN, verdict : {"none", "include", "exclude"}]

\* The walk before its first element.
Start == [pos |-> <<>>, skip |-> FALSE, verdict |-> "none"]

\* The loop takes the element as the name of a child of its node.
Choosing(tree, s) == s.verdict = "none" /\ ~s.skip /\ ~tree[s.pos].leaf

\* The child it takes for a name is n.
Takes(tree, p, name, n) ==
  HasChild(tree, p, n) /\ (n = name \/ (n = Wildcard /\ ~HasChild(tree, p, name)))

\* The walk has come to p; below a node for all keys it skips the next element.
At(tree, p) == [pos |-> p, skip |-> tree[p].all, verdict |-> "none"]

\* What one round of the loop of CheckField() does in each case.
LEMMA AdvanceCases ==
  ASSUME NEW tree, IsTree(tree), NEW s \in WalkState(tree), NEW name
  PROVE  /\ s.verdict # "none" => Advance(tree, s, name) = s
         /\ s.verdict = "none" /\ s.skip => Advance(tree, s, name) = [s EXCEPT !.skip = FALSE]
         /\ s.verdict = "none" /\ ~s.skip /\ tree[s.pos].leaf =>
              Advance(tree, s, name) = [s EXCEPT !.verdict = "include"]
         /\ Choosing(tree, s) /\ ~HasChild(tree, s.pos, name) /\ ~HasChild(tree, s.pos, Wildcard) =>
              Advance(tree, s, name) = [s EXCEPT !.verdict = "exclude"]
         /\ \A n : Choosing(tree, s) /\ Takes(tree, s.pos, name, n) =>
              Advance(tree, s, name) = At(tree, Append(s.pos, n))
<1> DEFINE known == {n \in {name, Wildcard} : HasChild(tree, s.pos, n)}
           next == Append(s.pos, IF name \in known THEN name ELSE Wildcard)
<1>1. Advance(tree, s, name) =
        IF s.verdict # "none" THEN s
        ELSE IF s.skip THEN [s EXCEPT !.skip = FALSE]
        ELSE IF tree[s.pos].leaf THEN [s EXCEPT !.verdict = "include"]
        ELSE IF known = {} THEN [s EXCEPT !.verdict = "exclude"]
        ELSE [s EXCEPT !.pos = next, !.skip = tree[next].all]
  BY DEF Advance
<1>2. ~HasChild(tree, s.pos, name) /\ ~HasChild(tree, s.pos, Wildcard) => known = {}
  OBVIOUS
<1>3. ASSUME NEW n, Choosing(tree, s), Takes(tree, s.pos, name, n)
      PROVE  Advance(tree, s, name) = At(tree, Append(s.pos, n))
  <2>1. known # {} /\ next = Append(s.pos, n) BY <1>3 DEF Takes
  <2> HIDE DEF known, next
  <2>2. Advance(tree, s, name) = [s EXCEPT !.pos = next, !.skip = tree[next].all]
    BY <1>1, <1>3, <2>1 DEF Choosing
  <2> QED BY <1>3, <2>1, <2>2 DEF At, WalkState, Choosing
<1> HIDE DEF known, next
<1> QED BY <1>1, <1>2, <1>3 DEF Choosing

\* Either no child is taken, or the one of the name or of the wildcard.
LEMMA ChoiceCases ==
  ASSUME NEW tree, NEW p, NEW name
  PROVE  \/ ~HasChild(tree, p, name) /\ ~HasChild(tree, p, Wildcard)
         \/ \E n \in {name, Wildcard} : Takes(tree, p, name, n)
  BY DEF Takes

\* The walk stays on the tree.
LEMMA AdvanceType ==
  ASSUME NEW tree, IsTree(tree), NEW s \in WalkState(tree), NEW name
  PROVE  Advance(tree, s, name) \in WalkState(tree)
<1>1. s.pos \in DOMAIN tree BY DEF WalkState, IsTree
<1>2. CASE ~Choosing(tree, s)
  <2>1. /\ s.verdict \in {"none", "include", "exclude"} /\ s.skip \in BOOLEAN
        /\ [s EXCEPT !.skip = FALSE] \in WalkState(tree)
        /\ \A v \in {"include", "exclude"} : [s EXCEPT !.verdict = v] \in WalkState(tree)
    BY DEF WalkState
  <2>2. CASE s.verdict # "none" BY <2>2, AdvanceCases
  <2>3. CASE s.verdict = "none" /\ s.skip
    <3>1. Advance(tree, s, name) = [s EXCEPT !.skip = FALSE] BY <2>3, AdvanceCases
    <3> QED BY <2>1, <3>1
  <2>4. CASE s.verdict = "none" /\ ~s.skip /\ tree[s.pos].leaf BY <2>1, <2>4, AdvanceCases
  <2> QED BY <1>2, <2>2, <2>3, <2>4 DEF Choosing
<1>3. CASE Choosing(tree, s) /\ ~HasChild(tree, s.pos, name) /\ ~HasChild(tree, s.pos, Wildcard)
  BY <1>1, <1>3, AdvanceCases DEF WalkState, Choosing
<1>4. ASSUME NEW n, Choosing(tree, s), Takes(tree, s.pos, name, n)
      PROVE  Advance(tree, s, name) \in WalkState(tree)
  <2>1. Append(s.pos, n) \in DOMAIN tree BY <1>4 DEF Takes, HasChild
  <2>2. tree[Append(s.pos, n)].all \in BOOLEAN BY <2>1 DEF IsTree, IsNode
  <2>3. At(tree, Append(s.pos, n)) \in WalkState(tree) BY <2>1, <2>2 DEF WalkState, At
  <2> QED BY <1>4, <2>3, AdvanceCases
<1> QED BY <1>2, <1>3, <1>4, ChoiceCases

\* The recursion of Reached: the walk starts at the root and goes on round by round.
LEMMA ReachedSteps ==
  ASSUME NEW tree, IsTree(tree), <<>> \in DOMAIN tree, NEW query \in Seq(Elements)
  PROVE  /\ Reached(tree, query) \in [0..Len(query) -> WalkState(tree)]
         /\ Reached(tree, query)[0] = Start
         /\ \A i \in 1..Len(query) :
              Reached(tree, query)[i] = Advance(tree, Reached(tree, query)[i - 1], query[i])
<1> DEFINE N == Len(query)
           S == WalkState(tree)
           step == [i \in 1..N |-> [s \in S |-> Advance(tree, s, query[i])]]
           Def(f) == [i \in 0..N |-> IF i = 0 THEN Start ELSE Advance(tree, f[i - 1], query[i])]
<1>1. step \in [1..N -> [S -> S]] BY AdvanceType
<1>2. Start \in S /\ N \in Nat BY DEF Start, WalkState
<1>3. PICK f : IsIterate(N, S, Start, step, f)
  <2> HIDE DEF step, S, N
  <2> QED BY <1>1, <1>2, Iterates
<1>4. \A i \in 1..N : f[i - 1] \in S BY <1>2, <1>3 DEF IsIterate
<1>5. \A i \in 1..N : f[i] = Advance(tree, f[i - 1], query[i]) BY <1>3, <1>4 DEF IsIterate
<1>6. f = Def(f) BY <1>2, <1>3, <1>5 DEF IsIterate
<1>7. Reached(tree, query) = CHOOSE g : g = Def(g) BY DEF Reached, Start
<1>8. Reached(tree, query) = Def(Reached(tree, query))
  <2> HIDE DEF Def
  <2> QED BY <1>6, <1>7
<1> DEFINE r == Reached(tree, query)
<1>9. r[0] = Start /\ DOMAIN r = 0..N BY <1>2, <1>8
<1>10. \A i \in 1..N : r[i] = Advance(tree, r[i - 1], query[i])
  <2> HIDE DEF N
  <2>1. \A i \in 1..N : i \in 0..N /\ i # 0 BY <1>2
  <2>2. r = Def(r) BY <1>8
  <2> HIDE DEF r
  <2> QED BY <2>1, <2>2
<1>11. r = [i \in 0..N |-> r[i]]
  <2>1. r = Def(r) BY <1>8
  <2> HIDE DEF r
  <2> QED BY <2>1
<1>12. \A n \in 0..N : r[n] \in S
  <2> DEFINE T == {n \in 0..N : r[n] \in S}
  <2>1. 0 \in T BY <1>2, <1>9
  <2>2. ASSUME NEW n \in 0..(N - 1), n \in T PROVE n + 1 \in T
    <3>1. n + 1 \in 1..N /\ n + 1 \in 0..N /\ n + 1 - 1 = n BY <1>2
    <3>2. r[n + 1] = Advance(tree, r[n], query[n + 1]) BY <1>10, <3>1
    <3>3. r[n] \in S BY <2>2
    <3>4. r[n + 1] \in S BY <3>2, <3>3, AdvanceType
    <3> QED BY <3>1, <3>4
  <2> HIDE DEF T, N
  <2>3. \A n \in 0..N : n \in T BY <1>2, <2>1, <2>2, UpTo
  <2> QED BY <2>3 DEF T
<1> QED BY <1>9, <1>10, <1>11, <1>12

\* A tree with a root, in which the nodes above each node exist.
Rooted(t) ==
  /\ IsTree(t) /\ <<>> \in DOMAIN t
  /\ \A p \in Positions, n \in Elements : HasChild(t, p, n) => p \in DOMAIN t

\* The paths that are asked for.
Queried == Seq(Elements)

\* A walk starts at the root.
LEMMA WalkStart ==
  ASSUME NEW t, Rooted(t), NEW q \in Queried
  PROVE  Reached(t, q)[0] = Start
  BY ReachedSteps DEF Rooted, Queried

\* A walk is on nodes of the tree.
LEMMA WalkStates ==
  ASSUME NEW t, Rooted(t), NEW q \in Queried, NEW i \in 0..Len(q)
  PROVE  /\ Reached(t, q)[i] \in WalkState(t)
         /\ Reached(t, q)[i].pos \in DOMAIN t /\ Reached(t, q)[i].pos \in Positions
         /\ IsNode(t[Reached(t, q)[i].pos])
<1>1. Reached(t, q)[i] \in WalkState(t) BY ReachedSteps DEF Rooted, Queried
<1>2. Reached(t, q)[i].pos \in DOMAIN t BY <1>1 DEF WalkState
<1> QED BY <1>1, <1>2 DEF Rooted, IsTree

\* Each element of the query takes the walk one round further.
LEMMA WalkStep ==
  ASSUME NEW t, Rooted(t), NEW q \in Queried, NEW i \in 0..(Len(q) - 1)
  PROVE  /\ q[i + 1] \in Elements
         /\ Reached(t, q)[i + 1] = Advance(t, Reached(t, q)[i], q[i + 1])
<1>1. i + 1 \in 1..Len(q) /\ i + 1 - 1 = i BY DEF Queried
<1>2. Reached(t, q)[i + 1] = Advance(t, Reached(t, q)[i + 1 - 1], q[i + 1])
  BY <1>1, ReachedSteps DEF Rooted, Queried
<1> QED BY <1>1, <1>2 DEF Queried

\* One element of the path, case by case.
LEMMA WalkCases ==
  ASSUME NEW t, Rooted(t), NEW q \in Queried, NEW i \in 0..(Len(q) - 1)
  PROVE  LET s == Reached(t, q)[i]
             r == Reached(t, q)[i + 1]
         IN  \/ s.verdict # "none" /\ r = s
             \/ s.verdict = "none" /\ s.skip /\ r = [s EXCEPT !.skip = FALSE]
             \/ s.verdict = "none" /\ ~s.skip /\ t[s.pos].leaf /\ r = [s EXCEPT !.verdict = "include"]
             \/ Choosing(t, s) /\ ~HasChild(t, s.pos, q[i + 1]) /\ ~HasChild(t, s.pos, Wildcard)
                  /\ r = [s EXCEPT !.verdict = "exclude"]
             \/ Choosing(t, s) /\ \E n \in {q[i + 1], Wildcard} :
                  Takes(t, s.pos, q[i + 1], n) /\ r = At(t, Append(s.pos, n))
<1> DEFINE s == Reached(t, q)[i]
           r == Reached(t, q)[i + 1]
           name == q[i + 1]
<1>1. s \in WalkState(t) /\ r = Advance(t, s, name) BY WalkStates, WalkStep DEF Queried
<1>2. IsTree(t) BY DEF Rooted
<1> HIDE DEF s, r, name
<1>3. CASE ~Choosing(t, s)
  <2>1. s.verdict = "none" /\ s.skip => r = [s EXCEPT !.skip = FALSE] BY <1>1, <1>2, AdvanceCases
  <2>2. s.verdict # "none" => r = s BY <1>1, <1>2, AdvanceCases
  <2>3. s.verdict = "none" /\ ~s.skip /\ t[s.pos].leaf => r = [s EXCEPT !.verdict = "include"]
    BY <1>1, <1>2, AdvanceCases
  <2> QED BY <1>3, <2>1, <2>2, <2>3 DEF Choosing, s, r, name
<1>4. CASE Choosing(t, s) /\ ~HasChild(t, s.pos, name) /\ ~HasChild(t, s.pos, Wildcard)
  <2>1. r = [s EXCEPT !.verdict = "exclude"] BY <1>1, <1>2, <1>4, AdvanceCases
  <2> QED BY <1>4, <2>1 DEF s, r, name
<1>5. ASSUME Choosing(t, s), NEW n \in {name, Wildcard}, Takes(t, s.pos, name, n)
      PROVE  r = At(t, Append(s.pos, n))
  BY <1>1, <1>2, <1>5, AdvanceCases
<1>6. CASE Choosing(t, s) /\ \E n \in {name, Wildcard} : Takes(t, s.pos, name, n)
  <2>1. PICK n \in {name, Wildcard} : Takes(t, s.pos, name, n) BY <1>6
  <2>2. r = At(t, Append(s.pos, n)) BY <1>5, <1>6, <2>1
  <2> QED BY <1>6, <2>1, <2>2 DEF s, r, name
<1> QED BY <1>3, <1>4, <1>6, ChoiceCases

\* The verdict is that of the place the walk ends at.
LEMMA EndVerdict ==
  ASSUME NEW t, Rooted(t), NEW q, NEW kind
  PROVE  LET end == Reached(t, q)[Len(q)]
         IN  CheckField(t, q, kind) =
               IF end.verdict # "none" THEN end.verdict
               ELSE IF t[end.pos].leaf THEN "include"
               ELSE IF kind \in {"message", "enum"} THEN "partial" ELSE "exclude"
<1>1. t # NoTree BY DEF Rooted, NoTree
<1> QED BY <1>1 DEF CheckField, Walk

\* A walk that comes to a leaf is included.
LEMMA WalkIncludes ==
  ASSUME NEW t, Rooted(t), NEW q \in Queried, NEW i \in 0..Len(q),
         Reached(t, q)[i].verdict = "none", t[Reached(t, q)[i].pos].leaf
  PROVE  \A kind : CheckField(t, q, kind) = "include"
<1> DEFINE N == Len(q)
           p == Reached(t, q)[i].pos
           T == {n \in 0..(N - i) : /\ Reached(t, q)[i + n].verdict \in {"none", "include"}
                                    /\ Reached(t, q)[i + n].pos = p}
<1>1. N \in Nat /\ i \in Nat /\ N - i \in Nat BY DEF Queried
<1>2. 0 \in T BY <1>1
<1>3. ASSUME NEW n \in 0..(N - i - 1), n \in T PROVE n + 1 \in T
  <2>1. i + n \in 0..(N - 1) /\ i + (n + 1) = i + n + 1 /\ n + 1 \in 0..(N - i) BY <1>1
  <2> DEFINE s == Reached(t, q)[i + n]
             r == Reached(t, q)[i + n + 1]
  <2>2. s.verdict \in {"none", "include"} /\ s.pos = p /\ t[s.pos].leaf BY <1>3
  <2>3. s \in WalkState(t) BY <2>1, WalkStates, <1>1
  <2>4. r = s \/ r = [s EXCEPT !.skip = FALSE] \/ r = [s EXCEPT !.verdict = "include"]
    BY <2>1, <2>2, WalkCases DEF Choosing
  <2> HIDE DEF s, r
  <2>5. r.verdict \in {"none", "include"} /\ r.pos = p BY <2>2, <2>3, <2>4 DEF WalkState
  <2> QED BY <2>1, <2>5 DEF r
<1> HIDE DEF T
<1>4. \A n \in 0..(N - i) : n \in T BY <1>1, <1>2, <1>3, UpTo
<1>5. N - i \in T /\ i + (N - i) = N BY <1>1, <1>4
<1>6. Reached(t, q)[N].verdict \in {"none", "include"} /\ t[Reached(t, q)[N].pos].leaf BY <1>5 DEF T
<1> QED BY <1>6, EndVerdict

\* A position has one parent.
LEMMA SameChild ==
  ASSUME NEW r \in Positions, NEW m, NEW p \in Positions, NEW c, Append(r, m) = Append(p, c)
  PROVE  r = p /\ m = c
<1> USE DEF Positions
<1>1. Len(Append(r, m)) = Len(r) + 1 /\ Len(Append(p, c)) = Len(p) + 1 OBVIOUS
<1>2. Len(r) = Len(p) BY <1>1
<1>3. \A i \in 1..Len(r) : r[i] = Append(r, m)[i] /\ p[i] = Append(p, c)[i] BY <1>2
<1>4. Append(r, m)[Len(r) + 1] = m /\ Append(p, c)[Len(p) + 1] = c OBVIOUS
<1> QED BY <1>2, <1>3, <1>4

\* Marking a node as a leaf changes nothing else.
LEMMA LeafNodes ==
  ASSUME NEW t, Rooted(t), NEW p \in DOMAIN t
  PROVE  LET u == [t EXCEPT ![p].leaf = TRUE]
         IN  /\ Rooted(u) /\ DOMAIN u = DOMAIN t /\ u[p].leaf
             /\ \A d \in DOMAIN t : u[d].all = t[d].all /\ u[d].map = t[d].map /\ u[d].type = t[d].type
             /\ \A d \in DOMAIN t : d # p => u[d] = t[d]
<1> DEFINE u == [t EXCEPT ![p].leaf = TRUE]
<1>1. IsTree(u) /\ DOMAIN u = DOMAIN t BY LeafTree DEF Rooted
<1>2. \A d \in DOMAIN t : d # p => u[d] = t[d] OBVIOUS
<1>3. u[p] = [t[p] EXCEPT !.leaf = TRUE] OBVIOUS
<1>4. IsNode(t[p]) BY DEF Rooted, IsTree
<1>5. u[p].leaf /\ u[p].all = t[p].all /\ u[p].map = t[p].map /\ u[p].type = t[p].type
  BY <1>3, <1>4 DEF IsNode
<1>6. \A d \in DOMAIN t : u[d].all = t[d].all /\ u[d].map = t[d].map /\ u[d].type = t[d].type
  BY <1>2, <1>5
<1> HIDE DEF u
<1>7. Rooted(u) BY <1>1 DEF Rooted, HasChild
<1> QED BY <1>1, <1>2, <1>5, <1>6, <1>7 DEF u

\* u is t with the child c of p added.
Added(t, u, p, c, new) ==
  /\ Rooted(u) /\ DOMAIN u = DOMAIN t \cup {Append(p, c)} /\ u[Append(p, c)] = new
  /\ \A d \in DOMAIN t : u[d] = t[d]
  /\ \A d \in Positions : \A n : HasChild(u, d, n) <=> HasChild(t, d, n) \/ (d = p /\ n = c)
  /\ \A n : ~HasChild(u, Append(p, c), n)

\* Adding a child changes nothing else.
LEMMA AddNodes ==
  ASSUME NEW t, Rooted(t), NEW p \in DOMAIN t, NEW c \in Elements, ~HasChild(t, p, c),
         NEW new, IsNode(new)
  PROVE  Added(t, Add(t, Append(p, c), new), p, c, new)
<1> DEFINE e == Append(p, c)
           u == Add(t, e, new)
<1>1. p \in Positions /\ e \in Positions BY DEF Rooted, IsTree, Positions
<1>2. IsTree(u) /\ DOMAIN u = DOMAIN t \cup {e} BY <1>1, AddTree DEF Rooted
<1>3. u[e] = new /\ \A d \in DOMAIN t : u[d] = t[d] BY <1>2 DEF Add, HasChild
<1> HIDE DEF u, e
<1>4. ASSUME NEW d \in Positions, NEW n
      PROVE  HasChild(u, d, n) <=> HasChild(t, d, n) \/ (d = p /\ n = c)
  <2>1. Append(d, n) = e => d = p /\ n = c BY <1>1, SameChild DEF e
  <2> QED BY <1>2, <2>1 DEF HasChild, e
<1>5. <<>> \in DOMAIN u BY <1>2 DEF Rooted
<1>6. ASSUME NEW d \in Positions, NEW n \in Elements, HasChild(u, d, n) PROVE d \in DOMAIN u
  BY <1>2, <1>4, <1>6 DEF Rooted
<1>7. Rooted(u) BY <1>2, <1>5, <1>6 DEF Rooted
<1>8. ASSUME NEW n, HasChild(u, e, n) PROVE FALSE
  <2>1. HasChild(t, e, n) \/ e = p BY <1>1, <1>4, <1>8
  <2>2. Append(e, n) \in Positions BY <1>2, <1>8 DEF HasChild, IsTree
  <2>3. n \in Elements
    <3>1. n = Append(e, n)[Len(e) + 1] /\ Len(Append(e, n)) = Len(e) + 1 BY <1>1 DEF Positions
    <3>2. Len(e) + 1 \in 1..Len(Append(e, n)) BY <1>1, <3>1 DEF Positions
    <3> QED BY <2>2, <3>1, <3>2 DEF Positions
  <2>4. e \notin DOMAIN t BY DEF HasChild, e
  <2>5. e # p BY <1>1 DEF Positions, e
  <2> QED BY <1>1, <2>1, <2>3, <2>4, <2>5 DEF Rooted
<1> QED BY <1>2, <1>3, <1>4, <1>7, <1>8 DEF u, e, Added

-------------------------------------------------------------------------------
(* Fields and paths                                                            *)

\* A field that is found is a field of a type of the schema.
LEMMA FoundIn ==
  ASSUME NEW t \in Types, NEW name \in FieldNames(t)
  PROVE  \E s \in Types : name \in DOMAIN Schema[s] /\ FindChildField(t, name) = Schema[s][name]
<1> DEFINE here(i) == name \in DOMAIN Schema[Searched(t)[i]]
           isFirst(i) == here(i) /\ \A j \in 1..(i - 1) : ~here(j)
           first == CHOOSE i \in 1..Len(Searched(t)) : isFirst(i)
<1>1. \E i \in 1..Len(Searched(t)) : here(i)
  BY DEF FieldNames
<1>2. \E i \in 1..Len(Searched(t)) : isFirst(i)
  <2>1. CASE here(1)
    BY <1>1, <2>1, SearchedTypes
  <2>2. CASE ~here(1) /\ here(2) /\ 2 <= Len(Searched(t))
    BY <2>2, SearchedTypes
  <2>3. CASE ~here(1) /\ ~(here(2) /\ 2 <= Len(Searched(t)))
    <3>1. PICK i \in 1..Len(Searched(t)) : here(i)
      BY <1>1
    <3>2. i = 3 /\ 3 \in 1..Len(Searched(t)) /\ ~here(2)
      BY <2>3, <3>1, SearchedTypes
    <3> QED
      BY <2>3, <3>1, <3>2
  <2> QED
    BY <2>1, <2>2, <2>3
<1>3. first \in 1..Len(Searched(t)) /\ here(first)
  BY <1>2
<1>4. Searched(t)[first] \in Types
  BY <1>3, SearchedTypes
<1> QED
  BY <1>3, <1>4 DEF FindChildField

\* A field that is found has a name, and a kind that fits its type.
LEMMA KnownChild ==
  ASSUME NEW t \in Types, NEW name \in FieldNames(t)
  PROVE  /\ name \in Elements /\ name # Wildcard
         /\ FindChildField(t, name) \in FieldRecord
         /\ FindChildField(t, name).kind # "message" =>
              ~FindChildField(t, name).map /\ FindChildField(t, name).type = NoType
<1>1. PICK s \in Types : name \in DOMAIN Schema[s] /\ FindChildField(t, name) = Schema[s][name]
  BY FoundIn
<1> QED BY <1>1, SchemaAssumption

\* The type below a field of a type.
BelowField(t, name) ==
  IF t # NoType /\ name \in FieldNames(t) THEN FindChildField(t, name).type ELSE NoType

\* The recursion of TypeAfter.
LEMMA TypeSteps ==
  ASSUME NEW path \in Seq(Segments)
  PROVE  /\ \A i \in 0..Len(path) : TypeAfter(path)[i] \in Types \cup {NoType}
         /\ TypeAfter(path)[0] = RootType
         /\ \A i \in 1..Len(path) :
              TypeAfter(path)[i] = BelowField(TypeAfter(path)[i - 1], path[i].field)
<1> DEFINE N == Len(path)
           S == Types \cup {NoType}
           step == [i \in 1..N |-> [s \in S |-> BelowField(s, path[i].field)]]
           Def(f) == [i \in 0..N |-> IF i = 0 THEN RootType ELSE BelowField(f[i - 1], path[i].field)]
<1>1. ASSUME NEW s \in S, NEW name PROVE BelowField(s, name) \in S
  <2>1. s # NoType /\ name \in FieldNames(s) => FindChildField(s, name).type \in S
    BY KnownChild DEF FieldRecord
  <2> QED BY <2>1 DEF BelowField
<1>2. step \in [1..N -> [S -> S]] BY <1>1
<1>3. RootType \in S /\ N \in Nat BY SchemaAssumption
<1>4. PICK f : IsIterate(N, S, RootType, step, f)
  <2> HIDE DEF step, S, N
  <2> QED BY <1>2, <1>3, Iterates
<1>5. f \in [0..N -> S] /\ f[0] = RootType BY <1>4 DEF IsIterate
<1>6. \A i \in 1..N : f[i - 1] \in S BY <1>3, <1>5
<1>7. \A i \in 1..N : f[i] = BelowField(f[i - 1], path[i].field) BY <1>4, <1>6 DEF IsIterate
<1>8. f = Def(f) BY <1>3, <1>5, <1>7
<1>9. TypeAfter(path) = CHOOSE g : g = Def(g) BY DEF TypeAfter, BelowField
<1>10. TypeAfter(path) = Def(TypeAfter(path))
  <2> HIDE DEF Def
  <2> QED BY <1>8, <1>9
<1> DEFINE r == TypeAfter(path)
<1>11. r[0] = RootType /\ \A i \in 1..N : r[i] = BelowField(r[i - 1], path[i].field)
  <2> HIDE DEF N
  <2>1. \A i \in 1..N : i \in 0..N /\ i # 0 BY <1>3
  <2>2. r = Def(r) BY <1>10
  <2> HIDE DEF r
  <2> QED BY <1>3, <2>1, <2>2
<1>12. \A n \in 0..N : r[n] \in S
  <2> DEFINE T == {n \in 0..N : r[n] \in S}
  <2>1. 0 \in T BY <1>3, <1>11
  <2>2. ASSUME NEW n \in 0..(N - 1), n \in T PROVE n + 1 \in T
    <3>1. n + 1 \in 1..N /\ n + 1 \in 0..N /\ n + 1 - 1 = n BY <1>3
    <3>2. r[n + 1] = BelowField(r[n], path[n + 1].field) BY <1>11, <3>1
    <3>3. r[n] \in S BY <2>2
    <3>4. r[n + 1] \in S BY <1>1, <3>2, <3>3
    <3> QED BY <3>1, <3>4
  <2> HIDE DEF T, N
  <2>3. \A n \in 0..N : n \in T BY <1>3, <2>1, <2>2, UpTo
  <2> QED BY <2>3 DEF T
<1> QED BY <1>11, <1>12

\* The elements of patterns.
PatternElements == Elements \cup {AnyKey, Malformed}

\* The segment stands for all keys of its field, or puts a key there.
AllKeys(path, i) == path[i].key = NoKey /\ FieldAt(path, i).map /\ i < Len(path)

\* A segment with a key, or for all keys.
Keyed(path, i) == path[i].key # NoKey \/ AllKeys(path, i)

\* How a key is spelled in a pattern.
KeyOf(path, i) == IF path[i].key \in {NoKey, Wildcard} THEN AnyKey ELSE path[i].key

\* The parts of a segment are elements of patterns.
LEMMA SegmentParts ==
  ASSUME NEW path \in Seq(Segments), NEW i \in 1..Len(path)
  PROVE  /\ path[i] \in Segments
         /\ path[i].field \in Elements /\ path[i].key \in Elements \cup {NoKey, Malformed}
         /\ KeyOf(path, i) \in PatternElements /\ path[i].field \in PatternElements
<1>1. path[i] \in Segments OBVIOUS
<1>2. path[i].field \in Elements /\ path[i].key \in Elements \cup {NoKey, Malformed}
  BY <1>1 DEF Segments
<1> QED BY <1>1, <1>2 DEF PatternElements, KeyOf

\* What a segment stands for.
LEMMA SegmentForm ==
  ASSUME NEW path \in Seq(Segments), NEW i \in 1..Len(path)
  PROVE  SegmentPattern(path, i) =
           IF Keyed(path, i) THEN <<path[i].field, KeyOf(path, i)>> ELSE <<path[i].field>>
<1>1. NoKey \notin Elements /\ Wildcard \in Elements /\ NoKey # Wildcard BY SchemaAssumption
<1> DEFINE map == FieldAt(path, i).map
<1>2. SegmentPattern(path, i) =
        IF path[i].key = Wildcard \/ (path[i].key = NoKey /\ map /\ i < Len(path))
        THEN <<path[i].field, AnyKey>>
        ELSE IF path[i].key = NoKey THEN <<path[i].field>> ELSE <<path[i].field, path[i].key>>
  BY DEF SegmentPattern
<1> HIDE DEF map
<1>3. SegmentPattern(path, i) =
        IF path[i].key # NoKey \/ (path[i].key = NoKey /\ map /\ i < Len(path))
        THEN <<path[i].field, IF path[i].key \in {NoKey, Wildcard} THEN AnyKey ELSE path[i].key>>
        ELSE <<path[i].field>>
  BY <1>1, <1>2
<1> QED BY <1>3 DEF map, Keyed, AllKeys, KeyOf

\* A segment is spelled with elements of patterns.
LEMMA SegmentType ==
  ASSUME NEW path \in Seq(Segments), NEW i \in 1..Len(path)
  PROVE  SegmentPattern(path, i) \in Seq(PatternElements)
<1> DEFINE f == path[i].field
           k == KeyOf(path, i)
<1>1. k \in PatternElements /\ f \in PatternElements BY SegmentParts
<1>2. SegmentPattern(path, i) = IF Keyed(path, i) THEN <<f, k>> ELSE <<f>> BY SegmentForm
<1> HIDE DEF f, k
<1>3. <<f, k>> \in Seq(PatternElements) /\ <<f>> \in Seq(PatternElements) BY <1>1
<1> QED BY <1>2, <1>3

\* The recursion of PatternUpTo.
LEMMA PatternSteps ==
  ASSUME NEW path \in Seq(Segments)
  PROVE  /\ \A i \in 0..Len(path) : PatternUpTo(path)[i] \in Seq(PatternElements)
         /\ PatternUpTo(path)[0] = <<>>
         /\ \A i \in 1..Len(path) :
              PatternUpTo(path)[i] = PatternUpTo(path)[i - 1] \o SegmentPattern(path, i)
<1> DEFINE N == Len(path)
           S == Seq(PatternElements)
           seg(i) == SegmentPattern(path, i)
           step == [i \in 1..N |-> [s \in S |-> s \o seg(i)]]
           Def(f) == [i \in 0..N |-> IF i = 0 THEN <<>> ELSE f[i - 1] \o seg(i)]
<1>1. ASSUME NEW s \in S, NEW i \in 1..N PROVE s \o seg(i) \in S
  <2>1. seg(i) \in S BY SegmentType
  <2> HIDE DEF seg
  <2> QED BY <2>1
<1>2. step \in [1..N -> [S -> S]]
  <2> HIDE DEF seg, S
  <2> QED BY <1>1
<1>3. <<>> \in S /\ N \in Nat OBVIOUS
<1>4. PICK f : IsIterate(N, S, <<>>, step, f)
  <2> HIDE DEF step, S, N
  <2> QED BY <1>2, <1>3, Iterates
<1> HIDE DEF seg
<1>5. f \in [0..N -> S] /\ f[0] = <<>> BY <1>4 DEF IsIterate
<1>6. \A i \in 1..N : f[i - 1] \in S BY <1>3, <1>5
<1>7. \A i \in 1..N : f[i] = f[i - 1] \o seg(i) BY <1>4, <1>6 DEF IsIterate
<1>8. f = Def(f) BY <1>3, <1>5, <1>7
<1>9. PatternUpTo(path) = CHOOSE g : g = Def(g) BY DEF PatternUpTo, seg
<1>10. PatternUpTo(path) = Def(PatternUpTo(path))
  <2> HIDE DEF Def
  <2> QED BY <1>8, <1>9
<1> DEFINE r == PatternUpTo(path)
<1>11. r[0] = <<>> /\ \A i \in 1..N : r[i] = r[i - 1] \o seg(i)
  <2> HIDE DEF N
  <2>1. \A i \in 1..N : i \in 0..N /\ i # 0 BY <1>3
  <2>2. r = Def(r) BY <1>10
  <2> HIDE DEF r
  <2> QED BY <1>3, <2>1, <2>2
<1>12. \A n \in 0..N : r[n] \in S
  <2> DEFINE T == {n \in 0..N : r[n] \in S}
  <2>0. 0 \in 0..N /\ r[0] \in S BY <1>3, <1>11
  <2>1. 0 \in T
    <3> HIDE DEF r, S
    <3> QED BY <2>0
  <2>2. ASSUME NEW n \in 0..(N - 1), n \in T PROVE n + 1 \in T
    <3>1. n + 1 \in 1..N /\ n + 1 \in 0..N /\ n + 1 - 1 = n BY <1>3
    <3>2. r[n + 1] = r[n] \o seg(n + 1)
      <4> DEFINE j == n + 1
      <4>1. j \in 1..N /\ j - 1 = n BY <3>1
      <4> HIDE DEF j
      <4>2. r[j] = r[j - 1] \o seg(j)
        <5> HIDE DEF r, N
        <5> QED BY <1>11, <4>1
      <4> QED BY <4>1, <4>2 DEF j
    <3>3. r[n] \in S BY <2>2
    <3>4. r[n] \o seg(n + 1) \in S
      <4> HIDE DEF r, S, N
      <4> QED BY <1>1, <3>1, <3>3
    <3>5. r[n + 1] \in S
      <4> HIDE DEF r, S, N
      <4> QED BY <3>2, <3>4
    <3> QED BY <3>1, <3>5
  <2> HIDE DEF T, N
  <2>3. \A n \in 0..N : n \in T BY <1>3, <2>1, <2>2, UpTo
  <2> QED BY <2>3 DEF T
<1> QED BY <1>11, <1>12 DEF seg

\* The sequence b goes on from a.
Begins(a, b) == Len(a) <= Len(b) /\ \A i \in 1..Len(a) : a[i] = b[i]

\* What the first segments are spelled as begins what the whole path is.
LEMMA PatternPrefix ==
  ASSUME NEW path \in Seq(Segments), NEW k \in 0..Len(path)
  PROVE  /\ Pattern(path) \in Seq(PatternElements)
         /\ PatternUpTo(path)[k] \in Seq(PatternElements)
         /\ Begins(PatternUpTo(path)[k], Pattern(path))
<1> DEFINE N == Len(path)
           r(i) == PatternUpTo(path)[i]
           T == {m \in 0..(N - k) : Begins(r(k), r(k + m))}
<1>1. N \in Nat /\ k \in Nat /\ N - k \in Nat /\ k + (N - k) = N /\ k + 0 = k OBVIOUS
<1>2. \A i \in 0..N : r(i) \in Seq(PatternElements) BY PatternSteps
<1>3. 0 \in T BY <1>1, <1>2 DEF Begins
<1>4. ASSUME NEW m \in 0..(N - k - 1), m \in T PROVE m + 1 \in T
  <2>1. k + m \in 0..N /\ k + (m + 1) \in 1..N /\ k + (m + 1) - 1 = k + m /\ m + 1 \in 0..(N - k)
    BY <1>1
  <2> DEFINE s == SegmentPattern(path, k + (m + 1))
             a == r(k + m)
             b == r(k + (m + 1))
             c == r(k)
  <2>2. b = a \o s
    <3>1. \A i \in 1..N : r(i) = r(i - 1) \o SegmentPattern(path, i) BY PatternSteps
    <3> DEFINE j == k + (m + 1)
    <3>2. j \in 1..N /\ j - 1 = k + m BY <2>1
    <3> HIDE DEF j
    <3>3. r(j) = r(j - 1) \o SegmentPattern(path, j)
      <4> HIDE DEF r, N
      <4> QED BY <3>1, <3>2
    <3> QED BY <3>2, <3>3 DEF j
  <2>3. s \in Seq(PatternElements) BY <2>1, SegmentType
  <2>4. a \in Seq(PatternElements) /\ c \in Seq(PatternElements) BY <1>2, <2>1
  <2>5. Begins(c, a) BY <1>4
  <2> HIDE DEF s, a, b, c, r
  <2>6. Begins(c, b) BY <2>2, <2>3, <2>4, <2>5 DEF Begins
  <2> QED BY <2>1, <2>6 DEF b, c
<1> HIDE DEF T
<1>5. \A m \in 0..(N - k) : m \in T BY <1>1, <1>3, <1>4, UpTo
<1>6. Begins(r(k), r(k + (N - k))) BY <1>1, <1>5 DEF T
<1> QED BY <1>1, <1>2, <1>6 DEF Pattern

-------------------------------------------------------------------------------
(* What the positions of a tree stand for                                      *)

\* The children of the node are map keys.
KeyMap(t, d) == t[d].map /\ ~t[d].all

\* How a child below a map is spelled.
KeyElement(n) == IF n = Wildcard THEN AnyKey ELSE n

\* What the fields below a node begin with: below all keys, after one of them.
Below(t, Pt, d) == IF t[d].all THEN Append(Pt[d], AnyKey) ELSE Pt[d]

\* The child n of d is reached by the fields and the pattern of d, and its own name.
ChildSpelled(t, F, Pt, d, n) ==
  LET c == Append(d, n)
  IN  IF KeyMap(t, d)
      THEN F[c] = F[d] /\ Pt[c] = Append(Pt[d], KeyElement(n))
      ELSE F[c] = Append(F[d], n) /\ Pt[c] = Append(Below(t, Pt, d), n) /\ n # Wildcard

\* F are the fields that lead to a position, Pt is the pattern they and the keys make.
Spelled(t, F, Pt) ==
  /\ Rooted(t)
  /\ F \in [DOMAIN t -> Seq(Elements)] /\ Pt \in [DOMAIN t -> Seq(PatternElements)]
  /\ F[<<>>] = <<>> /\ Pt[<<>>] = <<>> /\ ~t[<<>>].all /\ ~t[<<>>].map
  /\ \A d \in DOMAIN t, n \in Elements : HasChild(t, d, n) => ChildSpelled(t, F, Pt, d, n)

\* A walk takes the wildcard for a key only where it misses nothing by it.
Clear(t) ==
  \A d \in DOMAIN t, n \in Elements :
    KeyMap(t, d) /\ ~t[d].leaf /\ HasChild(t, d, Wildcard) /\ HasChild(t, d, n) /\ n # Wildcard
      => t[Append(d, n)].leaf

\* Where a walk is, the path has the pattern of its node behind it.
OnTheWay(t, Pt, q, s, i) ==
  /\ s.verdict = "none" =>
       /\ \/ i = Len(Pt[s.pos]) /\ s.skip = t[s.pos].all
          \/ i = Len(Pt[s.pos]) + 1 /\ ~s.skip /\ t[s.pos].all
       /\ Agree(Pt[s.pos], q, Len(Pt[s.pos]))
  /\ s.verdict = "include" => t[s.pos].leaf /\ Covers(Pt[s.pos], q)

\* The nodes of a tree that is spelled, their fields and their patterns.
LEMMA PatternTypes ==
  ASSUME NEW t, NEW F, NEW Pt, Spelled(t, F, Pt), NEW d \in DOMAIN t
  PROVE  /\ d \in Positions /\ IsNode(t[d]) /\ t[d].all \in BOOLEAN /\ t[d].map \in BOOLEAN
         /\ t[d].leaf \in BOOLEAN
         /\ F[d] \in Seq(Elements) /\ Pt[d] \in Seq(PatternElements) /\ Len(Pt[d]) \in Nat
<1>1. IsTree(t) /\ F \in [DOMAIN t -> Seq(Elements)] /\ Pt \in [DOMAIN t -> Seq(PatternElements)]
  BY DEF Spelled, Rooted
<1>2. F[d] \in Seq(Elements) /\ Pt[d] \in Seq(PatternElements) BY <1>1
<1>3. d \in Positions /\ IsNode(t[d]) BY <1>1 DEF IsTree
<1> QED BY <1>2, <1>3 DEF IsNode

\* Wherever a walk is, the pattern of the node agrees with the query so far.
LEMMA WalkSpells ==
  ASSUME NEW t, NEW F, NEW Pt, Spelled(t, F, Pt), NEW q \in Queried
  PROVE  \A i \in 0..Len(q) : OnTheWay(t, Pt, q, Reached(t, q)[i], i)
<1> DEFINE N == Len(q)
           T == {i \in 0..N : OnTheWay(t, Pt, q, Reached(t, q)[i], i)}
<1>0. Rooted(t) /\ N \in Nat BY DEF Spelled, Queried
<1>1. 0 \in T
  <2>1. Reached(t, q)[0] = Start BY <1>0, WalkStart
  <2>2. Pt[<<>>] = <<>> /\ ~t[<<>>].all /\ <<>> \in DOMAIN t BY DEF Spelled, Rooted
  <2>3. OnTheWay(t, Pt, q, Start, 0)
    <3>1. Start.pos = <<>> /\ Start.skip = FALSE /\ Start.verdict = "none" BY DEF Start
    <3>2. t[<<>>].all = FALSE BY <2>2, PatternTypes
    <3>3. Len(<<>>) = 0 OBVIOUS
    <3>4. Agree(<<>>, q, 0) BY DEF Agree
    <3> QED BY <2>2, <3>1, <3>2, <3>3, <3>4 DEF OnTheWay
  <2> QED BY <1>0, <2>1, <2>3
<1>2. ASSUME NEW i \in 0..(N - 1), i \in T PROVE i + 1 \in T
  <2> DEFINE s == Reached(t, q)[i]
             r == Reached(t, q)[i + 1]
             d == s.pos
  <2>1. OnTheWay(t, Pt, q, s, i) BY <1>2
  <2>2. i \in 0..N /\ i + 1 \in 0..N /\ i \in Nat /\ i < N BY <1>0
  <2>3. s \in WalkState(t) /\ d \in DOMAIN t BY <1>0, <2>2, WalkStates
  <2>4. /\ d \in Positions /\ t[d].all \in BOOLEAN /\ Pt[d] \in Seq(PatternElements)
        /\ Len(Pt[d]) \in Nat
    BY <2>3, PatternTypes
  <2>5. q[i + 1] \in Elements BY <1>0, WalkStep
  <2>6. OnTheWay(t, Pt, q, r, i + 1)
    <3>1. CASE s.verdict # "none" /\ r = s
      <4> HIDE DEF s, r
      <4> QED BY <2>1, <3>1 DEF OnTheWay
    <3>2. CASE s.verdict = "none" /\ s.skip /\ r = [s EXCEPT !.skip = FALSE]
      <4>1. r.pos = d /\ ~r.skip /\ r.verdict = "none"
        <5> HIDE DEF s, r
        <5> QED BY <2>3, <3>2 DEF WalkState, d
      <4>2. i = Len(Pt[d]) /\ t[d].all /\ Agree(Pt[d], q, Len(Pt[d]))
        <5> HIDE DEF s, r
        <5> QED BY <2>1, <3>2 DEF OnTheWay, d
      <4> HIDE DEF s, r, d
      <4> QED BY <4>1, <4>2 DEF OnTheWay
    <3>3. CASE s.verdict = "none" /\ ~s.skip /\ t[s.pos].leaf /\ r = [s EXCEPT !.verdict = "include"]
      <4>1. r.pos = d /\ r.verdict = "include"
        <5> HIDE DEF s, r
        <5> QED BY <2>3, <3>3 DEF WalkState, d
      <4>2. Len(Pt[d]) <= i /\ t[d].leaf /\ Agree(Pt[d], q, Len(Pt[d]))
        <5> HIDE DEF s, r
        <5> QED BY <2>1, <2>2, <2>4, <3>3 DEF OnTheWay, d
      <4>3. Covers(Pt[d], q)
        <5> HIDE DEF s, r, d
        <5> QED BY <2>2, <2>4, <4>2 DEF Covers
      <4> HIDE DEF s, r, d
      <4> QED BY <4>1, <4>2, <4>3 DEF OnTheWay
    <3>4. CASE Choosing(t, s) /\ r = [s EXCEPT !.verdict = "exclude"]
      <4>1. r.verdict = "exclude"
        <5> HIDE DEF s, r
        <5> QED BY <2>3, <3>4 DEF WalkState
      <4> HIDE DEF s, r, d
      <4> QED BY <4>1 DEF OnTheWay
    <3>5. ASSUME Choosing(t, s), NEW n \in {q[i + 1], Wildcard}, Takes(t, s.pos, q[i + 1], n),
                 r = At(t, Append(s.pos, n))
          PROVE  OnTheWay(t, Pt, q, r, i + 1)
      <4> DEFINE c == Append(d, n)
      <4>1. n \in Elements /\ HasChild(t, d, n) BY <2>5, <3>5, SchemaAssumption DEF Takes
      <4>2. ChildSpelled(t, F, Pt, d, n) BY <2>3, <4>1 DEF Spelled
      <4>3. /\ \/ i = Len(Pt[d]) /\ ~t[d].all
               \/ i = Len(Pt[d]) + 1 /\ t[d].all
            /\ Agree(Pt[d], q, Len(Pt[d]))
        <5> HIDE DEF s, r
        <5> QED BY <2>1, <2>4, <3>5 DEF OnTheWay, d, Choosing
      <4>4. r.pos = c /\ r.skip = t[c].all /\ r.verdict = "none" BY <3>5 DEF At
      <4>5. Len(Pt[c]) = i + 1 /\ Agree(Pt[c], q, i + 1)
        <5>1. CASE KeyMap(t, d)
          <6>1. Pt[c] = Append(Pt[d], KeyElement(n)) /\ i = Len(Pt[d])
            BY <4>2, <4>3, <5>1 DEF ChildSpelled, KeyMap
          <6>2. KeyElement(n) \in {AnyKey, q[i + 1]} BY DEF KeyElement
          <6> HIDE DEF s, r, d, c
          <6> QED BY <2>4, <4>3, <6>1, <6>2 DEF Agree
        <5>2. CASE ~KeyMap(t, d)
          <6>1. Pt[c] = Append(Below(t, Pt, d), n) /\ n = q[i + 1]
            BY <4>2, <5>2 DEF ChildSpelled
          <6>2. AnyKey \in PatternElements BY DEF PatternElements
          <6> HIDE DEF s, r, d, c
          <6>3. /\ Below(t, Pt, d) \in Seq(PatternElements) /\ Len(Below(t, Pt, d)) = i
                /\ Agree(Below(t, Pt, d), q, i)
            BY <2>4, <4>3, <6>2 DEF Agree, Below
          <6> QED BY <6>1, <6>3 DEF Agree
        <5> QED BY <5>1, <5>2
      <4> HIDE DEF s, r, d, c
      <4> QED BY <4>4, <4>5 DEF OnTheWay
    <3> HIDE DEF s, r
    <3> QED BY <1>0, <3>1, <3>2, <3>3, <3>4, <3>5, WalkCases DEF s, r
  <2> QED BY <2>2, <2>6
<1> HIDE DEF T, N
<1>3. \A i \in 0..N : i \in T BY <1>0, <1>1, <1>2, UpTo
<1> QED BY <1>3 DEF T, N

\* What a verdict says: the path goes on from a leaf, or ends above or at a node.
LEMMA VerdictSpells ==
  ASSUME NEW t, NEW F, NEW Pt, Spelled(t, F, Pt), NEW q \in Queried
  PROVE  LET verdict == CheckField(t, q, "message")
         IN  \/ verdict = "exclude"
             \/ verdict = "include" /\ \E d \in DOMAIN t : t[d].leaf /\ Covers(Pt[d], q)
             \/ verdict = "partial" /\ \E d \in DOMAIN t :
                  /\ ~t[d].leaf /\ Len(q) <= Len(Below(t, Pt, d))
                  /\ Agree(Below(t, Pt, d), q, Len(q))
<1> DEFINE N == Len(q)
           s == Reached(t, q)[N]
           d == s.pos
           verdict == CheckField(t, q, "message")
<1>0. Rooted(t) /\ N \in Nat /\ N \in 0..N BY DEF Spelled, Queried
<1>1. OnTheWay(t, Pt, q, s, N) BY <1>0, WalkSpells
<1>2. s \in WalkState(t) /\ d \in DOMAIN t BY <1>0, WalkStates
<1>3. /\ t[d].all \in BOOLEAN /\ Pt[d] \in Seq(PatternElements) /\ Len(Pt[d]) \in Nat
  BY <1>2, PatternTypes
<1>4. verdict = IF s.verdict # "none" THEN s.verdict
                ELSE IF t[d].leaf THEN "include" ELSE "partial"
  BY <1>0, EndVerdict
<1>5. s.verdict \in {"none", "include", "exclude"}
  <2> HIDE DEF s
  <2> QED BY <1>2 DEF WalkState
<1> HIDE DEF s, verdict
<1>6. CASE s.verdict # "none"
  BY <1>1, <1>2, <1>4, <1>5, <1>6 DEF OnTheWay, verdict
<1>7. CASE s.verdict = "none"
  <2>1. /\ N = Len(Pt[d]) \/ (N = Len(Pt[d]) + 1 /\ t[d].all)
        /\ Agree(Pt[d], q, Len(Pt[d]))
    BY <1>1, <1>7 DEF OnTheWay
  <2> HIDE DEF d
  <2>2. CASE t[d].leaf
    <3>1. Covers(Pt[d], q) BY <1>0, <1>3, <2>1 DEF Covers
    <3> QED BY <1>2, <1>4, <1>7, <2>2, <3>1 DEF verdict
  <2>3. CASE ~t[d].leaf
    <3>1. N <= Len(Below(t, Pt, d)) /\ Agree(Below(t, Pt, d), q, N)
      BY <1>0, <1>3, <2>1 DEF Agree, Below
    <3> QED BY <1>2, <1>4, <1>7, <2>3, <3>1 DEF verdict
  <2> QED BY <2>2, <2>3
<1> QED BY <1>6, <1>7

\* As far as the path goes, it agrees with the pattern.
Toward(p, q) == \A i \in 1..Len(p) : i <= Len(q) => p[i] \in {AnyKey, q[i]}

\* What becomes of a walk toward a node.
Arrives(t, Pt, q, d) ==
  LET n == Len(Pt[d])
  IN  \/ CheckField(t, q, "message") = "include"
      \/ Len(q) < n /\ CheckField(t, q, "message") = "partial"
      \/ n <= Len(q) /\ Reached(t, q)[n] = At(t, d)

\* A position is the root or that of a child.
LEMMA AboveNode ==
  ASSUME NEW d \in Positions, d # <<>>
  PROVE  \E e \in Positions, n \in Elements : d = Append(e, n) /\ Len(d) = Len(e) + 1
<1> DEFINE k == Len(d) - 1
           e == [i \in 1..k |-> d[i]]
           n == d[Len(d)]
<1>1. k \in Nat /\ Len(d) = k + 1 /\ \A i \in 1..Len(d) : d[i] \in Elements BY DEF Positions
<1> HIDE DEF k
<1>2. e \in Positions /\ Len(e) = k BY <1>1 DEF Positions
<1>3. n \in Elements BY <1>1
<1>4. d = Append(e, n) BY <1>1, <1>2 DEF Positions
<1> HIDE DEF e, n
<1> QED BY <1>1, <1>2, <1>3, <1>4

\* A walk comes to every node whose pattern the query follows, if no child stands in
\* the way of another.
LEMMA WalkArrives ==
  ASSUME NEW t, NEW F, NEW Pt, Spelled(t, F, Pt), Clear(t), NEW q \in Queried
  PROVE  \A d \in DOMAIN t : Toward(Pt[d], q) => Arrives(t, Pt, q, d)
<1> DEFINE N == Len(q)
           w(i) == Reached(t, q)[i]
           verdict == CheckField(t, q, "message")
           T(M) == {m \in 0..M : \A d \in DOMAIN t : Len(d) = m /\ Toward(Pt[d], q) => Arrives(t, Pt, q, d)}
<1>0. Rooted(t) /\ N \in Nat BY DEF Spelled, Queried
<1>1. \A M \in Nat : 0 \in T(M)
  <2>1. <<>> \in DOMAIN t /\ Pt[<<>>] = <<>> /\ ~t[<<>>].all BY DEF Spelled, Rooted
  <2>2. w(0) = At(t, <<>>)
    <3>1. t[<<>>].all = FALSE BY <2>1, PatternTypes
    <3> QED BY <1>0, <3>1, WalkStart DEF Start, At
  <2>3. Arrives(t, Pt, q, <<>>) BY <1>0, <2>1, <2>2 DEF Arrives
  <2>4. ASSUME NEW d \in DOMAIN t, Len(d) = 0 PROVE d = <<>>
    BY <2>4, PatternTypes DEF Positions
  <2> QED BY <2>3, <2>4
<1>2. ASSUME NEW M \in Nat, NEW m \in 0..(M - 1), m \in T(M) PROVE m + 1 \in T(M)
  <2>1. ASSUME NEW c \in DOMAIN t, Len(c) = m + 1, Toward(Pt[c], q) PROVE Arrives(t, Pt, q, c)
    <3>1. c \in Positions /\ c # <<>> BY <2>1, PatternTypes
    <3>2. PICK d \in Positions, n \in Elements : c = Append(d, n) /\ Len(c) = Len(d) + 1
      BY <3>1, AboveNode
    <3>3. HasChild(t, d, n) /\ d \in DOMAIN t BY <1>0, <3>2 DEF HasChild, Rooted
    <3>4. ChildSpelled(t, F, Pt, d, n) BY <3>3 DEF Spelled
    <3>5. /\ t[d].all \in BOOLEAN /\ t[d].leaf \in BOOLEAN /\ Pt[d] \in Seq(PatternElements)
          /\ Len(Pt[d]) \in Nat
      BY <3>3, PatternTypes
    <3> DEFINE L == Len(Pt[d])
               b == Below(t, Pt, d)
               x == IF KeyMap(t, d) THEN KeyElement(n) ELSE n
    <3>6. Pt[c] = Append(b, x) BY <3>2, <3>4 DEF ChildSpelled, Below, KeyMap
    <3>7. /\ b \in Seq(PatternElements) /\ Len(b) = (IF t[d].all THEN L + 1 ELSE L)
          /\ \A i \in 1..L : b[i] = Pt[d][i]
      BY <3>5 DEF Below, PatternElements
    <3>8. Len(Pt[c]) = Len(b) + 1 /\ Pt[c][Len(b) + 1] = x /\ \A i \in 1..Len(b) : Pt[c][i] = b[i]
      <4> HIDE DEF b, x
      <4> QED BY <3>6, <3>7
    <3>9. Toward(Pt[d], q)
      <4> HIDE DEF b, x
      <4> QED BY <2>1, <3>5, <3>7, <3>8 DEF Toward
    <3>10. Arrives(t, Pt, q, d)
      <4>1. Len(d) = m
        <5>1. Len(d) \in Nat BY DEF Positions
        <5> QED BY <2>1, <3>2, <5>1
      <4> QED BY <1>2, <3>3, <3>9, <4>1
    <3>11. CASE verdict = "include" BY <3>11 DEF Arrives
    <3>12. CASE Len(q) < L /\ verdict = "partial"
      <4>1. Len(q) < Len(Pt[c])
        <5> HIDE DEF b, x
        <5> QED BY <1>0, <3>5, <3>7, <3>8, <3>12
      <4> QED BY <3>12, <4>1 DEF Arrives
    <3>13. ASSUME L <= N, w(L) = At(t, d), verdict # "include" PROVE Arrives(t, Pt, q, c)
      <4>1. w(L).pos = d /\ w(L).skip = t[d].all /\ w(L).verdict = "none" BY <3>13 DEF At
      <4>2. L \in 0..N BY <1>0, <3>5, <3>13
      <4>3. ~t[d].leaf
        <5> HIDE DEF w
        <5>1. t[w(L).pos].leaf => verdict = "include" BY <1>0, <4>1, <4>2, WalkIncludes DEF w
        <5> QED BY <3>13, <4>1, <5>1
      <4>4. ASSUME NEW i \in 0..N, w(i).verdict = "none", w(i).pos = d, i = N PROVE verdict = "partial"
        BY <1>0, <4>3, <4>4, EndVerdict
      <4>5. ASSUME NEW i \in 0..(N - 1), i = Len(b), w(i).verdict = "none", w(i).pos = d, ~w(i).skip
            PROVE  Arrives(t, Pt, q, c)
        <5>1. x \in {AnyKey, q[i + 1]}
          <6>1. Len(b) + 1 \in 1..Len(Pt[c]) /\ Len(b) + 1 <= N /\ Pt[c][Len(b) + 1] = x
            <7> HIDE DEF b, x
            <7> QED BY <1>0, <3>7, <3>8, <4>5
          <6> HIDE DEF b, x
          <6> QED BY <2>1, <4>5, <6>1 DEF Toward
        <5>2. q[i + 1] \in Elements BY <1>0, WalkStep
        <5>3. Choosing(t, w(i)) BY <4>3, <4>5 DEF Choosing
        <5>4. \A k : Takes(t, d, q[i + 1], k) => w(i + 1) = At(t, Append(d, k))
          <6>1. w(i) \in WalkState(t) /\ IsTree(t) BY <1>0, <4>5, WalkStates DEF Rooted
          <6>2. w(i + 1) = Advance(t, w(i), q[i + 1]) BY <1>0, <4>5, WalkStep
          <6> HIDE DEF w
          <6> QED BY <4>5, <5>3, <6>1, <6>2, AdvanceCases
        <5>5. ASSUME Takes(t, d, q[i + 1], n) PROVE Arrives(t, Pt, q, c)
          <6>1. w(i + 1) = At(t, c) BY <3>2, <5>4, <5>5
          <6>2. i + 1 = Len(Pt[c]) /\ i + 1 <= N
            <7> HIDE DEF b, x
            <7> QED BY <1>0, <3>8, <4>5
          <6> HIDE DEF b, x
          <6> QED BY <6>1, <6>2 DEF Arrives
        <5>6. CASE n = q[i + 1] BY <3>3, <5>5, <5>6 DEF Takes
        <5>7. CASE n # q[i + 1]
          <6>1. n = Wildcard /\ KeyMap(t, d)
            BY <3>4, <5>1, <5>7, AnyKeyAssumption DEF ChildSpelled, KeyElement
          <6>2. CASE ~HasChild(t, d, q[i + 1]) BY <3>3, <5>5, <6>1, <6>2 DEF Takes
          <6>3. CASE HasChild(t, d, q[i + 1])
            <7> DEFINE g == Append(d, q[i + 1])
            <7>1. t[g].leaf
              BY <3>3, <4>3, <5>2, <5>7, <6>1, <6>3 DEF Clear
            <7>2. w(i + 1) = At(t, g) BY <5>4, <6>3 DEF Takes
            <7>3. w(i + 1).verdict = "none" /\ t[w(i + 1).pos].leaf BY <7>1, <7>2 DEF At
            <7>4. i + 1 \in 0..N BY <1>0
            <7>5. verdict = "include" BY <1>0, <7>3, <7>4, WalkIncludes
            <7> QED BY <7>5 DEF Arrives
          <6> QED BY <6>2, <6>3
        <5> QED BY <5>6, <5>7
      <4>6. CASE L = N
        <5>1. verdict = "partial" BY <4>1, <4>2, <4>4, <4>6
        <5>2. Len(q) < Len(Pt[c])
          <6> HIDE DEF b, x
          <6> QED BY <1>0, <3>5, <3>7, <3>8, <4>6
        <5> QED BY <5>1, <5>2 DEF Arrives
      <4>7. CASE L # N /\ ~t[d].all
        <5>1. L \in 0..(N - 1) /\ L = Len(b) BY <1>0, <3>5, <3>7, <4>2, <4>7
        <5>2. ~w(L).skip BY <4>1, <4>7
        <5> QED BY <4>1, <4>5, <5>1, <5>2
      <4>8. CASE L # N /\ t[d].all
        <5>1. L \in 0..(N - 1) /\ L + 1 \in 0..N /\ L + 1 = Len(b) BY <1>0, <3>5, <3>7, <4>2, <4>8
        <5>2. w(L + 1).pos = d /\ w(L + 1).verdict = "none" /\ ~w(L + 1).skip
          <6>1. w(L) \in WalkState(t) /\ IsTree(t) BY <1>0, <4>2, WalkStates DEF Rooted
          <6>2. w(L + 1) = Advance(t, w(L), q[L + 1]) BY <1>0, <5>1, WalkStep
          <6>3. w(L + 1) = [w(L) EXCEPT !.skip = FALSE]
            <7> HIDE DEF w
            <7>1. w(L).verdict = "none" /\ w(L).skip BY <4>1, <4>8
            <7> DEFINE y == w(L)
                       z == q[L + 1]
            <7>2. y \in WalkState(t) /\ IsTree(t) /\ y.verdict = "none" /\ y.skip BY <6>1, <7>1
            <7>3. Advance(t, y, z) = [y EXCEPT !.skip = FALSE]
              <8> HIDE DEF y, z
              <8> QED BY <7>2, AdvanceCases
            <7> QED BY <6>2, <7>3
          <6> HIDE DEF w
          <6> QED BY <4>1, <6>1, <6>3 DEF WalkState
        <5>3. CASE L + 1 = N
          <6>1. verdict = "partial" BY <4>4, <5>1, <5>2, <5>3
          <6>2. Len(q) < Len(Pt[c])
            <7> HIDE DEF b, x
            <7> QED BY <3>8, <5>1, <5>3
          <6> QED BY <6>1, <6>2 DEF Arrives
        <5>4. CASE L + 1 # N
          <6>1. L + 1 \in 0..(N - 1) BY <1>0, <5>1, <5>4
          <6> QED BY <4>5, <5>1, <5>2, <6>1
        <5> QED BY <5>3, <5>4
      <4> QED BY <4>6, <4>7, <4>8
    <3> QED BY <3>10, <3>11, <3>12, <3>13 DEF Arrives
  <2> QED BY <2>1
<1> HIDE DEF T
<1>3. ASSUME NEW d \in DOMAIN t, Toward(Pt[d], q) PROVE Arrives(t, Pt, q, d)
  <2>1. Len(d) \in Nat BY PatternTypes DEF Positions
  <2> DEFINE M == Len(d)
             S == T(M)
  <2>2. M \in Nat /\ 0 \in S BY <1>1, <2>1
  <2>3. \A n \in 0..(M - 1) : n \in S => n + 1 \in S BY <1>2, <2>1
  <2>4. M \in 0..M BY <2>1
  <2> HIDE DEF M, S
  <2>5. \A n \in 0..M : n \in S BY <2>2, <2>3, UpTo
  <2> QED BY <1>3, <2>4, <2>5 DEF S, T, M
<1> QED BY <1>3

-------------------------------------------------------------------------------
(* Trees and lists                                                             *)

\* Every node is on the way of a path, and the leaves are where paths end.
Linked(t, Pt, P) ==
  \A d \in DOMAIN t :
    IF t[d].leaf THEN \E p \in P : Pt[d] = Pattern(p)
                 ELSE d = <<>> \/ \E p \in P : Begins(Below(t, Pt, d), Pattern(p))

\* Every path has a leaf on its way.
Reaching(t, Pt, P) == \A p \in P : \E d \in DOMAIN t : t[d].leaf /\ Begins(Pt[d], Pattern(p))

\* What CheckField() answers for a field of another kind.
AsKind(v, kind) == IF v = "partial" /\ kind \notin {"message", "enum"} THEN "exclude" ELSE v

\* CheckField() tells kinds apart only where its walk ends inside the tree.
LEMMA KindOfVerdict ==
  ASSUME NEW t, Rooted(t), NEW q \in Queried, NEW kind
  PROVE  /\ CheckField(t, q, kind) = AsKind(CheckField(t, q, "message"), kind)
         /\ CheckField(t, q, kind) \in Verdicts
<1> DEFINE end == Reached(t, q)[Len(q)]
<1>1. end.verdict \in {"none", "include", "exclude"}
  <2>1. Len(q) \in 0..Len(q) BY DEF Queried
  <2> QED BY <2>1, WalkStates DEF WalkState
<1>2. \A k : CheckField(t, q, k) = IF end.verdict # "none" THEN end.verdict
                                   ELSE IF t[end.pos].leaf THEN "include"
                                   ELSE IF k \in {"message", "enum"} THEN "partial" ELSE "exclude"
  BY EndVerdict
<1> HIDE DEF end
<1>3. CASE end.verdict # "none"
  <2>1. \A k : CheckField(t, q, k) = end.verdict BY <1>2, <1>3
  <2> QED BY <1>1, <1>3, <2>1 DEF AsKind, Verdicts
<1>4. CASE end.verdict = "none" /\ t[end.pos].leaf
  <2>1. \A k : CheckField(t, q, k) = "include" BY <1>2, <1>4
  <2> QED BY <2>1 DEF AsKind, Verdicts
<1>5. CASE end.verdict = "none" /\ ~t[end.pos].leaf
  <2>1. \A k : CheckField(t, q, k) = IF k \in {"message", "enum"} THEN "partial" ELSE "exclude" BY <1>2, <1>5
  <2>2. CheckField(t, q, "message") = "partial" BY <2>1
  <2> QED BY <2>1, <2>2 DEF AsKind, Verdicts
<1> QED BY <1>3, <1>4, <1>5

\* What the paths P say about a message.
PathVerdict(P, path) ==
  IF \E p \in P : Covers(Pattern(p), path) THEN "include"
  ELSE IF \E p \in P : LeadsInto(Pattern(p), path) THEN "partial" ELSE "exclude"

\* A tree whose nodes are spelled, clear and linked to paths answers as they say.
LEMMA TreeVerdict ==
  ASSUME NEW t, NEW F, NEW Pt, Spelled(t, F, Pt), Clear(t), NEW P, P \subseteq Seq(Segments), P # {},
         Linked(t, Pt, P), Reaching(t, Pt, P), NEW q \in Queried
  PROVE  CheckField(t, q, "message") = PathVerdict(P, q)
<1> DEFINE verdict == CheckField(t, q, "message")
<1>0. Rooted(t) /\ Len(q) \in Nat BY DEF Spelled, Queried
<1>1. \A p \in P : Pattern(p) \in Seq(PatternElements)
  <2> TAKE p \in P
  <2>1. p \in Seq(Segments) /\ 0 \in 0..Len(p) OBVIOUS
  <2> QED BY <2>1, PatternPrefix
\* What becomes of a walk toward the leaf that a path has on its way.
<1>2. ASSUME NEW p \in P, Toward(Pattern(p), q)
      PROVE  verdict = "include" \/ (Len(q) < Len(Pattern(p)) /\ verdict = "partial")
  <2>1. PICK d \in DOMAIN t : t[d].leaf /\ Begins(Pt[d], Pattern(p)) BY DEF Reaching
  <2>2. Pt[d] \in Seq(PatternElements) /\ Len(Pt[d]) \in Nat BY PatternTypes
  <2>3. Pattern(p) \in Seq(PatternElements) BY <1>1
  <2>4. Toward(Pt[d], q)
    BY <1>2, <2>1, <2>2, <2>3 DEF Toward, Begins
  <2>5. Arrives(t, Pt, q, d) BY <2>4, WalkArrives
  <2>6. CASE Len(q) < Len(Pt[d]) /\ verdict = "partial"
    BY <1>0, <2>1, <2>2, <2>3, <2>6 DEF Begins
  <2>7. ASSUME Len(Pt[d]) <= Len(q), Reached(t, q)[Len(Pt[d])] = At(t, d) PROVE verdict = "include"
    <3> DEFINE n == Len(Pt[d])
               s == Reached(t, q)[n]
    <3>1. n \in 0..Len(q) BY <1>0, <2>2, <2>7
    <3>2. s.verdict = "none" /\ t[s.pos].leaf BY <2>1, <2>7 DEF At
    <3> HIDE DEF n
    <3> QED BY <1>0, <3>1, <3>2, WalkIncludes
  <2> HIDE DEF verdict
  <2> QED BY <2>5, <2>6, <2>7 DEF Arrives, verdict
<1>3. ASSUME NEW p \in P, Covers(Pattern(p), q) PROVE verdict = "include"
  <2>1. Pattern(p) \in Seq(PatternElements) BY <1>1
  <2>2. Toward(Pattern(p), q) /\ ~(Len(q) < Len(Pattern(p)))
    BY <1>0, <1>3, <2>1 DEF Covers, Agree, Toward
  <2> QED BY <1>2, <2>2
<1>4. ASSUME NEW p \in P, LeadsInto(Pattern(p), q) PROVE verdict \in {"include", "partial"}
  <2>1. Pattern(p) \in Seq(PatternElements) BY <1>1
  <2>2. Toward(Pattern(p), q) BY <1>0, <1>4, <2>1 DEF LeadsInto, Agree, Toward
  <2> QED BY <1>2, <2>2
<1>5. CASE verdict = "exclude"
  <2>1. \A p \in P : ~Covers(Pattern(p), q) /\ ~LeadsInto(Pattern(p), q) BY <1>3, <1>4, <1>5
  <2> QED BY <1>5, <2>1 DEF PathVerdict
<1>6. ASSUME verdict = "include", NEW d \in DOMAIN t, t[d].leaf, Covers(Pt[d], q)
      PROVE  verdict = PathVerdict(P, q)
  <2>1. PICK p \in P : Pt[d] = Pattern(p) BY <1>6 DEF Linked
  <2> QED BY <1>6, <2>1 DEF PathVerdict
<1>7. ASSUME verdict = "partial", NEW d \in DOMAIN t, ~t[d].leaf, Len(q) <= Len(Below(t, Pt, d)),
             Agree(Below(t, Pt, d), q, Len(q))
      PROVE  verdict = PathVerdict(P, q)
  <2>1. PICK p \in P : Begins(Below(t, Pt, d), Pattern(p))
    <3>1. CASE d = <<>>
      <4>1. Below(t, Pt, d) = <<>> BY <3>1 DEF Below, Spelled
      <4>2. \A p \in P : Begins(<<>>, Pattern(p))
        <5> TAKE p \in P
        <5>1. Len(Pattern(p)) \in Nat BY <1>1
        <5> QED BY <5>1 DEF Begins
      <4> QED BY <4>1, <4>2
    <3>2. CASE d # <<>> BY <1>7, <3>2 DEF Linked
    <3> QED BY <3>1, <3>2
  <2>2. Pattern(p) \in Seq(PatternElements) BY <1>1
  <2>3. Below(t, Pt, d) \in Seq(PatternElements)
    BY PatternTypes DEF Below, PatternElements
  <2>4. Len(q) <= Len(Pattern(p)) /\ Agree(Pattern(p), q, Len(q))
    BY <1>0, <1>7, <2>1, <2>2, <2>3 DEF Begins, Agree
  <2>5. LeadsInto(Pattern(p), q) \/ Covers(Pattern(p), q)
    BY <1>0, <2>2, <2>4 DEF LeadsInto, Covers
  <2>6. \A r \in P : ~Covers(Pattern(r), q) BY <1>3, <1>7
  <2> QED BY <1>7, <2>5, <2>6 DEF PathVerdict
<1> HIDE DEF verdict
<1> QED BY <1>5, <1>6, <1>7, VerdictSpells DEF verdict

\* What is right for a message is right for every query.
LEMMA UnionVerdict ==
  ASSUME NEW t, Rooted(t), NEW list \in PathsArgument, LegalList(list), NEW q \in Queries,
         IF list = <<>> THEN CheckField(t, q.path, "message") = "include"
         ELSE CheckField(t, q.path, "message") = PathVerdict(PathsOf(list), q.path)
  PROVE  CheckField(t, q.path, q.kind) = Union(list, q)
<1> DEFINE path == q.path
           kind == q.kind
           P == PathsOf(list)
           verdict == CheckField(t, path, "message")
<1>1. \A p \in P : Patterns[p] = Pattern(p) BY DEF LegalList, Patterns
<1>2. Union(list, q) =
        IF list = <<>> \/ (\E p \in P : Covers(Pattern(p), path)) THEN "include"
        ELSE IF (\E p \in P : LeadsInto(Pattern(p), path)) /\ kind \in {"message", "enum"}
        THEN "partial" ELSE "exclude"
  <2>2. (\E x \in {Patterns[p] : p \in P} : Covers(x, path)) <=> \E p \in P : Covers(Pattern(p), path)
    BY <1>1
  <2>3. (\E x \in {Patterns[p] : p \in P} : LeadsInto(x, path)) <=> \E p \in P : LeadsInto(Pattern(p), path)
    BY <1>1
  <2> QED BY <2>2, <2>3 DEF Union
<1>0. path \in Queried BY QueriesAssumption DEF Queried
<1>3. /\ verdict = "partial" =>
           CheckField(t, path, kind) = IF kind \in {"message", "enum"} THEN "partial" ELSE "exclude"
      /\ verdict # "partial" => CheckField(t, path, kind) = verdict
  BY <1>0, KindOfVerdict DEF AsKind
<1>4. IF list = <<>> THEN verdict = "include" ELSE verdict = PathVerdict(P, path) OBVIOUS
<1> DEFINE covers == \E p \in P : Covers(Pattern(p), path)
           leads == \E p \in P : LeadsInto(Pattern(p), path)
<1>5. PathVerdict(P, path) = IF covers THEN "include" ELSE IF leads THEN "partial" ELSE "exclude"
  BY DEF PathVerdict
<1> HIDE DEF verdict, path, kind, P, covers, leads
<1>6. CheckField(t, path, kind) = Union(list, q)
  BY <1>2, <1>3, <1>4, <1>5 DEF covers, leads
<1> QED BY <1>6 DEF path, kind

-------------------------------------------------------------------------------
(* How the nodes follow from the paths                                         *)

\* The path begins with the fields f.
Along(p, f) == Len(f) <= Len(p) /\ \A i \in 1..Len(f) : p[i].field = f[i]

\* A path addresses what has keys at the end of the fields f in one of the ways.
Addressed(P, f, sorts) ==
  \E p \in P : Along(p, f) /\ Len(f) \in KeyedAt[p] /\ KeySort(p, Len(f)) \in sorts

\* The ways a path addresses the entries of a map.
KeyedSorts == {"keys", "entry", "wildcard", "every"}

\* The way in which a path that made this child addresses the map.
SortOf(n, leaf) ==
  IF n = Wildcard THEN IF leaf THEN "every" ELSE "wildcard"
                  ELSE IF leaf THEN "entry" ELSE "keys"

\* The child n of d has the type and the flags of its field, and some path addresses
\* it in the way it stands there.
ChildFits(t, F, P, d, n) ==
  LET c == Append(d, n)
      f == FindChildField(t[d].type, n)
  IN  IF KeyMap(t, d)
      THEN /\ t[c].type = t[d].type /\ ~t[c].all /\ ~t[c].map
           /\ Addressed(P, F[c], {SortOf(n, t[c].leaf)})
      ELSE /\ t[d].type # NoType /\ n \in FieldNames(t[d].type) /\ t[c].type = f.type
           /\ t[c].all => f.map
           /\ f.map => t[c].map
           /\ f.kind = "message" /\ ~f.map => ~t[c].map
           /\ ~t[c].leaf =>
                /\ f.kind # "message" => t[c].map
                /\ t[c].all => Addressed(P, F[c], {"all"})
                /\ KeyMap(t, c) => Addressed(P, F[c], KeyedSorts)

\* Every child fits.
Fitting(t, F, P) == \A d \in DOMAIN t, n \in Elements : HasChild(t, d, n) => ChildFits(t, F, P, d, n)

\* The tree and what its positions stand for, when P are the paths inserted.
Shape(t, F, Pt, P) == Spelled(t, F, Pt) /\ Fitting(t, F, P) /\ Linked(t, Pt, P)

\* A set of paths none of which address a map in ways that clash.
Peaceful(P, clashes) ==
  /\ P \subseteq Seq(Segments) \cap DOMAIN Patterns
  /\ \A p, q \in P : Compatible(p, q, clashes)

\* Two paths that are compatible do not address the same field in ways that clash.
LEMMA Clash ==
  ASSUME NEW P, NEW Q, NEW clashes, \A p \in P, q \in Q : Compatible(p, q, clashes),
         P \subseteq DOMAIN Patterns,
         NEW f \in Seq(Elements), NEW A, NEW B, Addressed(P, f, A), Addressed(Q, f, B)
  PROVE  \E a \in A, b \in B : {a, b} \notin clashes
<1>1. PICK p \in P : Along(p, f) /\ Len(f) \in KeyedAt[p] /\ KeySort(p, Len(f)) \in A BY DEF Addressed
<1>2. PICK q \in Q : Along(q, f) /\ Len(f) \in KeyedAt[q] /\ KeySort(q, Len(f)) \in B BY DEF Addressed
<1>3. SameField(p, q, Len(f)) BY <1>1, <1>2 DEF SameField, Along
<1>4. {KeySort(p, Len(f)), KeySort(q, Len(f))} \notin clashes BY <1>1, <1>3 DEF Compatible
<1> QED BY <1>1, <1>2, <1>4

\* In a tree of peaceful paths no child stands in the way of another.
LEMMA FittingClear ==
  ASSUME NEW t, NEW F, NEW Pt, NEW P, Spelled(t, F, Pt), Fitting(t, F, P),
         Peaceful(P, {{"wildcard", "keys"}, {"every", "keys"}})
  PROVE  Clear(t)
<1> SUFFICES ASSUME NEW d \in DOMAIN t, NEW n \in Elements, KeyMap(t, d), ~t[d].leaf,
                    HasChild(t, d, Wildcard), HasChild(t, d, n), n # Wildcard,
                    ~t[Append(d, n)].leaf
             PROVE  FALSE
  BY DEF Clear
<1>0. Wildcard \in Elements /\ F[d] \in Seq(Elements) BY SchemaAssumption, PatternTypes
<1>1. F[Append(d, n)] = F[d] /\ F[Append(d, Wildcard)] = F[d] BY <1>0 DEF Spelled, ChildSpelled
<1>2. Addressed(P, F[d], {"keys"}) BY <1>1 DEF Fitting, ChildFits, SortOf
<1>3. Addressed(P, F[d], {"wildcard", "every"})
  <2>1. Addressed(P, F[d], {SortOf(Wildcard, t[Append(d, Wildcard)].leaf)})
    BY <1>0, <1>1 DEF Fitting, ChildFits
  <2>2. SortOf(Wildcard, t[Append(d, Wildcard)].leaf) \in {"wildcard", "every"} BY DEF SortOf
  <2> QED BY <2>1, <2>2 DEF Addressed
<1> DEFINE cl == {{"wildcard", "keys"}, {"every", "keys"}}
<1>4. (\A p, q \in P : Compatible(p, q, cl)) /\ P \subseteq DOMAIN Patterns BY DEF Peaceful
<1>5. {"wildcard", "keys"} \in cl /\ {"every", "keys"} \in cl OBVIOUS
<1> DEFINE A == {"wildcard", "every"}
           B == {"keys"}
           f == F[d]
<1>6. Addressed(P, f, A) /\ Addressed(P, f, B) /\ f \in Seq(Elements) BY <1>0, <1>2, <1>3
<1> HIDE DEF cl, A, B, f
<1>7. \E a \in A, b \in B : {a, b} \notin cl BY <1>4, <1>6, Clash
<1> QED BY <1>5, <1>7 DEF A, B

-------------------------------------------------------------------------------
(* Where an insertion is                                                       *)

\* The first segments of cur are used up at d: its fields and its type.
Placed(t, F, cur, used, d) ==
  /\ d \in DOMAIN t /\ used \in 0..Len(cur)
  /\ Len(F[d]) = used /\ Along(cur, F[d])
  /\ t[d].type = TypeAfter(cur)[used]

\* How d hangs below its parent, by the last segment that is used up.
Parent(t, cur, used, d) ==
  \E e \in DOMAIN t, n \in Elements :
    d = Append(e, n) /\ IF cur[used].key = NoKey THEN ~KeyMap(t, e)
                                                 ELSE KeyMap(t, e) /\ n = cur[used].key

\* InsertField() of the node d is called when `used` segments of the path cur are used up.
FieldPlace(t, F, Pt, cur, used, d) ==
  /\ Placed(t, F, cur, used, d)
  /\ PatternUpTo(cur)[used] = IF used > 0 /\ AllKeys(cur, used) THEN Append(Pt[d], AnyKey) ELSE Pt[d]
  /\ used = 0 => d = <<>>
  /\ used > 0 => Parent(t, cur, used, d)
  /\ used < Len(cur) /\ ~t[d].leaf =>
       /\ ~KeyMap(t, d)
       /\ t[d].all <=> (used > 0 /\ AllKeys(cur, used))

\* InsertValueField() is called, with the key of the last of them.
ValuePlace(t, F, Pt, cur, used, d) ==
  /\ Placed(t, F, cur, used, d)
  /\ used > 0 /\ cur[used].key # NoKey
  /\ PatternUpTo(cur)[used] = Append(Pt[d], KeyOf(cur, used))
  /\ t[d].leaf \/ KeyMap(t, d)

\* An insertion starts at the root.
LEMMA RootPlace ==
  ASSUME NEW t, NEW F, NEW Pt, Spelled(t, F, Pt), t[<<>>].type = RootType, NEW cur \in Seq(Segments)
  PROVE  FieldPlace(t, F, Pt, cur, 0, <<>>)
<1>1. /\ <<>> \in DOMAIN t /\ F[<<>>] = <<>> /\ Pt[<<>>] = <<>> /\ ~t[<<>>].all /\ ~t[<<>>].map
  BY DEF Spelled, Rooted
<1>2. TypeAfter(cur)[0] = RootType BY TypeSteps
<1>3. PatternUpTo(cur)[0] = <<>> BY PatternSteps
<1>4. Placed(t, F, cur, 0, <<>>) BY <1>1, <1>2 DEF Placed, Along
<1> QED BY <1>1, <1>3, <1>4 DEF FieldPlace, KeyMap

\* A segment of a legal path.
LEMMA LegalParts ==
  ASSUME NEW cur \in Seq(Segments), cur \in DOMAIN Patterns, NEW i \in 1..Len(cur)
  PROVE  /\ TypeAfter(cur)[i - 1] \in Types
         /\ cur[i].key # Malformed /\ cur[i].key \in Elements \cup {NoKey}
         /\ cur[i].field \in FieldNames(TypeAfter(cur)[i - 1])
         /\ FieldAt(cur, i) = FindChildField(TypeAfter(cur)[i - 1], cur[i].field)
         /\ TypeAfter(cur)[i] = FieldAt(cur, i).type
         /\ FieldAt(cur, i) \in FieldRecord
         /\ FieldAt(cur, i).kind = "message" /\ ~FieldAt(cur, i).map => cur[i].key = NoKey
         /\ i < Len(cur) => FieldAt(cur, i).kind = "message"
         /\ KeyedAt[cur] = {j \in 1..Len(cur) : FieldAt(cur, j).map \/ cur[j].key # NoKey}
<1>1. Legal(cur) BY DEF Patterns
<1>2. LegalSegment(cur, i) BY <1>1 DEF Legal
<1>3. /\ TypeAfter(cur)[i - 1] # NoType /\ cur[i].key # Malformed
      /\ cur[i].field \in FieldNames(TypeAfter(cur)[i - 1])
  BY <1>2 DEF LegalSegment, KnownField
<1>4. i - 1 \in 0..Len(cur) /\ i \in 0..Len(cur) OBVIOUS
<1>5. TypeAfter(cur)[i - 1] \in Types BY <1>3, <1>4, TypeSteps
<1>6. TypeAfter(cur)[i] = FieldAt(cur, i).type
  BY <1>3, TypeSteps DEF BelowField, FieldAt
<1>7. /\ FieldAt(cur, i) \in FieldRecord
      /\ FieldAt(cur, i).kind # "message" => FieldAt(cur, i).type = NoType
  BY <1>3, <1>5, KnownChild DEF FieldAt
<1>8. FieldAt(cur, i).kind = "message" /\ ~FieldAt(cur, i).map => cur[i].key = NoKey
  BY <1>2 DEF LegalSegment
<1>9. ASSUME i < Len(cur) PROVE FieldAt(cur, i).kind = "message"
  <2>1. i + 1 \in 1..Len(cur) /\ i + 1 - 1 = i BY <1>9
  <2>2. LegalSegment(cur, i + 1) BY <1>1, <2>1 DEF Legal
  <2>3. TypeAfter(cur)[i] # NoType BY <2>1, <2>2 DEF LegalSegment, KnownField
  <2> QED BY <1>6, <1>7, <2>3
<1>10. cur[i].key \in Elements \cup {NoKey} BY <1>3, SegmentParts
<1>11. KeyedAt[cur] = {j \in 1..Len(cur) : FieldAt(cur, j).map \/ cur[j].key # NoKey}
  <2>1. cur \in {p \in MaskPaths : Legal(p)} BY <1>1 DEF Patterns
  <2> QED BY <2>1 DEF KeyedAt
<1> QED BY <1>3, <1>5, <1>6, <1>7, <1>8, <1>9, <1>10, <1>11 DEF FieldAt

-------------------------------------------------------------------------------
(* The steps of an insertion                                                   *)

\* What the next segment adds to the pattern.
LEMMA NextPattern ==
  ASSUME NEW cur \in Seq(Segments), NEW i \in 1..Len(cur)
  PROVE  PatternUpTo(cur)[i] =
           IF Keyed(cur, i)
           THEN Append(Append(PatternUpTo(cur)[i - 1], cur[i].field), KeyOf(cur, i))
           ELSE Append(PatternUpTo(cur)[i - 1], cur[i].field)
<1> DEFINE a == PatternUpTo(cur)[i - 1]
           f == cur[i].field
           k == KeyOf(cur, i)
<1>1. PatternUpTo(cur)[i] = a \o SegmentPattern(cur, i) BY PatternSteps
<1>2. SegmentPattern(cur, i) = IF Keyed(cur, i) THEN <<f, k>> ELSE <<f>> BY SegmentForm
<1>3. a \in Seq(PatternElements)
  <2>1. i - 1 \in 0..Len(cur) OBVIOUS
  <2> QED BY <2>1, PatternSteps
<1>4. f \in PatternElements /\ k \in PatternElements BY SegmentParts
<1> HIDE DEF a, f, k
<1>5. a \o <<f>> = Append(a, f) BY <1>3, <1>4
<1>6. a \o <<f, k>> = Append(Append(a, f), k) BY <1>3, <1>4
<1> QED BY <1>1, <1>2, <1>5, <1>6 DEF a, f, k

\* The paths of one list do not clash.
Peace(P) == Peaceful(P, InOneList)

\* Two paths of a list that is compiled exactly do not both take all keys and one.
LEMMA AllOrOne ==
  ASSUME NEW P, Peace(P), NEW f \in Seq(Elements)
  PROVE  ~(Addressed(P, f, {"all"}) /\ Addressed(P, f, KeyedSorts))
<1> SUFFICES ASSUME Addressed(P, f, {"all"}), Addressed(P, f, KeyedSorts) PROVE FALSE
  OBVIOUS
<1> DEFINE A == {"all"}
           cl == InOneList
<1>1. (\A p, q \in P : Compatible(p, q, cl)) /\ P \subseteq DOMAIN Patterns BY DEF Peace, Peaceful
<1>2. \A b \in KeyedSorts : {"all", b} \in cl BY DEF KeyedSorts, InOneList
<1>3. Addressed(P, f, A) OBVIOUS
<1> HIDE DEF A, cl
<1>4. \E a \in A, b \in KeyedSorts : {a, b} \notin cl BY <1>1, <1>3, Clash
<1> QED BY <1>2, <1>4 DEF A

\* How the path that is inserted addresses its segment i.
LEMMA AddressedHere ==
  ASSUME NEW P, Peace(P), NEW cur \in P, NEW i \in 1..Len(cur), NEW f, Along(cur, f), Len(f) = i
  PROVE  /\ AllKeys(cur, i) => Addressed(P, f, {"all"})
         /\ cur[i].key # NoKey => Addressed(P, f, {SortOf(cur[i].key, i = Len(cur))})
         /\ cur[i].key # NoKey => Addressed(P, f, KeyedSorts)
<1>1. cur \in Seq(Segments) /\ cur \in DOMAIN Patterns BY DEF Peace, Peaceful
<1>2. KeyedAt[cur] = {j \in 1..Len(cur) : FieldAt(cur, j).map \/ cur[j].key # NoKey}
  BY <1>1, LegalParts
<1>3. NoKey # Wildcard BY SchemaAssumption
<1>4. AllKeys(cur, i) => i \in KeyedAt[cur] /\ KeySort(cur, i) = "all"
  BY <1>2, <1>3 DEF AllKeys, KeySort
<1>5. cur[i].key # NoKey => i \in KeyedAt[cur] /\ KeySort(cur, i) = SortOf(cur[i].key, i = Len(cur))
  BY <1>2 DEF SortOf, KeySort
<1>6. SortOf(cur[i].key, i = Len(cur)) \in KeyedSorts BY DEF SortOf, KeyedSorts
<1> QED BY <1>4, <1>5, <1>6 DEF Addressed

\* The type of the node is the one in which the next segment is looked up.
LEMMA NextField ==
  ASSUME NEW t, NEW F, NEW Pt, NEW P, Peace(P), NEW cur \in P, NEW used, NEW d,
         Spelled(t, F, Pt), Placed(t, F, cur, used, d), used < Len(cur), NEW i, i = used + 1
  PROVE  /\ used \in Nat /\ i \in 1..Len(cur) /\ i - 1 = used
         /\ cur[i].field \in Elements
         /\ FieldAt(cur, i) = FindChildField(t[d].type, cur[i].field)
         /\ t[d].type \in Types /\ cur[i].field \in FieldNames(t[d].type)
<1>1. cur \in Seq(Segments) /\ cur \in DOMAIN Patterns BY DEF Peace, Peaceful
<1>2. used \in 0..Len(cur) /\ Len(cur) \in Nat /\ t[d].type = TypeAfter(cur)[used] BY <1>1 DEF Placed
<1>3. i \in 1..Len(cur) /\ i - 1 = used BY <1>2
<1>4. /\ TypeAfter(cur)[i - 1] \in Types /\ cur[i].field \in FieldNames(TypeAfter(cur)[i - 1])
      /\ FieldAt(cur, i) = FindChildField(TypeAfter(cur)[i - 1], cur[i].field)
  BY <1>1, <1>3, LegalParts
<1>5. cur[i].field \in Elements BY <1>1, <1>3, SegmentParts
<1> QED BY <1>2, <1>3, <1>4, <1>5

\* Which call is made on the node of the field of the segment i.
ChildPlace(t, F, Pt, cur, i, c) ==
  IF cur[i].key = NoKey THEN FieldPlace(t, F, Pt, cur, i, c) ELSE ValuePlace(t, F, Pt, cur, i, c)

\* The call goes on at a child that has the name of the next segment's field.
LEMMA DescendField ==
  ASSUME NEW t, NEW F, NEW Pt, NEW P, Peace(P), NEW cur \in P, NEW used, NEW d,
         Spelled(t, F, Pt), Fitting(t, F, P), FieldPlace(t, F, Pt, cur, used, d),
         used < Len(cur), ~t[d].leaf, NEW i, i = used + 1, HasChild(t, d, cur[i].field)
  PROVE  ChildPlace(t, F, Pt, cur, i, Append(d, cur[i].field))
<1>0. Placed(t, F, cur, used, d) BY DEF FieldPlace
<1> DEFINE n == cur[i].field
           c == Append(d, n)
           f == FieldAt(cur, i)
<1>1. cur \in Seq(Segments) /\ cur \in DOMAIN Patterns BY DEF Peace, Peaceful
<1>2. /\ i \in 1..Len(cur) /\ i - 1 = used /\ n \in Elements
      /\ f = FindChildField(t[d].type, n)
  BY <1>0, NextField
<1>3. /\ d \in DOMAIN t /\ used \in Nat /\ Len(F[d]) = used /\ Along(cur, F[d])
      /\ F[d] \in Seq(Elements) /\ Pt[d] \in Seq(PatternElements) /\ t[d].all \in BOOLEAN
  BY <1>0, PatternTypes DEF Placed
<1>4. c \in DOMAIN t /\ HasChild(t, d, n) BY DEF HasChild
<1>5. ~KeyMap(t, d) /\ (t[d].all <=> used > 0 /\ AllKeys(cur, used)) BY DEF FieldPlace
<1>6. ChildSpelled(t, F, Pt, d, n) /\ ChildFits(t, F, P, d, n)
  BY <1>2, <1>3, <1>4 DEF Spelled, Fitting
<1>7. F[c] = Append(F[d], n) /\ Pt[c] = Append(Below(t, Pt, d), n) BY <1>5, <1>6 DEF ChildSpelled
<1>8. PatternUpTo(cur)[used] = Below(t, Pt, d) BY <1>5 DEF FieldPlace, Below
<1>9. PatternUpTo(cur)[i] = IF Keyed(cur, i) THEN Append(Pt[c], KeyOf(cur, i)) ELSE Pt[c]
  BY <1>1, <1>2, <1>7, <1>8, NextPattern
<1>10. /\ t[c].type = f.type
       /\ t[c].all => f.map
       /\ f.map => t[c].map
       /\ f.kind = "message" /\ ~f.map => ~t[c].map
       /\ ~t[c].leaf => /\ f.kind # "message" => t[c].map
                        /\ t[c].all => Addressed(P, F[c], {"all"})
                        /\ KeyMap(t, c) => Addressed(P, F[c], KeyedSorts)
  BY <1>2, <1>5, <1>6 DEF ChildFits
<1>11. /\ TypeAfter(cur)[i] = f.type /\ f \in FieldRecord
       /\ f.kind = "message" /\ ~f.map => cur[i].key = NoKey
       /\ i < Len(cur) => f.kind = "message"
  BY <1>1, <1>2, LegalParts
<1>12. Len(F[c]) = i /\ Along(cur, F[c]) /\ F[c] \in Seq(Elements)
  <2> HIDE DEF n, c
  <2> QED BY <1>2, <1>3, <1>7 DEF Along, n
<1>13. Placed(t, F, cur, i, c)
  <2>1. i \in 0..Len(cur) BY <1>2
  <2>2. t[c].type = TypeAfter(cur)[i]
    <3>1. t[c].type = f.type BY <1>10
    <3>2. TypeAfter(cur)[i] = f.type BY <1>11
    <3> QED BY <3>1, <3>2
  <2> HIDE DEF c
  <2> QED BY <1>4, <1>12, <2>1, <2>2 DEF Placed
<1>14. ~(Addressed(P, F[c], {"all"}) /\ Addressed(P, F[c], KeyedSorts)) BY <1>12, AllOrOne
<1>15. /\ AllKeys(cur, i) => Addressed(P, F[c], {"all"})
       /\ cur[i].key # NoKey => Addressed(P, F[c], KeyedSorts)
  BY <1>2, <1>12, AddressedHere
<1>16. t[c].all \in BOOLEAN /\ t[c].map \in BOOLEAN /\ t[c].leaf \in BOOLEAN BY <1>4, PatternTypes
<1>17. f.map \in BOOLEAN BY <1>11 DEF FieldRecord
<1>18. CASE cur[i].key = NoKey
  <2>1. PatternUpTo(cur)[i] = IF AllKeys(cur, i) THEN Append(Pt[c], AnyKey) ELSE Pt[c]
    BY <1>9, <1>18 DEF Keyed, KeyOf
  <2>2. Parent(t, cur, i, c) BY <1>2, <1>3, <1>5, <1>18 DEF Parent
  <2>3. ASSUME i < Len(cur), ~t[c].leaf PROVE ~KeyMap(t, c) /\ (t[c].all <=> AllKeys(cur, i))
    <3>1. f.kind = "message" BY <1>11, <2>3
    <3>2. AllKeys(cur, i) <=> f.map BY <1>17, <1>18, <2>3 DEF AllKeys
    <3> DEFINE G == ~KeyMap(t, c) /\ (t[c].all <=> AllKeys(cur, i))
    <3>3. ASSUME f.map PROVE G
      <4>1. t[c].map /\ AllKeys(cur, i) BY <1>10, <3>2, <3>3
      <4>2. Addressed(P, F[c], {"all"}) BY <1>15, <4>1
      <4>3. ~KeyMap(t, c) BY <1>10, <1>14, <2>3, <4>2
      <4>4. t[c].all BY <4>1, <4>3 DEF KeyMap
      <4> QED BY <4>1, <4>3, <4>4
    <3>4. ASSUME ~f.map PROVE G
      <4>1. ~t[c].map /\ ~AllKeys(cur, i) /\ ~t[c].all
        <5>1. ~t[c].map BY <1>10, <3>1, <3>4
        <5>2. ~t[c].all BY <1>10, <3>4
        <5>3. ~AllKeys(cur, i) BY <3>2, <3>4
        <5> QED BY <5>1, <5>2, <5>3
      <4> QED BY <4>1 DEF KeyMap
    <3> QED BY <3>3, <3>4
  <2>4. i > 0 /\ i # 0 BY <1>2
  <2> HIDE DEF c
  <2>5. FieldPlace(t, F, Pt, cur, i, c)
    BY <1>13, <2>1, <2>2, <2>3, <2>4 DEF FieldPlace
  <2> QED BY <1>18, <2>5 DEF c, n, ChildPlace
<1>19. CASE cur[i].key # NoKey
  <2>1. PatternUpTo(cur)[i] = Append(Pt[c], KeyOf(cur, i)) BY <1>9, <1>19 DEF Keyed
  <2>2. ASSUME ~t[c].leaf PROVE KeyMap(t, c)
    <3>1. f.kind = "message" => f.map BY <1>11, <1>17, <1>19
    <3> HIDE DEF f, c
    <3> QED BY <1>10, <1>14, <1>15, <1>16, <1>19, <2>2, <3>1 DEF KeyMap
  <2>3. i > 0 BY <1>2
  <2> HIDE DEF c
  <2>4. ValuePlace(t, F, Pt, cur, i, c) BY <1>13, <1>19, <2>1, <2>2, <2>3 DEF ValuePlace
  <2> QED BY <1>19, <2>4 DEF c, n, ChildPlace
<1> QED BY <1>18, <1>19

\* The call goes on at a child that has the name of the key.
LEMMA DescendKey ==
  ASSUME NEW t, NEW F, NEW Pt, NEW P, Peace(P), NEW cur \in P, NEW used, NEW d,
         Spelled(t, F, Pt), Fitting(t, F, P), ValuePlace(t, F, Pt, cur, used, d),
         ~t[d].leaf, HasChild(t, d, cur[used].key)
  PROVE  FieldPlace(t, F, Pt, cur, used, Append(d, cur[used].key))
<1> DEFINE n == cur[used].key
           c == Append(d, n)
<1>0. Placed(t, F, cur, used, d) /\ n # NoKey /\ used > 0 BY DEF ValuePlace
<1>1. cur \in Seq(Segments) /\ cur \in DOMAIN Patterns BY DEF Peace, Peaceful
<1>2. used \in 1..Len(cur) /\ used \in 0..Len(cur) /\ d \in DOMAIN t BY <1>0, <1>1 DEF Placed
<1>3. n \in Elements BY <1>0, <1>1, <1>2, LegalParts
<1>4. KeyMap(t, d) BY DEF ValuePlace
<1>5. c \in DOMAIN t /\ ChildSpelled(t, F, Pt, d, n) /\ ChildFits(t, F, P, d, n)
  BY <1>2, <1>3 DEF HasChild, Spelled, Fitting
<1>6. F[c] = F[d] /\ Pt[c] = Append(Pt[d], KeyElement(n)) /\ t[c].type = t[d].type
      /\ ~t[c].all /\ ~t[c].map
  BY <1>4, <1>5 DEF ChildSpelled, ChildFits
<1>7. KeyOf(cur, used) = KeyElement(n) /\ ~AllKeys(cur, used) BY <1>0 DEF KeyOf, KeyElement, AllKeys
<1>8. PatternUpTo(cur)[used] = Pt[c] BY <1>6, <1>7 DEF ValuePlace
<1>9. Placed(t, F, cur, used, c) BY <1>0, <1>5, <1>6 DEF Placed
<1>10. Parent(t, cur, used, c) BY <1>0, <1>2, <1>3, <1>4 DEF Parent
<1>11. ~KeyMap(t, c) BY <1>6 DEF KeyMap
<1>12. used # 0 BY <1>2
<1> HIDE DEF c
<1>13. FieldPlace(t, F, Pt, cur, used, c)
  BY <1>6, <1>7, <1>8, <1>9, <1>10, <1>11, <1>12 DEF FieldPlace
<1> QED BY <1>13 DEF c

-------------------------------------------------------------------------------
(* The nodes an insertion adds                                                *)

\* The functions on positions go on to a new one.
Goes(t, F, Pt, u, F2, Pt2) ==
  \A e \in DOMAIN t : e \in DOMAIN u /\ u[e] = t[e] /\ F2[e] = F[e] /\ Pt2[e] = Pt[e]

\* u is t with a new child n of d, spelled and fitting, on the way of a path of P;
\* f and x are its fields and its pattern.
Hangs(t, F, Pt, P, d, n, new, u, f, x, F2, Pt2) ==
  /\ Shape(t, F, Pt, P) /\ d \in DOMAIN t /\ n \in Elements /\ ~HasChild(t, d, n)
  /\ Added(t, u, d, n, new) /\ f \in Seq(Elements) /\ x \in Seq(PatternElements)
  /\ F2 = Add(F, Append(d, n), f) /\ Pt2 = Add(Pt, Append(d, n), x)
  /\ ChildSpelled(u, F2, Pt2, d, n) /\ ChildFits(u, F2, P, d, n)
  /\ \E p \in P : IF new.leaf THEN x = Pattern(p) ELSE Begins(Below(u, Pt2, Append(d, n)), Pattern(p))

\* Such a child keeps the shape.
LEMMA AddShape ==
  ASSUME NEW t, NEW F, NEW Pt, NEW P, NEW d, NEW n, NEW new, NEW u, NEW f, NEW x, NEW F2, NEW Pt2,
         Hangs(t, F, Pt, P, d, n, new, u, f, x, F2, Pt2)
  PROVE  Shape(u, F2, Pt2, P) /\ Goes(t, F, Pt, u, F2, Pt2)
<1>0. /\ Shape(t, F, Pt, P) /\ d \in DOMAIN t /\ n \in Elements /\ ~HasChild(t, d, n)
      /\ Added(t, u, d, n, new) /\ f \in Seq(Elements) /\ x \in Seq(PatternElements)
      /\ F2 = Add(F, Append(d, n), f) /\ Pt2 = Add(Pt, Append(d, n), x)
      /\ ChildSpelled(u, F2, Pt2, d, n) /\ ChildFits(u, F2, P, d, n)
      /\ \E p \in P : IF new.leaf THEN x = Pattern(p) ELSE Begins(Below(u, Pt2, Append(d, n)), Pattern(p))
  BY DEF Hangs
<1> USE <1>0
<1> DEFINE c == Append(d, n)
<1>1. /\ Spelled(t, F, Pt) /\ Fitting(t, F, P) /\ Linked(t, Pt, P) /\ Rooted(t)
  BY DEF Shape, Spelled
<1>2. /\ Rooted(u) /\ DOMAIN u = DOMAIN t \cup {c} /\ u[c] = new
      /\ \A e \in DOMAIN t : u[e] = t[e]
      /\ \A e \in Positions : \A m : HasChild(u, e, m) <=> HasChild(t, e, m) \/ (e = d /\ m = n)
      /\ \A m : ~HasChild(u, c, m)
  BY DEF Added
<1>3. c \notin DOMAIN t /\ d \in Positions BY <1>1, PatternTypes DEF HasChild
<1>4. F \in [DOMAIN t -> Seq(Elements)] /\ Pt \in [DOMAIN t -> Seq(PatternElements)] BY <1>1 DEF Spelled
<1>5. /\ DOMAIN F2 = DOMAIN u /\ F2[c] = f /\ \A e \in DOMAIN t : F2[e] = F[e]
      /\ DOMAIN Pt2 = DOMAIN u /\ Pt2[c] = x /\ \A e \in DOMAIN t : Pt2[e] = Pt[e]
  <2> HIDE DEF c
  <2> QED BY <1>2, <1>3, <1>4 DEF Add, c
<1>6. F2 \in [DOMAIN u -> Seq(Elements)] /\ Pt2 \in [DOMAIN u -> Seq(PatternElements)]
  <2>1. F2 = [e \in DOMAIN u |-> F2[e]] /\ Pt2 = [e \in DOMAIN u |-> Pt2[e]]
    <3> HIDE DEF c
    <3> QED BY <1>2, <1>4 DEF Add, c
  <2> HIDE DEF c
  <2> QED BY <1>2, <1>4, <1>5, <2>1
<1>7. Goes(t, F, Pt, u, F2, Pt2) BY <1>2, <1>5 DEF Goes
\* Another child was one before.
<1>8. ASSUME NEW e \in DOMAIN u, NEW m \in Elements, HasChild(u, e, m), ~(e = d /\ m = n)
      PROVE  /\ e \in DOMAIN t /\ HasChild(t, e, m) /\ u[e] = t[e] /\ u[Append(e, m)] = t[Append(e, m)]
             /\ F2[e] = F[e] /\ F2[Append(e, m)] = F[Append(e, m)]
             /\ Pt2[e] = Pt[e] /\ Pt2[Append(e, m)] = Pt[Append(e, m)]
  <2>1. e # c BY <1>2, <1>8
  <2>2. e \in DOMAIN t BY <1>2, <2>1
  <2>3. e \in Positions BY <1>1, <2>2, PatternTypes
  <2>4. HasChild(t, e, m) BY <1>2, <1>8, <2>3
  <2>5. Append(e, m) \in DOMAIN t BY <2>4 DEF HasChild
  <2> QED BY <1>2, <1>5, <2>2, <2>4, <2>5
<1>9. \A e \in DOMAIN u, m \in Elements : HasChild(u, e, m) => ChildSpelled(u, F2, Pt2, e, m)
  <2> SUFFICES ASSUME NEW e \in DOMAIN u, NEW m \in Elements, HasChild(u, e, m), ~(e = d /\ m = n)
               PROVE  ChildSpelled(u, F2, Pt2, e, m)
    OBVIOUS
  <2>1. ChildSpelled(t, F, Pt, e, m) BY <1>1, <1>8 DEF Spelled
  <2> QED BY <1>8, <2>1 DEF ChildSpelled, KeyMap, Below
<1>10. Fitting(u, F2, P)
  <2> SUFFICES ASSUME NEW e \in DOMAIN u, NEW m \in Elements, HasChild(u, e, m), ~(e = d /\ m = n)
               PROVE  ChildFits(u, F2, P, e, m)
    BY DEF Fitting
  <2> DEFINE g == Append(e, m)
  <2>1. ChildFits(t, F, P, e, m) BY <1>1, <1>8 DEF Fitting
  <2>2. u[e] = t[e] /\ u[g] = t[g] /\ F2[g] = F[g] BY <1>8
  <2>3. KeyMap(u, e) = KeyMap(t, e) /\ KeyMap(u, g) = KeyMap(t, g) BY <2>2 DEF KeyMap
  <2>4. ChildFits(u, F2, P, e, m) = ChildFits(t, F, P, e, m)
    <3> HIDE DEF g
    <3> QED BY <2>2, <2>3 DEF ChildFits, g
  <2> QED BY <2>1, <2>4
<1>11. Linked(u, Pt2, P)
  <2> SUFFICES ASSUME NEW e \in DOMAIN u
               PROVE  IF u[e].leaf THEN \E p \in P : Pt2[e] = Pattern(p)
                      ELSE e = <<>> \/ \E p \in P : Begins(Below(u, Pt2, e), Pattern(p))
    BY DEF Linked
  <2>1. CASE e = c BY <1>2, <1>5, <2>1
  <2>2. ASSUME e \in DOMAIN t PROVE Below(u, Pt2, e) = Below(t, Pt, e)
    BY <1>2, <1>5, <2>2 DEF Below
  <2>3. CASE e \in DOMAIN t BY <1>1, <1>2, <1>5, <2>2, <2>3 DEF Linked
  <2> QED BY <1>2, <2>1, <2>3
<1>12. <<>> \in DOMAIN t /\ F[<<>>] = <<>> /\ Pt[<<>>] = <<>> /\ ~t[<<>>].all /\ ~t[<<>>].map
  BY <1>1 DEF Spelled, Rooted
<1>13. Spelled(u, F2, Pt2)
  <2> HIDE DEF c
  <2> QED BY <1>2, <1>5, <1>6, <1>9, <1>12 DEF Spelled
<1> QED BY <1>7, <1>10, <1>11, <1>13 DEF Shape

\* The place of an insertion does not move when the tree grows.
LEMMA PlaceStays ==
  ASSUME NEW t, NEW F, NEW Pt, NEW u, NEW F2, NEW Pt2, Goes(t, F, Pt, u, F2, Pt2),
         NEW cur, NEW used, NEW d
  PROVE  /\ FieldPlace(t, F, Pt, cur, used, d) => FieldPlace(u, F2, Pt2, cur, used, d)
         /\ ValuePlace(t, F, Pt, cur, used, d) => ValuePlace(u, F2, Pt2, cur, used, d)
<1>1. ASSUME Placed(t, F, cur, used, d)
      PROVE  Placed(u, F2, cur, used, d) /\ u[d] = t[d] /\ Pt2[d] = Pt[d]
  BY <1>1 DEF Placed, Goes
<1>2. Parent(t, cur, used, d) => Parent(u, cur, used, d) BY DEF Parent, Goes, KeyMap
<1> QED BY <1>1, <1>2 DEF FieldPlace, ValuePlace, KeyMap

\* The pattern of the path that is inserted begins with that of the place.
LEMMA PlaceBegins ==
  ASSUME NEW t, NEW F, NEW Pt, Spelled(t, F, Pt), NEW cur \in Seq(Segments), NEW used, NEW d,
         FieldPlace(t, F, Pt, cur, used, d) \/ ValuePlace(t, F, Pt, cur, used, d)
  PROVE  Begins(Pt[d], Pattern(cur))
<1>1. Placed(t, F, cur, used, d) BY DEF FieldPlace, ValuePlace
<1>2. used \in 0..Len(cur) /\ d \in DOMAIN t BY <1>1 DEF Placed
<1> DEFINE a == PatternUpTo(cur)[used]
           b == Pt[d]
           p == Pattern(cur)
<1>3. b \in Seq(PatternElements) BY <1>2, PatternTypes
<1>4. p \in Seq(PatternElements) /\ a \in Seq(PatternElements) /\ Begins(a, p) BY <1>2, PatternPrefix
<1>5. a = b \/ a = Append(b, AnyKey) \/ a = Append(b, KeyOf(cur, used)) BY DEF FieldPlace, ValuePlace
<1> HIDE DEF a, b, p
<1>6. Begins(b, a) BY <1>3, <1>5 DEF Begins
<1>7. Begins(b, p) BY <1>3, <1>4, <1>6 DEF Begins
<1> QED BY <1>7 DEF b, p

\* u is t with a leaf at d.
Marked(t, d, u) == u = [t EXCEPT ![d].leaf = TRUE]

\* The end of a path, marked as a leaf, keeps the shape.
LEMMA MarkShape ==
  ASSUME NEW t, NEW F, NEW Pt, NEW P, Peace(P), Shape(t, F, Pt, P), NEW cur \in P, NEW used, NEW d,
         FieldPlace(t, F, Pt, cur, used, d), used = Len(cur),
         NEW u, Marked(t, d, u)
  PROVE  Shape(u, F, Pt, P) /\ u[d].leaf /\ Pt[d] = Pattern(cur) /\ DOMAIN u = DOMAIN t /\ u[<<>>].type = t[<<>>].type
<1>0. cur \in Seq(Segments) /\ cur \in DOMAIN Patterns BY DEF Peace, Peaceful
<1>1. Placed(t, F, cur, used, d) /\ d \in DOMAIN t /\ Len(F[d]) = used /\ Along(cur, F[d])
  BY DEF FieldPlace, Placed
<1>2. Spelled(t, F, Pt) /\ Fitting(t, F, P) /\ Linked(t, Pt, P) /\ Rooted(t)
  BY DEF Shape, Spelled
<1>3. /\ Rooted(u) /\ DOMAIN u = DOMAIN t /\ u[d].leaf
      /\ \A e \in DOMAIN t : u[e].all = t[e].all /\ u[e].map = t[e].map /\ u[e].type = t[e].type
      /\ \A e \in DOMAIN t : e # d => u[e] = t[e]
  BY <1>1, <1>2, LeafNodes DEF Marked
<1>4. Pt[d] = Pattern(cur)
  <2>1. ~(used > 0 /\ AllKeys(cur, used)) BY <1>0 DEF AllKeys
  <2> QED BY <2>1 DEF FieldPlace, Pattern
<1>5. Spelled(u, F, Pt)
  <2>1. \A e \in DOMAIN u, m \in Elements : HasChild(u, e, m) => ChildSpelled(u, F, Pt, e, m)
    <3> SUFFICES ASSUME NEW e \in DOMAIN u, NEW m \in Elements, HasChild(u, e, m)
                 PROVE  ChildSpelled(u, F, Pt, e, m)
      OBVIOUS
    <3>1. HasChild(t, e, m) BY <1>3 DEF HasChild
    <3>2. ChildSpelled(t, F, Pt, e, m) BY <1>2, <1>3, <3>1 DEF Spelled
    <3> QED BY <1>3, <3>2 DEF ChildSpelled, KeyMap, Below
  <2>2. <<>> \in DOMAIN t BY <1>2 DEF Rooted
  <2> QED BY <1>2, <1>3, <2>1, <2>2 DEF Spelled
<1>6. Fitting(u, F, P)
  <2> SUFFICES ASSUME NEW e \in DOMAIN u, NEW m \in Elements, HasChild(u, e, m)
               PROVE  ChildFits(u, F, P, e, m)
    BY DEF Fitting
  <2> DEFINE c == Append(e, m)
  <2>1. HasChild(t, e, m) /\ c \in DOMAIN t /\ e \in DOMAIN t BY <1>3 DEF HasChild
  <2>2. ChildFits(t, F, P, e, m) BY <1>2, <2>1 DEF Fitting
  <2>3. /\ u[e].all = t[e].all /\ u[e].map = t[e].map /\ u[e].type = t[e].type
        /\ u[c].all = t[c].all /\ u[c].map = t[c].map /\ u[c].type = t[c].type
    BY <1>3, <2>1
  <2>4. CASE c # d
    <3>1. u[c].leaf = t[c].leaf BY <1>3, <2>1, <2>4
    <3> QED BY <2>2, <2>3, <3>1 DEF ChildFits, KeyMap
  <2>5. CASE c = d /\ ~KeyMap(t, e)
    <3>1. u[c].leaf BY <1>3, <2>5
    <3> QED BY <2>2, <2>3, <2>5, <3>1 DEF ChildFits, KeyMap
  <2>6. CASE c = d /\ KeyMap(t, e)
    <3>1. d # <<>> BY <2>1, <2>6, <1>2, PatternTypes DEF Positions
    <3>2. used > 0 /\ used \in 1..Len(cur) /\ Parent(t, cur, used, d)
      BY <1>1, <3>1 DEF FieldPlace, Placed
    <3>3. PICK g \in DOMAIN t, k \in Elements : d = Append(g, k) /\
            IF cur[used].key = NoKey THEN ~KeyMap(t, g) ELSE KeyMap(t, g) /\ k = cur[used].key
      BY <3>2 DEF Parent
    <3>4. g = e /\ k = m
      <4>1. g \in Positions /\ e \in Positions BY <1>2, <2>1, PatternTypes
      <4>2. Append(g, k) = Append(e, m) BY <2>6, <3>3
      <4> QED BY <4>1, <4>2, SameChild
    <3>5. cur[used].key # NoKey /\ cur[used].key = m BY <2>6, <3>3, <3>4
    <3>6. Addressed(P, F[d], {SortOf(m, TRUE)})
      <4>1. Addressed(P, F[d], {SortOf(cur[used].key, used = Len(cur))})
        BY <1>1, <3>2, <3>5, AddressedHere
      <4>2. SortOf(cur[used].key, used = Len(cur)) = SortOf(m, TRUE) BY <3>5 DEF SortOf
      <4> QED BY <4>1, <4>2
    <3>7. SortOf(m, u[c].leaf) = SortOf(m, TRUE) BY <1>3, <2>6 DEF SortOf
    <3> QED BY <2>2, <2>3, <2>6, <3>6, <3>7 DEF ChildFits, KeyMap
  <2> QED BY <2>4, <2>5, <2>6
<1>7. Linked(u, Pt, P)
  <2> SUFFICES ASSUME NEW e \in DOMAIN u
               PROVE  IF u[e].leaf THEN \E p \in P : Pt[e] = Pattern(p)
                      ELSE e = <<>> \/ \E p \in P : Begins(Below(u, Pt, e), Pattern(p))
    BY DEF Linked
  <2>1. CASE e = d BY <1>3, <1>4, <2>1
  <2>2. CASE e # d
    <3>1. e \in DOMAIN t /\ u[e] = t[e] /\ Below(u, Pt, e) = Below(t, Pt, e) BY <1>3, <2>2 DEF Below
    <3> QED BY <1>2, <3>1 DEF Linked
  <2> QED BY <2>1, <2>2
<1>8. <<>> \in DOMAIN t BY <1>2 DEF Rooted
<1> QED BY <1>3, <1>4, <1>5, <1>6, <1>7, <1>8 DEF Shape

\* A map field without a key, for which InsertField() adds a node of all keys.
TakesAll(path, i) == FieldAt(path, i).map /\ path[i].key = NoKey

\* The child that InsertField() adds keeps the shape, and the insertion is at it.
LEMMA AddField ==
  ASSUME NEW t, NEW F, NEW Pt, NEW P, Peace(P), Shape(t, F, Pt, P), NEW cur \in P, NEW used, NEW d,
         FieldPlace(t, F, Pt, cur, used, d), used < Len(cur), ~t[d].leaf, NEW i, i = used + 1,
         ~HasChild(t, d, cur[i].field), NEW rest, rest = <<>> <=> i = Len(cur), NEW all,
         all = TakesAll(cur, i), NEW u,
         u = Add(t, Append(d, cur[i].field), NewChild(FieldAt(cur, i).type, cur[i].key, all, rest))
  PROVE  \E F2, Pt2 :
           /\ Shape(u, F2, Pt2, P) /\ Goes(t, F, Pt, u, F2, Pt2)
           /\ ChildPlace(u, F2, Pt2, cur, i, Append(d, cur[i].field))
<1> DEFINE n == cur[i].field
           c == Append(d, n)
           f == FieldAt(cur, i)
           k == cur[i].key
           new == NewChild(f.type, k, all, rest)
<1>0. cur \in Seq(Segments) /\ cur \in DOMAIN Patterns BY DEF Peace, Peaceful
<1>1. Placed(t, F, cur, used, d) /\ d \in DOMAIN t /\ Len(F[d]) = used /\ Along(cur, F[d])
  BY DEF FieldPlace, Placed
<1>2. Spelled(t, F, Pt) /\ Fitting(t, F, P) /\ Linked(t, Pt, P) /\ Rooted(t)
  BY DEF Shape, Spelled
<1>3. /\ used \in Nat /\ i \in 1..Len(cur) /\ i - 1 = used /\ n \in Elements
      /\ f = FindChildField(t[d].type, n)
      /\ t[d].type \in Types /\ n \in FieldNames(t[d].type)
  BY <1>1, <1>2, NextField
<1>4. /\ f \in FieldRecord
      /\ f.kind = "message" /\ ~f.map => k = NoKey
      /\ i < Len(cur) => f.kind = "message"
  BY <1>0, <1>3, LegalParts
<1>5. f.map \in BOOLEAN /\ f.type \in Types \cup {NoType} /\ all \in BOOLEAN
  BY <1>4 DEF FieldRecord, TakesAll
<1>6. IsNode(new) /\ new.type = f.type /\ new.all = all /\ new.map = (k # NoKey \/ all)
      /\ new.leaf = (k = NoKey /\ i = Len(cur))
  <2>1. new = Node(f.type, k = NoKey /\ rest = <<>>, k # NoKey \/ all, all) BY DEF NewChild
  <2>2. (rest = <<>>) = (i = Len(cur)) OBVIOUS
  <2> HIDE DEF new, f, k
  <2> QED BY <1>5, <2>1, <2>2 DEF Node, IsNode
<1>24. /\ new.leaf <=> k = NoKey /\ i = Len(cur)
       /\ new.map <=> k # NoKey \/ all
       /\ new.all <=> all
       /\ i = Len(cur) \/ i < Len(cur)
       /\ all <=> f.map /\ k = NoKey
  <2>1. Len(cur) \in Nat BY <1>0
  <2>2. i = Len(cur) \/ i < Len(cur) BY <1>3, <2>1
  <2>3. all = (f.map /\ k = NoKey) BY DEF TakesAll
  <2> HIDE DEF new, f, k
  <2>4. all <=> f.map /\ k = NoKey BY <2>3
  <2>5. new.leaf <=> k = NoKey /\ i = Len(cur) BY <1>6
  <2>6. new.map <=> k # NoKey \/ all BY <1>6
  <2>7. new.all <=> all BY <1>6
  <2> QED BY <2>2, <2>4, <2>5, <2>6, <2>7
<1>7. Added(t, u, d, n, new) BY <1>1, <1>2, <1>3, <1>6, AddNodes
<1>8. /\ d \in Positions /\ F[d] \in Seq(Elements) /\ Pt[d] \in Seq(PatternElements) /\ t[d].all \in BOOLEAN
  BY <1>1, <1>2, PatternTypes
<1>9. ~KeyMap(t, d) /\ PatternUpTo(cur)[used] = Below(t, Pt, d) BY DEF FieldPlace, Below
<1> DEFINE g == Append(F[d], n)
           x == Append(Below(t, Pt, d), n)
           F2 == Add(F, c, g)
           Pt2 == Add(Pt, c, x)
<1>10. g \in Seq(Elements) /\ x \in Seq(PatternElements)
  <2>1. Below(t, Pt, d) \in Seq(PatternElements) BY <1>8 DEF Below, PatternElements
  <2>2. n \in PatternElements BY <1>3 DEF PatternElements
  <2> HIDE DEF n
  <2> QED BY <1>3, <1>8, <2>1, <2>2
<1>11. /\ c \notin DOMAIN t /\ u[c] = new /\ u[d] = t[d]
       /\ F2[c] = g /\ F2[d] = F[d] /\ Pt2[c] = x /\ Pt2[d] = Pt[d]
  <2>1. c \notin DOMAIN t /\ u[c] = new /\ u[d] = t[d] BY <1>1, <1>7 DEF Added, HasChild
  <2>2. DOMAIN F = DOMAIN t /\ DOMAIN Pt = DOMAIN t BY <1>2 DEF Spelled
  <2> HIDE DEF c, g, x, new
  <2> QED BY <1>1, <2>1, <2>2 DEF Add
<1>12. HasChild(u, d, n) BY <1>7 DEF Added, HasChild
<1>13. n # Wildcard BY <1>3, KnownChild
<1>14. KeyMap(u, d) = KeyMap(t, d) /\ Below(u, Pt2, d) = Below(t, Pt, d)
  <2> HIDE DEF F2, Pt2, c
  <2> QED BY <1>11 DEF KeyMap, Below
<1>15. ChildSpelled(u, F2, Pt2, d, n)
  <2> HIDE DEF F2, Pt2
  <2> QED BY <1>9, <1>11, <1>13, <1>14 DEF ChildSpelled
<1>16. Len(g) = i /\ Along(cur, g)
  <2> HIDE DEF n
  <2> QED BY <1>1, <1>3, <1>8 DEF Along, n
<1>17. /\ AllKeys(cur, i) => Addressed(P, g, {"all"})
       /\ k # NoKey => Addressed(P, g, KeyedSorts)
  <2> HIDE DEF g
  <2> QED BY <1>3, <1>16, AddressedHere
<1>18. ChildFits(u, F2, P, d, n)
  <2>10. (new.all => f.map) /\ (f.map => new.map) /\ (f.kind = "message" /\ ~f.map => ~new.map)
    <3> HIDE DEF new, f, k
    <3> QED BY <1>4, <1>24
  <2>1. new.all => f.map BY <2>10
  <2>2. f.map => new.map BY <2>10
  <2>3. f.kind = "message" /\ ~f.map => ~new.map BY <2>10
  <2>4. ASSUME ~new.leaf PROVE /\ f.kind # "message" => new.map
                               /\ new.all => Addressed(P, g, {"all"})
                               /\ new.map /\ ~new.all => Addressed(P, g, KeyedSorts)
    <3> HIDE DEF new
    <3>1. k # NoKey \/ i < Len(cur) BY <1>24, <2>4
    <3>2. f.kind # "message" => new.map BY <1>4, <1>24, <3>1
    <3>3. new.all => AllKeys(cur, i) BY <1>24, <3>1 DEF AllKeys
    <3>4. new.map /\ ~new.all => k # NoKey BY <1>24
    <3> QED BY <1>17, <3>2, <3>3, <3>4
  <2>5. ~KeyMap(u, d) /\ u[d].type = t[d].type BY <1>9, <1>11, <1>14
  <2>6. t[d].type # NoType BY <1>3, SchemaAssumption
  <2>7. KeyMap(u, c) <=> new.map /\ ~new.all BY <1>11 DEF KeyMap
  <2>8. f = FindChildField(u[d].type, n) BY <1>3, <2>5
  <2>9. /\ u[d].type # NoType /\ n \in FieldNames(u[d].type)
        /\ u[c].type = f.type
        /\ u[c].all => f.map
        /\ f.map => u[c].map
        /\ f.kind = "message" /\ ~f.map => ~u[c].map
        /\ ~u[c].leaf => /\ f.kind # "message" => u[c].map
                         /\ u[c].all => Addressed(P, F2[c], {"all"})
                         /\ KeyMap(u, c) => Addressed(P, F2[c], KeyedSorts)
    <3> HIDE DEF F2, Pt2, new, g, f, n, c
    <3> QED BY <1>3, <1>6, <1>11, <2>1, <2>2, <2>3, <2>4, <2>5, <2>6, <2>7
  <2> HIDE DEF F2
  <2> QED BY <2>5, <2>8, <2>9 DEF ChildFits
<1>19. PatternUpTo(cur)[i] = IF Keyed(cur, i) THEN Append(x, KeyOf(cur, i)) ELSE x
  BY <1>0, <1>3, <1>9, NextPattern
<1>20. Begins(PatternUpTo(cur)[i], Pattern(cur)) /\ Pattern(cur) \in Seq(PatternElements)
       /\ PatternUpTo(cur)[i] \in Seq(PatternElements)
  <2>1. i \in 0..Len(cur) BY <1>3
  <2> QED BY <1>0, <2>1, PatternPrefix
<1>21. IF new.leaf THEN x = Pattern(cur) ELSE Begins(Below(u, Pt2, c), Pattern(cur))
  <2>1. CASE new.leaf
    <3>1. ~Keyed(cur, i) /\ i = Len(cur)
      <4>1. k = NoKey /\ i = Len(cur)
        <5> HIDE DEF new
        <5> QED BY <1>24, <2>1
      <4>2. ~(i < Len(cur)) BY <1>0, <4>1
      <4> QED BY <4>1, <4>2 DEF Keyed, AllKeys
    <3> HIDE DEF x, new
    <3> QED BY <1>19, <2>1, <3>1 DEF Pattern
  <2>2. CASE ~new.leaf /\ all
    <3>1. AllKeys(cur, i)
      <4> HIDE DEF new
      <4> QED BY <1>24, <2>2 DEF AllKeys
    <3>2. KeyOf(cur, i) = AnyKey /\ Keyed(cur, i) BY <3>1 DEF KeyOf, Keyed, AllKeys
    <3>3. Below(u, Pt2, c) = Append(x, AnyKey)
      <4> HIDE DEF x, new, Pt2, c
      <4> QED BY <1>6, <1>11, <2>2 DEF Below
    <3>4. Below(u, Pt2, c) = PatternUpTo(cur)[i] BY <1>19, <3>2, <3>3
    <3> QED BY <1>20, <2>2, <3>4
  <2>3. CASE ~new.leaf /\ ~all
    <3>1. Below(u, Pt2, c) = x
      <4> HIDE DEF x, new, Pt2, c
      <4> QED BY <1>6, <1>11, <2>3 DEF Below
    <3> DEFINE a == PatternUpTo(cur)[i]
               p == Pattern(cur)
    <3>2. a = x \/ a = Append(x, KeyOf(cur, i)) BY <1>19
    <3>3. Begins(x, a)
      <4> HIDE DEF x, a
      <4> QED BY <1>10, <3>2 DEF Begins
    <3>4. Begins(x, p)
      <4>1. Begins(a, p) /\ a \in Seq(PatternElements) /\ p \in Seq(PatternElements) BY <1>20
      <4> HIDE DEF x, a, p
      <4> QED BY <1>10, <3>3, <4>1 DEF Begins
    <3> QED BY <2>3, <3>1, <3>4
  <2> QED BY <2>1, <2>2, <2>3
<1>22. Shape(u, F2, Pt2, P) /\ Goes(t, F, Pt, u, F2, Pt2)
  <2>1. \E p \in P : IF new.leaf THEN x = Pattern(p) ELSE Begins(Below(u, Pt2, c), Pattern(p)) BY <1>21
  <2>2. F2 = Add(F, c, g) /\ Pt2 = Add(Pt, c, x) OBVIOUS
  <2> HIDE DEF F2, Pt2, new, g, x, n
  <2>3. Hangs(t, F, Pt, P, d, n, new, u, g, x, F2, Pt2)
    BY <1>1, <1>3, <1>7, <1>10, <1>15, <1>18, <2>1, <2>2 DEF Hangs, n
  <2> QED BY ONLY <2>3, AddShape
<1>23. ChildPlace(u, F2, Pt2, cur, i, c)
  <2> HIDE DEF F2, Pt2
  <2>1. FieldPlace(u, F2, Pt2, cur, used, d) BY <1>22, PlaceStays
  <2>2. Spelled(u, F2, Pt2) /\ Fitting(u, F2, P) /\ ~u[d].leaf BY <1>11, <1>22 DEF Shape
  <2>3. HasChild(u, d, cur[i].field) BY <1>12
  <2> QED BY <2>1, <2>2, <2>3, DescendField
<1> HIDE DEF F2, Pt2
<1> QED BY <1>22, <1>23

\* The child that InsertValueField() adds keeps the shape, and the insertion is at it.
LEMMA AddKey ==
  ASSUME NEW t, NEW F, NEW Pt, NEW P, Peace(P), Shape(t, F, Pt, P), NEW cur \in P, NEW used, NEW d,
         ValuePlace(t, F, Pt, cur, used, d), ~t[d].leaf, ~HasChild(t, d, cur[used].key),
         NEW rest, rest = <<>> <=> used = Len(cur), NEW u,
         u = Add(t, Append(d, cur[used].key), NewChild(t[d].type, NoKey, FALSE, rest))
  PROVE  \E F2, Pt2 :
           /\ Shape(u, F2, Pt2, P) /\ Goes(t, F, Pt, u, F2, Pt2)
           /\ FieldPlace(u, F2, Pt2, cur, used, Append(d, cur[used].key))
<1> DEFINE n == cur[used].key
           c == Append(d, n)
           new == NewChild(t[d].type, NoKey, FALSE, rest)
<1>0. cur \in Seq(Segments) /\ cur \in DOMAIN Patterns BY DEF Peace, Peaceful
<1>1. /\ Placed(t, F, cur, used, d) /\ d \in DOMAIN t /\ Len(F[d]) = used /\ Along(cur, F[d])
      /\ used \in 1..Len(cur) /\ n # NoKey
  BY <1>0 DEF ValuePlace, Placed
<1>2. Spelled(t, F, Pt) /\ Fitting(t, F, P) /\ Linked(t, Pt, P) /\ Rooted(t)
  BY DEF Shape, Spelled
<1>3. n \in Elements BY <1>0, <1>1, LegalParts
<1>4. KeyMap(t, d) BY DEF ValuePlace
<1>5. IsNode(t[d]) /\ d \in Positions /\ F[d] \in Seq(Elements) /\ Pt[d] \in Seq(PatternElements)
  BY <1>1, <1>2, PatternTypes
<1>6. IsNode(new) /\ new.type = t[d].type /\ new.all = FALSE /\ new.map = FALSE
      /\ new.leaf = (used = Len(cur))
  <2>1. new = Node(t[d].type, NoKey = NoKey /\ rest = <<>>, NoKey # NoKey \/ FALSE, FALSE) BY DEF NewChild
  <2>2. (rest = <<>>) = (used = Len(cur)) OBVIOUS
  <2> HIDE DEF new
  <2> QED BY <1>5, <2>1, <2>2 DEF Node, IsNode
<1>7. Added(t, u, d, n, new) BY <1>1, <1>2, <1>3, <1>6, AddNodes
<1> DEFINE g == F[d]
           x == Append(Pt[d], KeyElement(n))
           F2 == Add(F, c, g)
           Pt2 == Add(Pt, c, x)
<1>8. x \in Seq(PatternElements)
  <2>1. KeyElement(n) \in PatternElements BY <1>3 DEF KeyElement, PatternElements
  <2> HIDE DEF n
  <2> QED BY <1>5, <2>1
<1>11. /\ c \notin DOMAIN t /\ u[c] = new /\ u[d] = t[d]
       /\ F2[c] = g /\ F2[d] = F[d] /\ Pt2[c] = x /\ Pt2[d] = Pt[d]
  <2>1. c \notin DOMAIN t /\ u[c] = new /\ u[d] = t[d] BY <1>1, <1>7 DEF Added, HasChild
  <2>2. DOMAIN F = DOMAIN t /\ DOMAIN Pt = DOMAIN t BY <1>2 DEF Spelled
  <2> HIDE DEF c, g, x, new
  <2> QED BY <1>1, <2>1, <2>2 DEF Add
<1>12. HasChild(u, d, n) BY <1>7 DEF Added, HasChild
<1>14. KeyMap(u, d) BY <1>4, <1>11 DEF KeyMap
<1>15. ChildSpelled(u, F2, Pt2, d, n)
  <2> HIDE DEF F2, Pt2
  <2> QED BY <1>11, <1>14 DEF ChildSpelled
<1>16. Addressed(P, g, {SortOf(n, used = Len(cur))})
  <2> HIDE DEF g
  <2>1. Along(cur, g) /\ Len(g) = used BY <1>1 DEF g
  <2> QED BY <1>1, <2>1, AddressedHere
<1>18. ChildFits(u, F2, P, d, n)
  <2>1. SortOf(n, used = Len(cur)) = SortOf(n, new.leaf) BY <1>6
  <2> HIDE DEF F2, Pt2, new, g
  <2> QED BY <1>6, <1>11, <1>14, <1>16, <2>1 DEF ChildFits
<1>19. PatternUpTo(cur)[used] = x
  BY <1>1 DEF ValuePlace, KeyOf, KeyElement
<1>20. Begins(PatternUpTo(cur)[used], Pattern(cur))
  <2>1. used \in 0..Len(cur) BY <1>1
  <2> QED BY <1>0, <2>1, PatternPrefix
<1>21. IF new.leaf THEN x = Pattern(cur) ELSE Begins(Below(u, Pt2, c), Pattern(cur))
  <2>1. CASE new.leaf
    <3> HIDE DEF x, new
    <3> QED BY <1>6, <1>19, <2>1 DEF Pattern
  <2>2. CASE ~new.leaf
    <3>1. Below(u, Pt2, c) = x
      <4> HIDE DEF x, new, Pt2, c
      <4> QED BY <1>6, <1>11, <2>2 DEF Below
    <3> QED BY <1>19, <1>20, <2>2, <3>1
  <2> QED BY <2>1, <2>2
<1>22. Shape(u, F2, Pt2, P) /\ Goes(t, F, Pt, u, F2, Pt2)
  <2>1. \E p \in P : IF new.leaf THEN x = Pattern(p) ELSE Begins(Below(u, Pt2, c), Pattern(p)) BY <1>21
  <2>2. F2 = Add(F, c, g) /\ Pt2 = Add(Pt, c, x) OBVIOUS
  <2>3. g \in Seq(Elements) BY <1>5
  <2> HIDE DEF F2, Pt2, new, g, x, n
  <2>4. Hangs(t, F, Pt, P, d, n, new, u, g, x, F2, Pt2)
    BY <1>1, <1>3, <1>7, <1>8, <1>15, <1>18, <2>1, <2>2, <2>3 DEF Hangs, n
  <2> QED BY ONLY <2>4, AddShape
<1>23. FieldPlace(u, F2, Pt2, cur, used, c)
  <2> HIDE DEF F2, Pt2
  <2>1. ValuePlace(u, F2, Pt2, cur, used, d) BY <1>22, PlaceStays
  <2>2. Spelled(u, F2, Pt2) /\ Fitting(u, F2, P) /\ ~u[d].leaf BY <1>11, <1>22 DEF Shape
  <2>3. HasChild(u, d, cur[used].key) BY <1>12
  <2> QED BY <2>1, <2>2, <2>3, DescendKey
<1> HIDE DEF F2, Pt2
<1> QED BY <1>22, <1>23

-------------------------------------------------------------------------------
(* The tree that is compiled from a list                                       *)

\* The paths P are in the tree, each path of R has its leaf there.
Grown(t, F, Pt, P, R) ==
  Shape(t, F, Pt, P) /\ t[<<>>].type = RootType /\ Reaching(t, Pt, R)

\* The rest of the path cur, when i segments are used up.
IsRest(rest, cur, i) ==
  i \in 0..Len(cur) /\ Len(rest) = Len(cur) - i /\ \A j \in 1..Len(rest) : rest[j] = cur[i + j]

\* The pending call that inserts the path cur.
Pending(call, t, F, Pt, cur, rest, d, k) ==
  \E used : /\ IsRest(rest, cur, used)
            /\ call = "field" => FieldPlace(t, F, Pt, cur, used, d)
            /\ call = "value" => ValuePlace(t, F, Pt, cur, used, d) /\ k = cur[used].key

\* The rest is empty when all segments are used up.
LEMMA RestEnd ==
  ASSUME NEW S, NEW cur \in Seq(S), NEW rest \in Seq(S), NEW used, IsRest(rest, cur, used)
  PROVE  /\ rest = <<>> <=> used = Len(cur)
         /\ used \in Nat /\ Len(cur) \in Nat
         /\ rest # <<>> => used < Len(cur)
<1>1. used \in Nat /\ Len(cur) \in Nat /\ Len(rest) = Len(cur) - used /\ used <= Len(cur) BY DEF IsRest
<1>2. rest = <<>> <=> Len(rest) = 0 OBVIOUS
<1> QED BY <1>1, <1>2

\* The next segment of the path is the first of the rest.
LEMMA RestStep ==
  ASSUME NEW S, NEW cur \in Seq(S), NEW rest \in Seq(S), NEW used, IsRest(rest, cur, used),
         rest # <<>>, NEW i, i = used + 1
  PROVE  /\ Head(rest) = cur[i] /\ IsRest(Tail(rest), cur, i)
         /\ Tail(rest) = <<>> <=> i = Len(cur)
<1>1. /\ used \in Nat /\ Len(cur) \in Nat /\ Len(rest) = Len(cur) - used /\ used <= Len(cur)
      /\ \A j \in 1..Len(rest) : rest[j] = cur[used + j]
  BY DEF IsRest
<1>2. Len(rest) \in Nat /\ Len(rest) > 0 /\ i \in 0..Len(cur) BY <1>1
<1>3. Head(rest) = rest[1] /\ rest[1] = cur[used + 1] BY <1>1, <1>2
<1>4. /\ Tail(rest) \in Seq(S) /\ Len(Tail(rest)) = Len(rest) - 1
      /\ \A j \in 1..Len(Tail(rest)) : Tail(rest)[j] = rest[j + 1]
  OBVIOUS
<1>5. ASSUME NEW j \in 1..Len(Tail(rest)) PROVE Tail(rest)[j] = cur[i + j]
  <2>1. j + 1 \in 1..Len(rest) /\ used + (j + 1) = i + j BY <1>1, <1>2, <1>4
  <2>2. Tail(rest)[j] = rest[j + 1] BY <1>4
  <2> QED BY <1>1, <2>1, <2>2
<1>6. Tail(rest) = <<>> <=> Len(Tail(rest)) = 0 BY <1>4
<1> QED BY <1>1, <1>2, <1>3, <1>4, <1>5, <1>6 DEF IsRest

\* Leaves stay where they are when the tree grows.
LEMMA GrownOn ==
  ASSUME NEW t, NEW F, NEW Pt, NEW P, NEW R, Grown(t, F, Pt, P, R),
         NEW u, NEW F2, NEW Pt2, Shape(u, F2, Pt2, P), Goes(t, F, Pt, u, F2, Pt2)
  PROVE  Grown(u, F2, Pt2, P, R)
<1>1. <<>> \in DOMAIN t /\ Reaching(t, Pt, R) BY DEF Grown, Shape, Spelled, Rooted
<1>2. u[<<>>].type = RootType BY <1>1 DEF Goes, Grown
<1>3. Reaching(u, Pt2, R)
  <2> SUFFICES ASSUME NEW p \in R PROVE \E d \in DOMAIN u : u[d].leaf /\ Begins(Pt2[d], Pattern(p))
    BY DEF Reaching
  <2>1. PICK d \in DOMAIN t : t[d].leaf /\ Begins(Pt[d], Pattern(p)) BY <1>1 DEF Reaching
  <2> QED BY <2>1 DEF Goes
<1> QED BY <1>2, <1>3 DEF Grown

\* A path with a leaf on its way is inserted.
LEMMA GrownBy ==
  ASSUME NEW t, NEW F, NEW Pt, NEW P, NEW R, Grown(t, F, Pt, P, R), NEW cur,
         NEW d \in DOMAIN t, t[d].leaf, Begins(Pt[d], Pattern(cur))
  PROVE  Grown(t, F, Pt, P, R \cup {cur})
  BY DEF Grown, Reaching

\* More paths fit as well.
LEMMA MorePaths ==
  ASSUME NEW t, NEW F, NEW Pt, NEW P, NEW P2, P \subseteq P2
  PROVE  /\ \A f, sorts : Addressed(P, f, sorts) => Addressed(P2, f, sorts)
         /\ Fitting(t, F, P) => Fitting(t, F, P2)
         /\ Shape(t, F, Pt, P) => Shape(t, F, Pt, P2)
<1>1. \A f, sorts : Addressed(P, f, sorts) => Addressed(P2, f, sorts) BY DEF Addressed
<1>2. ASSUME Fitting(t, F, P) PROVE Fitting(t, F, P2)
  <2>1. ASSUME NEW d \in DOMAIN t, NEW n \in Elements, HasChild(t, d, n) PROVE ChildFits(t, F, P2, d, n)
    <3>1. ChildFits(t, F, P, d, n) BY <1>2, <2>1 DEF Fitting
    <3> QED BY <1>1, <3>1 DEF ChildFits
  <2> QED BY <2>1 DEF Fitting
<1>3. Linked(t, Pt, P) => Linked(t, Pt, P2) BY DEF Linked
<1> QED BY <1>1, <1>2, <1>3 DEF Shape

-------------------------------------------------------------------------------
(* Compiling a list                                                           *)

\* The list is one of those that are compiled exactly.
Proper == LegalList(paths) /\ CompatibleLists(paths, paths, InOneList)

\* The first n paths of the list that is compiled.
Listed(n) == {paths[i] : i \in 1..n}

\* A path is being inserted.
Inserts == pc \in {"field", "value"}

\* The path that is inserted, and the pending call for it.
Underway(P, R, cur) ==
  \E F, Pt : Grown(node, F, Pt, P, R) /\ Pending(pc, node, F, Pt, cur, segs, at, key)

\* The tree in progress has a leaf for every path of P.
Complete(P) == \E F, Pt : Grown(node, F, Pt, P, P)

\* What the tree of the current list is, as far as it goes.
ListInv ==
  Busy /\ Proper =>
    /\ paths = <<>> => ~Inserts /\ node = [p \in {<<>>} |-> Node(RootType, TRUE, FALSE, FALSE)]
    /\ paths # <<>> /\ ~Inserts => Complete(Listed(inserted))
    /\ Inserts => inserted > 0 /\ Underway(Listed(inserted), Listed(inserted - 1), paths[inserted])
    /\ pc = "intersect" => inserted = Len(paths)

\* The paths listed so far: they are at peace, and one more is listed at each turn.
LEMMA ListedPaths ==
  ASSUME IInv, Proper, NEW n \in 0..Len(paths)
  PROVE  /\ Peace(Listed(n))
         /\ n > 0 => Listed(n) = Listed(n - 1) \cup {paths[n]}
         /\ n = 0 => Listed(n) = {}
         /\ Listed(Len(paths)) = PathsOf(paths)
<1>1. paths \in Seq(Seq(Segments)) BY DEF IInv, TypeOK, PathsArgument
<1>2. /\ Listed(n) \subseteq Seq(Segments) /\ Listed(n) \subseteq DOMAIN Patterns
      /\ \A p, q \in Listed(n) : Compatible(p, q, InOneList)
  <2>1. Listed(n) \subseteq PathsOf(paths) BY <1>1 DEF Listed, PathsOf
  <2>2. PathsOf(paths) \subseteq Seq(Segments) BY <1>1 DEF PathsOf
  <2> QED BY <2>1, <2>2 DEF Proper, LegalList, CompatibleLists
<1>3. ASSUME n > 0 PROVE Listed(n) = Listed(n - 1) \cup {paths[n]}
  <2>1. n \in Nat /\ 1..n = (1..(n - 1)) \cup {n} BY <1>3
  <2> QED BY <2>1 DEF Listed
<1> QED BY <1>2, <1>3 DEF Peace, Peaceful, Listed, PathsOf

\* The path that is inserted, and its set of paths.
LEMMA Inserting ==
  ASSUME IInv, ListInv, Proper, Inserts
  PROVE  LET P == Listed(inserted)
             R == Listed(inserted - 1)
             cur == paths[inserted]
         IN  /\ Peace(P) /\ cur \in P /\ P = R \cup {cur} /\ cur \in Seq(Segments)
             /\ Underway(P, R, cur) /\ paths # <<>> /\ inserted > 0
<1>1. Busy BY DEF Inserts, Busy
<1>2. inserted \in 0..Len(paths) /\ inserted > 0 /\ paths \in Seq(Seq(Segments))
  BY <1>1 DEF ListInv, IInv, TypeOK, PathsArgument
<1>3. Underway(Listed(inserted), Listed(inserted - 1), paths[inserted]) BY <1>1 DEF ListInv
<1>4. paths # <<>> BY <1>2
<1>5. Peace(Listed(inserted)) /\ Listed(inserted) = Listed(inserted - 1) \cup {paths[inserted]}
  BY <1>2, ListedPaths
<1>6. paths[inserted] \in Seq(Segments) BY <1>2
<1> QED BY <1>2, <1>3, <1>4, <1>5, <1>6

\* A call that goes on, or the end of a path, keeps the invariant.
LEMMA PathGoesOn ==
  ASSUME IInv, ListInv, Proper, Inserts, paths' = paths, inserted' = inserted, Inserts',
         Underway(Listed(inserted), Listed(inserted - 1), paths[inserted])'
  PROVE  ListInv'
<1>1. inserted > 0 /\ paths # <<>> BY Inserting
<1>2. pc' # "intersect" BY DEF Inserts
<1> QED BY <1>1, <1>2 DEF ListInv

\* The insertion of a path ends with its leaf in the tree.
LEMMA PathEnds ==
  ASSUME IInv, ListInv, Proper, Inserts, EndPath,
         \E F, Pt : Grown(node', F, Pt, Listed(inserted), Listed(inserted - 1) \cup {paths[inserted]})
  PROVE  ListInv'
<1>1. paths # <<>> /\ Listed(inserted) = Listed(inserted - 1) \cup {paths[inserted]} BY Inserting
<1>2. pc' = "next" /\ paths' = paths /\ inserted' = inserted BY DEF EndPath
<1>3. Complete(Listed(inserted))' BY <1>1, <1>2 DEF Complete, Listed
<1> QED BY <1>1, <1>2, <1>3 DEF ListInv, Inserts

\* A call starts with a tree that holds no path.
LEMMA StartList ==
  ASSUME IInv, NEW list \in PathLists, AddOrIntersectFieldPaths(list)
  PROVE  ListInv'
<1>1. /\ paths' = list /\ pc' = "next" /\ inserted' = 0
      /\ node' = [p \in {<<>>} |-> Node(RootType, list = <<>>, FALSE, FALSE)]
  BY DEF AddOrIntersectFieldPaths, IInv, Idle
<1>2. CASE list = <<>>
  <2>1. node' = [p \in {<<>>} |-> Node(RootType, TRUE, FALSE, FALSE)] BY <1>1, <1>2
  <2> QED BY <1>1, <1>2, <2>1 DEF ListInv, Inserts
<1>3. CASE list # <<>>
  <2> DEFINE t == node'
             F == [p \in {<<>>} |-> <<>>]
  <2>1. Listed(inserted)' = {} BY <1>1 DEF Listed
  <2>2. /\ DOMAIN t = {<<>>} /\ t[<<>>].type = RootType /\ ~t[<<>>].leaf /\ ~t[<<>>].all /\ ~t[<<>>].map
        /\ IsNode(t[<<>>]) /\ t = [p \in DOMAIN t |-> t[p]]
    BY <1>1, <1>3, SchemaAssumption DEF IsNode, Node
  <2> HIDE DEF t
  <2>3. \A p \in Positions : \A n : ~HasChild(t, p, n) BY <2>2 DEF HasChild, Positions
  <2>4. <<>> \in Positions BY DEF Positions
  <2>5. Rooted(t) BY <2>2, <2>3, <2>4 DEF Rooted, IsTree
  <2>6. F[<<>>] = <<>> /\ F \in [DOMAIN t -> Seq(Elements)] /\ F \in [DOMAIN t -> Seq(PatternElements)]
    BY <2>2
  <2>7. \A p \in DOMAIN t : \A n : ~HasChild(t, p, n) BY <2>2, <2>3, <2>4
  <2> HIDE DEF F
  <2>8. Spelled(t, F, F) BY <2>2, <2>5, <2>6, <2>7 DEF Spelled
  <2>9. Grown(t, F, F, {}, {})
    BY <2>2, <2>7, <2>8 DEF Grown, Shape, Fitting, Linked, Reaching
  <2>10. Complete(Listed(inserted))' BY <2>1, <2>9 DEF Complete, t
  <2> QED BY <1>1, <1>3, <2>10 DEF ListInv, Inserts
<1> QED BY <1>2, <1>3

\* The next path is inserted from the root.
LEMMA NextPathList ==
  ASSUME IInv, ListInv, Proper, NextPath
  PROVE  ListInv'
<1>1. /\ pc = "next" /\ inserted < Len(paths) /\ paths \in Seq(Seq(Segments)) /\ inserted \in Nat
      /\ segs' = paths[inserted + 1] /\ inserted' = inserted + 1 /\ at' = <<>> /\ pc' = "field"
      /\ node' = node /\ paths' = paths
  BY DEF NextPath, IInv, TypeOK, PathsArgument
<1> DEFINE i == inserted + 1
           cur == paths[i]
<1>2. i \in 1..Len(paths) /\ i - 1 = inserted /\ cur \in Seq(Segments) /\ paths # <<>> BY <1>1
<1>3. Complete(Listed(inserted)) BY <1>1, <1>2 DEF ListInv, Busy, Inserts
<1>4. PICK F, Pt : Grown(node, F, Pt, Listed(inserted), Listed(inserted)) BY <1>3 DEF Complete
<1>5. Listed(inserted) \subseteq Listed(i) BY <1>1 DEF Listed
<1>6. Grown(node, F, Pt, Listed(i), Listed(inserted)) BY <1>4, <1>5, MorePaths DEF Grown
<1>7. Pending("field", node, F, Pt, cur, cur, <<>>, key')
  <2>1. Spelled(node, F, Pt) /\ node[<<>>].type = RootType BY <1>4 DEF Grown, Shape
  <2>2. FieldPlace(node, F, Pt, cur, 0, <<>>) BY <1>2, <2>1, RootPlace
  <2>3. IsRest(cur, cur, 0) BY <1>2 DEF IsRest
  <2> QED BY <2>2, <2>3 DEF Pending
<1>8. /\ Listed(i) = Listed(inserted)' /\ Listed(inserted) = Listed(inserted - 1)'
      /\ cur = paths[inserted]' /\ segs' = cur
  BY <1>1, <1>2 DEF Listed
<1>9. Underway(Listed(inserted), Listed(inserted - 1), paths[inserted])'
  BY <1>1, <1>6, <1>7, <1>8 DEF Underway
<1>10. inserted' > 0 /\ paths' # <<>> /\ pc' = "field" BY <1>1, <1>2
<1> QED BY <1>9, <1>10 DEF ListInv, Inserts

\* A call of InsertField() that ends the path.
LEMMA FieldEnds ==
  ASSUME IInv, ListInv, Proper, MarkLeaf \/ AlreadyCovered
  PROVE  ListInv'
<1> DEFINE P == Listed(inserted)
           R == Listed(inserted - 1)
           cur == paths[inserted]
<1>1. Inserts /\ pc = "field" /\ EndPath /\ segs \in Seq(Segments)
  BY DEF MarkLeaf, AlreadyCovered, InField, Inserts, IInv, TypeOK
<1>2. Peace(P) /\ cur \in P /\ P = R \cup {cur} /\ cur \in Seq(Segments) /\ Underway(P, R, cur)
  BY <1>1, Inserting
<1> HIDE DEF P, R, cur
<1>3. PICK F, Pt : Grown(node, F, Pt, P, R) /\ Pending("field", node, F, Pt, cur, segs, at, key)
  BY <1>1, <1>2 DEF Underway
<1>4. PICK used : IsRest(segs, cur, used) /\ FieldPlace(node, F, Pt, cur, used, at)
  BY <1>3 DEF Pending
<1>5. segs = <<>> <=> used = Len(cur) BY <1>1, <1>2, <1>4, RestEnd
<1>6. Shape(node, F, Pt, P) /\ Spelled(node, F, Pt) BY <1>3 DEF Grown, Shape
<1>7. at \in DOMAIN node BY <1>4 DEF FieldPlace, Placed
<1>8. CASE MarkLeaf
  <2> DEFINE u == node'
  <2>1. Marked(node, at, u) /\ used = Len(cur) BY <1>5, <1>8 DEF MarkLeaf, Marked
  <2> HIDE DEF u
  <2>2. /\ Shape(u, F, Pt, P) /\ u[at].leaf /\ Pt[at] = Pattern(cur) /\ DOMAIN u = DOMAIN node
        /\ u[<<>>].type = node[<<>>].type
    BY <1>2, <1>4, <1>6, <2>1, MarkShape
  <2>3. \A d \in DOMAIN node : node[d].leaf => u[d].leaf
    <3> SUFFICES ASSUME NEW d \in DOMAIN node, node[d].leaf PROVE u[d].leaf
      OBVIOUS
    <3>1. CASE d = at BY <2>2, <3>1
    <3>2. CASE d # at BY <2>1, <3>2 DEF Marked
    <3> QED BY <3>1, <3>2
  <2>4. Reaching(u, Pt, R) BY <1>3, <2>2, <2>3 DEF Grown, Reaching
  <2>5. Grown(u, F, Pt, P, R) BY <1>3, <2>2, <2>4 DEF Grown
  <2>6. Begins(Pt[at], Pattern(cur)) BY <1>4, <1>2, <1>6, PlaceBegins
  <2>7. Grown(u, F, Pt, P, R \cup {cur}) BY <1>7, <2>2, <2>5, <2>6, GrownBy
  <2> QED BY <1>1, <2>7, PathEnds DEF u, P, R, cur
<1>9. CASE AlreadyCovered
  <2>1. node' = node /\ node[at].leaf BY <1>9 DEF AlreadyCovered, This
  <2>2. Begins(Pt[at], Pattern(cur)) BY <1>4, <1>2, <1>6, PlaceBegins
  <2>3. Grown(node, F, Pt, P, R \cup {cur}) BY <1>3, <1>7, <2>1, <2>2, GrownBy
  <2> QED BY <1>1, <2>1, <2>3, PathEnds DEF P, R, cur
<1> QED BY <1>8, <1>9

\* A call of InsertField() that goes on at a child.
LEMMA FieldGoesOn ==
  ASSUME IInv, ListInv, Proper, DescendToChild \/ AddFieldChild
  PROVE  ListInv'
<1> DEFINE P == Listed(inserted)
           R == Listed(inserted - 1)
           cur == paths[inserted]
<1>1. /\ Inserts /\ pc = "field" /\ segs \in Seq(Segments) /\ FieldFound /\ segs # <<>>
      /\ ~node[at].leaf /\ CallChild(Seg.field, Seg.key)
  BY DEF DescendToChild, AddFieldChild, NewField, FieldFound, Searching, InField, Inserts, IInv, TypeOK, This
<1>2. Peace(P) /\ cur \in P /\ P = R \cup {cur} /\ cur \in Seq(Segments) /\ Underway(P, R, cur)
  BY <1>1, Inserting
<1> HIDE DEF P, R, cur
<1>3. PICK F, Pt : Grown(node, F, Pt, P, R) /\ Pending("field", node, F, Pt, cur, segs, at, key)
  BY <1>1, <1>2 DEF Underway
<1>4. PICK used : IsRest(segs, cur, used) /\ FieldPlace(node, F, Pt, cur, used, at)
  BY <1>3 DEF Pending
<1>5. used < Len(cur) BY <1>1, <1>2, <1>4, RestEnd
<1>6. PICK i : i = used + 1 OBVIOUS
<1>7. Seg = cur[i] /\ IsRest(Tail(segs), cur, i) /\ (Tail(segs) = <<>> <=> i = Len(cur))
  BY <1>1, <1>2, <1>4, <1>6, RestStep DEF Seg
<1>8. Shape(node, F, Pt, P) /\ Spelled(node, F, Pt) /\ Fitting(node, F, P) BY <1>3 DEF Grown, Shape
<1> DEFINE c == Append(at, cur[i].field)
           Place(u, F2, Pt2) == ChildPlace(u, F2, Pt2, cur, i, c)
<1>9. \E F2, Pt2 : Grown(node', F2, Pt2, P, R) /\ Place(node', F2, Pt2)
  <2>1. CASE DescendToChild
    <3>1. HasChild(node, at, cur[i].field) /\ node' = node BY <1>7, <2>1 DEF DescendToChild
    <3>2. Place(node, F, Pt) BY <1>1, <1>2, <1>4, <1>5, <1>6, <1>8, <3>1, DescendField
    <3> HIDE DEF Place
    <3> QED BY <1>3, <3>1, <3>2
  <2>2. CASE AddFieldChild
    <3> DEFINE all == TakesAll(cur, i)
               f == FieldAt(cur, i)
    <3>1. f = ChildField
      <4>1. Placed(node, F, cur, used, at) BY <1>4 DEF FieldPlace
      <4>2. FieldAt(cur, i) = FindChildField(node[at].type, cur[i].field)
        BY <1>2, <1>5, <1>6, <1>8, <4>1, NextField
      <4> QED BY <1>7, <4>2 DEF ChildField, This
    <3>2. /\ ~HasChild(node, at, cur[i].field)
          /\ node' = Add(node, c, NewChild(f.type, cur[i].key, all, Tail(segs)))
      BY <1>7, <2>2, <3>1 DEF AddFieldChild, NewField, TakesAll
    <3> DEFINE rest == Tail(segs)
               u == node'
    <3>3. rest = <<>> <=> i = Len(cur) BY <1>7
    <3>4. all = TakesAll(cur, i) OBVIOUS
    <3>5. u = Add(node, Append(at, cur[i].field), NewChild(FieldAt(cur, i).type, cur[i].key, all, rest))
      BY <3>2
    <3>7. ~HasChild(node, at, cur[i].field) /\ ~node[at].leaf BY <1>1, <3>2
    <3> HIDE DEF rest, u, all, c, f, Place
    <3>6. PICK F2, Pt2 :
            /\ Shape(u, F2, Pt2, P) /\ Goes(node, F, Pt, u, F2, Pt2)
            /\ ChildPlace(u, F2, Pt2, cur, i, Append(at, cur[i].field))
      BY <1>2, <1>4, <1>5, <1>6, <1>8, <3>3, <3>4, <3>5, <3>7, AddField
    <3>8. Grown(u, F2, Pt2, P, R) BY <1>3, <3>6, GrownOn
    <3> QED BY <3>6, <3>8 DEF u, Place, c
  <2> QED BY <2>1, <2>2
<1>10. PICK F2, Pt2 : Grown(node', F2, Pt2, P, R) /\ Place(node', F2, Pt2) BY <1>9
<1>11. /\ paths' = paths /\ inserted' = inserted /\ at' = c /\ segs' = Tail(segs) /\ key' = cur[i].key
       /\ pc' = IF cur[i].key = NoKey THEN "field" ELSE "value"
  BY <1>1, <1>7 DEF CallChild
<1>12. Pending(pc', node', F2, Pt2, cur, segs', at', key')
  <2> HIDE DEF c
  <2>1. pc' = "field" => FieldPlace(node', F2, Pt2, cur, i, c) BY <1>10, <1>11 DEF ChildPlace
  <2>2. pc' = "value" => ValuePlace(node', F2, Pt2, cur, i, c) BY <1>10, <1>11 DEF ChildPlace
  <2> QED BY <1>7, <1>11, <2>1, <2>2 DEF Pending
<1>13. Listed(inserted)' = P /\ Listed(inserted - 1)' = R /\ paths[inserted]' = cur
  BY <1>11 DEF Listed, P, R, cur
<1>14. Inserts' BY <1>11 DEF Inserts
<1>15. Underway(Listed(inserted), Listed(inserted - 1), paths[inserted])'
  BY <1>10, <1>12, <1>13 DEF Underway
<1> QED BY <1>1, <1>11, <1>14, <1>15, PathGoesOn

\* The calls of InsertValueField().
LEMMA ValueStep ==
  ASSUME IInv, ListInv, Proper, InsertValueFieldStep
  PROVE  ListInv'
<1> DEFINE P == Listed(inserted)
           R == Listed(inserted - 1)
           cur == paths[inserted]
<1>1. Inserts /\ pc = "value" /\ segs \in Seq(Segments)
  BY DEF InsertValueFieldStep, ValueCovered, ValueOfAllKeys, DescendToKey, AddKeyChild, InValue,
         Inserts, IInv, TypeOK
<1>2. Peace(P) /\ cur \in P /\ P = R \cup {cur} /\ cur \in Seq(Segments) /\ Underway(P, R, cur)
  BY <1>1, Inserting
<1> HIDE DEF P, R, cur
<1>3. PICK F, Pt : Grown(node, F, Pt, P, R) /\ Pending("value", node, F, Pt, cur, segs, at, key)
  BY <1>1, <1>2 DEF Underway
<1>4. PICK used : IsRest(segs, cur, used) /\ ValuePlace(node, F, Pt, cur, used, at) /\ key = cur[used].key
  BY <1>3 DEF Pending
<1>5. segs = <<>> <=> used = Len(cur) BY <1>1, <1>2, <1>4, RestEnd
<1>6. Shape(node, F, Pt, P) /\ Spelled(node, F, Pt) /\ Fitting(node, F, P) BY <1>3 DEF Grown, Shape
<1>7. at \in DOMAIN node BY <1>4 DEF ValuePlace, Placed
<1>8. CASE ValueCovered
  <2>1. node' = node /\ node[at].leaf /\ EndPath BY <1>8 DEF ValueCovered, This
  <2>2. Begins(Pt[at], Pattern(cur)) BY <1>4, <1>2, <1>6, PlaceBegins
  <2>3. Grown(node, F, Pt, P, R \cup {cur}) BY <1>3, <1>7, <2>1, <2>2, GrownBy
  <2> QED BY <1>1, <2>1, <2>3, PathEnds DEF P, R, cur
<1>9. CASE ValueOfAllKeys
  BY <1>4, <1>9 DEF ValueOfAllKeys, This, ValuePlace, KeyMap
<1>10. CASE DescendToKey \/ AddKeyChild
  <2> DEFINE c == Append(at, cur[used].key)
  <2>1. ~node[at].leaf BY <1>10 DEF DescendToKey, AddKeyChild, This
  <2>2. \E F2, Pt2 : Grown(node', F2, Pt2, P, R) /\ FieldPlace(node', F2, Pt2, cur, used, c)
    <3>1. CASE DescendToKey
      <4>1. HasChild(node, at, cur[used].key) /\ node' = node BY <1>4, <3>1 DEF DescendToKey
      <4>2. FieldPlace(node, F, Pt, cur, used, c) BY <1>2, <1>4, <1>6, <2>1, <4>1, DescendKey
      <4> QED BY <1>3, <4>1, <4>2
    <3>2. CASE AddKeyChild
      <4> DEFINE u == node'
      <4>1. /\ ~HasChild(node, at, cur[used].key)
            /\ u = Add(node, Append(at, cur[used].key), NewChild(node[at].type, NoKey, FALSE, segs))
        BY <1>4, <3>2 DEF AddKeyChild, This
      <4> HIDE DEF u
      <4>2. PICK F2, Pt2 :
              /\ Shape(u, F2, Pt2, P) /\ Goes(node, F, Pt, u, F2, Pt2)
              /\ FieldPlace(u, F2, Pt2, cur, used, Append(at, cur[used].key))
        BY <1>2, <1>4, <1>5, <1>6, <2>1, <4>1, AddKey
      <4>3. Grown(u, F2, Pt2, P, R) BY <1>3, <4>2, GrownOn
      <4> QED BY <4>2, <4>3 DEF u
    <3> QED BY <1>10, <3>1, <3>2
  <2>3. PICK F2, Pt2 : Grown(node', F2, Pt2, P, R) /\ FieldPlace(node', F2, Pt2, cur, used, c) BY <2>2
  <2>4. /\ paths' = paths /\ inserted' = inserted /\ at' = c /\ segs' = segs /\ pc' = "field"
    BY <1>4, <1>10 DEF DescendToKey, AddKeyChild, CallInsertField
  <2>5. Pending(pc', node', F2, Pt2, cur, segs', at', key')
    <3> HIDE DEF c
    <3> QED BY <1>4, <2>3, <2>4 DEF Pending
  <2>6. Listed(inserted)' = P /\ Listed(inserted - 1)' = R /\ paths[inserted]' = cur
    BY <2>4 DEF Listed, P, R, cur
  <2>7. Inserts' BY <2>4 DEF Inserts
  <2>8. Underway(Listed(inserted), Listed(inserted - 1), paths[inserted])'
    BY <2>3, <2>5, <2>6 DEF Underway
  <2> QED BY <1>1, <2>4, <2>7, <2>8, PathGoesOn
<1> QED BY <1>8, <1>9, <1>10 DEF InsertValueFieldStep

\* Every step keeps what the tree of the current list is.
LEMMA ListStep ==
  ASSUME IInv, ListInv, [Next]_vars
  PROVE  ListInv'
<1>1. CASE UNCHANGED vars
  BY <1>1 DEF vars, locals, ListInv, Proper, Busy, Inserts, Complete, Underway, Listed
<1>2. ASSUME NEW list \in PathLists, AddOrIntersectFieldPaths(list) PROVE ListInv'
  BY <1>2, StartList
<1>3. CASE ~Busy'
  BY <1>3 DEF ListInv
<1>4. CASE AddOrIntersectOnBrokenTree \/ CheckFieldOnBrokenTree
  <2>1. pc' = "aborted" BY <1>4 DEF AddOrIntersectOnBrokenTree, CheckFieldOnBrokenTree
  <2> QED BY <1>3, <2>1 DEF Busy
<1>5. CASE BelowNonMessage \/ BadSegment \/ BadChild \/ UseAsRoot \/ UseIntersection
  <2>1. pc' = "idle"
    BY <1>5 DEF BelowNonMessage, BadSegment, BadChild, FailPath, UseAsRoot, UseIntersection, Finish
  <2> QED BY <1>3, <2>1 DEF Busy
<1>6. CASE NextPath \/ MarkLeaf \/ AlreadyCovered \/ DescendToChild \/ AddFieldChild \/ InsertValueFieldStep
  <2>1. paths' = paths /\ Busy
    BY <1>6 DEF NextPath, MarkLeaf, AlreadyCovered, DescendToChild, AddFieldChild, InsertValueFieldStep,
      ValueCovered, ValueOfAllKeys, DescendToKey, AddKeyChild, EndPath, CallChild, CallInsertField,
      NewField, FieldFound, Searching, InField, InValue, Busy
  <2>2. CASE ~Proper BY <2>1, <2>2 DEF ListInv, Proper
  <2>3. CASE Proper BY <1>6, <2>3, NextPathList, FieldEnds, FieldGoesOn, ValueStep
  <2> QED BY <2>2, <2>3
<1>7. CASE IntersectRoots
  <2>1. /\ pc = "next" /\ inserted = Len(paths) /\ pc' = "intersect"
        /\ UNCHANGED <<paths, inserted, node>>
    BY <1>7 DEF IntersectRoots, Compiled
  <2> QED BY <2>1 DEF ListInv, Proper, Busy, Inserts, Complete, Listed
<1>8. ASSUME NEW c \in work, IntersectLeaf(c) \/ IntersectSame(c) \/ IntersectKeys(c) PROVE ListInv'
  <2>1. pc' = "intersect" /\ pc = "intersect" /\ UNCHANGED <<paths, inserted, node>>
    BY <1>8 DEF IntersectLeaf, IntersectSame, IntersectKeys, Keep, Intersecting
  <2> QED BY <2>1 DEF ListInv, Proper, Busy, Inserts, Complete, Listed
<1> QED BY <1>1, <1>2, <1>4, <1>5, <1>6, <1>7, <1>8 DEF Next, Compiling, InsertFieldStep, IntersectStep

-------------------------------------------------------------------------------
(* What a compiled tree is                                                     *)

\* F are the fields that lead to each position.
Named(t, F) ==
  /\ Rooted(t) /\ F \in [DOMAIN t -> Seq(Elements)]
  /\ F[<<>>] = <<>> /\ ~t[<<>>].all /\ ~t[<<>>].map /\ t[<<>>].type = RootType
  /\ \A d \in DOMAIN t, n \in Elements :
       HasChild(t, d, n) => F[Append(d, n)] = IF KeyMap(t, d) THEN F[d] ELSE Append(F[d], n)

\* A tree whose nodes follow from the paths P.
Formed(t, P) == \E F : Named(t, F) /\ Fitting(t, F, P)

\* What the tree compiled from a list is when it is complete.
LEMMA CompiledList ==
  ASSUME IInv, ListInv, Proper, Busy, ~Inserts, inserted = Len(paths)
  PROVE  /\ Formed(node, PathsOf(paths))
         /\ \A q \in Queries : CheckField(node, q.path, q.kind) = Union(paths, q)
<1>0. paths \in PathsArgument /\ LegalList(paths) BY DEF IInv, TypeOK, Proper
<1>1. CASE paths = <<>>
  <2>1. node = [p \in {<<>>} |-> Node(RootType, TRUE, FALSE, FALSE)] BY <1>1 DEF ListInv
  <2> DEFINE F == [p \in {<<>>} |-> <<>>]
             t == node
  <2>2. /\ DOMAIN t = {<<>>} /\ t[<<>>].type = RootType /\ t[<<>>].leaf /\ ~t[<<>>].all /\ ~t[<<>>].map
        /\ IsNode(t[<<>>]) /\ t = [p \in DOMAIN t |-> t[p]]
    BY <2>1, SchemaAssumption DEF IsNode, Node
  <2> HIDE DEF t
  <2>3. \A p \in Positions : \A n : ~HasChild(t, p, n) BY <2>2 DEF HasChild, Positions
  <2>4. <<>> \in Positions BY DEF Positions
  <2>5. Rooted(t) BY <2>2, <2>3, <2>4 DEF Rooted, IsTree
  <2>6. F[<<>>] = <<>> /\ F \in [DOMAIN t -> Seq(Elements)] BY <2>2
  <2>7. \A p \in DOMAIN t : \A n : ~HasChild(t, p, n) BY <2>2, <2>3, <2>4
  <2> HIDE DEF F
  <2>8. Named(t, F) /\ Fitting(t, F, PathsOf(paths)) BY <2>2, <2>5, <2>6, <2>7 DEF Named, Fitting
  <2>9. ASSUME NEW q \in Queries PROVE CheckField(t, q.path, q.kind) = Union(paths, q)
    <3>1. q.path \in Queried BY QueriesAssumption DEF Queried
    <3> DEFINE path == q.path
    <3>2. path \in Queried /\ 0 \in 0..Len(path) BY <3>1 DEF Queried
    <3>3. Reached(t, path)[0] = Start
      <4> HIDE DEF path
      <4> QED BY <2>5, <3>2, WalkStart
    <3>4. Reached(t, path)[0].verdict = "none" /\ t[Reached(t, path)[0].pos].leaf BY <2>2, <3>3 DEF Start
    <3>5. CheckField(t, path, q.kind) = "include"
      <4> HIDE DEF path
      <4> QED BY <2>5, <3>2, <3>4, WalkIncludes
    <3> QED BY <1>1, <3>5 DEF Union
  <2> QED BY <2>8, <2>9 DEF Formed, t
<1>2. CASE paths # <<>>
  <2> DEFINE P == PathsOf(paths)
             t == node
  <2>1. paths \in Seq(Seq(Segments)) /\ Len(paths) \in 0..Len(paths) BY <1>0 DEF PathsArgument
  <2>2. P \subseteq Seq(Segments) /\ P # {}
    <3>1. 1 \in 1..Len(paths) BY <1>2, <2>1
    <3> QED BY <2>1, <3>1 DEF PathsOf
  <2>3. Listed(inserted) = P /\ Peace(P)
    <3>1. Listed(Len(paths)) = PathsOf(paths) BY DEF Listed, PathsOf
    <3> QED BY <2>1, <3>1, ListedPaths
  <2>4. Complete(P) BY <1>2, <2>3 DEF ListInv
  <2>5. PICK F, Pt : Grown(t, F, Pt, P, P) BY <2>4 DEF Complete
  <2> HIDE DEF P, t
  <2>6. /\ Spelled(t, F, Pt) /\ Fitting(t, F, P) /\ Linked(t, Pt, P) /\ Reaching(t, Pt, P)
        /\ t[<<>>].type = RootType
    BY <2>5 DEF Grown, Shape
  <2>7. Named(t, F)
    <3>1. /\ Rooted(t) /\ F \in [DOMAIN t -> Seq(Elements)] /\ F[<<>>] = <<>>
          /\ ~t[<<>>].all /\ ~t[<<>>].map
      BY <2>6 DEF Spelled
    <3>2. \A d \in DOMAIN t, n \in Elements :
            HasChild(t, d, n) => F[Append(d, n)] = IF KeyMap(t, d) THEN F[d] ELSE Append(F[d], n)
      BY <2>6 DEF Spelled, ChildSpelled
    <3> QED BY <2>6, <3>1, <3>2 DEF Named
  <2>8. Peaceful(P, {{"wildcard", "keys"}, {"every", "keys"}})
    <3>1. \A p, q \in P : Compatible(p, q, {{"wildcard", "keys"}, {"every", "keys"}})
      <4>1. \A p, q \in P : Compatible(p, q, InOneList) BY <2>3 DEF Peace, Peaceful
      <4>2. {{"wildcard", "keys"}, {"every", "keys"}} \subseteq InOneList BY DEF InOneList
      <4> QED BY <4>1, <4>2 DEF Compatible
    <3> QED BY <2>3, <3>1 DEF Peace, Peaceful
  <2>9. Clear(t) BY <2>6, <2>8, FittingClear
  <2>10. Rooted(t) BY <2>7 DEF Named
  <2>11. ASSUME NEW q \in Queries PROVE CheckField(t, q.path, q.kind) = Union(paths, q)
    <3>1. q.path \in Queried BY QueriesAssumption DEF Queried
    <3>2. CheckField(t, q.path, "message") = PathVerdict(P, q.path)
      BY <2>2, <2>6, <2>9, <3>1, TreeVerdict
    <3> QED BY <1>0, <1>2, <2>10, <3>2, UnionVerdict DEF P
  <2> QED BY <2>6, <2>7, <2>11 DEF Formed, P, t
<1> QED BY <1>1, <1>2
===============================================================================
