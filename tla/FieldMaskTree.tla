---------------------------- MODULE FieldMaskTree -----------------------------
(***************************************************************************)
(* The compiler of field masks: FieldMaskTree (field_mask_tree.cc) and the *)
(* FieldMaskNode trees it builds (field_mask_node.cc).                     *)
(*                                                                         *)
(* A tree of nodes is a function from positions to nodes; a position is    *)
(* the sequence of child names that leads from the root to the node.  The  *)
(* recursive calls InsertField() -> AddChild() -> InsertField() ... are    *)
(* one step each, with the arguments of the pending call in `at`, `key`    *)
(* and `segs`; the recursion of Intersect() is a set `work` of pending     *)
(* calls, taken in any order since children_ is a hash map.                *)
(***************************************************************************)
EXTENDS MaskSchema

CONSTANTS
  PathLists,   \* the arguments AddOrIntersectFieldPaths() is called with
  MaxCalls     \* bound: calls of AddOrIntersectFieldPaths() that return OK

ASSUME PathListsAssumption == PathLists \subseteq Seq(Seq(Segments))

VARIABLES
  root,     \* root_: NoTree until the first call succeeds
  status,   \* status_: "ok" or "invalid"
  pc,       \* where the call in progress is; "idle" between calls
  node,     \* the tree being compiled from the current list of paths
  paths,    \* argument of AddOrIntersectFieldPaths()
  inserted, \* how many of the paths the loop has taken
  at,       \* position of the node the pending Insert*Field() is called on
  key,      \* argument of the pending InsertValueField()
  segs,     \* the segments [current, end) of the path being inserted
  work,     \* pending Intersect() calls: where the result goes, this, other
  merged,   \* the nodes the finished Intersect() calls have produced
  calls     \* history: the lists accepted so far, in order

locals == <<node, paths, inserted, at, key, segs, work, merged>>
vars == <<root, status, pc, locals, calls>>

NoTree == <<>>  \* nullptr in place of a tree: there are no nodes

Node(type, leaf, map, all) == [type |-> type, leaf |-> leaf, map |-> map, all |-> all]

Positions == Seq(Elements)

IsNode(n) == n \in [type: Types \cup {NoType}, leaf: BOOLEAN, map: BOOLEAN, all: BOOLEAN]

IsTree(t) == /\ t = [p \in DOMAIN t |-> t[p]]
             /\ DOMAIN t \subseteq Positions
             /\ \A p \in DOMAIN t : IsNode(t[p])

Add(t, p, n) == [q \in DOMAIN t \cup {p} |-> IF q = p THEN n ELSE t[q]]

HasChild(t, p, name) == Append(p, name) \in DOMAIN t

Children(t, p) == {name \in Elements : HasChild(t, p, name)}

-------------------------------------------------------------------------------
(* AddOrIntersectFieldPaths() *)

Idle == pc = "idle"

Reset == /\ node' = NoTree /\ merged' = NoTree
         /\ paths' = <<>> /\ inserted' = 0
         /\ at' = <<>> /\ segs' = <<>> /\ key' = NoKey /\ work' = {}

\* A new node is compiled from the list; with an empty list it is a leaf.
AddOrIntersectFieldPaths(list) ==
  /\ Idle /\ status = "ok" /\ Len(calls) < MaxCalls
  /\ node' = [p \in {<<>>} |-> Node(RootType, list = <<>>, FALSE, FALSE)]
  /\ paths' = list
  /\ pc' = "next"
  /\ UNCHANGED <<root, status, inserted, at, key, segs, work, merged, calls>>

\* The entry check: on a broken tree the process ends (ABSL_LOG(FATAL)).
AddOrIntersectOnBrokenTree ==
  /\ Idle /\ status # "ok"
  /\ pc' = "aborted"
  /\ UNCHANGED <<root, status, locals, calls>>

\* The loop takes the next path and inserts it at the root of the new tree.
NextPath ==
  /\ pc = "next" /\ inserted < Len(paths)
  /\ segs' = paths[inserted + 1] /\ inserted' = inserted + 1 /\ at' = <<>>
  /\ pc' = "field"
  /\ UNCHANGED <<root, status, node, paths, key, work, merged, calls>>

\* Mutant: the tree compiled so far becomes the root.
FailPathCommits ==
  /\ status' = "invalid" /\ pc' = "idle"
  /\ root' = node
  /\ Reset /\ UNCHANGED calls

\* Any error of InsertField() breaks the tree; the root keeps its old value.
FailPath ==
  /\ status' = "invalid" /\ pc' = "idle"
  /\ Reset
  /\ UNCHANGED <<root, calls>>

EndPath ==
  /\ pc' = "next"
  /\ at' = <<>> /\ segs' = <<>> /\ key' = NoKey
  /\ UNCHANGED <<root, status, paths, inserted, work, merged, calls>>

-------------------------------------------------------------------------------
(* InsertField(): the node at `at`, the segments `segs` *)

This == node[at]
Seg == Head(segs)
ChildField == FindChildField(This.type, Seg.field)

InField == pc = "field"
Searching == InField /\ segs # <<>> /\ This.type # NoType /\ ~This.leaf

\* Mutant: the node of a shorter path is not made a leaf.
MarkNoLeaf == InField /\ segs = <<>> /\ EndPath /\ UNCHANGED node

MarkLeaf ==
  /\ InField /\ segs = <<>>
  /\ node' = [node EXCEPT ![at].leaf = TRUE]
  /\ EndPath

BelowNonMessage ==
  /\ InField /\ segs # <<>> /\ This.type = NoType
  /\ FailPath

AlreadyCovered ==
  /\ InField /\ segs # <<>> /\ This.type # NoType /\ This.leaf
  /\ EndPath /\ UNCHANGED node

BadSegment ==
  /\ Searching
  /\ Seg.key = Malformed \/ Seg.field \notin FieldNames(This.type)
  /\ FailPath

\* Mutant: the error of UnescapeMapKey() is dropped.
FieldFoundAnyKey == Searching /\ Seg.field \in FieldNames(This.type)

FieldFound == /\ Searching
              /\ Seg.key # Malformed /\ Seg.field \in FieldNames(This.type)

\* Calls InsertField() or InsertValueField() of the child with the rest.
CallChild(name, k) ==
  /\ at' = Append(at, name)
  /\ segs' = Tail(segs)
  /\ key' = k
  /\ pc' = IF k = NoKey THEN "field" ELSE "value"
  /\ UNCHANGED <<root, status, paths, inserted, work, merged, calls>>

DescendToChild ==
  /\ FieldFound /\ HasChild(node, at, Seg.field)
  /\ CallChild(Seg.field, Seg.key) /\ UNCHANGED node

NewField == FieldFound /\ ~HasChild(node, at, Seg.field)

\* A type the finder cannot resolve, or a key on a message that is not a map.
BadChild ==
  /\ NewField
  /\ ChildField.kind = "message" /\ ~ChildField.map
  /\ ChildField.type = NoType \/ Seg.key # NoKey
  /\ FailPath

\* The node AddChild() emplaces.
NewChild(type, k, all, rest) ==
  Node(type, k = NoKey /\ rest = <<>>, k # NoKey \/ all, all)

AddFieldChild ==
  /\ NewField
  /\ ChildField.kind = "message" /\ ~ChildField.map
       => ChildField.type # NoType /\ Seg.key = NoKey
  /\ LET all == ChildField.map /\ Seg.key = NoKey
     IN  node' = Add(node, Append(at, Seg.field),
                     NewChild(ChildField.type, Seg.key, all, Tail(segs)))
  /\ CallChild(Seg.field, Seg.key)

-------------------------------------------------------------------------------
(* InsertValueField(): the map node at `at`, the key `key`, the rest `segs` *)

InValue == pc = "value"

CallInsertField(p) ==
  /\ at' = p /\ key' = NoKey /\ pc' = "field"
  /\ UNCHANGED <<root, status, paths, inserted, segs, work, merged, calls>>

ValueCovered ==
  /\ InValue /\ This.leaf
  /\ EndPath /\ UNCHANGED node

ValueOfAllKeys ==
  /\ InValue /\ ~This.leaf /\ This.all
  /\ CallInsertField(at) /\ UNCHANGED node

DescendToKey ==
  /\ InValue /\ ~This.leaf /\ ~This.all /\ HasChild(node, at, key)
  /\ CallInsertField(Append(at, key)) /\ UNCHANGED node

AddKeyChild ==
  /\ InValue /\ ~This.leaf /\ ~This.all /\ ~HasChild(node, at, key)
  /\ node' = Add(node, Append(at, key), NewChild(This.type, NoKey, FALSE, segs))
  /\ CallInsertField(Append(at, key))

-------------------------------------------------------------------------------
(* Intersect(): root_ with the new tree *)

Compiled == pc = "next" /\ inserted = Len(paths)

Finish(tree) ==
  /\ root' = tree
  /\ calls' = Append(calls, paths)
  /\ pc' = "idle" /\ Reset /\ UNCHANGED status

UseAsRoot == Compiled /\ root = NoTree /\ Finish(node)

\* A pending call this.Intersect(other): each of the two nodes is in the root
\* tree ("root") or in the new one ("node"), and the result goes to position to.
Call(to, this, other) == [to |-> to, this |-> this, other |-> other]

TreeOf(ref) == IF ref.tree = "root" THEN root ELSE node
NodeAt(ref) == TreeOf(ref)[ref.pos]
Child(ref, name) == [tree |-> ref.tree, pos |-> Append(ref.pos, name)]
NamesBelow(ref) == Children(TreeOf(ref), ref.pos)

IntersectRoots ==
  /\ Compiled /\ root # NoTree
  /\ work' = {Call(<<>>, [tree |-> "root", pos |-> <<>>], [tree |-> "node", pos |-> <<>>])}
  /\ merged' = <<>>
  /\ pc' = "intersect"
  /\ UNCHANGED <<root, status, node, paths, inserted, at, key, segs, calls>>

\* Clone(): the node at ref and what hangs below it, except below leaves.
Cloned(ref) ==
  {p \in DOMAIN TreeOf(ref) :
     /\ Len(ref.pos) <= Len(p) /\ SubSeq(p, 1, Len(ref.pos)) = ref.pos
     /\ \A i \in Len(ref.pos)..(Len(p) - 1) : ~TreeOf(ref)[SubSeq(p, 1, i)].leaf}

\* merged with the clone of ref put at position to.
WithClone(to, ref) ==
  LET moved(p) == to \o SubSeq(p, Len(ref.pos) + 1, Len(p))
      new == {moved(p) : p \in Cloned(ref)}
  IN  [q \in DOMAIN merged \cup new |->
         IF q \in new THEN TreeOf(ref)[ref.pos \o SubSeq(q, Len(to) + 1, Len(q))]
                      ELSE merged[q]]

Intersecting(c) == pc = "intersect" /\ c \in work

\* Mutant: the loop does not go on to the next child.
KeepAgain(c, new) ==
  /\ work' = work \cup new
  /\ UNCHANGED <<root, status, pc, node, paths, inserted, at, key, segs, calls>>

Keep(c, new) ==
  /\ work' = (work \ {c}) \cup new
  /\ UNCHANGED <<root, status, pc, node, paths, inserted, at, key, segs, calls>>

\* Mutant: the leaf wins.
IntersectLeafWins(c) ==
  /\ Intersecting(c) /\ (NodeAt(c.this).leaf \/ NodeAt(c.other).leaf)
  /\ merged' = WithClone(c.to, IF NodeAt(c.this).leaf THEN c.this ELSE c.other)
  /\ Keep(c, {})

\* One of the two is a leaf: the other is the intersection.
IntersectLeaf(c) ==
  /\ Intersecting(c) /\ (NodeAt(c.this).leaf \/ NodeAt(c.other).leaf)
  /\ merged' = WithClone(c.to, IF NodeAt(c.this).leaf THEN c.other ELSE c.this)
  /\ Keep(c, {})

Mixed(this, other) == this.map /\ other.map /\ this.all # other.all

\* Mutant: the child of the other node is not looked for.
IntersectUnchecked(c) ==
  LET this == NodeAt(c.this)  other == NodeAt(c.other)
  IN  /\ Intersecting(c) /\ ~this.leaf /\ ~other.leaf /\ ~Mixed(this, other)
      /\ merged' = Add(merged, c.to,
                       Node(this.type, FALSE, this.map /\ other.map, this.all))
      /\ Keep(c, {Call(Append(c.to, n), Child(c.this, n), Child(c.other, n)) :
                    n \in NamesBelow(c.this)})

\* Not a map, or maps of the same sort: the children both have.
IntersectSame(c) ==
  LET this == NodeAt(c.this)  other == NodeAt(c.other)
      both == NamesBelow(c.this) \cap NamesBelow(c.other)
  IN  /\ Intersecting(c) /\ ~this.leaf /\ ~other.leaf /\ ~Mixed(this, other)
      /\ merged' = Add(merged, c.to,
                       Node(this.type, FALSE, this.map /\ other.map, this.all))
      /\ Keep(c, {Call(Append(c.to, n), Child(c.this, n), Child(c.other, n)) : n \in both})

\* One map has all keys included, the other lists keys: each key of the latter
\* is intersected with the former.
IntersectKeys(c) ==
  LET this == NodeAt(c.this)  other == NodeAt(c.other)
      keyed == IF this.all THEN c.other ELSE c.this
      allKeys == IF this.all THEN c.this ELSE c.other
  IN  /\ Intersecting(c) /\ ~this.leaf /\ ~other.leaf /\ Mixed(this, other)
      /\ merged' = Add(merged, c.to, Node(this.type, FALSE, TRUE, FALSE))
      /\ Keep(c, {Call(Append(c.to, n), Child(keyed, n), allKeys) : n \in NamesBelow(keyed)})

UseIntersection == pc = "intersect" /\ work = {} /\ Finish(merged)

-------------------------------------------------------------------------------
(* CheckField(): a const method; `query` is the path, `kind` that of the    *)
(* field at its end.                                                       *)

Verdicts == {"include", "partial", "exclude"}

\* One element of the path: s.pos is current_node, s.skip is skip_once, and
\* s.verdict is not "none" once the loop has returned.
Advance(tree, s, name) ==
  LET known == {n \in {name, Wildcard} : HasChild(tree, s.pos, n)}
      next == Append(s.pos, IF name \in known THEN name ELSE Wildcard)
  IN  IF s.verdict # "none" THEN s
      ELSE IF s.skip THEN [s EXCEPT !.skip = FALSE]
      ELSE IF tree[s.pos].leaf THEN [s EXCEPT !.verdict = "include"]
      ELSE IF known = {} THEN [s EXCEPT !.verdict = "exclude"]
      ELSE [s EXCEPT !.pos = next, !.skip = tree[next].all]

\* Where the loop is after each element.
Reached(tree, query) ==
  LET reached[i \in 0..Len(query)] ==
        IF i = 0 THEN [pos |-> <<>>, skip |-> FALSE, verdict |-> "none"]
                 ELSE Advance(tree, reached[i - 1], query[i])
  IN  reached

Walk(tree, query) == Reached(tree, query)[Len(query)]

CheckField(tree, query, kind) ==
  LET end == Walk(tree, query)
  IN  IF tree = NoTree THEN "include"
      ELSE IF end.verdict # "none" THEN end.verdict
      ELSE IF tree[end.pos].leaf THEN "include"
      ELSE IF kind \in {"message", "enum"} THEN "partial" ELSE "exclude"

\* On a broken tree CheckField() ends the process; otherwise it changes nothing.
CheckFieldOnBrokenTree ==
  /\ Idle /\ status # "ok"
  /\ pc' = "aborted"
  /\ UNCHANGED <<root, status, locals, calls>>

-------------------------------------------------------------------------------

Init ==
  /\ root = NoTree /\ status = "ok" /\ pc = "idle" /\ calls = <<>>
  /\ node = NoTree /\ merged = NoTree
  /\ paths = <<>> /\ inserted = 0
  /\ at = <<>> /\ segs = <<>> /\ key = NoKey /\ work = {}

InsertFieldStep ==
  \/ MarkLeaf \/ BelowNonMessage \/ AlreadyCovered \/ BadSegment
  \/ DescendToChild \/ BadChild \/ AddFieldChild

InsertValueFieldStep ==
  \/ ValueCovered \/ ValueOfAllKeys \/ DescendToKey \/ AddKeyChild

IntersectStep ==
  \/ UseAsRoot \/ IntersectRoots \/ UseIntersection
  \/ \E c \in work : IntersectLeaf(c) \/ IntersectSame(c) \/ IntersectKeys(c)

Compiling == NextPath \/ InsertFieldStep \/ InsertValueFieldStep \/ IntersectStep

Next ==
  \/ \E list \in PathLists : AddOrIntersectFieldPaths(list)
  \/ AddOrIntersectOnBrokenTree \/ CheckFieldOnBrokenTree
  \/ Compiling

Spec == Init /\ [][Next]_vars

\* A call that has started keeps running.
FairSpec == Spec /\ WF_vars(Compiling)

-------------------------------------------------------------------------------

PathsArgument == Seq(Seq(Segments))

Busy == pc \in {"next", "field", "value", "intersect"}

TypeOK ==
  /\ IsTree(root)
  /\ Busy => IsTree(node)
  /\ pc = "intersect" => IsTree(root) /\ IsTree(merged)
  /\ status \in {"ok", "invalid"}
  /\ Busy \/ pc \in {"idle", "aborted"}
  /\ paths \in PathsArgument /\ inserted \in 0..Len(paths)
  /\ at \in Positions /\ segs \in Seq(Segments) /\ key \in Elements \cup {NoKey}
  /\ calls \in Seq(PathsArgument)

\* A node is reached only through a pointer that its parent holds: every pending
\* call is made on a node that exists, with a map key where one is used.
PendingNodesExist ==
  /\ pc \in {"field", "value"} => at \in DOMAIN node
  /\ pc = "value" => key \in Elements
  /\ pc = "intersect" => \A c \in work : /\ c.this.pos \in DOMAIN TreeOf(c.this)
                                         /\ c.other.pos \in DOMAIN TreeOf(c.other)

\* A call either is accepted, appends its list to the history and may change the
\* tree, or leaves history and tree alone; a broken tree never changes again.
AllOrNothing ==
  [][/\ root' # root \/ calls' # calls =>
          status = "ok" /\ status' = "ok" /\ calls' = Append(calls, paths)
     /\ status = "invalid" => status' = "invalid"]_vars
===============================================================================
