-------------------------- MODULE MaskVerdicts_proofs --------------------------
(***************************************************************************)
(* What CheckField() answers, for every schema and all lists of paths: the *)
(* tree that is the intersection of the lists accepted so far answers as   *)
(* they say.  And which lists are accepted, so that FieldMaskTree          *)
(* implements FieldMask.                                                   *)
(***************************************************************************)
EXTENDS FieldMaskTree_proofs

-------------------------------------------------------------------------------
(* The intersection of two trees                                               *)

\* The paths of two lists do not address a map in ways that clash.
Apart(P, Q) ==
  \A f \in Seq(Elements) : \A a, b : Addressed(P, f, {a}) /\ Addressed(Q, f, {b}) => {a, b} \notin AcrossLists

\* The paths of compatible lists are apart.
LEMMA ApartLists ==
  ASSUME NEW P, NEW Q, P \subseteq DOMAIN Patterns, \A p \in P, q \in Q : Compatible(p, q, AcrossLists)
  PROVE  Apart(P, Q)
<1> SUFFICES ASSUME NEW f \in Seq(Elements), NEW a, NEW b, Addressed(P, f, {a}), Addressed(Q, f, {b})
             PROVE  {a, b} \notin AcrossLists
  BY DEF Apart
<1> DEFINE A == {a}
           B == {b}
           cl == AcrossLists
<1>1. Addressed(P, f, A) /\ Addressed(Q, f, B) /\ \A p \in P, q \in Q : Compatible(p, q, cl) OBVIOUS
<1> HIDE DEF A, B, cl
<1>2. \E x \in A, y \in B : {x, y} \notin cl BY <1>1, Clash
<1> QED BY <1>2 DEF A, B, cl

\* Being apart is mutual.
LEMMA ApartSwap ==
  ASSUME NEW P, NEW Q, Apart(P, Q)
  PROVE  Apart(Q, P)
<1> SUFFICES ASSUME NEW f \in Seq(Elements), NEW a, NEW b, Addressed(Q, f, {a}), Addressed(P, f, {b})
             PROVE  {a, b} \notin AcrossLists
  BY DEF Apart
<1>1. {b, a} \notin AcrossLists BY DEF Apart
<1>2. {b, a} = {a, b} OBVIOUS
<1> QED BY <1>1, <1>2

\* A tree formed by the paths P, and the fields that lead to its nodes.
NamedFor(t, F, P) == Named(t, F) /\ Fitting(t, F, P)

\* The nodes of a tree and the fields that lead to them.
LEMMA NamedTypes ==
  ASSUME NEW t, NEW F, Named(t, F), NEW d \in DOMAIN t
  PROVE  /\ d \in Positions /\ IsNode(t[d]) /\ F[d] \in Seq(Elements)
         /\ t[d].all \in BOOLEAN /\ t[d].map \in BOOLEAN /\ t[d].leaf \in BOOLEAN
<1>1. IsTree(t) /\ F \in [DOMAIN t -> Seq(Elements)] BY DEF Named, Rooted
<1>2. F[d] \in Seq(Elements) /\ d \in Positions /\ IsNode(t[d]) BY <1>1 DEF IsTree
<1> QED BY <1>2 DEF IsNode

\* A node for all keys is a map, and a path addresses its entries in that way.
LEMMA AllNode ==
  ASSUME NEW t, NEW F, NEW P, NamedFor(t, F, P), NEW d \in DOMAIN t, t[d].all
  PROVE  t[d].map /\ (~t[d].leaf => Addressed(P, F[d], {"all"}))
<1>0. Named(t, F) /\ Fitting(t, F, P) BY DEF NamedFor
<1>1. d \in Positions /\ d # <<>> BY <1>0, NamedTypes DEF Named
<1>2. PICK e \in Positions, n \in Elements : d = Append(e, n) BY <1>1, AboveNode
<1>3. HasChild(t, e, n) /\ e \in DOMAIN t BY <1>0, <1>2 DEF HasChild, Named, Rooted
<1>4. ChildFits(t, F, P, e, n) BY <1>0, <1>3 DEF Fitting
<1>5. ~KeyMap(t, e) BY <1>2, <1>4 DEF ChildFits
<1> DEFINE f == FindChildField(t[e].type, n)
<1>6. (t[d].all => f.map) /\ (f.map => t[d].map) /\ (~t[d].leaf => (t[d].all => Addressed(P, F[d], {"all"})))
  <2> HIDE DEF f
  <2> QED BY <1>2, <1>4, <1>5 DEF ChildFits, f
<1> QED BY <1>6

\* While the other node goes on to its children, this one stays: it is a leaf, or
\* a map with all keys whose counterpart lists some.
Stays(a, b) == a.leaf \/ (~b.leaf /\ Mixed(a, b) /\ a.all)

\* The intersection of the nodes d and e has a child n.
Joint(r, s, d, e, n) ==
  /\ ~(Stays(r[d], s[e]) /\ Stays(s[e], r[d]))
  /\ Stays(r[d], s[e]) \/ HasChild(r, d, n)
  /\ Stays(s[e], r[d]) \/ HasChild(s, e, n)

\* Where it comes from in the tree of a.
Onto(a, b, d, n) == IF Stays(a, b) THEN d ELSE Append(d, n)

\* The node x is the intersection of a and b.
IsJoin(x, a, b) ==
  /\ a.leaf /\ b.leaf => x = a \/ x = b
  /\ a.leaf /\ ~b.leaf => x = b
  /\ ~a.leaf /\ b.leaf => x = a
  /\ ~a.leaf /\ ~b.leaf => x = Node(a.type, FALSE, a.map /\ b.map, a.all /\ b.all)

\* The nodes d and e stand for the same fields f.
Level(r, Fr, s, Fs, d, e, f) ==
  /\ ~r[d].leaf => Fr[d] = f
  /\ ~s[e].leaf => Fs[e] = f
  /\ ~r[d].leaf /\ ~s[e].leaf =>
       /\ r[d].type = s[e].type
       /\ r[d].map = s[e].map \/ (~r[d].map /\ s[e].all) \/ (~s[e].map /\ r[d].all)

\* The two trees may be swapped.
LEMMA Swapped ==
  ASSUME NEW r, NEW Fr, NEW s, NEW Fs, NEW d, NEW e, NEW f, Level(r, Fr, s, Fs, d, e, f)
  PROVE  /\ Level(s, Fs, r, Fr, e, d, f)
         /\ \A n : Joint(r, s, d, e, n) <=> Joint(s, r, e, d, n)
         /\ \A x : IsJoin(x, r[d], s[e]) <=> IsJoin(x, s[e], r[d])
<1>1. Level(s, Fs, r, Fr, e, d, f) BY DEF Level
<1>2. \A n : Joint(r, s, d, e, n) <=> Joint(s, r, e, d, n) BY DEF Joint
<1>3. ASSUME ~r[d].leaf, ~s[e].leaf
      PROVE  Node(r[d].type, FALSE, r[d].map /\ s[e].map, r[d].all /\ s[e].all) =
             Node(s[e].type, FALSE, s[e].map /\ r[d].map, s[e].all /\ r[d].all)
  <2>1. r[d].type = s[e].type BY <1>3 DEF Level
  <2>2. (r[d].map /\ s[e].map) = (s[e].map /\ r[d].map) OBVIOUS
  <2>3. (r[d].all /\ s[e].all) = (s[e].all /\ r[d].all) OBVIOUS
  <2> QED BY <2>1, <2>2, <2>3
<1>4. \A x : IsJoin(x, r[d], s[e]) <=> IsJoin(x, s[e], r[d]) BY <1>3 DEF IsJoin
<1> QED BY <1>1, <1>2, <1>4

\* The fields that lead to a child of a node x: those of x below a map.
FieldsBelow(x, f, n) == IF x.map /\ ~x.all THEN f ELSE Append(f, n)

\* What the child n of the intersection of the nodes d and e is.
IsKid(r, Fr, s, Fs, d, e, x, f, n) ==
  LET d2 == Onto(r[d], s[e], d, n)
      e2 == Onto(s[e], r[d], e, n)
  IN  /\ d2 \in DOMAIN r /\ e2 \in DOMAIN s
      /\ Level(r, Fr, s, Fs, d2, e2, FieldsBelow(x, f, n))
      /\ ~Stays(r[d], s[e]) /\ ~Stays(s[e], r[d]) /\ ~r[d2].leaf /\ ~s[e2].leaf => r[d2].map = s[e2].map
      /\ ~s[e].leaf /\ Stays(s[e], r[d]) => ~r[d2].leaf /\ ~r[d2].map
      /\ ~r[d].leaf /\ Stays(r[d], s[e]) => ~s[e2].leaf /\ ~s[e2].map

\* The two trees may be swapped.
LEMMA KidSwap ==
  ASSUME NEW r, NEW Fr, NEW s, NEW Fs, NEW d, NEW e, NEW x, NEW f, NEW n,
         IsKid(s, Fs, r, Fr, e, d, x, f, n)
  PROVE  IsKid(r, Fr, s, Fs, d, e, x, f, n)
<1> DEFINE d2 == Onto(r[d], s[e], d, n)
           e2 == Onto(s[e], r[d], e, n)
           g == FieldsBelow(x, f, n)
<1>1. /\ d2 \in DOMAIN r /\ e2 \in DOMAIN s
      /\ Level(s, Fs, r, Fr, e2, d2, g)
      /\ ~Stays(s[e], r[d]) /\ ~Stays(r[d], s[e]) /\ ~s[e2].leaf /\ ~r[d2].leaf => s[e2].map = r[d2].map
      /\ ~r[d].leaf /\ Stays(r[d], s[e]) => ~s[e2].leaf /\ ~s[e2].map
      /\ ~s[e].leaf /\ Stays(s[e], r[d]) => ~r[d2].leaf /\ ~r[d2].map
  BY DEF IsKid
<1> HIDE DEF d2, e2, g
<1>2. Level(r, Fr, s, Fs, d2, e2, g) BY <1>1, Swapped
<1> QED BY <1>1, <1>2 DEF IsKid, d2, e2, g

\* One of the nodes is a leaf: the children are those of the other.
LEMMA KidOfLeaf ==
  ASSUME NEW r, NEW Fr, NEW P, NamedFor(r, Fr, P), NEW s, NEW Fs, NEW Q, NamedFor(s, Fs, Q),
         NEW d \in DOMAIN r, NEW e \in DOMAIN s, NEW f, Level(r, Fr, s, Fs, d, e, f),
         NEW x, IsJoin(x, r[d], s[e]), NEW n \in Elements, Joint(r, s, d, e, n), r[d].leaf
  PROVE  IsKid(r, Fr, s, Fs, d, e, x, f, n)
<1>1. ~s[e].leaf /\ x = s[e] /\ Fs[e] = f BY DEF Joint, Stays, IsJoin, Level
<1>2. Stays(r[d], s[e]) /\ ~Stays(s[e], r[d]) /\ HasChild(s, e, n) BY <1>1 DEF Stays, Joint
<1> DEFINE c == Append(e, n)
           g == FieldsBelow(x, f, n)
<1>3. c \in DOMAIN s BY <1>2 DEF HasChild
<1>4. Fs[c] = g BY <1>1, <1>2 DEF NamedFor, Named, KeyMap, FieldsBelow
<1> HIDE DEF c, g
<1>5. Level(r, Fr, s, Fs, d, c, g) BY <1>4 DEF Level
<1>6. Onto(r[d], s[e], d, n) = d /\ Onto(s[e], r[d], e, n) = c BY <1>2 DEF Onto, c
<1> QED BY <1>1, <1>2, <1>3, <1>5, <1>6 DEF IsKid, g

\* A map that lists keys meets one with all keys: the children are those keys.
LEMMA KidOfKeys ==
  ASSUME NEW r, NEW Fr, NEW P, NamedFor(r, Fr, P), NEW s, NEW Fs, NEW Q, NamedFor(s, Fs, Q), Apart(P, Q),
         NEW d \in DOMAIN r, NEW e \in DOMAIN s, NEW f, Level(r, Fr, s, Fs, d, e, f),
         NEW x, IsJoin(x, r[d], s[e]), NEW n \in Elements, Joint(r, s, d, e, n),
         ~r[d].leaf, ~s[e].leaf, Mixed(r[d], s[e]), s[e].all
  PROVE  IsKid(r, Fr, s, Fs, d, e, x, f, n)
<1>0. Named(r, Fr) /\ Fitting(r, Fr, P) /\ Named(s, Fs) BY DEF NamedFor
<1>1. r[d].all \in BOOLEAN /\ s[e].all \in BOOLEAN /\ Fr[d] \in Seq(Elements) BY <1>0, NamedTypes
<1>2. /\ r[d].map /\ s[e].map /\ ~r[d].all /\ Mixed(s[e], r[d])
  BY <1>1 DEF Mixed
<1>3. ~Stays(r[d], s[e]) /\ Stays(s[e], r[d]) /\ HasChild(r, d, n) BY <1>2 DEF Stays, Joint
<1> DEFINE c == Append(d, n)
           g == FieldsBelow(x, f, n)
<1>4. c \in DOMAIN r /\ KeyMap(r, d) BY <1>2, <1>3 DEF HasChild, KeyMap
<1>5. g = f
  <2>1. x = Node(r[d].type, FALSE, r[d].map /\ s[e].map, r[d].all /\ s[e].all) BY DEF IsJoin
  <2>2. x.map /\ ~x.all BY <1>2, <2>1 DEF Node
  <2> QED BY <2>2 DEF FieldsBelow
<1>6. r[d].type = s[e].type /\ Fr[d] = f /\ Fs[e] = f BY DEF Level
<1>7. Fr[c] = f BY <1>0, <1>3, <1>4, <1>6 DEF Named
<1>8. ChildFits(r, Fr, P, d, n) BY <1>0, <1>3 DEF Fitting
<1>9. /\ r[c].type = r[d].type /\ ~r[c].all /\ ~r[c].map
      /\ Addressed(P, Fr[c], {SortOf(n, r[c].leaf)})
  BY <1>4, <1>8 DEF ChildFits
<1>10. ~r[c].leaf
  <2> SUFFICES ASSUME r[c].leaf PROVE FALSE OBVIOUS
  <2>1. Addressed(P, f, {SortOf(n, TRUE)})
    <3>1. SortOf(n, r[c].leaf) = SortOf(n, TRUE) BY DEF SortOf
    <3> QED BY <1>7, <1>9, <3>1
  <2>2. Addressed(Q, f, {"all"}) BY <1>6, AllNode
  <2>3. {SortOf(n, TRUE), "all"} \notin AcrossLists BY <1>1, <1>6, <2>1, <2>2 DEF Apart
  <2>4. SortOf(n, TRUE) \in {"every", "entry"} BY DEF SortOf
  <2> QED BY <2>3, <2>4 DEF AcrossLists
<1> HIDE DEF c, g
<1>11. Level(r, Fr, s, Fs, c, e, f) BY <1>2, <1>6, <1>7, <1>9 DEF Level
<1>12. Onto(r[d], s[e], d, n) = c /\ Onto(s[e], r[d], e, n) = e BY <1>3 DEF Onto, c
<1> QED BY <1>3, <1>4, <1>5, <1>9, <1>10, <1>11, <1>12 DEF IsKid, g

\* Maps of the same sort, or no maps: the children are those of both.
LEMMA KidOfBoth ==
  ASSUME NEW r, NEW Fr, NEW P, NamedFor(r, Fr, P), NEW s, NEW Fs, NEW Q, NamedFor(s, Fs, Q),
         NEW d \in DOMAIN r, NEW e \in DOMAIN s, NEW f, Level(r, Fr, s, Fs, d, e, f),
         NEW x, IsJoin(x, r[d], s[e]), NEW n \in Elements, Joint(r, s, d, e, n),
         ~r[d].leaf, ~s[e].leaf, ~Mixed(r[d], s[e])
  PROVE  IsKid(r, Fr, s, Fs, d, e, x, f, n)
<1>0. Named(r, Fr) /\ Fitting(r, Fr, P) /\ Named(s, Fs) /\ Fitting(s, Fs, Q) BY DEF NamedFor
<1>1. /\ r[d].all \in BOOLEAN /\ s[e].all \in BOOLEAN /\ r[d].map \in BOOLEAN /\ s[e].map \in BOOLEAN
      /\ r[d].all => r[d].map
      /\ s[e].all => s[e].map
  BY <1>0, NamedTypes, AllNode
<1>2. ~Mixed(s[e], r[d]) BY DEF Mixed
<1>3. ~Stays(r[d], s[e]) /\ ~Stays(s[e], r[d]) /\ HasChild(r, d, n) /\ HasChild(s, e, n)
  BY <1>2 DEF Stays, Joint
<1> DEFINE c == Append(d, n)
           b == Append(e, n)
           g == FieldsBelow(x, f, n)
<1>4. c \in DOMAIN r /\ b \in DOMAIN s BY <1>3 DEF HasChild
<1>5. /\ r[d].type = s[e].type /\ Fr[d] = f /\ Fs[e] = f
      /\ r[d].map = s[e].map \/ (~r[d].map /\ s[e].all) \/ (~s[e].map /\ r[d].all)
  BY DEF Level
<1>6. KeyMap(r, d) <=> KeyMap(s, e) BY <1>1, <1>5 DEF KeyMap, Mixed
<1>7. x.map /\ ~x.all <=> KeyMap(r, d)
  <2>1. x = Node(r[d].type, FALSE, r[d].map /\ s[e].map, r[d].all /\ s[e].all) BY DEF IsJoin
  <2>2. x.map = (r[d].map /\ s[e].map) /\ x.all = (r[d].all /\ s[e].all) BY <2>1 DEF Node
  <2> QED BY <1>1, <1>5, <1>6, <2>2 DEF KeyMap, Mixed
<1>8. Fr[c] = g /\ Fs[b] = g BY <1>0, <1>3, <1>5, <1>6, <1>7 DEF Named, FieldsBelow
<1>9. ChildFits(r, Fr, P, d, n) /\ ChildFits(s, Fs, Q, e, n) BY <1>0, <1>3 DEF Fitting
<1>10. IsNode(r[c]) /\ IsNode(s[b]) /\ r[c].map \in BOOLEAN /\ s[b].map \in BOOLEAN
  BY <1>0, <1>4, NamedTypes
<1>11. r[c].type = s[b].type /\ (~r[c].leaf /\ ~s[b].leaf => r[c].map = s[b].map)
  <2>1. CASE KeyMap(r, d)
    <3>1. r[c].type = r[d].type /\ ~r[c].map BY <1>9, <2>1 DEF ChildFits
    <3>2. s[b].type = s[e].type /\ ~s[b].map BY <1>6, <1>9, <2>1 DEF ChildFits
    <3> HIDE DEF c, b
    <3> QED BY <1>5, <1>10, <3>1, <3>2
  <2>2. CASE ~KeyMap(r, d)
    <3> DEFINE h == FindChildField(r[d].type, n)
    <3>1. /\ r[c].type = h.type /\ (h.map => r[c].map)
          /\ h.kind = "message" /\ ~h.map => ~r[c].map
          /\ ~r[c].leaf => (h.kind # "message" => r[c].map)
      BY <1>9, <2>2 DEF ChildFits
    <3>2. /\ s[b].type = h.type /\ (h.map => s[b].map)
          /\ h.kind = "message" /\ ~h.map => ~s[b].map
          /\ ~s[b].leaf => (h.kind # "message" => s[b].map)
      BY <1>5, <1>6, <1>9, <2>2 DEF ChildFits
    <3> HIDE DEF c, b, h
    <3>3. ~r[c].leaf /\ ~s[b].leaf => r[c].map = s[b].map BY <1>10, <3>1, <3>2
    <3> QED BY <3>1, <3>2, <3>3
  <2> QED BY <2>1, <2>2
<1>12. Onto(r[d], s[e], d, n) = c /\ Onto(s[e], r[d], e, n) = b BY <1>3 DEF Onto
<1> HIDE DEF c, b, g
<1>13. Level(r, Fr, s, Fs, c, b, g) BY <1>8, <1>11 DEF Level
<1> QED BY <1>3, <1>4, <1>11, <1>12, <1>13 DEF IsKid, g

\* Every child of an intersected node comes from nodes at the same level.
LEMMA Kids ==
  ASSUME NEW r, NEW Fr, NEW P, NamedFor(r, Fr, P), NEW s, NEW Fs, NEW Q, NamedFor(s, Fs, Q), Apart(P, Q),
         NEW d \in DOMAIN r, NEW e \in DOMAIN s, NEW f, Level(r, Fr, s, Fs, d, e, f),
         NEW x, IsJoin(x, r[d], s[e]), NEW n \in Elements, Joint(r, s, d, e, n)
  PROVE  IsKid(r, Fr, s, Fs, d, e, x, f, n)
<1>1. /\ Level(s, Fs, r, Fr, e, d, f) /\ Joint(s, r, e, d, n) /\ IsJoin(x, s[e], r[d]) /\ Apart(Q, P)
  BY Swapped, ApartSwap
<1>2. CASE r[d].leaf BY <1>2, KidOfLeaf
<1>3. CASE s[e].leaf
  <2>1. IsKid(s, Fs, r, Fr, e, d, x, f, n) BY <1>1, <1>3, KidOfLeaf
  <2> QED BY <2>1, KidSwap
<1>4. ASSUME ~r[d].leaf, ~s[e].leaf, Mixed(r[d], s[e]), s[e].all
      PROVE  IsKid(r, Fr, s, Fs, d, e, x, f, n)
  BY <1>4, KidOfKeys
<1>5. ASSUME ~r[d].leaf, ~s[e].leaf, Mixed(r[d], s[e]), r[d].all
      PROVE  IsKid(r, Fr, s, Fs, d, e, x, f, n)
  <2>1. Mixed(s[e], r[d]) BY <1>5 DEF Mixed
  <2>2. IsKid(s, Fs, r, Fr, e, d, x, f, n) BY <1>1, <1>5, <2>1, KidOfKeys
  <2> QED BY <2>2, KidSwap
<1>6. ASSUME ~r[d].leaf, ~s[e].leaf, ~Mixed(r[d], s[e])
      PROVE  IsKid(r, Fr, s, Fs, d, e, x, f, n)
  BY <1>6, KidOfBoth
<1>7. Mixed(r[d], s[e]) => r[d].all \/ s[e].all
  <2>1. r[d].all \in BOOLEAN /\ s[e].all \in BOOLEAN BY NamedTypes DEF NamedFor
  <2> QED BY <2>1 DEF Mixed
<1> QED BY <1>2, <1>3, <1>4, <1>5, <1>6, <1>7

-------------------------------------------------------------------------------
(* An intersection in progress                                                *)

\* The child n of the position p, of which D are there or to come.
Continues(r, s, m, D, A, B, G, p, n) ==
  LET c == Append(p, n)
      a == r[A[p]]
      b == s[B[p]]
  IN  /\ c \in D <=> Joint(r, s, A[p], B[p], n)
      /\ c \in D => /\ A[c] = Onto(a, b, A[p], n) /\ B[c] = Onto(b, a, B[p], n)
                    /\ G[c] = FieldsBelow(m[p], G[p], n)
      /\ c \in DOMAIN m /\ r[A[c]].leaf /\ s[B[c]].leaf =>
           (m[c] = r[A[c]] /\ ~Stays(a, b)) \/ (m[c] = s[B[c]] /\ ~Stays(b, a))

\* The positions above those of D.
AllAbove(D, E) == \A p \in D : \A k \in 0..(Len(p) - 1) : SubSeq(p, 1, k) \in E

\* m is the intersection of the trees r and s, but for what is to come at the
\* positions T; A and B tell where each position comes from, G its fields.
Merges(r, Fr, s, Fs, m, T, A, B, G) ==
  LET D == DOMAIN m \cup T
  IN  /\ A \in [D -> DOMAIN r] /\ B \in [D -> DOMAIN s] /\ G \in [D -> Seq(Elements)]
      /\ IsTree(m) /\ T \subseteq Positions \ DOMAIN m /\ AllAbove(D, DOMAIN m)
      /\ <<>> \in D /\ A[<<>>] = <<>> /\ B[<<>>] = <<>> /\ G[<<>>] = <<>>
      /\ \A p \in D : Level(r, Fr, s, Fs, A[p], B[p], G[p])
      /\ \A p \in DOMAIN m : IsJoin(m[p], r[A[p]], s[B[p]])
      /\ \A p \in DOMAIN m, n \in Elements : Continues(r, s, m, D, A, B, G, p, n)

\* The parent of a position is above it.
LEMMA Parents ==
  ASSUME NEW D, NEW E, AllAbove(D, E), NEW p \in Positions, NEW n \in Elements, Append(p, n) \in D
  PROVE  p \in E
<1>1. Len(Append(p, n)) = Len(p) + 1 /\ Len(p) \in Nat BY DEF Positions
<1>2. SubSeq(Append(p, n), 1, Len(p)) = p BY DEF Positions
<1>3. Len(p) \in 0..(Len(Append(p, n)) - 1) BY <1>1
<1> QED BY <1>2, <1>3 DEF AllAbove

\* A node that is one of the other tree fits as it does there.
LEMMA FitsAs ==
  ASSUME NEW t, NEW F, NEW P, NEW d, NEW n, ChildFits(t, F, P, d, n),
         NEW m, NEW G, NEW P2, P \subseteq P2, NEW p, NEW c, c = Append(p, n),
         m[p].type = t[d].type, KeyMap(m, p) <=> KeyMap(t, d),
         m[c] = t[Append(d, n)], G[c] = F[Append(d, n)]
  PROVE  ChildFits(m, G, P2, p, n)
<1>1. \A f, sorts : Addressed(P, f, sorts) => Addressed(P2, f, sorts) BY DEF Addressed
<1>2. KeyMap(m, c) <=> KeyMap(t, Append(d, n)) BY DEF KeyMap
<1> DEFINE c2 == Append(d, n)
<1>3. CASE KeyMap(t, d)
  <2>1. t[c2].type = t[d].type /\ ~t[c2].all /\ ~t[c2].map /\ Addressed(P, F[c2], {SortOf(n, t[c2].leaf)})
    BY <1>3 DEF ChildFits
  <2> HIDE DEF c2
  <2>2. Addressed(P2, F[c2], {SortOf(n, t[c2].leaf)}) BY <1>1, <2>1
  <2>3. m[c] = t[c2] /\ G[c] = F[c2] BY DEF c2
  <2> QED BY <1>3, <2>1, <2>2, <2>3 DEF ChildFits
<1>4. CASE ~KeyMap(t, d)
  <2> DEFINE f == FindChildField(t[d].type, n)
  <2>1. /\ t[d].type # NoType /\ n \in FieldNames(t[d].type) /\ t[c2].type = f.type
        /\ t[c2].all => f.map
        /\ f.map => t[c2].map
        /\ f.kind = "message" /\ ~f.map => ~t[c2].map
        /\ ~t[c2].leaf => /\ f.kind # "message" => t[c2].map
                          /\ t[c2].all => Addressed(P, F[c2], {"all"})
                          /\ KeyMap(t, c2) => Addressed(P, F[c2], KeyedSorts)
    BY <1>4 DEF ChildFits
  <2>2. f = FindChildField(m[p].type, n) /\ m[p].type = t[d].type OBVIOUS
  <2>3. m[c] = t[c2] /\ G[c] = F[c2] /\ (KeyMap(m, c) <=> KeyMap(t, c2)) BY <1>2
  <2> HIDE DEF c2, f
  <2>4. /\ m[p].type # NoType /\ n \in FieldNames(m[p].type) /\ m[c].type = f.type
        /\ m[c].all => f.map
        /\ f.map => m[c].map
        /\ f.kind = "message" /\ ~f.map => ~m[c].map
        /\ ~m[c].leaf => /\ f.kind # "message" => m[c].map
                         /\ m[c].all => Addressed(P2, G[c], {"all"})
                         /\ KeyMap(m, c) => Addressed(P2, G[c], KeyedSorts)
    BY <1>1, <2>1, <2>2, <2>3
  <2>5. ~KeyMap(m, p) BY <1>4
  <2> QED BY <2>2, <2>4, <2>5 DEF ChildFits
<1> QED BY <1>3, <1>4

\* The nodes p and d have children of the same sort.
SameSort(m, p, t, d) == m[p].type = t[d].type /\ (KeyMap(m, p) <=> KeyMap(t, d))

\* Both nodes go on, as maps or not.
Equals(r, c1, s, c2) ==
  IsNode(r[c1]) /\ IsNode(s[c2]) /\ ~r[c1].leaf /\ ~s[c2].leaf /\ r[c1].map = s[c2].map

\* A child that is the intersection of two fits.
LEMMA FitsBoth ==
  ASSUME NEW r, NEW Fr, NEW P, NEW d, NEW s, NEW Fs, NEW Q, NEW e, NEW n,
         ChildFits(r, Fr, P, d, n), ChildFits(s, Fs, Q, e, n),
         NEW m, NEW G, NEW p, NEW c, c = Append(p, n), NEW c1, c1 = Append(d, n), NEW c2, c2 = Append(e, n),
         SameSort(m, p, r, d), SameSort(m, p, s, e), Equals(r, c1, s, c2),
         IsJoin(m[c], r[c1], s[c2]),
         G[c] = Fr[c1], G[c] = Fs[c2]
  PROVE  ChildFits(m, G, P \cup Q, p, n)
<1>0. /\ m[p].type = r[d].type /\ m[p].type = s[e].type
      /\ KeyMap(m, p) <=> KeyMap(r, d)
      /\ KeyMap(m, p) <=> KeyMap(s, e)
      /\ ~r[c1].leaf /\ ~s[c2].leaf /\ r[c1].map = s[c2].map
  BY DEF SameSort, Equals
<1>1. \A f, sorts : Addressed(P, f, sorts) \/ Addressed(Q, f, sorts) => Addressed(P \cup Q, f, sorts)
  BY DEF Addressed
<1>2. /\ m[c].type = r[c1].type /\ ~m[c].leaf /\ m[c].map = r[c1].map
      /\ m[c].all <=> r[c1].all /\ s[c2].all
      /\ r[c1].map \in BOOLEAN /\ r[c1].all \in BOOLEAN /\ s[c2].all \in BOOLEAN
  <2>1. m[c] = Node(r[c1].type, FALSE, r[c1].map /\ s[c2].map, r[c1].all /\ s[c2].all)
    BY DEF IsJoin, Equals
  <2> QED BY <2>1 DEF Node, IsNode, Equals
<1>3. CASE KeyMap(m, p)
  <2>1. r[c1].type = r[d].type /\ ~r[c1].all /\ ~r[c1].map /\ Addressed(P, Fr[c1], {SortOf(n, r[c1].leaf)})
    BY <1>0, <1>3 DEF ChildFits
  <2>2. SortOf(n, r[c1].leaf) = SortOf(n, m[c].leaf) BY <1>0, <1>2 DEF SortOf
  <2>3. Addressed(P \cup Q, G[c], {SortOf(n, m[c].leaf)}) BY <1>1, <2>1, <2>2
  <2> QED BY <1>0, <1>2, <1>3, <2>1, <2>3 DEF ChildFits
<1>4. CASE ~KeyMap(m, p)
  <2> DEFINE f == FindChildField(m[p].type, n)
  <2>1. /\ r[d].type # NoType /\ n \in FieldNames(r[d].type) /\ r[c1].type = f.type
        /\ r[c1].all => f.map
        /\ f.map => r[c1].map
        /\ f.kind = "message" /\ ~f.map => ~r[c1].map
        /\ f.kind # "message" => r[c1].map
        /\ r[c1].all => Addressed(P, Fr[c1], {"all"})
        /\ KeyMap(r, c1) => Addressed(P, Fr[c1], KeyedSorts)
    BY <1>0, <1>4 DEF ChildFits
  <2>2. KeyMap(s, c2) => Addressed(Q, Fs[c2], KeyedSorts)
    BY <1>0, <1>4 DEF ChildFits
  <2> HIDE DEF f
  <2>3. KeyMap(m, c) => KeyMap(r, c1) \/ KeyMap(s, c2) BY <1>0, <1>2 DEF KeyMap
  <2>4. /\ m[c].all => Addressed(P \cup Q, G[c], {"all"})
        /\ KeyMap(m, c) => Addressed(P \cup Q, G[c], KeyedSorts)
    BY <1>1, <1>2, <2>1, <2>2, <2>3
  <2> QED BY <1>0, <1>2, <1>4, <2>1, <2>4 DEF ChildFits, f
<1> QED BY <1>3, <1>4

\* One of the two stays: the children of the intersection are those of the other.
LEMMA FitsLone ==
  ASSUME NEW r, NEW Fr, NEW P, NamedFor(r, Fr, P), NEW s, NEW Fs, NEW Q, NamedFor(s, Fs, Q),
         NEW m, NEW G, NEW p, NEW n \in Elements, NEW c, c = Append(p, n),
         NEW d \in DOMAIN r, NEW e \in DOMAIN s, Level(r, Fr, s, Fs, d, e, G[p]), IsJoin(m[p], r[d], s[e]),
         Joint(r, s, d, e, n), r[d].leaf,
         NEW e2, e2 = Append(e, n), IsJoin(m[c], r[d], s[e2]), s[e2].leaf => m[c] = s[e2],
         G[c] = FieldsBelow(m[p], G[p], n)
  PROVE  ChildFits(m, G, P \cup Q, p, n)
<1>0. Named(s, Fs) /\ Fitting(s, Fs, Q) BY DEF NamedFor
<1>1. ~s[e].leaf /\ m[p] = s[e] /\ G[p] = Fs[e] /\ HasChild(s, e, n)
  BY DEF Joint, Stays, IsJoin, Level
<1>2. m[c] = s[e2] BY DEF IsJoin
<1>3. Fs[e2] = IF KeyMap(s, e) THEN Fs[e] ELSE Append(Fs[e], n) BY <1>0, <1>1 DEF Named
<1>4. G[c] = Fs[e2] BY <1>1, <1>3 DEF FieldsBelow, KeyMap
<1>5. ChildFits(s, Fs, Q, e, n) BY <1>0, <1>1 DEF Fitting
<1>6. m[p].type = s[e].type /\ (KeyMap(m, p) <=> KeyMap(s, e)) BY <1>1 DEF KeyMap
<1>7. Q \subseteq P \cup Q OBVIOUS
<1> QED BY <1>2, <1>4, <1>5, <1>6, <1>7, FitsAs

\* A map that lists keys met one with all keys.
LEMMA FitsKeys ==
  ASSUME NEW r, NEW Fr, NEW P, NamedFor(r, Fr, P), NEW s, NEW Fs, NEW Q, NamedFor(s, Fs, Q), Apart(P, Q),
         NEW m, NEW G, NEW p, NEW n \in Elements, NEW c, c = Append(p, n),
         NEW d \in DOMAIN r, NEW e \in DOMAIN s, Level(r, Fr, s, Fs, d, e, G[p]), IsJoin(m[p], r[d], s[e]),
         Joint(r, s, d, e, n), ~r[d].leaf, ~s[e].leaf, Mixed(r[d], s[e]), s[e].all,
         NEW d2, d2 = Append(d, n), IsJoin(m[c], r[d2], s[e]),
         G[c] = FieldsBelow(m[p], G[p], n)
  PROVE  ChildFits(m, G, P \cup Q, p, n)
<1>0. Named(r, Fr) /\ Fitting(r, Fr, P) BY DEF NamedFor
<1>1. r[d].all \in BOOLEAN /\ s[e].all \in BOOLEAN BY NamedTypes DEF NamedFor
<1>2. /\ r[d].map /\ s[e].map /\ ~r[d].all /\ Stays(s[e], r[d]) /\ ~Stays(r[d], s[e])
      /\ HasChild(r, d, n) /\ r[d].type = s[e].type
  BY <1>1 DEF Mixed, Stays, Joint, Level
<1>3. KeyMap(r, d) BY <1>2 DEF KeyMap
<1>4. m[p].type = r[d].type /\ m[p].map /\ ~m[p].all
  <2>1. m[p] = Node(r[d].type, FALSE, r[d].map /\ s[e].map, r[d].all /\ s[e].all) BY DEF IsJoin
  <2>2. m[p].map = (r[d].map /\ s[e].map) /\ m[p].all = (r[d].all /\ s[e].all) /\ m[p].type = r[d].type
    BY <2>1 DEF Node
  <2> QED BY <1>2, <2>2
<1>5. IsKid(r, Fr, s, Fs, d, e, m[p], G[p], n) BY Kids
<1>6. ~r[d2].leaf BY <1>2, <1>5 DEF IsKid, Onto
<1>7. /\ r[d2].type = r[d].type /\ ~r[d2].all /\ ~r[d2].map
      /\ Addressed(P, Fr[d2], {SortOf(n, r[d2].leaf)})
  <2>1. ChildFits(r, Fr, P, d, n) BY <1>0, <1>2 DEF Fitting
  <2> QED BY <1>3, <2>1 DEF ChildFits
<1>8. m[c].type = r[d2].type /\ ~m[c].leaf /\ ~m[c].map /\ ~m[c].all
  <2>1. m[c] = Node(r[d2].type, FALSE, r[d2].map /\ s[e].map, r[d2].all /\ s[e].all) BY <1>6 DEF IsJoin
  <2>2. /\ m[c].map = (r[d2].map /\ s[e].map) /\ m[c].all = (r[d2].all /\ s[e].all)
        /\ m[c].type = r[d2].type /\ m[c].leaf = FALSE
    BY <2>1 DEF Node
  <2> QED BY <1>7, <2>2
<1>9. SortOf(n, m[c].leaf) = SortOf(n, r[d2].leaf) BY <1>6, <1>8 DEF SortOf
<1>10. G[c] = Fr[d2]
  <2>1. Fr[d2] = Fr[d] BY <1>0, <1>2, <1>3 DEF Named
  <2>2. G[p] = Fr[d] BY DEF Level
  <2> QED BY <1>4, <2>1, <2>2 DEF FieldsBelow
<1>11. Addressed(P \cup Q, G[c], {SortOf(n, m[c].leaf)})
  BY <1>7, <1>9, <1>10 DEF Addressed
<1> QED BY <1>4, <1>7, <1>8, <1>11 DEF ChildFits, KeyMap

\* Maps of the same sort, or no maps.
LEMMA FitsSame ==
  ASSUME NEW r, NEW Fr, NEW P, NamedFor(r, Fr, P), NEW s, NEW Fs, NEW Q, NamedFor(s, Fs, Q), Apart(P, Q),
         NEW m, NEW G, NEW p, NEW n \in Elements, NEW c, c = Append(p, n),
         NEW d \in DOMAIN r, NEW e \in DOMAIN s, Level(r, Fr, s, Fs, d, e, G[p]), IsJoin(m[p], r[d], s[e]),
         Joint(r, s, d, e, n), ~r[d].leaf, ~s[e].leaf, ~Mixed(r[d], s[e]),
         NEW d2, d2 = Append(d, n), NEW e2, e2 = Append(e, n), IsJoin(m[c], r[d2], s[e2]),
         G[c] = FieldsBelow(m[p], G[p], n)
  PROVE  ChildFits(m, G, P \cup Q, p, n)
<1>0. Named(r, Fr) /\ Fitting(r, Fr, P) /\ Named(s, Fs) /\ Fitting(s, Fs, Q) BY DEF NamedFor
<1>1. /\ r[d].all \in BOOLEAN /\ s[e].all \in BOOLEAN /\ r[d].map \in BOOLEAN /\ s[e].map \in BOOLEAN
      /\ r[d].all => r[d].map
      /\ s[e].all => s[e].map
  BY <1>0, NamedTypes, AllNode
<1>2. ~Stays(r[d], s[e]) /\ ~Stays(s[e], r[d]) BY DEF Stays, Mixed
<1>3. HasChild(r, d, n) /\ HasChild(s, e, n) BY <1>2 DEF Joint
<1>4. /\ r[d].type = s[e].type /\ Fr[d] = G[p] /\ Fs[e] = G[p]
      /\ r[d].map = s[e].map \/ (~r[d].map /\ s[e].all) \/ (~s[e].map /\ r[d].all)
  BY DEF Level
<1>5. KeyMap(r, d) <=> KeyMap(s, e) BY <1>1, <1>4 DEF KeyMap, Mixed
<1>6. m[p].type = r[d].type /\ (KeyMap(m, p) <=> KeyMap(r, d))
  <2>1. m[p] = Node(r[d].type, FALSE, r[d].map /\ s[e].map, r[d].all /\ s[e].all) BY DEF IsJoin
  <2>2. m[p].map = (r[d].map /\ s[e].map) /\ m[p].all = (r[d].all /\ s[e].all) /\ m[p].type = r[d].type
    BY <2>1 DEF Node
  <2> QED BY <1>1, <1>4, <1>5, <2>2 DEF KeyMap, Mixed
<1>7. Fr[d2] = G[c] /\ Fs[e2] = G[c]
  <2>1. Fr[d2] = IF KeyMap(r, d) THEN Fr[d] ELSE Append(Fr[d], n) BY <1>0, <1>3 DEF Named
  <2>2. Fs[e2] = IF KeyMap(s, e) THEN Fs[e] ELSE Append(Fs[e], n) BY <1>0, <1>3 DEF Named
  <2>3. G[c] = IF KeyMap(m, p) THEN G[p] ELSE Append(G[p], n) BY DEF FieldsBelow, KeyMap
  <2> QED BY <1>4, <1>5, <1>6, <2>1, <2>2, <2>3
<1>8. ChildFits(r, Fr, P, d, n) /\ ChildFits(s, Fs, Q, e, n) BY <1>0, <1>3 DEF Fitting
<1>9. IsKid(r, Fr, s, Fs, d, e, m[p], G[p], n) BY Kids
<1>10. d2 \in DOMAIN r /\ e2 \in DOMAIN s /\ (~r[d2].leaf /\ ~s[e2].leaf => r[d2].map = s[e2].map)
  BY <1>2, <1>9 DEF IsKid, Onto
<1>11. IsNode(r[d2]) /\ IsNode(s[e2]) BY <1>0, <1>10, NamedTypes
<1>12. ASSUME m[c] = r[d2] PROVE ChildFits(m, G, P \cup Q, p, n)
  <2>1. P \subseteq P \cup Q OBVIOUS
  <2>2. G[c] = Fr[d2] BY <1>7
  <2> QED BY <1>6, <1>8, <1>12, <2>1, <2>2, FitsAs
<1>13. ASSUME m[c] = s[e2] PROVE ChildFits(m, G, P \cup Q, p, n)
  <2>1. Q \subseteq P \cup Q OBVIOUS
  <2>2. G[c] = Fs[e2] /\ m[p].type = s[e].type /\ (KeyMap(m, p) <=> KeyMap(s, e)) BY <1>4, <1>5, <1>6, <1>7
  <2> QED BY <1>8, <1>13, <2>1, <2>2, FitsAs
<1>14. ASSUME ~r[d2].leaf, ~s[e2].leaf PROVE ChildFits(m, G, P \cup Q, p, n)
  <2>1. SameSort(m, p, r, d) /\ SameSort(m, p, s, e) BY <1>4, <1>5, <1>6 DEF SameSort
  <2>2. Equals(r, d2, s, e2) BY <1>10, <1>11, <1>14 DEF Equals
  <2>3. G[c] = Fr[d2] /\ G[c] = Fs[e2] BY <1>7
  <2> QED BY <1>8, <2>1, <2>2, <2>3, FitsBoth
<1> QED BY <1>12, <1>13, <1>14 DEF IsJoin

\* The intersection with r and s in the other order.
LEMMA MergesSwap ==
  ASSUME NEW r, NEW Fr, NEW s, NEW Fs, NEW m, NEW T, NEW A, NEW B, NEW G,
         Merges(r, Fr, s, Fs, m, T, A, B, G)
  PROVE  Merges(s, Fs, r, Fr, m, T, B, A, G)
<1> DEFINE D == DOMAIN m \cup T
<1>1. /\ A \in [D -> DOMAIN r] /\ B \in [D -> DOMAIN s] /\ G \in [D -> Seq(Elements)]
      /\ IsTree(m) /\ T \subseteq Positions \ DOMAIN m /\ AllAbove(D, DOMAIN m)
      /\ <<>> \in D /\ A[<<>>] = <<>> /\ B[<<>>] = <<>> /\ G[<<>>] = <<>>
      /\ \A p \in D : Level(r, Fr, s, Fs, A[p], B[p], G[p])
      /\ \A p \in DOMAIN m : IsJoin(m[p], r[A[p]], s[B[p]])
      /\ \A p \in DOMAIN m, n \in Elements : Continues(r, s, m, D, A, B, G, p, n)
  BY DEF Merges
<1> HIDE DEF D
<1>2. \A p \in D : Level(s, Fs, r, Fr, B[p], A[p], G[p]) BY <1>1, Swapped
<1>3. DOMAIN m \subseteq D BY DEF D
<1>4. ASSUME NEW p \in DOMAIN m PROVE IsJoin(m[p], s[B[p]], r[A[p]])
  <2>1. p \in D /\ Level(r, Fr, s, Fs, A[p], B[p], G[p]) /\ IsJoin(m[p], r[A[p]], s[B[p]]) BY <1>1, <1>3
  <2> QED BY <2>1, Swapped
<1>5. ASSUME NEW p \in DOMAIN m, NEW n \in Elements PROVE Continues(s, r, m, D, B, A, G, p, n)
  <2>1. Level(r, Fr, s, Fs, A[p], B[p], G[p]) /\ Continues(r, s, m, D, A, B, G, p, n) BY <1>1, <1>3
  <2>2. Joint(r, s, A[p], B[p], n) <=> Joint(s, r, B[p], A[p], n) BY <2>1, Swapped
  <2> QED BY <2>1, <2>2 DEF Continues
<1> QED BY <1>1, <1>2, <1>4, <1>5 DEF Merges, D

\* What the intersection has at a child of a position.
MergedChild(r, Fr, s, Fs, m, A, B, G, p, n) ==
  LET c == Append(p, n)
  IN  /\ Joint(r, s, A[p], B[p], n)
      /\ Level(r, Fr, s, Fs, A[p], B[p], G[p]) /\ IsJoin(m[p], r[A[p]], s[B[p]])
      /\ A[p] \in DOMAIN r /\ B[p] \in DOMAIN s
      /\ IsJoin(m[c], r[A[c]], s[B[c]])
      /\ A[c] = Onto(r[A[p]], s[B[p]], A[p], n) /\ B[c] = Onto(s[B[p]], r[A[p]], B[p], n)
      /\ G[c] = FieldsBelow(m[p], G[p], n)
      /\ r[A[c]].leaf /\ s[B[c]].leaf =>
           (m[c] = r[A[c]] /\ ~Stays(r[A[p]], s[B[p]])) \/ (m[c] = s[B[c]] /\ ~Stays(s[B[p]], r[A[p]]))

\* The two trees may be swapped.
LEMMA ChildSwap ==
  ASSUME NEW r, NEW Fr, NEW s, NEW Fs, NEW m, NEW A, NEW B, NEW G, NEW p, NEW n,
         NEW c, c = Append(p, n), Level(r, Fr, s, Fs, A[c], B[c], G[c]),
         MergedChild(r, Fr, s, Fs, m, A, B, G, p, n)
  PROVE  MergedChild(s, Fs, r, Fr, m, B, A, G, p, n)
<1> DEFINE d == A[p]
           e == B[p]
           d2 == A[c]
           e2 == B[c]
<1>1. /\ Joint(r, s, d, e, n)
      /\ Level(r, Fr, s, Fs, d, e, G[p]) /\ IsJoin(m[p], r[d], s[e])
      /\ d \in DOMAIN r /\ e \in DOMAIN s
      /\ IsJoin(m[c], r[d2], s[e2])
      /\ d2 = Onto(r[d], s[e], d, n) /\ e2 = Onto(s[e], r[d], e, n)
      /\ G[c] = FieldsBelow(m[p], G[p], n)
      /\ r[d2].leaf /\ s[e2].leaf =>
           (m[c] = r[d2] /\ ~Stays(r[d], s[e])) \/ (m[c] = s[e2] /\ ~Stays(s[e], r[d]))
      /\ Level(r, Fr, s, Fs, d2, e2, G[c])
  BY DEF MergedChild
<1> HIDE DEF d, e, d2, e2
<1>2. Joint(s, r, e, d, n) /\ Level(s, Fs, r, Fr, e, d, G[p]) /\ IsJoin(m[p], s[e], r[d])
  BY <1>1, Swapped
<1>3. IsJoin(m[c], s[e2], r[d2]) BY <1>1, Swapped
<1> QED BY <1>1, <1>2, <1>3 DEF MergedChild, d, e, d2, e2

\* A child of the merged tree has its parent there.
LEMMA ChildOf ==
  ASSUME NEW r, NEW Fr, NEW s, NEW Fs, NEW m, NEW A, NEW B, NEW G, NEW T,
         Merges(r, Fr, s, Fs, m, T, A, B, G), NEW p \in Positions, NEW n \in Elements,
         NEW c, c = Append(p, n), c \in DOMAIN m
  PROVE  /\ p \in DOMAIN m /\ MergedChild(r, Fr, s, Fs, m, A, B, G, p, n)
         /\ Level(r, Fr, s, Fs, A[c], B[c], G[c])
<1> DEFINE D == DOMAIN m \cup T
<1>1. /\ A \in [D -> DOMAIN r] /\ B \in [D -> DOMAIN s] /\ AllAbove(D, DOMAIN m)
      /\ \A x \in D : Level(r, Fr, s, Fs, A[x], B[x], G[x])
      /\ \A x \in DOMAIN m : IsJoin(m[x], r[A[x]], s[B[x]])
      /\ \A x \in DOMAIN m, y \in Elements : Continues(r, s, m, D, A, B, G, x, y)
  BY DEF Merges
<1>2. DOMAIN m \subseteq D /\ c \in D OBVIOUS
<1> HIDE DEF D
<1>3. p \in DOMAIN m BY <1>1, <1>2, Parents
<1>4. Continues(r, s, m, D, A, B, G, p, n) /\ Level(r, Fr, s, Fs, A[c], B[c], G[c]) BY <1>1, <1>2, <1>3
<1>5. /\ A[p] \in DOMAIN r /\ B[p] \in DOMAIN s /\ Level(r, Fr, s, Fs, A[p], B[p], G[p])
      /\ IsJoin(m[p], r[A[p]], s[B[p]]) /\ IsJoin(m[c], r[A[c]], s[B[c]])
  BY <1>1, <1>2, <1>3
<1> QED BY <1>2, <1>3, <1>4, <1>5 DEF Continues, MergedChild

\* Each node of the intersection follows from the paths of both trees.
LEMMA MergedFits ==
  ASSUME NEW r, NEW Fr, NEW P, NamedFor(r, Fr, P), NEW s, NEW Fs, NEW Q, NamedFor(s, Fs, Q), Apart(P, Q),
         NEW m, NEW A, NEW B, NEW G, NEW p, NEW n \in Elements,
         MergedChild(r, Fr, s, Fs, m, A, B, G, p, n),
         r[A[p]].leaf \/ (~s[B[p]].leaf /\ (Mixed(r[A[p]], s[B[p]]) => s[B[p]].all))
  PROVE  ChildFits(m, G, P \cup Q, p, n)
<1> DEFINE c == Append(p, n)
           d == A[p]
           e == B[p]
           d2 == Append(d, n)
           e2 == Append(e, n)
<1>1. /\ Joint(r, s, d, e, n)
      /\ Level(r, Fr, s, Fs, d, e, G[p]) /\ IsJoin(m[p], r[d], s[e])
      /\ d \in DOMAIN r /\ e \in DOMAIN s
      /\ IsJoin(m[c], r[A[c]], s[B[c]])
      /\ A[c] = Onto(r[d], s[e], d, n) /\ B[c] = Onto(s[e], r[d], e, n)
      /\ G[c] = FieldsBelow(m[p], G[p], n)
      /\ r[A[c]].leaf /\ s[B[c]].leaf =>
           (m[c] = r[A[c]] /\ ~Stays(r[d], s[e])) \/ (m[c] = s[B[c]] /\ ~Stays(s[e], r[d]))
  BY DEF MergedChild
<1>2. r[d].leaf \/ (~s[e].leaf /\ (Mixed(r[d], s[e]) => s[e].all)) OBVIOUS
<1>3. c = Append(p, n) /\ d2 = Append(d, n) /\ e2 = Append(e, n) OBVIOUS
<1> HIDE DEF c, d, e, d2, e2
<1>4. CASE r[d].leaf
  <2>1. Stays(r[d], s[e]) /\ ~Stays(s[e], r[d]) BY <1>1, <1>4 DEF Joint, Stays
  <2>2. A[c] = d /\ B[c] = e2 BY <1>1, <1>3, <2>1 DEF Onto
  <2>3. IsJoin(m[c], r[d], s[e2]) /\ (s[e2].leaf => m[c] = s[e2]) BY <1>1, <1>4, <2>1, <2>2
  <2> QED BY <1>1, <1>3, <1>4, <2>3, FitsLone
<1>5. ASSUME ~r[d].leaf, ~s[e].leaf, Mixed(r[d], s[e]), s[e].all PROVE ChildFits(m, G, P \cup Q, p, n)
  <2>0. r[d].all \in BOOLEAN /\ s[e].all \in BOOLEAN BY <1>1, NamedTypes DEF NamedFor
  <2>1. ~Stays(r[d], s[e]) /\ Stays(s[e], r[d]) BY <1>5, <2>0 DEF Mixed, Stays
  <2>2. A[c] = d2 /\ B[c] = e BY <1>1, <1>3, <2>1 DEF Onto
  <2>3. IsJoin(m[c], r[d2], s[e]) BY <1>1, <2>2
  <2> QED BY <1>1, <1>3, <1>5, <2>3, FitsKeys
<1>6. ASSUME ~r[d].leaf, ~s[e].leaf, ~Mixed(r[d], s[e]) PROVE ChildFits(m, G, P \cup Q, p, n)
  <2>1. ~Stays(r[d], s[e]) /\ ~Stays(s[e], r[d]) BY <1>6 DEF Mixed, Stays
  <2>2. A[c] = d2 /\ B[c] = e2 BY <1>1, <1>3, <2>1 DEF Onto
  <2>3. IsJoin(m[c], r[d2], s[e2]) BY <1>1, <2>2
  <2> QED BY <1>1, <1>3, <1>6, <2>3, FitsSame
<1> QED BY <1>2, <1>4, <1>5, <1>6

\* The intersection of two trees formed by paths is one of the paths of both.
LEMMA MergedFormed ==
  ASSUME NEW r, NEW Fr, NEW P, NamedFor(r, Fr, P), NEW s, NEW Fs, NEW Q, NamedFor(s, Fs, Q), Apart(P, Q),
         NEW m, NEW A, NEW B, NEW G, Merges(r, Fr, s, Fs, m, {}, A, B, G)
  PROVE  NamedFor(m, G, P \cup Q)
<1>0. Named(r, Fr) /\ Named(s, Fs) BY DEF NamedFor
<1>1. /\ G \in [DOMAIN m -> Seq(Elements)] /\ IsTree(m)
      /\ <<>> \in DOMAIN m /\ A[<<>>] = <<>> /\ B[<<>>] = <<>> /\ G[<<>>] = <<>>
      /\ IsJoin(m[<<>>], r[<<>>], s[<<>>])
  <2>1. DOMAIN m \cup {} = DOMAIN m OBVIOUS
  <2> QED BY <2>1 DEF Merges
<1>2. DOMAIN m \subseteq Positions BY <1>1 DEF IsTree
<1>3. ASSUME NEW p \in Positions, NEW n \in Elements, HasChild(m, p, n)
      PROVE  p \in DOMAIN m /\ MergedChild(r, Fr, s, Fs, m, A, B, G, p, n)
             /\ Level(r, Fr, s, Fs, A[Append(p, n)], B[Append(p, n)], G[Append(p, n)])
  <2> DEFINE c == Append(p, n)
  <2>1. c = Append(p, n) /\ c \in DOMAIN m BY <1>3 DEF HasChild
  <2> HIDE DEF c
  <2>2. /\ p \in DOMAIN m /\ MergedChild(r, Fr, s, Fs, m, A, B, G, p, n)
        /\ Level(r, Fr, s, Fs, A[c], B[c], G[c])
    BY <2>1, ChildOf
  <2> QED BY <2>1, <2>2
<1>4. Rooted(m) BY <1>1, <1>3 DEF Rooted
<1>5. ~m[<<>>].all /\ ~m[<<>>].map /\ m[<<>>].type = RootType
  <2>1. /\ ~r[<<>>].all /\ ~r[<<>>].map /\ r[<<>>].type = RootType
        /\ ~s[<<>>].all /\ ~s[<<>>].map /\ s[<<>>].type = RootType
    BY <1>0 DEF Named
  <2> DEFINE a == r[<<>>]
             b == s[<<>>]
             x == m[<<>>]
  <2>2. ~a.leaf /\ ~b.leaf => x = Node(a.type, FALSE, a.map /\ b.map, a.all /\ b.all)
    BY <1>1 DEF IsJoin
  <2>3. x = a \/ x = b \/ (~a.leaf /\ ~b.leaf) BY <1>1 DEF IsJoin
  <2>4. ASSUME ~a.leaf, ~b.leaf PROVE ~x.all /\ ~x.map /\ x.type = RootType
    <3> HIDE DEF a, b, x
    <3>1. x.map = (a.map /\ b.map) /\ x.all = (a.all /\ b.all) /\ x.type = a.type
      BY <2>2, <2>4 DEF Node
    <3> QED BY <2>1, <3>1 DEF a, b
  <2> QED BY <2>1, <2>3, <2>4
<1>6. \A p \in DOMAIN m, n \in Elements :
        HasChild(m, p, n) => G[Append(p, n)] = IF KeyMap(m, p) THEN G[p] ELSE Append(G[p], n)
  BY <1>2, <1>3 DEF MergedChild, FieldsBelow, KeyMap
<1>7. Named(m, G) BY <1>1, <1>4, <1>5, <1>6 DEF Named
<1>8. ASSUME NEW p \in DOMAIN m, NEW n \in Elements, HasChild(m, p, n) PROVE ChildFits(m, G, P \cup Q, p, n)
  <2>1. MergedChild(r, Fr, s, Fs, m, A, B, G, p, n) BY <1>2, <1>3, <1>8
  <2>2. CASE r[A[p]].leaf \/ (~s[B[p]].leaf /\ (Mixed(r[A[p]], s[B[p]]) => s[B[p]].all))
    BY <2>1, <2>2, MergedFits
  <2>3. CASE s[B[p]].leaf \/ (~r[A[p]].leaf /\ (Mixed(s[B[p]], r[A[p]]) => r[A[p]].all))
    <3> DEFINE c == Append(p, n)
    <3>1. Level(r, Fr, s, Fs, A[c], B[c], G[c]) BY <1>2, <1>3, <1>8
    <3> HIDE DEF c
    <3>2. MergedChild(s, Fs, r, Fr, m, B, A, G, p, n) BY <2>1, <3>1, ChildSwap DEF c
    <3>3. ChildFits(m, G, Q \cup P, p, n) BY <2>3, <3>2, ApartSwap, MergedFits
    <3>4. Q \cup P = P \cup Q OBVIOUS
    <3> QED BY <3>3, <3>4
  <2>4. Mixed(r[A[p]], s[B[p]]) => s[B[p]].all \/ r[A[p]].all
    <3>1. A[p] \in DOMAIN r /\ B[p] \in DOMAIN s BY <2>1 DEF MergedChild
    <3>2. r[A[p]].all \in BOOLEAN /\ s[B[p]].all \in BOOLEAN BY <1>0, <3>1, NamedTypes
    <3> QED BY <3>2 DEF Mixed
  <2> QED BY <2>2, <2>3, <2>4
<1>9. Fitting(m, G, P \cup Q) BY <1>8 DEF Fitting
<1> QED BY <1>7, <1>9 DEF NamedFor

-------------------------------------------------------------------------------
(* The verdict of an intersection                                             *)

\* m is the intersection of r, formed by the paths P, and s, formed by Q.
Meets(r, Fr, P, s, Fs, Q, m, A, B, G) ==
  /\ NamedFor(r, Fr, P) /\ NamedFor(s, Fs, Q) /\ Apart(P, Q)
  /\ Merges(r, Fr, s, Fs, m, {}, A, B, G)

\* The two trees may be swapped.
LEMMA MeetsSwap ==
  ASSUME NEW r, NEW Fr, NEW P, NEW s, NEW Fs, NEW Q, NEW m, NEW A, NEW B, NEW G,
         Meets(r, Fr, P, s, Fs, Q, m, A, B, G)
  PROVE  Meets(s, Fs, Q, r, Fr, P, m, B, A, G)
<1>1. /\ NamedFor(r, Fr, P) /\ NamedFor(s, Fs, Q) /\ Apart(P, Q)
      /\ Merges(r, Fr, s, Fs, m, {}, A, B, G)
  BY DEF Meets
<1>2. Apart(Q, P) BY <1>1, ApartSwap
<1>3. Merges(s, Fs, r, Fr, m, {}, B, A, G) BY <1>1, MergesSwap
<1> QED BY <1>1, <1>2, <1>3 DEF Meets

\* A position of the intersection.
LEMMA JoinAt ==
  ASSUME NEW r, NEW Fr, NEW P, NEW s, NEW Fs, NEW Q, NEW m, NEW A, NEW B, NEW G,
         Meets(r, Fr, P, s, Fs, Q, m, A, B, G), NEW p \in DOMAIN m, NEW d, d = A[p], NEW e, e = B[p]
  PROVE  /\ d \in DOMAIN r /\ e \in DOMAIN s /\ p \in Positions
         /\ IsNode(r[d]) /\ IsNode(s[e]) /\ IsNode(m[p])
         /\ Level(r, Fr, s, Fs, d, e, G[p]) /\ IsJoin(m[p], r[d], s[e])
         /\ \A n \in Elements : HasChild(m, p, n) <=> Joint(r, s, d, e, n)
         /\ m[p].leaf <=> r[d].leaf /\ s[e].leaf
<1> DEFINE D == DOMAIN m
<1>0. D = D \cup {} OBVIOUS
<1>1. Merges(r, Fr, s, Fs, m, {}, A, B, G) /\ Named(r, Fr) /\ Named(s, Fs) BY DEF Meets, NamedFor
<1>2. /\ A \in [D -> DOMAIN r] /\ B \in [D -> DOMAIN s] /\ IsTree(m)
      /\ \A x \in D : Level(r, Fr, s, Fs, A[x], B[x], G[x])
      /\ \A x \in D : IsJoin(m[x], r[A[x]], s[B[x]])
      /\ \A x \in D, y \in Elements : Continues(r, s, m, D, A, B, G, x, y)
  BY <1>0, <1>1 DEF Merges
<1>3. d \in DOMAIN r /\ e \in DOMAIN s BY <1>2
<1>4. IsNode(r[d]) /\ IsNode(s[e]) BY <1>1, <1>3, NamedTypes
<1>5. Level(r, Fr, s, Fs, d, e, G[p]) /\ IsJoin(m[p], r[d], s[e]) BY <1>2
<1>6. \A n \in Elements : HasChild(m, p, n) <=> Joint(r, s, d, e, n)
  BY <1>2 DEF Continues, HasChild
<1>7. p \in Positions /\ IsNode(m[p]) BY <1>2 DEF IsTree
<1>8. m[p].leaf <=> r[d].leaf /\ s[e].leaf
  <2>1. ~r[d].leaf /\ ~s[e].leaf => ~m[p].leaf BY <1>5 DEF IsJoin, Node
  <2>2. r[d].leaf /\ ~s[e].leaf => ~m[p].leaf BY <1>5 DEF IsJoin
  <2>3. ~r[d].leaf /\ s[e].leaf => ~m[p].leaf BY <1>5 DEF IsJoin
  <2>4. r[d].leaf /\ s[e].leaf => m[p].leaf BY <1>5 DEF IsJoin
  <2> QED BY <2>1, <2>2, <2>3, <2>4
<1> QED BY <1>3, <1>4, <1>5, <1>6, <1>7, <1>8

\* Where neither stays, one tree has no wildcard where the other names a key.
LEMMA NoClash ==
  ASSUME NEW r, NEW Fr, NEW P, NamedFor(r, Fr, P), NEW s, NEW Fs, NEW Q, NamedFor(s, Fs, Q), Apart(P, Q),
         NEW d \in DOMAIN r, NEW e \in DOMAIN s, NEW f, Level(r, Fr, s, Fs, d, e, f),
         ~Stays(r[d], s[e]), ~Stays(s[e], r[d]), NEW x \in Elements, x # Wildcard,
         HasChild(r, d, x), HasChild(s, e, Wildcard)
  PROVE  FALSE
<1>0. Named(r, Fr) /\ Fitting(r, Fr, P) /\ Named(s, Fs) /\ Fitting(s, Fs, Q) /\ Wildcard \in Elements
  BY SchemaAssumption DEF NamedFor
<1>1. /\ r[d].all \in BOOLEAN /\ s[e].all \in BOOLEAN /\ r[d].map \in BOOLEAN /\ s[e].map \in BOOLEAN
      /\ r[d].all => r[d].map
      /\ s[e].all => s[e].map
      /\ IsNode(s[e]) /\ Fr[d] \in Seq(Elements)
  BY <1>0, NamedTypes, AllNode
<1>2. ~r[d].leaf /\ ~s[e].leaf /\ ~Mixed(r[d], s[e]) BY <1>1 DEF Stays, Mixed
<1>3. /\ r[d].type = s[e].type /\ Fr[d] = f /\ Fs[e] = f
      /\ r[d].map = s[e].map \/ (~r[d].map /\ s[e].all) \/ (~s[e].map /\ r[d].all)
  BY <1>2 DEF Level
<1>4. KeyMap(r, d) <=> KeyMap(s, e) BY <1>1, <1>2, <1>3 DEF KeyMap, Mixed
<1>5. ChildFits(r, Fr, P, d, x) /\ ChildFits(s, Fs, Q, e, Wildcard) BY <1>0 DEF Fitting
<1>6. KeyMap(s, e)
  <2> SUFFICES ASSUME ~KeyMap(s, e) PROVE FALSE OBVIOUS
  <2>1. s[e].type # NoType /\ Wildcard \in FieldNames(s[e].type) BY <1>5 DEF ChildFits
  <2>2. s[e].type \in Types BY <1>1, <2>1 DEF IsNode
  <2> QED BY <2>1, <2>2, KnownChild
<1> DEFINE a == SortOf(x, r[Append(d, x)].leaf)
           b == SortOf(Wildcard, s[Append(e, Wildcard)].leaf)
<1>7. Addressed(P, f, {a})
  <2>1. Fr[Append(d, x)] = f BY <1>0, <1>3, <1>4, <1>6 DEF Named
  <2>2. Addressed(P, Fr[Append(d, x)], {a}) BY <1>4, <1>5, <1>6 DEF ChildFits
  <2> QED BY <2>1, <2>2
<1>8. Addressed(Q, f, {b})
  <2>1. Fs[Append(e, Wildcard)] = f BY <1>0, <1>3, <1>6 DEF Named
  <2>2. Addressed(Q, Fs[Append(e, Wildcard)], {b}) BY <1>5, <1>6 DEF ChildFits
  <2> QED BY <2>1, <2>2
<1>9. a \in {"entry", "keys"} /\ b \in {"every", "wildcard"} BY DEF SortOf
<1> HIDE DEF a, b
<1>10. {a, b} \notin AcrossLists BY <1>1, <1>3, <1>7, <1>8 DEF Apart
<1> QED BY <1>9, <1>10 DEF AcrossLists

\* The walk x through the tree t is at d, where the other tree has the node b, and
\* the walk through the intersection is about to skip an element or not.
Follows(t, x, d, b, skip) ==
  /\ x.pos = d
  /\ t[d].leaf => x.verdict \in {"none", "include"}
  /\ ~t[d].leaf => x.verdict = "none" /\ (x.skip <=> IF ~b.leaf /\ Mixed(t[d], b) THEN t[d].all ELSE skip)

\* The walks through two trees, u and v, and the walk w through their intersection.
Tracks(r, s, A, B, w, u, v) ==
  /\ w.verdict = "none" =>
       LET a == r[A[w.pos]]
           b == s[B[w.pos]]
       IN  /\ Follows(r, u, A[w.pos], b, w.skip) /\ Follows(s, v, B[w.pos], a, w.skip)
           /\ ~a.leaf /\ ~b.leaf /\ Mixed(a, b) => ~w.skip
  /\ w.verdict = "include" =>
       r[u.pos].leaf /\ s[v.pos].leaf /\ u.verdict \in {"none", "include"} /\ v.verdict \in {"none", "include"}
  /\ w.verdict = "exclude" => u.verdict = "exclude" \/ v.verdict = "exclude"

\* A walk that is at a leaf stays there.
LEMMA LeafStays ==
  ASSUME NEW t, IsTree(t), NEW x \in WalkState(t), NEW name, t[x.pos].leaf, x.verdict \in {"none", "include"}
  PROVE  Advance(t, x, name).pos = x.pos /\ Advance(t, x, name).verdict \in {"none", "include"}
<1>1. x.verdict # "none" => Advance(t, x, name) = x BY AdvanceCases
<1>2. x.verdict = "none" /\ x.skip => Advance(t, x, name) = [x EXCEPT !.skip = FALSE] BY AdvanceCases
<1>3. x.verdict = "none" /\ ~x.skip => Advance(t, x, name) = [x EXCEPT !.verdict = "include"]
  BY AdvanceCases
<1> DEFINE y == Advance(t, x, name)
<1> HIDE DEF y
<1>4. x = [pos |-> x.pos, skip |-> x.skip, verdict |-> x.verdict] BY DEF WalkState
<1> QED BY <1>1, <1>2, <1>3, <1>4 DEF WalkState

\* A walk that skips the next element.
LEMMA WalkSkips ==
  ASSUME NEW t, IsTree(t), NEW x \in WalkState(t), NEW name, x.verdict = "none", x.skip
  PROVE  LET y == Advance(t, x, name) IN y.pos = x.pos /\ y.verdict = "none" /\ ~y.skip
<1>1. Advance(t, x, name) = [x EXCEPT !.skip = FALSE] BY AdvanceCases
<1> QED BY <1>1 DEF WalkState

\* The child that the intersection has for an element, a tree that goes on has too.
LEMMA TakenBelow ==
  ASSUME NEW r, NEW Fr, NEW P, NEW s, NEW Fs, NEW Q, NEW m, NEW A, NEW B, NEW G,
         Meets(r, Fr, P, s, Fs, Q, m, A, B, G), NEW p \in DOMAIN m, NEW d, d = A[p], NEW e, e = B[p],
         NEW name \in Elements, NEW n, Takes(m, p, name, n), ~Stays(r[d], s[e])
  PROVE  Takes(r, d, name, n)
<1>0. Wildcard \in Elements /\ n \in {name, Wildcard} /\ HasChild(m, p, n) BY SchemaAssumption DEF Takes
<1>1. /\ d \in DOMAIN r /\ e \in DOMAIN s /\ Level(r, Fr, s, Fs, d, e, G[p])
      /\ \A x \in Elements : HasChild(m, p, x) <=> Joint(r, s, d, e, x)
  BY JoinAt
<1>2. Joint(r, s, d, e, n) /\ HasChild(r, d, n) BY <1>0, <1>1 DEF Joint
<1>3. CASE n = name BY <1>2, <1>3 DEF Takes
<1>4. CASE n # name
  <2>1. n = Wildcard /\ ~HasChild(m, p, name) BY <1>4 DEF Takes
  <2>2. ASSUME HasChild(r, d, name) PROVE FALSE
    <3>1. ~Joint(r, s, d, e, name) BY <1>1, <2>1
    <3>2. ~Stays(s[e], r[d]) /\ HasChild(s, e, Wildcard) BY <1>2, <2>1, <2>2, <3>1 DEF Joint
    <3>3. NamedFor(r, Fr, P) /\ NamedFor(s, Fs, Q) /\ Apart(P, Q) BY DEF Meets
    <3> QED BY <1>1, <1>4, <2>1, <2>2, <3>2, <3>3, NoClash
  <2> QED BY <1>2, <2>1, <2>2 DEF Takes
<1> QED BY <1>3, <1>4

\* An element the intersection has no child for is one a tree has none for.
Lacks(t, d, name) == ~HasChild(t, d, name) /\ ~HasChild(t, d, Wildcard)

\* What the intersection has no child for, one of the trees has none for.
LEMMA LackedBelow ==
  ASSUME NEW r, NEW Fr, NEW P, NEW s, NEW Fs, NEW Q, NEW m, NEW A, NEW B, NEW G,
         Meets(r, Fr, P, s, Fs, Q, m, A, B, G), NEW p \in DOMAIN m, NEW d, d = A[p], NEW e, e = B[p],
         NEW name \in Elements, Lacks(m, p, name), ~m[p].leaf
  PROVE  \/ ~Stays(r[d], s[e]) /\ Lacks(r, d, name)
         \/ ~Stays(s[e], r[d]) /\ Lacks(s, e, name)
<1>0. Wildcard \in Elements BY SchemaAssumption
<1>1. /\ d \in DOMAIN r /\ e \in DOMAIN s /\ Level(r, Fr, s, Fs, d, e, G[p])
      /\ \A x \in Elements : HasChild(m, p, x) <=> Joint(r, s, d, e, x)
      /\ ~(r[d].leaf /\ s[e].leaf) /\ IsNode(r[d]) /\ IsNode(s[e])
  BY JoinAt
<1>2. ~Joint(r, s, d, e, name) /\ ~Joint(r, s, d, e, Wildcard) BY <1>0, <1>1 DEF Lacks
<1>3. ~(Stays(r[d], s[e]) /\ Stays(s[e], r[d]))
  BY <1>1 DEF Stays, Mixed, IsNode
<1>4. NamedFor(r, Fr, P) /\ NamedFor(s, Fs, Q) /\ Apart(P, Q) /\ Apart(Q, P) BY ApartSwap DEF Meets
<1>5. Level(s, Fs, r, Fr, e, d, G[p]) BY <1>1, Swapped
<1>6. CASE Stays(r[d], s[e]) BY <1>2, <1>3, <1>6 DEF Joint, Lacks
<1>7. CASE Stays(s[e], r[d]) BY <1>2, <1>3, <1>7 DEF Joint, Lacks
<1>8. ASSUME ~Stays(r[d], s[e]), ~Stays(s[e], r[d]), ~Lacks(r, d, name), ~Lacks(s, e, name) PROVE FALSE
  <2>1. /\ HasChild(r, d, name) \/ HasChild(r, d, Wildcard)
        /\ HasChild(s, e, name) \/ HasChild(s, e, Wildcard)
        /\ ~HasChild(r, d, name) \/ ~HasChild(s, e, name)
        /\ ~HasChild(r, d, Wildcard) \/ ~HasChild(s, e, Wildcard)
    BY <1>2, <1>8 DEF Lacks, Joint
  <2>2. name # Wildcard BY <2>1
  <2>3. ~(HasChild(r, d, name) /\ HasChild(s, e, Wildcard)) BY <1>1, <1>4, <1>8, <2>2, NoClash
  <2>4. ~(HasChild(s, e, name) /\ HasChild(r, d, Wildcard)) BY <1>1, <1>4, <1>5, <1>8, <2>2, NoClash
  <2> QED BY <2>1, <2>3, <2>4
<1> QED BY <1>6, <1>7, <1>8

\* A walk that goes down in the intersection goes down in a tree, or stays there.
LEMMA FollowsChild ==
  ASSUME NEW r, NEW Fr, NEW P, NEW s, NEW Fs, NEW Q, NEW m, NEW A, NEW B, NEW G,
         Meets(r, Fr, P, s, Fs, Q, m, A, B, G), NEW p \in DOMAIN m, NEW d, d = A[p], NEW e, e = B[p],
         NEW name \in Elements, NEW n, Takes(m, p, name, n), NEW c, c = Append(p, n),
         NEW u \in WalkState(r), Follows(r, u, d, s[e], FALSE)
  PROVE  Follows(r, Advance(r, u, name), A[c], s[B[c]], m[c].all)
<1> DEFINE x == Advance(r, u, name)
           d2 == A[c]
           e2 == B[c]
           a == r[d]
           b == s[e]
           a2 == r[d2]
           b2 == s[e2]
<1>0. n \in Elements /\ HasChild(m, p, n) /\ c \in DOMAIN m /\ IsTree(r)
  BY SchemaAssumption DEF Takes, HasChild, Meets, NamedFor, Named, Rooted
<1>1. /\ d \in DOMAIN r /\ e \in DOMAIN s /\ Level(r, Fr, s, Fs, d, e, G[p]) /\ IsJoin(m[p], a, b)
      /\ IsNode(a) /\ IsNode(b) /\ p \in Positions /\ Joint(r, s, d, e, n)
  BY <1>0, JoinAt
<1>2. /\ NamedFor(r, Fr, P) /\ NamedFor(s, Fs, Q) /\ Apart(P, Q)
      /\ Merges(r, Fr, s, Fs, m, {}, A, B, G)
  BY DEF Meets
<1>3. d2 = Onto(a, b, d, n) /\ e2 = Onto(b, a, e, n)
  <2>1. MergedChild(r, Fr, s, Fs, m, A, B, G, p, n) BY <1>0, <1>1, <1>2, ChildOf
  <2> QED BY <2>1 DEF MergedChild
<1>4. /\ d2 \in DOMAIN r /\ e2 \in DOMAIN s /\ IsNode(a2) /\ IsNode(b2) /\ IsJoin(m[c], a2, b2)
  BY <1>0, JoinAt
<1>5. IsKid(r, Fr, s, Fs, d, e, m[p], G[p], n) BY <1>0, <1>1, <1>2, Kids
<1>6. /\ ~Stays(a, b) /\ ~Stays(b, a) /\ ~a2.leaf /\ ~b2.leaf => a2.map = b2.map
      /\ ~b.leaf /\ Stays(b, a) => ~a2.leaf /\ ~a2.map
      /\ ~a.leaf /\ Stays(a, b) => ~b2.leaf /\ ~b2.map
  BY <1>3, <1>5 DEF IsKid
<1>7. /\ a2.all \in BOOLEAN /\ b2.all \in BOOLEAN /\ a2.map \in BOOLEAN /\ b2.map \in BOOLEAN
      /\ a2.all => a2.map
      /\ b2.all => b2.map
  <2>1. Named(r, Fr) /\ Named(s, Fs) BY <1>2 DEF NamedFor
  <2>2. /\ a2.all \in BOOLEAN /\ b2.all \in BOOLEAN /\ a2.map \in BOOLEAN /\ b2.map \in BOOLEAN
    BY <1>4, <2>1, NamedTypes
  <2>3. a2.all => a2.map BY <1>2, <1>4, AllNode
  <2>4. b2.all => b2.map BY <1>2, <1>4, AllNode
  <2> QED BY <2>2, <2>3, <2>4
<1>8. /\ ~a2.leaf /\ b2.leaf => m[c].all = a2.all
      /\ ~a2.leaf /\ ~b2.leaf => m[c].all = (a2.all /\ b2.all)
  <2>1. ~a2.leaf /\ b2.leaf => m[c].all = a2.all BY <1>4 DEF IsJoin
  <2>2. ~a2.leaf /\ ~b2.leaf => m[c].all = (a2.all /\ b2.all) BY <1>4 DEF IsJoin, Node
  <2> QED BY <2>1, <2>2
<1>9. /\ u.pos = d
      /\ a.leaf => u.verdict \in {"none", "include"}
      /\ ~a.leaf => u.verdict = "none" /\ (u.skip <=> IF ~b.leaf /\ Mixed(a, b) THEN a.all ELSE FALSE)
  BY DEF Follows
<1>10. CASE a.leaf
  <2>1. d2 = d BY <1>3, <1>10 DEF Onto, Stays
  <2>2. x.pos = u.pos /\ x.verdict \in {"none", "include"}
    BY <1>0, <1>9, <1>10, LeafStays
  <2> QED BY <1>9, <1>10, <2>1, <2>2 DEF Follows
<1>11. CASE ~a.leaf /\ Stays(a, b)
  <2>1. d2 = d /\ ~b.leaf /\ Mixed(a, b) /\ a.all BY <1>3, <1>11 DEF Onto, Stays
  <2>2. u.verdict = "none" /\ u.skip BY <1>9, <1>11, <2>1
  <2>3. x.pos = u.pos /\ x.verdict = "none" /\ ~x.skip BY <1>0, <2>2, WalkSkips
  <2>4. ~b2.leaf /\ ~b2.map /\ a2 = a BY <1>6, <1>11, <2>1
  <2> HIDE DEF x, a, b, a2, b2, d2, e2
  <2>5. ~a2.leaf /\ ~m[c].all BY <1>7, <1>8, <1>11, <2>4
  <2>6. ~Mixed(a2, b2) BY <2>4 DEF Mixed
  <2>7. x.pos = d2 BY <1>9, <2>1, <2>3
  <2>8. x.skip <=> IF ~b2.leaf /\ Mixed(a2, b2) THEN a2.all ELSE m[c].all BY <2>3, <2>5, <2>6
  <2> QED BY <2>3, <2>5, <2>7, <2>8 DEF Follows, x, a2, b2, d2, e2
<1>12. CASE ~a.leaf /\ ~Stays(a, b)
  <2>1. d2 = Append(d, n) BY <1>3, <1>12 DEF Onto
  <2>2. Takes(r, d, name, n) BY <1>12, TakenBelow
  <2>3. Choosing(r, u)
    <3>1. u.verdict = "none" /\ ~u.skip BY <1>9, <1>12 DEF Stays
    <3> QED BY <1>9, <1>12, <3>1 DEF Choosing
  <2>4. x = At(r, d2)
    <3>1. Takes(r, u.pos, name, n) BY <1>9, <2>2
    <3>2. Advance(r, u, name) = At(r, Append(u.pos, n)) BY <1>0, <2>3, <3>1, AdvanceCases
    <3> QED BY <1>9, <2>1, <3>2
  <2>5. x.pos = d2 /\ x.verdict = "none" /\ x.skip = a2.all BY <2>4 DEF At
  <2> HIDE DEF x, a, b, a2, b2, d2, e2
  <2>6. ASSUME ~a2.leaf, ~b2.leaf, ~Mixed(a2, b2), a2.all PROVE b2.all
    <3>1. a2.map /\ ~Stays(b, a)
      <4>1. CASE b.leaf
        <5>1. e2 = e BY <1>3, <4>1 DEF Onto, Stays
        <5> QED BY <2>6, <4>1, <5>1 DEF b, b2
      <4>2. CASE ~b.leaf BY <1>6, <1>7, <2>6, <4>2
      <4> QED BY <1>7, <2>6, <4>1, <4>2
    <3>2. b2.map BY <1>6, <1>12, <2>6, <3>1
    <3> QED BY <1>7, <2>6, <3>1, <3>2 DEF Mixed
  <2>7. ~a2.leaf => (x.skip <=> IF ~b2.leaf /\ Mixed(a2, b2) THEN a2.all ELSE m[c].all)
    BY <1>7, <1>8, <2>5, <2>6
  <2> QED BY <2>5, <2>7 DEF Follows, x, a2, b2, d2, e2
<1> QED BY <1>10, <1>11, <1>12

\* An element that is skipped.
LEMMA FollowsSkip ==
  ASSUME NEW t, IsTree(t), NEW x \in WalkState(t), NEW name, NEW d, NEW b, Follows(t, x, d, b, TRUE),
         ~(~t[d].leaf /\ ~b.leaf /\ Mixed(t[d], b))
  PROVE  Follows(t, Advance(t, x, name), d, b, FALSE)
<1> DEFINE y == Advance(t, x, name)
<1>1. /\ x.pos = d
      /\ t[d].leaf => x.verdict \in {"none", "include"}
      /\ ~t[d].leaf => x.verdict = "none" /\ x.skip
  BY DEF Follows
<1>2. CASE t[d].leaf
  <2>1. y.pos = d /\ y.verdict \in {"none", "include"} BY <1>1, <1>2, LeafStays
  <2> QED BY <1>2, <2>1 DEF Follows
<1>3. CASE ~t[d].leaf
  <2>1. y.pos = d /\ y.verdict = "none" /\ ~y.skip BY <1>1, <1>3, WalkSkips
  <2> QED BY <1>3, <2>1 DEF Follows
<1> QED BY <1>2, <1>3

\* The walk through a tree ends where no child is found.
LEMMA FollowsOut ==
  ASSUME NEW t, IsTree(t), NEW x \in WalkState(t), NEW name, NEW d, NEW b, Follows(t, x, d, b, FALSE),
         ~Stays(t[d], b), Lacks(t, d, name)
  PROVE  Advance(t, x, name).verdict = "exclude"
<1>1. x.pos = d /\ Choosing(t, x) BY DEF Follows, Stays, Choosing
<1>2. Advance(t, x, name) = [x EXCEPT !.verdict = "exclude"] BY <1>1, AdvanceCases DEF Lacks
<1> QED BY <1>2 DEF WalkState

\* One element of the path, in the intersection and in both trees.
LEMMA TracksStep ==
  ASSUME NEW r, NEW Fr, NEW P, NEW s, NEW Fs, NEW Q, NEW m, NEW A, NEW B, NEW G,
         Meets(r, Fr, P, s, Fs, Q, m, A, B, G), NEW name \in Elements,
         NEW w \in WalkState(m), NEW u \in WalkState(r), NEW v \in WalkState(s),
         Tracks(r, s, A, B, w, u, v)
  PROVE  Tracks(r, s, A, B, Advance(m, w, name), Advance(r, u, name), Advance(s, v, name))
<1> DEFINE w2 == Advance(m, w, name)
           u2 == Advance(r, u, name)
           v2 == Advance(s, v, name)
           p == w.pos
           d == A[p]
           e == B[p]
           a == r[d]
           b == s[e]
<1>0. IsTree(r) /\ IsTree(s) /\ IsTree(m) BY DEF Meets, NamedFor, Named, Rooted, Merges
<1>00. Meets(s, Fs, Q, r, Fr, P, m, B, A, G) BY MeetsSwap
<1>1. CASE w.verdict = "exclude"
  <2>1. w2 = w BY <1>0, <1>1, AdvanceCases
  <2>2. u.verdict = "exclude" \/ v.verdict = "exclude" BY <1>1 DEF Tracks
  <2>3. u.verdict = "exclude" => u2 = u BY <1>0, AdvanceCases
  <2>4. v.verdict = "exclude" => v2 = v BY <1>0, AdvanceCases
  <2> HIDE DEF w2, u2, v2
  <2> QED BY <1>1, <2>1, <2>2, <2>3, <2>4 DEF Tracks, w2, u2, v2
<1>2. CASE w.verdict = "include"
  <2>1. w2 = w BY <1>0, <1>2, AdvanceCases
  <2>2. r[u.pos].leaf /\ s[v.pos].leaf /\ u.verdict \in {"none", "include"} /\ v.verdict \in {"none", "include"}
    BY <1>2 DEF Tracks
  <2>3. u2.pos = u.pos /\ u2.verdict \in {"none", "include"} BY <1>0, <2>2, LeafStays
  <2>4. v2.pos = v.pos /\ v2.verdict \in {"none", "include"} BY <1>0, <2>2, LeafStays
  <2> HIDE DEF w2, u2, v2
  <2> QED BY <1>2, <2>1, <2>2, <2>3, <2>4 DEF Tracks, w2, u2, v2
<1>3. CASE w.verdict = "none"
  <2>1. /\ Follows(r, u, d, b, w.skip) /\ Follows(s, v, e, a, w.skip)
        /\ ~a.leaf /\ ~b.leaf /\ Mixed(a, b) => ~w.skip
    BY <1>3 DEF Tracks
  <2>2. p \in DOMAIN m /\ w.skip \in BOOLEAN BY DEF WalkState
  <2>3. /\ m[p].leaf <=> a.leaf /\ b.leaf
        /\ Level(r, Fr, s, Fs, d, e, G[p])
    BY <2>2, JoinAt
  <2>4. CASE w.skip
    <3>1. w2.pos = p /\ w2.verdict = "none" /\ ~w2.skip BY <1>0, <1>3, <2>4, WalkSkips
    <3>2. ~(~a.leaf /\ ~b.leaf /\ Mixed(a, b)) /\ ~(~b.leaf /\ ~a.leaf /\ Mixed(b, a))
      BY <2>1, <2>4 DEF Mixed
    <3>3. w.skip = TRUE BY <2>2, <2>4
    <3>4. Follows(r, u2, d, b, FALSE) BY <1>0, <2>1, <3>2, <3>3, FollowsSkip
    <3>5. Follows(s, v2, e, a, FALSE) BY <1>0, <2>1, <3>2, <3>3, FollowsSkip
    <3>6. w2.skip = FALSE
      <4>1. w2 \in WalkState(m) BY <1>0, AdvanceType
      <4> QED BY <3>1, <4>1 DEF WalkState
    <3> HIDE DEF w2, u2, v2
    <3> QED BY <3>1, <3>2, <3>4, <3>5, <3>6 DEF Tracks, w2, u2, v2
  <2>5. CASE ~w.skip /\ m[p].leaf
    <3>1. w2 = [w EXCEPT !.verdict = "include"] BY <1>0, <1>3, <2>5, AdvanceCases
    <3>2. a.leaf /\ b.leaf BY <2>3, <2>5
    <3>3. u.pos = d /\ u.verdict \in {"none", "include"} BY <2>1, <3>2 DEF Follows
    <3>4. v.pos = e /\ v.verdict \in {"none", "include"} BY <2>1, <3>2 DEF Follows
    <3>5. u2.pos = u.pos /\ u2.verdict \in {"none", "include"} BY <1>0, <3>2, <3>3, LeafStays
    <3>6. v2.pos = v.pos /\ v2.verdict \in {"none", "include"} BY <1>0, <3>2, <3>4, LeafStays
    <3>7. w2.verdict = "include" BY <3>1 DEF WalkState
    <3> HIDE DEF w2, u2, v2
    <3> QED BY <3>2, <3>3, <3>4, <3>5, <3>6, <3>7 DEF Tracks, w2, u2, v2
  <2>6. CASE ~w.skip /\ ~m[p].leaf /\ Lacks(m, p, name)
    <3>1. w2 = [w EXCEPT !.verdict = "exclude"] BY <1>0, <1>3, <2>6, AdvanceCases DEF Choosing, Lacks
    <3>2. w2.verdict = "exclude" BY <3>1 DEF WalkState
    <3>3. \/ ~Stays(a, b) /\ Lacks(r, d, name)
          \/ ~Stays(b, a) /\ Lacks(s, e, name)
      BY <2>2, <2>6, LackedBelow
    <3>4. w.skip = FALSE BY <2>2, <2>6
    <3>5. ~Stays(a, b) /\ Lacks(r, d, name) => u2.verdict = "exclude" BY <1>0, <2>1, <3>4, FollowsOut
    <3>6. ~Stays(b, a) /\ Lacks(s, e, name) => v2.verdict = "exclude" BY <1>0, <2>1, <3>4, FollowsOut
    <3> HIDE DEF w2, u2, v2
    <3> QED BY <3>2, <3>3, <3>5, <3>6 DEF Tracks, w2, u2, v2
  <2>7. ASSUME ~w.skip, ~m[p].leaf, NEW n, Takes(m, p, name, n) PROVE Tracks(r, s, A, B, w2, u2, v2)
    <3> DEFINE c == Append(p, n)
               a2 == r[A[c]]
               b2 == s[B[c]]
    <3>1. w2 = At(m, c) BY <1>0, <1>3, <2>7, AdvanceCases DEF Choosing
    <3>2. w2.pos = c /\ w2.verdict = "none" /\ w2.skip = m[c].all BY <3>1 DEF At
    <3>3. w.skip = FALSE BY <2>2, <2>7
    <3>4. c = Append(p, n) /\ Follows(r, u, d, b, FALSE) /\ Follows(s, v, e, a, FALSE) BY <2>1, <3>3
    <3>5. c \in DOMAIN m BY <2>7 DEF Takes, HasChild
    <3> HIDE DEF c
    <3>6. Follows(r, u2, A[c], b2, m[c].all) BY <2>2, <2>7, <3>4, FollowsChild
    <3>7. Follows(s, v2, B[c], a2, m[c].all) BY <1>00, <2>2, <2>7, <3>4, FollowsChild
    <3>8. ~a2.leaf /\ ~b2.leaf /\ Mixed(a2, b2) => ~m[c].all
      <4>1. IsNode(a2) /\ IsNode(b2) /\ IsJoin(m[c], a2, b2) BY <3>5, JoinAt
      <4>2. ~a2.leaf /\ ~b2.leaf => m[c].all = (a2.all /\ b2.all) BY <4>1 DEF IsJoin, Node
      <4> HIDE DEF a2, b2
      <4> QED BY <4>1, <4>2 DEF Mixed, IsNode
    <3> HIDE DEF w2, u2, v2
    <3> QED BY <3>2, <3>6, <3>7, <3>8 DEF Tracks, w2, u2, v2
  <2>8. Lacks(m, p, name) \/ \E n : Takes(m, p, name, n) BY DEF Lacks, Takes
  <2> HIDE DEF p, w2, u2, v2
  <2>9. CASE \E n : Takes(m, p, name, n)
    <3>1. PICK n : Takes(m, p, name, n) BY <2>9
    <3> QED BY <2>4, <2>5, <2>7, <3>1 DEF w2, u2, v2
  <2> QED BY <2>4, <2>5, <2>6, <2>8, <2>9 DEF w2, u2, v2
<1>4. w.verdict \in {"none", "include", "exclude"} BY DEF WalkState
<1> QED BY <1>1, <1>2, <1>3, <1>4

\* The stricter of two verdicts.
Stricter(x, y) ==
  IF "exclude" \in {x, y} THEN "exclude" ELSE IF "partial" \in {x, y} THEN "partial" ELSE "include"

\* The walk through the intersection ends in the stricter of the verdicts of the two.
LEMMA MeetVerdict ==
  ASSUME NEW r, NEW Fr, NEW P, NEW s, NEW Fs, NEW Q, NEW m, NEW A, NEW B, NEW G,
         Meets(r, Fr, P, s, Fs, Q, m, A, B, G), NEW q \in Queried
  PROVE  CheckField(m, q, "message") = Stricter(CheckField(r, q, "message"), CheckField(s, q, "message"))
<1> DEFINE N == Len(q)
           w(i) == Reached(m, q)[i]
           u(i) == Reached(r, q)[i]
           v(i) == Reached(s, q)[i]
           T == {i \in 0..N : Tracks(r, s, A, B, w(i), u(i), v(i))}
<1>0. Rooted(r) /\ Rooted(s) /\ Rooted(m) /\ N \in Nat
  <2>1. NamedFor(m, G, P \cup Q) BY MergedFormed DEF Meets
  <2> QED BY <2>1 DEF Meets, NamedFor, Named, Queried
<1>1. A[<<>>] = <<>> /\ B[<<>>] = <<>> BY DEF Meets, Merges
<1>2. 0 \in T
  <2>1. w(0) = Start /\ u(0) = Start /\ v(0) = Start BY <1>0, WalkStart
  <2>2. ~r[<<>>].map /\ ~s[<<>>].map BY DEF Meets, NamedFor, Named
  <2> HIDE DEF w, u, v
  <2>3. Tracks(r, s, A, B, w(0), u(0), v(0))
    BY <1>1, <2>1, <2>2 DEF Tracks, Follows, Start, Mixed
  <2> QED BY <1>0, <2>3
<1>3. ASSUME NEW i \in 0..(N - 1), i \in T PROVE i + 1 \in T
  <2>1. i \in 0..N /\ i + 1 \in 0..N BY <1>0
  <2>2. w(i) \in WalkState(m) /\ u(i) \in WalkState(r) /\ v(i) \in WalkState(s) BY <1>0, <2>1, WalkStates
  <2>3. q[i + 1] \in Elements BY <1>0, WalkStep
  <2>4. w(i + 1) = Advance(m, w(i), q[i + 1]) BY <1>0, WalkStep
  <2>5. u(i + 1) = Advance(r, u(i), q[i + 1]) BY <1>0, WalkStep
  <2>6. v(i + 1) = Advance(s, v(i), q[i + 1]) BY <1>0, WalkStep
  <2>7. Tracks(r, s, A, B, w(i), u(i), v(i)) BY <1>3
  <2> HIDE DEF w, u, v
  <2>8. Tracks(r, s, A, B, w(i + 1), u(i + 1), v(i + 1)) BY <2>2, <2>3, <2>4, <2>5, <2>6, <2>7, TracksStep
  <2> QED BY <2>1, <2>8
<1> HIDE DEF T
<1>4. N \in T
  <2> HIDE DEF N
  <2>1. \A i \in 0..N : i \in T BY <1>0, <1>2, <1>3, UpTo
  <2> QED BY <1>0, <2>1
<1> DEFINE x == w(N)
           y == u(N)
           z == v(N)
           verdict(t, end) == IF end.verdict # "none" THEN end.verdict
                              ELSE IF t[end.pos].leaf THEN "include" ELSE "partial"
<1>5. Tracks(r, s, A, B, x, y, z) BY <1>4 DEF T
<1>6. x \in WalkState(m) /\ y \in WalkState(r) /\ z \in WalkState(s) BY <1>0, WalkStates
<1>7. /\ CheckField(m, q, "message") = verdict(m, x)
      /\ CheckField(r, q, "message") = verdict(r, y)
      /\ CheckField(s, q, "message") = verdict(s, z)
  BY <1>0, EndVerdict
<1> HIDE DEF x, y, z
<1>8. verdict(m, x) = Stricter(verdict(r, y), verdict(s, z))
  <2>1. CASE x.verdict = "exclude"
    <3>1. y.verdict = "exclude" \/ z.verdict = "exclude" BY <1>5, <2>1 DEF Tracks
    <3> QED BY <2>1, <3>1 DEF Stricter
  <2>2. CASE x.verdict = "include"
    <3>1. /\ r[y.pos].leaf /\ s[z.pos].leaf
          /\ y.verdict \in {"none", "include"} /\ z.verdict \in {"none", "include"}
      BY <1>5, <2>2 DEF Tracks
    <3> QED BY <2>2, <3>1 DEF Stricter
  <2>3. CASE x.verdict = "none"
    <3>1. /\ Follows(r, y, A[x.pos], s[B[x.pos]], x.skip) /\ Follows(s, z, B[x.pos], r[A[x.pos]], x.skip)
      BY <1>5, <2>3 DEF Tracks
    <3>2. m[x.pos].leaf <=> r[A[x.pos]].leaf /\ s[B[x.pos]].leaf
      <4>1. x.pos \in DOMAIN m BY <1>6 DEF WalkState
      <4> QED BY <4>1, JoinAt
    <3>3. y.pos = A[x.pos] /\ z.pos = B[x.pos] BY <3>1 DEF Follows
    <3>4. verdict(r, y) = IF r[A[x.pos]].leaf THEN "include" ELSE "partial" BY <3>1, <3>3 DEF Follows
    <3>5. verdict(s, z) = IF s[B[x.pos]].leaf THEN "include" ELSE "partial" BY <3>1, <3>3 DEF Follows
    <3>6. verdict(m, x) = IF m[x.pos].leaf THEN "include" ELSE "partial" BY <2>3
    <3> HIDE DEF verdict
    <3> QED BY <3>2, <3>4, <3>5, <3>6 DEF Stricter
  <2>4. x.verdict \in {"none", "include", "exclude"} BY <1>6 DEF WalkState
  <2> QED BY <2>1, <2>2, <2>3, <2>4
<1> QED BY <1>7, <1>8

-------------------------------------------------------------------------------
(* A step of the intersection                                                 *)

\* The last name of a position.
LastName(p) == p[Len(p)]

\* The parts of a child's position.
LEMMA LastOf ==
  ASSUME NEW p \in Positions, NEW n \in Elements
  PROVE  LastName(Append(p, n)) = n /\ Append(p, n) \in Positions /\ Append(p, n) # p /\ Append(p, n) # <<>>
<1>1. Len(Append(p, n)) = Len(p) + 1 /\ Append(p, n)[Len(p) + 1] = n /\ Len(p) \in Nat BY DEF Positions
<1>2. Append(p, n) \in Positions BY DEF Positions
<1>3. Append(p, n) # p BY <1>1
<1>4. Append(p, n) # <<>> BY <1>1
<1> QED BY <1>1, <1>2, <1>3, <1>4 DEF LastName

\* The positions above a child are those above its parent, and the parent.
LEMMA AboveChild ==
  ASSUME NEW E, NEW t \in Positions, NEW n \in Elements,
         \A k \in 0..(Len(t) - 1) : SubSeq(t, 1, k) \in E, t \in E
  PROVE  \A k \in 0..(Len(Append(t, n)) - 1) : SubSeq(Append(t, n), 1, k) \in E
<1>1. Len(Append(t, n)) = Len(t) + 1 /\ Len(t) \in Nat BY DEF Positions
<1>2. TAKE k \in 0..(Len(Append(t, n)) - 1)
<1>3. CASE k = Len(t)
  <2>1. SubSeq(Append(t, n), 1, k) = t BY <1>3 DEF Positions
  <2> QED BY <2>1
<1>4. CASE k # Len(t)
  <2>1. k \in 0..(Len(t) - 1) BY <1>1, <1>2, <1>4
  <2>2. SubSeq(Append(t, n), 1, k) = SubSeq(t, 1, k) BY <2>1 DEF Positions
  <2> QED BY <2>1, <2>2
<1> QED BY <1>3, <1>4

\* The nodes both of which are looked at further have children there, or to come.
Kidpos(r, s, t, d, e) == {Append(t, n) : n \in {n \in Elements : Joint(r, s, d, e, n)}}

\* The tables that tell where the positions come from, with those of new ones added.
With(f, D, new, g) == [p \in D \cup new |-> IF p \in new THEN g[p] ELSE f[p]]

\* A table that is extended: the new entries and the old ones.
LEMMA WithThere ==
  ASSUME NEW S, NEW D, NEW f \in [D -> S], NEW new, NEW g \in [new -> S]
  PROVE  /\ With(f, D, new, g) \in [D \cup new -> S]
         /\ \A p \in new : With(f, D, new, g)[p] = g[p]
         /\ \A p \in D : p \notin new => With(f, D, new, g)[p] = f[p]
  BY DEF With

\* The next step of the intersection has put x at t: what the other positions
\* come from stays, and the children of t come from those of d and e.
Expanded(r, Fr, s, Fs, m, T, A, B, t, d, e, x, A2, B2, G2) ==
  /\ Merges(r, Fr, s, Fs, Add(m, t, x), (T \ {t}) \cup Kidpos(r, s, t, d, e), A2, B2, G2)
  /\ \A p \in DOMAIN m \cup T : A2[p] = A[p] /\ B2[p] = B[p]
  /\ \A n \in Elements : Joint(r, s, d, e, n) =>
       /\ A2[Append(t, n)] = Onto(r[d], s[e], d, n)
       /\ B2[Append(t, n)] = Onto(s[e], r[d], e, n)
  /\ \A n \in Elements : Append(t, n) \notin DOMAIN m \cup T

\* The intersection m of r and s is to go on at t, where neither node is a leaf.
Opening(r, Fr, P, s, Fs, Q, m, T, A, B, G, t, d, e, x) ==
  /\ NamedFor(r, Fr, P) /\ NamedFor(s, Fs, Q) /\ Apart(P, Q) /\ Merges(r, Fr, s, Fs, m, T, A, B, G)
  /\ t \in T /\ d = A[t] /\ e = B[t] /\ ~r[d].leaf /\ ~s[e].leaf
  /\ IsNode(x) /\ IsJoin(x, r[d], s[e])

\* The intersection of two nodes that are no leaves: its children are to come.
LEMMA Expand ==
  ASSUME NEW r, NEW Fr, NEW P, NEW s, NEW Fs, NEW Q, NEW m, NEW T, NEW A, NEW B, NEW G, NEW t, NEW d, NEW e, NEW x,
         Opening(r, Fr, P, s, Fs, Q, m, T, A, B, G, t, d, e, x)
  PROVE  \E A2, B2, G2 : Expanded(r, Fr, s, Fs, m, T, A, B, t, d, e, x, A2, B2, G2)
<1> DEFINE kids == Kidpos(r, s, t, d, e)
           D == DOMAIN m \cup T
           m2 == Add(m, t, x)
           T2 == (T \ {t}) \cup kids
<1>24. kids = Kidpos(r, s, t, d, e) /\ D = DOMAIN m \cup T /\ m2 = Add(m, t, x) /\ T2 = (T \ {t}) \cup kids
  OBVIOUS
<1> HIDE DEF kids, D, m2, T2
<1>0. /\ NamedFor(r, Fr, P) /\ NamedFor(s, Fs, Q) /\ Apart(P, Q) /\ Merges(r, Fr, s, Fs, m, T, A, B, G)
      /\ t \in T /\ d = A[t] /\ e = B[t] /\ ~r[d].leaf /\ ~s[e].leaf
      /\ IsNode(x) /\ IsJoin(x, r[d], s[e])
  BY DEF Opening
<1> USE <1>0, <1>24
<1> DEFINE D2 == DOMAIN m2 \cup T2
<1>1. /\ A \in [D -> DOMAIN r] /\ B \in [D -> DOMAIN s] /\ G \in [D -> Seq(Elements)]
      /\ IsTree(m) /\ T \subseteq Positions \ DOMAIN m /\ AllAbove(D, DOMAIN m)
      /\ <<>> \in D /\ A[<<>>] = <<>> /\ B[<<>>] = <<>> /\ G[<<>>] = <<>>
      /\ \A p \in D : Level(r, Fr, s, Fs, A[p], B[p], G[p])
      /\ \A p \in DOMAIN m : IsJoin(m[p], r[A[p]], s[B[p]])
      /\ \A p \in DOMAIN m, n \in Elements : Continues(r, s, m, D, A, B, G, p, n)
  BY DEF Merges
<1>2. /\ t \in Positions /\ t \notin DOMAIN m /\ t \in D /\ DOMAIN m \subseteq Positions
      /\ d \in DOMAIN r /\ e \in DOMAIN s /\ Level(r, Fr, s, Fs, d, e, G[t]) /\ G[t] \in Seq(Elements)
  BY <1>1 DEF IsTree
<1>3. ASSUME NEW n \in Elements, Joint(r, s, d, e, n) PROVE IsKid(r, Fr, s, Fs, d, e, x, G[t], n)
  BY <1>2, <1>3, Kids
<1>4. ASSUME NEW n \in Elements PROVE Append(t, n) \notin D
  <2>1. Append(t, n) \in D => t \in DOMAIN m BY <1>1, <1>2, Parents
  <2> QED BY <1>2, <2>1
<1>5. kids \cap D = {} /\ kids \subseteq Positions /\ <<>> \notin kids /\ t \notin kids
  BY <1>2, <1>4, LastOf DEF Kidpos
<1>6. \A n \in Elements : Append(t, n) \in kids <=> Joint(r, s, d, e, n)
  <2> SUFFICES ASSUME NEW n \in Elements, Append(t, n) \in kids PROVE Joint(r, s, d, e, n)
    BY DEF Kidpos
  <2>1. PICK k \in Elements : Joint(r, s, d, e, k) /\ Append(t, n) = Append(t, k) BY DEF Kidpos
  <2>2. n = k BY <1>2, <2>1, SameChild
  <2> QED BY <2>1, <2>2
<1>7. ASSUME NEW p \in kids
      PROVE  \E n \in Elements : p = Append(t, n) /\ LastName(p) = n /\ IsKid(r, Fr, s, Fs, d, e, x, G[t], n)
  <2>1. PICK n \in Elements : p = Append(t, n) /\ Joint(r, s, d, e, n) BY DEF Kidpos
  <2> QED BY <1>2, <1>3, <2>1, LastOf
<1> DEFINE gA == [p \in kids |-> Onto(r[d], s[e], d, LastName(p))]
           gB == [p \in kids |-> Onto(s[e], r[d], e, LastName(p))]
           gG == [p \in kids |-> FieldsBelow(x, G[t], LastName(p))]
           A2 == With(A, D, kids, gA)
           B2 == With(B, D, kids, gB)
           G2 == With(G, D, kids, gG)
<1>8. gA \in [kids -> DOMAIN r] /\ gB \in [kids -> DOMAIN s]
  BY <1>7 DEF IsKid
<1>9. gG \in [kids -> Seq(Elements)]
  <2>1. ASSUME NEW p \in kids PROVE FieldsBelow(x, G[t], LastName(p)) \in Seq(Elements)
    <3>1. LastName(p) \in Elements BY <1>7
    <3> QED BY <1>2, <3>1 DEF FieldsBelow
  <2> QED BY <2>1
<1>10. /\ A2 \in [D \cup kids -> DOMAIN r]
       /\ \A p \in kids : A2[p] = gA[p]
       /\ \A p \in D : A2[p] = A[p]
  <2>1. A2 = With(A, D, kids, gA) OBVIOUS
  <2> HIDE DEF gA, A2
  <2>2. \A p \in D : p \notin kids BY <1>5
  <2>3. A \in [D -> DOMAIN r] /\ gA \in [kids -> DOMAIN r] BY <1>1, <1>8
  <2> QED BY ONLY <2>1, <2>2, <2>3, WithThere
<1>11. /\ B2 \in [D \cup kids -> DOMAIN s]
       /\ \A p \in kids : B2[p] = gB[p]
       /\ \A p \in D : B2[p] = B[p]
  <2>1. B2 = With(B, D, kids, gB) OBVIOUS
  <2> HIDE DEF gB, B2
  <2>2. \A p \in D : p \notin kids BY <1>5
  <2>3. B \in [D -> DOMAIN s] /\ gB \in [kids -> DOMAIN s] BY <1>1, <1>8
  <2> QED BY ONLY <2>1, <2>2, <2>3, WithThere
<1>12. /\ G2 \in [D \cup kids -> Seq(Elements)]
       /\ \A p \in kids : G2[p] = gG[p]
       /\ \A p \in D : G2[p] = G[p]
  <2>1. G2 = With(G, D, kids, gG) OBVIOUS
  <2> HIDE DEF gG, G2
  <2>2. \A p \in D : p \notin kids BY <1>5
  <2> DEFINE S == Seq(Elements)
  <2>3. G \in [D -> S] /\ gG \in [kids -> S] BY <1>1, <1>9
  <2> HIDE DEF S
  <2>4. /\ G2 \in [D \cup kids -> S]
        /\ \A p \in kids : G2[p] = gG[p]
        /\ \A p \in D : G2[p] = G[p]
    BY ONLY <2>1, <2>2, <2>3 DEF With
  <2> QED BY <2>4 DEF S
<1> HIDE DEF A2, B2, G2
<1>13. \A n \in Elements : Joint(r, s, d, e, n) =>
         /\ A2[Append(t, n)] = Onto(r[d], s[e], d, n)
         /\ B2[Append(t, n)] = Onto(s[e], r[d], e, n)
         /\ G2[Append(t, n)] = FieldsBelow(x, G[t], n)
  <2> SUFFICES ASSUME NEW n \in Elements, Joint(r, s, d, e, n)
               PROVE  /\ A2[Append(t, n)] = Onto(r[d], s[e], d, n)
                      /\ B2[Append(t, n)] = Onto(s[e], r[d], e, n)
                      /\ G2[Append(t, n)] = FieldsBelow(x, G[t], n)
    OBVIOUS
  <2> DEFINE p == Append(t, n)
  <2>1. p \in kids /\ LastName(p) = n BY <1>2, <1>6, LastOf
  <2> HIDE DEF p
  <2>2. gA[p] = Onto(r[d], s[e], d, n) /\ gB[p] = Onto(s[e], r[d], e, n) /\ gG[p] = FieldsBelow(x, G[t], n)
    BY <2>1
  <2> HIDE DEF gA, gB, gG
  <2>3. A2[p] = gA[p] /\ B2[p] = gB[p] /\ G2[p] = gG[p] BY <1>10, <1>11, <1>12, <2>1
  <2> QED BY <2>2, <2>3 DEF p
<1>14. IsTree(m2) /\ DOMAIN m2 = DOMAIN m \cup {t} BY <1>1, <1>2, AddTree
<1>15. m2[t] = x /\ \A p \in DOMAIN m : m2[p] = m[p] BY <1>2, <1>14 DEF Add
<1> HIDE DEF gA, gB, gG
<1>16. D2 = D \cup kids BY <1>14
<1>17. T2 \subseteq Positions \ DOMAIN m2
  BY <1>1, <1>2, <1>5, <1>14
<1>18. AllAbove(D2, DOMAIN m2)
  <2> SUFFICES ASSUME NEW p \in D2 PROVE \A k \in 0..(Len(p) - 1) : SubSeq(p, 1, k) \in DOMAIN m2
    BY DEF AllAbove
  <2>1. CASE p \in D BY <1>1, <1>14, <2>1 DEF AllAbove
  <2>2. CASE p \in kids
    <3>1. PICK n \in Elements : p = Append(t, n) BY <1>7, <2>2
    <3>2. \A k \in 0..(Len(t) - 1) : SubSeq(t, 1, k) \in DOMAIN m2 BY <1>1, <1>2, <1>14 DEF AllAbove
    <3> DEFINE E == DOMAIN m2
    <3>3. t \in E /\ \A k \in 0..(Len(t) - 1) : SubSeq(t, 1, k) \in E BY <1>14, <3>2
    <3> HIDE DEF E
    <3>4. \A k \in 0..(Len(Append(t, n)) - 1) : SubSeq(Append(t, n), 1, k) \in E BY <1>2, <3>3, AboveChild
    <3> QED BY <3>1, <3>4 DEF E
  <2> QED BY <1>16, <2>1, <2>2
<1>19. ASSUME NEW p \in D2 PROVE Level(r, Fr, s, Fs, A2[p], B2[p], G2[p])
  <2>1. CASE p \in D BY <1>1, <1>10, <1>11, <1>12, <2>1
  <2>2. CASE p \in kids
    <3>1. PICK n \in Elements : p = Append(t, n) /\ IsKid(r, Fr, s, Fs, d, e, x, G[t], n) /\ Joint(r, s, d, e, n)
      BY <1>6, <1>7, <2>2
    <3> QED BY <1>13, <3>1 DEF IsKid
  <2> QED BY <1>16, <2>1, <2>2
<1>20. ASSUME NEW p \in DOMAIN m2 PROVE IsJoin(m2[p], r[A2[p]], s[B2[p]])
  <2>1. CASE p \in DOMAIN m
    <3>1. A2[p] = A[p] /\ B2[p] = B[p] /\ m2[p] = m[p] BY <1>10, <1>11, <1>15, <2>1
    <3> QED BY <1>1, <2>1, <3>1
  <2>2. CASE p = t
    <3>1. A2[t] = d /\ B2[t] = e BY <1>2, <1>10, <1>11
    <3> QED BY <1>15, <2>2, <3>1
  <2> QED BY <1>14, <2>1, <2>2
<1>21. ASSUME NEW p \in DOMAIN m2, NEW n \in Elements PROVE Continues(r, s, m2, D2, A2, B2, G2, p, n)
  <2> DEFINE c == Append(p, n)
  <2>1. CASE p = t
    <3>1. c \notin D /\ (c \in kids <=> Joint(r, s, d, e, n)) BY <1>4, <1>6, <2>1
    <3>2. A2[p] = d /\ B2[p] = e /\ G2[p] = G[t] BY <1>2, <1>10, <1>11, <1>12, <2>1
    <3>3. Joint(r, s, d, e, n) =>
            A2[c] = Onto(r[d], s[e], d, n) /\ B2[c] = Onto(s[e], r[d], e, n) /\ G2[c] = FieldsBelow(x, G[t], n)
      BY <1>13, <2>1
    <3>4. c \notin DOMAIN m2 BY <1>2, <1>14, <3>1
    <3> HIDE DEF c, D2
    <3> QED BY <1>15, <1>16, <2>1, <3>1, <3>2, <3>3, <3>4 DEF Continues, c
  <2>2. CASE p \in DOMAIN m
    <3>1. Continues(r, s, m, D, A, B, G, p, n) BY <1>1, <2>2
    <3>2. p \in Positions /\ p # t /\ p \in D BY <1>2, <2>2
    <3>3. c \notin kids
      <4> SUFFICES ASSUME c \in kids PROVE FALSE OBVIOUS
      <4>1. PICK k \in Elements : c = Append(t, k) BY <1>7
      <4> QED BY <1>2, <3>2, <4>1, SameChild
    <3>4. c \in D2 <=> c \in D BY <1>16, <3>3
    <3>5. /\ A2[p] = A[p] /\ B2[p] = B[p] /\ G2[p] = G[p] /\ m2[p] = m[p]
          /\ c \in D => A2[c] = A[c] /\ B2[c] = B[c] /\ G2[c] = G[c]
      BY <1>10, <1>11, <1>12, <1>15, <2>2, <3>2
    <3>6. c \in DOMAIN m => m2[c] = m[c] /\ c \in D BY <1>15
    <3>7. c \in DOMAIN m2 => c \in DOMAIN m \/ c = t BY <1>14
    <3> HIDE DEF c, D2
    <3>8. /\ c \in D2 <=> Joint(r, s, A2[p], B2[p], n)
          /\ c \in D2 => /\ A2[c] = Onto(r[A2[p]], s[B2[p]], A2[p], n)
                         /\ B2[c] = Onto(s[B2[p]], r[A2[p]], B2[p], n)
                         /\ G2[c] = FieldsBelow(m2[p], G2[p], n)
      BY <3>1, <3>4, <3>5 DEF Continues, c
    <3>9. ASSUME c \in DOMAIN m2, r[A2[c]].leaf, s[B2[c]].leaf
          PROVE  (m2[c] = r[A2[c]] /\ ~Stays(r[A2[p]], s[B2[p]])) \/ (m2[c] = s[B2[c]] /\ ~Stays(s[B2[p]], r[A2[p]]))
      <4>1. c # t
        <5>1. A2[t] = d BY <1>2, <1>10
        <5> QED BY <3>9, <5>1
      <4>2. c \in DOMAIN m BY <3>7, <3>9, <4>1
      <4> QED BY <3>1, <3>5, <3>6, <3>9, <4>2 DEF Continues, c
    <3> QED BY <3>8, <3>9 DEF Continues, c
  <2> QED BY <1>14, <2>1, <2>2
<1>22. /\ A2 \in [D2 -> DOMAIN r] /\ B2 \in [D2 -> DOMAIN s] /\ G2 \in [D2 -> Seq(Elements)]
       /\ <<>> \in D2 /\ A2[<<>>] = <<>> /\ B2[<<>>] = <<>> /\ G2[<<>>] = <<>>
  BY <1>1, <1>10, <1>11, <1>12, <1>16
<1>23. Merges(r, Fr, s, Fs, m2, T2, A2, B2, G2)
  BY <1>14, <1>17, <1>18, <1>19, <1>20, <1>21, <1>22 DEF Merges
<1>25. \A p \in D : A2[p] = A[p] /\ B2[p] = B[p] BY <1>10, <1>11
<1> QED BY ONLY <1>4, <1>13, <1>23, <1>25 DEF Expanded, kids, D, m2, T2

-------------------------------------------------------------------------------
(* Clones                                                                     *)

\* The positions new hold a copy of what is at e and below in s, from t on; src
\* tells where each comes from.
IsClone(s, e, t, new, src) ==
  /\ t \in new /\ new \subseteq Positions /\ src \in [new -> DOMAIN s] /\ src[t] = e
  /\ \A q \in new : q = t \/ \E p \in new, n \in Elements : q = Append(p, n)
  /\ \A p \in new, n \in Elements : Append(p, n) \in new <=> ~s[src[p]].leaf /\ HasChild(s, src[p], n)
  /\ \A p \in new, n \in Elements : Append(p, n) \in new => src[Append(p, n)] = Append(src[p], n)
  /\ \A q \in new : /\ Len(t) <= Len(q) /\ SubSeq(q, 1, Len(t)) = t
                    /\ \A k \in Len(t)..(Len(q) - 1) : SubSeq(q, 1, k) \in new

\* What is to come is below nodes that are no leaves.
BelowNodes(r, s, m, T, A, B) ==
  \A p \in DOMAIN m, n \in Elements : Append(p, n) \in T => ~r[A[p]].leaf /\ ~s[B[p]].leaf

\* The positions of a clone are new.
LEMMA NewPositions ==
  ASSUME NEW s, NEW e, NEW t, NEW new, NEW src, IsClone(s, e, t, new, src),
         NEW E, NEW D, AllAbove(D, E), t \in D, t \notin E, t \in Positions, D \subseteq Positions
  PROVE  /\ \A q \in new : q \in D => q = t
         /\ \A p \in new, n \in Elements : Append(p, n) \notin D
         /\ \A p \in E \cap Positions, n \in Elements : p \in D /\ Append(p, n) \in new => Append(p, n) = t
<1>1. ASSUME NEW q \in Positions, Len(t) < Len(q), SubSeq(q, 1, Len(t)) = t PROVE q \notin D
  <2>1. Len(t) \in 0..(Len(q) - 1) BY <1>1 DEF Positions
  <2> QED BY <1>1, <2>1 DEF AllAbove
<1>2. ASSUME NEW q \in new, q # t PROVE q \notin D
  <2>1. q \in Positions /\ Len(t) <= Len(q) /\ SubSeq(q, 1, Len(t)) = t BY DEF IsClone
  <2>2. Len(q) # Len(t)
    <3>1. SubSeq(q, 1, Len(q)) = q BY <2>1 DEF Positions
    <3> QED BY <1>2, <2>1, <3>1
  <2>3. Len(t) \in Nat /\ Len(q) \in Nat BY <2>1 DEF Positions
  <2> QED BY <1>1, <2>1, <2>2, <2>3
<1>3. ASSUME NEW p \in new, NEW n \in Elements PROVE Append(p, n) \notin D
  <2>1. p \in Positions /\ Len(t) <= Len(p) /\ SubSeq(p, 1, Len(t)) = t BY DEF IsClone
  <2>2. /\ Append(p, n) \in Positions /\ Len(Append(p, n)) = Len(p) + 1
        /\ SubSeq(Append(p, n), 1, Len(t)) = SubSeq(p, 1, Len(t))
    BY <2>1 DEF Positions
  <2>3. Len(t) \in Nat /\ Len(p) \in Nat BY <2>1 DEF Positions
  <2>4. Len(t) < Len(Append(p, n)) BY <2>1, <2>2, <2>3
  <2>5. SubSeq(Append(p, n), 1, Len(t)) = t BY <2>1, <2>2
  <2> DEFINE c == Append(p, n)
  <2>6. c \in Positions /\ Len(t) < Len(c) /\ SubSeq(c, 1, Len(t)) = t BY <2>2, <2>4, <2>5
  <2> HIDE DEF c
  <2>7. c \notin D BY <1>1, <2>6
  <2> QED BY <2>7 DEF c
<1>4. ASSUME NEW p \in E \cap Positions, NEW n \in Elements, p \in D, Append(p, n) \in new
      PROVE  Append(p, n) = t
  <2> SUFFICES ASSUME Append(p, n) # t PROVE FALSE OBVIOUS
  <2>1. PICK p2 \in new, n2 \in Elements : Append(p, n) = Append(p2, n2) BY <1>4 DEF IsClone
  <2>2. p2 \in Positions BY DEF IsClone
  <2>3. p = p2 BY <2>1, <2>2, SameChild
  <2>4. p = t BY <1>2, <1>4, <2>3
  <2> QED BY <2>4
<1> QED BY <1>2, <1>3, <1>4

\* The intersection m of r and s is to go on at t, where r has a leaf; in m2 the
\* clone of what s has there is put there.
Copying(r, Fr, P, s, Fs, Q, m, T, A, B, G, t, d, e, new, src, m2) ==
  /\ NamedFor(r, Fr, P) /\ NamedFor(s, Fs, Q) /\ Merges(r, Fr, s, Fs, m, T, A, B, G) /\ BelowNodes(r, s, m, T, A, B)
  /\ t \in T /\ d = A[t] /\ e = B[t] /\ r[d].leaf /\ IsClone(s, e, t, new, src)
  /\ IsTree(m2) /\ DOMAIN m2 = DOMAIN m \cup new
  /\ \A q \in new : m2[q] = s[src[q]]
  /\ \A q \in DOMAIN m : q \notin new => m2[q] = m[q]

\* The clone is in place, and t is done.
Copied(r, Fr, s, Fs, m, T, A, B, t, m2, A2, B2, G2) ==
  /\ Merges(r, Fr, s, Fs, m2, T \ {t}, A2, B2, G2) /\ BelowNodes(r, s, m2, T \ {t}, A2, B2)
  /\ \A p \in DOMAIN m \cup T : A2[p] = A[p] /\ B2[p] = B[p]

\* One of the two nodes is a leaf: the other is cloned.
LEMMA CloneMerge ==
  ASSUME NEW r, NEW Fr, NEW P, NEW s, NEW Fs, NEW Q, NEW m, NEW T, NEW A, NEW B, NEW G, NEW t, NEW d, NEW e,
         NEW new, NEW src, NEW m2,
         Copying(r, Fr, P, s, Fs, Q, m, T, A, B, G, t, d, e, new, src, m2)
  PROVE  \E A2, B2, G2 : Copied(r, Fr, s, Fs, m, T, A, B, t, m2, A2, B2, G2)
<1> DEFINE D == DOMAIN m \cup T
<1>0. /\ NamedFor(r, Fr, P) /\ NamedFor(s, Fs, Q) /\ Merges(r, Fr, s, Fs, m, T, A, B, G) /\ BelowNodes(r, s, m, T, A, B)
      /\ t \in T /\ d = A[t] /\ e = B[t] /\ r[d].leaf /\ IsClone(s, e, t, new, src)
      /\ IsTree(m2) /\ DOMAIN m2 = DOMAIN m \cup new /\ D = DOMAIN m \cup T
      /\ \A q \in new : m2[q] = s[src[q]]
      /\ \A q \in DOMAIN m : q \notin new => m2[q] = m[q]
  BY DEF Copying
<1> HIDE DEF D
<1> USE <1>0
<1> DEFINE T2 == T \ {t}
           D2 == DOMAIN m2 \cup T2
<1>1. /\ A \in [D -> DOMAIN r] /\ B \in [D -> DOMAIN s] /\ G \in [D -> Seq(Elements)]
      /\ IsTree(m) /\ T \subseteq Positions \ DOMAIN m /\ AllAbove(D, DOMAIN m)
      /\ <<>> \in D /\ A[<<>>] = <<>> /\ B[<<>>] = <<>> /\ G[<<>>] = <<>>
      /\ \A p \in D : Level(r, Fr, s, Fs, A[p], B[p], G[p])
      /\ \A p \in DOMAIN m : IsJoin(m[p], r[A[p]], s[B[p]])
      /\ \A p \in DOMAIN m, n \in Elements : Continues(r, s, m, D, A, B, G, p, n)
  BY DEF Merges
<1>2. /\ t \in Positions /\ t \notin DOMAIN m /\ t \in D /\ D \subseteq Positions /\ DOMAIN m \subseteq D
      /\ d \in DOMAIN r /\ e \in DOMAIN s /\ Level(r, Fr, s, Fs, d, e, G[t]) /\ G[t] \in Seq(Elements)
  BY <1>1 DEF IsTree
<1>3. /\ t \in new /\ new \subseteq Positions /\ src \in [new -> DOMAIN s] /\ src[t] = e
      /\ \A p \in new, n \in Elements : Append(p, n) \in new <=> ~s[src[p]].leaf /\ HasChild(s, src[p], n)
      /\ \A p \in new, n \in Elements : Append(p, n) \in new => src[Append(p, n)] = Append(src[p], n)
      /\ \A q \in new : \A k \in Len(t)..(Len(q) - 1) : SubSeq(q, 1, k) \in new
  BY DEF IsClone
<1>4. /\ \A q \in new : q \in D => q = t
      /\ \A p \in new, n \in Elements : Append(p, n) \notin D
      /\ \A p \in DOMAIN m, n \in Elements : Append(p, n) \in new => Append(p, n) = t
  <2> DEFINE E == DOMAIN m
  <2>1. AllAbove(D, E) /\ t \notin E /\ E \subseteq D BY <1>1, <1>2
  <2> HIDE DEF E
  <2>2. /\ \A q \in new : q \in D => q = t
        /\ \A p \in new, n \in Elements : Append(p, n) \notin D
        /\ \A p \in E \cap Positions, n \in Elements : p \in D /\ Append(p, n) \in new => Append(p, n) = t
    BY <1>2, <2>1, NewPositions
  <2> QED BY <1>2, <2>1, <2>2 DEF E
<1>5. Fs \in [DOMAIN s -> Seq(Elements)] /\ Named(s, Fs) BY DEF NamedFor, Named
<1> DEFINE gA == [q \in new |-> d]
           gG == [q \in new |-> IF q = t THEN G[t] ELSE Fs[src[q]]]
           S == Seq(Elements)
           A2 == With(A, D, new, gA)
           B2 == With(B, D, new, src)
           G2 == With(G, D, new, gG)
<1>6. gA \in [new -> DOMAIN r] /\ gG \in [new -> S]
  BY <1>2, <1>3, <1>5
<1>7. /\ A2 \in [D \cup new -> DOMAIN r]
      /\ \A p \in new : A2[p] = d
      /\ \A p \in D : A2[p] = A[p]
  <2>1. A2 = With(A, D, new, gA) /\ \A p \in new : gA[p] = d OBVIOUS
  <2>2. A \in [D -> DOMAIN r] /\ gA \in [new -> DOMAIN r] BY <1>1, <1>6
  <2> HIDE DEF gA, A2
  <2>3. /\ A2 \in [D \cup new -> DOMAIN r]
        /\ \A p \in new : A2[p] = gA[p]
        /\ \A p \in D : p \notin new => A2[p] = A[p]
    BY ONLY <2>1, <2>2 DEF With
  <2>4. \A p \in D : p \in new => p = t /\ A[p] = d BY <1>4
  <2> QED BY ONLY <2>1, <2>3, <2>4
<1>8. /\ B2 \in [D \cup new -> DOMAIN s]
      /\ \A p \in new : B2[p] = src[p]
      /\ \A p \in D : B2[p] = B[p]
  <2>1. B \in [D -> DOMAIN s] /\ src \in [new -> DOMAIN s] /\ B2 = With(B, D, new, src) BY <1>1, <1>3
  <2> HIDE DEF B2
  <2>2. /\ B2 \in [D \cup new -> DOMAIN s]
        /\ \A p \in new : B2[p] = src[p]
        /\ \A p \in D : p \notin new => B2[p] = B[p]
    BY ONLY <2>1 DEF With
  <2>3. \A p \in D : p \in new => B[p] = src[p] BY <1>3, <1>4
  <2> QED BY ONLY <2>2, <2>3
<1>9. /\ G2 \in [D \cup new -> S]
      /\ \A p \in new : p # t => G2[p] = Fs[src[p]]
      /\ \A p \in D : G2[p] = G[p]
  <2>1. G2 = With(G, D, new, gG) /\ gG[t] = G[t] /\ \A p \in new : p # t => gG[p] = Fs[src[p]]
    BY <1>3
  <2>2. G \in [D -> S] /\ gG \in [new -> S] BY <1>1, <1>6
  <2> HIDE DEF gG, S, G2
  <2>3. /\ G2 \in [D \cup new -> S]
        /\ \A p \in new : G2[p] = gG[p]
        /\ \A p \in D : p \notin new => G2[p] = G[p]
    BY ONLY <2>1, <2>2 DEF With
  <2>4. \A p \in D : p \in new => p = t BY <1>4
  <2> QED BY ONLY <2>1, <2>3, <2>4
<1> HIDE DEF gA, gG, A2, B2, G2
<1>10. A2[t] = A[t] /\ B2[t] = B[t] /\ G2[t] = G[t] /\ B2[t] = e BY <1>2, <1>7, <1>8, <1>9
<1>11. D2 = D \cup new BY <1>3
<1>12. T2 \subseteq Positions \ DOMAIN m2
  <2>1. \A q \in T : q \in D BY <1>2
  <2> QED BY <1>1, <1>4, <2>1
<1>13. AllAbove(D2, DOMAIN m2)
  <2> SUFFICES ASSUME NEW p \in D2 PROVE \A k \in 0..(Len(p) - 1) : SubSeq(p, 1, k) \in DOMAIN m2
    BY DEF AllAbove
  <2>1. CASE p \in D BY <1>1, <2>1 DEF AllAbove
  <2>2. CASE p \in new
    <3>1. p \in Positions /\ Len(t) <= Len(p) /\ SubSeq(p, 1, Len(t)) = t BY <2>2 DEF IsClone
    <3>2. TAKE k \in 0..(Len(p) - 1)
    <3>3. Len(t) \in Nat /\ Len(p) \in Nat BY <1>2, <3>1 DEF Positions
    <3>4. CASE k < Len(t)
      <4>1. k \in 0..(Len(t) - 1) BY <3>2, <3>3, <3>4
      <4>2. SubSeq(t, 1, k) \in DOMAIN m BY <1>1, <1>2, <4>1 DEF AllAbove
      <4>3. SubSeq(SubSeq(p, 1, Len(t)), 1, k) = SubSeq(p, 1, k) BY <3>1, <3>3, <4>1 DEF Positions
      <4> QED BY <3>1, <4>2, <4>3
    <3>5. CASE k >= Len(t)
      <4>1. k \in Len(t)..(Len(p) - 1) BY <3>2, <3>3, <3>5
      <4> QED BY <1>3, <2>2, <4>1
    <3> QED BY <3>2, <3>3, <3>4, <3>5
  <2> QED BY <1>11, <2>1, <2>2
<1>14. ASSUME NEW p \in new PROVE ~s[src[p]].leaf => Fs[src[p]] = G2[p]
  <2>1. CASE p = t BY <1>2, <1>3, <1>10, <2>1 DEF Level
  <2>2. CASE p # t BY <1>9, <2>2
  <2> QED BY <2>1, <2>2
<1>15. ASSUME NEW p \in D2 PROVE Level(r, Fr, s, Fs, A2[p], B2[p], G2[p])
  <2>1. CASE p \in D BY <1>1, <1>7, <1>8, <1>9, <2>1
  <2>2. CASE p \in new BY <1>7, <1>8, <1>14, <2>2 DEF Level
  <2> QED BY <1>11, <2>1, <2>2
<1>16. ASSUME NEW p \in DOMAIN m2 PROVE IsJoin(m2[p], r[A2[p]], s[B2[p]])
  <2>1. CASE p \in new
    <3>1. A2[p] = d /\ B2[p] = src[p] /\ m2[p] = s[src[p]] BY <1>7, <1>8, <2>1
    <3>2. IsJoin(s[src[p]], r[d], s[src[p]]) BY DEF IsJoin
    <3> QED BY <3>1, <3>2
  <2>2. CASE p \in DOMAIN m /\ p \notin new
    <3>1. A2[p] = A[p] /\ B2[p] = B[p] /\ m2[p] = m[p] BY <1>2, <1>7, <1>8, <2>2
    <3> QED BY <1>1, <2>2, <3>1
  <2> QED BY <2>1, <2>2
<1>17. ASSUME NEW p \in new, NEW n \in Elements PROVE Continues(r, s, m2, D2, A2, B2, G2, p, n)
  <2> DEFINE c == Append(p, n)
  <2>1. c \notin D /\ (c \in new <=> ~s[src[p]].leaf /\ HasChild(s, src[p], n)) BY <1>3, <1>4
  <2>2. A2[p] = d /\ B2[p] = src[p] /\ m2[p] = s[src[p]] BY <1>7, <1>8
  <2>3. c \in new => A2[c] = d /\ B2[c] = Append(src[p], n) /\ m2[c] = s[B2[c]]
    <3>1. c \in new => src[c] = Append(src[p], n) BY <1>3
    <3> HIDE DEF c
    <3> SUFFICES ASSUME c \in new PROVE A2[c] = d /\ B2[c] = Append(src[p], n) /\ m2[c] = s[B2[c]]
      OBVIOUS
    <3>2. A2[c] = d BY <1>7
    <3>3. B2[c] = src[c] BY <1>8
    <3>4. m2[c] = s[src[c]] OBVIOUS
    <3> QED BY <3>1, <3>2, <3>3, <3>4
  <2>4. c \in new => G2[c] = FieldsBelow(m2[p], G2[p], n)
    <3> SUFFICES ASSUME c \in new PROVE G2[c] = FieldsBelow(m2[p], G2[p], n) OBVIOUS
    <3>1. ~s[src[p]].leaf /\ HasChild(s, src[p], n) BY <2>1
    <3>2. c # t BY <1>2, <2>1
    <3>3. G2[c] = Fs[Append(src[p], n)] BY <1>3, <1>9, <3>2
    <3>4. Fs[Append(src[p], n)] = IF KeyMap(s, src[p]) THEN Fs[src[p]] ELSE Append(Fs[src[p]], n)
      <4>1. src[p] \in DOMAIN s BY <1>3
      <4> QED BY <1>5, <3>1, <4>1 DEF Named
    <3>5. Fs[src[p]] = G2[p] BY <1>14, <3>1
    <3> QED BY <2>2, <3>3, <3>4, <3>5 DEF FieldsBelow, KeyMap
  <2>5. c \in D2 <=> c \in new BY <1>11, <2>1
  <2> HIDE DEF c, D2
  <2>6. c \in D2 <=> Joint(r, s, A2[p], B2[p], n) BY <2>1, <2>2, <2>5 DEF Joint, Stays
  <2>7. c \in D2 => /\ A2[c] = Onto(r[A2[p]], s[B2[p]], A2[p], n)
                    /\ B2[c] = Onto(s[B2[p]], r[A2[p]], B2[p], n)
                    /\ G2[c] = FieldsBelow(m2[p], G2[p], n)
                    /\ m2[c] = s[B2[c]] /\ ~Stays(s[B2[p]], r[A2[p]])
    BY <2>1, <2>2, <2>3, <2>4, <2>5 DEF Onto, Stays
  <2>8. c \in DOMAIN m2 => c \in D2 BY DEF D2
  <2> QED BY <2>6, <2>7, <2>8 DEF Continues, c
<1>18. ASSUME NEW p \in DOMAIN m, NEW n \in Elements PROVE Continues(r, s, m2, D2, A2, B2, G2, p, n)
  <2> DEFINE c == Append(p, n)
  <2>1. p \in D /\ p # t /\ p \notin new BY <1>2, <1>4
  <2>2. c \in D2 <=> c \in D
    <3>1. c \in new => c = t BY <1>4
    <3> HIDE DEF c, D2
    <3> QED BY <1>2, <1>11, <3>1
  <2>3. Continues(r, s, m, D, A, B, G, p, n) BY <1>1
  <2>4. /\ A2[p] = A[p] /\ B2[p] = B[p] /\ G2[p] = G[p] /\ m2[p] = m[p]
        /\ c \in D => A2[c] = A[c] /\ B2[c] = B[c] /\ G2[c] = G[c]
    BY <1>7, <1>8, <1>9, <2>1
  <2>5. c \in DOMAIN m2 => c = t \/ (c \in DOMAIN m /\ m2[c] = m[c]) BY <1>4
  <2>6. c = t => ~r[A[p]].leaf /\ ~s[B[p]].leaf BY DEF BelowNodes
  <2>7. c \in DOMAIN m2 => c \in D2 OBVIOUS
  <2> HIDE DEF c, D2
  <2>8. /\ c \in D2 <=> Joint(r, s, A2[p], B2[p], n)
        /\ c \in D2 => /\ A2[c] = Onto(r[A2[p]], s[B2[p]], A2[p], n)
                       /\ B2[c] = Onto(s[B2[p]], r[A2[p]], B2[p], n)
                       /\ G2[c] = FieldsBelow(m2[p], G2[p], n)
    BY <2>2, <2>3, <2>4 DEF Continues, c
  <2>9. ASSUME c \in DOMAIN m2, r[A2[c]].leaf, s[B2[c]].leaf
        PROVE  (m2[c] = r[A2[c]] /\ ~Stays(r[A2[p]], s[B2[p]])) \/ (m2[c] = s[B2[c]] /\ ~Stays(s[B2[p]], r[A2[p]]))
    <3>1. CASE c = t
      <4>1. ~r[A2[p]].leaf /\ ~s[B2[p]].leaf BY <2>4, <2>6, <3>1
      <4>2. ~Stays(s[B2[p]], r[A2[p]])
        <5> SUFFICES ASSUME Stays(s[B2[p]], r[A2[p]]) PROVE FALSE OBVIOUS
        <5>1. B2[c] = B2[p] BY <2>7, <2>8, <2>9 DEF Onto
        <5> QED BY <2>9, <4>1, <5>1
      <4>3. m2[t] = s[B2[t]] BY <1>3, <1>10
      <4> QED BY <3>1, <4>2, <4>3
    <3>2. CASE c # t
      <4>1. c \in DOMAIN m /\ m2[c] = m[c] /\ c \in D BY <1>2, <2>5, <2>9, <3>2
      <4> QED BY <2>3, <2>4, <2>9, <4>1 DEF Continues, c
    <3> QED BY <3>1, <3>2
  <2> QED BY <2>8, <2>9 DEF Continues, c
<1>19. /\ A2 \in [D2 -> DOMAIN r] /\ B2 \in [D2 -> DOMAIN s] /\ G2 \in [D2 -> Seq(Elements)]
       /\ <<>> \in D2 /\ A2[<<>>] = <<>> /\ B2[<<>>] = <<>> /\ G2[<<>>] = <<>>
  BY <1>1, <1>7, <1>8, <1>9, <1>11
<1>20. \A p \in DOMAIN m2, n \in Elements : Continues(r, s, m2, D2, A2, B2, G2, p, n) BY <1>17, <1>18
<1>22. BelowNodes(r, s, m2, T2, A2, B2)
  <2> SUFFICES ASSUME NEW p \in DOMAIN m2, NEW n \in Elements, Append(p, n) \in T2
               PROVE  ~r[A2[p]].leaf /\ ~s[B2[p]].leaf
    BY DEF BelowNodes
  <2>1. Append(p, n) \in T /\ Append(p, n) \in D OBVIOUS
  <2>2. p \in DOMAIN m BY <1>4, <2>1
  <2>3. A2[p] = A[p] /\ B2[p] = B[p] BY <1>2, <1>7, <1>8, <2>2
  <2>4. ~r[A[p]].leaf /\ ~s[B[p]].leaf BY <2>1, <2>2 DEF BelowNodes
  <2> QED BY <2>3, <2>4
<1> HIDE DEF T2
<1>21. Merges(r, Fr, s, Fs, m2, T2, A2, B2, G2)
  BY <1>12, <1>13, <1>15, <1>16, <1>19, <1>20 DEF Merges
<1>23. \A p \in D : A2[p] = A[p] /\ B2[p] = B[p] BY <1>7, <1>8
<1> QED BY ONLY <1>21, <1>22, <1>23 DEF Copied, D, T2

\* The position p is the position e or below it.
Under(e, p) == Len(e) <= Len(p) /\ SubSeq(p, 1, Len(e)) = e

\* Where a position below e goes when what is at e is put at t.
Moved(e, t, p) == t \o SubSeq(p, Len(e) + 1, Len(p))

\* What hangs below e in s, except below leaves.
Hanging(s, e) == {p \in DOMAIN s : Under(e, p) /\ \A i \in Len(e)..(Len(p) - 1) : ~s[SubSeq(p, 1, i)].leaf}

\* A part of a position, and the element behind it.
LEMMA OneMore ==
  ASSUME NEW S, NEW p \in Seq(S), NEW k \in 0..(Len(p) - 1), NEW a \in 1..(k + 1)
  PROVE  SubSeq(p, a, k + 1) = Append(SubSeq(p, a, k), p[k + 1])
<1> DEFINE u == SubSeq(p, a, k + 1)
           v == Append(SubSeq(p, a, k), p[k + 1])
<1>1. k \in Nat /\ Len(p) \in Nat /\ a \in Nat /\ a <= k + 1 OBVIOUS
<1>2. p[k + 1] \in S BY <1>1
<1>3. SubSeq(p, a, k) \in Seq(S) /\ Len(SubSeq(p, a, k)) = (k + 1) - a BY <1>1
<1>4. u \in Seq(S) /\ Len(u) = (k + 2) - a BY <1>1
<1>5. v \in Seq(S) /\ Len(v) = (k + 2) - a BY <1>1, <1>2, <1>3
<1>6. ASSUME NEW i \in 1..((k + 2) - a) PROVE u[i] = v[i]
  <2>1. u[i] = p[a + (i - 1)] BY <1>1
  <2>2. CASE i = (k + 2) - a BY <1>1, <1>2, <1>3, <2>1, <2>2
  <2>3. CASE i # (k + 2) - a
    <3>1. i \in 1..((k + 1) - a) BY <1>1, <2>3
    <3>2. SubSeq(p, a, k)[i] = p[a + (i - 1)] BY <1>1, <3>1
    <3> QED BY <1>1, <1>2, <1>3, <2>1, <3>1, <3>2
  <2> QED BY <2>2, <2>3
<1> HIDE DEF u, v
<1>7. u = v
  <2>1. Len(u) = Len(v) /\ \A i \in 1..Len(u) : u[i] = v[i] BY ONLY <1>4, <1>5, <1>6
  <2> QED BY ONLY <1>4, <1>5, <2>1
<1> QED BY <1>7 DEF u, v

\* A position below e, moved below t.
LEMMA MovedThere ==
  ASSUME NEW e \in Positions, NEW t \in Positions, NEW p \in Positions, Under(e, p)
  PROVE  /\ Moved(e, t, p) \in Positions /\ Under(t, Moved(e, t, p))
         /\ Len(Moved(e, t, p)) = Len(t) + (Len(p) - Len(e))
<1> USE DEF Positions, Under, Moved
<1> DEFINE rest == SubSeq(p, Len(e) + 1, Len(p))
<1>1. rest \in Seq(Elements) /\ Len(rest) = Len(p) - Len(e) OBVIOUS
<1>2. Moved(e, t, p) = t \o rest OBVIOUS
<1>3. Len(e) \in Nat /\ Len(p) \in Nat /\ Len(t) \in Nat OBVIOUS
<1> HIDE DEF rest, Moved
<1>4. Len(t \o rest) = Len(t) + Len(rest) /\ SubSeq(t \o rest, 1, Len(t)) = t BY <1>1
<1>5. t \o rest \in Seq(Elements) BY <1>1
<1> QED BY <1>1, <1>2, <1>3, <1>4, <1>5

\* Moving there and back again.
LEMMA MovedBack ==
  ASSUME NEW e \in Positions, NEW t \in Positions, NEW p \in Positions, Under(e, p)
  PROVE  Moved(t, e, Moved(e, t, p)) = p
<1> USE DEF Positions
<1> DEFINE rest == SubSeq(p, Len(e) + 1, Len(p))
<1>1. rest \in Seq(Elements) /\ e \o rest = p BY Split DEF Under
<1>2. SubSeq(t \o rest, Len(t) + 1, Len(t \o rest)) = rest BY <1>1, Suffix
<1> QED BY <1>1, <1>2 DEF Moved

\* The root of what is moved.
LEMMA MovedSelf ==
  ASSUME NEW e \in Positions, NEW t \in Positions
  PROVE  Under(e, e) /\ Moved(e, t, e) = t
<1>1. SubSeq(e, Len(e) + 1, Len(e)) = <<>> BY DEF Positions
<1> QED BY <1>1 DEF Positions, Under, Moved

\* Children move with their parents.
LEMMA MovedChild ==
  ASSUME NEW e \in Positions, NEW t \in Positions, NEW p \in Positions, Under(e, p), NEW n \in Elements
  PROVE  Under(e, Append(p, n)) /\ Moved(e, t, Append(p, n)) = Append(Moved(e, t, p), n)
<1> USE DEF Positions
<1> DEFINE c == Append(p, n)
           rest == SubSeq(p, Len(e) + 1, Len(p))
<1>1. c \in Seq(Elements) /\ Len(c) = Len(p) + 1 /\ Len(e) <= Len(p) BY DEF Under
<1>2. Under(e, c)
  <2>1. SubSeq(c, 1, Len(e)) = SubSeq(p, 1, Len(e)) BY <1>1
  <2> QED BY <1>1, <2>1 DEF Under
<1>3. SubSeq(c, Len(e) + 1, Len(c)) = Append(rest, n)
  <2>1. Len(e) + 1 \in 1..(Len(p) + 1) /\ c[Len(p) + 1] = n BY <1>1
  <2> DEFINE k == Len(p)
             a == Len(e) + 1
  <2>4. k \in 0..(Len(c) - 1) /\ a \in 1..(k + 1) BY <1>1, <2>1
  <2> HIDE DEF c, k, a
  <2>5. SubSeq(c, a, k + 1) = Append(SubSeq(c, a, k), c[k + 1]) BY <1>1, <2>4, OneMore
  <2>2. SubSeq(c, Len(e) + 1, Len(p) + 1) = Append(SubSeq(c, Len(e) + 1, Len(p)), c[Len(p) + 1])
    BY <2>5 DEF k, a
  <2> USE DEF c
  <2>3. SubSeq(c, Len(e) + 1, Len(p)) = rest BY <1>1
  <2> QED BY <1>1, <2>1, <2>2, <2>3
<1>4. rest \in Seq(Elements) OBVIOUS
<1> HIDE DEF rest
<1>5. t \o Append(rest, n) = Append(t \o rest, n) BY <1>4
<1> QED BY <1>2, <1>3, <1>5 DEF Moved, rest

\* The positions above one that is moved are moved as well.
LEMMA MovedPrefix ==
  ASSUME NEW e \in Positions, NEW t \in Positions, NEW p \in Positions, Under(e, p), NEW k \in Len(e)..Len(p)
  PROVE  /\ SubSeq(p, 1, k) \in Positions /\ Under(e, SubSeq(p, 1, k)) /\ Len(SubSeq(p, 1, k)) = k
         /\ Moved(e, t, SubSeq(p, 1, k)) = SubSeq(Moved(e, t, p), 1, Len(t) + (k - Len(e)))
<1> USE DEF Positions
<1> DEFINE f == SubSeq(p, 1, k)
           rest == SubSeq(p, Len(e) + 1, Len(p))
<1>1. f \in Seq(Elements) /\ Len(f) = k /\ Len(e) <= k /\ k \in Nat /\ Len(e) \in Nat BY DEF Under
<1>2. SubSeq(f, 1, Len(e)) = SubSeq(p, 1, Len(e)) BY <1>1
<1>3. Under(e, f) BY <1>1, <1>2 DEF Under
<1>4. SubSeq(f, Len(e) + 1, k) = SubSeq(rest, 1, k - Len(e)) BY <1>1
<1>5. rest \in Seq(Elements) /\ Len(rest) = Len(p) - Len(e) BY <1>1
<1> DEFINE j == k - Len(e)
<1>6. j \in 0..Len(rest) BY <1>1, <1>5
<1> HIDE DEF rest, j
<1>7. SubSeq(t \o rest, 1, Len(t) + j) = t \o SubSeq(rest, 1, j) BY <1>5, <1>6
<1> QED BY <1>1, <1>3, <1>4, <1>7 DEF Moved, rest, j

\* In a tree, what is above a node is a node.
LEMMA NodesAbove ==
  ASSUME NEW s, Rooted(s), NEW p \in DOMAIN s
  PROVE  \A k \in 0..Len(p) : SubSeq(p, 1, k) \in DOMAIN s
<1>1. p \in Seq(Elements) /\ Len(p) \in Nat BY DEF Rooted, IsTree, Positions
<1> DEFINE N == Len(p)
           T == {j \in 0..N : SubSeq(p, 1, N - j) \in DOMAIN s}
<1>2. 0 \in T
  <2>1. SubSeq(p, 1, N) = p BY <1>1
  <2>2. 0 \in 0..N /\ N - 0 = N BY <1>1
  <2> HIDE DEF N
  <2> QED BY <2>1, <2>2
<1>3. ASSUME NEW j \in 0..(N - 1), j \in T PROVE j + 1 \in T
  <2> DEFINE f == SubSeq(p, 1, N - (j + 1))
  <2>1. N - (j + 1) \in 0..(N - 1) /\ (N - (j + 1)) + 1 = N - j BY <1>1
  <2>2. f \in Positions /\ p[N - j] \in Elements BY <1>1, <2>1 DEF Positions
  <2> DEFINE k == N - (j + 1)
  <2>6. k \in 0..(Len(p) - 1) /\ 1 \in 1..(k + 1) /\ k + 1 = N - j BY <1>1, <2>1
  <2> HIDE DEF k
  <2>7. SubSeq(p, 1, k + 1) = Append(SubSeq(p, 1, k), p[k + 1]) BY <1>1, <2>6, OneMore
  <2>3. SubSeq(p, 1, N - j) = Append(f, p[N - j]) BY <2>6, <2>7 DEF k
  <2>4. HasChild(s, f, p[N - j]) BY <1>3, <2>3 DEF HasChild
  <2>5. f \in DOMAIN s BY <2>2, <2>4 DEF Rooted
  <2> QED BY <1>1, <2>5
<1>4. N \in Nat BY <1>1
<1> HIDE DEF T, N
<1>5. \A j \in 0..N : j \in T BY <1>2, <1>3, <1>4, UpTo
<1>6. TAKE k \in 0..Len(p)
<1>7. N - k \in 0..N /\ N - (N - k) = k BY <1>1 DEF N
<1>8. N - k \in T BY <1>5, <1>7
<1> QED BY <1>7, <1>8 DEF T

\* What hangs below e, moved below t, is a clone.
LEMMA CloneIs ==
  ASSUME NEW s, Rooted(s), NEW e \in DOMAIN s, NEW t \in Positions,
         NEW new, new = {Moved(e, t, p) : p \in Hanging(s, e)},
         NEW src, src = [q \in new |-> Moved(t, e, q)]
  PROVE  IsClone(s, e, t, new, src)
<1> DEFINE C == Hanging(s, e)
<1>0. DOMAIN s \subseteq Positions /\ e \in Positions BY DEF Rooted, IsTree
<1>1. ASSUME NEW p \in C
      PROVE  /\ p \in DOMAIN s /\ p \in Positions /\ Under(e, p)
             /\ \A i \in Len(e)..(Len(p) - 1) : ~s[SubSeq(p, 1, i)].leaf
  BY <1>0 DEF Hanging
<1>2. e \in C
  <2>1. Under(e, e) BY <1>0, MovedSelf
  <2>2. Len(e)..(Len(e) - 1) = {} BY <1>0 DEF Positions
  <2> QED BY <2>1, <2>2 DEF Hanging
<1>3. ASSUME NEW q \in new
      PROVE  \E p \in C : q = Moved(e, t, p) /\ src[q] = p /\ q \in Positions /\ Under(t, q)
                          /\ Len(q) = Len(t) + (Len(p) - Len(e))
  <2>1. PICK p \in C : q = Moved(e, t, p) OBVIOUS
  <2>2. p \in Positions /\ Under(e, p) BY <1>1
  <2>3. src[q] = Moved(t, e, q) OBVIOUS
  <2>4. src[q] = p BY <1>0, <2>1, <2>2, <2>3, MovedBack
  <2>5. q \in Positions /\ Under(t, q) /\ Len(q) = Len(t) + (Len(p) - Len(e))
    BY <1>0, <2>1, <2>2, MovedThere
  <2> QED BY <2>1, <2>4, <2>5
<1>4. ASSUME NEW p \in C PROVE Moved(e, t, p) \in new /\ src[Moved(e, t, p)] = p
  <2>1. p \in Positions /\ Under(e, p) BY <1>1
  <2>2. Moved(t, e, Moved(e, t, p)) = p BY <1>0, <2>1, MovedBack
  <2>3. Moved(e, t, p) \in new OBVIOUS
  <2> QED BY <2>2, <2>3
<1>5. t \in new /\ src[t] = e
  <2>1. Moved(e, t, e) = t BY <1>0, MovedSelf
  <2> QED BY <1>2, <1>4, <2>1
<1> HIDE DEF C
<1>6. src \in [new -> DOMAIN s] /\ new \subseteq Positions
  <2>1. src = [q \in new |-> src[q]] OBVIOUS
  <2> QED BY <1>1, <1>3, <2>1
\* The part of a position that hangs below e hangs there.
<1>7. ASSUME NEW p \in C, NEW k \in Len(e)..Len(p) PROVE SubSeq(p, 1, k) \in C
  <2>1. p \in Positions /\ Under(e, p) /\ p \in DOMAIN s BY <1>1
  <2>2. /\ SubSeq(p, 1, k) \in Positions /\ Under(e, SubSeq(p, 1, k)) /\ Len(SubSeq(p, 1, k)) = k
    BY <1>0, <2>1, MovedPrefix
  <2>3. k \in 0..Len(p) /\ k \in Nat /\ Len(e) \in Nat /\ Len(p) \in Nat BY <1>0, <2>1 DEF Positions
  <2>4. SubSeq(p, 1, k) \in DOMAIN s BY <2>1, <2>3, NodesAbove
  <2>5. ASSUME NEW i \in Len(e)..(k - 1) PROVE ~s[SubSeq(SubSeq(p, 1, k), 1, i)].leaf
    <3>1. i \in Len(e)..(Len(p) - 1) /\ i \in 0..k BY <2>3
    <3>2. SubSeq(SubSeq(p, 1, k), 1, i) = SubSeq(p, 1, i) BY <2>1, <2>3, <3>1 DEF Positions
    <3> QED BY <1>1, <3>1, <3>2
  <2> QED BY <2>2, <2>4, <2>5 DEF Hanging, C
<1>8. ASSUME NEW p \in C, NEW n \in Elements
      PROVE  Append(p, n) \in C <=> ~s[p].leaf /\ HasChild(s, p, n)
  <2> DEFINE c == Append(p, n)
  <2>1. p \in Positions /\ Under(e, p) /\ p \in DOMAIN s BY <1>1
  <2>2. Under(e, c) BY <1>0, <2>1, MovedChild
  <2>3. /\ Len(c) = Len(p) + 1 /\ Len(p) \in Nat /\ Len(e) \in Nat /\ Len(e) <= Len(p)
        /\ SubSeq(c, 1, Len(p)) = p
    BY <1>0, <2>1 DEF Positions, Under
  <2>4. ASSUME NEW i \in Len(e)..(Len(p) - 1) PROVE ~s[SubSeq(c, 1, i)].leaf
    <3>1. SubSeq(c, 1, i) = SubSeq(p, 1, i) BY <2>1, <2>3 DEF Positions
    <3> QED BY <1>1, <3>1
  <2> HIDE DEF c
  <2>5. (\A i \in Len(e)..(Len(c) - 1) : ~s[SubSeq(c, 1, i)].leaf) <=> ~s[p].leaf
    <3>1. Len(p) \in Len(e)..(Len(c) - 1) BY <2>3
    <3>2. ASSUME NEW i \in Len(e)..(Len(c) - 1) PROVE i = Len(p) \/ i \in Len(e)..(Len(p) - 1)
      <4>1. Len(c) - 1 = Len(p) BY <2>3
      <4>2. i \in Len(e)..Len(p) BY <4>1
      <4>3. Len(p) \in Nat /\ Len(e) \in Nat BY <2>3
      <4> DEFINE a == Len(e)
                 b == Len(p)
      <4>4. a \in Nat /\ b \in Nat /\ i \in a..b BY <4>2, <4>3
      <4> HIDE DEF a, b
      <4>5. i = b \/ i \in a..(b - 1) BY ONLY <4>4
      <4> QED BY <4>5 DEF a, b
    <3> QED BY <2>3, <2>4, <3>1, <3>2
  <2>6. c \in C <=> c \in DOMAIN s /\ \A i \in Len(e)..(Len(c) - 1) : ~s[SubSeq(c, 1, i)].leaf
    BY <2>2 DEF C, Hanging
  <2> QED BY <2>5, <2>6 DEF c, HasChild
<1>9. ASSUME NEW q \in new PROVE q = t \/ \E p \in new, n \in Elements : q = Append(p, n)
  <2>1. PICK p \in C : q = Moved(e, t, p) BY <1>3
  <2>2. p \in Positions /\ Under(e, p) /\ Len(p) \in Nat /\ Len(e) \in Nat /\ Len(e) <= Len(p)
    BY <1>0, <1>1 DEF Positions, Under
  <2>3. CASE Len(p) = Len(e)
    <3>1. p = e
      <4>1. SubSeq(p, 1, Len(p)) = p BY <2>2 DEF Positions
      <4> QED BY <2>2, <2>3, <4>1 DEF Under
    <3> QED BY <1>0, <2>1, <3>1, MovedSelf
  <2>4. CASE Len(p) # Len(e)
    <3> DEFINE k == Len(p) - 1
               f == SubSeq(p, 1, k)
    <3>1. k \in Len(e)..Len(p) /\ k \in 0..(Len(p) - 1) /\ k + 1 = Len(p) /\ 1 \in 1..(k + 1) /\ k + 1 \in 1..Len(p)
      BY <2>2, <2>4
    <3> HIDE DEF k
    <3>2. f \in C BY <1>7, <3>1
    <3>3. SubSeq(p, 1, k + 1) = Append(f, p[k + 1])
      <4>1. p \in Seq(Elements) BY <2>2 DEF Positions
      <4> QED BY <3>1, <4>1, OneMore
    <3>4. SubSeq(p, 1, Len(p)) = p BY <2>2 DEF Positions
    <3>5. p[k + 1] \in Elements BY <2>2, <3>1 DEF Positions
    <3> HIDE DEF f
    <3>6. f \in Positions /\ Under(e, f) BY <1>1, <3>2
    <3>7. p = Append(f, p[k + 1]) BY <3>1, <3>3, <3>4
    <3>8. Moved(e, t, Append(f, p[k + 1])) = Append(Moved(e, t, f), p[k + 1])
      BY <1>0, <3>5, <3>6, MovedChild
    <3>9. Moved(e, t, f) \in new BY <1>4, <3>2
    <3> QED BY <2>1, <3>5, <3>7, <3>8, <3>9
  <2> QED BY <2>3, <2>4
<1>10. ASSUME NEW q \in new, NEW n \in Elements
       PROVE  /\ Append(q, n) \in new <=> ~s[src[q]].leaf /\ HasChild(s, src[q], n)
              /\ Append(q, n) \in new => src[Append(q, n)] = Append(src[q], n)
  <2>1. PICK p \in C : q = Moved(e, t, p) /\ src[q] = p /\ q \in Positions /\ Under(t, q) BY <1>3
  <2>2. p \in Positions /\ Under(e, p) BY <1>1
  <2>3. Moved(e, t, Append(p, n)) = Append(q, n) BY <1>0, <2>1, <2>2, MovedChild
  <2>4. Moved(t, e, Append(q, n)) = Append(p, n)
    <3>1. Moved(t, e, q) = p BY <1>0, <2>1, <2>2, MovedBack
    <3> QED BY <1>0, <2>1, <3>1, MovedChild
  <2>5. Append(p, n) \in C => Append(q, n) \in new /\ src[Append(q, n)] = Append(p, n) BY <1>4, <2>3
  <2>6. Append(q, n) \in new => Append(p, n) \in C
    <3> SUFFICES ASSUME Append(q, n) \in new PROVE Append(p, n) \in C OBVIOUS
    <3>1. src[Append(q, n)] = Moved(t, e, Append(q, n)) OBVIOUS
    <3> DEFINE c == Append(q, n)
    <3>2. c \in new /\ src[c] = Append(p, n) BY <2>4, <3>1
    <3> HIDE DEF c
    <3>3. src[c] \in C BY <1>3, <3>2
    <3> QED BY <3>2, <3>3
  <2> QED BY <1>8, <2>1, <2>5, <2>6
<1>11. ASSUME NEW q \in new
       PROVE  /\ Len(t) <= Len(q) /\ SubSeq(q, 1, Len(t)) = t
              /\ \A k \in Len(t)..(Len(q) - 1) : SubSeq(q, 1, k) \in new
  <2>1. PICK p \in C : q = Moved(e, t, p) /\ q \in Positions /\ Under(t, q) /\ Len(q) = Len(t) + (Len(p) - Len(e))
    BY <1>3
  <2>2. p \in Positions /\ Under(e, p) /\ Len(p) \in Nat /\ Len(e) \in Nat /\ Len(e) <= Len(p) /\ Len(t) \in Nat
    BY <1>0, <1>1 DEF Positions, Under
  <2>3. ASSUME NEW k \in Len(t)..(Len(q) - 1) PROVE SubSeq(q, 1, k) \in new
    <3> DEFINE j == Len(e) + (k - Len(t))
    <3>1. j \in Len(e)..Len(p) /\ Len(t) + (j - Len(e)) = k BY <2>1, <2>2
    <3> HIDE DEF j
    <3>2. SubSeq(p, 1, j) \in C BY <1>7, <3>1
    <3>3. Moved(e, t, SubSeq(p, 1, j)) = SubSeq(Moved(e, t, p), 1, Len(t) + (j - Len(e)))
      BY <1>0, <2>2, <3>1, MovedPrefix
    <3> DEFINE f == SubSeq(p, 1, j)
    <3>4. f \in C /\ Moved(e, t, f) = SubSeq(q, 1, k) BY <2>1, <3>1, <3>2, <3>3
    <3> HIDE DEF f
    <3> QED BY <1>4, <3>4
  <2> QED BY <2>1, <2>3 DEF Under
<1>12. /\ \A q \in new : q = t \/ \E p \in new, n \in Elements : q = Append(p, n)
       /\ \A p \in new, n \in Elements : Append(p, n) \in new <=> ~s[src[p]].leaf /\ HasChild(s, src[p], n)
       /\ \A p \in new, n \in Elements : Append(p, n) \in new => src[Append(p, n)] = Append(src[p], n)
  BY <1>9, <1>10
<1>13. \A q \in new : /\ Len(t) <= Len(q) /\ SubSeq(q, 1, Len(t)) = t
                      /\ \A k \in Len(t)..(Len(q) - 1) : SubSeq(q, 1, k) \in new
  BY <1>11
<1> QED BY ONLY <1>5, <1>6, <1>12, <1>13 DEF IsClone

-------------------------------------------------------------------------------
(* The pending calls                                                          *)

\* A node of the root, as an argument of a call.
RootRef(p) == [tree |-> "root", pos |-> p]

\* A node of the new list's tree, as an argument of a call.
NodeRef(p) == [tree |-> "node", pos |-> p]

\* The call c is made on the node d of the root and the node e of the new tree.
Pairs(c, d, e) == \/ c.this = RootRef(d) /\ c.other = NodeRef(e)
                  \/ c.this = NodeRef(e) /\ c.other = RootRef(d)

\* The node that an argument stands for.
RefNode(r, s, ref) == IF ref.tree = "root" THEN r[ref.pos] ELSE s[ref.pos]

\* A call on two nodes that are no leaves is made on one that is a map only with
\* one that is a map.
MapsAlike(r, s, c) ==
  ~RefNode(r, s, c.this).leaf /\ ~RefNode(r, s, c.other).leaf /\ RefNode(r, s, c.this).map
    => RefNode(r, s, c.other).map

\* The positions that calls are pending for.
Targets(W) == {c.to : c \in W}

\* The state of the intersection m of the trees r and s, W being the pending calls.
Meeting(r, s, m, W, P, Q, Fr, Fs, A, B, G) ==
  /\ NamedFor(r, Fr, P) /\ NamedFor(s, Fs, Q) /\ Apart(P, Q)
  /\ Merges(r, Fr, s, Fs, m, Targets(W), A, B, G)
  /\ BelowNodes(r, s, m, Targets(W), A, B)
  /\ \A c \in W : Pairs(c, A[c.to], B[c.to]) /\ MapsAlike(r, s, c)
  /\ \A c, d \in W : c.to = d.to => c = d

\* The calls new are those for the children of the intersection of d and e at t.
Branches(r, s, t, d, e, new) ==
  /\ \A k \in new : \E n \in Elements :
       /\ Joint(r, s, d, e, n) /\ k.to = Append(t, n)
       /\ Pairs(k, Onto(r[d], s[e], d, n), Onto(s[e], r[d], e, n)) /\ MapsAlike(r, s, k)
  /\ \A n \in Elements : Joint(r, s, d, e, n) => \E k \in new : k.to = Append(t, n)
  /\ \A k, l \in new : k.to = l.to => k = l

\* Two nodes that are no leaves: the calls for their children are to come.
LEMMA Opens ==
  ASSUME NEW r, NEW s, NEW m, NEW W, NEW P, NEW Q, NEW Fr, NEW Fs, NEW A, NEW B, NEW G,
         Meeting(r, s, m, W, P, Q, Fr, Fs, A, B, G), NEW c \in W, NEW t, t = c.to, NEW d, d = A[t], NEW e, e = B[t],
         ~r[d].leaf, ~s[e].leaf, NEW x, IsNode(x), IsJoin(x, r[d], s[e]), NEW new, Branches(r, s, t, d, e, new)
  PROVE  \E A2, B2, G2 : Meeting(r, s, Add(m, t, x), (W \ {c}) \cup new, P, Q, Fr, Fs, A2, B2, G2)
<1> DEFINE T == Targets(W)
           D == DOMAIN m \cup T
           kids == Kidpos(r, s, t, d, e)
           m2 == Add(m, t, x)
           W2 == (W \ {c}) \cup new
           T2 == (T \ {t}) \cup kids
<1>1. /\ NamedFor(r, Fr, P) /\ NamedFor(s, Fs, Q) /\ Apart(P, Q)
      /\ Merges(r, Fr, s, Fs, m, T, A, B, G) /\ BelowNodes(r, s, m, T, A, B)
      /\ \A k \in W : Pairs(k, A[k.to], B[k.to]) /\ MapsAlike(r, s, k)
      /\ \A k, l \in W : k.to = l.to => k = l
  BY DEF Meeting
<1>2. t \in T /\ \A k \in W : k.to \in T BY DEF Targets
<1>3. IsTree(m) /\ T \subseteq Positions \ DOMAIN m /\ t \in Positions /\ DOMAIN m \subseteq Positions
  BY <1>1, <1>2 DEF Merges, IsTree
<1> HIDE DEF T
<1>4. PICK A2, B2, G2 : Expanded(r, Fr, s, Fs, m, T, A, B, t, d, e, x, A2, B2, G2)
  <2>1. Opening(r, Fr, P, s, Fs, Q, m, T, A, B, G, t, d, e, x) BY <1>1, <1>2 DEF Opening
  <2> QED BY ONLY <2>1, Expand
<1>15. /\ Merges(r, Fr, s, Fs, m2, T2, A2, B2, G2)
       /\ \A p \in D : A2[p] = A[p] /\ B2[p] = B[p]
       /\ \A n \in Elements : Joint(r, s, d, e, n) =>
            /\ A2[Append(t, n)] = Onto(r[d], s[e], d, n)
            /\ B2[Append(t, n)] = Onto(s[e], r[d], e, n)
       /\ \A n \in Elements : Append(t, n) \notin D
  BY <1>4 DEF Expanded
<1>5. DOMAIN m2 = DOMAIN m \cup {t} BY <1>3, AddTree
<1>6. \A k \in new : \E n \in Elements : Joint(r, s, d, e, n) /\ k.to = Append(t, n) BY DEF Branches
<1>7. \A q \in kids : \E n \in Elements : Joint(r, s, d, e, n) /\ q = Append(t, n) BY DEF Kidpos
<1>8. \A n \in Elements : Joint(r, s, d, e, n) => Append(t, n) \in kids /\ \E k \in new : k.to = Append(t, n)
  BY DEF Kidpos, Branches
<1>9. t \in D /\ DOMAIN m \subseteq D /\ T \subseteq D BY <1>2
<1> HIDE DEF m2, kids, D
<1>10. Targets(W2) = T2
  <2>1. ASSUME NEW k \in W2 PROVE k.to \in T2
    <3>1. CASE k \in new BY <1>6, <1>8, <3>1
    <3>2. CASE k \in W \ {c}
      <4>1. k.to # t BY <1>1, <3>2
      <4> QED BY <1>2, <3>2, <4>1
    <3> QED BY <3>1, <3>2
  <2>2. ASSUME NEW q \in T2 PROVE \E k \in W2 : k.to = q
    <3>1. CASE q \in kids BY <1>7, <1>8, <3>1
    <3>2. CASE q \in T \ {t}
      <4>1. \E k \in W : k.to = q BY <3>2 DEF T, Targets
      <4> QED BY <3>2, <4>1
    <3> QED BY <3>1, <3>2
  <2> HIDE DEF W2, T2
  <2> QED BY <2>1, <2>2 DEF Targets
<1>11. BelowNodes(r, s, m2, T2, A2, B2)
  <2> SUFFICES ASSUME NEW p \in DOMAIN m2, NEW n \in Elements, Append(p, n) \in T2
               PROVE  ~r[A2[p]].leaf /\ ~s[B2[p]].leaf
    BY DEF BelowNodes
  <2>1. CASE p = t
    <3>1. A2[t] = d /\ B2[t] = e BY <1>15, <1>9
    <3> QED BY <2>1, <3>1
  <2>2. CASE p # t
    <3>1. p \in DOMAIN m /\ p \in Positions BY <1>3, <1>5, <2>2
    <3>2. Append(p, n) \notin kids
      <4> SUFFICES ASSUME Append(p, n) \in kids PROVE FALSE OBVIOUS
      <4>1. PICK k \in Elements : Append(p, n) = Append(t, k) BY <1>7
      <4> QED BY <1>3, <2>2, <3>1, <4>1, SameChild
    <3>3. Append(p, n) \in T BY <3>2
    <3>4. ~r[A[p]].leaf /\ ~s[B[p]].leaf BY <1>1, <3>1, <3>3 DEF BelowNodes
    <3>5. A2[p] = A[p] /\ B2[p] = B[p] BY <1>15, <1>9, <3>1
    <3> QED BY <3>4, <3>5
  <2> QED BY <2>1, <2>2
<1>12. ASSUME NEW k \in W2 PROVE Pairs(k, A2[k.to], B2[k.to]) /\ MapsAlike(r, s, k)
  <2>1. CASE k \in new
    <3>1. PICK n \in Elements :
            /\ Joint(r, s, d, e, n) /\ k.to = Append(t, n)
            /\ Pairs(k, Onto(r[d], s[e], d, n), Onto(s[e], r[d], e, n)) /\ MapsAlike(r, s, k)
      BY <2>1 DEF Branches
    <3>2. A2[k.to] = Onto(r[d], s[e], d, n) /\ B2[k.to] = Onto(s[e], r[d], e, n) BY <1>15, <3>1
    <3> QED BY <3>1, <3>2
  <2>2. CASE k \in W
    <3>1. A2[k.to] = A[k.to] /\ B2[k.to] = B[k.to] BY <1>2, <1>15, <1>9, <2>2
    <3> QED BY <1>1, <2>2, <3>1
  <2> QED BY <2>1, <2>2
<1>13. ASSUME NEW k \in W2, NEW l \in W2, k.to = l.to PROVE k = l
  <2>1. ASSUME NEW j \in new PROVE j.to \notin T
    <3>1. PICK n \in Elements : j.to = Append(t, n) BY <1>6
    <3> QED BY <1>15, <1>9, <3>1
  <2>2. ASSUME NEW j \in W2 PROVE j \in new \/ (j \in W /\ j.to \in T) BY <1>2
  <2>3. k \in new <=> l \in new BY <1>13, <2>1, <2>2
  <2>4. CASE k \in new
    <3>1. \A i, j \in new : i.to = j.to => i = j BY DEF Branches
    <3> QED BY <1>13, <2>3, <2>4, <3>1
  <2>5. CASE k \notin new
    <3>1. k \in W /\ l \in W BY <2>2, <2>3, <2>5
    <3> QED BY <1>1, <1>13, <3>1
  <2> QED BY <2>4, <2>5
<1> HIDE DEF W2, T2
<1>14. Meeting(r, s, m2, W2, P, Q, Fr, Fs, A2, B2, G2)
  BY <1>1, <1>15, <1>10, <1>11, <1>12, <1>13 DEF Meeting
<1> QED BY <1>14 DEF m2, W2

\* m2 is m with the clone of what s has at e put at t.
ClonePut(s, e, m, t, m2) ==
  \E new, src : /\ IsClone(s, e, t, new, src) /\ IsTree(m2) /\ DOMAIN m2 = DOMAIN m \cup new
                /\ \A q \in new : m2[q] = s[src[q]]
                /\ \A q \in DOMAIN m : q \notin new => m2[q] = m[q]

\* The intersection m of r and s, t being one of the positions T to come.
Ongoing(r, Fr, P, s, Fs, Q, m, T, A, B, G, t) ==
  /\ NamedFor(r, Fr, P) /\ NamedFor(s, Fs, Q) /\ Merges(r, Fr, s, Fs, m, T, A, B, G) /\ BelowNodes(r, s, m, T, A, B)
  /\ t \in T

\* Where the root has a leaf, the subtree of the new tree is cloned.
LEMMA CopyNew ==
  ASSUME NEW r, NEW Fr, NEW P, NEW s, NEW Fs, NEW Q, NEW m, NEW T, NEW A, NEW B, NEW G, NEW t, NEW m2,
         Ongoing(r, Fr, P, s, Fs, Q, m, T, A, B, G, t), r[A[t]].leaf, ClonePut(s, B[t], m, t, m2)
  PROVE  \E A2, B2, G2 : Copied(r, Fr, s, Fs, m, T, A, B, t, m2, A2, B2, G2)
<1> DEFINE d == A[t]
           e == B[t]
<1>1. PICK new, src : /\ IsClone(s, e, t, new, src) /\ IsTree(m2) /\ DOMAIN m2 = DOMAIN m \cup new
                      /\ \A q \in new : m2[q] = s[src[q]]
                      /\ \A q \in DOMAIN m : q \notin new => m2[q] = m[q]
  BY DEF ClonePut
<1>2. Copying(r, Fr, P, s, Fs, Q, m, T, A, B, G, t, d, e, new, src, m2) BY <1>1 DEF Copying, Ongoing
<1> QED BY ONLY <1>2, CloneMerge

\* Where the new tree has a leaf, the subtree of the root is cloned.
LEMMA CopyRoot ==
  ASSUME NEW r, NEW Fr, NEW P, NEW s, NEW Fs, NEW Q, NEW m, NEW T, NEW A, NEW B, NEW G, NEW t, NEW m2,
         Ongoing(r, Fr, P, s, Fs, Q, m, T, A, B, G, t), s[B[t]].leaf, ClonePut(r, A[t], m, t, m2)
  PROVE  \E A2, B2, G2 : Copied(r, Fr, s, Fs, m, T, A, B, t, m2, A2, B2, G2)
<1>1. Merges(s, Fs, r, Fr, m, T, B, A, G)
  <2>1. Merges(r, Fr, s, Fs, m, T, A, B, G) BY DEF Ongoing
  <2> QED BY ONLY <2>1, MergesSwap
<1>2. Ongoing(s, Fs, Q, r, Fr, P, m, T, B, A, G, t) BY <1>1 DEF Ongoing, BelowNodes
<1>3. PICK B2, A2, G2 : Copied(s, Fs, r, Fr, m, T, B, A, t, m2, B2, A2, G2)
  <2>1. s[B[t]].leaf /\ ClonePut(r, A[t], m, t, m2) OBVIOUS
  <2> QED BY ONLY <1>2, <2>1, CopyNew
<1>4. Merges(s, Fs, r, Fr, m2, T \ {t}, B2, A2, G2) BY <1>3 DEF Copied
<1>5. Merges(r, Fr, s, Fs, m2, T \ {t}, A2, B2, G2)
  <2> DEFINE T2 == T \ {t}
  <2>1. Merges(s, Fs, r, Fr, m2, T2, B2, A2, G2) BY <1>4
  <2> HIDE DEF T2
  <2>2. Merges(r, Fr, s, Fs, m2, T2, A2, B2, G2) BY ONLY <2>1, MergesSwap
  <2> QED BY <2>2 DEF T2
<1>6. Copied(r, Fr, s, Fs, m, T, A, B, t, m2, A2, B2, G2) BY <1>3, <1>5 DEF Copied, BelowNodes
<1> QED BY <1>6

\* One of the two nodes is a leaf: the other is cloned.
LEMMA Copies ==
  ASSUME NEW r, NEW s, NEW m, NEW W, NEW P, NEW Q, NEW Fr, NEW Fs, NEW A, NEW B, NEW G,
         Meeting(r, s, m, W, P, Q, Fr, Fs, A, B, G), NEW c \in W, NEW t, t = c.to, NEW m2,
         \/ r[A[t]].leaf /\ ClonePut(s, B[t], m, t, m2)
         \/ s[B[t]].leaf /\ ClonePut(r, A[t], m, t, m2)
  PROVE  \E A2, B2, G2 : Meeting(r, s, m2, W \ {c}, P, Q, Fr, Fs, A2, B2, G2)
<1> DEFINE T == Targets(W)
           W2 == W \ {c}
<1>1. /\ NamedFor(r, Fr, P) /\ NamedFor(s, Fs, Q) /\ Apart(P, Q)
      /\ Merges(r, Fr, s, Fs, m, T, A, B, G) /\ BelowNodes(r, s, m, T, A, B)
      /\ \A k \in W : Pairs(k, A[k.to], B[k.to]) /\ MapsAlike(r, s, k)
      /\ \A k, l \in W : k.to = l.to => k = l
  BY DEF Meeting
<1>2. t \in T /\ \A k \in W : k.to \in T BY DEF Targets
<1>3. Targets(W2) = T \ {t} BY <1>1 DEF Targets
<1> HIDE DEF T
<1>4. Ongoing(r, Fr, P, s, Fs, Q, m, T, A, B, G, t) BY <1>1, <1>2 DEF Ongoing
<1>5. PICK A2, B2, G2 : Copied(r, Fr, s, Fs, m, T, A, B, t, m2, A2, B2, G2)
  <2>1. CASE r[A[t]].leaf /\ ClonePut(s, B[t], m, t, m2) BY ONLY <1>4, <2>1, CopyNew
  <2>2. CASE s[B[t]].leaf /\ ClonePut(r, A[t], m, t, m2) BY ONLY <1>4, <2>2, CopyRoot
  <2> QED BY <2>1, <2>2
<1>6. /\ Merges(r, Fr, s, Fs, m2, T \ {t}, A2, B2, G2) /\ BelowNodes(r, s, m2, T \ {t}, A2, B2)
      /\ \A p \in T : A2[p] = A[p] /\ B2[p] = B[p]
  BY <1>5 DEF Copied
<1>7. ASSUME NEW k \in W2 PROVE Pairs(k, A2[k.to], B2[k.to]) /\ MapsAlike(r, s, k)
  <2>1. A2[k.to] = A[k.to] /\ B2[k.to] = B[k.to] BY <1>2, <1>6
  <2> QED BY <1>1, <2>1
<1>8. \A k, l \in W2 : k.to = l.to => k = l BY <1>1
<1> HIDE DEF W2
<1>9. Meeting(r, s, m2, W2, P, Q, Fr, Fs, A2, B2, G2) BY <1>1, <1>3, <1>6, <1>7, <1>8 DEF Meeting
<1> QED BY <1>9 DEF W2

\* The model's clone of a node is one.
LEMMA PutClone ==
  ASSUME NEW ref, NEW s, s = TreeOf(ref), Rooted(s), NEW e, e = ref.pos, e \in DOMAIN s, NEW t \in Positions,
         IsTree(merged)
  PROVE  ClonePut(s, e, merged, t, WithClone(t, ref))
<1> DEFINE new == {Moved(e, t, p) : p \in Hanging(s, e)}
           src == [q \in new |-> Moved(t, e, q)]
           m2 == WithClone(t, ref)
<1>1. IsClone(s, e, t, new, src)
  <2>1. new = {Moved(e, t, p) : p \in Hanging(s, e)} /\ src = [q \in new |-> Moved(t, e, q)] OBVIOUS
  <2> HIDE DEF new, src
  <2> QED BY <2>1, CloneIs
<1>2. Cloned(ref) = Hanging(s, e) BY DEF Cloned, Hanging, Under
<1>3. m2 = [q \in DOMAIN merged \cup new |-> IF q \in new THEN s[Moved(t, e, q)] ELSE merged[q]]
  BY <1>2 DEF WithClone, Moved
<1>4. \A q \in new : src[q] = Moved(t, e, q) OBVIOUS
<1>5. IsTree(m2)
  <2>1. e \in Positions /\ IsTree(s) BY DEF Rooted, IsTree
  <2> QED BY <2>1, CloneTree
<1> HIDE DEF new, src, m2
<1>6. /\ DOMAIN m2 = DOMAIN merged \cup new
      /\ \A q \in new : m2[q] = s[src[q]]
      /\ \A q \in DOMAIN merged : q \notin new => m2[q] = merged[q]
  BY <1>3, <1>4
<1> QED BY <1>1, <1>5, <1>6 DEF ClonePut, m2

\* The intersection of two complete trees begins with one call, on their roots.
LEMMA MeetingBegins ==
  ASSUME NEW r, NEW s, NEW P, NEW Q, NEW Fr, NEW Fs, NamedFor(r, Fr, P), NamedFor(s, Fs, Q), Apart(P, Q),
         NEW c, c = Call(<<>>, RootRef(<<>>), NodeRef(<<>>)), NEW W, W = {c}
  PROVE  \E A, B, G : Meeting(r, s, <<>>, W, P, Q, Fr, Fs, A, B, G)
<1> DEFINE T == {<<>>}
           A == [p \in T |-> <<>>]
           m == <<>>
<1>1. /\ IsTree(r) /\ <<>> \in DOMAIN r /\ ~r[<<>>].map /\ r[<<>>].type = RootType /\ Fr[<<>>] = <<>>
      /\ IsTree(s) /\ <<>> \in DOMAIN s /\ ~s[<<>>].map /\ s[<<>>].type = RootType /\ Fs[<<>>] = <<>>
      /\ r[<<>>].map \in BOOLEAN /\ s[<<>>].map \in BOOLEAN
  <2>1. Named(r, Fr) /\ Named(s, Fs) BY DEF NamedFor
  <2>2. r[<<>>].map \in BOOLEAN /\ s[<<>>].map \in BOOLEAN BY <2>1, NamedTypes DEF Named, Rooted
  <2> QED BY <2>1, <2>2 DEF Named, Rooted
<1>2. c.to = <<>> /\ c.this = RootRef(<<>>) /\ c.other = NodeRef(<<>>) BY DEF Call
<1>3. Targets(W) = T BY <1>2 DEF Targets
<1>4. DOMAIN m = {} /\ IsTree(m) /\ DOMAIN m \cup T = T BY DEF IsTree
<1>5. A[<<>>] = <<>> /\ A \in [T -> {<<>>}] OBVIOUS
<1>6. <<>> \in Positions /\ <<>> \in Seq(Elements) /\ Len(<<>>) = 0 BY DEF Positions
<1>7. AllAbove(T, DOMAIN m) BY <1>6 DEF AllAbove
<1> HIDE DEF A
<1>8. A \in [T -> DOMAIN r] /\ A \in [T -> DOMAIN s] /\ A \in [T -> Seq(Elements)] BY <1>1, <1>5, <1>6
<1>9. Level(r, Fr, s, Fs, <<>>, <<>>, <<>>) BY <1>1 DEF Level
<1>10. \A p \in T : Level(r, Fr, s, Fs, A[p], A[p], A[p]) BY <1>5, <1>9
<1> HIDE DEF m
<1>11. Merges(r, Fr, s, Fs, m, T, A, A, A)
  <2>1. <<>> \in T OBVIOUS
  <2>2. T \subseteq Positions \ DOMAIN m BY <1>4, <1>6
  <2> HIDE DEF T
  <2> QED BY <1>4, <1>5, <1>7, <1>8, <1>10, <2>1, <2>2 DEF Merges
<1>12. BelowNodes(r, s, m, T, A, A) BY <1>4 DEF BelowNodes
<1>13. Pairs(c, <<>>, <<>>) BY <1>2 DEF Pairs
<1>14. MapsAlike(r, s, c)
  <2>1. RefNode(r, s, c.this) = r[<<>>] BY <1>2 DEF RefNode, RootRef
  <2> QED BY <1>1, <2>1 DEF MapsAlike
<1>15. \A k \in W : Pairs(k, A[k.to], A[k.to]) /\ MapsAlike(r, s, k) BY <1>2, <1>5, <1>13, <1>14
<1>16. \A k, l \in W : k.to = l.to => k = l OBVIOUS
<1>17. Meeting(r, s, m, W, P, Q, Fr, Fs, A, A, A)
  BY <1>3, <1>11, <1>12, <1>15, <1>16 DEF Meeting
<1> QED BY <1>17 DEF m

\* The children of two nodes that are no leaves, a call for each.
LEMMA BranchesAre ==
  ASSUME NEW r, NEW s, NEW t \in Positions, NEW d, NEW e, NEW N, N \subseteq Elements,
         \A n \in Elements : n \in N <=> Joint(r, s, d, e, n),
         NEW f, \A n \in N : /\ f[n].to = Append(t, n) /\ MapsAlike(r, s, f[n])
                             /\ Pairs(f[n], Onto(r[d], s[e], d, n), Onto(s[e], r[d], e, n)),
         NEW new, new = {f[n] : n \in N}
  PROVE  Branches(r, s, t, d, e, new)
<1>1. ASSUME NEW k \in new, NEW l \in new, k.to = l.to PROVE k = l
  <2>1. PICK n1 \in N : k = f[n1] OBVIOUS
  <2>2. PICK n2 \in N : l = f[n2] OBVIOUS
  <2>3. Append(t, n1) = Append(t, n2) BY <1>1, <2>1, <2>2
  <2>4. n1 = n2 BY <2>3, SameChild
  <2> QED BY <2>1, <2>2, <2>4
<1>2. ASSUME NEW k \in new
      PROVE  \E n \in Elements :
               /\ Joint(r, s, d, e, n) /\ k.to = Append(t, n)
               /\ Pairs(k, Onto(r[d], s[e], d, n), Onto(s[e], r[d], e, n)) /\ MapsAlike(r, s, k)
  OBVIOUS
<1>3. ASSUME NEW n \in Elements, Joint(r, s, d, e, n) PROVE \E k \in new : k.to = Append(t, n)
  BY <1>3
<1> QED BY <1>1, <1>2, <1>3 DEF Branches

\* The call for a child is made on nodes of the same sort.
LEMMA KidsAlike ==
  ASSUME NEW r, NEW Fr, NEW s, NEW Fs, NEW d, NEW e, NEW x, NEW f, NEW n, IsKid(r, Fr, s, Fs, d, e, x, f, n),
         Joint(r, s, d, e, n), ~r[d].leaf, ~s[e].leaf,
         NEW d2, d2 = Onto(r[d], s[e], d, n), NEW e2, e2 = Onto(s[e], r[d], e, n), NEW k, Pairs(k, d2, e2),
         Stays(s[e], r[d]) => k.this = RootRef(d2), Stays(r[d], s[e]) => k.this = NodeRef(e2)
  PROVE  MapsAlike(r, s, k)
<1>1. /\ ~Stays(r[d], s[e]) /\ ~Stays(s[e], r[d]) /\ ~r[d2].leaf /\ ~s[e2].leaf => r[d2].map = s[e2].map
      /\ Stays(s[e], r[d]) => ~r[d2].map
      /\ Stays(r[d], s[e]) => ~s[e2].map
  BY DEF IsKid
<1>2. ~(Stays(r[d], s[e]) /\ Stays(s[e], r[d])) BY DEF Joint
<1>3. \/ RefNode(r, s, k.this) = r[d2] /\ RefNode(r, s, k.other) = s[e2] /\ ~Stays(r[d], s[e])
      \/ RefNode(r, s, k.this) = s[e2] /\ RefNode(r, s, k.other) = r[d2] /\ ~Stays(s[e], r[d])
  BY DEF Pairs, RefNode, RootRef, NodeRef
<1> QED BY <1>1, <1>2, <1>3 DEF MapsAlike

\* What the two arguments of a pending call are.
LEMMA PairParts ==
  ASSUME NEW c, NEW d, NEW e, Pairs(c, d, e)
  PROVE  \/ /\ c.this = RootRef(d) /\ c.other = NodeRef(e)
            /\ TreeOf(c.this) = root /\ TreeOf(c.other) = node /\ c.this.pos = d /\ c.other.pos = e
         \/ /\ c.this = NodeRef(e) /\ c.other = RootRef(d)
            /\ TreeOf(c.this) = node /\ TreeOf(c.other) = root /\ c.this.pos = e /\ c.other.pos = d
  BY DEF Pairs, RootRef, NodeRef, TreeOf

\* Intersect() of two nodes one of which is a leaf keeps what the intersection is.
LEMMA LeafMeeting ==
  ASSUME IInv, NEW c \in work, IntersectLeaf(c),
         NEW P, NEW Q, NEW Fr, NEW Fs, NEW A, NEW B, NEW G, Meeting(root, node, merged, work, P, Q, Fr, Fs, A, B, G)
  PROVE  \E A2, B2, G2 : Meeting(root, node, merged', work', P, Q, Fr, Fs, A2, B2, G2)
<1> DEFINE t == c.to
           d == A[t]
           e == B[t]
<1>1. /\ Pairs(c, d, e) /\ Rooted(root) /\ Rooted(node) BY DEF Meeting, NamedFor, Named
<1>2. d \in DOMAIN root /\ e \in DOMAIN node /\ t \in Positions /\ IsTree(merged)
  <2>1. Merges(root, Fr, node, Fs, merged, Targets(work), A, B, G) /\ t \in Targets(work) BY DEF Meeting, Targets
  <2> QED BY <2>1 DEF Merges
<1>3. /\ NodeAt(c.this).leaf \/ NodeAt(c.other).leaf
      /\ merged' = WithClone(t, IF NodeAt(c.this).leaf THEN c.other ELSE c.this)
      /\ work' = work \ {c}
  BY DEF IntersectLeaf, Keep
<1> HIDE DEF t, d, e
<1>4. \/ NodeAt(c.this) = root[d] /\ NodeAt(c.other) = node[e]
         /\ TreeOf(c.this) = root /\ TreeOf(c.other) = node /\ c.this.pos = d /\ c.other.pos = e
      \/ NodeAt(c.this) = node[e] /\ NodeAt(c.other) = root[d]
         /\ TreeOf(c.this) = node /\ TreeOf(c.other) = root /\ c.this.pos = e /\ c.other.pos = d
  BY <1>1, PairParts DEF NodeAt
<1>5. \A ref : TreeOf(ref) = root /\ ref.pos = d => ClonePut(root, d, merged, t, WithClone(t, ref))
  BY <1>1, <1>2, PutClone
<1>6. \A ref : TreeOf(ref) = node /\ ref.pos = e => ClonePut(node, e, merged, t, WithClone(t, ref))
  BY <1>1, <1>2, PutClone
<1>7. \/ root[d].leaf /\ ClonePut(node, e, merged, t, merged')
      \/ node[e].leaf /\ ClonePut(root, d, merged, t, merged')
  BY <1>3, <1>4, <1>5, <1>6
<1>8. \/ root[A[t]].leaf /\ ClonePut(node, B[t], merged, t, merged')
      \/ node[B[t]].leaf /\ ClonePut(root, A[t], merged, t, merged')
  BY <1>7 DEF d, e
<1>9. t = c.to BY DEF t
<1>10. \E A2, B2, G2 : Meeting(root, node, merged', work \ {c}, P, Q, Fr, Fs, A2, B2, G2)
  BY <1>8, <1>9, Copies
<1> QED BY <1>3, <1>10

\* What is known of a pending call on two nodes that are no leaves.
CallNodes(c, d, e, t, Fr, Fs, f) ==
  /\ d \in DOMAIN root /\ e \in DOMAIN node /\ t \in Positions /\ Pairs(c, d, e) /\ MapsAlike(root, node, c)
  /\ Level(root, Fr, node, Fs, d, e, f) /\ ~root[d].leaf /\ ~node[e].leaf
  /\ \/ /\ c.this = RootRef(d) /\ c.other = NodeRef(e) /\ NodeAt(c.this) = root[d] /\ NodeAt(c.other) = node[e]
        /\ NamesBelow(c.this) = Children(root, d) /\ NamesBelow(c.other) = Children(node, e)
     \/ /\ c.this = NodeRef(e) /\ c.other = RootRef(d) /\ NodeAt(c.this) = node[e] /\ NodeAt(c.other) = root[d]
        /\ NamesBelow(c.this) = Children(node, e) /\ NamesBelow(c.other) = Children(root, d)
  /\ RefNode(root, node, c.this) = NodeAt(c.this) /\ RefNode(root, node, c.other) = NodeAt(c.other)

\* A pending call with no leaf has two nodes at the same level.
LEMMA PendingNodes ==
  ASSUME NEW c \in work, NEW t, t = c.to,
         NEW P, NEW Q, NEW Fr, NEW Fs, NEW A, NEW B, NEW G, Meeting(root, node, merged, work, P, Q, Fr, Fs, A, B, G),
         NEW d, d = A[t], NEW e, e = B[t], ~NodeAt(c.this).leaf, ~NodeAt(c.other).leaf
  PROVE  CallNodes(c, d, e, t, Fr, Fs, G[t])
<1>1. Pairs(c, d, e) /\ MapsAlike(root, node, c) BY DEF Meeting
<1>2. d \in DOMAIN root /\ e \in DOMAIN node /\ t \in Positions /\ Level(root, Fr, node, Fs, d, e, G[t])
  <2>1. Merges(root, Fr, node, Fs, merged, Targets(work), A, B, G) /\ t \in Targets(work) BY DEF Meeting, Targets
  <2> QED BY <2>1 DEF Merges
<1>3. \/ /\ c.this = RootRef(d) /\ c.other = NodeRef(e)
         /\ TreeOf(c.this) = root /\ TreeOf(c.other) = node /\ c.this.pos = d /\ c.other.pos = e
      \/ /\ c.this = NodeRef(e) /\ c.other = RootRef(d)
         /\ TreeOf(c.this) = node /\ TreeOf(c.other) = root /\ c.this.pos = e /\ c.other.pos = d
  BY <1>1, PairParts
<1>4. /\ NodeAt(c.this) = TreeOf(c.this)[c.this.pos] /\ NodeAt(c.other) = TreeOf(c.other)[c.other.pos]
      /\ NamesBelow(c.this) = Children(TreeOf(c.this), c.this.pos)
      /\ NamesBelow(c.other) = Children(TreeOf(c.other), c.other.pos)
  BY DEF NodeAt, NamesBelow
<1>5. RefNode(root, node, c.this) = NodeAt(c.this) /\ RefNode(root, node, c.other) = NodeAt(c.other)
  BY <1>3 DEF RefNode, NodeAt, RootRef, NodeRef
<1>6. \/ /\ c.this = RootRef(d) /\ c.other = NodeRef(e) /\ NodeAt(c.this) = root[d] /\ NodeAt(c.other) = node[e]
         /\ NamesBelow(c.this) = Children(root, d) /\ NamesBelow(c.other) = Children(node, e)
      \/ /\ c.this = NodeRef(e) /\ c.other = RootRef(d) /\ NodeAt(c.this) = node[e] /\ NodeAt(c.other) = root[d]
         /\ NamesBelow(c.this) = Children(node, e) /\ NamesBelow(c.other) = Children(root, d)
  BY <1>3, <1>4
<1>7. ~root[d].leaf /\ ~node[e].leaf BY <1>6
<1> QED BY <1>1, <1>2, <1>5, <1>6, <1>7 DEF CallNodes

\* The children of a pending call are where they are said to be.
LEMMA ChildRef ==
  ASSUME NEW p, NEW n
  PROVE  Child(RootRef(p), n) = RootRef(Append(p, n)) /\ Child(NodeRef(p), n) = NodeRef(Append(p, n))
  BY DEF Child, RootRef, NodeRef

\* Intersect() of two nodes that are no leaves, and of the same sort.
LEMMA SameMeeting ==
  ASSUME IInv, NEW c \in work, IntersectSame(c),
         NEW P, NEW Q, NEW Fr, NEW Fs, NEW A, NEW B, NEW G, Meeting(root, node, merged, work, P, Q, Fr, Fs, A, B, G)
  PROVE  \E A2, B2, G2 : Meeting(root, node, merged', work', P, Q, Fr, Fs, A2, B2, G2)
<1> DEFINE t == c.to
           d == A[t]
           e == B[t]
           this == NodeAt(c.this)
           other == NodeAt(c.other)
           both == NamesBelow(c.this) \cap NamesBelow(c.other)
           x == Node(this.type, FALSE, this.map /\ other.map, this.all)
           f == [n \in both |-> Call(Append(t, n), Child(c.this, n), Child(c.other, n))]
           new == {f[n] : n \in both}
<1>1. /\ ~this.leaf /\ ~other.leaf /\ ~Mixed(this, other)
      /\ merged' = Add(merged, t, x) /\ work' = (work \ {c}) \cup new
  BY DEF IntersectSame, Keep
<1>2. NamedFor(root, Fr, P) /\ NamedFor(node, Fs, Q) /\ Apart(P, Q) BY DEF Meeting
<1>3. CallNodes(c, d, e, t, Fr, Fs, G[t])
  <2>1. t = c.to /\ d = A[t] /\ e = B[t] OBVIOUS
  <2> HIDE DEF t, d, e
  <2> QED BY <1>1, <2>1, PendingNodes
<1>4. \A n \in both : f[n] = Call(Append(t, n), Child(c.this, n), Child(c.other, n)) OBVIOUS
<1>5. IsNode(this) /\ IsNode(other) /\ IsNode(x)
  <2>1. IsNode(root[d]) /\ IsNode(node[e])
    <3>1. Named(root, Fr) /\ Named(node, Fs) BY <1>2 DEF NamedFor
    <3> QED BY <1>3, <3>1, NamedTypes DEF CallNodes
  <2>2. IsNode(this) /\ IsNode(other) BY <1>3, <2>1 DEF CallNodes
  <2> HIDE DEF this, other
  <2> QED BY <2>2 DEF IsNode, Node
<1> HIDE DEF t, d, e, f, new
<1>6. IsJoin(x, root[d], node[e])
  <2> DEFINE a == root[d]
             b == node[e]
  <2>1. ~a.leaf /\ ~b.leaf /\ a.type = b.type BY <1>3 DEF CallNodes, Level
  <2>2. (this = a /\ other = b) \/ (this = b /\ other = a) BY <1>3 DEF CallNodes
  <2>3. this.all => this.map /\ (other.all => other.map)
    <3>1. (a.all => a.map) /\ (b.all => b.map) BY <1>2, <1>3, AllNode DEF CallNodes
    <3> HIDE DEF a, b, this, other
    <3> QED BY <2>2, <3>1
  <2>4. this.map => other.map BY <1>1, <1>3 DEF CallNodes, MapsAlike
  <2>5. this.all = (this.all /\ other.all)
    <3>1. this.all \in BOOLEAN /\ other.all \in BOOLEAN BY <1>5 DEF IsNode
    <3> QED BY <1>1, <2>3, <2>4, <3>1 DEF Mixed
  <2>6. x = Node(this.type, FALSE, this.map /\ other.map, this.all /\ other.all)
    <3> DEFINE z == this.all /\ other.all
    <3>1. this.all = z BY <2>5
    <3> HIDE DEF z
    <3>2. x = Node(this.type, FALSE, this.map /\ other.map, z) BY <3>1
    <3> QED BY <3>2 DEF z
  <2>7. (this.map /\ other.map) = (a.map /\ b.map) /\ (this.all /\ other.all) = (a.all /\ b.all) /\ this.type = a.type
    BY <2>1, <2>2
  <2>8. x = Node(a.type, FALSE, a.map /\ b.map, a.all /\ b.all)
    <3> DEFINE y == this.map /\ other.map
               z == this.all /\ other.all
               y2 == a.map /\ b.map
               z2 == a.all /\ b.all
    <3>1. x = Node(this.type, FALSE, y, z) /\ y = y2 /\ z = z2 /\ this.type = a.type BY <2>6, <2>7
    <3> HIDE DEF y, z, y2, z2, x, a, this
    <3>2. x = Node(a.type, FALSE, y2, z2) BY <3>1
    <3> QED BY <3>2 DEF y2, z2
  <2> HIDE DEF a, b, x
  <2> QED BY <2>1, <2>8 DEF IsJoin, a, b
<1> HIDE DEF x
<1>7. ~Stays(root[d], node[e]) /\ ~Stays(node[e], root[d])
  BY <1>1, <1>3 DEF CallNodes, Stays, Mixed
<1>8. both = Children(root, d) \cap Children(node, e) BY <1>3 DEF CallNodes
<1>9. both \subseteq Elements /\ \A n \in Elements : n \in both <=> Joint(root, node, d, e, n)
  BY <1>7, <1>8 DEF Joint, Children
<1>10. ASSUME NEW n \in both
       PROVE  /\ f[n].to = Append(t, n) /\ MapsAlike(root, node, f[n])
              /\ Pairs(f[n], Onto(root[d], node[e], d, n), Onto(node[e], root[d], e, n))
  <2> DEFINE d2 == Onto(root[d], node[e], d, n)
             e2 == Onto(node[e], root[d], e, n)
  <2>1. d2 = Append(d, n) /\ e2 = Append(e, n) BY <1>7 DEF Onto
  <2>2. f[n].to = Append(t, n) /\ f[n].this = Child(c.this, n) /\ f[n].other = Child(c.other, n)
    <3>1. f[n] = Call(Append(t, n), Child(c.this, n), Child(c.other, n)) BY <1>4
    <3> QED BY ONLY <3>1 DEF Call
  <2>3. (c.this = RootRef(d) /\ c.other = NodeRef(e)) \/ (c.this = NodeRef(e) /\ c.other = RootRef(d))
    BY <1>3 DEF CallNodes
  <2>4. Pairs(f[n], d2, e2) BY <2>1, <2>2, <2>3, ChildRef DEF Pairs
  <2>5. n \in Elements /\ Joint(root, node, d, e, n) BY <1>9
  <2>6. IsKid(root, Fr, node, Fs, d, e, x, G[t], n)
    <3>1. d \in DOMAIN root /\ e \in DOMAIN node /\ Level(root, Fr, node, Fs, d, e, G[t]) BY <1>3 DEF CallNodes
    <3> QED BY <1>2, <1>6, <2>5, <3>1, Kids
  <2>7. ~root[d].leaf /\ ~node[e].leaf BY <1>3 DEF CallNodes
  <2>8. d2 = Onto(root[d], node[e], d, n) /\ e2 = Onto(node[e], root[d], e, n) OBVIOUS
  <2> HIDE DEF d2, e2
  <2>9. MapsAlike(root, node, f[n]) BY <1>7, <2>4, <2>5, <2>6, <2>7, <2>8, KidsAlike
  <2> QED BY <2>2, <2>4, <2>8, <2>9
<1>11. new = {f[n] : n \in both} BY DEF new
<1> HIDE DEF both
<1>12. Branches(root, node, t, d, e, new)
  <2>1. t \in Positions BY <1>3 DEF CallNodes
  <2> QED BY <1>9, <1>10, <1>11, <2>1, BranchesAre
<1>13. t = c.to /\ d = A[t] /\ e = B[t] /\ ~root[d].leaf /\ ~node[e].leaf
  BY <1>3 DEF t, d, e, CallNodes
<1>14. \E A2, B2, G2 : Meeting(root, node, Add(merged, t, x), (work \ {c}) \cup new, P, Q, Fr, Fs, A2, B2, G2)
  BY <1>5, <1>6, <1>12, <1>13, Opens
<1> QED BY <1>1, <1>14

\* Intersect() of a map under all keys and one that lists keys.
LEMMA KeysMeeting ==
  ASSUME IInv, NEW c \in work, IntersectKeys(c),
         NEW P, NEW Q, NEW Fr, NEW Fs, NEW A, NEW B, NEW G, Meeting(root, node, merged, work, P, Q, Fr, Fs, A, B, G)
  PROVE  \E A2, B2, G2 : Meeting(root, node, merged', work', P, Q, Fr, Fs, A2, B2, G2)
<1> DEFINE t == c.to
           d == A[t]
           e == B[t]
           this == NodeAt(c.this)
           other == NodeAt(c.other)
           keyed == IF this.all THEN c.other ELSE c.this
           allKeys == IF this.all THEN c.this ELSE c.other
           names == NamesBelow(keyed)
           x == Node(this.type, FALSE, TRUE, FALSE)
           f == [n \in names |-> Call(Append(t, n), Child(keyed, n), allKeys)]
           new == {f[n] : n \in names}
<1>1. /\ ~this.leaf /\ ~other.leaf /\ Mixed(this, other)
      /\ merged' = Add(merged, t, x) /\ work' = (work \ {c}) \cup new
  BY DEF IntersectKeys, Keep
<1>2. NamedFor(root, Fr, P) /\ NamedFor(node, Fs, Q) /\ Apart(P, Q) BY DEF Meeting
<1>3. CallNodes(c, d, e, t, Fr, Fs, G[t])
  <2>1. t = c.to /\ d = A[t] /\ e = B[t] OBVIOUS
  <2> HIDE DEF t, d, e
  <2> QED BY <1>1, <2>1, PendingNodes
<1>4. \A n \in names : f[n] = Call(Append(t, n), Child(keyed, n), allKeys) OBVIOUS
<1>5. IsNode(root[d]) /\ IsNode(node[e]) /\ IsNode(x)
  <2>1. IsNode(root[d]) /\ IsNode(node[e])
    <3>1. Named(root, Fr) /\ Named(node, Fs) BY <1>2 DEF NamedFor
    <3> QED BY <1>3, <3>1, NamedTypes DEF CallNodes
  <2>2. IsNode(this) BY <1>3, <2>1 DEF CallNodes
  <2> HIDE DEF this
  <2> QED BY <2>1, <2>2 DEF IsNode, Node
<1> HIDE DEF t, d, e, f, new
<1> DEFINE a == root[d]
           b == node[e]
<1>6. /\ ~a.leaf /\ ~b.leaf /\ a.type = b.type /\ a.map /\ b.map /\ Mixed(a, b)
      /\ a.all \in BOOLEAN /\ b.all \in BOOLEAN /\ this.type = a.type
  <2>1. ~a.leaf /\ ~b.leaf /\ a.type = b.type BY <1>3 DEF CallNodes, Level
  <2>2. (this = a /\ other = b) \/ (this = b /\ other = a) BY <1>3 DEF CallNodes
  <2>3. a.all \in BOOLEAN /\ b.all \in BOOLEAN BY <1>5 DEF IsNode
  <2> HIDE DEF a, b, this, other
  <2> QED BY <1>1, <2>1, <2>2, <2>3 DEF Mixed
<1>7. (a.all /\ ~b.all) \/ (~a.all /\ b.all) BY <1>6 DEF Mixed
<1>8. IsJoin(x, a, b)
  <2>1. (a.map /\ b.map) = TRUE /\ (a.all /\ b.all) = FALSE BY <1>6, <1>7
  <2> DEFINE y == a.map /\ b.map
             z == a.all /\ b.all
  <2>2. y = TRUE /\ z = FALSE BY <2>1
  <2> HIDE DEF y, z, a, b, this
  <2>3. x = Node(a.type, FALSE, y, z) BY <1>6, <2>2
  <2> HIDE DEF x
  <2> QED BY <1>6, <2>3 DEF IsJoin, y, z
<1>9. \/ /\ keyed = RootRef(d) /\ allKeys = NodeRef(e) /\ names = Children(root, d)
         /\ ~Stays(a, b) /\ Stays(b, a)
      \/ /\ keyed = NodeRef(e) /\ allKeys = RootRef(d) /\ names = Children(node, e)
         /\ ~Stays(b, a) /\ Stays(a, b)
  <2>1. /\ (a.all => Stays(a, b) /\ ~Stays(b, a))
        /\ (b.all => Stays(b, a) /\ ~Stays(a, b))
    BY <1>6, <1>7 DEF Stays, Mixed
  <2>2. CASE this.all
    <3>1. keyed = c.other /\ allKeys = c.this /\ names = NamesBelow(c.other) BY <2>2
    <3>2. \/ /\ c.this = RootRef(d) /\ c.other = NodeRef(e) /\ this = a /\ NamesBelow(c.other) = Children(node, e)
          \/ /\ c.this = NodeRef(e) /\ c.other = RootRef(d) /\ this = b /\ NamesBelow(c.other) = Children(root, d)
      BY <1>3 DEF CallNodes
    <3> HIDE DEF keyed, allKeys, names, this, a, b
    <3> QED BY <2>1, <2>2, <3>1, <3>2
  <2>3. CASE ~this.all
    <3>1. keyed = c.this /\ allKeys = c.other /\ names = NamesBelow(c.this) BY <2>3
    <3>2. \/ /\ c.this = RootRef(d) /\ c.other = NodeRef(e) /\ this = a /\ NamesBelow(c.this) = Children(root, d)
          \/ /\ c.this = NodeRef(e) /\ c.other = RootRef(d) /\ this = b /\ NamesBelow(c.this) = Children(node, e)
      BY <1>3 DEF CallNodes
    <3> HIDE DEF keyed, allKeys, names, this, a, b
    <3> QED BY <1>7, <2>1, <2>3, <3>1, <3>2
  <2> QED BY <2>2, <2>3
<1> HIDE DEF x, keyed, allKeys, names
<1>10. names \subseteq Elements /\ \A n \in Elements : n \in names <=> Joint(root, node, d, e, n)
  BY <1>9 DEF Joint, Children
<1>11. ASSUME NEW n \in names
       PROVE  /\ f[n].to = Append(t, n) /\ MapsAlike(root, node, f[n])
              /\ Pairs(f[n], Onto(a, b, d, n), Onto(b, a, e, n))
  <2> DEFINE d2 == Onto(a, b, d, n)
             e2 == Onto(b, a, e, n)
  <2>1. f[n].to = Append(t, n) /\ f[n].this = Child(keyed, n) /\ f[n].other = allKeys
    <3>1. f[n] = Call(Append(t, n), Child(keyed, n), allKeys) BY <1>4
    <3> QED BY ONLY <3>1 DEF Call
  <2>2. \/ /\ f[n].this = RootRef(d2) /\ f[n].other = NodeRef(e2) /\ ~Stays(a, b) /\ Stays(b, a)
        \/ /\ f[n].this = NodeRef(e2) /\ f[n].other = RootRef(d2) /\ ~Stays(b, a) /\ Stays(a, b)
    <3>1. (~Stays(a, b) => d2 = Append(d, n)) /\ (Stays(a, b) => d2 = d) BY DEF Onto
    <3>2. (~Stays(b, a) => e2 = Append(e, n)) /\ (Stays(b, a) => e2 = e) BY DEF Onto
    <3> HIDE DEF d2, e2, a, b
    <3> QED BY <1>9, <2>1, <3>1, <3>2, ChildRef
  <2>3. n \in Elements /\ Joint(root, node, d, e, n) BY <1>10
  <2>4. IsKid(root, Fr, node, Fs, d, e, x, G[t], n)
    <3>1. d \in DOMAIN root /\ e \in DOMAIN node /\ Level(root, Fr, node, Fs, d, e, G[t]) BY <1>3 DEF CallNodes
    <3> QED BY <1>2, <1>8, <2>3, <3>1, Kids
  <2>5. Pairs(f[n], d2, e2) BY <2>2 DEF Pairs
  <2>6. d2 = Onto(root[d], node[e], d, n) /\ e2 = Onto(node[e], root[d], e, n) OBVIOUS
  <2>7. ~root[d].leaf /\ ~node[e].leaf BY <1>6
  <2>8. (Stays(node[e], root[d]) => f[n].this = RootRef(d2)) /\ (Stays(root[d], node[e]) => f[n].this = NodeRef(e2))
    BY <2>2
  <2> HIDE DEF d2, e2
  <2>9. MapsAlike(root, node, f[n]) BY <2>3, <2>4, <2>5, <2>6, <2>7, <2>8, KidsAlike
  <2> QED BY <2>1, <2>5, <2>6, <2>9
<1>12. new = {f[n] : n \in names} BY DEF new
<1>13. Branches(root, node, t, d, e, new)
  <2>1. t \in Positions BY <1>3 DEF CallNodes
  <2> QED BY <1>10, <1>11, <1>12, <2>1, BranchesAre
<1>14. t = c.to /\ d = A[t] /\ e = B[t] /\ ~root[d].leaf /\ ~node[e].leaf
  BY <1>3 DEF t, d, e, CallNodes
<1>15. \E A2, B2, G2 : Meeting(root, node, Add(merged, t, x), (work \ {c}) \cup new, P, Q, Fr, Fs, A2, B2, G2)
  BY <1>5, <1>8, <1>13, <1>14, Opens
<1> QED BY <1>1, <1>15

-------------------------------------------------------------------------------
(* The answers of two trees                                                   *)

\* The verdict of the intersection of two trees is the stricter of theirs.
LEMMA StricterOfBoth ==
  ASSUME NEW r, NEW Fr, NEW P, NEW s, NEW Fs, NEW Q, NEW m, NEW A, NEW B, NEW G,
         Meets(r, Fr, P, s, Fs, Q, m, A, B, G), NEW q \in Queried, NEW kind
  PROVE  CheckField(m, q, kind) = Stricter(CheckField(r, q, kind), CheckField(s, q, kind))
<1>1. Rooted(r) /\ Rooted(s) /\ Rooted(m)
  <2>1. NamedFor(m, G, P \cup Q) BY MergedFormed DEF Meets
  <2> QED BY <2>1 DEF Meets, NamedFor, Named
<1> DEFINE u == CheckField(r, q, "message")
           v == CheckField(s, q, "message")
           w == CheckField(m, q, "message")
<1>2. w = Stricter(u, v) BY MeetVerdict
<1>3. /\ CheckField(m, q, kind) = AsKind(w, kind) /\ CheckField(r, q, kind) = AsKind(u, kind)
      /\ CheckField(s, q, kind) = AsKind(v, kind) /\ u \in Verdicts /\ v \in Verdicts
  BY <1>1, KindOfVerdict
<1> HIDE DEF u, v, w
<1>4. AsKind(Stricter(u, v), kind) = Stricter(AsKind(u, kind), AsKind(v, kind))
  <2>1. CASE kind \in {"message", "enum"} BY <2>1 DEF AsKind
  <2>2. CASE kind \notin {"message", "enum"} BY <1>3, <2>2 DEF AsKind, Stricter, Verdicts
  <2> QED BY <2>1, <2>2
<1> QED BY <1>2, <1>3, <1>4

-------------------------------------------------------------------------------
(* The lists accepted so far                                                  *)

\* All paths of some lists.
AllPaths(lists) == UNION {PathsOf(lists[n]) : n \in 1..Len(lists)}

\* What the intersection of some lists says.
MetBy(lists, q) ==
  LET verdicts == {Union(lists[n], q) : n \in 1..Len(lists)}
  IN  IF "exclude" \in verdicts THEN "exclude"
      ELSE IF "partial" \in verdicts THEN "partial" ELSE "include"

\* What one list says is a verdict.
LEMMA UnionType ==
  ASSUME NEW list, NEW q
  PROVE  Union(list, q) \in Verdicts
  BY DEF Union, Verdicts

\* A list more.
LEMMA OneListMore ==
  ASSUME NEW lists \in Seq(PathsArgument), NEW list \in PathsArgument, NEW more, more = Append(lists, list)
  PROVE  /\ more \in Seq(PathsArgument) /\ Len(more) = Len(lists) + 1 /\ Len(lists) \in Nat
         /\ 1..Len(more) = 1..Len(lists) \cup {Len(lists) + 1}
         /\ more[Len(lists) + 1] = list /\ \A n \in 1..Len(lists) : more[n] = lists[n]
<1>1. /\ more \in Seq(PathsArgument) /\ Len(more) = Len(lists) + 1 /\ Len(lists) \in Nat
      /\ more[Len(lists) + 1] = list /\ \A n \in 1..Len(lists) : more[n] = lists[n]
  OBVIOUS
<1> QED BY <1>1

\* The paths of a list more.
LEMMA MoreLists ==
  ASSUME NEW lists \in Seq(PathsArgument), NEW list \in PathsArgument, NEW more, more = Append(lists, list)
  PROVE  AllPaths(more) = AllPaths(lists) \cup PathsOf(list)
<1> DEFINE k == Len(lists) + 1
<1>1. /\ \A n : n \in 1..Len(more) <=> n \in 1..Len(lists) \/ n = k
      /\ more[k] = list /\ \A n \in 1..Len(lists) : more[n] = lists[n]
  BY OneListMore
<1> HIDE DEF k
<1> QED BY ONLY <1>1 DEF AllPaths

\* more is what lists becomes when list is accepted.
Accepted(more, lists, list) == lists \in Seq(PathsArgument) /\ list \in PathsArgument /\ more = Append(lists, list)

\* A list more makes the verdict the stricter one.
LEMMA MoreMet ==
  ASSUME NEW more, NEW lists, NEW list, Accepted(more, lists, list), NEW q
  PROVE  MetBy(more, q) = Stricter(MetBy(lists, q), Union(list, q))
<1>0. lists \in Seq(PathsArgument) /\ list \in PathsArgument /\ more = Append(lists, list) BY DEF Accepted
<1> DEFINE V == {Union(lists[n], q) : n \in 1..Len(lists)}
           W == {Union(more[n], q) : n \in 1..Len(more)}
           u == Union(list, q)
<1>1. W = V \cup {u}
  <2> DEFINE k == Len(lists) + 1
  <2>1. /\ \A n : n \in 1..Len(more) <=> n \in 1..Len(lists) \/ n = k
        /\ more[k] = list /\ \A n \in 1..Len(lists) : more[n] = lists[n]
    BY <1>0, OneListMore
  <2> HIDE DEF k
  <2> QED BY ONLY <2>1
<1>2. u \in Verdicts BY UnionType
<1>3. MetBy(lists, q) = IF "exclude" \in V THEN "exclude" ELSE IF "partial" \in V THEN "partial" ELSE "include"
  BY DEF MetBy
<1>4. MetBy(more, q) = IF "exclude" \in W THEN "exclude" ELSE IF "partial" \in W THEN "partial" ELSE "include"
  BY DEF MetBy
<1> HIDE DEF V, W, u
<1>5. /\ "exclude" \in W <=> "exclude" \in V \/ u = "exclude"
      /\ "partial" \in W <=> "partial" \in V \/ u = "partial"
  BY <1>1
<1>6. MetBy(more, q) = Stricter(MetBy(lists, q), u) BY <1>2, <1>3, <1>4, <1>5 DEF Stricter, Verdicts
<1> QED BY <1>6 DEF u

\* Lists that are compiled exactly, without the last one.
LEMMA UnmixedLess ==
  ASSUME NEW lists \in Seq(PathsArgument), NEW list \in PathsArgument, Unmixed(Append(lists, list))
  PROVE  /\ Unmixed(lists) /\ LegalList(list) /\ CompatibleLists(list, list, InOneList)
         /\ Apart(AllPaths(lists), PathsOf(list))
<1> DEFINE more == Append(lists, list)
           N == Len(lists)
<1>1. /\ N \in Nat /\ \A n : n \in 1..Len(more) <=> n \in 1..N \/ n = N + 1
      /\ more[N + 1] = list /\ \A n \in 1..N : more[n] = lists[n]
  BY OneListMore
<1>2. /\ \A n \in 1..Len(more) : LegalList(more[n]) /\ CompatibleLists(more[n], more[n], InOneList)
      /\ \A m, n \in 1..Len(more) : m < n => CompatibleLists(more[m], more[n], AcrossLists)
  BY DEF Unmixed
<1> HIDE DEF more
<1>3. LegalList(list) /\ CompatibleLists(list, list, InOneList) BY <1>1, <1>2
<1>4. \A n \in 1..N : LegalList(lists[n]) /\ CompatibleLists(lists[n], lists[n], InOneList) BY <1>1, <1>2
<1>5. \A m, n \in 1..N : m < n => CompatibleLists(lists[m], lists[n], AcrossLists) BY <1>1, <1>2
<1>6. \A n \in 1..N : CompatibleLists(lists[n], list, AcrossLists)
  <2>1. ASSUME NEW n \in 1..N PROVE CompatibleLists(lists[n], list, AcrossLists)
    <3>1. n < N + 1 BY <1>1
    <3> QED BY <1>1, <1>2, <3>1
  <2> QED BY <2>1
<1>7. Unmixed(lists) BY <1>4, <1>5 DEF Unmixed
<1>8. Apart(AllPaths(lists), PathsOf(list))
  <2> DEFINE P == AllPaths(lists)
             Q == PathsOf(list)
  <2>1. P \subseteq DOMAIN Patterns BY <1>4 DEF AllPaths, LegalList
  <2>2. \A p \in P, q \in Q : Compatible(p, q, AcrossLists) BY <1>6 DEF AllPaths, CompatibleLists
  <2> HIDE DEF P, Q
  <2>3. Apart(P, Q) BY <2>1, <2>2, ApartLists
  <2> QED BY <2>3 DEF P, Q
<1> QED BY <1>3, <1>7, <1>8

-------------------------------------------------------------------------------
(* The inductive invariant                                                    *)

\* The intersection in progress is that of the lists so far with the current one.
Intersected ==
  \E Fr, Fs, A, B, G :
    Meeting(root, node, merged, work, AllPaths(calls), PathsOf(paths), Fr, Fs, A, B, G)

\* The tree stands for the lists accepted so far.
Answers ==
  /\ Formed(root, AllPaths(calls))
  /\ \A q \in Queries : CheckField(root, q.path, q.kind) = MetBy(calls, q)

\* The invariant: there is a tree when a list was accepted, it stands for the lists
\* so far, and an intersection in progress is the one that is to come.
VerdictInv ==
  /\ root = NoTree <=> calls = <<>>
  /\ calls # <<>> /\ Unmixed(calls) => Answers
  /\ pc = "intersect" /\ Unmixed(Append(calls, paths)) => Intersected

\* At first nothing is accepted.
LEMMA VerdictInit == Init => VerdictInv
  BY DEF Init, VerdictInv

\* Nothing that the verdicts depend on has changed.
LEMMA VerdictsStay ==
  ASSUME VerdictInv, root' = root, calls' = calls,
         pc' = "intersect" /\ Unmixed(Append(calls, paths))' => Intersected'
  PROVE  VerdictInv'
  BY DEF VerdictInv, Answers, AllPaths, MetBy, Formed

\* The first list: its tree becomes the root.
LEMMA UseAsRootStep ==
  ASSUME IInv, ListInv, VerdictInv, UseAsRoot
  PROVE  VerdictInv'
<1>1. /\ pc = "next" /\ inserted = Len(paths) /\ root = NoTree /\ calls = <<>>
      /\ root' = node /\ calls' = Append(calls, paths) /\ pc' = "idle"
  BY DEF UseAsRoot, Compiled, Finish, VerdictInv
<1>2. calls \in Seq(PathsArgument) /\ paths \in PathsArgument /\ <<>> \in DOMAIN node /\ Busy
  BY <1>1 DEF IInv, TypeOK, RootNodes, Busy
<1>3. root' # NoTree /\ calls' # <<>>
  <2>1. node # NoTree BY <1>2 DEF NoTree
  <2>2. Len(Append(calls, paths)) = Len(calls) + 1 /\ Len(calls) \in Nat BY <1>2
  <2> QED BY <1>1, <2>1, <2>2
<1>4. ASSUME Unmixed(Append(calls, paths))
      PROVE  /\ Formed(node, AllPaths(Append(calls, paths)))
             /\ \A q \in Queries : CheckField(node, q.path, q.kind) = MetBy(Append(calls, paths), q)
  <2>1. Proper BY <1>2, <1>4, UnmixedLess DEF Proper
  <2>2. /\ Formed(node, PathsOf(paths))
        /\ \A q \in Queries : CheckField(node, q.path, q.kind) = Union(paths, q)
    BY <1>1, <1>2, <2>1, CompiledList DEF Inserts
  <2>3. AllPaths(Append(calls, paths)) = PathsOf(paths)
    <3>1. AllPaths(Append(calls, paths)) = AllPaths(calls) \cup PathsOf(paths) BY <1>2, MoreLists
    <3>2. AllPaths(calls) = {} BY <1>1 DEF AllPaths
    <3> QED BY <3>1, <3>2
  <2>4. ASSUME NEW q \in Queries PROVE MetBy(Append(calls, paths), q) = Union(paths, q)
    <3>1. MetBy(Append(calls, paths), q) = Stricter(MetBy(calls, q), Union(paths, q))
      <4> DEFINE more == Append(calls, paths)
      <4>1. Accepted(more, calls, paths) BY <1>2 DEF Accepted
      <4> HIDE DEF more
      <4>2. MetBy(more, q) = Stricter(MetBy(calls, q), Union(paths, q)) BY ONLY <4>1, MoreMet
      <4> QED BY <4>2 DEF more
    <3>2. MetBy(calls, q) = "include" BY <1>1 DEF MetBy
    <3>3. Union(paths, q) \in Verdicts BY UnionType
    <3> QED BY <3>1, <3>2, <3>3 DEF Stricter, Verdicts
  <2> QED BY <2>2, <2>3, <2>4
<1>5. Unmixed(calls') => Answers'
  <2> SUFFICES ASSUME Unmixed(calls') PROVE Answers' OBVIOUS
  <2>1. Unmixed(Append(calls, paths)) BY <1>1
  <2> QED BY <1>1, <1>4, <2>1 DEF Answers
<1> QED BY <1>1, <1>3, <1>5 DEF VerdictInv

\* A further list: the intersection of its tree with the root begins.
LEMMA IntersectRootsStep ==
  ASSUME IInv, ListInv, VerdictInv, IntersectRoots
  PROVE  VerdictInv'
<1> DEFINE c == Call(<<>>, RootRef(<<>>), NodeRef(<<>>))
<1>1. /\ pc = "next" /\ inserted = Len(paths) /\ root # NoTree /\ calls # <<>>
      /\ merged' = <<>> /\ work' = {c} /\ root' = root /\ node' = node /\ calls' = calls /\ paths' = paths
  BY DEF IntersectRoots, Compiled, VerdictInv, RootRef, NodeRef
<1>2. calls \in Seq(PathsArgument) /\ paths \in PathsArgument /\ Busy
  BY <1>1 DEF IInv, TypeOK, Busy
<1>3. ASSUME Unmixed(Append(calls, paths))
      PROVE  \E Fr, Fs, A, B, G :
               Meeting(root, node, <<>>, {c}, AllPaths(calls), PathsOf(paths), Fr, Fs, A, B, G)
  <2>1. Unmixed(calls) /\ Proper /\ Apart(AllPaths(calls), PathsOf(paths))
    BY <1>2, <1>3, UnmixedLess DEF Proper
  <2>2. Formed(node, PathsOf(paths)) BY <1>1, <1>2, <2>1, CompiledList DEF Inserts
  <2>3. Formed(root, AllPaths(calls)) BY <1>1, <2>1 DEF VerdictInv, Answers
  <2>4. PICK Fr : NamedFor(root, Fr, AllPaths(calls)) BY <2>3 DEF Formed, NamedFor
  <2>5. PICK Fs : NamedFor(node, Fs, PathsOf(paths)) BY <2>2 DEF Formed, NamedFor
  <2> DEFINE W == {c}
             P == AllPaths(calls)
             Q == PathsOf(paths)
  <2>6. c = Call(<<>>, RootRef(<<>>), NodeRef(<<>>)) /\ W = {c} OBVIOUS
  <2>7. NamedFor(root, Fr, P) /\ NamedFor(node, Fs, Q) /\ Apart(P, Q) BY <2>1, <2>4, <2>5
  <2> HIDE DEF c, W, P, Q
  <2>8. \E A, B, G : Meeting(root, node, <<>>, W, P, Q, Fr, Fs, A, B, G)
    BY ONLY <2>6, <2>7, MeetingBegins
  <2> QED BY <2>8 DEF W, P, Q
<1> HIDE DEF c
<1>4. Unmixed(Append(calls, paths))' => Intersected'
  <2>1. Unmixed(Append(calls, paths))' <=> Unmixed(Append(calls, paths)) BY <1>1
  <2> QED BY <1>1, <1>3, <2>1 DEF Intersected
<1> QED BY <1>1, <1>4, VerdictsStay

\* A pending call of the intersection.
LEMMA IntersectCallStep ==
  ASSUME IInv, ListInv, VerdictInv, NEW c \in work, IntersectLeaf(c) \/ IntersectSame(c) \/ IntersectKeys(c)
  PROVE  VerdictInv'
<1>1. /\ pc = "intersect" /\ root' = root /\ node' = node /\ calls' = calls /\ paths' = paths
  BY DEF IntersectLeaf, IntersectSame, IntersectKeys, Intersecting, Keep
<1>2. ASSUME Unmixed(Append(calls, paths))
      PROVE  \E Fr, Fs, A, B, G :
               Meeting(root, node, merged', work', AllPaths(calls), PathsOf(paths), Fr, Fs, A, B, G)
  <2> DEFINE P == AllPaths(calls)
             Q == PathsOf(paths)
  <2>1. PICK Fr, Fs, A, B, G : Meeting(root, node, merged, work, P, Q, Fr, Fs, A, B, G)
    BY <1>1, <1>2 DEF VerdictInv, Intersected
  <2> HIDE DEF P, Q
  <2>2. \E A2, B2, G2 : Meeting(root, node, merged', work', P, Q, Fr, Fs, A2, B2, G2)
    <3>1. CASE IntersectLeaf(c) BY <2>1, <3>1, LeafMeeting
    <3>2. CASE IntersectSame(c) BY <2>1, <3>2, SameMeeting
    <3>3. CASE IntersectKeys(c) BY <2>1, <3>3, KeysMeeting
    <3> QED BY <3>1, <3>2, <3>3
  <2> QED BY <2>2 DEF P, Q
<1>3. Unmixed(Append(calls, paths))' => Intersected'
  <2>1. Unmixed(Append(calls, paths))' <=> Unmixed(Append(calls, paths)) BY <1>1
  <2> QED BY <1>1, <1>2, <2>1 DEF Intersected
<1> QED BY <1>1, <1>3, VerdictsStay

\* The intersection is complete and becomes the root.
LEMMA UseIntersectionStep ==
  ASSUME IInv, ListInv, VerdictInv, UseIntersection
  PROVE  VerdictInv'
<1> DEFINE more == Append(calls, paths)
           P == AllPaths(calls)
           Q == PathsOf(paths)
<1>1. /\ pc = "intersect" /\ work = {} /\ root' = merged /\ calls' = more /\ pc' = "idle"
  BY DEF UseIntersection, Finish
<1>2. /\ calls \in Seq(PathsArgument) /\ paths \in PathsArgument /\ Busy
      /\ <<>> \in DOMAIN root /\ <<>> \in DOMAIN merged
  BY <1>1 DEF IInv, TypeOK, RootNodes, Busy
<1>3. root' # NoTree /\ calls' # <<>> /\ calls # <<>>
  <2>1. merged # NoTree /\ root # NoTree BY <1>2 DEF NoTree
  <2>2. Len(more) = Len(calls) + 1 /\ Len(calls) \in Nat BY <1>2
  <2> QED BY <1>1, <2>1, <2>2 DEF VerdictInv
<1>4. ASSUME Unmixed(more)
      PROVE  /\ Formed(merged, AllPaths(more))
             /\ \A q \in Queries : CheckField(merged, q.path, q.kind) = MetBy(more, q)
  <2>1. Unmixed(calls) /\ Proper BY <1>2, <1>4, UnmixedLess DEF Proper
  <2>2. \A q \in Queries : CheckField(root, q.path, q.kind) = MetBy(calls, q)
    BY <1>3, <2>1 DEF VerdictInv, Answers
  <2>3. \A q \in Queries : CheckField(node, q.path, q.kind) = Union(paths, q)
    <3>1. inserted = Len(paths) /\ ~Inserts BY <1>1, <1>2, <2>1 DEF ListInv, Inserts
    <3> QED BY <1>2, <2>1, <3>1, CompiledList
  <2>4. PICK Fr, Fs, A, B, G : Meeting(root, node, merged, work, P, Q, Fr, Fs, A, B, G)
    BY <1>1, <1>4 DEF VerdictInv, Intersected
  <2> HIDE DEF more, P, Q
  <2>5. Meets(root, Fr, P, node, Fs, Q, merged, A, B, G)
    <3>1. Targets(work) = {} BY <1>1 DEF Targets
    <3> QED BY <2>4, <3>1 DEF Meeting, Meets
  <2>6. Formed(merged, P \cup Q)
    <3>1. NamedFor(merged, G, P \cup Q) BY <2>5, MergedFormed DEF Meets
    <3> QED BY <3>1 DEF NamedFor, Formed
  <2>7. AllPaths(more) = P \cup Q BY <1>2, MoreLists DEF more, P, Q
  <2>8. ASSUME NEW q \in Queries PROVE CheckField(merged, q.path, q.kind) = MetBy(more, q)
    <3>1. q.path \in Queried BY QueriesAssumption DEF Queried
    <3>2. CheckField(merged, q.path, q.kind) = Stricter(CheckField(root, q.path, q.kind), CheckField(node, q.path, q.kind))
      BY <2>5, <3>1, StricterOfBoth
    <3>3. MetBy(more, q) = Stricter(MetBy(calls, q), Union(paths, q))
      <4>1. Accepted(more, calls, paths) BY <1>2 DEF Accepted, more
      <4> QED BY ONLY <4>1, MoreMet
    <3> QED BY <2>2, <2>3, <3>2, <3>3
  <2> QED BY <2>6, <2>7, <2>8
<1> HIDE DEF more
<1>5. Unmixed(calls') => Answers'
  <2> SUFFICES ASSUME Unmixed(calls') PROVE Answers' OBVIOUS
  <2>1. Unmixed(more) BY <1>1
  <2> QED BY <1>1, <1>4, <2>1 DEF Answers
<1> QED BY <1>1, <1>3, <1>5 DEF VerdictInv

\* Every step keeps the invariant.
LEMMA VerdictStep ==
  ASSUME IInv, ListInv, VerdictInv, [Next]_vars
  PROVE  VerdictInv'
<1>1. CASE UNCHANGED vars
  <2>1. root' = root /\ node' = node /\ merged' = merged /\ work' = work /\ calls' = calls /\ paths' = paths /\ pc' = pc
    BY <1>1 DEF vars, locals
  <2>2. pc' = "intersect" /\ Unmixed(Append(calls, paths))' => Intersected'
    BY <2>1 DEF VerdictInv, Intersected
  <2> QED BY <2>1, <2>2, VerdictsStay
<1>2. CASE UseAsRoot BY <1>2, UseAsRootStep
<1>3. CASE IntersectRoots BY <1>3, IntersectRootsStep
<1>4. CASE UseIntersection BY <1>4, UseIntersectionStep
<1>5. ASSUME NEW c \in work, IntersectLeaf(c) \/ IntersectSame(c) \/ IntersectKeys(c) PROVE VerdictInv'
  BY <1>5, IntersectCallStep
<1>6. CASE \/ \E list \in PathLists : AddOrIntersectFieldPaths(list)
           \/ AddOrIntersectOnBrokenTree \/ CheckFieldOnBrokenTree
           \/ NextPath \/ InsertFieldStep \/ InsertValueFieldStep
  <2>1. root' = root /\ calls' = calls /\ pc' # "intersect"
    BY <1>6 DEF AddOrIntersectFieldPaths, AddOrIntersectOnBrokenTree, CheckFieldOnBrokenTree, NextPath,
      InsertFieldStep, InsertValueFieldStep, MarkLeaf, BelowNonMessage, AlreadyCovered, BadSegment,
      DescendToChild, BadChild, AddFieldChild, ValueCovered, ValueOfAllKeys, DescendToKey, AddKeyChild,
      EndPath, FailPath, CallChild, CallInsertField
  <2> QED BY <2>1, VerdictsStay
<1> QED BY <1>1, <1>2, <1>3, <1>4, <1>5, <1>6 DEF Next, Compiling, IntersectStep

\* The invariants hold in every reachable state.
LEMMA VerdictInvariance == Spec => [](IInv /\ ListInv /\ VerdictInv)
<1>1. Init => IInv /\ ListInv /\ VerdictInv
  <2>1. Init => ~Busy BY DEF Init, Busy
  <2> QED BY <2>1, InitInv, VerdictInit DEF ListInv
<1>2. (IInv /\ ListInv /\ VerdictInv) /\ [Next]_vars => (IInv /\ ListInv /\ VerdictInv)'
  BY StepInv, ListStep, VerdictStep
<1> QED BY <1>1, <1>2, PTL DEF Spec

-------------------------------------------------------------------------------
(* The theorem                                                                *)

\* Between calls CheckField() answers as the lists accepted so far say.
THEOREM TreesMeanTheirPaths == Spec => []ExactVerdicts
<1>1. VerdictInv => ExactVerdicts
  <2> SUFFICES ASSUME VerdictInv, Unmixed(calls), NEW q \in Queries
               PROVE  CheckField(root, q.path, q.kind) = Met(q)
    BY DEF ExactVerdicts
  <2>1. Met(q) = MetBy(calls, q) BY DEF Met, MetBy
  <2>2. CASE calls = <<>>
    <3>1. root = NoTree BY <2>2 DEF VerdictInv
    <3>2. CheckField(root, q.path, q.kind) = "include" BY <3>1 DEF CheckField
    <3>3. MetBy(calls, q) = "include" BY <2>2 DEF MetBy
    <3> QED BY <2>1, <3>2, <3>3
  <2>3. CASE calls # <<>> BY <2>1, <2>3 DEF VerdictInv, Answers
  <2> QED BY <2>2, <2>3
<1> QED BY <1>1, VerdictInvariance, PTL

-------------------------------------------------------------------------------
(* Where the paths of one list go in its tree, legal or not                   *)

\* A path names a key, and another a field of that name under all keys.
Clashing(P) ==
  \E p, q \in P : \E i \in 1..Len(p) :
    /\ i < Len(q) /\ \A j \in 1..i : p[j].field = q[j].field
    /\ q[i].key = NoKey /\ q[i + 1].field = p[i].key

\* The child n of d comes from a path of P: it is the node of a key, or that of
\* a field, which is not looked for below a key that is named there.
Sprouts(t, F, K, P, d, n) ==
  LET c == Append(d, n)
      i == Len(F[d])
  IN  IF K[c]
      THEN /\ F[c] = F[d] /\ ~K[d] /\ ~t[d].all /\ i > 0
           /\ \E p \in P : Along(p, F[d]) /\ p[i].key = n
      ELSE /\ F[c] = Append(F[d], n)
           /\ \E p \in P : Along(p, F[c]) /\ (i = 0 \/ K[d] \/ t[d].all \/ p[i].key = NoKey)

\* The node at d has the type that the schema has after its fields.
TypedBy(t, f, d) == \A p \in Seq(Segments) : Along(p, f) => TypeAfter(p)[Len(f)] = t[d].type

\* F are the fields that lead to each node, K holds for the nodes of keys, and every
\* node comes from a path of P.
Sown(t, F, K, P) ==
  /\ Rooted(t) /\ F \in [DOMAIN t -> Seq(Elements)] /\ K \in [DOMAIN t -> BOOLEAN]
  /\ F[<<>>] = <<>> /\ ~K[<<>>]
  /\ \A d \in DOMAIN t : TypedBy(t, F[d], d)
  /\ \A d \in DOMAIN t, n \in Elements : HasChild(t, d, n) => Sprouts(t, F, K, P, d, n)

\* The nodes that are deeper than d come from the paths E.
Traced(t, F, E, d) == \A e \in DOMAIN t : Len(e) > Len(d) => \E p \in E : Along(p, F[e])

\* The leaves, but for those of D, are where paths of E end.
Ended(t, F, E, D) ==
  \A e \in DOMAIN t \ D : t[e].leaf => \E p \in E : Along(p, F[e]) /\ Len(p) = Len(F[e])

\* The pending call is made on d, to which the first i fields of the path lead.
Stands(call, t, F, K, cur, d, k, i) ==
  /\ d \in DOMAIN t /\ i \in 0..Len(cur) /\ Along(cur, F[d]) /\ Len(F[d]) = i
  /\ call = "field" => \/ i = 0
                       \/ i > 0 /\ cur[i].key = NoKey
                       \/ i > 0 /\ cur[i].key # NoKey /\ (K[d] \/ t[d].all)
  /\ call = "value" => i > 0 /\ cur[i].key = k /\ k \in Elements /\ ~K[d]

\* The first i segments are legal, or a path of E is why they are not looked at.
LegalUpTo(E, cur, i) == (\A k \in 1..i : LegalSegment(cur, k)) \/ \E e \in E : Excused(e, cur)

\* The leaf that was made for the path that is inserted.
NewLeaf(call, rest, d) == IF call = "field" /\ rest = <<>> THEN {d} ELSE {}

\* What is known while cur, the last of the paths P, is inserted after the paths E.
Sowing(call, t, F, K, P, E, cur, rest, d, k, i) ==
  /\ Sown(t, F, K, P) /\ P = E \cup {cur} /\ P \subseteq Seq(Segments) /\ ~Clashing(P)
  /\ rest \in Seq(Segments)
  /\ Traced(t, F, E, d) /\ Ended(t, F, E, NewLeaf(call, rest, d))
  /\ Stands(call, t, F, K, cur, d, k, i) /\ IsRest(rest, cur, i) /\ LegalUpTo(E, cur, i)

\* The first illegal segment of a path that is not legal.
LEMMA FirstOne ==
  ASSUME NEW cur \in Seq(Segments), ~Legal(cur)
  PROVE  /\ FirstIllegal(cur) \in 1..Len(cur) /\ ~LegalSegment(cur, FirstIllegal(cur))
         /\ \A j \in 1..(FirstIllegal(cur) - 1) : LegalSegment(cur, j)
<1> DEFINE T == {i \in 1..Len(cur) : ~LegalSegment(cur, i)}
<1>1. T \subseteq Nat /\ T # {} BY DEF Legal
<1>2. PICK i \in T : \A j \in T : i <= j
  <2> HIDE DEF T
  <2> QED BY <1>1, LeastNumber
<1>3. i \in 1..Len(cur) /\ ~LegalSegment(cur, i) BY <1>2
<1>4. \A j \in 1..(i - 1) : LegalSegment(cur, j)
  <2> SUFFICES ASSUME NEW j \in 1..(i - 1), ~LegalSegment(cur, j) PROVE FALSE OBVIOUS
  <2>1. j \in 1..Len(cur) /\ j < i BY <1>3
  <2>2. j \in T BY <2>1
  <2> QED BY <1>2, <2>1, <2>2, <1>3
<1> QED BY <1>3, <1>4 DEF FirstIllegal

\* The first illegal segment is the only one of its kind.
LEMMA FirstIs ==
  ASSUME NEW cur \in Seq(Segments), NEW i \in 1..Len(cur), ~LegalSegment(cur, i),
         \A j \in 1..(i - 1) : LegalSegment(cur, j)
  PROVE  FirstIllegal(cur) = i
<1>1. ~Legal(cur) BY DEF Legal
<1> DEFINE n == FirstIllegal(cur)
<1>2. /\ n \in 1..Len(cur) /\ ~LegalSegment(cur, n) /\ \A j \in 1..(n - 1) : LegalSegment(cur, j)
  BY <1>1, FirstOne
<1> HIDE DEF n
<1>3. ~(n < i) /\ ~(i < n)
  <2>1. n < i => n \in 1..(i - 1) BY <1>2
  <2>2. i < n => i \in 1..(n - 1) BY <1>2
  <2> QED BY <1>2, <2>1, <2>2
<1> QED BY <1>2, <1>3 DEF n

\* A path that ends at a node on the way of another excuses what is illegal further on.
LEMMA EndsAbove ==
  ASSUME NEW cur \in Seq(Segments), NEW f \in Seq(Elements), NEW E, Along(cur, f),
         NEW e \in E, Along(e, f), Len(e) = Len(f), LegalUpTo(E, cur, Len(f))
  PROVE  Legal(cur) \/ \E x \in E : Excused(x, cur)
<1> SUFFICES ASSUME ~Legal(cur), \A k \in 1..Len(f) : LegalSegment(cur, k)
             PROVE  Excused(e, cur)
  BY DEF LegalUpTo
<1> DEFINE n == FirstIllegal(cur)
<1>1. n \in 1..Len(cur) /\ ~LegalSegment(cur, n) BY FirstOne
<1>2. Len(f) \in Nat /\ ~(n <= Len(f)) BY <1>1
<1>3. Len(e) < n BY <1>1, <1>2
<1>4. \A j \in 1..Len(e) : e[j].field = cur[j].field BY DEF Along
<1> HIDE DEF n
<1> QED BY <1>3, <1>4 DEF Excused, n

\* A path that goes on at the field of the next segment excuses what is illegal there,
\* when the schema has that field.
LEMMA GoesThere ==
  ASSUME NEW cur \in Seq(Segments), NEW i \in 1..Len(cur), NEW f \in Seq(Elements), Len(f) = i,
         Along(cur, f), KnownField(cur, i), NEW E, NEW e \in E, Along(e, f), LegalUpTo(E, cur, i - 1)
  PROVE  LegalUpTo(E, cur, i)
<1> SUFFICES ASSUME \A k \in 1..(i - 1) : LegalSegment(cur, k), ~LegalSegment(cur, i)
             PROVE  Excused(e, cur)
  <2>1. \A k \in 1..i : k \in 1..(i - 1) \/ k = i OBVIOUS
  <2> QED BY <2>1 DEF LegalUpTo
<1>1. FirstIllegal(cur) = i BY FirstIs
<1>2. ~(Len(e) < i) BY DEF Along
<1>3. \A j \in 1..i : e[j].field = cur[j].field BY DEF Along
<1> QED BY <1>1, <1>2, <1>3 DEF Excused

\* The functions on positions go on to a new one.
Keeps(t, F, K, u, F2, K2) ==
  \A e \in DOMAIN t : e \in DOMAIN u /\ u[e] = t[e] /\ F2[e] = F[e] /\ K2[e] = K[e]

\* There is a node more, at c.
Grew(t, F, K, u, F2, K2, c, new) ==
  Keeps(t, F, K, u, F2, K2) /\ u[c] = new /\ DOMAIN u = DOMAIN t \cup {c}

\* u is t with a new child n of d, which comes from a path of P.
Planted(t, F, K, P, d, n, new, u, f, k, F2, K2) ==
  /\ Sown(t, F, K, P) /\ d \in DOMAIN t /\ n \in Elements /\ ~HasChild(t, d, n)
  /\ Added(t, u, d, n, new) /\ f \in Seq(Elements) /\ k \in BOOLEAN
  /\ F2 = Add(F, Append(d, n), f) /\ K2 = Add(K, Append(d, n), k)
  /\ Sprouts(u, F2, K2, P, d, n) /\ TypedBy(u, f, Append(d, n))

\* Where the new child is.
LEMMA PlantedAt ==
  ASSUME NEW t, NEW F, NEW K, NEW P, NEW d, NEW n, NEW new, NEW u, NEW f, NEW k, NEW F2, NEW K2,
         Planted(t, F, K, P, d, n, new, u, f, k, F2, K2)
  PROVE  /\ F2 \in [DOMAIN u -> Seq(Elements)] /\ K2 \in [DOMAIN u -> BOOLEAN]
         /\ F2[Append(d, n)] = f /\ K2[Append(d, n)] = k /\ u[Append(d, n)] = new
         /\ DOMAIN u = DOMAIN t \cup {Append(d, n)}
         /\ Keeps(t, F, K, u, F2, K2)
<1> DEFINE c == Append(d, n)
<1>0. /\ Sown(t, F, K, P) /\ ~HasChild(t, d, n) /\ Added(t, u, d, n, new)
      /\ f \in Seq(Elements) /\ k \in BOOLEAN
      /\ F2 = Add(F, Append(d, n), f) /\ K2 = Add(K, Append(d, n), k)
  BY DEF Planted
<1> USE <1>0
<1>1. /\ DOMAIN u = DOMAIN t \cup {c} /\ u[c] = new /\ \A e \in DOMAIN t : u[e] = t[e]
  BY DEF Added
<1>2. c \notin DOMAIN t BY DEF HasChild
<1>3. F \in [DOMAIN t -> Seq(Elements)] /\ K \in [DOMAIN t -> BOOLEAN] BY DEF Sown
<1>4. /\ DOMAIN F2 = DOMAIN u /\ F2[c] = f /\ \A e \in DOMAIN t : F2[e] = F[e]
      /\ DOMAIN K2 = DOMAIN u /\ K2[c] = k /\ \A e \in DOMAIN t : K2[e] = K[e]
  <2> HIDE DEF c
  <2> QED BY <1>1, <1>2, <1>3 DEF Add, c
<1>5. F2 = [e \in DOMAIN u |-> F2[e]] /\ K2 = [e \in DOMAIN u |-> K2[e]]
  <2> HIDE DEF c
  <2> QED BY <1>1, <1>3 DEF Add, c
<1> HIDE DEF c
<1>6. F2 \in [DOMAIN u -> Seq(Elements)] /\ K2 \in [DOMAIN u -> BOOLEAN]
  <2>1. \A e \in DOMAIN u : F2[e] \in Seq(Elements) /\ K2[e] \in BOOLEAN BY <1>1, <1>3, <1>4
  <2> QED BY <1>5, <2>1
<1>7. Keeps(t, F, K, u, F2, K2) BY <1>1, <1>4 DEF Keeps
<1> QED BY <1>1, <1>4, <1>6, <1>7 DEF c

\* Such a child keeps what is known of the others.
LEMMA AddSown ==
  ASSUME NEW t, NEW F, NEW K, NEW P, NEW d, NEW n, NEW new, NEW u, NEW f, NEW k, NEW F2, NEW K2,
         Planted(t, F, K, P, d, n, new, u, f, k, F2, K2)
  PROVE  Sown(u, F2, K2, P) /\ Grew(t, F, K, u, F2, K2, Append(d, n), new)
<1>0. /\ Sown(t, F, K, P) /\ d \in DOMAIN t /\ n \in Elements /\ ~HasChild(t, d, n)
      /\ Added(t, u, d, n, new) /\ f \in Seq(Elements) /\ k \in BOOLEAN
      /\ F2 = Add(F, Append(d, n), f) /\ K2 = Add(K, Append(d, n), k)
      /\ Sprouts(u, F2, K2, P, d, n) /\ TypedBy(u, f, Append(d, n))
  BY DEF Planted
<1> DEFINE c == Append(d, n)
<1>1. /\ F2 \in [DOMAIN u -> Seq(Elements)] /\ K2 \in [DOMAIN u -> BOOLEAN]
      /\ F2[c] = f /\ K2[c] = k /\ u[c] = new
      /\ DOMAIN u = DOMAIN t \cup {c} /\ Keeps(t, F, K, u, F2, K2)
  BY PlantedAt
<1>2. /\ Rooted(u) /\ \A e \in Positions : \A m : HasChild(u, e, m) <=> HasChild(t, e, m) \/ (e = d /\ m = n)
      /\ \A m : ~HasChild(u, c, m)
  BY <1>0 DEF Added
<1>3. /\ Rooted(t) /\ F[<<>>] = <<>> /\ ~K[<<>>] /\ <<>> \in DOMAIN t /\ DOMAIN t \subseteq Positions
      /\ \A e \in DOMAIN t : TypedBy(t, F[e], e)
      /\ \A e \in DOMAIN t, m \in Elements : HasChild(t, e, m) => Sprouts(t, F, K, P, e, m)
  BY <1>0 DEF Sown, Rooted, IsTree
<1>4. TypedBy(u, f, c) /\ Sprouts(u, F2, K2, P, d, n) BY <1>0
<1>5. F2[<<>>] = <<>> /\ ~K2[<<>>] BY <1>1, <1>3 DEF Keeps
<1> HIDE DEF c
<1>6. \A e \in DOMAIN u : TypedBy(u, F2[e], e)
  <2> SUFFICES ASSUME NEW e \in DOMAIN u PROVE TypedBy(u, F2[e], e) OBVIOUS
  <2>1. CASE e = c BY <1>1, <1>4, <2>1
  <2>2. CASE e \in DOMAIN t
    <3>1. u[e] = t[e] /\ F2[e] = F[e] /\ TypedBy(t, F[e], e) BY <1>1, <1>3, <2>2 DEF Keeps
    <3> QED BY <3>1 DEF TypedBy
  <2> QED BY <1>1, <2>1, <2>2
<1>7. \A e \in DOMAIN u, m \in Elements : HasChild(u, e, m) => Sprouts(u, F2, K2, P, e, m)
  <2> SUFFICES ASSUME NEW e \in DOMAIN u, NEW m \in Elements, HasChild(u, e, m), ~(e = d /\ m = n)
               PROVE  Sprouts(u, F2, K2, P, e, m)
    BY <1>4
  <2>1. e # c BY <1>2
  <2>2. e \in DOMAIN t /\ e \in Positions BY <1>1, <1>3, <2>1
  <2>3. HasChild(t, e, m) BY <1>2, <2>2
  <2> DEFINE g == Append(e, m)
  <2>4. g \in DOMAIN t BY <2>3 DEF HasChild
  <2>5. /\ u[e] = t[e] /\ F2[e] = F[e] /\ K2[e] = K[e] /\ F2[g] = F[g] /\ K2[g] = K[g]
    BY <1>1, <2>2, <2>4 DEF Keeps
  <2>6. Sprouts(t, F, K, P, e, m) BY <1>3, <2>2, <2>3
  <2> HIDE DEF g
  <2> QED BY <2>5, <2>6 DEF Sprouts, g
<1>8. Sown(u, F2, K2, P) BY <1>1, <1>2, <1>5, <1>6, <1>7 DEF Sown
<1>9. Grew(t, F, K, u, F2, K2, c, new) BY <1>1 DEF Grew
<1> QED BY <1>8, <1>9 DEF c

\* More paths account for no less.
LEMMA SownMore ==
  ASSUME NEW t, NEW F, NEW K, NEW P, NEW P2, Sown(t, F, K, P), P \subseteq P2
  PROVE  Sown(t, F, K, P2)
<1>1. ASSUME NEW d \in DOMAIN t, NEW n \in Elements, HasChild(t, d, n)
      PROVE  Sprouts(t, F, K, P2, d, n)
  <2>1. Sprouts(t, F, K, P, d, n) BY <1>1 DEF Sown
  <2> QED BY <2>1 DEF Sprouts
<1> QED BY <1>1 DEF Sown

\* A leaf that is marked changes nothing else.
LEMMA MarkSown ==
  ASSUME NEW t, NEW F, NEW K, NEW P, NEW E, NEW d, NEW u, NEW cur,
         Sown(t, F, K, P), d \in DOMAIN t, Marked(t, d, u), Ended(t, F, E, {d}),
         Along(cur, F[d]), Len(cur) = Len(F[d])
  PROVE  Sown(u, F, K, P) /\ Ended(u, F, E \cup {cur}, {})
<1>1. /\ Rooted(t) /\ F \in [DOMAIN t -> Seq(Elements)] /\ K \in [DOMAIN t -> BOOLEAN]
      /\ F[<<>>] = <<>> /\ ~K[<<>>]
      /\ \A e \in DOMAIN t : TypedBy(t, F[e], e)
      /\ \A e \in DOMAIN t, m \in Elements : HasChild(t, e, m) => Sprouts(t, F, K, P, e, m)
  BY DEF Sown
<1>2. u = [t EXCEPT ![d].leaf = TRUE] BY DEF Marked
<1>3. /\ Rooted(u) /\ DOMAIN u = DOMAIN t
      /\ \A e \in DOMAIN t : u[e].all = t[e].all /\ u[e].type = t[e].type
      /\ \A e \in DOMAIN t : e # d => u[e] = t[e]
  BY <1>1, <1>2, LeafNodes
<1>4. \A e \in DOMAIN u : TypedBy(u, F[e], e) BY <1>1, <1>3 DEF TypedBy
<1>5. ASSUME NEW e \in DOMAIN u, NEW m \in Elements, HasChild(u, e, m) PROVE Sprouts(u, F, K, P, e, m)
  <2>1. HasChild(t, e, m) BY <1>3, <1>5 DEF HasChild
  <2>2. Sprouts(t, F, K, P, e, m) /\ u[e].all = t[e].all BY <1>1, <1>3, <2>1
  <2> QED BY <2>2 DEF Sprouts
<1>6. Sown(u, F, K, P) BY <1>1, <1>3, <1>4, <1>5 DEF Sown
<1>7. ASSUME NEW e \in DOMAIN u, u[e].leaf PROVE \E p \in E \cup {cur} : Along(p, F[e]) /\ Len(p) = Len(F[e])
  <2>1. CASE e = d BY <2>1
  <2>2. CASE e # d
    <3>1. t[e].leaf /\ e \in DOMAIN t \ {d} BY <1>3, <1>7, <2>2
    <3> QED BY <3>1 DEF Ended
  <2> QED BY <2>1, <2>2
<1> QED BY <1>6, <1>7 DEF Ended

\* What is known where a path is inserted.
LEMMA SowingParts ==
  ASSUME NEW call, NEW t, NEW F, NEW K, NEW P, NEW E, NEW cur, NEW rest, NEW d, NEW k, NEW i,
         Sowing(call, t, F, K, P, E, cur, rest, d, k, i)
  PROVE  /\ Rooted(t) /\ d \in DOMAIN t /\ d \in Positions /\ t[d].type \in Types \cup {NoType}
         /\ F[d] \in Seq(Elements) /\ Len(F[d]) = i /\ Along(cur, F[d]) /\ i \in 0..Len(cur)
         /\ cur \in P /\ cur \in Seq(Segments) /\ P \subseteq Seq(Segments) /\ E \subseteq P
         /\ TypeAfter(cur)[i] = t[d].type
         /\ F \in [DOMAIN t -> Seq(Elements)] /\ K \in [DOMAIN t -> BOOLEAN]
<1>1. /\ Sown(t, F, K, P) /\ P = E \cup {cur} /\ P \subseteq Seq(Segments)
      /\ Stands(call, t, F, K, cur, d, k, i)
  BY DEF Sowing
<1>2. /\ Rooted(t) /\ F \in [DOMAIN t -> Seq(Elements)] /\ K \in [DOMAIN t -> BOOLEAN]
      /\ \A e \in DOMAIN t : TypedBy(t, F[e], e)
  BY <1>1 DEF Sown
<1>3. d \in DOMAIN t /\ i \in 0..Len(cur) /\ Along(cur, F[d]) /\ Len(F[d]) = i BY <1>1 DEF Stands
<1>4. d \in Positions /\ IsNode(t[d]) BY <1>2, <1>3 DEF Rooted, IsTree
<1>5. t[d].type \in Types \cup {NoType} BY <1>4 DEF IsNode
<1>6. cur \in Seq(Segments) BY <1>1
<1>7. TypeAfter(cur)[i] = t[d].type BY <1>2, <1>3, <1>6 DEF TypedBy
<1> QED BY <1>1, <1>2, <1>3, <1>4, <1>5, <1>6, <1>7

\* The next segment of the path, and the field it names.
LEMMA NextSegment ==
  ASSUME NEW t, NEW F, NEW K, NEW P, NEW E, NEW cur, NEW rest, NEW d, NEW k, NEW i,
         Sowing("field", t, F, K, P, E, cur, rest, d, k, i), rest # <<>>, NEW j, j = i + 1
  PROVE  /\ j \in 1..Len(cur) /\ j - 1 = i /\ j \in Nat /\ i < Len(cur)
         /\ Head(rest) = cur[j] /\ IsRest(Tail(rest), cur, j) /\ Tail(rest) \in Seq(Segments)
         /\ cur[j].field \in Elements /\ cur[j].key \in Elements \cup {NoKey, Malformed}
         /\ KnownField(cur, j) <=>
              t[d].type # NoType /\ cur[j].key # Malformed /\ cur[j].field \in FieldNames(t[d].type)
         /\ FieldAt(cur, j) = FindChildField(t[d].type, cur[j].field)
<1>1. cur \in Seq(Segments) /\ i \in 0..Len(cur) /\ TypeAfter(cur)[i] = t[d].type BY SowingParts
<1>2. rest \in Seq(Segments) /\ IsRest(rest, cur, i) BY DEF Sowing
<1>3. i \in Nat /\ Len(cur) \in Nat /\ i < Len(cur)
  <2> HIDE DEF IsRest
  <2> QED BY <1>1, <1>2, RestEnd
<1>4. j \in 1..Len(cur) /\ j - 1 = i /\ j \in Nat BY <1>3
<1>5. Head(rest) = cur[j] /\ IsRest(Tail(rest), cur, j) BY <1>1, <1>2, RestStep
<1>6. Tail(rest) \in Seq(Segments) BY <1>2
<1>7. cur[j].field \in Elements /\ cur[j].key \in Elements \cup {NoKey, Malformed} BY <1>1, <1>4, SegmentParts
<1>8. TypeAfter(cur)[j - 1] = t[d].type BY <1>1, <1>4
<1>9. KnownField(cur, j) <=>
        t[d].type # NoType /\ cur[j].key # Malformed /\ cur[j].field \in FieldNames(t[d].type)
  BY <1>8 DEF KnownField
<1>10. FieldAt(cur, j) = FindChildField(t[d].type, cur[j].field) BY <1>8 DEF FieldAt
<1> QED BY <1>3, <1>4, <1>5, <1>6, <1>7, <1>9, <1>10

\* A path is refused at a segment that is not legal.
LEMMA RefusedPath ==
  ASSUME NEW t, NEW F, NEW K, NEW P, NEW E, NEW cur, NEW rest, NEW d, NEW k, NEW i,
         Sowing("field", t, F, K, P, E, cur, rest, d, k, i), rest # <<>>, NEW s, s = Head(rest),
         NEW f, f = FindChildField(t[d].type, s.field),
         \/ t[d].type = NoType \/ s.key = Malformed \/ s.field \notin FieldNames(t[d].type)
         \/ f.kind = "message" /\ ~f.map /\ (f.type = NoType \/ s.key # NoKey)
  PROVE  ~Legal(cur)
<1> PICK j : j = i + 1 OBVIOUS
<1>1. /\ j \in 1..Len(cur) /\ s = cur[j]
      /\ KnownField(cur, j) <=>
           t[d].type # NoType /\ cur[j].key # Malformed /\ cur[j].field \in FieldNames(t[d].type)
      /\ FieldAt(cur, j) = FindChildField(t[d].type, cur[j].field)
  BY NextSegment
<1>2. FieldAt(cur, j) = f BY <1>1
<1>3. ~LegalSegment(cur, j) BY <1>1, <1>2 DEF LegalSegment
<1> QED BY <1>1, <1>3 DEF Legal

\* A path whose insertion ends at a leaf is legal, or an earlier one excuses it.
LEMMA LeafExcuses ==
  ASSUME NEW call, NEW t, NEW F, NEW K, NEW P, NEW E, NEW cur, NEW rest, NEW d, NEW k, NEW i,
         Sowing(call, t, F, K, P, E, cur, rest, d, k, i), t[d].leaf, call = "value" \/ rest # <<>>
  PROVE  Legal(cur) \/ \E x \in E : Excused(x, cur)
<1>1. /\ d \in DOMAIN t /\ F[d] \in Seq(Elements) /\ Along(cur, F[d]) /\ Len(F[d]) = i /\ cur \in Seq(Segments)
  BY SowingParts
<1>2. NewLeaf(call, rest, d) = {} BY DEF NewLeaf
<1>3. Ended(t, F, E, {}) /\ LegalUpTo(E, cur, i) BY <1>2 DEF Sowing
<1>4. PICK e \in E : Along(e, F[d]) /\ Len(e) = Len(F[d]) BY <1>1, <1>3 DEF Ended
<1> QED BY <1>1, <1>3, <1>4, EndsAbove

\* A path that is inserted to its end is legal, or an earlier one excuses it.
LEMMA EndExcuses ==
  ASSUME NEW t, NEW F, NEW K, NEW P, NEW E, NEW cur, NEW rest, NEW d, NEW k, NEW i,
         Sowing("field", t, F, K, P, E, cur, rest, d, k, i), rest = <<>>
  PROVE  /\ Legal(cur) \/ \E x \in E : Excused(x, cur)
         /\ Len(cur) = Len(F[d])
<1>1. Len(F[d]) = i /\ cur \in Seq(Segments) BY SowingParts
<1>2. rest \in Seq(Segments) /\ IsRest(rest, cur, i) /\ LegalUpTo(E, cur, i) BY DEF Sowing
<1>3. i = Len(cur) BY <1>1, <1>2, RestEnd
<1> QED BY <1>1, <1>2, <1>3 DEF LegalUpTo, Legal

\* g are the fields f and the field n.
FieldMore(f, n, g) == f \in Seq(Elements) /\ n \in Elements /\ g = Append(f, n)

\* A path along some fields goes on with the next one.
LEMMA OneFieldOn ==
  ASSUME NEW f, NEW n, NEW g, FieldMore(f, n, g)
  PROVE  /\ g \in Seq(Elements) /\ Len(g) = Len(f) + 1 /\ Len(f) \in Nat
         /\ \A p : Along(p, g) <=> Along(p, f) /\ Len(f) + 1 <= Len(p) /\ p[Len(f) + 1].field = n
<1> PICK j : j = Len(f) + 1 OBVIOUS
<1>1. /\ g \in Seq(Elements) /\ Len(g) = j /\ Len(f) \in Nat
      /\ g[j] = n /\ \A m \in 1..Len(f) : g[m] = f[m]
  BY DEF FieldMore
<1>2. \A m : m \in 1..j <=> m \in 1..Len(f) \/ m = j BY <1>1
<1>3. ASSUME NEW p, Along(p, f), j <= Len(p), p[j].field = n PROVE Along(p, g)
  BY ONLY <1>1, <1>2, <1>3 DEF Along
<1>4. ASSUME NEW p, Along(p, g) PROVE Along(p, f) /\ j <= Len(p) /\ p[j].field = n
  <2>1. Len(g) <= Len(p) /\ \A m \in 1..j : p[m].field = g[m] BY <1>1, <1>4 DEF Along
  <2>2. p[j].field = n /\ \A m \in 1..Len(f) : p[m].field = f[m] BY <1>1, <1>2, <2>1
  <2>3. j <= Len(p) BY <1>1, <2>1
  <2> QED BY <1>1, <2>1, <2>2, <2>3 DEF Along
<1> QED BY <1>1, <1>3, <1>4

\* A path goes on at the node of a field that is there.
LEMMA FieldDescends ==
  ASSUME NEW t, NEW F, NEW K, NEW P, NEW E, NEW cur, NEW rest, NEW d, NEW k, NEW i,
         Sowing("field", t, F, K, P, E, cur, rest, d, k, i), rest # <<>>, NEW s, s = Head(rest),
         t[d].type # NoType, s.key # Malformed, s.field \in FieldNames(t[d].type),
         HasChild(t, d, s.field), NEW call, call = IF s.key = NoKey THEN "field" ELSE "value"
  PROVE  Sowing(call, t, F, K, P, E, cur, Tail(rest), Append(d, s.field), s.key, i + 1)
<1> PICK j : j = i + 1 OBVIOUS
<1> DEFINE n == s.field
           c == Append(d, n)
<1>1. /\ j \in 1..Len(cur) /\ j - 1 = i /\ j \in Nat /\ i < Len(cur) /\ s = cur[j]
      /\ IsRest(Tail(rest), cur, j) /\ Tail(rest) \in Seq(Segments) /\ n \in Elements
      /\ s.key \in Elements \cup {NoKey, Malformed} /\ KnownField(cur, j)
  <2>1. /\ j \in 1..Len(cur) /\ j - 1 = i /\ j \in Nat /\ i < Len(cur)
        /\ s = cur[j] /\ IsRest(Tail(rest), cur, j) /\ Tail(rest) \in Seq(Segments)
        /\ cur[j].field \in Elements /\ cur[j].key \in Elements \cup {NoKey, Malformed}
        /\ KnownField(cur, j) <=>
             t[d].type # NoType /\ cur[j].key # Malformed /\ cur[j].field \in FieldNames(t[d].type)
    BY NextSegment
  <2> QED BY <2>1
<1>2. /\ Rooted(t) /\ d \in DOMAIN t /\ d \in Positions /\ F[d] \in Seq(Elements) /\ Len(F[d]) = i
      /\ Along(cur, F[d]) /\ i \in 0..Len(cur) /\ cur \in P /\ cur \in Seq(Segments)
      /\ P \subseteq Seq(Segments) /\ K \in [DOMAIN t -> BOOLEAN]
  BY SowingParts
<1>3. /\ Sown(t, F, K, P) /\ P = E \cup {cur} /\ ~Clashing(P) /\ Traced(t, F, E, d)
      /\ Ended(t, F, E, {}) /\ Stands("field", t, F, K, cur, d, k, i) /\ LegalUpTo(E, cur, i)
  BY DEF Sowing, NewLeaf
<1>4. Sprouts(t, F, K, P, d, n) BY <1>1, <1>2, <1>3 DEF Sown
<1>5. c \in DOMAIN t /\ c \in Positions /\ Len(c) = Len(d) + 1
  <2>1. c \in DOMAIN t BY DEF HasChild
  <2> QED BY <1>1, <1>2, <2>1 DEF Positions
<1>6. ~K[c]
  <2> SUFFICES ASSUME K[c] PROVE FALSE OBVIOUS
  <2>1. ~K[d] /\ ~t[d].all /\ i > 0 /\ \E p \in P : Along(p, F[d]) /\ p[i].key = n
    BY <1>2, <1>4 DEF Sprouts
  <2>2. PICK p \in P : Along(p, F[d]) /\ p[i].key = n BY <2>1
  <2>3. cur[i].key = NoKey BY <1>3, <2>1 DEF Stands
  <2>4. p \in Seq(Segments) /\ i \in 1..Len(p) BY <1>2, <2>1, <2>2 DEF Along
  <2>5. \A m \in 1..i : p[m].field = cur[m].field BY <1>2, <2>2 DEF Along
  <2>6. cur[i + 1].field = p[i].key BY <1>1, <2>2
  <2> QED BY <1>1, <1>2, <1>3, <2>3, <2>4, <2>5, <2>6 DEF Clashing
<1>7. F[c] = Append(F[d], n) BY <1>4, <1>6 DEF Sprouts
<1>8. F[c] \in Seq(Elements) /\ Len(F[c]) = j /\ Along(cur, F[c])
  <2> DEFINE f == F[d]
             g == F[c]
  <2>1. /\ FieldMore(f, n, g) /\ Len(f) = i /\ Along(cur, f)
        /\ j <= Len(cur) /\ cur[j].field = n
    BY <1>1, <1>2, <1>7 DEF FieldMore
  <2> HIDE DEF f, g, n
  <2>2. g \in Seq(Elements) /\ Len(g) = j /\ Along(cur, g) BY <2>1, OneFieldOn
  <2> QED BY <1>1, <2>2 DEF g
<1>9. LegalUpTo(E, cur, j)
  <2>1. PICK e \in E : Along(e, F[c])
    <3>1. Len(c) > Len(d) BY <1>2, <1>5 DEF Positions
    <3> HIDE DEF c
    <3> QED BY <1>3, <1>5, <3>1 DEF Traced
  <2> DEFINE g == F[c]
  <2>2. /\ g \in Seq(Elements) /\ Len(g) = j /\ Along(cur, g) /\ Along(e, g) /\ LegalUpTo(E, cur, j - 1)
    BY <1>1, <1>3, <1>8, <2>1
  <2> HIDE DEF g
  <2> QED BY <1>1, <1>2, <2>2, GoesThere
<1>10. Traced(t, F, E, c)
  <2>1. \A e \in DOMAIN t : Len(e) > Len(c) => Len(e) > Len(d)
    <3>1. \A e \in DOMAIN t : Len(e) \in Nat BY <1>2 DEF Rooted, IsTree, Positions
    <3>2. Len(d) \in Nat BY <1>2 DEF Positions
    <3> HIDE DEF c
    <3> QED BY <1>5, <3>1, <3>2
  <2> HIDE DEF c
  <2> QED BY <1>3, <2>1 DEF Traced
<1>11. Ended(t, F, E, NewLeaf(call, Tail(rest), c)) BY <1>3 DEF Ended
<1>12. Stands(call, t, F, K, cur, c, s.key, j)
  <2> HIDE DEF c
  <2> QED BY <1>1, <1>5, <1>6, <1>8 DEF Stands
<1> HIDE DEF c, n
<1>13. Sowing(call, t, F, K, P, E, cur, Tail(rest), c, s.key, j)
  BY <1>1, <1>2, <1>3, <1>9, <1>10, <1>11, <1>12 DEF Sowing
<1> QED BY <1>13 DEF c, n

\* What was known of the other nodes still is when a child is added.
LEMMA AddTraces ==
  ASSUME NEW t, NEW F, NEW K, NEW P, NEW d, NEW n, NEW new, NEW u, NEW f, NEW k, NEW F2, NEW K2,
         Planted(t, F, K, P, d, n, new, u, f, k, F2, K2), NEW E, NEW D,
         Traced(t, F, E, d), Ended(t, F, E, {}), new.leaf => Append(d, n) \in D
  PROVE  /\ Traced(u, F2, E, Append(d, n)) /\ Ended(u, F2, E, D)
         /\ \A e \in DOMAIN t : Len(e) \in Nat
<1> DEFINE c == Append(d, n)
<1>0. Planted(t, F, K, P, d, n, new, u, f, k, F2, K2) OBVIOUS
<1>1. /\ Keeps(t, F, K, u, F2, K2) /\ u[c] = new /\ DOMAIN u = DOMAIN t \cup {c}
  <2>1. Grew(t, F, K, u, F2, K2, Append(d, n), new) BY ONLY <1>0, AddSown
  <2> QED BY <2>1 DEF Grew
<1>2. Rooted(t) /\ d \in DOMAIN t BY DEF Planted, Sown
<1>3. d \in Positions /\ \A e \in DOMAIN t : Len(e) \in Nat BY <1>2 DEF Rooted, IsTree, Positions
<1>4. Len(c) = Len(d) + 1 /\ Len(d) \in Nat BY <1>3 DEF Positions
<1> HIDE DEF c
<1>5. ASSUME NEW e \in DOMAIN u, Len(e) > Len(c) PROVE \E p \in E : Along(p, F2[e])
  <2>1. e # c BY <1>4, <1>5
  <2>2. e \in DOMAIN t /\ F2[e] = F[e] BY <1>1, <2>1 DEF Keeps
  <2>3. Len(e) > Len(d) BY <1>3, <1>4, <1>5, <2>2
  <2> QED BY <2>2, <2>3 DEF Traced
<1>6. ASSUME NEW e \in DOMAIN u \ D, u[e].leaf
      PROVE  \E p \in E : Along(p, F2[e]) /\ Len(p) = Len(F2[e])
  <2>1. e # c BY <1>1, <1>6 DEF c
  <2>2. e \in DOMAIN t /\ F2[e] = F[e] /\ u[e] = t[e] BY <1>1, <1>6, <2>1 DEF Keeps
  <2> QED BY <1>6, <2>2 DEF Ended
<1>7. Traced(u, F2, E, c) BY <1>5 DEF Traced
<1>8. Ended(u, F2, E, D) BY <1>6 DEF Ended
<1> QED BY <1>3, <1>7, <1>8 DEF c

\* A path goes on at a new node for a field.
LEMMA FieldAdds ==
  ASSUME NEW t, NEW F, NEW K, NEW P, NEW E, NEW cur, NEW rest, NEW d, NEW k, NEW i,
         Sowing("field", t, F, K, P, E, cur, rest, d, k, i), rest # <<>>, NEW s, s = Head(rest),
         t[d].type # NoType, s.key # Malformed, s.field \in FieldNames(t[d].type),
         ~HasChild(t, d, s.field), NEW x, x = FindChildField(t[d].type, s.field),
         x.kind = "message" /\ ~x.map => x.type # NoType /\ s.key = NoKey,
         NEW all \in BOOLEAN, NEW u,
         u = Add(t, Append(d, s.field), NewChild(x.type, s.key, all, Tail(rest))),
         NEW call, call = IF s.key = NoKey THEN "field" ELSE "value"
  PROVE  \E F2, K2 : Sowing(call, u, F2, K2, P, E, cur, Tail(rest), Append(d, s.field), s.key, i + 1)
<1> PICK j : j = i + 1 OBVIOUS
<1> DEFINE n == s.field
           c == Append(d, n)
           new == NewChild(x.type, s.key, all, Tail(rest))
<1>1. /\ j \in 1..Len(cur) /\ j - 1 = i /\ j \in Nat /\ i < Len(cur) /\ s = cur[j]
      /\ IsRest(Tail(rest), cur, j) /\ Tail(rest) \in Seq(Segments) /\ n \in Elements
      /\ s.key \in Elements \cup {NoKey, Malformed} /\ KnownField(cur, j) /\ FieldAt(cur, j) = x
  <2>1. /\ j \in 1..Len(cur) /\ j - 1 = i /\ j \in Nat /\ i < Len(cur)
        /\ s = cur[j] /\ IsRest(Tail(rest), cur, j) /\ Tail(rest) \in Seq(Segments)
        /\ cur[j].field \in Elements /\ cur[j].key \in Elements \cup {NoKey, Malformed}
        /\ KnownField(cur, j) <=>
             t[d].type # NoType /\ cur[j].key # Malformed /\ cur[j].field \in FieldNames(t[d].type)
        /\ FieldAt(cur, j) = FindChildField(t[d].type, cur[j].field)
    BY NextSegment
  <2> QED BY <2>1
<1>2. /\ Rooted(t) /\ d \in DOMAIN t /\ d \in Positions /\ F[d] \in Seq(Elements) /\ Len(F[d]) = i
      /\ Along(cur, F[d]) /\ i \in 0..Len(cur) /\ cur \in P /\ cur \in Seq(Segments)
      /\ P \subseteq Seq(Segments) /\ t[d].type \in Types \cup {NoType}
  BY SowingParts
<1>3. /\ Sown(t, F, K, P) /\ P = E \cup {cur} /\ ~Clashing(P) /\ Traced(t, F, E, d)
      /\ Ended(t, F, E, {}) /\ Stands("field", t, F, K, cur, d, k, i) /\ LegalUpTo(E, cur, i)
  BY DEF Sowing, NewLeaf
<1>4. IsNode(new)
  <2>1. x \in FieldRecord BY <1>2, KnownChild
  <2>2. x.type \in Types \cup {NoType} BY <2>1 DEF FieldRecord
  <2> QED BY <2>2 DEF IsNode, NewChild, Node
<1>5. Added(t, u, d, n, new)
  <2>1. u = Add(t, c, new) OBVIOUS
  <2>2. ~HasChild(t, d, n) OBVIOUS
  <2> HIDE DEF new, n
  <2> QED BY <1>1, <1>2, <1>4, <2>1, <2>2, AddNodes
<1>6. new.type = x.type /\ (new.leaf <=> s.key = NoKey /\ Tail(rest) = <<>>)
  BY DEF NewChild, Node
<1> DEFINE g == Append(F[d], n)
           F2 == Add(F, c, g)
           K2 == Add(K, c, FALSE)
<1>7. /\ g \in Seq(Elements) /\ Len(g) = j
      /\ \A p : Along(p, g) <=> Along(p, F[d]) /\ j <= Len(p) /\ p[j].field = n
  <2>1. FieldMore(F[d], n, g) BY <1>1, <1>2 DEF FieldMore
  <2> HIDE DEF g
  <2> QED BY <1>2, <2>1, OneFieldOn
<1>8. Along(cur, g) BY <1>1, <1>2, <1>7
<1>9. TypedBy(u, g, c)
  <2> SUFFICES ASSUME NEW p \in Seq(Segments), Along(p, g) PROVE TypeAfter(p)[j] = u[c].type
    BY <1>7 DEF TypedBy
  <2>1. Along(p, F[d]) /\ j <= Len(p) /\ p[j].field = n BY <1>7
  <2>2. TypeAfter(p)[i] = t[d].type BY <1>2, <1>3, <2>1 DEF Sown, TypedBy
  <2>3. j \in 1..Len(p) BY <1>1, <2>1
  <2>4. TypeAfter(p)[j] = BelowField(TypeAfter(p)[j - 1], p[j].field) BY <2>3, TypeSteps
  <2>5. TypeAfter(p)[j] = x.type BY <1>1, <2>1, <2>2, <2>4 DEF BelowField
  <2> QED BY <1>5, <1>6, <2>5 DEF Added
<1> HIDE DEF c, n, new
<1>10. /\ c \notin DOMAIN t /\ F \in [DOMAIN t -> Seq(Elements)] /\ K \in [DOMAIN t -> BOOLEAN]
       /\ u[d] = t[d]
  BY <1>2, <1>3, <1>5 DEF c, n, HasChild, Sown, Added
<1>11. F2[c] = g /\ F2[d] = F[d] /\ ~K2[c] /\ K2[d] = K[d] BY <1>2, <1>10 DEF Add
<1> HIDE DEF F2, K2, g
<1>12. Sprouts(u, F2, K2, P, d, n)
  <2>1. i = 0 \/ K[d] \/ t[d].all \/ cur[i].key = NoKey BY <1>3 DEF Stands
  <2>2. F2[c] = Append(F2[d], n) BY <1>11 DEF g
  <2> QED BY <1>2, <1>8, <1>10, <1>11, <2>1, <2>2 DEF Sprouts, c
<1>13. Planted(t, F, K, P, d, n, new, u, g, FALSE, F2, K2)
  BY <1>1, <1>2, <1>3, <1>5, <1>7, <1>9, <1>12 DEF Planted, F2, K2, c, n
<1>14. Sown(u, F2, K2, P) /\ c \in DOMAIN u
  <2>1. Sown(u, F2, K2, P) /\ Grew(t, F, K, u, F2, K2, Append(d, n), new) BY ONLY <1>13, AddSown
  <2> QED BY <2>1 DEF Grew, c
<1>15. Traced(u, F2, E, c) /\ Ended(u, F2, E, NewLeaf(call, Tail(rest), c))
  <2> DEFINE D == NewLeaf(call, Tail(rest), c)
  <2>1. new.leaf => Append(d, n) \in D BY <1>6 DEF NewLeaf, c
  <2>2. Traced(t, F, E, d) /\ Ended(t, F, E, {}) BY <1>3
  <2> HIDE DEF D
  <2>3. Traced(u, F2, E, Append(d, n)) /\ Ended(u, F2, E, D) BY ONLY <1>13, <2>1, <2>2, AddTraces
  <2> QED BY <2>3 DEF D, c
<1>16. LegalUpTo(E, cur, j)
  <2>1. LegalSegment(cur, j) BY <1>1 DEF LegalSegment
  <2>2. \A m \in 1..j : m \in 1..i \/ m = j BY <1>1
  <2> QED BY <1>3, <2>1, <2>2 DEF LegalUpTo
<1>17. Stands(call, u, F2, K2, cur, c, s.key, j)
  BY <1>1, <1>7, <1>8, <1>11, <1>14 DEF Stands
<1>18. Sowing(call, u, F2, K2, P, E, cur, Tail(rest), c, s.key, j)
  BY <1>1, <1>2, <1>3, <1>14, <1>15, <1>16, <1>17 DEF Sowing
<1> QED BY <1>18 DEF c, n

\* A path goes on below all keys of the map.
LEMMA AllKeysGoOn ==
  ASSUME NEW t, NEW F, NEW K, NEW P, NEW E, NEW cur, NEW rest, NEW d, NEW k, NEW i,
         Sowing("value", t, F, K, P, E, cur, rest, d, k, i), t[d].all, NEW k2
  PROVE  Sowing("field", t, F, K, P, E, cur, rest, d, k2, i)
<1>1. /\ Sown(t, F, K, P) /\ P = E \cup {cur} /\ P \subseteq Seq(Segments) /\ ~Clashing(P)
      /\ rest \in Seq(Segments) /\ Traced(t, F, E, d) /\ Ended(t, F, E, {})
      /\ Stands("value", t, F, K, cur, d, k, i) /\ IsRest(rest, cur, i) /\ LegalUpTo(E, cur, i)
  BY DEF Sowing, NewLeaf
<1>2. Ended(t, F, E, NewLeaf("field", rest, d)) BY <1>1 DEF Ended
<1>3. NoKey \notin Elements BY SchemaAssumption
<1>4. Stands("field", t, F, K, cur, d, k2, i) BY <1>1, <1>3 DEF Stands
<1> QED BY <1>1, <1>2, <1>4 DEF Sowing

\* A path goes on at the node of its key.
LEMMA KeyDescends ==
  ASSUME NEW t, NEW F, NEW K, NEW P, NEW E, NEW cur, NEW rest, NEW d, NEW k, NEW i,
         Sowing("value", t, F, K, P, E, cur, rest, d, k, i), ~t[d].all, HasChild(t, d, k), NEW k2
  PROVE  Sowing("field", t, F, K, P, E, cur, rest, Append(d, k), k2, i)
<1> DEFINE c == Append(d, k)
<1>1. /\ Sown(t, F, K, P) /\ P = E \cup {cur} /\ P \subseteq Seq(Segments) /\ ~Clashing(P)
      /\ rest \in Seq(Segments) /\ Traced(t, F, E, d) /\ Ended(t, F, E, {})
      /\ Stands("value", t, F, K, cur, d, k, i) /\ IsRest(rest, cur, i) /\ LegalUpTo(E, cur, i)
  BY DEF Sowing, NewLeaf
<1>2. /\ Rooted(t) /\ d \in DOMAIN t /\ d \in Positions /\ F[d] \in Seq(Elements) /\ Len(F[d]) = i
      /\ Along(cur, F[d]) /\ i \in 0..Len(cur) /\ cur \in P /\ cur \in Seq(Segments)
      /\ P \subseteq Seq(Segments) /\ K \in [DOMAIN t -> BOOLEAN]
  BY SowingParts
<1>3. i > 0 /\ cur[i].key = k /\ k \in Elements /\ ~K[d] BY <1>1 DEF Stands
<1>4. Sprouts(t, F, K, P, d, k) BY <1>1, <1>2, <1>3 DEF Sown
<1>5. c \in DOMAIN t /\ Len(c) = Len(d) + 1 /\ Len(d) \in Nat
  <2>1. c \in DOMAIN t BY DEF HasChild
  <2> QED BY <1>2, <2>1 DEF Positions
<1>6. K[c]
  <2> SUFFICES ASSUME ~K[c] PROVE FALSE OBVIOUS
  <2>1. /\ F[c] = Append(F[d], k)
        /\ \E p \in P : Along(p, F[c]) /\ (i = 0 \/ K[d] \/ t[d].all \/ p[i].key = NoKey)
    BY <1>2, <1>4 DEF Sprouts
  <2>2. PICK p \in P : Along(p, F[c]) /\ p[i].key = NoKey BY <1>3, <2>1
  <2>3. FieldMore(F[d], k, F[c]) BY <1>2, <1>3, <2>1 DEF FieldMore
  <2>4. Along(p, F[d]) /\ i + 1 <= Len(p) /\ p[i + 1].field = k BY <1>2, <2>2, <2>3, OneFieldOn
  <2>5. \A m \in 1..i : cur[m].field = p[m].field BY <1>2, <2>4 DEF Along
  <2>6. i \in 1..Len(cur) /\ i < Len(p) BY <1>2, <1>3, <2>4
  <2>7. p[i + 1].field = cur[i].key BY <1>3, <2>4
  <2> QED BY <1>1, <1>2, <2>2, <2>5, <2>6, <2>7 DEF Clashing
<1>7. F[c] = F[d] BY <1>4, <1>6 DEF Sprouts
<1>8. Traced(t, F, E, c)
  <2>1. \A e \in DOMAIN t : Len(e) \in Nat BY <1>2 DEF Rooted, IsTree, Positions
  <2> HIDE DEF c
  <2>2. \A e \in DOMAIN t : Len(e) > Len(c) => Len(e) > Len(d) BY <1>5, <2>1
  <2> QED BY <1>1, <2>2 DEF Traced
<1>9. Ended(t, F, E, NewLeaf("field", rest, c)) BY <1>1 DEF Ended
<1>10. NoKey \notin Elements BY SchemaAssumption
<1> HIDE DEF c
<1>11. Stands("field", t, F, K, cur, c, k2, i) BY <1>2, <1>3, <1>5, <1>6, <1>7, <1>10 DEF Stands
<1>12. Sowing("field", t, F, K, P, E, cur, rest, c, k2, i) BY <1>1, <1>8, <1>9, <1>11 DEF Sowing
<1> QED BY <1>12 DEF c

\* A path goes on at a new node for its key.
LEMMA KeyAdds ==
  ASSUME NEW t, NEW F, NEW K, NEW P, NEW E, NEW cur, NEW rest, NEW d, NEW k, NEW i,
         Sowing("value", t, F, K, P, E, cur, rest, d, k, i), ~t[d].all, ~HasChild(t, d, k), NEW k2,
         NEW u, u = Add(t, Append(d, k), NewChild(t[d].type, NoKey, FALSE, rest))
  PROVE  \E F2, K2 : Sowing("field", u, F2, K2, P, E, cur, rest, Append(d, k), k2, i)
<1> DEFINE c == Append(d, k)
           new == NewChild(t[d].type, NoKey, FALSE, rest)
           g == F[d]
           F2 == Add(F, c, g)
           K2 == Add(K, c, TRUE)
<1>1. /\ Sown(t, F, K, P) /\ P = E \cup {cur} /\ P \subseteq Seq(Segments) /\ ~Clashing(P)
      /\ rest \in Seq(Segments) /\ Traced(t, F, E, d) /\ Ended(t, F, E, {})
      /\ Stands("value", t, F, K, cur, d, k, i) /\ IsRest(rest, cur, i) /\ LegalUpTo(E, cur, i)
  BY DEF Sowing, NewLeaf
<1>2. /\ Rooted(t) /\ d \in DOMAIN t /\ d \in Positions /\ g \in Seq(Elements) /\ Len(g) = i
      /\ Along(cur, g) /\ i \in 0..Len(cur) /\ cur \in P /\ cur \in Seq(Segments)
      /\ P \subseteq Seq(Segments) /\ t[d].type \in Types \cup {NoType}
  BY SowingParts
<1>3. i > 0 /\ cur[i].key = k /\ k \in Elements /\ ~K[d] BY <1>1 DEF Stands
<1>4. IsNode(new) /\ new.type = t[d].type /\ (new.leaf <=> rest = <<>>)
  BY <1>2 DEF IsNode, NewChild, Node
<1>5. Added(t, u, d, k, new)
  <2>1. u = Add(t, c, new) OBVIOUS
  <2> HIDE DEF new
  <2> QED BY <1>2, <1>3, <1>4, <2>1, AddNodes
<1>6. TypedBy(u, g, c)
  <2>1. \A p \in Seq(Segments) : Along(p, g) => TypeAfter(p)[Len(g)] = t[d].type
    BY <1>1, <1>2 DEF Sown, TypedBy
  <2>2. u[c] = new BY <1>5 DEF Added
  <2> HIDE DEF new, c, g
  <2> QED BY <1>4, <2>1, <2>2 DEF TypedBy
<1> HIDE DEF c, new
<1>7. /\ c \notin DOMAIN t /\ F \in [DOMAIN t -> Seq(Elements)] /\ K \in [DOMAIN t -> BOOLEAN]
      /\ u[d] = t[d]
  BY <1>1, <1>2, <1>5 DEF c, HasChild, Sown, Added
<1>8. F2[c] = F[d] /\ F2[d] = F[d] /\ K2[c] /\ K2[d] = K[d] BY <1>2, <1>7 DEF Add
<1> HIDE DEF F2, K2
<1>9. Sprouts(u, F2, K2, P, d, k) BY <1>2, <1>3, <1>7, <1>8 DEF Sprouts, c
<1>10. Planted(t, F, K, P, d, k, new, u, g, TRUE, F2, K2)
  BY <1>1, <1>2, <1>3, <1>5, <1>6, <1>9 DEF Planted, F2, K2, c
<1> HIDE DEF g
<1>11. Sown(u, F2, K2, P) /\ c \in DOMAIN u
  <2>1. Sown(u, F2, K2, P) /\ Grew(t, F, K, u, F2, K2, Append(d, k), new) BY ONLY <1>10, AddSown
  <2> QED BY <2>1 DEF Grew, c
<1>12. Traced(u, F2, E, c) /\ Ended(u, F2, E, NewLeaf("field", rest, c))
  <2> DEFINE D == NewLeaf("field", rest, c)
  <2>1. new.leaf => Append(d, k) \in D BY <1>4 DEF NewLeaf, c
  <2>2. Traced(t, F, E, d) /\ Ended(t, F, E, {}) BY <1>1
  <2> HIDE DEF D
  <2>3. Traced(u, F2, E, Append(d, k)) /\ Ended(u, F2, E, D) BY ONLY <1>10, <2>1, <2>2, AddTraces
  <2> QED BY <2>3 DEF D, c
<1>13. NoKey \notin Elements BY SchemaAssumption
<1>14. Stands("field", u, F2, K2, cur, c, k2, i)
  <2>1. Along(cur, F2[c]) /\ Len(F2[c]) = i BY <1>2, <1>8 DEF g
  <2> QED BY <1>2, <1>3, <1>8, <1>11, <1>13, <2>1 DEF Stands
<1>15. Sowing("field", u, F2, K2, P, E, cur, rest, c, k2, i)
  BY <1>1, <1>11, <1>12, <1>14 DEF Sowing
<1> QED BY <1>15 DEF c

\* At the root every deeper node comes from the paths inserted before.
LEMMA SownTraced ==
  ASSUME NEW t, NEW F, NEW K, NEW E, Sown(t, F, K, E)
  PROVE  Traced(t, F, E, <<>>)
<1> SUFFICES ASSUME NEW d \in DOMAIN t, Len(d) > Len(<<>>) PROVE \E p \in E : Along(p, F[d])
  BY DEF Traced
<1>1. Rooted(t) /\ \A e \in DOMAIN t, n \in Elements : HasChild(t, e, n) => Sprouts(t, F, K, E, e, n)
  BY DEF Sown
<1>2. d \in Positions /\ d # <<>> BY <1>1 DEF Rooted, IsTree, Positions
<1>3. PICK e \in Positions, n \in Elements : d = Append(e, n) BY <1>2, AboveNode
<1>4. HasChild(t, e, n) BY <1>3 DEF HasChild
<1>5. e \in DOMAIN t BY <1>1, <1>4 DEF Rooted
<1>6. Sprouts(t, F, K, E, e, n) BY <1>1, <1>4, <1>5
<1> QED BY <1>3, <1>6 DEF Sprouts

\* A path is inserted from the root.
LEMMA SowingBegins ==
  ASSUME NEW t, NEW F, NEW K, NEW P, NEW E, NEW cur, NEW k,
         Sown(t, F, K, E), Ended(t, F, E, {}), P = E \cup {cur}, P \subseteq Seq(Segments), ~Clashing(P)
  PROVE  Sowing("field", t, F, K, P, E, cur, cur, <<>>, k, 0)
<1>1. Sown(t, F, K, P) BY SownMore
<1>2. Traced(t, F, E, <<>>) BY SownTraced
<1>3. Ended(t, F, E, NewLeaf("field", cur, <<>>)) BY DEF Ended
<1>4. cur \in Seq(Segments) OBVIOUS
<1>5. <<>> \in DOMAIN t /\ F[<<>>] = <<>> BY DEF Sown, Rooted
<1>6. Along(cur, F[<<>>]) /\ Len(F[<<>>]) = 0 /\ 0 \in 0..Len(cur) BY <1>4, <1>5 DEF Along
<1>7. Stands("field", t, F, K, cur, <<>>, k, 0) BY <1>5, <1>6 DEF Stands
<1>8. IsRest(cur, cur, 0) BY <1>4 DEF IsRest
<1>9. LegalUpTo(E, cur, 0) BY DEF LegalUpTo
<1> QED BY <1>1, <1>2, <1>3, <1>4, <1>7, <1>8, <1>9 DEF Sowing

-------------------------------------------------------------------------------
(* Which lists are accepted                                                   *)

\* A list in which no key is taken for a field.
Plain == ~Confused(paths) /\ paths # <<>>

\* The paths of the list up to the n-th are legal or excused by earlier ones.
AcceptedUpTo(n) ==
  \A i \in 1..n : Legal(paths[i]) \/ \E j \in 1..(i - 1) : Excused(paths[j], paths[i])

\* The tree of the first paths of the list.
Planting == \E F, K : Sown(node, F, K, Listed(inserted)) /\ Ended(node, F, Listed(inserted), {})

\* The tree in which the next path of the list is being inserted.
PathGrows ==
  \E F, K, i : Sowing(pc, node, F, K, Listed(inserted), Listed(inserted - 1), paths[inserted],
                      segs, at, key, i)

\* What is known of the paths taken so far.
SowInv ==
  Busy /\ Plain =>
    /\ pc = "next" => Planting /\ AcceptedUpTo(inserted)
    /\ Inserts => inserted > 0 /\ PathGrows /\ AcceptedUpTo(inserted - 1)
    /\ pc = "intersect" => AcceptedUpTo(inserted) /\ inserted = Len(paths)

\* The paths of a list that is not confused.
LEMMA PlainPaths ==
  ASSUME IInv, Plain, NEW n \in 0..Len(paths)
  PROVE  /\ Listed(n) \subseteq Seq(Segments) /\ ~Clashing(Listed(n))
         /\ n > 0 => Listed(n) = Listed(n - 1) \cup {paths[n]}
         /\ n = 0 => Listed(n) = {}
<1>1. paths \in Seq(Seq(Segments)) BY DEF IInv, TypeOK, PathsArgument
<1>2. Listed(n) \subseteq PathsOf(paths) BY <1>1 DEF Listed, PathsOf
<1>3. PathsOf(paths) \subseteq Seq(Segments) BY <1>1 DEF PathsOf
<1>4. ~Clashing(PathsOf(paths)) BY DEF Plain, Confused, Clashing
<1>5. ~Clashing(Listed(n)) BY <1>2, <1>4 DEF Clashing
<1>6. ASSUME n > 0 PROVE Listed(n) = Listed(n - 1) \cup {paths[n]}
  <2>1. n \in Nat /\ 1..n = (1..(n - 1)) \cup {n} BY <1>6
  <2> QED BY <2>1 DEF Listed
<1> QED BY <1>2, <1>3, <1>5, <1>6 DEF Listed

\* A new tree comes from no path.
LEMMA StartSow ==
  ASSUME IInv, NEW list \in PathLists, AddOrIntersectFieldPaths(list)
  PROVE  SowInv'
<1>1. /\ paths' = list /\ pc' = "next" /\ inserted' = 0
      /\ node' = [p \in {<<>>} |-> Node(RootType, list = <<>>, FALSE, FALSE)]
  BY DEF AddOrIntersectFieldPaths, IInv, Idle
<1>2. ASSUME list # <<>> PROVE Planting'
  <2> DEFINE t == node'
             F == [p \in {<<>>} |-> <<>>]
             K == [p \in {<<>>} |-> FALSE]
  <2>1. Listed(inserted)' = {} BY <1>1 DEF Listed
  <2>2. /\ DOMAIN t = {<<>>} /\ t[<<>>].type = RootType /\ ~t[<<>>].leaf
        /\ IsNode(t[<<>>]) /\ t = [p \in DOMAIN t |-> t[p]]
    BY <1>1, <1>2, SchemaAssumption DEF IsNode, Node
  <2> HIDE DEF t
  <2>3. \A p \in Positions : \A n : ~HasChild(t, p, n) BY <2>2 DEF HasChild, Positions
  <2>4. <<>> \in Positions BY DEF Positions
  <2>5. Rooted(t) BY <2>2, <2>3, <2>4 DEF Rooted, IsTree
  <2>6. /\ F[<<>>] = <<>> /\ F \in [DOMAIN t -> Seq(Elements)] /\ ~K[<<>>] /\ K \in [DOMAIN t -> BOOLEAN]
    BY <2>2
  <2>7. \A p \in DOMAIN t : \A n : ~HasChild(t, p, n) BY <2>2, <2>3, <2>4
  <2>8. TypedBy(t, <<>>, <<>>)
    <3>1. \A p \in Seq(Segments) : TypeAfter(p)[0] = RootType BY TypeSteps
    <3> QED BY <2>2, <3>1 DEF TypedBy
  <2> HIDE DEF F, K
  <2>9. \A d \in DOMAIN t : TypedBy(t, F[d], d) BY <2>2, <2>6, <2>8
  <2>10. Sown(t, F, K, {}) BY <2>5, <2>6, <2>7, <2>9 DEF Sown
  <2>11. Ended(t, F, {}, {}) BY <2>2 DEF Ended
  <2> QED BY <2>1, <2>10, <2>11 DEF Planting, t
<1>3. AcceptedUpTo(inserted)' BY <1>1 DEF AcceptedUpTo
<1>4. paths' = list BY <1>1
<1> QED BY <1>1, <1>2, <1>3 DEF SowInv, Plain, Inserts

\* The next path is inserted from the root.
LEMMA NextPathSow ==
  ASSUME IInv, SowInv, Plain, NextPath
  PROVE  SowInv'
<1>1. /\ pc = "next" /\ inserted < Len(paths) /\ paths \in Seq(Seq(Segments)) /\ inserted \in Nat
      /\ segs' = paths[inserted + 1] /\ inserted' = inserted + 1 /\ at' = <<>> /\ pc' = "field"
      /\ node' = node /\ paths' = paths
  BY DEF NextPath, IInv, TypeOK, PathsArgument
<1> DEFINE n == inserted + 1
           cur == paths[n]
<1>2. n \in 0..Len(paths) /\ n > 0 /\ n - 1 = inserted BY <1>1
<1>3. /\ Listed(n) \subseteq Seq(Segments) /\ ~Clashing(Listed(n))
      /\ Listed(n) = Listed(inserted) \cup {cur}
  BY <1>2, PlainPaths
<1>4. Planting /\ AcceptedUpTo(inserted) BY <1>1 DEF SowInv, Busy
<1>5. PICK F, K : Sown(node, F, K, Listed(inserted)) /\ Ended(node, F, Listed(inserted), {})
  BY <1>4 DEF Planting
<1>6. Sowing("field", node, F, K, Listed(n), Listed(inserted), cur, cur, <<>>, key', 0)
  <2> DEFINE P == Listed(n)
             E == Listed(inserted)
  <2>1. /\ Sown(node, F, K, E) /\ Ended(node, F, E, {}) /\ P = E \cup {cur}
        /\ P \subseteq Seq(Segments) /\ ~Clashing(P)
    BY <1>3, <1>5
  <2> HIDE DEF P, E, n, cur
  <2>2. Sowing("field", node, F, K, P, E, cur, cur, <<>>, key', 0) BY <2>1, SowingBegins
  <2> QED BY <2>2 DEF P, E
<1>7. /\ Listed(n) = Listed(inserted)' /\ Listed(inserted) = Listed(inserted - 1)' /\ cur = paths[inserted]'
      /\ segs' = cur
  BY <1>1, <1>2 DEF Listed
<1>8. PathGrows' BY <1>1, <1>6, <1>7 DEF PathGrows
<1>9. AcceptedUpTo(inserted - 1)' BY <1>1, <1>2, <1>4 DEF AcceptedUpTo
<1>10. inserted' > 0 /\ pc' = "field" BY <1>1, <1>2
<1> QED BY <1>8, <1>9, <1>10 DEF SowInv, Inserts

\* What is known while a path is inserted.
LEMMA WhileInserting ==
  ASSUME IInv, SowInv, Plain, Inserts
  PROVE  /\ inserted \in 1..Len(paths) /\ PathGrows /\ AcceptedUpTo(inserted - 1)
         /\ paths[inserted] \in Listed(inserted)
         /\ Listed(inserted) = Listed(inserted - 1) \cup {paths[inserted]}
         /\ segs \in Seq(Segments)
<1>1. Busy BY DEF Inserts, Busy
<1>2. inserted \in 0..Len(paths) /\ segs \in Seq(Segments) BY DEF IInv, TypeOK
<1>3. inserted > 0 /\ PathGrows /\ AcceptedUpTo(inserted - 1) BY <1>1 DEF SowInv
<1>4. Listed(inserted) = Listed(inserted - 1) \cup {paths[inserted]} BY <1>2, <1>3, PlainPaths
<1> QED BY <1>2, <1>3, <1>4

\* A path that is legal or excused ends.
LEMMA PathEndSows ==
  ASSUME IInv, SowInv, Plain, Inserts, EndPath,
         NEW cur, cur = paths[inserted], NEW E, E = Listed(inserted - 1),
         Legal(cur) \/ \E x \in E : Excused(x, cur),
         \E F, K : Sown(node', F, K, Listed(inserted)) /\ Ended(node', F, E \cup {cur}, {})
  PROVE  SowInv'
<1>1. /\ inserted \in 1..Len(paths) /\ AcceptedUpTo(inserted - 1) /\ Listed(inserted) = E \cup {cur}
  BY WhileInserting
<1>2. pc' = "next" /\ paths' = paths /\ inserted' = inserted BY DEF EndPath
<1>3. Planting' BY <1>1, <1>2 DEF Planting, Listed
<1>4. AcceptedUpTo(inserted)
  <2> SUFFICES ASSUME NEW i \in 1..inserted
               PROVE  Legal(paths[i]) \/ \E j \in 1..(i - 1) : Excused(paths[j], paths[i])
    BY DEF AcceptedUpTo
  <2>1. CASE i = inserted BY <2>1 DEF Listed
  <2>2. CASE i # inserted
    <3>1. i \in 1..(inserted - 1) BY <1>1, <2>2
    <3> QED BY <1>1, <3>1 DEF AcceptedUpTo
  <2> QED BY <2>1, <2>2
<1>5. AcceptedUpTo(inserted)' BY <1>2, <1>4 DEF AcceptedUpTo
<1> QED BY <1>2, <1>3, <1>5 DEF SowInv, Inserts

\* A path goes on.
LEMMA PathOnSows ==
  ASSUME IInv, SowInv, Plain, Inserts, paths' = paths, inserted' = inserted, Inserts',
         \E F, K, i : Sowing(pc', node', F, K, Listed(inserted), Listed(inserted - 1), paths[inserted],
                             segs', at', key', i)
  PROVE  SowInv'
<1>1. inserted \in 1..Len(paths) /\ AcceptedUpTo(inserted - 1) BY WhileInserting
<1>2. Listed(inserted)' = Listed(inserted) /\ Listed(inserted - 1)' = Listed(inserted - 1) BY DEF Listed
<1>3. paths[inserted]' = paths[inserted] OBVIOUS
<1>4. PathGrows' BY <1>2, <1>3 DEF PathGrows
<1>5. AcceptedUpTo(inserted - 1)' BY <1>1 DEF AcceptedUpTo
<1>6. inserted' > 0 /\ pc' # "next" /\ pc' # "intersect" BY <1>1 DEF Inserts
<1> QED BY <1>4, <1>5, <1>6 DEF SowInv

\* A call that finds or makes the end of its path.
LEMMA FieldEndSow ==
  ASSUME IInv, SowInv, Plain, MarkLeaf \/ AlreadyCovered \/ ValueCovered
  PROVE  SowInv'
<1> DEFINE P == Listed(inserted)
           E == Listed(inserted - 1)
           cur == paths[inserted]
<1>1. Inserts /\ EndPath
  BY DEF MarkLeaf, AlreadyCovered, ValueCovered, InField, InValue, Inserts
<1>2. P = E \cup {cur} /\ PathGrows BY <1>1, WhileInserting
<1>3. PICK F, K, i : Sowing(pc, node, F, K, P, E, cur, segs, at, key, i) BY <1>2 DEF PathGrows
<1> HIDE DEF P, E, cur
<1>4. Sown(node, F, K, P) /\ Ended(node, F, E, NewLeaf(pc, segs, at)) BY <1>3 DEF Sowing
<1>5. at \in DOMAIN node /\ Along(cur, F[at]) BY <1>3, SowingParts
<1>6. CASE MarkLeaf
  <2>1. pc = "field" /\ segs = <<>> /\ Marked(node, at, node') BY <1>6 DEF MarkLeaf, InField, Marked
  <2>2. Sowing("field", node, F, K, P, E, cur, segs, at, key, i) BY <1>3, <2>1
  <2>3. (Legal(cur) \/ \E x \in E : Excused(x, cur)) /\ Len(cur) = Len(F[at]) BY <2>1, <2>2, EndExcuses
  <2>4. NewLeaf(pc, segs, at) = {at} BY <2>1 DEF NewLeaf
  <2>5. Ended(node, F, E, {at}) BY <1>4, <2>4
  <2> DEFINE u == node'
  <2>6. Marked(node, at, u) BY <2>1
  <2> HIDE DEF u
  <2>7. Sown(u, F, K, P) /\ Ended(u, F, E \cup {cur}, {}) BY <1>4, <1>5, <2>3, <2>5, <2>6, MarkSown
  <2> QED BY <1>1, <2>3, <2>7, PathEndSows DEF u, P, E, cur
<1>7. CASE AlreadyCovered \/ ValueCovered
  <2>1. node' = node /\ node[at].leaf /\ (pc = "value" \/ segs # <<>>)
    BY <1>7 DEF AlreadyCovered, ValueCovered, This, InValue
  <2>2. Legal(cur) \/ \E x \in E : Excused(x, cur) BY <1>3, <2>1, LeafExcuses
  <2>3. NewLeaf(pc, segs, at) = {} BY <2>1 DEF NewLeaf
  <2>4. Ended(node, F, E \cup {cur}, {}) BY <1>4, <2>3 DEF Ended
  <2> QED BY <1>1, <1>4, <2>1, <2>2, <2>4, PathEndSows DEF P, E, cur
<1> QED BY <1>6, <1>7

\* A call of InsertField() that goes on at a child.
LEMMA FieldOnSow ==
  ASSUME IInv, SowInv, Plain, DescendToChild \/ AddFieldChild
  PROVE  SowInv'
<1> DEFINE P == Listed(inserted)
           E == Listed(inserted - 1)
           cur == paths[inserted]
           s == Head(segs)
<1>1. /\ pc = "field" /\ Inserts /\ segs # <<>> /\ node[at].type # NoType
      /\ s.key # Malformed /\ s.field \in FieldNames(node[at].type)
      /\ at' = Append(at, s.field) /\ segs' = Tail(segs) /\ key' = s.key
      /\ pc' = IF s.key = NoKey THEN "field" ELSE "value"
      /\ paths' = paths /\ inserted' = inserted
  BY DEF DescendToChild, AddFieldChild, NewField, FieldFound, Searching, InField, Inserts, This, Seg, CallChild
<1>2. PICK F, K, i : Sowing("field", node, F, K, P, E, cur, segs, at, key, i)
  BY <1>1, WhileInserting DEF PathGrows
<1> HIDE DEF P, E, cur
<1>3. \E F2, K2, i2 : Sowing(pc', node', F2, K2, P, E, cur, segs', at', key', i2)
  <2>1. CASE DescendToChild
    <3>1. HasChild(node, at, s.field) /\ node' = node BY <2>1 DEF DescendToChild, Seg
    <3>2. PICK call : call = IF s.key = NoKey THEN "field" ELSE "value" OBVIOUS
    <3>3. Sowing(call, node, F, K, P, E, cur, Tail(segs), Append(at, s.field), s.key, i + 1)
      BY <1>1, <1>2, <3>1, <3>2, FieldDescends
    <3> QED BY <1>1, <3>1, <3>2, <3>3
  <2>2. CASE AddFieldChild
    <3> DEFINE x == FindChildField(node[at].type, s.field)
               all == x.map /\ s.key = NoKey
               u == node'
    <3>1. /\ ~HasChild(node, at, s.field)
          /\ x.kind = "message" /\ ~x.map => x.type # NoType /\ s.key = NoKey
          /\ u = Add(node, Append(at, s.field), NewChild(x.type, s.key, all, Tail(segs)))
      BY <2>2 DEF AddFieldChild, NewField, ChildField, This, Seg
    <3>2. PICK call : call = IF s.key = NoKey THEN "field" ELSE "value" OBVIOUS
    <3>3. all \in BOOLEAN OBVIOUS
    <3> HIDE DEF all, u
    <3>4. \E F2, K2 : Sowing(call, u, F2, K2, P, E, cur, Tail(segs), Append(at, s.field), s.key, i + 1)
      BY <1>1, <1>2, <3>1, <3>2, <3>3, FieldAdds
    <3> QED BY <1>1, <3>2, <3>4 DEF u
  <2> QED BY <2>1, <2>2
<1>4. Inserts' BY <1>1 DEF Inserts
<1> QED BY <1>1, <1>3, <1>4, PathOnSows DEF P, E, cur

\* A call of InsertValueField() that goes on.
LEMMA ValueOnSow ==
  ASSUME IInv, SowInv, Plain, ValueOfAllKeys \/ DescendToKey \/ AddKeyChild
  PROVE  SowInv'
<1> DEFINE P == Listed(inserted)
           E == Listed(inserted - 1)
           cur == paths[inserted]
<1>1. /\ pc = "value" /\ Inserts /\ pc' = "field" /\ key' = NoKey
      /\ paths' = paths /\ inserted' = inserted /\ segs' = segs
  BY DEF ValueOfAllKeys, DescendToKey, AddKeyChild, InValue, Inserts, CallInsertField
<1>2. PICK F, K, i : Sowing("value", node, F, K, P, E, cur, segs, at, key, i)
  BY <1>1, WhileInserting DEF PathGrows
<1> HIDE DEF P, E, cur
<1>3. \E F2, K2, i2 : Sowing("field", node', F2, K2, P, E, cur, segs, at', NoKey, i2)
  <2>1. CASE ValueOfAllKeys
    <3>1. node[at].all /\ node' = node /\ at' = at BY <2>1 DEF ValueOfAllKeys, This, CallInsertField
    <3>2. Sowing("field", node, F, K, P, E, cur, segs, at, NoKey, i) BY <1>2, <3>1, AllKeysGoOn
    <3> QED BY <3>1, <3>2
  <2>2. CASE DescendToKey
    <3>1. ~node[at].all /\ HasChild(node, at, key) /\ node' = node /\ at' = Append(at, key)
      BY <2>2 DEF DescendToKey, This, CallInsertField
    <3>2. Sowing("field", node, F, K, P, E, cur, segs, Append(at, key), NoKey, i)
      BY <1>2, <3>1, KeyDescends
    <3> QED BY <3>1, <3>2
  <2>3. CASE AddKeyChild
    <3> DEFINE u == node'
    <3>1. /\ ~node[at].all /\ ~HasChild(node, at, key) /\ at' = Append(at, key)
          /\ u = Add(node, Append(at, key), NewChild(node[at].type, NoKey, FALSE, segs))
      BY <2>3 DEF AddKeyChild, This, CallInsertField
    <3> HIDE DEF u
    <3>2. \E F2, K2 : Sowing("field", u, F2, K2, P, E, cur, segs, Append(at, key), NoKey, i)
      BY <1>2, <3>1, KeyAdds
    <3> QED BY <3>1, <3>2 DEF u
  <2> QED BY <2>1, <2>2, <2>3
<1>4. Inserts' BY <1>1 DEF Inserts
<1> QED BY <1>1, <1>3, <1>4, PathOnSows DEF P, E, cur

\* A call that is refused makes the list one that may be rejected.
LEMMA RefusedList ==
  ASSUME IInv, SowInv, inserted > 0, BelowNonMessage \/ BadSegment \/ BadChild
  PROVE  Rejectable(paths)
<1>1. SUFFICES ASSUME ~Confused(paths) PROVE ~LegalList(paths)
  BY DEF Rejectable
<1> DEFINE P == Listed(inserted)
           E == Listed(inserted - 1)
           cur == paths[inserted]
           s == Head(segs)
           x == FindChildField(node[at].type, s.field)
<1>2. /\ pc = "field" /\ Inserts /\ segs # <<>>
      /\ \/ node[at].type = NoType \/ s.key = Malformed \/ s.field \notin FieldNames(node[at].type)
         \/ x.kind = "message" /\ ~x.map /\ (x.type = NoType \/ s.key # NoKey)
  BY DEF BelowNonMessage, BadSegment, BadChild, NewField, FieldFound, Searching, InField, Inserts,
    This, Seg, ChildField
<1>3. Plain /\ inserted \in 1..Len(paths)
  <2>1. inserted \in 1..Len(paths) /\ paths \in Seq(Seq(Segments)) BY DEF IInv, TypeOK, PathsArgument
  <2> QED BY <1>1, <2>1 DEF Plain
<1>4. PICK F, K, i : Sowing("field", node, F, K, P, E, cur, segs, at, key, i)
  BY <1>2, <1>3, WhileInserting DEF PathGrows
<1>5. ~Legal(cur)
  <2> HIDE DEF P, E, cur, s, x
  <2>1. s = Head(segs) /\ x = FindChildField(node[at].type, s.field) BY DEF s, x
  <2> QED BY <1>2, <1>4, <2>1, RefusedPath
<1>6. cur \in PathsOf(paths) BY <1>3 DEF PathsOf
<1> HIDE DEF cur
<1>7. cur \notin DOMAIN Patterns BY <1>5 DEF Patterns
<1> QED BY <1>6, <1>7 DEF LegalList

\* Every step keeps what is known of the paths taken so far.
LEMMA SowStep ==
  ASSUME IInv, SowInv, [Next]_vars
  PROVE  SowInv'
<1>1. CASE UNCHANGED vars
  BY <1>1 DEF vars, locals, SowInv, Plain, Busy, Inserts, Planting, PathGrows, AcceptedUpTo, Listed
<1>2. ASSUME NEW list \in PathLists, AddOrIntersectFieldPaths(list) PROVE SowInv'
  BY <1>2, StartSow
<1>3. CASE ~Busy'
  BY <1>3 DEF SowInv
<1>4. CASE AddOrIntersectOnBrokenTree \/ CheckFieldOnBrokenTree
  <2>1. pc' = "aborted" BY <1>4 DEF AddOrIntersectOnBrokenTree, CheckFieldOnBrokenTree
  <2> QED BY <1>3, <2>1 DEF Busy
<1>5. CASE BelowNonMessage \/ BadSegment \/ BadChild \/ UseAsRoot \/ UseIntersection
  <2>1. pc' = "idle"
    BY <1>5 DEF BelowNonMessage, BadSegment, BadChild, FailPath, UseAsRoot, UseIntersection, Finish
  <2> QED BY <1>3, <2>1 DEF Busy
<1>6. CASE NextPath \/ MarkLeaf \/ AlreadyCovered \/ DescendToChild \/ AddFieldChild \/ InsertValueFieldStep
  <2>1. paths' = paths
    BY <1>6 DEF NextPath, MarkLeaf, AlreadyCovered, DescendToChild, AddFieldChild, InsertValueFieldStep,
      ValueCovered, ValueOfAllKeys, DescendToKey, AddKeyChild, EndPath, CallChild, CallInsertField
  <2>2. CASE ~Plain BY <2>1, <2>2 DEF SowInv, Plain
  <2>3. CASE Plain
    BY <1>6, <2>3, NextPathSow, FieldEndSow, FieldOnSow, ValueOnSow DEF InsertValueFieldStep
  <2> QED BY <2>2, <2>3
<1>7. CASE IntersectRoots
  <2>1. pc = "next" /\ inserted = Len(paths) /\ pc' = "intersect" /\ UNCHANGED <<paths, inserted>>
    BY <1>7 DEF IntersectRoots, Compiled
  <2> QED BY <2>1 DEF SowInv, Plain, Busy, Inserts, AcceptedUpTo
<1>8. ASSUME NEW c \in work, IntersectLeaf(c) \/ IntersectSame(c) \/ IntersectKeys(c) PROVE SowInv'
  <2>1. pc' = "intersect" /\ pc = "intersect" /\ UNCHANGED <<paths, inserted>>
    BY <1>8 DEF IntersectLeaf, IntersectSame, IntersectKeys, Keep, Intersecting
  <2> QED BY <2>1 DEF SowInv, Plain, Busy, Inserts, AcceptedUpTo
<1> QED BY <1>1, <1>2, <1>4, <1>5, <1>6, <1>7, <1>8 DEF Next, Compiling, InsertFieldStep, IntersectStep

\* The list that is compiled is one of those given, and its paths are taken in turn.
TakenInv == Busy => paths \in PathLists /\ (Inserts => inserted > 0)

\* Every step keeps that.
LEMMA TakenStep ==
  ASSUME IInv, TakenInv, [Next]_vars
  PROVE  TakenInv'
<1>1. CASE UNCHANGED vars
  BY <1>1 DEF vars, locals, TakenInv, Busy, Inserts
<1>2. ASSUME NEW list \in PathLists, AddOrIntersectFieldPaths(list) PROVE TakenInv'
  BY <1>2 DEF AddOrIntersectFieldPaths, TakenInv, Inserts
<1>3. CASE \/ AddOrIntersectOnBrokenTree \/ CheckFieldOnBrokenTree \/ UseAsRoot \/ UseIntersection
           \/ BelowNonMessage \/ BadSegment \/ BadChild
  <2>1. pc' = "aborted" \/ pc' = "idle"
    BY <1>3 DEF AddOrIntersectOnBrokenTree, CheckFieldOnBrokenTree, BelowNonMessage, BadSegment, BadChild,
      FailPath, UseAsRoot, UseIntersection, Finish
  <2> QED BY <2>1 DEF TakenInv, Busy
<1>4. CASE NextPath
  <2>1. inserted \in Nat BY DEF IInv, TypeOK
  <2> QED BY <1>4, <2>1 DEF NextPath, TakenInv, Busy
<1>5. CASE \/ MarkLeaf \/ AlreadyCovered \/ DescendToChild \/ AddFieldChild \/ InsertValueFieldStep
  <2>1. paths' = paths /\ inserted' = inserted /\ Busy /\ Inserts
    BY <1>5 DEF MarkLeaf, AlreadyCovered, DescendToChild, AddFieldChild, InsertValueFieldStep,
      ValueCovered, ValueOfAllKeys, DescendToKey, AddKeyChild, EndPath, CallChild, CallInsertField,
      NewField, FieldFound, Searching, InField, InValue, Busy, Inserts
  <2> QED BY <2>1 DEF TakenInv
<1>6. CASE IntersectRoots \/ \E c \in work : IntersectLeaf(c) \/ IntersectSame(c) \/ IntersectKeys(c)
  <2>1. paths' = paths /\ inserted' = inserted /\ Busy /\ pc' = "intersect"
    BY <1>6 DEF IntersectRoots, IntersectLeaf, IntersectSame, IntersectKeys, Keep, Intersecting, Compiled, Busy
  <2> QED BY <2>1 DEF TakenInv, Inserts
<1> QED BY <1>1, <1>2, <1>3, <1>4, <1>5, <1>6 DEF Next, Compiling, InsertFieldStep, IntersectStep

\* A list that has been compiled is one that may be accepted.
LEMMA AcceptedList ==
  ASSUME IInv, SowInv, Compiled \/ pc = "intersect"
  PROVE  Acceptable(paths)
<1>1. SUFFICES ASSUME ~Confused(paths), paths # <<>>
               PROVE  AcceptedUpTo(Len(paths))
  BY DEF Acceptable, AcceptedUpTo
<1>2. Plain /\ Busy BY <1>1 DEF Plain, Compiled, Busy
<1> QED BY <1>2 DEF SowInv, Compiled

\* The answer of CheckField() is a verdict.
LEMMA AnswerType ==
  ASSUME NEW t, IsTree(t), t = NoTree \/ <<>> \in DOMAIN t, NEW q \in Seq(Elements), NEW kind
  PROVE  CheckField(t, q, kind) \in Verdicts
<1>1. CASE t = NoTree BY <1>1 DEF CheckField, Verdicts
<1>2. CASE <<>> \in DOMAIN t
  <2> DEFINE end == Reached(t, q)[Len(q)]
  <2>1. Reached(t, q) \in [0..Len(q) -> WalkState(t)] /\ Len(q) \in 0..Len(q) BY <1>2, ReachedSteps
  <2>2. end.verdict \in {"none", "include", "exclude"} BY <2>1 DEF WalkState
  <2>3. t # NoTree BY <1>2 DEF NoTree
  <2>4. CheckField(t, q, kind) =
          IF end.verdict # "none" THEN end.verdict
          ELSE IF t[end.pos].leaf THEN "include"
          ELSE IF kind \in {"message", "enum"} THEN "partial" ELSE "exclude"
    BY <2>3 DEF CheckField, Walk
  <2> HIDE DEF end
  <2> QED BY <2>2, <2>4 DEF Verdicts
<1> QED BY <1>1, <1>2

-------------------------------------------------------------------------------
(* The trees implement the mask                                               *)

\* What a tree answers to all queries.
Says(tree) == [q \in Queries |-> CheckField(tree, q.path, q.kind)]

\* The status a caller sees.
Seen == IF pc = "aborted" THEN "aborted" ELSE status

\* At first the mask includes everything.
LEMMA MaskInit == Init => Mask!Init
<1> SUFFICES ASSUME Init PROVE Mask!Init OBVIOUS
<1>1. root = NoTree /\ status = "ok" /\ pc = "idle" /\ calls = <<>> BY DEF Init
<1>2. \A q \in Queries : CheckField(root, q.path, q.kind) = "include" BY <1>1 DEF CheckField
<1> QED BY <1>1, <1>2 DEF Mask!Init

\* Lists that are accepted make the mask stricter as they say.
LEMMA AcceptStep ==
  ASSUME IInv, VerdictInv, VerdictInv', IInv', TakenInv, SowInv, UseAsRoot \/ UseIntersection
  PROVE  Mask!Accept
<1>1. /\ Compiled \/ pc = "intersect"
      /\ calls' = Append(calls, paths) /\ pc' = "idle" /\ status' = status /\ Busy
  BY DEF UseAsRoot, UseIntersection, Finish, Compiled, Busy
<1>2. status = "ok" /\ paths \in PathLists /\ calls \in Seq(PathsArgument) /\ paths \in PathsArgument
  BY <1>1 DEF IInv, TypeOK, TakenInv
<1>3. Acceptable(paths) BY <1>1, AcceptedList
<1>4. calls'[Len(calls')] = paths /\ calls' # <<>> /\ calls' # calls
  <2>1. /\ Len(Append(calls, paths)) = Len(calls) + 1 /\ Len(calls) \in Nat
        /\ Append(calls, paths)[Len(calls) + 1] = paths
    BY <1>2
  <2>2. Append(calls, paths) # calls /\ Append(calls, paths) # <<>> BY <2>1
  <2> QED BY <1>1, <2>1, <2>2
<1>5. Seen = "ok" /\ Seen' = "ok" BY <1>1, <1>2 DEF Seen, Busy, Compiled
<1>6. ASSUME Unmixed(calls'), NEW q \in Queries
      PROVE  CheckField(root', q.path, q.kind) = Stricter(CheckField(root, q.path, q.kind), Union(paths, q))
  <2>1. CheckField(root', q.path, q.kind) = MetBy(calls', q)
    BY <1>4, <1>6 DEF VerdictInv, Answers
  <2>2. Unmixed(calls) BY <1>1, <1>2, <1>6, UnmixedLess
  <2>3. CheckField(root, q.path, q.kind) = MetBy(calls, q)
    <3>1. CASE calls = <<>>
      <4>1. root = NoTree BY <3>1 DEF VerdictInv
      <4>2. CheckField(root, q.path, q.kind) = "include" BY <4>1 DEF CheckField
      <4>3. MetBy(calls, q) = "include" BY <3>1 DEF MetBy
      <4> QED BY <4>2, <4>3
    <3>2. CASE calls # <<>> BY <2>2, <3>2 DEF VerdictInv, Answers
    <3> QED BY <3>1, <3>2
  <2> DEFINE more == calls'
  <2>4. Accepted(more, calls, paths) BY <1>1, <1>2 DEF Accepted
  <2> HIDE DEF more
  <2>5. MetBy(more, q) = Stricter(MetBy(calls, q), Union(paths, q)) BY ONLY <2>4, MoreMet
  <2> QED BY <2>1, <2>3, <2>5 DEF more
<1>7. Says(root)' \in [Queries -> Mask!Verdicts]
  <2>1. IsTree(root') /\ (root' = NoTree \/ <<>> \in DOMAIN root') BY DEF IInv, TypeOK, RootNodes
  <2> DEFINE t == root'
  <2>2. IsTree(t) /\ (t = NoTree \/ <<>> \in DOMAIN t) BY <2>1
  <2> HIDE DEF t
  <2>3. ASSUME NEW q \in Queries PROVE CheckField(t, q.path, q.kind) \in Verdicts
    <3>1. q.path \in Seq(Elements) BY QueriesAssumption
    <3> QED BY <2>2, <3>1, AnswerType
  <2>4. Mask!Verdicts = Verdicts BY DEF Mask!Verdicts, Verdicts
  <2> QED BY <2>3, <2>4 DEF Says, t
<1>8. Unmixed(calls') => Says(root)' = [q \in Queries |-> Mask!Meet(Says(root)[q], Union(paths, q))]
  <2>1. \A v, w : Mask!Meet(v, w) = Stricter(v, w) BY DEF Mask!Meet, Stricter
  <2>2. \A q \in Queries : Says(root)[q] = CheckField(root, q.path, q.kind) BY DEF Says
  <2> QED BY <1>6, <2>1, <2>2 DEF Says
<1> QED BY <1>1, <1>2, <1>3, <1>4, <1>5, <1>7, <1>8 DEF Mask!Accept, Says, Seen

\* A list that is refused breaks the mask.
LEMMA RejectStep ==
  ASSUME IInv, TakenInv, SowInv, BelowNonMessage \/ BadSegment \/ BadChild
  PROVE  Mask!Reject
<1>1. /\ Inserts /\ Busy /\ status' = "invalid" /\ pc' = "idle" /\ root' = root /\ calls' = calls
  BY DEF BelowNonMessage, BadSegment, BadChild, NewField, FieldFound, Searching, InField, Inserts, Busy,
         FailPath
<1>2. status = "ok" /\ paths \in PathLists /\ inserted > 0 BY <1>1 DEF IInv, TakenInv
<1>3. Rejectable(paths) BY <1>2, RefusedList
<1> QED BY <1>1, <1>2, <1>3 DEF Mask!Reject, Busy

\* Using a broken tree ends the process.
LEMMA AbortStep ==
  ASSUME IInv, AddOrIntersectOnBrokenTree \/ CheckFieldOnBrokenTree
  PROVE  Mask!Abort
<1>1. pc = "idle" /\ status # "ok" /\ pc' = "aborted" /\ root' = root /\ calls' = calls
  BY DEF AddOrIntersectOnBrokenTree, CheckFieldOnBrokenTree, Idle
<1>2. status = "invalid" BY <1>1 DEF IInv, TypeOK
<1> QED BY <1>1, <1>2 DEF Mask!Abort

\* All other steps are not seen.
LEMMA QuietStep ==
  ASSUME root' = root, calls' = calls, status' = status, (pc # "aborted" /\ pc' # "aborted") \/ pc' = pc
  PROVE  UNCHANGED Mask!vars
<1>1. Says(root)' = Says(root) BY DEF Says
<1>2. Seen' = Seen BY DEF Seen
<1> QED BY <1>1, <1>2 DEF Mask!vars, Says, Seen

\* Every step of the trees is one of the mask, or is not seen.
LEMMA MaskStep ==
  ASSUME IInv, IInv', VerdictInv, VerdictInv', SowInv, TakenInv, [Next]_vars
  PROVE  [Mask!Next]_(Mask!vars)
<1>1. CASE UNCHANGED vars BY <1>1, QuietStep DEF vars
<1>2. CASE UseAsRoot \/ UseIntersection BY <1>2, AcceptStep DEF Mask!Next
<1>3. CASE BelowNonMessage \/ BadSegment \/ BadChild BY <1>3, RejectStep DEF Mask!Next
<1>4. CASE AddOrIntersectOnBrokenTree \/ CheckFieldOnBrokenTree BY <1>4, AbortStep DEF Mask!Next
<1>5. CASE \/ \E list \in PathLists : AddOrIntersectFieldPaths(list)
           \/ NextPath \/ MarkLeaf \/ AlreadyCovered \/ DescendToChild \/ AddFieldChild
           \/ InsertValueFieldStep \/ IntersectRoots
           \/ \E c \in work : IntersectLeaf(c) \/ IntersectSame(c) \/ IntersectKeys(c)
  <2>1. /\ root' = root /\ calls' = calls /\ status' = status /\ pc # "aborted" /\ pc' # "aborted"
    BY <1>5 DEF AddOrIntersectFieldPaths, Idle, NextPath, MarkLeaf, AlreadyCovered, DescendToChild,
      AddFieldChild, InsertValueFieldStep, ValueCovered, ValueOfAllKeys, DescendToKey, AddKeyChild,
      EndPath, CallChild, CallInsertField, NewField, FieldFound, Searching, InField, InValue,
      IntersectRoots, IntersectLeaf, IntersectSame, IntersectKeys, Keep, Intersecting, Compiled
  <2> QED BY <2>1, QuietStep
<1> QED BY <1>1, <1>2, <1>3, <1>4, <1>5 DEF Next, Compiling, InsertFieldStep, IntersectStep

\* The compiled tree implements the mask of its lists: for every schema, all lists and
\* all queries, each call of AddOrIntersectFieldPaths() is accepted or rejected as
\* the legality of the list says, changes the verdicts as its paths say when it is
\* accepted, and leaves them alone when it is rejected.
THEOREM TreesImplementMasks == Spec => ImplementsMask
<1>1. Init => SowInv /\ TakenInv
  <2>1. Init => ~Busy BY DEF Init, Busy
  <2> QED BY <2>1 DEF SowInv, TakenInv
<1>2. Spec => [](SowInv /\ TakenInv)
  <2>1. IInv /\ (SowInv /\ TakenInv) /\ [Next]_vars => (SowInv /\ TakenInv)' BY SowStep, TakenStep
  <2> QED BY <1>1, <2>1, Invariance, PTL DEF Spec
<1>3. (IInv /\ ListInv /\ VerdictInv) /\ (IInv /\ ListInv /\ VerdictInv)' /\ (SowInv /\ TakenInv)
        /\ [Next]_vars => [Mask!Next]_(Mask!vars)
  BY MaskStep
<1> QED BY <1>2, <1>3, MaskInit, VerdictInvariance, PTL DEF Spec, ImplementsMask, Mask!Spec
===============================================================================
