-------------------------- MODULE ScrubBounds_proofs ---------------------------
(***************************************************************************)
(* A scan stays inside the limits it has pushed, and what is to be copied  *)
(* has been read.                                                          *)
(***************************************************************************)
EXTENDS ProtoScrubber_proofs

-------------------------------------------------------------------------------
(* Frames and TagCopys at a position                                           *)

\* A field of an Any that has been read, or none.
PartIn(part, p) ==
  /\ part.tag \in Nat /\ part.start \in Nat /\ part.length \in Nat
  /\ part.start + part.length <= p /\ part.bytes \in Seq(Nat)

\* What a call remembers is before p, and p is inside its limit.
FrameIn(f, p) ==
  /\ f.limit \in Nat /\ p <= f.limit
  /\ f.tag \in Nat /\ f.start \in Nat /\ f.start <= p /\ f.result \in Nat
  /\ f.key.pos \in Nat /\ f.key.length \in Nat /\ f.key.pos + f.key.length <= p
  /\ f.key.start \in Nat /\ f.key.start + f.key.length <= p
  /\ PartIn(f.url, p) /\ PartIn(f.value, p)

SegmentIn(c, p) ==
  /\ IsTagCopy(c) /\ c.tag \in Seq(Nat) /\ c.length \in Nat /\ c.message \in Seq(Nat)
  /\ c.start \in Nat /\ c.copy \in Int /\ c.start + c.copy <= p
Segments(list, p) == Sequence(list) /\ \A i \in 1..Len(list) : SegmentIn(list[i], p)

\* Limits are nested.
Bounds(st, list, p) ==
  /\ p \in Nat /\ Segments(list, p)
  /\ \A i \in 1..Len(st) : FrameIn(st[i], p)
  /\ \A j \in 2..Len(st) : \A i \in 1..(j - 1) : st[j].limit <= st[i].limit

\* A position further on is as good, inside the limit.
LEMMA FrameLater ==
  ASSUME NEW f, NEW p \in Nat, NEW q \in Nat, FrameIn(f, p), p <= q, q <= f.limit
  PROVE  FrameIn(f, q)
<1>1. ASSUME NEW part, PartIn(part, p) PROVE PartIn(part, q) BY <1>1 DEF PartIn
<1>2. PartIn(f.url, q) /\ PartIn(f.value, q) BY <1>1 DEF FrameIn
<1>3. /\ f.limit \in Nat /\ f.tag \in Nat /\ f.start \in Nat /\ f.start <= p /\ f.result \in Nat
      /\ f.key.pos \in Nat /\ f.key.length \in Nat /\ f.key.pos + f.key.length <= p
      /\ f.key.start \in Nat /\ f.key.start + f.key.length <= p
  BY DEF FrameIn
<1>4. /\ f.start <= q /\ f.key.pos + f.key.length <= q /\ f.key.start + f.key.length <= q
  BY <1>3
<1> QED BY <1>2, <1>3, <1>4 DEF FrameIn

\* The limit of a frame is a number.
LEMMA FrameLimit ==
  ASSUME NEW f, NEW p, FrameIn(f, p)
  PROVE  f.limit \in Nat /\ p <= f.limit
BY DEF FrameIn

\* A list of segments that have been read stays one.
LEMMA SegmentsLater ==
  ASSUME NEW list, NEW p \in Nat, NEW q \in Nat, Segments(list, p), p <= q
  PROVE  Segments(list, q)
BY DEF Segments, SegmentIn

\* A segment is added to the list.
LEMMA SegmentsAppend ==
  ASSUME NEW list, NEW p, Segments(list, p), NEW c, SegmentIn(c, p)
  PROVE  Segments(Append(list, c), p)
<1>1. /\ Sequence(Append(list, c)) /\ Len(Append(list, c)) = Len(list) + 1
      /\ Append(list, c)[Len(list) + 1] = c
      /\ \A i \in 1..Len(list) : Append(list, c)[i] = list[i]
      /\ Len(list) \in Nat
  BY SequenceAppend, SequenceLen DEF Segments
<1>2. ASSUME NEW i \in 1..Len(Append(list, c)) PROVE SegmentIn(Append(list, c)[i], p)
  <2>1. CASE i = Len(list) + 1 BY <1>1, <2>1
  <2>2. CASE i # Len(list) + 1
    <3>1. i \in 1..Len(list) BY <1>1, <2>2
    <3> QED BY <1>1, <3>1 DEF Segments
  <2> QED BY <2>1, <2>2
<1> QED BY <1>1, <1>2 DEF Segments

\* One that is there is replaced.
LEMMA SegmentsSet ==
  ASSUME NEW list, NEW p, Segments(list, p), NEW k \in 1..Len(list), NEW c, SegmentIn(c, p)
  PROVE  Segments([list EXCEPT ![k] = c], p)
<1> DEFINE l == [list EXCEPT ![k] = c]
<1>1. /\ Sequence(l) /\ Len(l) = Len(list) /\ l[k] = c
      /\ \A i \in 1..Len(list) : i # k => l[i] = list[i]
  BY SequenceExcept DEF Segments
<1> HIDE DEF l
<1>2. \A i \in 1..Len(l) : SegmentIn(l[i], p) BY <1>1 DEF Segments
<1> QED BY <1>1, <1>2 DEF Segments, l

\* Its length may be written.
LEMMA SegmentsSetLength ==
  ASSUME NEW list, NEW p, Segments(list, p), NEW k \in 1..Len(list), NEW n \in Nat
  PROVE  Segments([list EXCEPT ![k].length = n], p)
<1> DEFINE c == [list[k] EXCEPT !.length = n]
<1>1. SegmentIn(c, p) BY DEF Segments, SegmentIn, IsTagCopy
<1>2. [list EXCEPT ![k].length = n] = [list EXCEPT ![k] = c] OBVIOUS
<1> HIDE DEF c
<1> QED BY <1>1, <1>2, SegmentsSet

\* What is copied of the last one may change.
LEMMA SegmentsSetCopy ==
  ASSUME NEW list, NEW p, Segments(list, p), list # <<>>, NEW n \in Int,
         Back(list).start + n <= p
  PROVE  Segments(SetBack(list, [Back(list) EXCEPT !.copy = n]), p)
<1> DEFINE c == [Back(list) EXCEPT !.copy = n]
           k == Len(list)
<1>1. k \in 1..Len(list) /\ Back(list) = list[k] BY SequenceLen DEF Segments, Back
<1>2. SegmentIn(list[k], p) BY <1>1 DEF Segments
<1>3. SegmentIn(c, p) BY <1>1, <1>2 DEF SegmentIn, IsTagCopy
<1>4. SetBack(list, c) = [list EXCEPT ![k] = c] BY DEF SetBack
<1> HIDE DEF c, k
<1> QED BY <1>1, <1>3, <1>4, SegmentsSet DEF c

\* Those behind are taken back.
LEMMA SegmentsPrefix ==
  ASSUME NEW list, NEW p, Segments(list, p), NEW n \in 0..Len(list)
  PROVE  Segments(SubSeq(list, 1, n), p) /\ Len(SubSeq(list, 1, n)) = n
<1>1. /\ Sequence(SubSeq(list, 1, n)) /\ Len(SubSeq(list, 1, n)) = n
      /\ \A i \in 1..n : SubSeq(list, 1, n)[i] = list[i]
  BY SequencePrefix DEF Segments
<1>2. Len(list) \in Nat BY SequenceLen DEF Segments
<1> QED BY <1>1, <1>2 DEF Segments

\* The TagCopys that are made.
LEMMA SegmentsMade ==
  ASSUME NEW p \in Nat
  PROVE  /\ \A tag \in Nat, n \in Nat : SegmentIn(Inserting(tag, n), p)
         /\ \A start \in Nat, n \in Nat : start + n <= p => SegmentIn(Copying(start, n), p)
         /\ \A tag \in Nat, value \in Seq(Nat) : SegmentIn(Scrubbed(tag, value), p)
<1>1. ASSUME NEW tag \in Nat, NEW n \in Nat PROVE SegmentIn(Inserting(tag, n), p)
  BY DEF SegmentIn, IsTagCopy, Inserting
<1>2. ASSUME NEW start \in Nat, NEW n \in Nat, start + n <= p PROVE SegmentIn(Copying(start, n), p)
  BY <1>2 DEF SegmentIn, IsTagCopy, Copying
<1>3. ASSUME NEW tag \in Nat, NEW value \in Seq(Nat) PROVE SegmentIn(Scrubbed(tag, value), p)
  <2>1. Len(value) \in Nat OBVIOUS
  <2> QED BY <2>1 DEF SegmentIn, IsTagCopy, Inserting, Scrubbed
<1> QED BY <1>1, <1>2, <1>3

\* A segment that has been read is appended, or rolled into the last one.
LEMMA SegmentsRoll ==
  ASSUME NEW list, NEW p \in Nat, Segments(list, p), NEW start \in Nat, NEW n \in Nat,
         start + n <= p
  PROVE  Segments(AddTagCopyOrRollToPrevious(list, start, n), p)
<1>1. CASE Continues(list, start)
  <2>1. list # <<>> /\ Back(list).start + Back(list).copy = start BY <1>1 DEF Continues
  <2>2. Back(list).start \in Nat /\ Back(list).copy \in Int
    <3>1. Len(list) \in 1..Len(list) BY <2>1, SequenceLen DEF Segments
    <3> QED BY <3>1 DEF Segments, SegmentIn, Back
  <2>3. Back(list).copy + n \in Int /\ Back(list).start + (Back(list).copy + n) <= p
    BY <2>1, <2>2
  <2>4. AddTagCopyOrRollToPrevious(list, start, n)
          = SetBack(list, [Back(list) EXCEPT !.copy = Back(list).copy + n])
    BY <1>1 DEF AddTagCopyOrRollToPrevious
  <2> QED BY <2>1, <2>3, <2>4, SegmentsSetCopy
<1>2. CASE ~Continues(list, start) /\ Repeats(list, start, n)
  BY <1>2 DEF AddTagCopyOrRollToPrevious
<1>3. CASE ~Continues(list, start) /\ ~Repeats(list, start, n)
  BY <1>3, SegmentsAppend, SegmentsMade DEF AddTagCopyOrRollToPrevious
<1> QED BY <1>1, <1>2, <1>3

\* The innermost call goes on, further on.
LEMMA BoundsSetBack ==
  ASSUME NEW st, NEW list, NEW p, Calls(st), Bounds(st, list, p),
         NEW f, Alike(Back(st), f), f.limit = Back(st).limit,
         NEW l, NEW q, q \in Nat, p <= q, FrameIn(f, q), Segments(l, q)
  PROVE  Bounds(SetBack(st, f), l, q)
<1> DEFINE t == SetBack(st, f)
<1>1. /\ Len(st) \in Nat /\ Len(st) >= 1 /\ Len(t) = Len(st) /\ t[Len(st)] = f
      /\ \A i \in 1..(Len(st) - 1) : t[i] = st[i]
  BY CallsBack DEF Back
<1>2. \A i \in 1..Len(st) : t[i].limit = st[i].limit BY <1>1 DEF Back
<1> HIDE DEF t
<1>3. ASSUME NEW i \in 1..Len(t) PROVE FrameIn(t[i], q)
  <2>1. CASE i = Len(st) BY <1>1, <2>1
  <2>2. CASE i # Len(st)
    <3>1. i \in 1..(Len(st) - 1) /\ Len(st) \in 2..Len(st) BY <1>1, <2>2
    <3>2. f.limit <= st[i].limit BY <3>1 DEF Bounds, Back
    <3>3. FrameIn(st[i], p) /\ t[i] = st[i] BY <1>1, <3>1 DEF Bounds
    <3>4. q <= st[i].limit
      <4>1. f.limit \in Nat /\ q <= f.limit /\ st[i].limit \in Nat BY <3>3, FrameLimit
      <4> QED BY <3>2, <4>1
    <3> QED BY <3>3, <3>4, FrameLater DEF Bounds
  <2> QED BY <2>1, <2>2
<1>4. \A j \in 2..Len(t) : \A i \in 1..(j - 1) : t[j].limit <= t[i].limit
  BY <1>1, <1>2 DEF Bounds
<1> QED BY <1>3, <1>4 DEF Bounds, t

\* A call is made, inside the limit of its caller.
LEMMA BoundsAppend ==
  ASSUME NEW st, NEW list, NEW p, Calls(st), Bounds(st, list, p),
         NEW f, IsFrame(f), f.limit <= Back(st).limit,
         NEW l, NEW q, q \in Nat, p <= q, FrameIn(f, q), Segments(l, q)
  PROVE  Bounds(Append(st, f), l, q)
<1> DEFINE t == Append(st, f)
           n == Len(st)
<1>1. /\ n \in Nat /\ n >= 1 /\ Len(t) = n + 1 /\ t[n + 1] = f
      /\ \A i \in 1..n : t[i] = st[i]
  BY CallsBack, CallsAppend DEF Back
<1>2. Back(st) = st[n] BY DEF Back
<1>3. \A i \in 1..n : FrameIn(st[i], p) BY DEF Bounds
<1> HIDE DEF t, n
<1>4. ASSUME NEW i \in 1..n PROVE f.limit <= st[i].limit
  <2>1. f.limit \in Nat /\ st[i].limit \in Nat /\ st[n].limit \in Nat
    BY <1>1, <1>3 DEF FrameIn
  <2>2. CASE i = n BY <1>2, <2>2
  <2>3. CASE i # n
    <3>1. n \in 2..Len(st) /\ i \in 1..(n - 1) BY <1>1, <2>3 DEF n
    <3>2. st[n].limit <= st[i].limit BY <3>1 DEF Bounds
    <3> QED BY <1>2, <2>1, <3>2
  <2> QED BY <2>2, <2>3
<1>5. ASSUME NEW i \in 1..Len(t) PROVE FrameIn(t[i], q)
  <2>1. CASE i = n + 1 BY <1>1, <2>1
  <2>2. CASE i # n + 1
    <3>1. i \in 1..n /\ t[i] = st[i] BY <1>1, <2>2
    <3>2. FrameIn(st[i], p) /\ f.limit <= st[i].limit BY <1>3, <1>4, <3>1
    <3>3. q <= st[i].limit
      <4>1. f.limit \in Nat /\ q <= f.limit /\ st[i].limit \in Nat BY <3>2, FrameLimit
      <4> QED BY <3>2, <4>1
    <3> QED BY <3>1, <3>2, <3>3, FrameLater DEF Bounds
  <2> QED BY <2>1, <2>2
<1>6. ASSUME NEW j \in 2..Len(t), NEW i \in 1..(j - 1) PROVE t[j].limit <= t[i].limit
  <2>1. i \in 1..n /\ t[i] = st[i] BY <1>1
  <2>2. CASE j = n + 1 BY <1>1, <1>4, <2>1, <2>2
  <2>3. CASE j # n + 1
    <3>1. j \in 2..Len(st) /\ t[j] = st[j] BY <1>1, <2>3 DEF n
    <3> QED BY <2>1, <3>1 DEF Bounds
  <2> QED BY <2>2, <2>3
<1> QED BY <1>5, <1>6 DEF Bounds, t

\* A call returns.
LEMMA BoundsPop ==
  ASSUME NEW st, NEW list, NEW p, Calls(st), Len(st) > 1, Bounds(st, list, p),
         NEW l, NEW q, q \in Nat, p <= q, q <= Back(st).limit, Segments(l, q)
  PROVE  Bounds(PopBack(st), l, q)
<1> DEFINE t == PopBack(st)
           n == Len(st) - 1
<1>1. /\ n \in Nat /\ n >= 1 /\ Len(st) = n + 1 /\ Len(t) = n /\ \A i \in 1..n : t[i] = st[i]
  BY CallsBack, CallsPop
<1>2. Back(st) = st[n + 1] BY <1>1 DEF Back
<1> HIDE DEF t, n
<1>3. ASSUME NEW i \in 1..n PROVE FrameIn(t[i], q)
  <2>1. FrameIn(st[i], p) /\ FrameIn(st[n + 1], p) /\ st[n + 1].limit <= st[i].limit
    <3>1. i \in 1..Len(st) /\ n + 1 \in 1..Len(st) /\ n + 1 \in 2..Len(st) /\ i \in 1..(n + 1 - 1)
      BY <1>1
    <3>2. FrameIn(st[i], p) /\ FrameIn(st[n + 1], p) BY <3>1 DEF Bounds
    <3>3. ASSUME NEW j, j = n + 1 PROVE st[j].limit <= st[i].limit
      <4>1. j \in 2..Len(st) /\ i \in 1..(j - 1) BY <1>1, <3>3
      <4> QED BY <4>1 DEF Bounds
    <3> QED BY <3>2, <3>3
  <2>2. q <= st[i].limit
    <3>1. st[i].limit \in Nat /\ st[n + 1].limit \in Nat BY <2>1, FrameLimit
    <3> QED BY <1>2, <2>1, <3>1
  <2> QED BY <1>1, <2>1, <2>2, FrameLater DEF Bounds
<1>4. \A j \in 2..n : \A i \in 1..(j - 1) : t[j].limit <= t[i].limit BY <1>1 DEF Bounds
<1> QED BY <1>1, <1>3, <1>4 DEF Bounds, t

-------------------------------------------------------------------------------
(* Reading at the current position                                             *)

\* The position, and what is known of the innermost call there.
LEMMA TopIn ==
  ASSUME Calls(stack), Bounds(stack, copies, pos)
  PROVE  /\ pos \in Nat /\ Segments(copies, pos) /\ IsFrame(Top) /\ FrameIn(Top, pos)
         /\ Top.limit \in Nat /\ pos <= Top.limit
<1>1. Len(stack) \in 1..Len(stack) /\ IsFrame(Top) BY CallsBack DEF Top
<1>2. FrameIn(Top, pos) BY <1>1 DEF Bounds, Top, Back
<1> QED BY <1>1, <1>2, FrameLimit DEF Bounds

\* A tag, and the field behind it.
LEMMA Here ==
  ASSUME Data \in Seq(Nat), pos \in Nat, Top.limit \in Nat, pos <= Top.limit
  PROVE  /\ TagHere \in Nat /\ BehindTag \in Nat /\ pos <= BehindTag /\ BehindTag <= Top.limit
         /\ TagHere # 0 => BehindTag <= EndOf(Data, Top.limit)
BY ReadVarintType, AfterVarintBounds DEF TagHere, BehindTag

LEMMA EndHereIn ==
  ASSUME Data \in Seq(Nat), pos \in Nat, Top.limit \in Nat, pos <= Top.limit, TagHere # 0
  PROVE  EndHere \in Nat /\ pos <= EndHere /\ EndHere <= Top.limit
<1>1. /\ BehindTag \in Nat /\ pos <= BehindTag /\ BehindTag <= Top.limit
      /\ BehindTag <= EndOf(Data, Top.limit)
  BY Here
<1>2. EndHere \in Nat /\ EndHere <= Top.limit /\ BehindTag <= EndHere
  BY <1>1, SkipFieldBounds DEF EndHere
<1> QED BY <1>1, <1>2

\* A number, a length or a string that follows.
LEMMA ValueHere ==
  ASSUME Data \in Seq(Nat), pos \in Nat, Top.limit \in Nat, pos <= Top.limit, TagHere # 0
  PROVE  LET body == AfterVarint(Data, BehindTag, Top.limit)
             limit == EndOfLength(Data, BehindTag, Top.limit)
             end == EndOfString(Data, BehindTag, Top.limit)
         IN  /\ body \in Nat /\ pos <= body /\ body <= Top.limit
             /\ limit \in Nat /\ body <= limit /\ limit <= Top.limit
             /\ end \in Nat /\ pos <= end /\ end <= Top.limit
             /\ ReadString(Data, BehindTag, Top.limit) \in Seq(Nat)
<1> DEFINE body == AfterVarint(Data, BehindTag, Top.limit)
           limit == EndOfLength(Data, BehindTag, Top.limit)
           end == EndOfString(Data, BehindTag, Top.limit)
<1>1. /\ BehindTag \in Nat /\ pos <= BehindTag /\ BehindTag <= Top.limit
      /\ BehindTag <= EndOf(Data, Top.limit)
  BY Here
<1>2. body \in Nat /\ BehindTag <= body /\ body <= Top.limit BY <1>1, AfterVarintBounds
<1>3. limit \in Nat /\ body <= limit /\ limit <= Top.limit BY <1>1, EndOfLengthBounds
<1>4. end \in Nat /\ body <= end /\ end <= Top.limit BY <1>1, EndOfStringBounds
<1>5. ReadString(Data, BehindTag, Top.limit) \in Seq(Nat) BY <1>1, ReadStringType
<1> HIDE DEF body, limit, end
<1>6. pos <= body /\ pos <= end BY <1>1, <1>2, <1>4
<1> QED BY <1>2, <1>3, <1>4, <1>5, <1>6 DEF body, limit, end

\* The size of what is written.
LEMMA SizeType == ASSUME NEW n \in Nat PROVE SizeWithTag(n) \in Nat
BY DEF SizeWithTag, TagSize, VarintSize

\* A frame that grows keeps its limit.
LEMMA FrameGrows ==
  ASSUME NEW f, NEW p, IsFrame(f), FrameIn(f, p), NEW n \in Nat
  PROVE  /\ Alike(f, Grow(f, n)) /\ FrameIn(Grow(f, n), p) /\ Grow(f, n).limit = f.limit
         /\ Grow(f, n).key = f.key
<1> DEFINE g == Grow(f, n)
<1>1. Alike(f, g) BY GrowAlike
<1>2. /\ g.limit = f.limit /\ g.tag = f.tag /\ g.start = f.start /\ g.result = f.result + n
      /\ g.key = f.key /\ g.url = f.url /\ g.value = f.value
  BY DEF IsFrame, Grow
<1> HIDE DEF g
<1>3. FrameIn(g, p) BY <1>2 DEF FrameIn
<1> QED BY <1>1, <1>2, <1>3 DEF g

-------------------------------------------------------------------------------
(* Going on, calling and returning                                             *)

\* A step that only moves.
LEMMA MoveBounds ==
  ASSUME Calls(stack), Bounds(stack, copies, pos), UNCHANGED <<stack, copies>>,
         pos' \in Nat, pos <= pos', pos' <= Top.limit
  PROVE  Bounds(stack, copies, pos)'
<1>1. /\ pos \in Nat /\ Segments(copies, pos) /\ FrameIn(Top, pos) /\ Top.limit \in Nat
  BY TopIn
<1>2. FrameIn(Top, pos') /\ Segments(copies, pos') BY <1>1, FrameLater, SegmentsLater
<1>3. Bounds(SetBack(stack, Top), copies, pos')
  <2>1. Alike(Back(stack), Back(stack)) BY SetBackSame
  <2>2. ASSUME NEW q, q = pos' PROVE Bounds(SetBack(stack, Back(stack)), copies, q)
    BY <1>2, <2>1, <2>2, BoundsSetBack DEF Top
  <2> QED BY <2>2 DEF Top
<1> QED BY <1>3, SetBackSame DEF Top

\* The innermost call goes on.
LEMMA GoOnBounds ==
  ASSUME Calls(stack), Bounds(stack, copies, pos), NEW f, Alike(Top, f), stack' = SetBack(stack, f),
         f.limit = Top.limit, FrameIn(f, pos'), pos' \in Nat, pos <= pos', Segments(copies', pos')
  PROVE  Bounds(stack, copies, pos)'
<1>1. ASSUME NEW q, q = pos', NEW l, l = copies' PROVE Bounds(SetBack(stack, f), l, q)
  BY <1>1, BoundsSetBack DEF Top
<1> QED BY <1>1

\* What Return() does with a caller and a list.
LEMMA CallerBounds ==
  ASSUME NEW st, Calls(st), NEW list, NEW q, Bounds(st, list, q), NEW n \in Nat, NEW p,
         Return(st, list, p, n)
  PROVE  Bounds(stack', copies', q)
<1> DEFINE caller == Back(st)
           dropped == [caller EXCEPT !.key.length = 0]
           entry == IF Dropped(caller, n) THEN dropped ELSE caller
<1>1. /\ Len(st) \in 1..Len(st) /\ IsFrame(caller) /\ Alike(caller, caller)
      /\ FrameIn(caller, q) /\ q \in Nat /\ Segments(list, q)
  BY CallsBack, SetBackSame DEF Bounds, Back
<1>2. Alike(caller, dropped) /\ FrameIn(dropped, q) /\ dropped.limit = caller.limit
  <2>1. Alike(caller, dropped) BY <1>1, DroppedAlike
  <2>2. /\ dropped.limit = caller.limit /\ dropped.tag = caller.tag /\ dropped.start = caller.start
        /\ dropped.result = caller.result /\ dropped.url = caller.url
        /\ dropped.value = caller.value /\ dropped.key.pos = caller.key.pos
        /\ dropped.key.start = caller.key.start /\ dropped.key.length = 0
    BY <1>1 DEF IsFrame
  <2> HIDE DEF dropped, caller
  <2>3. /\ caller.key.pos \in Nat /\ caller.key.start \in Nat /\ caller.key.length \in Nat
        /\ caller.key.pos + caller.key.length <= q /\ caller.key.start + caller.key.length <= q
    BY <1>1 DEF FrameIn
  <2>4. caller.key.pos + 0 <= q /\ caller.key.start + 0 <= q BY <1>1, <2>3
  <2>5. FrameIn(dropped, q) BY <1>1, <2>2, <2>4 DEF FrameIn
  <2> QED BY <2>1, <2>2, <2>5
<1>3. /\ Alike(caller, entry) /\ FrameIn(entry, q) /\ entry.limit = caller.limit /\ IsFrame(entry)
      /\ entry.key.length \in Nat
  <2> HIDE DEF dropped, caller
  <2>1. Alike(caller, entry) /\ FrameIn(entry, q) /\ entry.limit = caller.limit BY <1>1, <1>2
  <2> HIDE DEF entry
  <2> QED BY <2>1 DEF Alike, FrameIn
<1>4. \A m \in Nat : /\ Alike(caller, Grow(entry, m)) /\ FrameIn(Grow(entry, m), q)
                     /\ Grow(entry, m).limit = caller.limit
                     /\ Alike(caller, Grow(caller, m)) /\ FrameIn(Grow(caller, m), q)
                     /\ Grow(caller, m).limit = caller.limit
  <2> HIDE DEF entry, caller
  <2>1. \A m \in Nat : Alike(entry, Grow(entry, m)) /\ Alike(caller, Grow(caller, m))
    BY <1>1, <1>3, FrameGrows
  <2>2. \A m \in Nat : Alike(caller, Grow(entry, m)) BY <1>3, <2>1 DEF Alike
  <2> QED BY <1>1, <1>3, <2>1, <2>2, FrameGrows
<1>5. \E f : /\ stack' = SetBack(st, f) /\ Alike(caller, f) /\ FrameIn(f, q)
            /\ f.limit = caller.limit
  <2>1. stack' = IF caller.kind = "entry" THEN SetBack(st, Grow(entry, entry.key.length + n))
                 ELSE SetBack(st, Grow(caller, n))
    BY DEF Return
  <2> HIDE DEF entry, caller
  <2>2. entry.key.length + n \in Nat BY <1>3
  <2> QED BY <1>4, <2>1, <2>2
<1>6. Segments(copies', q)
  <2>1. copies' = list \/ copies' = WithoutKey(caller, list) BY DEF Return
  <2>2. caller.key.length \in Nat BY <1>1 DEF FrameIn
  <2> HIDE DEF caller
  <2>3. CASE list = <<>>
    <3>1. SetBack(list, [Back(list) EXCEPT !.copy = @ - caller.key.length]) = list
      BY <2>3 DEF SetBack
    <3> QED BY <1>1, <2>1, <2>3, <3>1 DEF WithoutKey
  <2>4. CASE list # <<>>
    <3>1. Len(list) \in 1..Len(list) /\ Len(list) - 1 \in 0..Len(list)
      BY <1>1, <2>4, SequenceLen DEF Segments
    <3>2. SegmentIn(Back(list), q) BY <1>1, <3>1 DEF Segments, Back
    <3> DEFINE last == Back(list)
               rest == last.copy - caller.key.length
    <3>3. rest \in Int /\ last.start + rest <= q
      <4>1. last.copy \in Int /\ last.start \in Nat /\ last.start + last.copy <= q
        BY <3>2 DEF SegmentIn
      <4> HIDE DEF last
      <4> QED BY <1>1, <2>2, <4>1
    <3>4. Segments(SetBack(list, [last EXCEPT !.copy = rest]), q)
      <4> HIDE DEF rest
      <4> QED BY <1>1, <2>4, <3>3, SegmentsSetCopy
    <3>5. Segments(PopBack(list), q) BY <1>1, <3>1, SegmentsPrefix DEF PopBack
    <3> QED BY <1>1, <2>1, <2>4, <3>4, <3>5 DEF WithoutKey
  <2> QED BY <2>3, <2>4
<1> HIDE DEF caller, dropped, entry
<1>7. PICK f : /\ stack' = SetBack(st, f) /\ Alike(caller, f) /\ FrameIn(f, q)
               /\ f.limit = caller.limit
  BY <1>5
<1>8. ASSUME NEW l, Segments(l, q) PROVE Bounds(SetBack(st, f), l, q)
  BY <1>1, <1>7, <1>8, BoundsSetBack DEF caller
<1> QED BY <1>6, <1>7, <1>8

\* The innermost call returns.
LEMMA ReturnBounds ==
  ASSUME Calls(stack), Len(stack) > 1, Bounds(stack, copies, pos),
         pos' \in Nat, pos <= pos', pos' <= Top.limit,
         NEW list, Segments(list, pos'), NEW n \in Nat, NEW p, Return(PopBack(stack), list, p, n)
  PROVE  Bounds(stack, copies, pos)'
<1>1. Calls(PopBack(stack)) BY CallsPop
<1>2. ASSUME NEW q, q = pos' PROVE Bounds(PopBack(stack), list, q)
  BY <1>2, BoundsPop DEF Top
<1>3. Bounds(PopBack(stack), list, pos') BY <1>2
<1>4. ASSUME NEW q, q = pos' PROVE Bounds(stack', copies', q)
  BY <1>1, <1>3, <1>4, CallerBounds
<1> QED BY <1>4

-------------------------------------------------------------------------------
(* The steps of a scan                                                         *)

\* A call that has its own TagCopy ends: it takes all its TagCopys back, or writes
\* the length into its own.
LEMMA EndSegments ==
  ASSUME Calls(stack), Listed(stack, copies), HasTagCopy(Top), Len(stack) > 1,
         Segments(copies, pos), NEW n \in Nat
  PROVE  /\ Segments(SubSeq(copies, 1, Top.index - 1), pos)
         /\ Segments([copies EXCEPT ![Top.index].length = n], pos)
         /\ Segments(PopBack(copies), pos)
<1>1. Top.index \in 1..Len(copies) /\ Len(copies) \in Nat BY TopListed
<1>2. Top.index - 1 \in 0..Len(copies) /\ Len(copies) - 1 \in 0..Len(copies) BY <1>1
<1> QED BY <1>1, <1>2, SegmentsPrefix, SegmentsSetLength DEF PopBack

\* It returns where it has ended.
LEMMA EndBounds ==
  ASSUME Calls(stack), Listed(stack, copies), HasTagCopy(Top), Len(stack) > 1,
         Bounds(stack, copies, pos), NEW list, NEW m \in Nat, NEW n \in Nat, NEW p,
         Return(PopBack(stack), list, p, n),
         \/ list = SubSeq(copies, 1, Top.index - 1) \/ list = PopBack(copies)
         \/ list = [copies EXCEPT ![Top.index].length = m],
         pos' \in Nat, pos <= pos', pos' <= Top.limit
  PROVE  Bounds(stack, copies, pos)'
<1>1. Segments(copies, pos) /\ pos \in Nat BY TopIn
<1>2. Segments(list, pos) BY <1>1, EndSegments
<1>3. Segments(list, pos') BY <1>1, <1>2, SegmentsLater
<1> QED BY <1>3, ReturnBounds

\* ScanField()
LEMMA ScanFieldBounds ==
  ASSUME Calls(stack), Listed(stack, copies), Bounds(stack, copies, pos), Data \in Seq(Nat),
         ExcludeField \/ IncludeField \/ EndMessage
  PROVE  Bounds(stack, copies, pos)'
<1>1. /\ pos \in Nat /\ Segments(copies, pos) /\ IsFrame(Top) /\ FrameIn(Top, pos)
      /\ Top.limit \in Nat /\ pos <= Top.limit
  BY TopIn
<1>2. CASE ExcludeField
  <2>1. EndHere \in Nat /\ pos <= EndHere /\ EndHere <= Top.limit
    BY <1>1, <1>2, EndHereIn DEF ExcludeField, AtField
  <2> QED BY <1>2, <2>1, MoveBounds DEF ExcludeField
<1>3. CASE IncludeField
  <2> DEFINE n == EndHere - pos
  <2>1. EndHere \in Nat /\ pos <= EndHere /\ EndHere <= Top.limit
    BY <1>1, <1>3, EndHereIn DEF IncludeField, AtField
  <2>2. /\ copies' = AddTagCopyOrRollToPrevious(copies, pos, n)
        /\ stack' = SetBack(stack, Grow(Top, n)) /\ pos' = EndHere
    BY <1>3 DEF IncludeField
  <2>3. n \in Nat /\ pos + n = EndHere BY <1>1, <2>1
  <2> HIDE DEF n
  <2>4. FrameIn(Top, EndHere) /\ Segments(copies, EndHere)
    BY <1>1, <2>1, FrameLater, SegmentsLater
  <2>5. Segments(AddTagCopyOrRollToPrevious(copies, pos, n), EndHere)
    BY <1>1, <2>1, <2>3, <2>4, SegmentsRoll
  <2>6. /\ Alike(Top, Grow(Top, n)) /\ FrameIn(Grow(Top, n), EndHere)
        /\ Grow(Top, n).limit = Top.limit
    BY <1>1, <2>3, <2>4, FrameGrows
  <2> QED BY <2>1, <2>2, <2>5, <2>6, GoOnBounds
<1>4. CASE EndMessage
  <2>1. HasTagCopy(Top) /\ Len(stack) > 1 /\ pos' = pos
    BY <1>4 DEF EndMessage, In, HasTagCopy
  <2>2. Top.result \in Nat BY <1>1 DEF FrameIn
  <2>3. PICK list, n : /\ Return(PopBack(stack), list, path, n)
                       /\ \/ list = SubSeq(copies, 1, Top.index - 1)
                          \/ list = [copies EXCEPT ![Top.index].length = Top.result]
                       /\ n = 0 \/ n = SizeWithTag(Top.result)
    BY <1>4 DEF EndMessage
  <2>4. n \in Nat BY <2>2, <2>3, SizeType
  <2> QED BY <1>1, <2>1, <2>2, <2>3, <2>4, EndBounds
<1> QED BY <1>2, <1>3, <1>4

\* A map entry has read its key.
Keyed(f, check, p, n) == [f EXCEPT !.key.found = TRUE, !.key.check = check,
                                   !.key.pos = p, !.key.length = n]

LEMMA KeyIn ==
  ASSUME NEW f, IsFrame(f), f.kind = "entry", NEW p \in Nat, FrameIn(f, p), NEW check,
         NEW q \in Nat, p <= q, q <= f.limit
  PROVE  LET g == Keyed(f, check, p, q - p)
         IN  Alike(f, g) /\ FrameIn(g, q) /\ g.limit = f.limit
<1> DEFINE n == q - p
           g == Keyed(f, check, p, n)
<1>1. n \in Nat /\ p + n = q OBVIOUS
<1> HIDE DEF n
<1>2. Alike(f, g) BY KeyedAlike DEF Keyed
<1>3. /\ g.limit = f.limit /\ g.tag = f.tag /\ g.start = f.start /\ g.result = f.result
      /\ g.url = f.url /\ g.value = f.value
      /\ g.key.pos = p /\ g.key.length = n /\ g.key.start = f.key.start
  BY DEF IsFrame, Keyed
<1> HIDE DEF g
<1>4. FrameIn(f, q) BY FrameLater
<1>5. f.key.start \in Nat /\ f.key.start <= p BY DEF FrameIn
<1>6. g.key.pos + g.key.length <= q /\ g.key.start + g.key.length <= q BY <1>1, <1>3, <1>5
<1>7. FrameIn(g, q) BY <1>1, <1>3, <1>4, <1>6 DEF FrameIn
<1> QED BY <1>2, <1>3, <1>7 DEF g, n

\* It includes its value, and counts it.
LEMMA AddedIn ==
  ASSUME NEW f, IsFrame(f), NEW p, FrameIn(f, p)
  PROVE  LET g == [f EXCEPT !.key.added = TRUE]
         IN  Alike(f, g) /\ FrameIn(g, p) /\ g.limit = f.limit
BY DEF IsFrame, Alike, FrameIn

\* ScanMapEntry()
LEMMA ScanMapEntryBounds ==
  ASSUME Calls(stack), Listed(stack, copies), Bounds(stack, copies, pos), Data \in Seq(Nat),
         EntryKey \/ ExcludeValue \/ IncludeValue \/ OtherEntryField \/ EndEntry \/ EndEntryEarly
  PROVE  Bounds(stack, copies, pos)'
<1>1. /\ pos \in Nat /\ Segments(copies, pos) /\ IsFrame(Top) /\ FrameIn(Top, pos)
      /\ Top.limit \in Nat /\ pos <= Top.limit
  BY TopIn
<1>2. CASE EntryKey
  <2>1. TagHere # 0 /\ Top.kind = "entry" BY <1>2 DEF EntryKey, AtEntryField, In
  <2>2. KeyEnd \in Nat /\ pos <= KeyEnd /\ KeyEnd <= Top.limit
    BY <1>1, <2>1, ValueHere DEF KeyEnd
  <2>3. PICK check : stack' = SetBack(stack, Keyed(Top, check, pos, KeyEnd - pos))
    BY <1>2 DEF EntryKey, Keyed
  <2>4. pos' = KeyEnd /\ copies' = copies BY <1>2 DEF EntryKey
  <2> DEFINE g == Keyed(Top, check, pos, KeyEnd - pos)
  <2>5. Alike(Top, g) /\ FrameIn(g, KeyEnd) /\ g.limit = Top.limit
    BY <1>1, <2>1, <2>2, KeyIn
  <2>6. Segments(copies, KeyEnd) BY <1>1, <2>2, SegmentsLater
  <2>7. stack' = SetBack(stack, g) BY <2>3
  <2> HIDE DEF g
  <2> QED BY <2>2, <2>4, <2>5, <2>6, <2>7, GoOnBounds
<1>3. CASE ExcludeValue \/ OtherEntryField
  <2>1. TagHere # 0 /\ UNCHANGED <<stack, copies>> /\ pos' = EndHere
    BY <1>3 DEF ExcludeValue, OtherEntryField, AtValue, AtEntryField
  <2>2. EndHere \in Nat /\ pos <= EndHere /\ EndHere <= Top.limit BY <1>1, <2>1, EndHereIn
  <2> QED BY <2>1, <2>2, MoveBounds
<1>4. CASE IncludeValue
  <2> DEFINE n == EndHere - pos
             kept == IF Top.key.added THEN PopBack(copies) ELSE copies
             keyed == IF Top.key.found
                      THEN AddTagCopyOrRollToPrevious(kept, Top.key.pos, Top.key.length)
                      ELSE kept
             m == IF Top.key.found THEN Top.key.length + n ELSE n
             g == [Grow(Top, m) EXCEPT !.key.added = TRUE]
  <2>1. /\ copies' = Append(keyed, Copying(pos, n)) /\ stack' = SetBack(stack, g)
        /\ pos' = EndHere
    BY <1>4 DEF IncludeValue
  <2>2. Top.kind = "entry" /\ TagHere # 0 BY <1>4 DEF IncludeValue, AtValue, AtEntryField, In
  <2>3. EndHere \in Nat /\ pos <= EndHere /\ EndHere <= Top.limit BY <1>1, <2>2, EndHereIn
  <2>4. n \in Nat /\ pos + n = EndHere BY <1>1, <2>3
  <2>5. Segments(kept, pos)
    <3>1. HasTagCopy(Top) /\ Len(stack) > 1 BY <2>2, TopListed DEF HasTagCopy
    <3>2. Segments(PopBack(copies), pos) BY <1>1, <3>1, EndSegments
    <3> QED BY <1>1, <3>2
  <2>6. /\ Top.key.pos \in Nat /\ Top.key.length \in Nat
        /\ Top.key.pos + Top.key.length <= pos
    BY <1>1 DEF FrameIn
  <2> HIDE DEF n, kept
  <2>7. Segments(keyed, pos) BY <1>1, <2>5, <2>6, SegmentsRoll
  <2>8. m \in Nat BY <2>4, <2>6
  <2> HIDE DEF keyed, m
  <2>9. Segments(Append(keyed, Copying(pos, n)), EndHere)
    <3>1. SegmentIn(Copying(pos, n), EndHere) BY <1>1, <2>3, <2>4, SegmentsMade
    <3>2. Segments(keyed, EndHere) BY <1>1, <2>3, <2>7, SegmentsLater
    <3> QED BY <3>1, <3>2, SegmentsAppend
  <2>10. Alike(Top, g) /\ FrameIn(g, EndHere) /\ g.limit = Top.limit
    <3> DEFINE f == Grow(Top, m)
    <3>1. FrameIn(Top, EndHere) BY <1>1, <2>3, FrameLater
    <3>2. Alike(Top, f) /\ FrameIn(f, EndHere) /\ f.limit = Top.limit
      BY <1>1, <2>8, <3>1, FrameGrows
    <3> HIDE DEF f
    <3>3. IsFrame(f) BY <3>2 DEF Alike
    <3>4. /\ Alike(f, [f EXCEPT !.key.added = TRUE])
          /\ FrameIn([f EXCEPT !.key.added = TRUE], EndHere)
          /\ [f EXCEPT !.key.added = TRUE].limit = f.limit
      BY <3>2, <3>3, AddedIn
    <3>5. g = [f EXCEPT !.key.added = TRUE] BY DEF f
    <3> HIDE DEF g
    <3> QED BY <3>2, <3>4, <3>5 DEF Alike
  <2> HIDE DEF g
  <2> QED BY <2>1, <2>3, <2>9, <2>10, GoOnBounds
<1>5. CASE EndEntry \/ EndEntryEarly
  <2>1. Top.kind = "entry" /\ CloseEntry /\ (pos' = pos \/ pos' = BehindTag)
    BY <1>5 DEF EndEntry, EndEntryEarly, In
  <2>2. HasTagCopy(Top) /\ Len(stack) > 1 BY <2>1, TopListed DEF HasTagCopy
  <2>3. pos' \in Nat /\ pos <= pos' /\ pos' <= Top.limit BY <1>1, <2>1, Here
  <2>4. Top.result \in Nat BY <1>1 DEF FrameIn
  <2>5. PICK list, p, n : /\ Return(PopBack(stack), list, p, n)
                          /\ \/ list = PopBack(copies)
                             \/ list = [copies EXCEPT ![Top.index].length = Top.result]
                          /\ n = 0 \/ n = SizeWithTag(Top.result)
    BY <2>1 DEF CloseEntry
  <2>6. n \in Nat BY <2>4, <2>5, SizeType
  <2> QED BY <2>2, <2>3, <2>4, <2>5, <2>6, EndBounds
<1> QED BY <1>2, <1>3, <1>4, <1>5

\* Two lists are put together.
LEMMA SegmentsConcat ==
  ASSUME NEW list, NEW new, NEW p, Segments(list, p), Segments(new, p)
  PROVE  Segments(list \o new, p)
<1> DEFINE l == list \o new
<1>1. /\ Sequence(l) /\ Len(l) = Len(list) + Len(new)
      /\ \A i \in 1..Len(list) : l[i] = list[i]
      /\ \A i \in 1..Len(new) : l[Len(list) + i] = new[i]
  BY SequenceConcat DEF Segments
<1>2. Len(list) \in Nat /\ Len(new) \in Nat BY SequenceLen DEF Segments
<1> HIDE DEF l
<1>3. ASSUME NEW i \in 1..Len(l) PROVE SegmentIn(l[i], p)
  <2>1. CASE i \in 1..Len(list) BY <1>1, <2>1 DEF Segments
  <2>2. CASE i \notin 1..Len(list)
    <3>1. i - Len(list) \in 1..Len(new) /\ Len(list) + (i - Len(list)) = i BY <1>1, <1>2, <2>2
    <3> QED BY <1>1, <3>1 DEF Segments
  <2> QED BY <2>1, <2>2
<1> QED BY <1>1, <1>3 DEF Segments, l

\* A new list of one, and of three.
LEMMA SegmentsNew ==
  ASSUME NEW p, NEW a, SegmentIn(a, p)
  PROVE  /\ Segments(<<>>, p) /\ Segments(<<a>>, p)
         /\ \A b, c : SegmentIn(b, p) /\ SegmentIn(c, p) => Segments(<<a, b, c>>, p)
<1>1. Segments(<<>>, p) BY SequenceEmpty DEF Segments
<1>2. Segments(<<a>>, p) BY SequenceOne DEF Segments
<1>3. ASSUME NEW b, NEW c, SegmentIn(b, p), SegmentIn(c, p) PROVE Segments(<<a, b, c>>, p)
  <2> DEFINE new == <<a, b, c>>
  <2>1. new \in Seq({a, b, c}) OBVIOUS
  <2>2. Len(new) = 3 /\ new[1] = a /\ new[2] = b /\ new[3] = c OBVIOUS
  <2>3. \A i \in 1..3 : i = 1 \/ i = 2 \/ i = 3 OBVIOUS
  <2> HIDE DEF new
  <2>4. Segments(new, p) BY <1>3, <2>1, <2>2, <2>3 DEF Sequence, Segments
  <2> QED BY <2>4 DEF new
<1> QED BY <1>1, <1>2, <1>3

\* An Any has read one of its fields.
LEMMA PartRead ==
  ASSUME NEW f, IsFrame(f), NEW p, FrameIn(f, p), NEW part, PartIn(part, p),
         DOMAIN part = {"tag", "start", "length", "bytes"}
  PROVE  /\ Alike(f, [f EXCEPT !.url = part]) /\ FrameIn([f EXCEPT !.url = part], p)
         /\ [f EXCEPT !.url = part].limit = f.limit
         /\ Alike(f, [f EXCEPT !.value = part]) /\ FrameIn([f EXCEPT !.value = part], p)
         /\ [f EXCEPT !.value = part].limit = f.limit
<1>1. ASSUME NEW g, g = [f EXCEPT !.url = part] \/ g = [f EXCEPT !.value = part]
      PROVE  Alike(f, g) /\ FrameIn(g, p) /\ g.limit = f.limit
  <2>1. Alike(f, g) BY <1>1 DEF IsFrame, Alike
  <2>2. /\ g.limit = f.limit /\ g.tag = f.tag /\ g.start = f.start /\ g.result = f.result
        /\ g.key = f.key /\ g.url \in {f.url, part} /\ g.value \in {f.value, part}
    BY <1>1 DEF IsFrame
  <2>3. FrameIn(g, p) BY <2>2 DEF FrameIn
  <2> QED BY <2>1, <2>2, <2>3
<1> QED BY <1>1

\* The Any leaves nothing behind.
LEMMA DropAnyBounds ==
  ASSUME Calls(stack), Len(stack) > 1, Bounds(stack, copies, pos), NEW total, NEW at,
         DropAny(total, at)
  PROVE  Bounds(stack, copies, pos)'
<1>1. pos \in Nat /\ Segments(copies, pos) /\ pos <= Top.limit /\ pos' = pos
  BY TopIn DEF DropAny
<1>2. Return(PopBack(stack), copies, path, 0) BY DEF DropAny
<1> QED BY <1>1, <1>2, ReturnBounds

\* ScanAnyField()
LEMMA ScanAnyBounds ==
  ASSUME Calls(stack), Bounds(stack, copies, pos), Data \in Seq(Nat),
         AnyField \/ IncludeAny \/ ExcludeAny \/ DropEmptyAny \/ KeepAny
  PROVE  Bounds(stack, copies, pos)'
<1>1. /\ pos \in Nat /\ Segments(copies, pos) /\ IsFrame(Top) /\ FrameIn(Top, pos)
      /\ Top.limit \in Nat /\ pos <= Top.limit
      /\ Top.kind # "message" => Len(stack) > 1
  BY TopIn, InnerCall DEF Top
<1>2. CASE AnyField
  <2> DEFINE end == EndOfString(Data, BehindTag, Top.limit)
             part == [tag |-> TagHere, start |-> pos, length |-> end - pos,
                      bytes |-> ReadString(Data, BehindTag, Top.limit)]
  <2>1. TagHere # 0 /\ copies' = copies BY <1>2 DEF AnyField
  <2>2. /\ end \in Nat /\ pos <= end /\ end <= Top.limit /\ TagHere \in Nat
        /\ ReadString(Data, BehindTag, Top.limit) \in Seq(Nat)
        /\ EndHere \in Nat /\ pos <= EndHere /\ EndHere <= Top.limit
    BY <1>1, <2>1, ValueHere, EndHereIn, Here
  <2>3. /\ pos' = IF Number \in {1, 2} THEN end ELSE EndHere
        /\ stack' = CASE Number = 1 -> SetBack(stack, [Top EXCEPT !.url = part])
                      [] Number = 2 -> SetBack(stack, [Top EXCEPT !.value = part])
                      [] OTHER      -> stack
    BY <1>2 DEF AnyField
  <2>4. DOMAIN part = {"tag", "start", "length", "bytes"} /\ PartIn(part, end)
    <3>1. end - pos \in Nat /\ pos + (end - pos) <= end BY <1>1, <2>2
    <3> QED BY <1>1, <2>2, <3>1 DEF PartIn
  <2> HIDE DEF part, end
  <2>5. Number = 1 => Number # 2 OBVIOUS
  <2>6. FrameIn(Top, end) /\ Segments(copies, end) BY <1>1, <2>2, FrameLater, SegmentsLater
  <2>7. CASE Number \in {1, 2}
    <3>1. pos' = end BY <2>3, <2>7
    <3>2. \/ stack' = SetBack(stack, [Top EXCEPT !.url = part])
          \/ stack' = SetBack(stack, [Top EXCEPT !.value = part])
      BY <2>3, <2>5, <2>7
    <3>3. \E f : /\ stack' = SetBack(stack, f) /\ Alike(Top, f) /\ FrameIn(f, end)
                 /\ f.limit = Top.limit
      <4> DEFINE f == [Top EXCEPT !.url = part]
                 g == [Top EXCEPT !.value = part]
      <4>1. /\ Alike(Top, f) /\ FrameIn(f, end) /\ f.limit = Top.limit
            /\ Alike(Top, g) /\ FrameIn(g, end) /\ g.limit = Top.limit
        BY <1>1, <2>4, <2>6, PartRead
      <4>2. stack' = SetBack(stack, f) \/ stack' = SetBack(stack, g) BY <3>2
      <4> HIDE DEF f, g
      <4> QED BY <4>1, <4>2
    <3> QED BY <2>1, <2>2, <2>6, <3>1, <3>3, GoOnBounds
  <2>8. CASE Number \notin {1, 2}
    <3>1. pos' = EndHere /\ stack' = stack BY <2>3, <2>8
    <3> QED BY <2>1, <2>2, <3>1, MoveBounds
  <2> QED BY <2>7, <2>8
<1>3. CASE IncludeAny
  <2> DEFINE n == pos - Top.start
  <2>1. /\ Return(PopBack(stack), AddTagCopyOrRollToPrevious(copies, Top.start, n), path, n)
        /\ pos' = pos /\ Len(stack) > 1
    BY <1>1, <1>3 DEF IncludeAny, AnyRead, In
  <2>2. Top.start \in Nat /\ n \in Nat /\ Top.start + n <= pos BY <1>1 DEF FrameIn
  <2> HIDE DEF n
  <2>3. Segments(AddTagCopyOrRollToPrevious(copies, Top.start, n), pos) BY <1>1, <2>2, SegmentsRoll
  <2> QED BY <1>1, <2>1, <2>2, <2>3, ReturnBounds
<1>4. CASE ExcludeAny \/ DropEmptyAny
  <2>1. DropAny(sum, tags) /\ Top.kind # "message"
    BY <1>4 DEF ExcludeAny, DropEmptyAny, EmptyAny, AnyRead, In
  <2> QED BY <1>1, <2>1, DropAnyBounds
<1>5. CASE KeepAny
  <2> DEFINE n == Top.url.length + SizeWithTag(Len(Top.value.bytes))
             a == Inserting(Top.tag, n)
             b == Copying(Top.url.start, Top.url.length)
             c == Scrubbed(Top.value.tag, Top.value.bytes)
  <2>1. /\ Return(PopBack(stack), copies \o <<a, b, c>>, path, SizeWithTag(n))
        /\ pos' = pos /\ Len(stack) > 1
    BY <1>1, <1>5 DEF KeepAny, In
  <2>2. /\ Top.tag \in Nat /\ Top.url.start \in Nat /\ Top.url.length \in Nat
        /\ Top.url.start + Top.url.length <= pos
        /\ Top.value.tag \in Nat /\ Top.value.bytes \in Seq(Nat)
    BY <1>1 DEF FrameIn, PartIn
  <2>3. n \in Nat /\ SizeWithTag(n) \in Nat
    <3>1. Len(Top.value.bytes) \in Nat BY <2>2
    <3>2. SizeWithTag(Len(Top.value.bytes)) \in Nat BY <3>1, SizeType
    <3>3. n \in Nat BY <2>2, <3>2
    <3> HIDE DEF n
    <3> QED BY <3>3, SizeType
  <2> HIDE DEF n
  <2>4. SegmentIn(a, pos) /\ SegmentIn(b, pos) /\ SegmentIn(c, pos)
    BY <1>1, <2>2, <2>3, SegmentsMade
  <2> HIDE DEF a, b, c
  <2>5. Segments(<<a, b, c>>, pos) BY <2>4, SegmentsNew
  <2>6. Segments(copies \o <<a, b, c>>, pos) BY <1>1, <2>5, SegmentsConcat
  <2> QED BY <1>1, <2>1, <2>3, <2>6, ReturnBounds
<1> QED BY <1>2, <1>3, <1>4, <1>5

\* The caller of a field that is partially included, with its key copied.
LEMMA CallerIn ==
  ASSUME Calls(stack), Bounds(stack, copies, pos), AtPartial
  PROVE  /\ TagHere # 0 /\ Segments(CallerCopies, pos)
         /\ \E g : /\ Alike(Top, g) /\ FrameIn(g, pos) /\ g.limit = Top.limit
                   /\ CallerStack = SetBack(stack, g)
<1>1. /\ pos \in Nat /\ Segments(copies, pos) /\ IsFrame(Top) /\ FrameIn(Top, pos)
  BY TopIn
<1>2. TagHere # 0 /\ (Top.kind = "message" \/ Top.kind = "entry")
  BY DEF AtPartial, AtValue, AtEntryField, AtField, In
<1>3. CASE Top.kind = "message"
  <2>1. CallerStack = SetBack(stack, Top) /\ CallerCopies = copies /\ Alike(Top, Top)
    BY <1>3, SetBackSame DEF CallerStack, CallerCopies, Top
  <2> QED BY <1>1, <1>2, <2>1
<1>4. CASE Top.kind = "entry"
  <2> DEFINE b == Rolls(copies, Top.key.start, Top.key.length)
             g == [Top EXCEPT !.key.rolled = b]
  <2>1. /\ CallerStack = SetBack(stack, g)
        /\ CallerCopies = AddTagCopyOrRollToPrevious(copies, Top.key.start, Top.key.length)
    BY <1>4 DEF CallerStack, CallerCopies
  <2>2. /\ Top.key.start \in Nat /\ Top.key.length \in Nat
        /\ Top.key.start + Top.key.length <= pos
    BY <1>1 DEF FrameIn
  <2>3. Segments(CallerCopies, pos) BY <1>1, <2>1, <2>2, SegmentsRoll
  <2> HIDE DEF b
  <2>4. Alike(Top, g) BY <1>1, FramesGrow DEF Grown
  <2>5. /\ g.limit = Top.limit /\ g.tag = Top.tag /\ g.start = Top.start
        /\ g.result = Top.result /\ g.url = Top.url /\ g.value = Top.value
        /\ g.key.pos = Top.key.pos /\ g.key.length = Top.key.length
        /\ g.key.start = Top.key.start
    BY <1>1 DEF IsFrame
  <2> HIDE DEF g
  <2>6. FrameIn(g, pos) BY <1>1, <2>5 DEF FrameIn
  <2> QED BY <1>2, <2>1, <2>3, <2>4, <2>5, <2>6
<1> QED BY <1>2, <1>3, <1>4

\* A frame that is made, at the position behind its length.
Made(kind, type, tag, start, limit, index, body) ==
  [Frame(kind, type, tag, start, limit, index) EXCEPT !.key.start = body, !.key.pos = body]

LEMMA FrameMade ==
  ASSUME NEW kind, NEW type, NEW tag \in Nat, NEW start \in Nat, NEW limit \in Nat, NEW index,
         NEW body \in Nat, start <= body, body <= limit
  PROVE  LET f == Made(kind, type, tag, start, limit, index, body)
         IN  IsFrame(f) /\ FrameIn(f, body) /\ f.limit = limit
<1> DEFINE g == Frame(kind, type, tag, start, limit, index)
           f == [g EXCEPT !.key.start = body, !.key.pos = body]
<1>1. IsFrame(g) BY FrameIsFrame
<1>2. /\ g.limit = limit /\ g.tag = tag /\ g.start = start /\ g.result = 0
      /\ g.key.length = 0 /\ g.url = NoPart /\ g.value = NoPart
  BY DEF Frame, NoKey
<1> HIDE DEF g
<1>3. /\ IsFrame(f) /\ f.limit = g.limit /\ f.tag = g.tag /\ f.start = g.start
      /\ f.result = g.result /\ f.url = g.url /\ f.value = g.value
      /\ f.key.start = body /\ f.key.pos = body /\ f.key.length = g.key.length
  BY <1>1 DEF IsFrame
<1>4. PartIn(NoPart, body)
  <2>1. <<>> \in Seq(Nat) OBVIOUS
  <2> QED BY <2>1 DEF PartIn, NoPart
<1> HIDE DEF f
<1>5. FrameIn(f, body) BY <1>2, <1>3, <1>4 DEF FrameIn
<1> QED BY <1>2, <1>3, <1>5 DEF f, g, Made

\* Enter()
LEMMA EnterBounds ==
  ASSUME Calls(stack), Bounds(stack, copies, pos), Data \in Seq(Nat), AtPartial,
         NEW kind, NEW type, NEW list, Enter(kind, type, list), list = OwnTag \/ list = <<>>
  PROVE  Bounds(stack, copies, pos)'
<1> DEFINE body == AfterVarint(Data, BehindTag, Top.limit)
           limit == EndOfLength(Data, BehindTag, Top.limit)
           l == CallerCopies \o list
           f == Made(kind, type, TagHere, pos, limit, Len(l), body)
<1>1. /\ pos \in Nat /\ Segments(copies, pos) /\ IsFrame(Top) /\ FrameIn(Top, pos)
      /\ Top.limit \in Nat /\ pos <= Top.limit /\ TagHere # 0 /\ TagHere \in Nat
      /\ Segments(CallerCopies, pos)
  BY TopIn, Here, CallerIn
<1>2. PICK g : /\ Alike(Top, g) /\ FrameIn(g, pos) /\ g.limit = Top.limit
               /\ CallerStack = SetBack(stack, g)
  BY CallerIn
<1>3. /\ body \in Nat /\ pos <= body /\ body <= Top.limit
      /\ limit \in Nat /\ body <= limit /\ limit <= Top.limit
  BY <1>1, ValueHere
<1>4. stack' = Append(CallerStack, f) /\ copies' = l /\ pos' = body BY DEF Enter, Made
<1> HIDE DEF body, limit, l
<1>5. IsFrame(f) /\ FrameIn(f, body) /\ f.limit = limit BY <1>1, <1>3, FrameMade
<1> HIDE DEF f
<1>6. /\ Calls(CallerStack) /\ Back(CallerStack) = g BY <1>2, CallsBack DEF Top
<1>7. Bounds(CallerStack, CallerCopies, pos) BY <1>1, <1>2, BoundsSetBack DEF Top
<1>8. Segments(l, body)
  <2>1. Segments(CallerCopies, body) BY <1>1, <1>3, SegmentsLater
  <2>2. SegmentIn(Inserting(TagHere, 0), body) BY <1>1, <1>3, SegmentsMade
  <2>3. Segments(list, body) BY <2>2, SegmentsNew DEF OwnTag
  <2> QED BY <2>1, <2>3, SegmentsConcat DEF l
<1>9. Bounds(Append(CallerStack, f), l, body)
  BY <1>2, <1>3, <1>5, <1>6, <1>7, <1>8, BoundsAppend
<1> QED BY <1>4, <1>9

\* ScanChildField() and the loop over a packed enum.
LEMMA ScanChildBounds ==
  ASSUME Calls(stack), Listed(stack, copies), Bounds(stack, copies, pos), Data \in Seq(Nat),
         EnterAny \/ EnterMessage \/ EnterMap \/ EnterPacked \/ EnumValue \/ PackedValue
           \/ EndPacked
  PROVE  Bounds(stack, copies, pos)'
<1>1. /\ pos \in Nat /\ Segments(copies, pos) /\ IsFrame(Top) /\ FrameIn(Top, pos)
      /\ Top.limit \in Nat /\ pos <= Top.limit
  BY TopIn
<1>2. CASE EnterAny BY <1>2, EnterBounds DEF EnterAny, AtChild
<1>3. CASE EnterMessage BY <1>3, EnterBounds DEF EnterMessage, AtChild
<1>4. CASE EnterMap BY <1>4, EnterBounds DEF EnterMap, AtChild
<1>5. CASE EnterPacked BY <1>5, EnterBounds DEF EnterPacked, AtEnum
<1>6. CASE EnumValue
  <2> DEFINE end == AfterVarint(Data, BehindTag, Top.limit)
             n == end - pos
  <2>1. AtPartial BY <1>6 DEF EnumValue, AtEnum
  <2>2. TagHere # 0 /\ Segments(CallerCopies, pos) BY <2>1, CallerIn
  <2>3. PICK g : /\ Alike(Top, g) /\ FrameIn(g, pos) /\ g.limit = Top.limit
                 /\ CallerStack = SetBack(stack, g)
    BY <2>1, CallerIn
  <2>4. end \in Nat /\ pos <= end /\ end <= Top.limit BY <1>1, <2>2, ValueHere
  <2>5. n \in Nat /\ pos + n = end BY <1>1, <2>4
  <2>6. PICK list, m : /\ Return(CallerStack, list, CallerPath, m) /\ (m = n \/ m = 0)
                       /\ \/ list = CallerCopies
                          \/ list = AddTagCopyOrRollToPrevious(CallerCopies, pos, n)
    BY <1>6 DEF EnumValue
  <2>7. pos' = end BY <1>6 DEF EnumValue
  <2> HIDE DEF n, end
  <2>8. FrameIn(g, end) /\ Segments(CallerCopies, end)
    BY <1>1, <2>2, <2>3, <2>4, FrameLater, SegmentsLater
  <2>9. Segments(list, end) BY <1>1, <2>4, <2>5, <2>6, <2>8, SegmentsRoll
  <2>10. Calls(CallerStack) BY <2>3, CallsBack DEF Top
  <2>11. Bounds(CallerStack, list, end) BY <2>3, <2>4, <2>8, <2>9, BoundsSetBack DEF Top
  <2>12. m \in Nat BY <2>5, <2>6
  <2>13. Bounds(stack', copies', end) BY <2>6, <2>10, <2>11, <2>12, CallerBounds
  <2> QED BY <2>7, <2>13
<1>7. CASE PackedValue
  <2> DEFINE end == AfterVarint(Data, pos, Top.limit)
             n == end - pos
  <2>1. end \in Nat /\ pos <= end /\ end <= Top.limit BY <1>1, AfterVarintBounds
  <2>2. n \in Nat /\ pos + n = end BY <1>1, <2>1
  <2>3. /\ pos' = end
        /\ \/ UNCHANGED <<copies, stack>>
           \/ /\ copies' = AddTagCopyOrRollToPrevious(copies, pos, n)
              /\ stack' = SetBack(stack, Grow(Top, n))
    BY <1>7 DEF PackedValue
  <2> HIDE DEF n, end
  <2>4. FrameIn(Top, end) /\ Segments(copies, end)
    BY <1>1, <2>1, FrameLater, SegmentsLater
  <2>5. Segments(AddTagCopyOrRollToPrevious(copies, pos, n), end)
    BY <1>1, <2>1, <2>2, <2>4, SegmentsRoll
  <2>6. /\ Alike(Top, Grow(Top, n)) /\ FrameIn(Grow(Top, n), end)
        /\ Grow(Top, n).limit = Top.limit
    BY <1>1, <2>2, <2>4, FrameGrows
  <2> QED BY <2>1, <2>3, <2>5, <2>6, GoOnBounds, MoveBounds
<1>8. CASE EndPacked
  <2>1. HasTagCopy(Top) /\ Len(stack) > 1 /\ pos' = pos
    BY <1>8, TopListed DEF EndPacked, In, HasTagCopy
  <2>2. Top.result \in Nat BY <1>1 DEF FrameIn
  <2>3. Return(PopBack(stack), [copies EXCEPT ![Top.index].length = Top.result], path,
               SizeWithTag(Top.result))
    BY <1>8 DEF EndPacked
  <2>4. SizeWithTag(Top.result) \in Nat BY <2>2, SizeType
  <2> QED BY <1>1, <2>1, <2>2, <2>3, <2>4, EndBounds
<1> QED BY <1>2, <1>3, <1>4, <1>5, <1>6, <1>7, <1>8

-------------------------------------------------------------------------------
(* The invariant: each scrubber is inside its limits, those that wait for the  *)
(* one of an Any included, and what has been written so far are bytes.         *)

BoundsInv ==
  /\ phase \in {"idle", "scan", "sum", "copy", "ok", "error"}
  /\ message \in Seq(Nat) /\ pos \in Nat
  /\ IF phase \in {"scan", "sum"} THEN Bounds(stack, copies, pos)
     ELSE stack = <<>> /\ \E p \in Nat : Segments(copies, p)
  /\ output \in Seq(Nat) /\ written \in 0..Len(copies) /\ (phase # "copy" => written = 0)
  /\ \A i \in 1..Len(outer) :
       outer[i].value \in Seq(Nat) /\ Bounds(outer[i].stack, outer[i].copies, outer[i].pos)

\* The bytes that are scrubbed are those of the message or of the value of an Any.
LEMMA DataType == ASSUME PathInv, BoundsInv PROVE Data \in Seq(Nat)
<1>1. CASE outer = <<>> BY <1>1 DEF Data, BoundsInv
<1>2. CASE outer # <<>>
  <2>1. Len(outer) \in 1..Len(outer) BY <1>2, SequenceLen DEF PathInv
  <2> QED BY <1>2, <2>1 DEF Data, BoundsInv, Back
<1> QED BY <1>1, <1>2

\* Before it copies a scrubber has written nothing.
LEMMA NothingWritten ==
  ASSUME NEW p, Segments(copies', p), written' = 0
  PROVE  written' \in 0..Len(copies')
BY SequenceLen DEF Segments

\* A scrubber begins at the start, without a limit.
LEMMA RootBounds == ASSUME NEW type PROVE Bounds(Root(type), <<>>, 0)
<1> DEFINE f == Frame("message", type, 0, 0, NoLimit, 0)
           st == Root(type)
<1>1. Len(st) = 1 /\ st[1] = f BY SequenceOne DEF Root
<1>2. /\ f.limit = NoLimit /\ f.tag = 0 /\ f.start = 0 /\ f.result = 0
      /\ f.key = NoKey /\ f.url = NoPart /\ f.value = NoPart
  BY DEF Frame
<1>3. PartIn(NoPart, 0)
  <2>1. <<>> \in Seq(Nat) OBVIOUS
  <2> QED BY <2>1 DEF PartIn, NoPart
<1> HIDE DEF f, st
<1>4. FrameIn(f, 0) BY <1>2, <1>3 DEF FrameIn, NoKey, NoLimit
<1>5. Segments(<<>>, 0) BY SequenceEmpty DEF Segments
<1>6. \A i \in 1..Len(st) : FrameIn(st[i], 0) BY <1>1, <1>4
<1>7. 2..Len(st) = {} BY <1>1
<1> QED BY <1>5, <1>6, <1>7 DEF Bounds, st

\* A scan goes on.
LEMMA ScanBounds ==
  ASSUME BoundsInv, phase = "scan", Bounds(stack, copies, pos)', phase' = "scan",
         UNCHANGED <<message, outer, written, output>>
  PROVE  BoundsInv'
<1>1. pos' \in Nat /\ Segments(copies', pos') BY DEF Bounds
<1>2. written' = 0 BY DEF BoundsInv
<1>3. written' \in 0..Len(copies') BY <1>1, <1>2, NothingWritten
<1> QED BY <1>1, <1>2, <1>3 DEF BoundsInv

\* An error forgets all but the message.
LEMMA AbortBounds == ASSUME BoundsInv, Abort, UNCHANGED message PROVE BoundsInv'
<1>1. Segments(copies', 0) BY SequenceEmpty DEF Abort, Segments
<1>2. /\ phase' = "error" /\ stack' = <<>> /\ outer' = <<>> /\ pos' = 0
      /\ written' = 0 /\ output' = <<>>
  BY DEF Abort
<1>3. written' \in 0..Len(copies') BY <1>1, <1>2, NothingWritten
<1>4. <<>> \in Seq(Nat) /\ 1..Len(<<>>) = {} OBVIOUS
<1> QED BY <1>1, <1>2, <1>3, <1>4 DEF BoundsInv

\* The steps that leave calls and lists alone, but for the phase.
LEMMA PausedBounds ==
  ASSUME BoundsInv, UNCHANGED <<message, pos, stack, copies, outer, written, output>>,
         phase' \in {"scan", "sum"} <=> phase \in {"scan", "sum"},
         phase' \in {"idle", "scan", "sum", "copy", "ok", "error"},
         phase = "copy" <=> phase' = "copy"
  PROVE  BoundsInv'
BY DEF BoundsInv

\* The scrubber of an Any returns to the one that waits for it, with these bytes.
LEMMA AnyScrubbedBounds ==
  ASSUME PathInv, ListInv, BoundsInv, outer # <<>>, NEW value \in Seq(Nat), AnyScrubbed(value)
  PROVE  BoundsInv'
<1> DEFINE caller == Back(outer)
           top == Back(caller.stack)
           f == [top EXCEPT !.kind = "scrubbed", !.value.bytes = value]
<1>1. Len(outer) \in Nat /\ Len(outer) \in 1..Len(outer) BY SequenceLen DEF PathInv
<1>2. Waiting(caller) /\ Bounds(caller.stack, caller.copies, caller.pos)
  BY <1>1 DEF PathInv, BoundsInv, Back
<1>3. /\ Len(PopBack(outer)) = Len(outer) - 1
      /\ \A i \in 1..(Len(outer) - 1) : PopBack(outer)[i] = outer[i]
  <2>1. Sequence(outer) /\ Len(outer) - 1 \in 0..Len(outer) BY <1>1 DEF PathInv
  <2> QED BY <2>1, SequencePrefix DEF PopBack
<1>4. Calls(caller.stack) /\ top.kind = "any" BY <1>2 DEF Waiting, Unwinds
<1>5. IsFrame(top) BY <1>4, CallsBack
<1>6. FrameIn(top, caller.pos)
  <2>1. Len(caller.stack) \in 1..Len(caller.stack) BY <1>4, CallsBack
  <2> QED BY <1>2, <2>1 DEF Bounds, Back
<1>7. /\ stack' = SetBack(caller.stack, f) /\ copies' = caller.copies /\ pos' = caller.pos
      /\ phase' = "scan" /\ outer' = PopBack(outer) /\ message' = message
      /\ written' = 0 /\ output' = <<>>
  BY DEF AnyScrubbed
<1> HIDE DEF caller, top
<1>8. Alike(top, f) BY <1>4, <1>5 DEF IsFrame, Alike
<1>9. /\ f.limit = top.limit /\ f.tag = top.tag /\ f.start = top.start /\ f.result = top.result
      /\ f.key = top.key /\ f.url = top.url
      /\ f.value.tag = top.value.tag /\ f.value.start = top.value.start
      /\ f.value.length = top.value.length /\ f.value.bytes = value
  BY <1>5 DEF IsFrame
<1> HIDE DEF f
<1>10. FrameIn(f, caller.pos)
  <2>1. PartIn(f.value, caller.pos) BY <1>6, <1>9 DEF FrameIn, PartIn
  <2> QED BY <1>6, <1>9, <2>1 DEF FrameIn
<1>11. caller.pos \in Nat /\ Segments(caller.copies, caller.pos) BY <1>2 DEF Bounds
<1>12. Bounds(stack', copies', pos')
  BY <1>2, <1>4, <1>7, <1>8, <1>9, <1>10, <1>11, BoundsSetBack DEF top
<1>13. written' \in 0..Len(copies') BY <1>7, <1>11, NothingWritten
<1>14. \A i \in 1..Len(outer') : i \in 1..Len(outer) /\ outer'[i] = outer[i]
  BY <1>1, <1>3, <1>7
<1>15. <<>> \in Seq(Nat) OBVIOUS
<1> QED BY <1>7, <1>11, <1>12, <1>13, <1>14, <1>15 DEF BoundsInv

\* The scrubber of an Any begins with what the one that called it has read.
LEMMA ScrubAnyBounds == ASSUME PathInv, BoundsInv, ScrubAny PROVE BoundsInv'
<1> DEFINE s == [value |-> Top.value.bytes, depth |-> Depth + Len(path),
                 pos |-> pos, stack |-> stack, path |-> path, copies |-> copies]
<1>1. phase = "scan" /\ Calls(stack) /\ Bounds(stack, copies, pos)
  BY DEF PathInv, BoundsInv, Unwinds, ScrubAny, AnyRead, In
<1>2. s.value \in Seq(Nat) /\ Bounds(s.stack, s.copies, s.pos)
  BY <1>1, TopIn DEF FrameIn, PartIn
<1>3. /\ outer' = Append(outer, s) /\ phase' = "scan" /\ copies' = <<>> /\ pos' = 0
      /\ UNCHANGED <<message, written, output>> /\ \E type : stack' = Root(type)
  BY <1>1 DEF ScrubAny
<1> HIDE DEF s
<1>4. /\ Len(Append(outer, s)) = Len(outer) + 1 /\ Append(outer, s)[Len(outer) + 1] = s
      /\ \A i \in 1..Len(outer) : Append(outer, s)[i] = outer[i]
      /\ Len(outer) \in Nat
  BY SequenceAppend, SequenceLen DEF PathInv
<1>5. ASSUME NEW i \in 1..Len(outer')
      PROVE  /\ outer'[i].value \in Seq(Nat)
             /\ Bounds(outer'[i].stack, outer'[i].copies, outer'[i].pos)
  <2>1. CASE i = Len(outer) + 1 BY <1>2, <1>3, <1>4, <2>1
  <2>2. CASE i # Len(outer) + 1
    <3>1. i \in 1..Len(outer) /\ outer'[i] = outer[i] BY <1>3, <1>4, <2>2
    <3> QED BY <3>1 DEF BoundsInv
  <2> QED BY <2>1, <2>2
<1>6. Bounds(stack', copies', pos') /\ Segments(copies', pos') BY <1>3, RootBounds DEF Bounds
<1>7. written' = 0 BY <1>1, <1>3 DEF BoundsInv
<1>8. written' \in 0..Len(copies') BY <1>6, <1>7, NothingWritten
<1> QED BY <1>3, <1>5, <1>6, <1>7, <1>8 DEF BoundsInv

\* The size of what is written before a value is a number, or two.
LEMMA VarintType == ASSUME NEW n \in Nat PROVE Varint(n) \in Seq(Nat)
<1>1. VarintBase \in Nat /\ VarintBase > 0 BY VarintBaseAssumption
<1>2. n % VarintBase \in Nat /\ n \div VarintBase \in Nat BY <1>1
<1>3. 128 + (n % VarintBase) \in Nat BY <1>2
<1> QED BY <1>2, <1>3 DEF Varint

\* A segment is written: bytes that were read, or a tag, a length and a value.
LEMMA CopyBounds == ASSUME PathInv, BoundsInv, CopyNext PROVE BoundsInv'
<1>1. PICK i \in {written + 1} \cap 1..Len(copies) : Copy(copies[i]) BY DEF CopyNext
<1> DEFINE c == copies[i]
<1>2. phase = "copy" BY <1>1 DEF Copy
<1>3. PICK p \in Nat : Segments(copies, p) BY <1>2 DEF BoundsInv
<1>4. SegmentIn(c, p) /\ i = written + 1 /\ Len(copies) \in Nat
  BY <1>3, SequenceLen DEF Segments
<1>5. /\ c.tag \in Seq(Nat) /\ c.message \in Seq(Nat) /\ c.length \in Nat
      /\ c.start \in Nat /\ c.copy \in Int /\ output \in Seq(Nat)
  BY <1>4 DEF SegmentIn, BoundsInv
<1>6. CASE Fail BY <1>6, AbortBounds DEF Fail
<1>7. CASE ~Fail
  <2> DEFINE end == c.start + c.copy
             new == IF c.copy > 0 THEN SubSeq(Data, c.start + 1, end)
                                  ELSE c.tag \o Varint(c.length) \o c.message
  <2>1. /\ ~(c.copy > 0 /\ Len(Data) < end)
        /\ output' = output \o new /\ written' = written + 1
        /\ UNCHANGED <<message, phase, outer, pos, stack, copies>>
    BY <1>1, <1>7 DEF Copy
  <2>2. ASSUME c.copy > 0 PROVE new \in Seq(Nat)
    <3>1. Data \in Seq(Nat) /\ Len(Data) \in Nat BY DataType
    <3>2. c.copy > 0 /\ ~(Len(Data) < c.start + c.copy) BY <2>1, <2>2
    <3> DEFINE m == c.start + 1
    <3>3. new = SubSeq(Data, m, end) BY <2>2
    <3> HIDE DEF c, new
    <3>4. end \in Nat /\ end <= Len(Data) /\ m \in Nat /\ m >= 1
      <4> DEFINE length == Len(Data)
      <4>1. /\ c.start \in Nat /\ c.copy \in Int /\ length \in Nat
            /\ c.copy > 0 /\ ~(length < c.start + c.copy)
        BY <1>5, <3>1, <3>2
      <4> HIDE DEF length
      <4>2. /\ c.start + c.copy \in Nat /\ c.start + c.copy <= length
            /\ c.start + 1 \in Nat /\ c.start + 1 >= 1
        BY <4>1
      <4> QED BY <4>2 DEF length
    <3> HIDE DEF end, m
    <3>5. ASSUME NEW k \in m..end PROVE Data[k] \in Nat
      <4>1. k \in 1..Len(Data) BY <3>1, <3>4
      <4> QED BY <3>1, <4>1
    <3>6. SubSeq(Data, m, end) \in Seq(Nat) BY <3>1, <3>4, <3>5, SubSeqProperties
    <3> QED BY <3>3, <3>6
  <2>3. ASSUME ~(c.copy > 0) PROVE new \in Seq(Nat)
    <3>1. Varint(c.length) \in Seq(Nat) BY <1>5, VarintType
    <3>2. new = c.tag \o Varint(c.length) \o c.message BY <2>3
    <3> HIDE DEF c, new
    <3>3. c.tag \o Varint(c.length) \in Seq(Nat) BY <1>5, <3>1
    <3>4. c.tag \o Varint(c.length) \o c.message \in Seq(Nat) BY <1>5, <3>3
    <3> QED BY <3>2, <3>4
  <2>4. new \in Seq(Nat) BY <2>2, <2>3
  <2> HIDE DEF new
  <2>5. output' \in Seq(Nat) BY <1>5, <2>1, <2>4
  <2>6. written' \in 0..Len(copies') BY <1>4, <2>1 DEF BoundsInv
  <2> QED BY <1>2, <2>1, <2>5, <2>6 DEF BoundsInv
<1> QED BY <1>6, <1>7

\* A scrubber that runs keeps the invariant,
LEMMA RunningBounds == ASSUME PathInv, ListInv, BoundsInv, Running PROVE BoundsInv'
<1>1. phase = "scan" => Calls(stack) /\ Listed(stack, copies) /\ Bounds(stack, copies, pos)
  BY DEF PathInv, ListInv, BoundsInv, Unwinds
<1>2. Data \in Seq(Nat) BY DataType
<1>3. CASE AskForField \/ AskForValue \/ AskForAny
  BY <1>3, PausedBounds
  DEF AskForField, AskForValue, AskForAny, AnyRead, AtField, AtValue, AtEntryField, In, Staying
<1>4. CASE Fail BY <1>4, AbortBounds DEF Fail
<1>5. CASE ScanFieldStep
  <2>1. CASE ExcludeField \/ IncludeField \/ EndMessage
    <3>1. phase = "scan" /\ phase' = "scan" /\ UNCHANGED <<message, outer, written, output>>
      BY <2>1 DEF ExcludeField, IncludeField, EndMessage, AtField, In, Scanning, Staying
    <3> QED BY <1>1, <1>2, <2>1, <3>1, ScanFieldBounds, ScanBounds
  <2>2. CASE EndRoot
    <3>1. /\ phase = "scan" /\ phase' \in {"ok", "copy"} /\ stack' = <<>> /\ pos' = 0
          /\ (copies' = <<>> \/ copies' = copies) /\ UNCHANGED <<message, outer, written, output>>
      BY <2>2 DEF EndRoot, In, Staying
    <3>2. \E p \in Nat : Segments(copies', p)
      BY <1>1, <3>1, SequenceEmpty DEF Bounds, Segments
    <3>3. written' = 0 BY <3>1 DEF BoundsInv
    <3>4. written' \in 0..Len(copies') BY <3>2, <3>3, NothingWritten
    <3> QED BY <3>1, <3>2, <3>3, <3>4 DEF BoundsInv
  <2>3. CASE ExcludeFieldError \/ UnknownPartialError \/ NotConsumedError
    BY <1>4, <2>3 DEF ExcludeFieldError, UnknownPartialError, NotConsumedError
  <2> QED BY <1>3, <1>5, <2>1, <2>2, <2>3 DEF ScanFieldStep
<1>6. CASE ScanMapEntryStep
  <2>1. CASE ExcludeValueError BY <1>4, <2>1 DEF ExcludeValueError
  <2>2. CASE ~(ExcludeValueError \/ AskForValue)
    <3>1. /\ phase = "scan" /\ phase' = "scan" /\ UNCHANGED <<message, outer, written, output>>
          /\ \/ EntryKey \/ ExcludeValue \/ IncludeValue \/ OtherEntryField \/ EndEntry
             \/ EndEntryEarly
      BY <1>6, <2>2 DEF ScanMapEntryStep, EntryKey, ExcludeValue, IncludeValue, OtherEntryField,
                        EndEntry, EndEntryEarly, AtValue, AtEntryField, In, Scanning, Staying
    <3> QED BY <1>1, <1>2, <3>1, ScanMapEntryBounds, ScanBounds
  <2> QED BY <1>3, <2>1, <2>2
<1>7. CASE ScanAnyStep
  <2>1. CASE AnyField \/ IncludeAny \/ ExcludeAny \/ DropEmptyAny \/ KeepAny
    <3>1. phase = "scan" /\ phase' = "scan" /\ UNCHANGED <<message, outer, written, output>>
      BY <2>1 DEF AnyField, IncludeAny, ExcludeAny, DropEmptyAny, EmptyAny, KeepAny, AnyRead, In,
                  Scanning, Staying
    <3> QED BY <1>1, <1>2, <2>1, <3>1, ScanAnyBounds, ScanBounds
  <2>2. CASE EnterAny
    <3>1. phase = "scan" /\ phase' = "scan" /\ UNCHANGED <<message, outer, written, output>>
      BY <2>2 DEF EnterAny, AtChild, AtPartial, AtValue, AtEntryField, AtField, In, Enter,
                  Scanning, Staying
    <3> QED BY <1>1, <1>2, <2>2, <3>1, ScanChildBounds, ScanBounds
  <2>3. CASE EndRootOfAny BY <1>2, <2>3, AnyScrubbedBounds DEF EndRootOfAny
  <2>4. CASE ReplaceInAny
    <3>1. output \in Seq(Nat) BY DEF BoundsInv
    <3> QED BY <2>4, <3>1, AnyScrubbedBounds DEF ReplaceInAny
  <2>5. CASE ExcludeAnyError BY <1>4, <2>5 DEF ExcludeAnyError
  <2>6. CASE ScrubAny BY <2>6, ScrubAnyBounds
  <2> QED BY <1>3, <1>7, <2>1, <2>2, <2>3, <2>4, <2>5, <2>6 DEF ScanAnyStep
<1>8. CASE ScanChildStep
  <2>1. CASE UntypedChildError \/ EnumValueError
    BY <1>4, <2>1 DEF UntypedChildError, EnumValueError
  <2>2. CASE ~(UntypedChildError \/ EnumValueError)
    <3>1. EnterMessage \/ EnterMap \/ EnterPacked \/ EnumValue \/ PackedValue \/ EndPacked
      BY <1>8, <2>2 DEF ScanChildStep
    <3>2. phase = "scan" /\ phase' = "scan" /\ UNCHANGED <<message, outer, written, output>>
      BY <3>1 DEF EnterMessage, EnterMap, EnterPacked, EnumValue, PackedValue, EndPacked, Enter,
                  AtChild, AtEnum, AtPartial, AtValue, AtEntryField, AtField, In, Scanning, Staying
    <3> QED BY <1>1, <1>2, <3>1, <3>2, ScanChildBounds, ScanBounds
  <2> QED BY <2>1, <2>2
<1>9. CASE CopyNext BY <1>9, CopyBounds
<1>10. CASE Replace
  <2>1. /\ message' = output /\ phase' = "ok" /\ copies' = <<>> /\ written' = 0
        /\ output' = <<>> /\ outer' = outer /\ pos' = pos /\ stack' = stack
        /\ phase = "copy"
    BY <1>10 DEF Replace, Copied
  <2>2. Segments(copies', 0) BY <2>1, SequenceEmpty DEF Segments
  <2>3. written' \in 0..Len(copies') BY <2>1, <2>2, NothingWritten
  <2>4. <<>> \in Seq(Nat) OBVIOUS
  <2> QED BY <2>1, <2>2, <2>3, <2>4 DEF BoundsInv
<1> QED BY <1>5, <1>6, <1>7, <1>8, <1>9, <1>10 DEF Running

\* and so does every step there is.
LEMMA BoundsStep == ASSUME PathInv, ListInv, BoundsInv, [Next]_vars PROVE BoundsInv'
<1>1. CASE Scrub
  <2>1. /\ phase' \in {"ok", "scan"} /\ pos' = 0 /\ copies' = <<>> /\ outer' = <<>>
        /\ written' = 0 /\ output' = <<>> /\ message' = message
        /\ IF phase' = "scan" THEN \E type : stack' = Root(type) ELSE stack' = <<>>
    BY <1>1 DEF Scrub
  <2>2. Segments(copies', 0) BY <2>1, SequenceEmpty DEF Segments
  <2>3. written' \in 0..Len(copies') BY <2>1, <2>2, NothingWritten
  <2>4. phase' = "scan" => Bounds(stack', copies', pos') BY <2>1, RootBounds
  <2>5. <<>> \in Seq(Nat) /\ 1..Len(<<>>) = {} OBVIOUS
  <2> QED BY <2>1, <2>2, <2>3, <2>4, <2>5 DEF BoundsInv
<1>2. ASSUME NEW c \in Filters, AddFieldFilter(c) PROVE BoundsInv'
  BY <1>2, PausedBounds DEF AddFieldFilter, Between
<1>3. CASE UNCHANGED vars BY <1>3, PausedBounds DEF vars, BoundsInv
<1> QED BY <1>1, <1>2, <1>3, RunningBounds DEF Next

\* The message that is given to the first call is one.
LEMMA BoundsInit == Init => BoundsInv
<1> SUFFICES ASSUME Init PROVE BoundsInv OBVIOUS
<1>1. /\ phase = "idle" /\ pos = 0 /\ stack = <<>> /\ copies = <<>> /\ outer = <<>>
      /\ written = 0 /\ output = <<>> /\ message \in Seq(Nat)
  BY MessagesAssumption DEF Init
<1>2. Segments(copies, 0) /\ Len(copies) = 0 BY <1>1, SequenceEmpty DEF Segments
<1>3. <<>> \in Seq(Nat) /\ 1..Len(<<>>) = {} OBVIOUS
<1> QED BY <1>1, <1>2, <1>3 DEF BoundsInv

\* Calls that are inside their limits, with their TagCopys in the list.
LEMMA BoundsInside ==
  ASSUME NEW st, NEW list, NEW p, Calls(st), Listed(st, list), Bounds(st, list, p)
  PROVE  Inside(st, list, p)
<1>1. Len(st) \in Nat /\ Len(list) \in Nat BY ListedTop
<1>2. ASSUME NEW i \in 1..Len(st) PROVE p <= st[i].limit /\ st[i].index \in 0..Len(list)
  <2>1. p <= st[i].limit BY FrameLimit DEF Bounds
  <2>2. st[i].index \in Nat /\ Floor(st[i]) <= Len(list) BY DEF Listed
  <2>3. st[i].index <= Floor(st[i]) /\ Floor(st[i]) \in Nat BY <2>2, FloorBase
  <2> QED BY <1>1, <2>1, <2>2, <2>3
<1>3. ASSUME NEW i \in 2..Len(st)
      PROVE  st[i].limit <= st[i - 1].limit /\ st[i].index >= st[i - 1].index
  <2>1. i - 1 \in 1..(i - 1) BY <1>1
  <2>2. st[i].limit <= st[i - 1].limit BY <2>1 DEF Bounds
  <2>3. /\ st[i - 1].index \in Nat /\ Floor(st[i - 1]) \in Nat
        /\ st[i - 1].index <= Floor(st[i - 1])
        /\ Base(st[i - 1], st[i]) \in Int /\ Floor(st[i - 1]) <= Base(st[i - 1], st[i])
        /\ st[i].index \in Nat /\ Base(st[i - 1], st[i]) <= st[i].index
    BY <2>1, ListedOrder
  <2> QED BY <2>2, <2>3
<1>4. \A i \in 1..Len(list) : list[i].start + list[i].copy <= p
  BY DEF Bounds, Segments, SegmentIn
<1> QED BY <1>2, <1>3, <1>4 DEF Inside

\* So all scrubbers are where they should be.
LEMMA InvTypes == ASSUME PathInv, ListInv, BoundsInv PROVE TypeOK
<1>1. IF phase \in {"scan", "sum"} THEN Inside(stack, copies, pos) ELSE stack = <<>>
  BY BoundsInside DEF PathInv, ListInv, BoundsInv, Unwinds
<1>2. ASSUME NEW i \in 1..Len(outer) PROVE Inside(outer[i].stack, outer[i].copies, outer[i].pos)
  BY BoundsInside DEF PathInv, ListInv, BoundsInv, Waiting, Unwinds
<1> QED BY <1>1, <1>2 DEF TypeOK, BoundsInv

\* A scrubber stays inside the limits that it has pushed, whatever bytes it is given and
\* whatever the checkers say; it copies only what it has read, and writes bytes.
THEOREM ScrubTypes == Spec => []TypeOK
<1>1. Init => ListInv BY SequenceEmpty DEF Init, ListInv
<1>2. [Next]_vars => [SumNext]_vars BY DEF SumNext
<1> QED BY <1>1, <1>2, PathInit, PathStep, ListStep, BoundsInit, BoundsStep, InvTypes, PTL DEF Spec

-------------------------------------------------------------------------------
(* With the checksummer: it begins at the scrubber's position, behind nothing  *)
(* that has been read, and stops inside the limit of the call that asked for   *)
(* the field or the value, where the scan goes on.                             *)

AsksForField == phase = "sum" /\ Top.kind \in {"message", "entry"}

StopsBehind ==
  AsksForField => \E low, high : low = pos /\ high = Top.limit /\ CP!Stops(low, high)

\* The scrubber's own steps ask the checksummer, which has nothing to do until then.
LEMMA NextAsks ==
  ASSUME PathInv, TagsInv, Next, phase' = "sum"
  PROVE  phase # "sum" /\ sumPhase' = "idle"
<1>1. ~Scrub BY DEF Scrub
<1>2. \A c \in Filters : ~AddFieldFilter(c) BY DEF AddFieldFilter, Between
<1>3. Running BY <1>1, <1>2 DEF Next
<1>4. phase \in {"scan", "copy"} BY <1>3, RunningPhase
<1>5. RunsOn BY <1>3, RunningSteps DEF PathInv
<1>6. AskForField \/ AskForValue \/ AskForAny
  <2>1. ~ScanStep
    BY <1>4 DEF ScanStep, Amid, GoesOn, GoesOnWith, MakesCall, CallsFrom, Returns, ReturnsTo
  <2>2. ~ScrubAny /\ ~AnyReturns BY <1>4 DEF ScrubAny, AnyReturns, AnyScrubbed
  <2>3. ~EndRoot /\ ~Replace /\ ~Fail BY DEF EndRoot, Replace, Copied, Fail, Abort
  <2>4. ~Copies BY <1>4 DEF Copies
  <2> QED BY <1>5, <2>1, <2>2, <2>3, <2>4 DEF RunsOn
<1>7. sumPhase' = sumPhase BY <1>6 DEF AskForField, AskForValue, AskForAny, checksummer
<1> QED BY <1>4, <1>7 DEF TagsInv

\* The checksummer is called, and runs.
LEMMA CallStops ==
  ASSUME PathInv, TagsInv, BoundsInv, StopsBehind, CallChecksummer \/ ChecksummerStep
  PROVE  BoundsInv' /\ StopsBehind'
<1>1. phase = "sum" /\ UNCHANGED scrubber BY DEF CallChecksummer, ChecksummerStep
<1>2. /\ UNCHANGED <<message, phase, outer, pos, stack, copies, written, output>>
  BY <1>1 DEF scrubber
<1>3. BoundsInv' BY <1>2, PausedBounds DEF BoundsInv
<1>4. Data \in Seq(Nat) /\ Data' = Data BY <1>2, DataType DEF Data
<1>5. Calls(stack) /\ Bounds(stack, copies, pos)
  BY <1>1 DEF PathInv, Unwinds, BoundsInv
<1>6. ASSUME AsksForField PROVE StopsBehind'
  <2>1. PICK low, high : low = pos /\ high = Top.limit /\ CP!Stops(low, high)
    BY <1>6 DEF StopsBehind
  <2>2. low \in Nat /\ high \in Nat /\ low <= high BY <1>5, <2>1, TopIn
  <2>3. PICK base : CP!Handed(base) BY <1>1 DEF TagsInv, Handed
  <2>4. ASSUME CallChecksummer PROVE CP!Stops(low, high)'
    <3>1. PICK type : C!Start("single", type, low, high)
      BY <1>6, <2>1, <2>4 DEF CallChecksummer, AsksForField
    <3> QED BY <1>4, <2>2, <3>1, SameCalls, SumAssumptions, CP!StartStops
  <2>5. ASSUME ChecksummerStep PROVE CP!Stops(low, high)'
    BY <1>4, <2>1, <2>2, <2>3, <2>5, SameSteps, SumAssumptions, CP!RunningStops
    DEF ChecksummerStep
  <2>6. CP!Stops(low, high)' BY <2>4, <2>5
  <2>7. low = pos' /\ high = Top'.limit BY <1>2, <2>1 DEF Top
  <2> QED BY <2>6, <2>7 DEF StopsBehind
<1>7. ASSUME ~AsksForField PROVE StopsBehind' BY <1>2, <1>7 DEF StopsBehind, AsksForField, Top
<1> QED BY <1>3, <1>6, <1>7

\* It answers, and the scan goes on where it has stopped.
LEMMA AnswerStops ==
  ASSUME PathInv, BoundsInv, StopsBehind,
         FieldSummed \/ ValueSummed \/ AnySummed \/ SumError
  PROVE  BoundsInv' /\ phase' # "sum"
<1>1. phase = "sum" BY DEF FieldSummed, ValueSummed, AnySummed, SumError, Answered
<1>2. Calls(stack) /\ Bounds(stack, copies, pos)
  BY <1>1 DEF PathInv, Unwinds, BoundsInv
<1>3. ASSUME phase' = "scan", Bounds(stack, copies, pos)', UNCHANGED <<message, outer, written, output>>
      PROVE  BoundsInv'
  <2>1. pos' \in Nat /\ Segments(copies', pos') BY <1>3 DEF Bounds
  <2>2. written' = 0 BY <1>1, <1>3 DEF BoundsInv
  <2>3. written' \in 0..Len(copies') BY <2>1, <2>2, NothingWritten
  <2> QED BY <1>3, <2>1, <2>2, <2>3 DEF BoundsInv
<1>4. CASE FieldSummed \/ ValueSummed
  <2>1. /\ phase' = "scan" /\ sumPhase = "ok" /\ AsksForField /\ pos' \in {position, sumPos}
        /\ UNCHANGED <<message, outer, stack, copies, written, output>>
    BY <1>1, <1>4 DEF FieldSummed, ValueSummed, Answered, Staying, AsksForField
  <2>2. PICK low, high : low = pos /\ high = Top.limit /\ CP!Stops(low, high)
    BY <2>1 DEF StopsBehind
  <2>3. pos' \in Nat /\ pos <= pos' /\ pos' <= Top.limit BY <2>1, <2>2 DEF CP!Stops
  <2>4. Bounds(stack, copies, pos)' BY <1>2, <2>1, <2>3, MoveBounds
  <2> QED BY <1>3, <2>1, <2>4
<1>5. CASE AnySummed
  <2>1. /\ phase' = "scan" /\ UNCHANGED <<message, outer, written, output>>
        /\ \E total, at : DropAny(total, at)
    BY <1>5 DEF AnySummed, Staying
  <2>2. Len(stack) > 1 BY <1>1, <1>5, AnySummedReturns DEF PathInv
  <2>3. Bounds(stack, copies, pos)' BY <1>2, <2>1, <2>2, DropAnyBounds
  <2> QED BY <1>3, <2>1, <2>3
<1>6. CASE SumError
  <2>1. Abort /\ UNCHANGED message BY <1>6 DEF SumError
  <2> QED BY <2>1, AbortBounds DEF Abort
<1> QED BY <1>4, <1>5, <1>6

\* Each step of the two keeps the scrubber where it should be.
LEMMA SumBoundsStep ==
  ASSUME PathInv, ListInv, TagsInv, BoundsInv, StopsBehind, [SumNext]_vars
  PROVE  BoundsInv' /\ StopsBehind'
<1>1. CASE Next
  <2>1. BoundsInv' BY <1>1, BoundsStep
  <2>2. ASSUME phase' = "sum" PROVE StopsBehind'
    <3>1. sumPhase' = "idle" BY <1>1, <2>2, NextAsks
    <3>2. \A low, high : CP!Stops(low, high)' BY <3>1 DEF CP!Stops
    <3> QED BY <3>2 DEF StopsBehind
  <2> QED BY <2>1, <2>2 DEF StopsBehind, AsksForField
<1>2. CASE Summing
  <2>1. CASE CallChecksummer \/ ChecksummerStep BY <2>1, CallStops
  <2>2. CASE FieldSummed \/ ValueSummed \/ AnySummed \/ SumError
    BY <2>2, AnswerStops DEF StopsBehind, AsksForField
  <2> QED BY <1>2, <2>1, <2>2 DEF Summing
<1>3. CASE UNCHANGED vars
  <2>1. BoundsInv' BY <1>3, BoundsStep
  <2>2. StopsBehind'
    BY <1>3 DEF vars, checksummer, StopsBehind, AsksForField, Top, Data, CP!Stops
  <2> QED BY <2>1, <2>2
<1> QED BY <1>1, <1>2, <1>3 DEF SumNext

\* The same when the scrubber calls the checksummer, which reads ahead and hands back the
\* position where the scan goes on: inside the limit, and behind nothing that has been read.
THEOREM SumTypes == SumSpec => []TypeOK
<1>1. Init => ListInv BY SequenceEmpty DEF Init, ListInv
<1>2. Init => TagsInv /\ StopsBehind BY DEF Init, TagsInv, StopsBehind, AsksForField
<1> QED
  BY <1>1, <1>2, PathInit, PathStep, ListStep, TagsStep, BoundsInit, SumBoundsStep, InvTypes, PTL
  DEF SumSpec
===============================================================================
