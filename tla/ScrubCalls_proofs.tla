--------------------------- MODULE ScrubCalls_proofs ---------------------------
(***************************************************************************)
(* What a call has put on the path it takes away again, and whatever is    *)
(* summed is summed with the tags of the calls in progress, however deep   *)
(* the calls and the scrubbers of Anys in them are.                        *)
(***************************************************************************)
EXTENDS ScrubWithChecksum, WireFormat_proofs

-------------------------------------------------------------------------------
(* Frames                                                                      *)

IsFrame(f) ==
  /\ DOMAIN f = {"kind", "type", "tag", "start", "limit", "index", "result", "key", "url", "value"}
  /\ DOMAIN f.key = {"found", "check", "pos", "length", "start", "added", "rolled"}
  /\ DOMAIN f.value = {"tag", "start", "length", "bytes"}
  /\ f.kind # "entry" => ~f.key.found

\* A frame goes on: what it counts may change, and what it knows of a key; that of
\* an Any also becomes "scrubbed".
Alike(f, g) ==
  /\ IsFrame(g) /\ g.type = f.type /\ g.tag = f.tag
  /\ g.kind = f.kind \/ (f.kind = "any" /\ g.kind = "scrubbed")

\* A frame that is made has the fields of one, and knows of no key.
LEMMA FrameIsFrame ==
  ASSUME NEW kind, NEW type, NEW tag, NEW start, NEW limit, NEW index
  PROVE  LET f == Frame(kind, type, tag, start, limit, index)
         IN  IsFrame(f) /\ f.kind = kind /\ f.type = type /\ f.tag = tag /\ ~f.key.found
BY DEF IsFrame, Frame, NoKey, NoPart

\* Adding to the result of a frame leaves its kind, type, tag and key alone.
LEMMA GrowAlike ==
  ASSUME NEW f, NEW n, IsFrame(f)
  PROVE  Alike(f, Grow(f, n)) /\ Grow(f, n).key = f.key
BY DEF IsFrame, Alike, Grow

\* So does forgetting the length of a key that was dropped.
LEMMA DroppedAlike ==
  ASSUME NEW f, NEW n, IsFrame(f) PROVE
  Alike(f, [f EXCEPT !.key.length = n]) /\ [f EXCEPT !.key.length = n].key.found = f.key.found
BY DEF IsFrame, Alike

\* A map entry that has read its key is still that entry, with a key.
LEMMA KeyedAlike ==
  ASSUME NEW f, IsFrame(f), f.kind = "entry", NEW check, NEW at, NEW n
  PROVE  LET g == [f EXCEPT !.key.found = TRUE, !.key.check = check,
                            !.key.pos = at, !.key.length = n]
         IN  Alike(f, g) /\ g.key.found = TRUE
<1> DEFINE key == [f.key EXCEPT !.found = TRUE, !.check = check, !.pos = at, !.length = n]
           g == [f EXCEPT !.key = key]
<1>1. DOMAIN key = DOMAIN f.key /\ key.found = TRUE BY DEF IsFrame
<1>2. /\ DOMAIN g = DOMAIN f /\ g.key = key
      /\ g.kind = f.kind /\ g.type = f.type /\ g.tag = f.tag /\ g.value = f.value
  BY DEF IsFrame
<1>3. g = [f EXCEPT !.key.found = TRUE, !.key.check = check, !.key.pos = at, !.key.length = n]
  BY DEF IsFrame
<1> HIDE DEF g, key
<1>4. IsFrame(g) BY <1>1, <1>2 DEF IsFrame
<1> QED BY <1>1, <1>2, <1>3, <1>4 DEF Alike

\* The calls of a scrubber: ScanField() of its message, and the calls in it.
Calls(st) ==
  /\ Sequence(st) /\ st # <<>> /\ st[1].kind = "message"
  /\ \A i \in 1..Len(st) : IsFrame(st[i])

\* A call that is no more than a field of its caller.
LEMMA InnerCall ==
  ASSUME NEW st, Calls(st), Back(st).kind # "message"
  PROVE  Len(st) > 1
BY SequenceLen DEF Calls, Back

\* The innermost call can be replaced by one that has gone on.
LEMMA CallsBack ==
  ASSUME NEW st, Calls(st)
  PROVE  /\ Len(st) \in Nat /\ Len(st) >= 1 /\ IsFrame(Back(st))
         /\ \A f : Alike(Back(st), f) =>
              /\ Calls(SetBack(st, f)) /\ Len(SetBack(st, f)) = Len(st)
              /\ Back(SetBack(st, f)) = f
              /\ \A i \in 1..(Len(st) - 1) : SetBack(st, f)[i] = st[i]
<1>1. Len(st) \in Nat /\ Len(st) >= 1 BY SequenceLen DEF Calls
<1>2. IsFrame(Back(st)) BY <1>1 DEF Calls, Back
<1>3. ASSUME NEW f, Alike(Back(st), f)
      PROVE  /\ Calls(SetBack(st, f)) /\ Len(SetBack(st, f)) = Len(st)
             /\ Back(SetBack(st, f)) = f
             /\ \A i \in 1..(Len(st) - 1) : SetBack(st, f)[i] = st[i]
  <2> DEFINE t == SetBack(st, f)
  <2>1. /\ Sequence(t) /\ Len(t) = Len(st) /\ t[Len(st)] = f
        /\ \A i \in 1..Len(st) : i # Len(st) => t[i] = st[i]
    <3>1. Sequence(st) /\ Len(st) \in 1..Len(st) BY <1>1 DEF Calls
    <3> QED BY <3>1, SequenceExcept DEF SetBack
  <2>2. t # <<>> BY <1>1, <2>1, SequenceLen
  <2>3. t[1].kind = "message" BY <1>1, <1>3, <2>1 DEF Calls, Alike, Back
  <2>4. \A i \in 1..Len(t) : IsFrame(t[i]) BY <1>1, <1>3, <2>1 DEF Calls, Alike
  <2> QED BY <1>1, <2>1, <2>2, <2>3, <2>4 DEF Calls, Back
<1> QED BY <1>1, <1>2, <1>3

\* A call can be made.
LEMMA CallsAppend ==
  ASSUME NEW st, Calls(st), NEW f, IsFrame(f)
  PROVE  /\ Calls(Append(st, f)) /\ Len(Append(st, f)) = Len(st) + 1
         /\ Back(Append(st, f)) = f
         /\ \A i \in 1..Len(st) : Append(st, f)[i] = st[i]
<1>1. Len(st) \in Nat /\ Len(st) >= 1 BY SequenceLen DEF Calls
<1> DEFINE t == Append(st, f)
<1>2. /\ Sequence(t) /\ Len(t) = Len(st) + 1 /\ t[Len(st) + 1] = f
      /\ \A i \in 1..Len(st) : t[i] = st[i]
  BY SequenceAppend DEF Calls
<1>3. t # <<>> BY <1>1, <1>2, SequenceLen
<1>4. \A i \in 1..Len(t) : IsFrame(t[i]) BY <1>1, <1>2 DEF Calls
<1> QED BY <1>1, <1>2, <1>3, <1>4 DEF Calls, Back

\* A call that is not the first can return.
LEMMA CallsPop ==
  ASSUME NEW st, Calls(st), Len(st) > 1
  PROVE  /\ Calls(PopBack(st)) /\ Len(PopBack(st)) = Len(st) - 1
         /\ \A i \in 1..(Len(st) - 1) : PopBack(st)[i] = st[i]
<1>1. Len(st) \in Nat BY SequenceLen DEF Calls
<1> DEFINE t == PopBack(st)
<1>2. Sequence(t) /\ Len(t) = Len(st) - 1 /\ \A i \in 1..(Len(st) - 1) : t[i] = st[i]
  BY <1>1, SequencePrefix DEF Calls, PopBack
<1>3. t # <<>> BY <1>1, <1>2, SequenceLen
<1>4. \A i \in 1..Len(t) : IsFrame(t[i]) BY <1>1, <1>2 DEF Calls
<1> QED BY <1>1, <1>2, <1>3, <1>4 DEF Calls

\* A scrubber begins with the one call of its message.
LEMMA CallsRoot ==
  ASSUME NEW type
  PROVE  /\ Calls(Root(type)) /\ Len(Root(type)) = 1 /\ Back(Root(type)) = Root(type)[1]
         /\ IsFrame(Root(type)[1]) /\ ~Root(type)[1].key.found
BY SequenceOne, SequenceLen, FrameIsFrame DEF Calls, Root, Back

-------------------------------------------------------------------------------
(* What the calls have put on the path: a caller the name of the field that is *)
(* scanned, unless it is a Value or a map entry; a map entry its key.          *)

Pushed(f) == IF f.kind # "entry" /\ f.type # ValueType THEN 1 ELSE 0
Held(f) == IF f.key.found THEN 1 ELSE 0

\* d is the length of the path where each of the calls has begun.
Depths(st, d) ==
  /\ d \in [1..Len(st) -> Nat] /\ d[1] = 0
  /\ \A i \in 1..(Len(st) - 1) : d[i + 1] = d[i] + Held(st[i]) + Pushed(st[i])

Unwinds(st, p) ==
  /\ Calls(st) /\ Sequence(p)
  /\ \E d : Depths(st, d) /\ Len(p) = d[Len(st)] + Held(Back(st))

\* What a call has on the path is counted in natural numbers.
LEMMA HeldPushed == \A f : Held(f) \in Nat /\ Pushed(f) \in {0, 1}
BY DEF Held, Pushed

\* The innermost frame goes on.
LEMMA UnwindsSetBack ==
  ASSUME NEW st, NEW p, NEW f, NEW q, Unwinds(st, p), Alike(Back(st), f),
         Sequence(q), Len(q) + Held(Back(st)) = Len(p) + Held(f)
  PROVE  Unwinds(SetBack(st, f), q)
<1>1. PICK d : Depths(st, d) /\ Len(p) = d[Len(st)] + Held(Back(st)) BY DEF Unwinds
<1>2. /\ Calls(SetBack(st, f)) /\ Len(SetBack(st, f)) = Len(st) /\ Back(SetBack(st, f)) = f
      /\ \A i \in 1..(Len(st) - 1) : SetBack(st, f)[i] = st[i]
  BY CallsBack DEF Unwinds
<1>3. Depths(SetBack(st, f), d) BY <1>1, <1>2 DEF Depths
<1>4. Len(st) \in Nat /\ Len(st) >= 1 /\ Len(p) \in Nat /\ Len(q) \in Nat
  BY CallsBack, SequenceLen DEF Unwinds
<1>5. d[Len(st)] \in Nat /\ Held(f) \in Nat /\ Held(Back(st)) \in Nat
  BY <1>1, <1>4, HeldPushed DEF Depths
<1>6. Len(q) = d[Len(st)] + Held(f) BY <1>1, <1>4, <1>5
<1> QED BY <1>2, <1>3, <1>6 DEF Unwinds

\* A call begins, with the name of its field on the path.
LEMMA UnwindsAppend ==
  ASSUME NEW st, NEW p, NEW f, NEW q, Unwinds(st, p), IsFrame(f), ~f.key.found,
         Sequence(q), Len(q) = Len(p) + Pushed(Back(st))
  PROVE  Unwinds(Append(st, f), q)
<1>1. PICK d : Depths(st, d) /\ Len(p) = d[Len(st)] + Held(Back(st)) BY DEF Unwinds
<1>2. /\ Calls(Append(st, f)) /\ Len(Append(st, f)) = Len(st) + 1 /\ Back(Append(st, f)) = f
      /\ \A i \in 1..Len(st) : Append(st, f)[i] = st[i]
  BY CallsAppend DEF Unwinds
<1>3. Len(st) \in Nat /\ Len(st) >= 1 /\ Len(p) \in Nat /\ Len(q) \in Nat
  BY CallsBack, SequenceLen DEF Unwinds
<1> DEFINE e == [i \in 1..(Len(st) + 1) |-> IF i <= Len(st) THEN d[i] ELSE Len(q)]
<1>4. e \in [1..(Len(st) + 1) -> Nat] /\ e[1] = 0 BY <1>1, <1>3 DEF Depths
<1>5. ASSUME NEW i \in 1..Len(st)
      PROVE  e[i + 1] = e[i] + Held(Append(st, f)[i]) + Pushed(Append(st, f)[i])
  <2>1. CASE i < Len(st)
    <3>1. e[i + 1] = d[i + 1] /\ e[i] = d[i] BY <1>3, <2>1
    <3> QED BY <1>1, <1>2, <1>3, <2>1, <3>1 DEF Depths
  <2>2. CASE i = Len(st)
    <3>1. e[i + 1] = Len(q) /\ e[i] = d[i] BY <1>3, <2>2
    <3> QED BY <1>1, <1>2, <1>3, <2>2, <3>1 DEF Back
  <2> QED BY <1>3, <2>1, <2>2
<1>6. Depths(Append(st, f), e)
  <2>1. 1..(Len(Append(st, f)) - 1) = 1..Len(st) BY <1>2, <1>3
  <2> HIDE DEF e
  <2> QED BY <1>2, <1>4, <1>5, <2>1 DEF Depths
<1>7. Len(q) = e[Len(Append(st, f))] + Held(Back(Append(st, f)))
  BY <1>2, <1>3 DEF Held
<1> QED BY <1>2, <1>6, <1>7 DEF Unwinds

\* A call ends, and its caller is where it was when it made the call.
LEMMA UnwindsPop ==
  ASSUME NEW st, NEW p, NEW q, Unwinds(st, p), Len(st) > 1, Sequence(q),
         Len(q) + Pushed(Back(PopBack(st))) + Held(Back(st)) = Len(p)
  PROVE  Unwinds(PopBack(st), q)
<1>1. PICK d : Depths(st, d) /\ Len(p) = d[Len(st)] + Held(Back(st)) BY DEF Unwinds
<1>2. /\ Calls(PopBack(st)) /\ Len(PopBack(st)) = Len(st) - 1
      /\ \A i \in 1..(Len(st) - 1) : PopBack(st)[i] = st[i]
  BY CallsPop DEF Unwinds
<1>3. Len(st) \in Nat /\ Len(p) \in Nat /\ Len(q) \in Nat
  BY SequenceLen DEF Unwinds, Calls
<1> DEFINE k == Len(st) - 1
           e == [i \in 1..k |-> d[i]]
<1>4. k \in 1..k /\ k + 1 = Len(st) BY <1>3
<1>5. Back(PopBack(st)) = st[k] BY <1>2, <1>4 DEF Back
<1>6. Depths(PopBack(st), e) BY <1>1, <1>2, <1>3 DEF Depths
<1>7. d[k] \in Nat /\ d[Len(st)] = d[k] + Held(st[k]) + Pushed(st[k])
  BY <1>1, <1>4 DEF Depths
<1>8. Held(st[k]) \in Nat /\ Pushed(st[k]) \in Nat /\ Held(Back(st)) \in Nat BY HeldPushed
<1>9. Len(q) = e[k] + Held(st[k])
  <2>1. e[k] = d[k] BY <1>4
  <2>2. Len(q) + Pushed(st[k]) + Held(Back(st)) = d[k] + Held(st[k]) + Pushed(st[k]) + Held(Back(st))
    BY <1>1, <1>5, <1>7
  <2> HIDE DEF e, k
  <2> QED BY <1>3, <1>7, <1>8, <2>1, <2>2
<1> QED BY <1>2, <1>5, <1>6, <1>9 DEF Unwinds

-------------------------------------------------------------------------------
(* A step of a scan goes on with the innermost call, makes a call in it or     *)
(* returns from it.                                                            *)

Amid == phase = "scan" /\ phase' = "scan" /\ UNCHANGED <<outer, summing, checksummer>>

GoesOnWith(f) ==
  /\ Amid /\ UNCHANGED tags
  /\ Alike(Top, f) /\ stack' = SetBack(stack, f)
  /\ Sequence(path') /\ Len(path') + Held(Top) = Len(path) + Held(f)
GoesOn == \E f : GoesOnWith(f)

CallsFrom(g, f) ==
  /\ Amid /\ tags' = IF summing THEN Append(tags, CountedTag(f)) ELSE tags
  /\ Alike(Top, g) /\ g.key.found = Top.key.found
  /\ IsFrame(f) /\ ~f.key.found /\ stack' = Append(SetBack(stack, g), f)
  /\ Sequence(path') /\ Len(path') = Len(path) + Pushed(Top)
MakesCall == \E g, f : CallsFrom(g, f)

ReturnsTo(f) ==
  /\ Amid /\ tags' = IF summing THEN PopBack(tags) ELSE tags
  /\ Len(stack) > 1
  /\ LET caller == Back(PopBack(stack))
     IN  /\ Alike(caller, f) /\ f.key.found = caller.key.found
         /\ stack' = SetBack(PopBack(stack), f)
         /\ Sequence(path') /\ Len(path') + Pushed(caller) + Held(Top) = Len(path)
Returns == \E f : ReturnsTo(f)

ScanStep == GoesOn \/ MakesCall \/ Returns

\* Whatever step a scan makes, the path can be taken back after it.
LEMMA ScanStepUnwinds ==
  ASSUME Unwinds(stack, path), ScanStep
  PROVE  Unwinds(stack, path)'
<1>1. ASSUME NEW f, GoesOnWith(f) PROVE Unwinds(stack, path)'
  BY <1>1, UnwindsSetBack DEF GoesOnWith, Top
<1>2. ASSUME NEW g, NEW f, CallsFrom(g, f) PROVE Unwinds(stack, path)'
  <2>1. Unwinds(SetBack(stack, g), path)
    <3>1. Held(g) = Held(Top) BY <1>2 DEF CallsFrom, Held
    <3>2. Sequence(path) BY DEF Unwinds
    <3> QED BY <1>2, <3>1, <3>2, UnwindsSetBack DEF CallsFrom, Top
  <2>2. Back(SetBack(stack, g)) = g BY <1>2, CallsBack DEF CallsFrom, Unwinds, Top
  <2>3. Pushed(g) = Pushed(Top)
    BY <1>2 DEF CallsFrom, Pushed, Alike
  <2> QED BY <1>2, <2>1, <2>2, <2>3, UnwindsAppend DEF CallsFrom
<1>3. ASSUME NEW f, ReturnsTo(f) PROVE Unwinds(stack, path)'
  <2>1. Unwinds(PopBack(stack), path')
    BY <1>3, UnwindsPop DEF ReturnsTo, Top
  <2>2. Held(f) = Held(Back(PopBack(stack))) BY <1>3 DEF ReturnsTo, Held
  <2> QED BY <1>3, <2>1, <2>2, UnwindsSetBack DEF ReturnsTo
<1> QED BY <1>1, <1>2, <1>3 DEF ScanStep, GoesOn, MakesCall, Returns

\* Replacing the innermost frame by itself, or twice.
LEMMA SetBackSame ==
  ASSUME NEW st, Calls(st)
  PROVE  /\ Alike(Back(st), Back(st)) /\ SetBack(st, Back(st)) = st
         /\ \A f, g : Alike(Back(st), f) => SetBack(SetBack(st, f), g) = SetBack(st, g)
<1>1. Alike(Back(st), Back(st)) BY CallsBack DEF Alike
<1>2. /\ Sequence(st) /\ Len(st) \in 1..Len(st) /\ DOMAIN st = 1..Len(st)
  BY CallsBack, SequenceLen DEF Calls
<1>3. SetBack(st, Back(st)) = st
  <2>1. /\ Sequence(SetBack(st, Back(st))) /\ Len(SetBack(st, Back(st))) = Len(st)
        /\ \A i \in 1..Len(st) : SetBack(st, Back(st))[i] = st[i]
    BY <1>2, SequenceExcept DEF SetBack, Back
  <2> QED BY <1>2, <2>1, SequenceEqual
<1>4. ASSUME NEW f, NEW g, Alike(Back(st), f) PROVE SetBack(SetBack(st, f), g) = SetBack(st, g)
  <2>1. Calls(SetBack(st, f)) /\ Len(SetBack(st, f)) = Len(st) BY <1>4, CallsBack
  <2>2. Sequence(SetBack(st, f)) /\ Len(SetBack(st, f)) \in 1..Len(SetBack(st, f))
    BY <2>1, <1>2 DEF Calls
  <2> QED BY <1>2, <2>1, <2>2, SequenceExcept, SequenceEqual DEF SetBack
<1> QED BY <1>1, <1>3, <1>4

\* A step that changes neither calls nor path lets the innermost call go on.
LEMMA StackStays ==
  ASSUME Calls(stack), Sequence(path), Amid, UNCHANGED <<stack, path, tags>>
  PROVE  GoesOn
BY SetBackSame DEF GoesOn, GoesOnWith, Top

\* What Return() does with a caller and a path.
LEMMA ReturnGoes ==
  ASSUME NEW st, NEW list, NEW p, NEW n, Calls(st), Sequence(p), Return(st, list, p, n),
         Len(p) >= Pushed(Back(st))
  PROVE  /\ Sequence(path') /\ Len(path') + Pushed(Back(st)) = Len(p)
         /\ \E f : Alike(Back(st), f) /\ f.key.found = Back(st).key.found /\ stack' = SetBack(st, f)
<1> DEFINE caller == Back(st)
           entry == IF Dropped(caller, n) THEN [caller EXCEPT !.key.length = 0] ELSE caller
<1>1. IsFrame(caller) BY CallsBack
<1>2. Alike(caller, entry) /\ entry.key.found = caller.key.found /\ IsFrame(entry)
  BY <1>1, DroppedAlike DEF Alike
<1>3. \A m : Alike(caller, Grow(entry, m)) /\ Grow(entry, m).key.found = caller.key.found
  BY <1>2, GrowAlike DEF Alike
<1>4. \A m : Alike(caller, Grow(caller, m)) /\ Grow(caller, m).key.found = caller.key.found
  BY <1>1, GrowAlike
<1>5. CASE caller.kind = "entry"
  <2>1. path' = p /\ stack' = SetBack(st, Grow(entry, entry.key.length + n)) BY <1>5 DEF Return
  <2>2. Pushed(caller) = 0 /\ Len(p) \in Nat BY <1>5, SequenceLen DEF Pushed
  <2> QED BY <2>1, <2>2, <1>3
<1>6. CASE caller.kind # "entry"
  <2>1. /\ path' = IF caller.type = ValueType THEN p ELSE PopBack(p)
        /\ stack' = SetBack(st, Grow(caller, n))
    BY <1>6 DEF Return
  <2>2. Pushed(caller) = IF caller.type = ValueType THEN 0 ELSE 1 BY <1>6 DEF Pushed
  <2>3. Len(p) \in Nat /\ (caller.type # ValueType => Len(p) - 1 \in 0..Len(p))
    BY <2>2, SequenceLen
  <2>4. CASE caller.type = ValueType BY <2>1, <2>2, <2>3, <2>4, <1>4
  <2>5. CASE caller.type # ValueType
    <3>1. Sequence(PopBack(p)) /\ Len(PopBack(p)) = Len(p) - 1
      BY <2>3, <2>5, SequencePrefix DEF PopBack
    <3> QED BY <2>1, <2>2, <2>3, <2>5, <3>1, <1>4
  <2> QED BY <2>4, <2>5
<1> QED BY <1>5, <1>6

-------------------------------------------------------------------------------
(* Which steps are which                                                       *)

\* What is known of the innermost call.
LEMMA TopOfCalls ==
  ASSUME Unwinds(stack, path)
  PROVE  /\ Calls(stack) /\ Sequence(path) /\ IsFrame(Top)
         /\ Len(stack) \in Nat /\ Len(path) \in Nat
BY CallsBack, SequenceLen DEF Unwinds, Top

\* The path is at least as long as what the innermost call and its caller have
\* put on it.
LEMMA EnoughOnPath ==
  ASSUME Unwinds(stack, path), Len(stack) > 1
  PROVE  Len(path) >= Held(Top) + Pushed(Back(PopBack(stack)))
<1>1. PICK d : Depths(stack, d) /\ Len(path) = d[Len(stack)] + Held(Top) BY DEF Unwinds, Top
<1>2. /\ Calls(PopBack(stack)) /\ Len(PopBack(stack)) = Len(stack) - 1
      /\ \A i \in 1..(Len(stack) - 1) : PopBack(stack)[i] = stack[i]
  BY CallsPop DEF Unwinds
<1>3. Len(stack) - 1 \in 1..(Len(stack) - 1) /\ Len(stack) - 1 + 1 = Len(stack) BY TopOfCalls
<1>4. Back(PopBack(stack)) = stack[Len(stack) - 1] BY <1>2, <1>3 DEF Back
<1>5. /\ d[Len(stack) - 1] \in Nat
      /\ d[Len(stack)] =
           d[Len(stack) - 1] + Held(stack[Len(stack) - 1]) + Pushed(stack[Len(stack) - 1])
  BY <1>1, <1>3 DEF Depths
<1> QED BY <1>1, <1>4, <1>5, HeldPushed

\* The innermost call ends; a map entry takes its key off the path.
LEMMA ReturnReturns ==
  ASSUME Unwinds(stack, path), Len(stack) > 1, Amid, NEW list, NEW p, NEW n,
         p = IF Top.key.found THEN PopBack(path) ELSE path,
         Return(PopBack(stack), list, p, n),
         tags' = IF summing THEN PopBack(tags) ELSE tags
  PROVE  Returns
<1>1. Len(path) >= Held(Top) + Pushed(Back(PopBack(stack))) BY EnoughOnPath
<1>2. Calls(PopBack(stack)) BY CallsPop DEF Unwinds
<1>3. Sequence(p) /\ Len(p) = Len(path) - Held(Top)
  <2>1. CASE Top.key.found
    <3>1. Held(Top) = 1 BY <2>1 DEF Held
    <3>2. Len(path) - 1 \in 0..Len(path) BY <1>1, <3>1, HeldPushed, TopOfCalls
    <3> QED BY <2>1, <3>1, <3>2, SequencePrefix, TopOfCalls DEF PopBack
  <2>2. CASE ~Top.key.found
    BY <2>2, TopOfCalls DEF Held
  <2> QED BY <2>1, <2>2
<1>4. Len(p) >= Pushed(Back(PopBack(stack))) BY <1>1, <1>3, HeldPushed, TopOfCalls
<1>5. /\ Sequence(path') /\ Len(path') + Pushed(Back(PopBack(stack))) = Len(p)
      /\ \E f : /\ Alike(Back(PopBack(stack)), f)
               /\ f.key.found = Back(PopBack(stack)).key.found
               /\ stack' = SetBack(PopBack(stack), f)
  BY <1>2, <1>3, <1>4, ReturnGoes
<1>6. Len(path') + Pushed(Back(PopBack(stack))) + Held(Top) = Len(path)
  BY <1>3, <1>5, HeldPushed, TopOfCalls, SequenceLen
<1> QED BY <1>5, <1>6 DEF Returns, ReturnsTo

\* Only a map entry has a key.
LEMMA PlainReturns ==
  ASSUME Unwinds(stack, path), Len(stack) > 1, Amid, Top.kind # "entry", NEW list, NEW n,
         Return(PopBack(stack), list, path, n),
         tags' = IF summing THEN PopBack(tags) ELSE tags
  PROVE  Returns
BY ReturnReturns, TopOfCalls DEF IsFrame

\* ScanField() goes on or returns.
LEMMA ScanFieldSteps ==
  ASSUME Unwinds(stack, path)
  PROVE  ExcludeField \/ IncludeField \/ EndMessage => ScanStep
<1> USE TopOfCalls DEF ScanStep
<1>1. CASE ExcludeField
  BY <1>1, StackStays DEF ExcludeField, Scanning, Staying, config, sums, Amid, AtField, In
<1>2. CASE IncludeField
  <2>1. PICK n : stack' = SetBack(stack, Grow(Top, n)) BY <1>2 DEF IncludeField
  <2>2. Alike(Top, Grow(Top, n)) /\ Held(Grow(Top, n)) = Held(Top) BY GrowAlike DEF Held
  <2> QED BY <1>2, <2>1, <2>2
    DEF IncludeField, Scanning, Staying, config, sums, Amid, AtField, In, GoesOn, GoesOnWith
<1>3. CASE EndMessage
  <2>1. PICK list, n : Return(PopBack(stack), list, path, n) BY <1>3 DEF EndMessage
  <2>2. Amid /\ Top.kind # "entry" /\ Len(stack) > 1
    BY <1>3 DEF EndMessage, In, Amid, Scanning, Staying, config
  <2>3. tags' = IF summing THEN PopBack(tags) ELSE tags BY <1>3 DEF EndMessage, Pop
  <2> QED BY <2>1, <2>2, <2>3, PlainReturns
<1> QED BY <1>1, <1>2, <1>3

\* So does ScanMapEntry(), and it puts its key on the path once.
LEMMA ScanMapEntrySteps ==
  ASSUME Unwinds(stack, path)
  PROVE  EntryKey \/ ExcludeValue \/ IncludeValue \/ OtherEntryField \/ EndEntry \/ EndEntryEarly
           => ScanStep
<1> USE TopOfCalls DEF ScanStep
<1>1. CASE EntryKey
  <2>1. PICK f, q : /\ stack' = SetBack(stack, f) /\ Alike(Top, f) /\ f.key.found = TRUE
                    /\ path' = Append(q, ReadMapKeyAsString)
                    /\ q = IF Top.key.found THEN PopBack(path) ELSE path
    <3>1. Top.kind = "entry" BY <1>1 DEF EntryKey, AtEntryField, In
    <3>2. PICK check :
            /\ stack' = SetBack(stack, [Top EXCEPT !.key.found = TRUE, !.key.check = check,
                                                  !.key.pos = pos, !.key.length = KeyEnd - pos])
            /\ path' = Append(IF Top.key.found THEN PopBack(path) ELSE path, ReadMapKeyAsString)
      BY <1>1 DEF EntryKey
    <3> DEFINE g == [Top EXCEPT !.key.found = TRUE, !.key.check = check,
                                !.key.pos = pos, !.key.length = KeyEnd - pos]
    <3>3. Alike(Top, g) /\ g.key.found = TRUE BY <3>1, KeyedAlike
    <3> HIDE DEF g
    <3>4. stack' = SetBack(stack, g) BY <3>2 DEF g
    <3> QED BY <3>2, <3>3, <3>4
  <2>2. Sequence(q) /\ Len(q) + Held(Top) = Len(path)
    <3>1. CASE Top.key.found
      <4>1. Len(path) >= 1
        <5>1. PICK d : Depths(stack, d) /\ Len(path) = d[Len(stack)] + Held(Top)
          BY DEF Unwinds, Top
        <5>2. d[Len(stack)] \in Nat BY <5>1, CallsBack DEF Depths
        <5> QED BY <3>1, <5>1, <5>2 DEF Held
      <4>2. Len(path) - 1 \in 0..Len(path) BY <4>1
      <4>3. Sequence(PopBack(path)) /\ Len(PopBack(path)) = Len(path) - 1
        BY <4>2, SequencePrefix DEF PopBack
      <4> QED BY <2>1, <3>1, <4>3 DEF Held
    <3>2. CASE ~Top.key.found BY <2>1, <3>2 DEF Held
    <3> QED BY <3>1, <3>2
  <2>3. Sequence(path') /\ Len(path') = Len(q) + 1 BY <2>1, <2>2, SequenceAppend
  <2>4. Held(f) = 1 /\ Len(q) \in Nat BY <2>1, <2>2, SequenceLen DEF Held
  <2>5. Len(path') + Held(Top) = Len(path) + Held(f) BY <2>2, <2>3, <2>4, HeldPushed
  <2>6. Amid /\ UNCHANGED tags
    BY <1>1 DEF EntryKey, Scanning, Staying, config, Amid, AtEntryField, In
  <2> QED BY <2>1, <2>3, <2>5, <2>6 DEF GoesOn, GoesOnWith
<1>2. CASE ExcludeValue
  BY <1>2, StackStays
  DEF ExcludeValue, Scanning, Staying, config, sums, Amid, AtValue, AtEntryField, In
<1>3. CASE IncludeValue
  <2>1. PICK m : stack' = SetBack(stack, [Grow(Top, m) EXCEPT !.key.added = TRUE])
    BY <1>3 DEF IncludeValue
  <2> DEFINE f == [Grow(Top, m) EXCEPT !.key.added = TRUE]
  <2>2. Alike(Top, f) /\ f.key.found = Top.key.found
    <3>1. Alike(Top, Grow(Top, m)) /\ Grow(Top, m).key = Top.key BY GrowAlike
    <3> QED BY <3>1 DEF IsFrame, Alike
  <2>3. Held(f) = Held(Top) BY <2>2 DEF Held
  <2>4. Amid /\ UNCHANGED <<tags, path>>
    BY <1>3 DEF IncludeValue, Scanning, Staying, config, sums, Amid, AtValue, AtEntryField, In
  <2> HIDE DEF f
  <2> QED BY <2>1, <2>2, <2>3, <2>4 DEF GoesOn, GoesOnWith, f
<1>4. CASE OtherEntryField
  BY <1>4, StackStays DEF OtherEntryField, Scanning, Staying, config, sums, Amid, In
<1>5. CASE EndEntry \/ EndEntryEarly
  <2>1. CloseEntry /\ Top.kind = "entry" /\ Amid
    BY <1>5 DEF EndEntry, EndEntryEarly, In, Amid, Scanning, Staying, config
  <2>2. PICK list, n :
          Return(PopBack(stack), list, IF Top.key.found THEN PopBack(path) ELSE path, n)
    BY <2>1 DEF CloseEntry
  <2>3. tags' = IF summing THEN PopBack(tags) ELSE tags BY <2>1 DEF CloseEntry, Pop
  <2>4. Len(stack) > 1 BY <2>1, InnerCall DEF Top
  <2> QED BY <2>1, <2>2, <2>3, <2>4, ReturnReturns
<1> QED BY <1>1, <1>2, <1>3, <1>4, <1>5

\* A field that is partially included is one of a message or the value of an entry;
\* its caller, and the path it is looked at with.
LEMMA CallerGoes ==
  ASSUME Unwinds(stack, path), AtPartial
  PROVE  /\ Sequence(CallerPath) /\ Len(CallerPath) = Len(path) + Pushed(Top)
         /\ \E g : Alike(Top, g) /\ g.key.found = Top.key.found /\ CallerStack = SetBack(stack, g)
<1> USE TopOfCalls
<1>1. CASE Top.kind = "message"
  <2>1. CallerStack = SetBack(stack, Top) /\ Alike(Top, Top)
    BY <1>1, SetBackSame DEF CallerStack, Top
  <2>2. CallerPath = IF Top.type = ValueType THEN path ELSE Append(path, Field.name)
    BY <1>1 DEF CallerPath, Named
  <2>3. Pushed(Top) = IF Top.type = ValueType THEN 0 ELSE 1 BY <1>1 DEF Pushed
  <2> QED BY <2>1, <2>2, <2>3, SequenceAppend
<1>2. CASE Top.kind = "entry"
  <2>1. \A b : LET g == [Top EXCEPT !.key.rolled = b]
                IN  Alike(Top, g) /\ g.key.found = Top.key.found
    BY DEF IsFrame, Alike
  <2>2. CallerPath = path /\ Pushed(Top) = 0 BY <1>2 DEF CallerPath, Pushed
  <2>3. PICK b : CallerStack = SetBack(stack, [Top EXCEPT !.key.rolled = b])
    BY <1>2 DEF CallerStack
  <2> DEFINE g == [Top EXCEPT !.key.rolled = b]
  <2>4. Alike(Top, g) /\ g.key.found = Top.key.found BY <2>1
  <2> HIDE DEF g
  <2>5. CallerStack = SetBack(stack, g) BY <2>3 DEF g
  <2> QED BY <2>2, <2>4, <2>5
<1> QED BY <1>1, <1>2 DEF AtPartial, AtValue, AtEntryField, AtField, In

\* Enter() makes a call, and puts the name of its field on the path.
LEMMA EnterCalls ==
  ASSUME Unwinds(stack, path), AtPartial, NEW kind, NEW type, NEW list, Enter(kind, type, list),
         Push(IF kind = "packed" THEN TagHere - LengthDelimited ELSE TagHere)
  PROVE  MakesCall
<1> DEFINE body == AfterVarint(Data, BehindTag, Top.limit)
           limit == EndOfLength(Data, BehindTag, Top.limit)
           frame == Frame(kind, type, TagHere, pos, limit, Len(CallerCopies \o list))
           f == [frame EXCEPT !.key.start = body, !.key.pos = body]
<1>1. IsFrame(frame) /\ frame.kind = kind /\ frame.tag = TagHere /\ ~frame.key.found
  BY FrameIsFrame
<1>2. stack' = Append(CallerStack, f) /\ path' = CallerPath BY DEF Enter
<1>3. tags' = IF summing
              THEN Append(tags, IF kind = "packed" THEN TagHere - LengthDelimited ELSE TagHere)
              ELSE tags
  BY DEF Push
<1>4. Amid
  BY DEF Enter, Scanning, Staying, config, Amid, AtPartial, AtValue, AtEntryField, AtField, In
<1> HIDE DEF frame, body, limit
<1>5. IsFrame(f) /\ f.kind = kind /\ f.tag = TagHere /\ ~f.key.found BY <1>1 DEF IsFrame
<1>6. CountedTag(f) = IF kind = "packed" THEN TagHere - LengthDelimited ELSE TagHere
  BY <1>5 DEF CountedTag
<1> HIDE DEF f
<1> QED BY <1>2, <1>3, <1>4, <1>5, <1>6, CallerGoes DEF MakesCall, CallsFrom

\* The scans of children make calls, go on and return.
LEMMA ScanChildSteps ==
  ASSUME Unwinds(stack, path)
  PROVE  EnterAny \/ EnterMessage \/ EnterMap \/ EnterPacked \/ EnumValue \/ PackedValue
           \/ EndPacked
           => ScanStep
<1> USE TopOfCalls DEF ScanStep
<1>1. CASE EnterAny BY <1>1, EnterCalls DEF EnterAny, AtChild
<1>2. CASE EnterMessage BY <1>2, EnterCalls DEF EnterMessage, AtChild
<1>3. CASE EnterMap BY <1>3, EnterCalls DEF EnterMap, AtChild
<1>4. CASE EnterPacked BY <1>4, EnterCalls DEF EnterPacked, AtEnum
<1>5. CASE EnumValue
  <2>1. PICK g : Alike(Top, g) /\ g.key.found = Top.key.found /\ CallerStack = SetBack(stack, g)
    BY <1>5, CallerGoes DEF EnumValue, AtEnum
  <2>2. Sequence(CallerPath) /\ Len(CallerPath) = Len(path) + Pushed(Top)
    BY <1>5, CallerGoes DEF EnumValue, AtEnum
  <2>3. PICK list, n : Return(CallerStack, list, CallerPath, n) BY <1>5 DEF EnumValue
  <2>4. Calls(CallerStack) /\ Back(CallerStack) = g BY <2>1, CallsBack DEF Top
  <2>5. Pushed(g) = Pushed(Top) /\ Len(CallerPath) >= Pushed(g)
    BY <2>1, <2>2, HeldPushed DEF Pushed, Alike
  <2>6. /\ Sequence(path') /\ Len(path') + Pushed(g) = Len(CallerPath)
        /\ \E f : Alike(g, f) /\ f.key.found = g.key.found /\ stack' = SetBack(CallerStack, f)
    BY <2>2, <2>3, <2>4, <2>5, ReturnGoes
  <2>7. PICK f : Alike(g, f) /\ f.key.found = g.key.found /\ stack' = SetBack(CallerStack, f)
    BY <2>6
  <2>8. Alike(Top, f) /\ Held(f) = Held(Top) /\ stack' = SetBack(stack, f)
    BY <2>1, <2>7, SetBackSame DEF Alike, Held, Top
  <2>9. Len(path') + Held(Top) = Len(path) + Held(f)
    BY <2>2, <2>5, <2>6, <2>8, HeldPushed, SequenceLen
  <2>10. Amid /\ UNCHANGED tags
    BY <1>5 DEF EnumValue, Scanning, Staying, config, Amid, AtEnum, AtPartial, AtValue,
                AtEntryField, AtField, In
  <2> QED BY <2>6, <2>8, <2>9, <2>10 DEF GoesOn, GoesOnWith
<1>6. CASE PackedValue
  <2>1. Amid /\ UNCHANGED <<path, tags>>
    BY <1>6 DEF PackedValue, Scanning, Staying, config, Amid, In
  <2>2. (\E n : stack' = SetBack(stack, Grow(Top, n))) \/ UNCHANGED stack BY <1>6 DEF PackedValue
  <2>3. ASSUME NEW n, stack' = SetBack(stack, Grow(Top, n)) PROVE GoesOn
    <3>1. Alike(Top, Grow(Top, n)) /\ Held(Grow(Top, n)) = Held(Top) BY GrowAlike DEF Held
    <3> QED BY <2>1, <2>3, <3>1 DEF GoesOn, GoesOnWith
  <2> QED BY <2>1, <2>2, <2>3, StackStays
<1>7. CASE EndPacked
  <2>1. PICK list, n : Return(PopBack(stack), list, path, n) BY <1>7 DEF EndPacked
  <2>2. Amid /\ Top.kind = "packed" BY <1>7 DEF EndPacked, In, Amid, Scanning, Staying, config
  <2>3. tags' = IF summing THEN PopBack(tags) ELSE tags BY <1>7 DEF EndPacked, Pop
  <2>4. Len(stack) > 1 BY <2>2, InnerCall DEF Top
  <2> QED BY <2>1, <2>2, <2>3, <2>4, PlainReturns
<1> QED BY <1>1, <1>2, <1>3, <1>4, <1>5, <1>6, <1>7

\* ScanAnyField() goes on and returns.
LEMMA ScanAnySteps ==
  ASSUME Unwinds(stack, path)
  PROVE  AnyField \/ IncludeAny \/ ExcludeAny \/ DropEmptyAny \/ KeepAny => ScanStep
<1> USE TopOfCalls DEF ScanStep
<1>1. CASE AnyField
  <2>1. Amid /\ UNCHANGED <<tags, path>>
    BY <1>1 DEF AnyField, Scanning, Staying, config, sums, Amid, In
  <2>2. \/ \E part : stack' = SetBack(stack, [Top EXCEPT !.url = part])
        \/ \E part : /\ DOMAIN part = {"tag", "start", "length", "bytes"}
                     /\ stack' = SetBack(stack, [Top EXCEPT !.value = part])
        \/ UNCHANGED stack
    <3> DEFINE end == EndOfString(Data, BehindTag, Top.limit)
               part == [tag |-> TagHere, start |-> pos, length |-> end - pos,
                        bytes |-> ReadString(Data, BehindTag, Top.limit)]
    <3>1. stack' = CASE Number = 1 -> SetBack(stack, [Top EXCEPT !.url = part])
                     [] Number = 2 -> SetBack(stack, [Top EXCEPT !.value = part])
                     [] OTHER      -> stack
      BY <1>1 DEF AnyField
    <3>2. DOMAIN part = {"tag", "start", "length", "bytes"} OBVIOUS
    <3> HIDE DEF part
    <3>3. Number = 1 => Number # 2 OBVIOUS
    <3> QED BY <3>1, <3>2, <3>3
  <2>3. ASSUME NEW part, stack' = SetBack(stack, [Top EXCEPT !.url = part]) PROVE GoesOn
    <3> DEFINE f == [Top EXCEPT !.url = part]
    <3>1. Alike(Top, f) /\ Held(f) = Held(Top) BY DEF IsFrame, Alike, Held
    <3> HIDE DEF f
    <3> QED BY <2>1, <2>3, <3>1 DEF GoesOn, GoesOnWith, f
  <2>4. ASSUME NEW part, DOMAIN part = {"tag", "start", "length", "bytes"},
               stack' = SetBack(stack, [Top EXCEPT !.value = part])
        PROVE  GoesOn
    <3> DEFINE f == [Top EXCEPT !.value = part]
    <3>1. Alike(Top, f) /\ Held(f) = Held(Top) BY <2>4 DEF IsFrame, Alike, Held
    <3> HIDE DEF f
    <3> QED BY <2>1, <2>4, <3>1 DEF GoesOn, GoesOnWith, f
  <2> QED BY <2>1, <2>2, <2>3, <2>4, StackStays
<1>2. CASE IncludeAny
  <2>1. PICK list, n : Return(PopBack(stack), list, path, n) BY <1>2 DEF IncludeAny
  <2>2. Amid /\ Top.kind = "any"
    BY <1>2 DEF IncludeAny, AnyRead, In, Amid, Scanning, Staying, config
  <2>3. tags' = IF summing THEN PopBack(tags) ELSE tags BY <1>2 DEF IncludeAny, Pop
  <2> QED BY <2>1, <2>2, <2>3, PlainReturns, InnerCall DEF Top
<1>3. CASE ExcludeAny \/ DropEmptyAny
  <2>1. DropAny(sum, tags) /\ Amid /\ Top.kind \in {"any", "scrubbed"}
    BY <1>3 DEF ExcludeAny, DropEmptyAny, EmptyAny, AnyRead, In, Amid, Scanning, Staying, config
  <2>2. PICK list, n : Return(PopBack(stack), list, path, n) BY <2>1 DEF DropAny
  <2>3. tags' = IF summing THEN PopBack(tags) ELSE tags BY <2>1 DEF DropAny
  <2> QED BY <2>1, <2>2, <2>3, PlainReturns, InnerCall DEF Top
<1>4. CASE KeepAny
  <2>1. PICK list, n : Return(PopBack(stack), list, path, n) BY <1>4 DEF KeepAny
  <2>2. Amid /\ Top.kind = "scrubbed" BY <1>4 DEF KeepAny, In, Amid, Scanning, Staying, config
  <2>3. tags' = IF summing THEN PopBack(tags) ELSE tags BY <1>4 DEF KeepAny, Pop
  <2> QED BY <2>1, <2>2, <2>3, PlainReturns, InnerCall DEF Top
<1> QED BY <1>1, <1>2, <1>3, <1>4

-------------------------------------------------------------------------------
(* The invariant: the path of every scrubber can be taken back, those that     *)
(* wait for the one of an Any included; each of these waits in such a field.   *)

Waiting(s) == Unwinds(s.stack, s.path) /\ Back(s.stack).kind = "any"

PathInv ==
  /\ IF phase \in {"scan", "sum"} THEN Unwinds(stack, path) ELSE path = <<>>
  /\ Sequence(outer) /\ \A i \in 1..Len(outer) : Waiting(outer[i])

\* The path of a scrubber that begins is empty.
LEMMA RootUnwinds == ASSUME NEW type PROVE Unwinds(Root(type), <<>>)
<1> DEFINE st == Root(type)
           d == [i \in 1..1 |-> 0]
<1>1. /\ Calls(st) /\ Len(st) = 1 /\ Back(st) = st[1] /\ ~st[1].key.found BY CallsRoot
<1> HIDE DEF st
<1>2. Depths(st, d) BY <1>1 DEF Depths
<1>3. Len(<<>>) = d[Len(st)] + Held(Back(st)) BY <1>1 DEF Held
<1> QED BY <1>1, <1>2, <1>3, SequenceEmpty DEF Unwinds, st

\* When only the first call is left, the path is empty.
LEMMA RootPathEmpty ==
  ASSUME Unwinds(stack, path), Len(stack) = 1 PROVE path = <<>>
<1>1. Held(Top) = 0
  <2>1. Top.kind = "message" BY DEF Unwinds, Calls, Top, Back
  <2> QED BY <2>1, TopOfCalls DEF IsFrame, Held
<1> QED BY <1>1, SequenceLen DEF Unwinds, Depths, Top

\* The scrubber of an Any returns to the one that waits for it.
LEMMA AnyScrubbedKeeps ==
  ASSUME PathInv, outer # <<>>, NEW value, AnyScrubbed(value) PROVE PathInv'
<1> DEFINE caller == Back(outer)
           f == [Back(caller.stack) EXCEPT !.kind = "scrubbed", !.value.bytes = value]
<1>1. Len(outer) \in Nat /\ Len(outer) \in 1..Len(outer) BY SequenceLen DEF PathInv
<1>2. Waiting(caller) BY <1>1 DEF PathInv, Back
<1>3. Sequence(PopBack(outer)) /\ Len(PopBack(outer)) = Len(outer) - 1
      /\ \A i \in 1..(Len(outer) - 1) : PopBack(outer)[i] = outer[i]
  <2>1. Sequence(outer) /\ Len(outer) - 1 \in 0..Len(outer) BY <1>1 DEF PathInv
  <2> QED BY <2>1, SequencePrefix DEF PopBack
<1>4. IsFrame(Back(caller.stack)) /\ Back(caller.stack).kind = "any"
  BY <1>2, CallsBack DEF Waiting, Unwinds
<1>5. Alike(Back(caller.stack), f) /\ f.key.found = Back(caller.stack).key.found
  BY <1>4 DEF IsFrame, Alike
<1>6. /\ stack' = SetBack(caller.stack, f) /\ path' = caller.path
      /\ phase' = "scan" /\ outer' = PopBack(outer)
  BY DEF AnyScrubbed
<1> HIDE DEF f, caller
<1>7. Held(f) = Held(Back(caller.stack)) BY <1>5 DEF Held
<1>8. Sequence(caller.path) BY <1>2 DEF Waiting, Unwinds
<1>9. Unwinds(SetBack(caller.stack, f), caller.path)
  BY <1>2, <1>5, <1>7, <1>8, UnwindsSetBack DEF Waiting
<1> QED BY <1>1, <1>3, <1>6, <1>9 DEF PathInv

\* The scrubber of an Any begins with an empty path; the one that called it waits.
LEMMA ScrubAnyKeeps == ASSUME PathInv, ScrubAny PROVE PathInv'
<1> DEFINE s == [value |-> Top.value.bytes, depth |-> Depth + Len(path),
                 pos |-> pos, stack |-> stack, path |-> path, copies |-> copies]
<1>1. Unwinds(stack, path) /\ Top.kind = "any" BY DEF PathInv, ScrubAny, AnyRead, In
<1>2. Waiting(s) BY <1>1 DEF Waiting, Top
<1>3. outer' = Append(outer, s) /\ phase' = "scan" /\ path' = <<>> /\ \E type : stack' = Root(type)
  BY DEF ScrubAny, AnyRead, In
<1> HIDE DEF s
<1>4. /\ Sequence(Append(outer, s)) /\ Len(Append(outer, s)) = Len(outer) + 1
      /\ Append(outer, s)[Len(outer) + 1] = s
      /\ \A i \in 1..Len(outer) : Append(outer, s)[i] = outer[i]
      /\ Len(outer) \in Nat
  BY SequenceAppend, SequenceLen DEF PathInv
<1>5. \A i \in 1..(Len(outer) + 1) : Waiting(Append(outer, s)[i]) BY <1>2, <1>4 DEF PathInv
<1>6. Unwinds(stack', path') BY <1>3, RootUnwinds
<1> QED BY <1>3, <1>4, <1>5, <1>6 DEF PathInv

\* An error forgets all.
LEMMA AbortKeeps == ASSUME Abort PROVE PathInv'
BY SequenceEmpty DEF Abort, PathInv

\* The steps that leave the calls and the path alone, but for the phase.
LEMMA PausedKeeps ==
  ASSUME PathInv, UNCHANGED <<stack, path, outer>>,
         phase' \in {"scan", "sum"} <=> phase \in {"scan", "sum"}
  PROVE  PathInv'
BY DEF PathInv

\* A step of a scan is one of the scrubber that runs, and leaves those that wait alone.
LEMMA ScanStepKeeps == ASSUME PathInv, ScanStep PROVE PathInv'
<1>1. Amid BY DEF ScanStep, GoesOn, MakesCall, Returns, GoesOnWith, CallsFrom, ReturnsTo
<1>2. Unwinds(stack, path)' BY <1>1, ScanStepUnwinds DEF PathInv, Amid
<1> QED BY <1>1, <1>2 DEF PathInv, Amid

\* The other steps of a scrubber that runs ask the checksummer, begin or end the
\* scrubber of an Any, end the scan, copy or fail.
AnyReturns ==
  /\ outer # <<>> /\ (phase = "copy" \/ (phase = "scan" /\ Len(stack) = 1))
  /\ \E value : AnyScrubbed(value)

Copies ==
  /\ phase = "copy" /\ phase' = "copy"
  /\ UNCHANGED <<outer, stack, path, tags, summing, checksummer>>

RunsOn ==
  \/ ScanStep \/ AskForField \/ AskForValue \/ AskForAny
  \/ ScrubAny \/ AnyReturns
  \/ EndRoot \/ Replace \/ Fail
  \/ Copies

\* A scrubber that runs makes no other steps.
LEMMA RunningSteps ==
  ASSUME phase \in {"scan", "sum"} => Unwinds(stack, path), Running
  PROVE  RunsOn
<1> USE DEF RunsOn, Copies
<1>1. CASE ScanFieldStep
  <2>1. CASE ExcludeField \/ IncludeField \/ EndMessage
    BY <2>1, ScanFieldSteps DEF ExcludeField, IncludeField, EndMessage, AtField, In
  <2>2. CASE ExcludeFieldError \/ UnknownPartialError \/ NotConsumedError
    BY <2>2 DEF ExcludeFieldError, UnknownPartialError, NotConsumedError
  <2> QED BY <1>1, <2>1, <2>2 DEF ScanFieldStep
<1>2. CASE ScanMapEntryStep
  <2>1. CASE ExcludeValueError BY <2>1 DEF ExcludeValueError
  <2>2. CASE ~(ExcludeValueError \/ AskForValue)
    BY <1>2, <2>2, ScanMapEntrySteps
    DEF ScanMapEntryStep, EntryKey, ExcludeValue, IncludeValue, OtherEntryField, EndEntry,
        EndEntryEarly, AtValue, AtEntryField, In
  <2> QED BY <2>1, <2>2
<1>3. CASE ScanAnyStep
  <2>1. CASE EnterAny
    BY <2>1, ScanChildSteps DEF EnterAny, AtChild, AtPartial, AtField, AtValue, AtEntryField, In
  <2>2. CASE ExcludeAnyError BY <2>2 DEF ExcludeAnyError
  <2>3. CASE EndRootOfAny \/ ReplaceInAny
    BY <2>3 DEF EndRootOfAny, ReplaceInAny, Copied, In, AnyReturns
  <2>4. CASE AnyField \/ IncludeAny \/ ExcludeAny \/ DropEmptyAny \/ KeepAny
    BY <2>4, ScanAnySteps
    DEF AnyField, IncludeAny, ExcludeAny, DropEmptyAny, KeepAny, EmptyAny, AnyRead, In
  <2> QED BY <1>3, <2>1, <2>2, <2>3, <2>4 DEF ScanAnyStep
<1>4. CASE ScanChildStep
  <2>1. CASE UntypedChildError \/ EnumValueError BY <2>1 DEF UntypedChildError, EnumValueError
  <2> QED
    BY <1>4, <2>1, ScanChildSteps
    DEF ScanChildStep, EnterMessage, EnterMap, EnterPacked, EnumValue, PackedValue, EndPacked,
        AtChild, AtEnum, AtPartial, AtField, AtValue, AtEntryField, In
<1>5. CASE CopyNext
  <2>1. PICK c : Copy(c) BY <1>5 DEF CopyNext
  <2> QED BY <2>1 DEF Copy, config, sums
<1> QED BY <1>1, <1>2, <1>3, <1>4, <1>5 DEF Running

\* Each of them keeps the invariant,
LEMMA RunningKeeps == ASSUME PathInv, Running PROVE PathInv'
<1>1. RunsOn BY RunningSteps DEF PathInv
<1>2. CASE ScanStep BY <1>2, ScanStepKeeps
<1>3. CASE AskForField \/ AskForValue \/ AskForAny
  BY <1>3, PausedKeeps
  DEF AskForField, AskForValue, AskForAny, AnyRead, AtField, AtValue, AtEntryField, In, Staying
<1>4. CASE ScrubAny BY <1>4, ScrubAnyKeeps
<1>5. CASE AnyReturns BY <1>5, AnyScrubbedKeeps DEF AnyReturns
<1>6. CASE EndRoot BY <1>6, RootPathEmpty DEF EndRoot, In, Staying, PathInv
<1>7. CASE Replace BY <1>7, PausedKeeps DEF Replace, Copied
<1>8. CASE Fail BY <1>8, AbortKeeps DEF Fail
<1>9. CASE Copies
  BY <1>9, PausedKeeps DEF Copies
<1> QED BY <1>1, <1>2, <1>3, <1>4, <1>5, <1>6, <1>7, <1>8, <1>9 DEF RunsOn

\* The checksummer has answered for the value of an Any, and the call returns.
LEMMA AnySummedReturns ==
  ASSUME Unwinds(stack, path), AnySummed
  PROVE  /\ Unwinds(stack, path)' /\ Len(stack) > 1
         /\ \E f : Alike(Back(PopBack(stack)), f) /\ stack' = SetBack(PopBack(stack), f)
<1>1. Top.kind = "any" BY DEF AnySummed
<1>2. Len(stack) > 1 BY <1>1, InnerCall DEF Unwinds, Top
<1>3. PICK list, n : Return(PopBack(stack), list, path, n) BY DEF AnySummed, DropAny
<1>4. Held(Top) = 0 BY <1>1, TopOfCalls DEF IsFrame, Held
<1>5. Len(path) >= Pushed(Back(PopBack(stack)))
  BY <1>2, <1>4, EnoughOnPath, HeldPushed, TopOfCalls
<1>6. /\ Sequence(path') /\ Len(path') + Pushed(Back(PopBack(stack))) = Len(path)
      /\ \E f : /\ Alike(Back(PopBack(stack)), f)
               /\ f.key.found = Back(PopBack(stack)).key.found
               /\ stack' = SetBack(PopBack(stack), f)
  BY <1>2, <1>3, <1>5, CallsPop, ReturnGoes, TopOfCalls
<1>7. PICK f : /\ Alike(Back(PopBack(stack)), f)
               /\ f.key.found = Back(PopBack(stack)).key.found
               /\ stack' = SetBack(PopBack(stack), f)
  BY <1>6
<1>8. Unwinds(PopBack(stack), path') BY <1>2, <1>4, <1>6, UnwindsPop DEF Top
<1>9. Held(f) = Held(Back(PopBack(stack))) BY <1>7 DEF Held
<1>10. Unwinds(stack', path') BY <1>6, <1>7, <1>8, <1>9, UnwindsSetBack
<1> QED BY <1>2, <1>7, <1>10

\* The steps of the checksummer do not touch the path.
LEMMA SummingKeeps == ASSUME PathInv, Summing PROVE PathInv'
<1>1. CASE CallChecksummer \/ ChecksummerStep
  BY <1>1, PausedKeeps DEF CallChecksummer, ChecksummerStep, scrubber
<1>2. CASE FieldSummed \/ ValueSummed
  BY <1>2, PausedKeeps DEF FieldSummed, ValueSummed, Answered, Staying
<1>3. CASE AnySummed
  <2>1. Unwinds(stack, path) BY <1>3 DEF PathInv, AnySummed, Answered
  <2> QED BY <1>3, <2>1, AnySummedReturns DEF AnySummed, Staying, PathInv
<1>4. CASE SumError BY <1>4, AbortKeeps DEF SumError
<1> QED BY <1>1, <1>2, <1>3, <1>4 DEF Summing

\* and so does every step there is, those of a scrub that begins included.
LEMMA PathStep == ASSUME PathInv, [SumNext]_vars PROVE PathInv'
<1>1. CASE Scrub
  <2>1. CASE checkers = <<>> BY <1>1, <2>1, SequenceEmpty DEF Scrub, PathInv
  <2>2. CASE checkers # <<>> BY <1>1, <2>2, SequenceEmpty, RootUnwinds DEF Scrub, PathInv
  <2> QED BY <2>1, <2>2
<1>2. ASSUME NEW c \in Filters, AddFieldFilter(c) PROVE PathInv'
  BY <1>2, PausedKeeps DEF AddFieldFilter, Between
<1>3. CASE UNCHANGED vars BY <1>3, PausedKeeps DEF vars
<1> QED BY <1>1, <1>2, <1>3, RunningKeeps, SummingKeeps DEF SumNext, Next

\* It holds before the first scrub.
LEMMA PathInit == Init => PathInv
BY SequenceEmpty DEF Init, PathInv

\* The path has been taken back when a scan has succeeded, also when the scrubber is
\* asked for a checksum and whatever the checksummer answers.
THEOREM SumPathUnwound == SumSpec => []PathUnwound
<1>1. PathInv => PathUnwound BY DEF PathInv, PathUnwound
<1> QED BY <1>1, PathInit, PathStep, PTL DEF SumSpec

\* The same for a scrubber by itself.
THEOREM ScrubPathUnwound == Spec => []PathUnwound
<1>1. PathInv => PathUnwound BY DEF PathInv, PathUnwound
<1>2. [Next]_vars => [SumNext]_vars BY DEF SumNext
<1> QED BY <1>1, <1>2, PathInit, PathStep, PTL DEF Spec

-------------------------------------------------------------------------------
(* The tags of the calls of one scrubber                                       *)

\* Each call but the first has a tag.
LEMMA TagsOfCalls ==
  ASSUME NEW st, Calls(st)
  PROVE  /\ Sequence(TagsOf(st)) /\ Len(TagsOf(st)) = Len(st) - 1
         /\ \A i \in 1..(Len(st) - 1) : TagsOf(st)[i] = CountedTag(st[i + 1])
<1> DEFINE n == Len(st) - 1
           S == {CountedTag(st[i + 1]) : i \in 1..n}
<1>1. n \in Nat BY CallsBack
<1>2. TagsOf(st) = [i \in 1..n |-> CountedTag(st[i + 1])] BY DEF TagsOf
<1> HIDE DEF n
<1>3. [i \in 1..n |-> CountedTag(st[i + 1])] \in [1..n -> S] OBVIOUS
<1> DEFINE t == [i \in 1..n |-> CountedTag(st[i + 1])]
<1> HIDE DEF S
<1>4. t \in Seq(S) /\ DOMAIN t = 1..n /\ \A i \in 1..n : t[i] = CountedTag(st[i + 1])
  BY <1>1, <1>3
<1> HIDE DEF t
<1>5. Len(t) = n BY <1>1, <1>4
<1>6. TagsOf(st) = t BY <1>2 DEF t
<1> QED BY <1>4, <1>5, <1>6 DEF Sequence, n

\* A call that goes on has the tag it had.
LEMMA TagsOfSetBack ==
  ASSUME NEW st, Calls(st), NEW f, Alike(Back(st), f)
  PROVE  TagsOf(SetBack(st, f)) = TagsOf(st)
<1>1. /\ Len(st) \in Nat /\ Calls(SetBack(st, f)) /\ Len(SetBack(st, f)) = Len(st)
      /\ SetBack(st, f)[Len(st)] = f
      /\ \A i \in 1..(Len(st) - 1) : SetBack(st, f)[i] = st[i]
  BY CallsBack DEF Back
<1>2. CountedTag(f) = CountedTag(st[Len(st)]) BY DEF CountedTag, Alike, Back
<1>3. \A i \in 1..(Len(st) - 1) : CountedTag(SetBack(st, f)[i + 1]) = CountedTag(st[i + 1])
  BY <1>1, <1>2
<1> QED BY <1>1, <1>3 DEF TagsOf

\* A call that is made adds its tag.
LEMMA TagsOfAppend ==
  ASSUME NEW st, Calls(st), NEW f, IsFrame(f)
  PROVE  TagsOf(Append(st, f)) = Append(TagsOf(st), CountedTag(f))
<1>1. /\ Len(st) \in Nat /\ Len(st) >= 1 /\ Calls(Append(st, f)) /\ Len(Append(st, f)) = Len(st) + 1
      /\ Append(st, f)[Len(st) + 1] = f
      /\ \A i \in 1..Len(st) : Append(st, f)[i] = st[i]
  BY CallsBack, CallsAppend DEF Back
<1> DEFINE t == TagsOf(Append(st, f))
           u == Append(TagsOf(st), CountedTag(f))
<1>2. /\ Sequence(t) /\ Len(t) = Len(st)
      /\ \A i \in 1..Len(st) : t[i] = CountedTag(Append(st, f)[i + 1])
  <2>1. Len(Append(st, f)) - 1 = Len(st) BY <1>1
  <2> QED BY <1>1, <2>1, TagsOfCalls
<1>3. /\ Sequence(u) /\ Len(u) = Len(st) /\ u[Len(st)] = CountedTag(f)
      /\ \A i \in 1..(Len(st) - 1) : u[i] = CountedTag(st[i + 1])
  BY <1>1, TagsOfCalls, SequenceAppend
<1> HIDE DEF t, u
<1>4. \A i \in 1..Len(st) : t[i] = u[i] BY <1>1, <1>2, <1>3
<1>5. t = u BY <1>2, <1>3, <1>4, SequenceEqual
<1> QED BY <1>5 DEF t, u

\* A call that returns takes its tag back.
LEMMA TagsOfPop ==
  ASSUME NEW st, Calls(st), Len(st) > 1, NEW ts, Sequence(ts)
  PROVE  PopBack(ts \o TagsOf(st)) = ts \o TagsOf(PopBack(st))
<1>1. /\ Len(st) \in Nat /\ Calls(PopBack(st)) /\ Len(PopBack(st)) = Len(st) - 1
      /\ \A i \in 1..(Len(st) - 1) : PopBack(st)[i] = st[i]
  BY CallsBack, CallsPop
<1> DEFINE long == ts \o TagsOf(st)
           t == PopBack(long)
           u == ts \o TagsOf(PopBack(st))
           n == Len(ts) + Len(st) - 2
<1>2. Len(ts) \in Nat BY SequenceLen
<1>3. /\ Sequence(long) /\ Len(long) = n + 1 /\ \A i \in 1..Len(ts) : long[i] = ts[i]
      /\ \A i \in 1..(Len(st) - 1) : long[Len(ts) + i] = CountedTag(st[i + 1])
  <2>1. Sequence(TagsOf(st)) /\ Len(TagsOf(st)) = Len(st) - 1 BY TagsOfCalls
  <2>2. /\ Sequence(long) /\ Len(long) = Len(ts) + (Len(st) - 1)
        /\ \A i \in 1..Len(ts) : long[i] = ts[i]
        /\ \A i \in 1..(Len(st) - 1) : long[Len(ts) + i] = TagsOf(st)[i]
    BY <2>1, SequenceConcat
  <2> HIDE DEF long
  <2> QED BY <1>1, <1>2, <2>2, TagsOfCalls
<1>4. /\ Sequence(u) /\ Len(u) = n /\ \A i \in 1..Len(ts) : u[i] = ts[i]
      /\ \A i \in 1..(Len(st) - 2) : u[Len(ts) + i] = CountedTag(st[i + 1])
  <2>1. /\ Sequence(TagsOf(PopBack(st))) /\ Len(TagsOf(PopBack(st))) = Len(st) - 2
        /\ \A i \in 1..(Len(st) - 2) : TagsOf(PopBack(st))[i] = CountedTag(st[i + 1])
    BY <1>1, TagsOfCalls
  <2>2. /\ Sequence(u) /\ Len(u) = Len(ts) + (Len(st) - 2) /\ \A i \in 1..Len(ts) : u[i] = ts[i]
        /\ \A i \in 1..(Len(st) - 2) : u[Len(ts) + i] = TagsOf(PopBack(st))[i]
    <3> DEFINE v == TagsOf(PopBack(st))
    <3>1. Sequence(v) /\ Len(v) = Len(st) - 2 BY <2>1
    <3> HIDE DEF v
    <3>2. /\ Sequence(ts \o v) /\ Len(ts \o v) = Len(ts) + (Len(st) - 2)
          /\ \A i \in 1..Len(ts) : (ts \o v)[i] = ts[i]
          /\ \A i \in 1..(Len(st) - 2) : (ts \o v)[Len(ts) + i] = v[i]
      BY <3>1, SequenceConcat
    <3> QED BY <3>2 DEF v
  <2> HIDE DEF u
  <2> QED BY <1>1, <1>2, <2>1, <2>2
<1> HIDE DEF long, u
<1>5. /\ Sequence(t) /\ Len(t) = n /\ \A i \in 1..n : t[i] = long[i]
  <2>1. n \in 0..Len(long) /\ Len(long) - 1 = n BY <1>1, <1>2, <1>3
  <2> QED BY <1>3, <2>1, SequencePrefix DEF PopBack
<1> HIDE DEF t
<1>6. ASSUME NEW i \in 1..n PROVE t[i] = u[i]
  <2>1. CASE i \in 1..Len(ts) BY <1>3, <1>4, <1>5, <2>1
  <2>2. CASE i \notin 1..Len(ts)
    <3> DEFINE j == i - Len(ts)
    <3>1. j \in 1..(Len(st) - 2) /\ i = Len(ts) + j BY <1>1, <1>2, <2>2
    <3>2. j \in 1..(Len(st) - 1) BY <1>1, <3>1
    <3> HIDE DEF j
    <3> QED BY <1>3, <1>4, <1>5, <3>1, <3>2
  <2> QED BY <2>1, <2>2
<1>7. t = u BY <1>4, <1>5, <1>6, SequenceEqual
<1> QED BY <1>7 DEF t, u, long

\* One more tag behind those of two parts.
LEMMA ConcatAppend ==
  ASSUME NEW s, Sequence(s), NEW t, Sequence(t), NEW x
  PROVE  s \o Append(t, x) = Append(s \o t, x)
<1>1. PICK S : s \in Seq(S) BY DEF Sequence
<1>2. PICK T : t \in Seq(T) BY DEF Sequence
<1> DEFINE U == S \cup T \cup {x}
<1>3. s \in Seq(U) /\ t \in Seq(U) /\ x \in U BY <1>1, <1>2
<1> HIDE DEF U
<1>4. t \o <<x>> = Append(t, x) /\ (s \o t) \o <<x>> = Append(s \o t, x)
  BY SequenceConcatOne, SequenceConcat
<1>5. s \o (t \o <<x>>) = (s \o t) \o <<x>> BY <1>3
<1> QED BY <1>4, <1>5

\* What was pushed can be popped.
LEMMA PopAppend == ASSUME NEW s, Sequence(s), NEW x PROVE PopBack(Append(s, x)) = s
<1>1. /\ Sequence(Append(s, x)) /\ Len(Append(s, x)) = Len(s) + 1 /\ Len(s) \in Nat
      /\ \A i \in 1..Len(s) : Append(s, x)[i] = s[i]
  BY SequenceAppend, SequenceLen
<1>2. Len(s) \in 0..Len(Append(s, x)) /\ Len(Append(s, x)) - 1 = Len(s) BY <1>1
<1>3. /\ Sequence(PopBack(Append(s, x))) /\ Len(PopBack(Append(s, x))) = Len(s)
      /\ \A i \in 1..Len(s) : PopBack(Append(s, x))[i] = s[i]
  BY <1>1, <1>2, SequencePrefix DEF PopBack
<1> QED BY <1>3, SequenceEqual

-------------------------------------------------------------------------------
(* The tags around the scrubber of an Any.  What the recursive function of     *)
(* TagsAround() computes cannot be proved by induction; that there is one such *)
(* function, and what it computes, is carried along with `outer` instead.      *)

Solves(g, out) ==
  g = [n \in 0..Len(out) |-> IF n = 0 THEN <<>> ELSE g[n - 1] \o TagsHanded(out[n])]

Surround(out, ts) ==
  \E g : /\ Solves(g, out) /\ g[Len(out)] = ts /\ \A n \in 0..Len(out) : Sequence(g[n])
         /\ \A h : Solves(h, out) => h = g

\* Such a function is the one that TagsAround() applies.
LEMMA TagsAroundIs ==
  ASSUME NEW out, NEW ts, Surround(out, ts)
  PROVE  TagsAround(out) = ts /\ Sequence(ts)
<1>1. PICK g : /\ Solves(g, out) /\ g[Len(out)] = ts /\ \A n \in 0..Len(out) : Sequence(g[n])
               /\ \A h : Solves(h, out) => h = g
  BY DEF Surround
<1>2. g = CHOOSE h : Solves(h, out) BY <1>1
<1>3. TagsAround(out) = (CHOOSE h : Solves(h, out))[Len(out)] BY DEF TagsAround, Solves
<1> QED BY <1>1, <1>2, <1>3

\* There is nothing around the scrubber that was called.
LEMMA SurroundEmpty == Surround(<<>>, <<>>)
<1> DEFINE g == [n \in 0..0 |-> <<>>]
<1>1. \A h : Solves(h, <<>>) <=> h = g
  <2>1. Len(<<>>) = 0 BY SequenceEmpty
  <2>2. \A h : [n \in 0..0 |-> IF n = 0 THEN <<>> ELSE h[n - 1] \o TagsHanded(<<>>[n])] = g OBVIOUS
  <2> QED BY <2>1, <2>2 DEF Solves
<1>2. g[0] = <<>> /\ \A n \in 0..0 : Sequence(g[n]) BY SequenceEmpty
<1> HIDE DEF g
<1>3. Solves(g, <<>>) /\ \A h : Solves(h, <<>>) => h = g BY <1>1
<1>4. g[Len(<<>>)] = <<>> /\ \A n \in 0..Len(<<>>) : Sequence(g[n]) BY <1>2, SequenceEmpty
<1> QED BY <1>3, <1>4 DEF Surround

\* A scrubber that begins to wait adds its tags.
LEMMA SurroundAppend ==
  ASSUME NEW out, Sequence(out), NEW ts, Surround(out, ts), NEW s, Sequence(TagsHanded(s))
  PROVE  Surround(Append(out, s), ts \o TagsHanded(s))
<1> DEFINE more == Append(out, s)
           N == Len(out)
<1>1. PICK g : /\ Solves(g, out) /\ g[N] = ts /\ \A n \in 0..N : Sequence(g[n])
               /\ \A h : Solves(h, out) => h = g
  BY DEF Surround
<1>2. N \in Nat /\ Len(more) = N + 1 /\ more[N + 1] = s /\ \A n \in 1..N : more[n] = out[n]
  BY SequenceLen, SequenceAppend
<1> DEFINE k == [n \in 0..(N + 1) |-> IF n <= N THEN g[n] ELSE ts \o TagsHanded(s)]
<1> HIDE DEF more, N
<1>3. g = [n \in 0..N |-> IF n = 0 THEN <<>> ELSE g[n - 1] \o TagsHanded(out[n])]
  BY <1>1 DEF Solves, N
<1>4. Solves(k, more)
  <2>1. ASSUME NEW n \in 0..(N + 1)
        PROVE  k[n] = IF n = 0 THEN <<>> ELSE k[n - 1] \o TagsHanded(more[n])
    <3>1. CASE n = 0 BY <1>2, <1>3, <3>1
    <3>2. CASE n \in 1..N
      <4>1. k[n] = g[n] /\ k[n - 1] = g[n - 1] BY <1>2, <3>2
      <4>2. n \in 0..N /\ n # 0 /\ more[n] = out[n] BY <1>2, <3>2
      <4> HIDE DEF k
      <4>3. g[n] = g[n - 1] \o TagsHanded(out[n]) BY <1>3, <4>2
      <4> QED BY <4>1, <4>2, <4>3
    <3>3. CASE n = N + 1
      <4>1. n # 0 /\ n - 1 = N /\ more[n] = s BY <1>2, <3>3
      <4>2. k[n] = ts \o TagsHanded(s) /\ k[N] = ts BY <1>1, <1>2, <3>3
      <4> HIDE DEF k
      <4> QED BY <4>1, <4>2
    <3> QED BY <1>2, <3>1, <3>2, <3>3
  <2> QED BY <1>2, <2>1 DEF Solves
<1>5. ASSUME NEW h, Solves(h, more) PROVE h = k
  <2>1. h = [n \in 0..(N + 1) |-> IF n = 0 THEN <<>> ELSE h[n - 1] \o TagsHanded(more[n])]
    BY <1>2, <1>5 DEF Solves
  <2> DEFINE low == [n \in 0..N |-> h[n]]
  <2>2. Solves(low, out)
    <3>1. ASSUME NEW n \in 0..N
          PROVE  h[n] = IF n = 0 THEN <<>> ELSE low[n - 1] \o TagsHanded(out[n])
      <4>1. CASE n = 0 BY <1>2, <2>1, <4>1
      <4>2. CASE n # 0
        <5>1. n \in 1..N /\ low[n - 1] = h[n - 1] /\ n \in 0..(N + 1) BY <1>2, <4>2
        <5> QED BY <1>2, <2>1, <4>2, <5>1
      <4> QED BY <4>1, <4>2
    <3> QED BY <3>1 DEF Solves, N
  <2>3. low = g BY <1>1, <2>2
  <2>4. \A n \in 0..N : h[n] = g[n] BY <2>3
  <2>5. h[N + 1] = h[N] \o TagsHanded(s)
    <3>1. N + 1 \in 0..(N + 1) /\ N + 1 # 0 /\ (N + 1) - 1 = N BY <1>2
    <3>2. h[N + 1] = h[(N + 1) - 1] \o TagsHanded(more[N + 1]) BY <2>1, <3>1
    <3> QED BY <1>2, <3>1, <3>2
  <2>6. ASSUME NEW n \in 0..(N + 1) PROVE h[n] = k[n]
    <3>1. CASE n <= N BY <1>2, <2>4, <3>1
    <3>2. CASE n = N + 1
      <4>1. h[N] = ts BY <1>1, <1>2, <2>4
      <4>2. k[n] = ts \o TagsHanded(s) BY <1>2, <3>2
      <4> HIDE DEF k
      <4> QED BY <2>5, <3>2, <4>1, <4>2
    <3> QED BY <1>2, <3>1, <3>2
  <2>7. DOMAIN h = 0..(N + 1) /\ DOMAIN k = 0..(N + 1) BY <2>1
  <2>8. h = [n \in 0..(N + 1) |-> h[n]] BY <2>1
  <2> QED BY <2>6, <2>8
<1>6. \A n \in 0..(N + 1) : Sequence(k[n])
  <2>1. Sequence(ts) BY <1>1, <1>2
  <2>2. Sequence(ts \o TagsHanded(s)) BY <2>1, SequenceConcat
  <2> QED BY <1>1, <1>2, <2>2
<1>7. k[Len(more)] = ts \o TagsHanded(s) BY <1>2
<1> HIDE DEF k
<1>8. Surround(more, ts \o TagsHanded(s)) BY <1>2, <1>4, <1>5, <1>6, <1>7 DEF Surround
<1> QED BY <1>8 DEF more

\* The scrubber of an Any returns, and its caller is surrounded as it was.
LEMMA SurroundPop ==
  ASSUME NEW out, Sequence(out), out # <<>>, NEW ts, Surround(out, ts)
  PROVE  \E us : Surround(PopBack(out), us) /\ Sequence(us) /\ ts = us \o TagsHanded(Back(out))
<1> DEFINE less == PopBack(out)
           M == Len(out) - 1
<1>1. PICK g : /\ Solves(g, out) /\ g[Len(out)] = ts /\ \A n \in 0..Len(out) : Sequence(g[n])
               /\ \A h : Solves(h, out) => h = g
  BY DEF Surround
<1>2. M \in Nat /\ Len(out) = M + 1 /\ M \in 0..Len(out) BY SequenceLen
<1>3. Len(less) = M /\ \A n \in 1..M : less[n] = out[n]
  BY <1>2, SequencePrefix DEF PopBack
<1> HIDE DEF less, M
<1>4. g = [n \in 0..(M + 1) |-> IF n = 0 THEN <<>> ELSE g[n - 1] \o TagsHanded(out[n])]
  BY <1>1, <1>2 DEF Solves
<1> DEFINE low == [n \in 0..M |-> g[n]]
<1>5. Solves(low, less)
  <2>1. ASSUME NEW n \in 0..M
        PROVE  g[n] = IF n = 0 THEN <<>> ELSE low[n - 1] \o TagsHanded(less[n])
    <3>1. CASE n = 0 BY <1>2, <1>4, <3>1
    <3>2. CASE n # 0
      <4>1. n \in 1..M /\ low[n - 1] = g[n - 1] /\ n \in 0..(M + 1) BY <1>2, <3>2
      <4> QED BY <1>3, <1>4, <3>2, <4>1
    <3> QED BY <3>1, <3>2
  <2> QED BY <1>3, <2>1 DEF Solves
<1>6. ASSUME NEW h, Solves(h, less) PROVE h = low
  <2>1. h = [n \in 0..M |-> IF n = 0 THEN <<>> ELSE h[n - 1] \o TagsHanded(less[n])]
    BY <1>3, <1>6 DEF Solves
  <2> DEFINE k == [n \in 0..(M + 1) |-> IF n <= M THEN h[n] ELSE h[M] \o TagsHanded(out[M + 1])]
  <2>2. Solves(k, out)
    <3>1. ASSUME NEW n \in 0..(M + 1)
          PROVE  k[n] = IF n = 0 THEN <<>> ELSE k[n - 1] \o TagsHanded(out[n])
      <4>1. CASE n = 0 BY <1>2, <2>1, <4>1
      <4>2. CASE n \in 1..M
        <5>1. k[n] = h[n] /\ k[n - 1] = h[n - 1] BY <1>2, <4>2
        <5> QED BY <1>3, <2>1, <4>2, <5>1
      <4>3. CASE n = M + 1 BY <1>2, <4>3
      <4> QED BY <1>2, <4>1, <4>2, <4>3
    <3> QED BY <1>2, <3>1 DEF Solves
  <2>3. k = g BY <1>1, <2>2
  <2>4. \A n \in 0..M : h[n] = g[n]
    <3>1. \A n \in 0..M : k[n] = h[n] BY <1>2
    <3> HIDE DEF k
    <3> QED BY <2>3, <3>1
  <2>5. h = [n \in 0..M |-> h[n]] BY <2>1
  <2> QED BY <2>4, <2>5
<1>7. \A n \in 0..M : Sequence(low[n]) BY <1>1, <1>2
<1>8. low[M] = g[M] /\ Sequence(g[M]) BY <1>1, <1>2
<1> HIDE DEF low
<1>9. Surround(less, g[M]) BY <1>3, <1>5, <1>6, <1>7, <1>8 DEF Surround
<1>10. ts = g[M] \o TagsHanded(Back(out))
  <2>1. M + 1 \in 0..(M + 1) /\ M + 1 # 0 /\ (M + 1) - 1 = M BY <1>2
  <2>2. g[M + 1] = g[(M + 1) - 1] \o TagsHanded(out[M + 1]) BY <1>4, <2>1
  <2> QED BY <1>1, <1>2, <2>1, <2>2 DEF Back
<1> QED BY <1>8, <1>9, <1>10 DEF less

-------------------------------------------------------------------------------
(* The checksummer in a scrub.  Its module's theorems are about the operators  *)
(* of an instance of their own, and these are the same steps.                  *)

CP == INSTANCE Checksummer_proofs WITH
        message <- Data, parentTags <- <<>>, maxDepth <- -1, call <- "none",
        phase <- sumPhase, pos <- sumPos, stack <- sumStack, Inputs <- {},
        MaxDepths <- {-1}

\* What the checksummer assumes of the constants holds for those of the scrubber.
LEMMA SumAssumptions == CP!AnyHasTexts /\ VarintBase \in Nat \ {0}
BY AnyAssumption, VarintBaseAssumption DEF AnyHasTexts, FindField, CP!AnyHasTexts, CP!FindField

\* Both read the same,
LEMMA SameWire ==
  /\ \A t : C!NumberOf(t) = CP!NumberOf(t) /\ C!WireOf(t) = CP!WireOf(t)
  /\ \A p, l : C!Up(p, l) = CP!Up(p, l)
  /\ \A data, l : C!EndOf(data, l) = CP!EndOf(data, l)
  /\ \A data, p, l : C!ReadVarint(data, p, l) = CP!ReadVarint(data, p, l)
  /\ \A data, p, l : C!AfterVarint(data, p, l) = CP!AfterVarint(data, p, l)
  /\ \A data, p, l : C!EndOfLength(data, p, l) = CP!EndOfLength(data, p, l)
  /\ \A data, p, l : C!EndOfString(data, p, l) = CP!EndOfString(data, p, l)
  /\ \A data, p, n, l : C!Skip(data, p, n, l) = CP!Skip(data, p, n, l)
<1>1. \A t : C!NumberOf(t) = CP!NumberOf(t) /\ C!WireOf(t) = CP!WireOf(t)
  BY DEF C!NumberOf, CP!NumberOf, C!WireOf, CP!WireOf
<1>2. \A p, l : C!Up(p, l) = CP!Up(p, l) BY DEF C!Up, CP!Up
<1>3. \A data, l : C!EndOf(data, l) = CP!EndOf(data, l) BY <1>2 DEF C!EndOf, CP!EndOf
<1>4. \A data, p, l : C!ReadVarint(data, p, l) = CP!ReadVarint(data, p, l)
  BY <1>3 DEF C!ReadVarint, CP!ReadVarint
<1>5. \A data, p, l : C!AfterVarint(data, p, l) = CP!AfterVarint(data, p, l)
  BY <1>2, <1>3 DEF C!AfterVarint, CP!AfterVarint
<1>6. \A data, p, l : C!EndOfLength(data, p, l) = CP!EndOfLength(data, p, l)
  BY <1>2, <1>4, <1>5 DEF C!EndOfLength, CP!EndOfLength
<1>7. \A data, p, l : C!EndOfString(data, p, l) = CP!EndOfString(data, p, l)
  BY <1>3, <1>6 DEF C!EndOfString, CP!EndOfString
<1>8. \A data, p, n, l : C!Skip(data, p, n, l) = CP!Skip(data, p, n, l)
  BY <1>2 DEF C!Skip, CP!Skip
<1> QED BY <1>1, <1>2, <1>3, <1>4, <1>5, <1>6, <1>7, <1>8

\* the checksummer's message too,
LEMMA SameReading ==
  /\ \A p, l : C!Read(p, l) = CP!Read(p, l)
  /\ \A p, l : C!After(p, l) = CP!After(p, l)
  /\ \A p, l : C!End(p, l) = CP!End(p, l)
  /\ \A p, l : C!EndText(p, l) = CP!EndText(p, l)
  /\ \A t, p, l : C!Skipped(t, p, l) = CP!Skipped(t, p, l)
  /\ \A f, p, l : C!Value(f, p, l) = CP!Value(f, p, l)
  /\ \A f, p, l : C!Behind(f, p, l) = CP!Behind(f, p, l)
  /\ \A part : C!Bytes(part) = CP!Bytes(part)
<1>1. \A p, l : C!Read(p, l) = CP!Read(p, l) BY SameWire DEF C!Read, CP!Read
<1>2. \A p, l : C!After(p, l) = CP!After(p, l) BY SameWire DEF C!After, CP!After
<1>3. \A p, l : C!End(p, l) = CP!End(p, l) BY SameWire DEF C!End, CP!End
<1>4. \A p, l : C!EndText(p, l) = CP!EndText(p, l) BY SameWire DEF C!EndText, CP!EndText
<1>5. \A t, p, l : C!Skipped(t, p, l) = CP!Skipped(t, p, l)
  BY SameWire DEF C!Skipped, CP!Skipped, C!SkipField, CP!SkipField, C!VarintWire, CP!VarintWire,
    C!LengthDelimited, CP!LengthDelimited
<1>6. \A f, p, l : C!Value(f, p, l) = CP!Value(f, p, l)
  BY <1>1, SameWire DEF C!Value, CP!Value, C!ReadString, CP!ReadString
<1>7. \A f, p, l : C!Behind(f, p, l) = CP!Behind(f, p, l) BY <1>2, <1>4 DEF C!Behind, CP!Behind
<1>8. \A part : C!Bytes(part) = CP!Bytes(part) BY DEF C!Bytes, CP!Bytes
<1> QED BY <1>1, <1>2, <1>3, <1>4, <1>5, <1>6, <1>7, <1>8

\* know the same fields and sums,
LEMMA SameFields ==
  /\ \A t, g : C!FindAndVerifyField(t, g) <=> CP!FindAndVerifyField(t, g)
  /\ \A t : C!NumberOf(t) = CP!NumberOf(t) /\ C!WireOf(t) = CP!WireOf(t)
  /\ \A f : C!IsPackable(f) <=> CP!IsPackable(f)
  /\ \A s, at, v : C!Added(s, at, v) = CP!Added(s, at, v)
  /\ C!LengthDelimited = CP!LengthDelimited
  /\ \A t : C!KindOf(t) = CP!KindOf(t)
  /\ \A t : (C!Found(t) <=> CP!Found(t)) /\ (C!Scanned(t) <=> CP!Scanned(t))
BY Zenon DEF C!NumberOf, CP!NumberOf, C!WireOf, CP!WireOf, C!IsPackable, CP!IsPackable, C!WireTypeOf,
      CP!WireTypeOf, C!FindField, CP!FindField, C!FindAndVerifyField,
      CP!FindAndVerifyField, C!Pair, CP!Pair, C!Xor, CP!Xor, C!Added, CP!Added, C!LengthDelimited,
      CP!LengthDelimited, C!VarintWire, CP!VarintWire, C!KindOf, CP!KindOf, C!Found, CP!Found,
      C!Rendered, CP!Rendered, C!Scanned, CP!Scanned

\* and go on in the same way.
LEMMA SameFrames ==
  /\ C!Top = CP!Top /\ C!Field = CP!Field /\ C!Url = CP!Url
  /\ C!Known <=> CP!Known
  /\ \A k : (C!In(k) <=> CP!In(k)) /\ (C!AtTag(k) <=> CP!AtTag(k)) /\ (C!AtEnd(k) <=> CP!AtEnd(k))
  /\ C!AtField <=> CP!AtField
  /\ C!Scannable <=> CP!Scannable
  /\ C!TooDeep <=> CP!TooDeep
  /\ C!Packed <=> CP!Packed
  /\ \A k, t, l, p : C!Frame(k, t, l, p) = CP!Frame(k, t, l, p)
  /\ \A frame, p : C!Onward(frame, p) = CP!Onward(frame, p)
  /\ \A s : C!PopBack(s) = CP!PopBack(s)
<1>1. C!Top = CP!Top BY DEF C!Top, CP!Top
<1>2. \A k : (C!In(k) <=> CP!In(k)) /\ (C!AtTag(k) <=> CP!AtTag(k)) /\ (C!AtEnd(k) <=> CP!AtEnd(k))
  BY Zenon DEF C!In, CP!In, C!AtTag, CP!AtTag, C!AtEnd, CP!AtEnd, C!Top, CP!Top
<1>3. C!AtField <=> CP!AtField BY <1>2 DEF C!AtField, CP!AtField
<1>4. C!Field = CP!Field BY <1>1, SameFields DEF C!Field, CP!Field
<1>5. C!Known <=> CP!Known BY <1>1, SameFields DEF C!Known, CP!Known
<1>6. C!TooDeep <=> CP!TooDeep BY DEF C!TooDeep, CP!TooDeep
<1>7. C!Scannable <=> CP!Scannable BY <1>3, <1>5, <1>6 DEF C!Scannable, CP!Scannable
<1>8. C!Packed <=> CP!Packed BY <1>1, <1>4, SameFields DEF C!Packed, CP!Packed
<1>9. \A k, t, l, p : C!Frame(k, t, l, p) = CP!Frame(k, t, l, p)
  BY SameReading DEF C!Frame, CP!Frame, C!None, CP!None
<1>10. \A frame, p : C!Onward(frame, p) = CP!Onward(frame, p)
  <2> TAKE frame, p
  <2> DEFINE field == Fields[frame.type][C!NumberOf(frame.tag)]
             moved(tag) == [frame EXCEPT !.tag = tag, !.at = p]
             more(tag) == field.repeated /\ moved(tag).tag = frame.tag
                            /\ ~(C!IsPackable(field) /\ C!WireOf(frame.tag) = C!LengthDelimited)
  <2>1. /\ C!Read(p, frame.limit) = CP!Read(p, frame.limit) /\ C!LengthDelimited = CP!LengthDelimited
        /\ C!NumberOf(frame.tag) = CP!NumberOf(frame.tag) /\ C!WireOf(frame.tag) = CP!WireOf(frame.tag)
        /\ C!IsPackable(field) <=> CP!IsPackable(field)
    BY SameReading, SameFields
  <2>2. CASE frame.kind = "nested" BY <2>2 DEF C!Onward, CP!Onward
  <2>3. CASE frame.kind = "single"
    <3>1. C!Onward(frame, p) = [moved(C!Read(p, frame.limit)) EXCEPT !.kind = IF more(C!Read(p, frame.limit)) THEN @ ELSE "last"]
      BY <2>3 DEF C!Onward
    <3>2. CP!Onward(frame, p) = [moved(C!Read(p, frame.limit)) EXCEPT !.kind = IF more(C!Read(p, frame.limit)) THEN @ ELSE "last"]
      BY <2>1, <2>3 DEF CP!Onward
    <3> QED BY <3>1, <3>2
  <2>4. CASE frame.kind \notin {"nested", "single"} BY <2>1, <2>4 DEF C!Onward, CP!Onward
  <2> QED BY <2>2, <2>3, <2>4
<1>11. C!Url = CP!Url BY <1>1, SameReading DEF C!Url, CP!Url
<1>12. \A s : C!PopBack(s) = CP!PopBack(s) BY DEF C!PopBack, CP!PopBack
<1> QED BY <1>1, <1>2, <1>3, <1>4, <1>5, <1>6, <1>7, <1>8, <1>9, <1>10, <1>11, <1>12

\* They change the same,
LEMMA SameChanges ==
  /\ \A frame : C!SetTop(frame) <=> CP!SetTop(frame)
  /\ \A p : C!Proceed(p) <=> CP!Proceed(p)
  /\ \A p : C!Return(p) <=> CP!Return(p)
  /\ C!Fail <=> CP!Fail
  /\ \A at, v : C!AddToChecksum(at, v) <=> CP!AddToChecksum(at, v)
  /\ C!CountUrl <=> CP!CountUrl
<1> USE DEF C!config, CP!config, C!input, CP!input, C!answer, CP!answer
<1>1. \A frame : C!SetTop(frame) <=> CP!SetTop(frame) BY DEF C!SetTop, CP!SetTop
<1>2. \A p : C!Proceed(p) <=> CP!Proceed(p)
  BY <1>1, SameReading, SameFrames DEF C!Proceed, CP!Proceed
<1>3. \A p : C!Return(p) <=> CP!Return(p)
  BY SameReading, SameFrames DEF C!Return, CP!Return
<1>4. C!Fail <=> CP!Fail BY DEF C!Fail, CP!Fail
<1>5. \A at, v : C!AddToChecksum(at, v) <=> CP!AddToChecksum(at, v)
  BY SameFields DEF C!AddToChecksum, CP!AddToChecksum
<1>6. C!CountUrl <=> CP!CountUrl BY <1>5, SameFrames DEF C!CountUrl, CP!CountUrl
<1> QED BY <1>1, <1>2, <1>3, <1>4, <1>5, <1>6

\* so that the calls of the checksummer are those its theorems are about,
LEMMA SameCalls ==
  ASSUME NEW kind, NEW type, NEW p, NEW limit, C!Start(kind, type, p, limit)
  PROVE  CP!Start(kind, type, p, limit)
BY SameReading, SameFrames DEF C!Start, CP!Start, C!input, CP!input, C!answer, CP!answer

\* and so are its steps.
LEMMA SameSteps == C!Running => CP!Running
<1> USE DEF C!config, CP!config, C!input, CP!input, C!answer, CP!answer
<1>1. C!SkipUnknown => CP!SkipUnknown
  BY SameReading, SameFrames, SameChanges DEF C!SkipUnknown, CP!SkipUnknown
<1>2. C!SkipDeep => CP!SkipDeep BY SameFrames, SameChanges DEF C!SkipDeep, CP!SkipDeep
<1>3. C!ScanPrimitiveField => CP!ScanPrimitiveField
  BY SameReading, SameFrames, SameChanges DEF C!ScanPrimitiveField, CP!ScanPrimitiveField
<1>4. C!StartPacked => CP!StartPacked
  BY SameReading, SameFields, SameFrames DEF C!StartPacked, CP!StartPacked
<1>5. C!ScanPacked => CP!ScanPacked
  BY SameReading, SameFrames, SameChanges DEF C!ScanPacked, CP!ScanPacked
<1>6. C!EndPacked => CP!EndPacked BY SameFrames, SameChanges DEF C!EndPacked, CP!EndPacked
<1>7. C!EnterMessage => CP!EnterMessage
  BY SameReading, SameFields, SameFrames DEF C!EnterMessage, CP!EnterMessage
<1>8. C!ChildTypeError => CP!ChildTypeError
  BY SameFields, SameFrames, SameChanges DEF C!ChildTypeError, CP!ChildTypeError
<1>9. C!EndMessage => CP!EndMessage BY SameFrames, SameChanges DEF C!EndMessage, CP!EndMessage
<1>10. C!TimestampField => CP!TimestampField
  BY SameReading, SameFields, SameFrames, SameChanges DEF C!TimestampField, CP!TimestampField
<1>11. C!TimestampOther => CP!TimestampOther
  BY SameFields, SameFrames, SameChanges DEF C!TimestampOther, CP!TimestampOther
<1>12. C!EndTimestamp => CP!EndTimestamp BY SameFrames, SameChanges DEF C!EndTimestamp, CP!EndTimestamp
<1>13. C!RenderWrapperValue => CP!RenderWrapperValue
  BY SameReading, SameFields, SameFrames, SameChanges DEF C!RenderWrapperValue, CP!RenderWrapperValue
<1>14. C!AnyField => CP!AnyField
  BY SameReading, SameFields, SameFrames, SameChanges DEF C!AnyField, CP!AnyField
<1>15. C!AnyUrlMissingError => CP!AnyUrlMissingError
  BY SameFrames, SameChanges DEF C!AnyUrlMissingError, CP!AnyUrlMissingError
<1>16. C!AnyTypeError => CP!AnyTypeError
  BY SameReading, SameFrames, SameChanges DEF C!AnyTypeError, CP!AnyTypeError
<1>17. C!AnyWithoutValue => CP!AnyWithoutValue
  BY SameReading, SameFrames, SameChanges DEF C!AnyWithoutValue, CP!AnyWithoutValue
<1>18. C!EnterAny => CP!EnterAny
  BY SameReading, SameFrames, SameChanges DEF C!EnterAny, CP!EnterAny
<1>19. C!EndAny => CP!EndAny BY SameFrames, SameChanges DEF C!EndAny, CP!EndAny
<1>20. C!EndCall => CP!EndCall BY SameFrames DEF C!EndCall, CP!EndCall
<1>21. C!LeaveWrapper => CP!LeaveWrapper
  BY SameFields, SameFrames, SameChanges DEF C!LeaveWrapper, CP!LeaveWrapper
<1>22. C!Unwinding => CP!Unwinding
  BY SameFrames DEF C!Unwinding, CP!Unwinding, C!UnwindCall, CP!UnwindCall, C!FailCall,
     CP!FailCall, C!Failing, CP!Failing
<1> QED
  BY <1>1, <1>2, <1>3, <1>4, <1>5, <1>6, <1>7, <1>8, <1>9, <1>10, <1>11, <1>12, <1>13,
     <1>14, <1>15, <1>16, <1>17, <1>18, <1>19, <1>20, <1>21, <1>22
  DEF C!Running, CP!Running, C!ScanMessage, CP!ScanMessage, C!Render, CP!Render,
      C!ScanAnyMessage, CP!ScanAnyMessage

-------------------------------------------------------------------------------
(* The invariant: the tags are those around the scrubber and those of its      *)
(* calls; where the checksummer is asked, it is handed them, with that of the  *)
(* value of an Any, and what it has added it takes away before it answers.     *)

Carries(ts) == tags = IF summing THEN ts \o TagsOf(stack) ELSE <<>>

Asked(ts) ==
  IF Top.kind = "any" THEN Append(ts \o TagsOf(stack), Top.value.tag) ELSE ts \o TagsOf(stack)

Handed(ts) == summing /\ \E base : base = Asked(ts) /\ CP!Handed(base)

TagsInv ==
  /\ phase # "sum" => sumPhase = "idle"
  /\ phase = "copy" => stack = <<>>
  /\ phase \in {"scan", "copy", "sum"} =>
       \E ts : Surround(outer, ts) /\ IF phase = "sum" THEN Handed(ts) ELSE Carries(ts)

\* The first call of a scrubber has no tag.
LEMMA TagsOfRoot ==
  /\ TagsOf(<<>>) = <<>>
  /\ \A st : Len(st) = 1 => TagsOf(st) = <<>>
  /\ \A ts : Sequence(ts) => ts \o <<>> = ts
<1>1. TagsOf(<<>>) = <<>> BY SequenceEmpty DEF TagsOf
<1>2. ASSUME NEW st, Len(st) = 1 PROVE TagsOf(st) = <<>> BY <1>2 DEF TagsOf
<1>3. ASSUME NEW ts, Sequence(ts) PROVE ts \o <<>> = ts
  <2>1. PICK S : ts \in Seq(S) BY <1>3 DEF Sequence
  <2> QED BY <2>1, ConcatEmptySeq
<1> QED BY <1>1, <1>2, <1>3

\* A scrubber that begins has no tag of its own.
LEMMA TagsOfBegun == ASSUME NEW type PROVE TagsOf(Root(type)) = <<>>
BY CallsRoot, TagsOfRoot

\* The tags around a scrubber are a sequence.
LEMMA SurroundSequence == ASSUME NEW ts, Surround(outer, ts) PROVE Sequence(ts)
BY TagsAroundIs

\* A step of a scan carries the tags on with its calls.
LEMMA ScanStepTags == ASSUME PathInv, TagsInv, ScanStep PROVE TagsInv'
<1>1. Amid BY DEF ScanStep, GoesOn, MakesCall, Returns, GoesOnWith, CallsFrom, ReturnsTo
<1>2. Calls(stack) BY <1>1 DEF PathInv, Unwinds, Amid
<1>3. PICK ts : Surround(outer, ts) /\ Carries(ts) BY <1>1 DEF TagsInv, Amid
<1>4. Sequence(ts) BY <1>3, SurroundSequence
<1>5. Sequence(TagsOf(stack)) BY <1>2, TagsOfCalls
<1>6. ASSUME NEW f, GoesOnWith(f) PROVE Carries(ts)'
  <2>1. TagsOf(stack') = TagsOf(stack) BY <1>2, <1>6, TagsOfSetBack DEF GoesOnWith, Top
  <2> QED BY <1>1, <1>3, <1>6, <2>1 DEF Carries, GoesOnWith, Amid
<1>7. ASSUME NEW g, NEW f, CallsFrom(g, f) PROVE Carries(ts)'
  <2>1. Calls(SetBack(stack, g)) /\ TagsOf(SetBack(stack, g)) = TagsOf(stack)
    BY <1>2, <1>7, CallsBack, TagsOfSetBack DEF CallsFrom, Top
  <2>2. TagsOf(stack') = Append(TagsOf(stack), CountedTag(f))
    BY <1>7, <2>1, TagsOfAppend DEF CallsFrom
  <2>3. ts \o TagsOf(stack') = Append(ts \o TagsOf(stack), CountedTag(f))
    BY <1>4, <1>5, <2>2, ConcatAppend
  <2> QED BY <1>1, <1>3, <1>7, <2>3 DEF Carries, CallsFrom, Amid
<1>8. ASSUME NEW f, ReturnsTo(f) PROVE Carries(ts)'
  <2>1. Calls(PopBack(stack)) BY <1>2, <1>8, CallsPop DEF ReturnsTo
  <2>2. TagsOf(stack') = TagsOf(PopBack(stack)) BY <1>8, <2>1, TagsOfSetBack DEF ReturnsTo
  <2>3. PopBack(ts \o TagsOf(stack)) = ts \o TagsOf(stack')
    BY <1>2, <1>4, <1>8, <2>2, TagsOfPop DEF ReturnsTo
  <2>4. tags' = (IF summing THEN PopBack(tags) ELSE tags) /\ summing' = summing
    BY <1>1, <1>8 DEF ReturnsTo, Amid
  <2> QED BY <1>3, <2>3, <2>4 DEF Carries
<1>9. Carries(ts)' BY <1>6, <1>7, <1>8 DEF ScanStep, GoesOn, MakesCall, Returns
<1>10. Surround(outer, ts)' BY <1>1, <1>3 DEF Amid
<1> QED BY <1>1, <1>9, <1>10 DEF TagsInv, Amid, checksummer

\* The checksummer is asked.
LEMMA AskTags ==
  ASSUME PathInv, TagsInv, AskForField \/ AskForValue \/ AskForAny PROVE TagsInv'
<1>1. /\ phase = "scan" /\ phase' = "sum" /\ summing
      /\ UNCHANGED <<outer, stack, summing, checksummer>>
      /\ tags' = IF Top.kind = "any" THEN Append(tags, Top.value.tag) ELSE tags
  BY DEF AskForField, AskForValue, AskForAny, Push, AnyRead, AtField, AtValue, AtEntryField, In,
         Staying, config, sums
<1>2. PICK ts : Surround(outer, ts) /\ Carries(ts) BY <1>1 DEF TagsInv
<1>3. tags' = Asked(ts)' BY <1>1, <1>2 DEF Carries, Asked, Top
<1>4. PICK base : base = Asked(ts)' BY <1>3
<1>5. sumPhase' = "idle" /\ sumPhase = "idle" BY <1>1 DEF TagsInv, checksummer
<1>6. Calls(stack) BY <1>1 DEF PathInv, Unwinds
<1>7. Sequence(base)
  <2>1. Sequence(ts) /\ Sequence(TagsOf(stack)) BY <1>2, <1>6, SurroundSequence, TagsOfCalls
  <2>2. Sequence(ts \o TagsOf(stack)) BY <2>1, SequenceConcat
  <2>3. Sequence(Append(ts \o TagsOf(stack), Top.value.tag)) BY <2>2, SequenceAppend
  <2> QED BY <1>1, <1>4, <2>2, <2>3 DEF Asked, Top
<1>8. CP!Handed(base)' BY <1>3, <1>4, <1>5, <1>7 DEF CP!Handed, CP!Sequence, Sequence
<1>9. Handed(ts)' BY <1>1, <1>4, <1>8 DEF Handed
<1> QED BY <1>1, <1>2, <1>9 DEF TagsInv

\* The scrubber of the value of an Any begins, and returns.
LEMMA ScrubAnyTags == ASSUME PathInv, TagsInv, ScrubAny PROVE TagsInv'
<1> DEFINE s == [value |-> Top.value.bytes, depth |-> Depth + Len(path),
                 pos |-> pos, stack |-> stack, path |-> path, copies |-> copies]
<1>1. /\ phase = "scan" /\ phase' = "scan" /\ outer' = Append(outer, s) /\ s.stack = stack
      /\ tags' = IF summing THEN Append(tags, Top.value.tag) ELSE tags
      /\ UNCHANGED <<summing, checksummer>> /\ \E type : stack' = Root(type)
  BY DEF ScrubAny, AnyRead, In, Push, config
<1> HIDE DEF s
<1>2. Calls(stack) /\ Sequence(outer) BY <1>1 DEF PathInv, Unwinds
<1>3. PICK ts : Surround(outer, ts) /\ Carries(ts) BY <1>1 DEF TagsInv
<1>4. Sequence(ts) /\ Sequence(TagsOf(stack)) BY <1>2, <1>3, SurroundSequence, TagsOfCalls
<1>5. TagsHanded(s) = Append(TagsOf(stack), Top.value.tag) BY <1>1 DEF TagsHanded, Top
<1>6. Sequence(TagsHanded(s)) BY <1>4, <1>5, SequenceAppend
<1>7. PICK us : us = ts \o TagsHanded(s) BY <1>6
<1>8. Surround(outer, us)' BY <1>1, <1>2, <1>3, <1>6, <1>7, SurroundAppend
<1>9. us = Append(ts \o TagsOf(stack), Top.value.tag) BY <1>4, <1>5, <1>7, ConcatAppend
<1>10. us \o TagsOf(stack') = us
  <2>1. Sequence(us) BY <1>4, <1>6, <1>7, SequenceConcat
  <2> QED BY <1>1, <2>1, TagsOfBegun, TagsOfRoot
<1>11. Carries(us)' BY <1>1, <1>3, <1>9, <1>10 DEF Carries
<1> QED BY <1>1, <1>8, <1>11 DEF TagsInv, checksummer

\* The scrubber of an Any hands the tags back as it got them, but for that of the value.
LEMMA AnyReturnsTags ==
  ASSUME PathInv, TagsInv, AnyReturns PROVE TagsInv'
<1>1. PICK value : AnyScrubbed(value) /\ outer # <<>> BY DEF AnyReturns
<1> DEFINE caller == Back(outer)
           f == [Back(caller.stack) EXCEPT !.kind = "scrubbed", !.value.bytes = value]
<1>2. /\ phase' = "scan" /\ outer' = PopBack(outer) /\ stack' = SetBack(caller.stack, f)
      /\ tags' = IF summing THEN PopBack(tags) ELSE tags
      /\ UNCHANGED <<summing, checksummer>>
  BY <1>1 DEF AnyScrubbed, Pop, config
<1>3. PICK ts : Surround(outer, ts) /\ Carries(ts) BY DEF TagsInv, AnyReturns
<1>4. Sequence(ts) /\ Sequence(outer) BY <1>3, SurroundSequence DEF PathInv
<1>5. ts \o TagsOf(stack) = ts BY <1>4, TagsOfRoot DEF TagsInv, AnyReturns
<1>6. PICK us : Surround(PopBack(outer), us) /\ Sequence(us) /\ ts = us \o TagsHanded(caller)
  BY <1>1, <1>3, <1>4, SurroundPop
<1>7. Calls(caller.stack) /\ Back(caller.stack).kind = "any"
  <2>1. Len(outer) \in 1..Len(outer) BY <1>1, <1>4, SequenceLen
  <2> QED BY <2>1 DEF PathInv, Waiting, Unwinds, Back
<1>8. Alike(Back(caller.stack), f)
  <2>1. IsFrame(Back(caller.stack)) BY <1>7, CallsBack
  <2> HIDE DEF caller
  <2> QED BY <1>7, <2>1 DEF IsFrame, Alike
<1> HIDE DEF f, caller
<1>9. TagsOf(stack') = TagsOf(caller.stack) BY <1>2, <1>7, <1>8, TagsOfSetBack
<1>10. PopBack(ts) = us \o TagsOf(stack')
  <2>1. Sequence(TagsOf(caller.stack)) BY <1>7, TagsOfCalls
  <2>2. ts = Append(us \o TagsOf(caller.stack), Back(caller.stack).value.tag)
    BY <1>6, <2>1, ConcatAppend DEF TagsHanded
  <2>3. Sequence(us \o TagsOf(caller.stack)) BY <1>6, <2>1, SequenceConcat
  <2> QED BY <1>9, <2>2, <2>3, PopAppend
<1>11. Carries(us)' BY <1>2, <1>3, <1>5, <1>10 DEF Carries
<1>12. Surround(outer, us)' BY <1>2, <1>6
<1>13. sumPhase' = "idle" BY <1>2 DEF TagsInv, AnyReturns, checksummer
<1> QED BY <1>2, <1>11, <1>12, <1>13 DEF TagsInv

\* A scrubber that runs does not wait for the checksummer.
LEMMA RunningPhase == Running => phase \in {"scan", "copy"}
BY DEF Running, ScanFieldStep, ScanMapEntryStep, ScanAnyStep, ScanChildStep, CopyNext, Copy,
       Replace, ReplaceInAny, Copied, ExcludeField, AskForField, ExcludeFieldError, IncludeField,
       UnknownPartialError, NotConsumedError, EndMessage, EndRoot, EntryKey, ExcludeValue,
       AskForValue, ExcludeValueError, IncludeValue, OtherEntryField, EndEntry, EndEntryEarly,
       EnterAny, AnyField, IncludeAny, ExcludeAny, AskForAny, ExcludeAnyError, ScrubAny,
       EndRootOfAny, DropEmptyAny, EmptyAny, KeepAny, EnterMessage, EnterMap,
       UntypedChildError, EnterPacked, EnumValue, EnumValueError, PackedValue, EndPacked,
       AtChild, AtEnum, AtPartial, AtField, AtValue, AtEntryField, AnyRead, In

\* A scrubber that runs keeps the invariant,
LEMMA RunningTags == ASSUME PathInv, TagsInv, Running PROVE TagsInv'
<1>1. RunsOn BY RunningSteps DEF PathInv
<1>2. phase \in {"scan", "copy"} BY RunningPhase
<1>3. CASE AnyReturns BY <1>3, AnyReturnsTags
<1>4. CASE EndRoot
  <2>1. /\ phase = "scan" /\ Len(stack) = 1 /\ stack' = <<>> /\ phase' \in {"ok", "copy"}
        /\ UNCHANGED <<outer, tags, summing, checksummer>>
    BY <1>4 DEF EndRoot, In, Staying, config, sums
  <2>2. TagsOf(stack') = TagsOf(stack) BY <2>1, TagsOfRoot
  <2>3. \A ts : Carries(ts) => Carries(ts)' BY <2>1, <2>2 DEF Carries
  <2> QED BY <2>1, <2>3 DEF TagsInv, checksummer
<1>5. CASE Replace BY <1>5 DEF Replace, Copied, TagsInv, checksummer
<1>6. CASE Fail BY <1>2, <1>6 DEF Fail, Abort, TagsInv, checksummer
<1>7. CASE Copies
  BY <1>7 DEF Copies, TagsInv, Carries, checksummer
<1> QED BY <1>1, <1>3, <1>4, <1>5, <1>6, <1>7, ScanStepTags, AskTags, ScrubAnyTags DEF RunsOn

\* The checksummer is called, runs, and answers.
LEMMA SummingTags == ASSUME PathInv, TagsInv, Summing PROVE TagsInv'
<1>1. phase = "sum" BY DEF Summing, CallChecksummer, ChecksummerStep, FieldSummed, ValueSummed,
                           AnySummed, SumError, Answered
<1>2. PICK ts : Surround(outer, ts) /\ Handed(ts) BY <1>1 DEF TagsInv
<1>3. PICK base : base = Asked(ts) /\ CP!Handed(base) BY <1>2 DEF Handed
<1>4. summing /\ Calls(stack) BY <1>1, <1>2 DEF Handed, PathInv, Unwinds
<1>5. CASE CallChecksummer \/ ChecksummerStep
  <2>1. UNCHANGED <<phase, outer, stack, summing>>
    BY <1>5 DEF CallChecksummer, ChecksummerStep, scrubber, config
  <2>2. ASSUME CallChecksummer PROVE CP!Handed(base)'
    <3>1. PICK kind, type, p, limit : /\ kind \in {"message", "single"}
                                      /\ C!Start(kind, type, p, limit)
      BY <2>2 DEF CallChecksummer
    <3>2. kind \in CP!CallerKinds BY <3>1 DEF CP!CallerKinds
    <3> QED BY <1>3, <3>1, <3>2, SameCalls, SumAssumptions, CP!StartHands
  <2>3. ASSUME ChecksummerStep PROVE CP!Handed(base)'
    BY <1>3, <2>3, SameSteps, SumAssumptions, CP!RunningHands DEF ChecksummerStep
  <2>4. CP!Handed(base)' BY <1>5, <2>2, <2>3
  <2>5. base = Asked(ts)' BY <1>3, <2>1 DEF Asked, Top
  <2>6. Handed(ts)' BY <1>4, <2>1, <2>4, <2>5 DEF Handed
  <2> QED BY <1>1, <1>2, <2>1, <2>6 DEF TagsInv
<1>6. sumPhase = "ok" => tags = Asked(ts) BY <1>3 DEF CP!Handed
<1>7. CASE FieldSummed \/ ValueSummed
  <2>1. /\ phase' = "scan" /\ sumPhase = "ok" /\ sumPhase' = "idle" /\ Top.kind # "any"
        /\ UNCHANGED <<outer, stack, tags, summing>>
    BY <1>7 DEF FieldSummed, ValueSummed, Answered, Staying, config
  <2>2. Carries(ts)' BY <1>4, <1>6, <2>1 DEF Carries, Asked
  <2> QED BY <1>2, <2>1, <2>2 DEF TagsInv
<1>8. CASE AnySummed
  <2>1. /\ phase' = "scan" /\ sumPhase = "ok" /\ sumPhase' = "idle" /\ Top.kind = "any"
        /\ tags' = PopBack(PopBack(tags)) /\ UNCHANGED <<outer, summing>>
    BY <1>4, <1>8 DEF AnySummed, Answered, DropAny, Staying, config
  <2>2. /\ Len(stack) > 1
        /\ \E f : Alike(Back(PopBack(stack)), f) /\ stack' = SetBack(PopBack(stack), f)
    BY <1>1, <1>8, AnySummedReturns DEF PathInv
  <2>3. TagsOf(stack') = TagsOf(PopBack(stack)) BY <1>4, <2>2, CallsPop, TagsOfSetBack
  <2>4. Sequence(ts) /\ Sequence(TagsOf(stack)) BY <1>2, <1>4, SurroundSequence, TagsOfCalls
  <2>5. Sequence(ts \o TagsOf(stack)) BY <2>4, SequenceConcat
  <2>6. PopBack(tags) = ts \o TagsOf(stack) BY <1>6, <2>1, <2>5, PopAppend DEF Asked
  <2>7. tags' = ts \o TagsOf(stack') BY <1>4, <2>1, <2>2, <2>3, <2>4, <2>6, TagsOfPop
  <2>8. Carries(ts)' BY <1>4, <2>1, <2>7 DEF Carries
  <2> QED BY <1>2, <2>1, <2>8 DEF TagsInv
<1>9. CASE SumError BY <1>9 DEF SumError, Answered, Abort, TagsInv
<1> QED BY <1>5, <1>7, <1>8, <1>9 DEF Summing

\* and so does every step there is.
LEMMA TagsStep == ASSUME PathInv, TagsInv, [SumNext]_vars PROVE TagsInv'
<1>1. CASE Scrub
  <2>1. /\ phase # "sum" /\ phase' \in {"scan", "ok"} /\ outer' = <<>> /\ tags' = <<>>
        /\ UNCHANGED checksummer
        /\ phase' = "scan" => stack' = Root(RootType)
    BY <1>1 DEF Scrub, Between
  <2>2. phase' = "scan" => TagsOf(stack') = <<>> BY <2>1, TagsOfBegun
  <2>3. phase' = "scan" => Carries(<<>>)'
    <3>1. <<>> \o <<>> = <<>> BY TagsOfRoot, SequenceEmpty
    <3> QED BY <2>1, <2>2, <3>1 DEF Carries
  <2>4. Surround(outer', <<>>) BY <2>1, SurroundEmpty
  <2> QED BY <2>1, <2>3, <2>4 DEF TagsInv, checksummer
<1>2. ASSUME NEW c \in Filters, AddFieldFilter(c) PROVE TagsInv'
  BY <1>2 DEF AddFieldFilter, Between, TagsInv, checksummer
<1>3. CASE UNCHANGED vars
  BY <1>3 DEF vars, sums, config, checksummer, TagsInv, Carries, Handed, Asked, Top, Data, CP!Handed, CP!Top
<1> QED BY <1>1, <1>2, <1>3, RunningTags, SummingTags DEF SumNext, Next

\* What is summed in a scrub is summed with the tags of the calls in progress,
\* whatever Anys it is in and whatever the checksummer was asked before.
THEOREM TagsFollow == SumSpec => []TagsFollowCalls
<1>1. Init => TagsInv BY DEF Init, TagsInv
<1>2. TagsInv => TagsFollowCalls
  <2>1. ASSUME NEW ts, Surround(outer, ts), Carries(ts) PROVE TagsFollowCalls
    BY <2>1, TagsAroundIs DEF Carries, TagsFollowCalls
  <2> QED BY <2>1 DEF TagsInv, TagsFollowCalls
<1> QED BY <1>1, <1>2, PathInit, PathStep, TagsStep, PTL DEF SumSpec
===============================================================================
