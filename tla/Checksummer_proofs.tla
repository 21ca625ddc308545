-------------------------- MODULE Checksummer_proofs ---------------------------
(***************************************************************************)
(* The tags handed to the checksummer: every call it makes takes its tag   *)
(* back, so that they are the caller's again when it returns.              *)
(***************************************************************************)
EXTENDS Checksummer, WireFormat_proofs

-------------------------------------------------------------------------------
(* Frames                                                                      *)

IsFrame(f) == DOMAIN f = {"kind", "type", "limit", "tag", "at", "url", "value", "back"}

\* A frame goes on: a single field may be complete, and an Any have been read.
Alike(f, g) ==
  /\ IsFrame(g)
  /\ \/ g.kind = f.kind
     \/ f.kind = "single" /\ g.kind = "last"
     \/ f.kind = "any" /\ g.kind = "nested"

\* A frame that is made has the fields of one.
LEMMA FrameIsFrame ==
  ASSUME NEW kind, NEW type, NEW limit, NEW p
  PROVE  IsFrame(Frame(kind, type, limit, p)) /\ Frame(kind, type, limit, p).kind = kind
BY DEF IsFrame, Frame

\* A frame that reads the next tag is still the same call.
LEMMA OnwardAlike ==
  ASSUME NEW f, IsFrame(f), NEW p PROVE Alike(f, Onward(f, p))
<1> DEFINE onward == [f EXCEPT !.tag = Read(p, f.limit), !.at = p]
           field == Fields[f.type][NumberOf(f.tag)]
           again == field.repeated /\ onward.tag = f.tag
                      /\ ~(IsPackable(field) /\ WireOf(f.tag) = LengthDelimited)
<1>1. IsFrame(onward) /\ onward.kind = f.kind BY DEF IsFrame
<1>2. Onward(f, p) = CASE f.kind = "nested" -> f
                       [] f.kind = "single" -> [onward EXCEPT !.kind = IF again THEN @ ELSE "last"]
                       [] OTHER             -> onward
  BY DEF Onward
<1> HIDE DEF onward, again, field
<1>3. CASE f.kind = "nested" BY <1>2, <1>3 DEF Alike
<1>4. CASE f.kind = "single"
  <2>1. Onward(f, p) = [onward EXCEPT !.kind = IF again THEN onward.kind ELSE "last"]
    BY <1>2, <1>4
  <2> QED BY <1>1, <1>4, <2>1 DEF Alike, IsFrame
<1>5. CASE f.kind \notin {"nested", "single"} BY <1>1, <1>2, <1>5 DEF Alike
<1> QED BY <1>3, <1>4, <1>5

\* The calls of the checksummer: a packed field makes none.
CallerKinds == {"message", "single", "last"}

Calls(st) ==
  /\ Sequence(st) /\ st # <<>> /\ st[1].kind \in CallerKinds
  /\ \A i \in 1..Len(st) : IsFrame(st[i])
  /\ \A i \in 1..(Len(st) - 1) : st[i].kind # "packed"

\* How many tags the calls have pushed.
Pushed(st) == IF st[Len(st)].kind = "packed" THEN Len(st) - 2 ELSE Len(st) - 1

\* `at` are the tags of the caller with those that the calls have pushed.
Follows(st, at, base) ==
  /\ Calls(st) /\ Sequence(at) /\ Sequence(base)
  /\ Len(at) = Len(base) + Pushed(st)
  /\ \A i \in 1..Len(base) : at[i] = base[i]

\* There is an innermost call, and one of a kind that is only called is not the first.
LEMMA CallsLen ==
  ASSUME NEW st, Calls(st)
  PROVE  /\ Len(st) \in Nat /\ Len(st) \in 1..Len(st) /\ Sequence(st) /\ IsFrame(st[Len(st)])
         /\ st[Len(st)].kind \notin CallerKinds => Len(st) > 1
<1>1. Len(st) \in Nat /\ Len(st) >= 1 BY SequenceLen DEF Calls
<1> QED BY <1>1 DEF Calls

\* The innermost call goes on, makes a call or returns.
LEMMA FollowsSet ==
  ASSUME NEW st, NEW at, NEW base, Follows(st, at, base), NEW f, Alike(st[Len(st)], f)
  PROVE  /\ Follows([st EXCEPT ![Len(st)] = f], at, base)
         /\ Len([st EXCEPT ![Len(st)] = f]) = Len(st)
<1> DEFINE t == [st EXCEPT ![Len(st)] = f]
<1>0. Calls(st) BY DEF Follows
<1>1. /\ Len(st) \in Nat /\ Len(st) \in 1..Len(st) /\ Sequence(st)
  BY <1>0, CallsLen
<1>2. /\ Sequence(t) /\ Len(t) = Len(st) /\ t[Len(st)] = f
      /\ \A i \in 1..Len(st) : i # Len(st) => t[i] = st[i]
  BY <1>1, SequenceExcept
<1> HIDE DEF t
<1>3. t # <<>> BY <1>1, <1>2, SequenceLen
<1>4. t[1].kind \in CallerKinds BY <1>0, <1>1, <1>2 DEF Calls, Alike, CallerKinds
<1>5. Calls(t) BY <1>0, <1>1, <1>2, <1>3, <1>4 DEF Calls, Alike
<1>6. Pushed(t) = Pushed(st) BY <1>2 DEF Pushed, Alike
<1> QED BY <1>2, <1>5, <1>6 DEF Follows, t

\* A call that is made pushes its tag; a packed field has none to push.
LEMMA FollowsPush ==
  ASSUME NEW st, NEW at, NEW base, Follows(st, at, base), NEW f, IsFrame(f), NEW tag,
         st[Len(st)].kind # "packed"
  PROVE  Follows(Append(st, f), IF f.kind = "packed" THEN at ELSE Append(at, tag), base)
<1> DEFINE t == Append(st, f)
           u == IF f.kind = "packed" THEN at ELSE Append(at, tag)
<1>0. Calls(st) BY DEF Follows
<1>1. /\ Len(st) \in Nat /\ Len(st) \in 1..Len(st) /\ Sequence(st)
  BY <1>0, CallsLen
<1>2. /\ Sequence(t) /\ Len(t) = Len(st) + 1 /\ t[Len(st) + 1] = f
      /\ \A i \in 1..Len(st) : t[i] = st[i]
  BY <1>1, SequenceAppend
<1>3. t # <<>> BY <1>1, <1>2, SequenceLen
<1>4. /\ Sequence(u) /\ Len(u) = IF f.kind = "packed" THEN Len(at) ELSE Len(at) + 1
      /\ \A i \in 1..Len(at) : u[i] = at[i]
  BY SequenceAppend DEF Follows
<1> HIDE DEF t, u
<1>5. Calls(t) BY <1>0, <1>1, <1>2, <1>3 DEF Calls
<1>6. Pushed(t) = IF f.kind = "packed" THEN Pushed(st) ELSE Pushed(st) + 1
  BY <1>1, <1>2 DEF Pushed
<1>7. Pushed(st) \in Nat /\ Len(base) \in Nat /\ Len(at) = Len(base) + Pushed(st)
  BY <1>1, SequenceLen DEF Pushed, Follows
<1>8. \A i \in 1..Len(base) : u[i] = base[i] BY <1>4, <1>7 DEF Follows
<1>9. Len(u) = Len(base) + Pushed(t) BY <1>4, <1>6, <1>7
<1> QED BY <1>4, <1>5, <1>8, <1>9 DEF Follows, t, u

\* A call that returns pops its tag.
LEMMA FollowsPop ==
  ASSUME NEW st, NEW at, NEW base, Follows(st, at, base), Len(st) > 1
  PROVE  /\ Follows(PopBack(st), IF st[Len(st)].kind = "packed" THEN at ELSE PopBack(at), base)
         /\ Len(PopBack(st)) = Len(st) - 1
<1> DEFINE t == PopBack(st)
           packed == st[Len(st)].kind = "packed"
           u == IF packed THEN at ELSE PopBack(at)
<1>0. Calls(st) BY DEF Follows
<1>1. /\ Len(st) \in Nat /\ Len(st) \in 1..Len(st) /\ Sequence(st)
  BY <1>0, CallsLen
<1>2. /\ Sequence(t) /\ Len(t) = Len(st) - 1
      /\ \A i \in 1..(Len(st) - 1) : t[i] = st[i]
  <2>1. Len(st) - 1 \in 0..Len(st) BY <1>1
  <2> QED BY <1>1, <2>1, SequencePrefix DEF PopBack
<1>3. t # <<>> BY <1>1, <1>2, SequenceLen
<1>4. /\ Len(base) \in Nat /\ Len(at) \in Nat /\ Sequence(at)
      /\ Len(at) = Len(base) + IF packed THEN Len(st) - 2 ELSE Len(st) - 1
  BY <1>1, SequenceLen DEF Pushed, Follows
<1>5. /\ Sequence(u) /\ Len(u) = Len(base) + Len(st) - 2
      /\ \A i \in 1..Len(u) : u[i] = at[i]
  <2>1. CASE packed BY <1>1, <1>4, <2>1
  <2>2. CASE ~packed
    <3>1. Len(at) - 1 \in 0..Len(at) BY <1>1, <1>4, <2>2
    <3>2. /\ Sequence(PopBack(at)) /\ Len(PopBack(at)) = Len(at) - 1
          /\ \A i \in 1..(Len(at) - 1) : PopBack(at)[i] = at[i]
      BY <1>4, <3>1, SequencePrefix DEF PopBack
    <3> QED BY <1>1, <1>4, <2>2, <3>2
  <2> QED BY <2>1, <2>2
<1> HIDE DEF t, u, packed
<1>6. Calls(t) BY <1>0, <1>1, <1>2, <1>3 DEF Calls
<1>7. Pushed(t) = Len(st) - 2
  <2>1. t[Len(t)].kind # "packed" BY <1>0, <1>1, <1>2 DEF Calls
  <2> QED BY <1>1, <1>2, <2>1 DEF Pushed
<1>8. \A i \in 1..Len(base) : u[i] = base[i] BY <1>1, <1>4, <1>5 DEF Follows
<1>9. Len(u) = Len(base) + Pushed(t) BY <1>1, <1>4, <1>5, <1>7
<1> QED BY <1>2, <1>5, <1>6, <1>8, <1>9 DEF Follows, t, u, packed

\* A call that was not made by another has no tag of its own.
LEMMA FollowsRoot ==
  ASSUME NEW st, NEW at, NEW base, Follows(st, at, base), Len(st) = 1
  PROVE  at = base
<1>1. st[Len(st)].kind # "packed" BY DEF Follows, Calls, CallerKinds
<1>2. Len(at) = Len(base)
  BY <1>1, SequenceLen DEF Follows, Pushed
<1> QED BY <1>2, SequenceEqual DEF Follows

-------------------------------------------------------------------------------
(* The steps of a scan: what they do to the calls and the tags.                *)

Handed(base) ==
  /\ Sequence(base)
  /\ phase \in {"idle", "ok", "error"} => tags = base
  /\ phase \in {"scan", "failing"} => Follows(stack, tags, base)
  /\ phase = "failing" => Top.kind # "packed"

GoesOn == /\ phase' = "scan" /\ UNCHANGED tags
          /\ \E f : Alike(Top, f) /\ stack' = [stack EXCEPT ![Len(stack)] = f]

CallsFrom(g, f, tag) ==
  /\ Alike(Top, g) /\ g.kind # "packed" /\ IsFrame(f)
  /\ stack' = Append([stack EXCEPT ![Len(stack)] = g], f)
  /\ tags' = IF f.kind = "packed" THEN tags ELSE Append(tags, tag)
MakesCall == phase' = "scan" /\ \E g, f, tag : CallsFrom(g, f, tag)

Returns ==
  /\ phase' = "scan" /\ Len(stack) > 1
  /\ tags' = IF Top.kind = "packed" THEN tags ELSE PopBack(tags)
  /\ \E f : LET below == PopBack(stack)
           IN  Alike(below[Len(below)], f) /\ stack' = [below EXCEPT ![Len(below)] = f]

ScanStep == GoesOn \/ MakesCall \/ Returns

\* A call that has a tag of its own, or was made by the user, finds an error.
Fails == Fail /\ Top.kind # "packed"

\* Whatever step a scan makes, the tags follow the calls.
LEMMA ScanStepFollows ==
  ASSUME NEW base, Follows(stack, tags, base), ScanStep
  PROVE  Follows(stack, tags, base)'
<1>1. CASE GoesOn
  <2>1. PICK f : Alike(stack[Len(stack)], f) /\ stack' = [stack EXCEPT ![Len(stack)] = f]
    BY <1>1 DEF GoesOn, Top
  <2>2. Follows(stack', tags, base) BY <2>1, FollowsSet
  <2> QED BY <1>1, <2>2 DEF GoesOn
<1>2. CASE MakesCall
  <2>1. PICK g, f, tag : CallsFrom(g, f, tag) BY <1>2 DEF MakesCall
  <2> DEFINE st == [stack EXCEPT ![Len(stack)] = g]
  <2>2. Follows(st, tags, base) /\ Len(st) = Len(stack) BY <2>1, FollowsSet DEF CallsFrom, Top
  <2>3. st[Len(st)] = g
    <3>1. Len(stack) \in 1..Len(stack) /\ Sequence(stack) BY CallsLen DEF Follows
    <3> QED BY <2>2, <3>1, SequenceExcept
  <2>4. stack' = Append(st, f) BY <2>1 DEF CallsFrom
  <2> HIDE DEF st
  <2> QED BY <2>1, <2>2, <2>3, <2>4, FollowsPush DEF CallsFrom
<1>3. CASE Returns
  <2> DEFINE below == PopBack(stack)
             at == IF Top.kind = "packed" THEN tags ELSE PopBack(tags)
  <2>1. PICK f : Alike(below[Len(below)], f) /\ stack' = [below EXCEPT ![Len(below)] = f]
    BY <1>3 DEF Returns
  <2>2. Follows(below, at, base) BY <1>3, FollowsPop DEF Returns, Top
  <2>3. tags' = at BY <1>3 DEF Returns
  <2> HIDE DEF below, at
  <2> QED BY <2>1, <2>2, <2>3, FollowsSet
<1> QED BY <1>1, <1>2, <1>3 DEF ScanStep

\* What is known of the innermost call.
LEMMA TopIsFrame ==
  ASSUME Calls(stack)
  PROVE  /\ IsFrame(Top) /\ Alike(Top, Top) /\ Len(stack) \in Nat /\ Sequence(stack)
         /\ [stack EXCEPT ![Len(stack)] = Top] = stack
         /\ Top.kind \notin CallerKinds => Len(stack) > 1
<1>1. /\ IsFrame(Top) /\ Alike(Top, Top) /\ Len(stack) \in 1..Len(stack) /\ Sequence(stack)
      /\ Top.kind \notin CallerKinds => Len(stack) > 1
  BY CallsLen DEF Top, Alike
<1> DEFINE t == [stack EXCEPT ![Len(stack)] = Top]
<1>2. Sequence(t) /\ Len(t) = Len(stack) /\ \A i \in 1..Len(stack) : t[i] = stack[i]
  BY <1>1, SequenceExcept DEF Top
<1>3. t = stack BY <1>1, <1>2, SequenceEqual
<1> QED BY <1>1, <1>3, SequenceLen

\* Proceed() lets the innermost call go on.
LEMMA ProceedGoesOn ==
  ASSUME Calls(stack), phase = "scan", NEW p, Proceed(p) PROVE GoesOn
BY TopIsFrame, OnwardAlike DEF Proceed, SetTop, GoesOn

\* Return() to a caller, with the tag that was pushed for the call taken back.
LEMMA ReturnReturns ==
  ASSUME Calls(stack), phase = "scan", Len(stack) > 1, NEW p, Return(p),
         tags' = IF Top.kind = "packed" THEN tags ELSE PopBack(tags)
  PROVE  Returns
<1> DEFINE below == PopBack(stack)
<1>1. Len(stack) - 1 \in 0..Len(stack) /\ Sequence(stack) BY TopIsFrame
<1>2. Len(below) = Len(stack) - 1 /\ \A i \in 1..(Len(stack) - 1) : below[i] = stack[i]
  BY <1>1, SequencePrefix DEF PopBack
<1>3. IsFrame(below[Len(below)]) BY <1>1, <1>2 DEF Calls
<1>4. \E q : stack' = [below EXCEPT ![Len(below)] = Onward(below[Len(below)], q)]
  BY DEF Return
<1> HIDE DEF below
<1>5. \E f : Alike(below[Len(below)], f) /\ stack' = [below EXCEPT ![Len(below)] = f]
  BY <1>3, <1>4, OnwardAlike
<1> QED BY <1>5 DEF Returns, Return, below

\* ScanMessage() and the scans of its fields make these steps, or fail.
LEMMA ScanMessageSteps ==
  ASSUME Calls(stack), ScanMessage, phase = "scan"
  PROVE  ScanStep \/ Fails
<1> USE TopIsFrame DEF ScanStep
<1>1. CASE SkipUnknown BY <1>1, ProceedGoesOn DEF SkipUnknown
<1>2. CASE SkipDeep
  <2>1. CASE Field.repeated
    <3> DEFINE f == [Top EXCEPT !.tag = 0, !.kind = IF @ = "single" THEN "last" ELSE @]
    <3>1. Alike(Top, f) BY DEF Alike, IsFrame
    <3> HIDE DEF f
    <3>2. stack' = [stack EXCEPT ![Len(stack)] = f] /\ UNCHANGED <<phase, tags>>
      BY <1>2, <2>1 DEF SkipDeep, SetTop, f
    <3> QED BY <3>1, <3>2 DEF GoesOn
  <2>2. CASE ~Field.repeated BY <1>2, <2>2, ProceedGoesOn DEF SkipDeep
  <2> QED BY <2>1, <2>2
<1>3. CASE ScanPrimitiveField BY <1>3, ProceedGoesOn DEF ScanPrimitiveField
<1>4. CASE StartPacked
  <2> DEFINE frame == Frame("packed", Top.type, End(pos, Top.limit), pos)
             f == [frame EXCEPT !.tag = Top.tag - LengthDelimited]
  <2>1. IsFrame(frame) /\ frame.kind = "packed" BY FrameIsFrame
  <2>2. stack' = Append(stack, f) /\ UNCHANGED <<phase, tags>> BY <1>4 DEF StartPacked
  <2> HIDE DEF frame
  <2>3. IsFrame(f) /\ f.kind = "packed" BY <2>1 DEF IsFrame
  <2>4. Top.kind # "packed" BY <1>4 DEF StartPacked, Scannable, AtField, AtTag, In
  <2> HIDE DEF f
  <2> QED BY <2>2, <2>3, <2>4 DEF MakesCall, CallsFrom
<1>5. CASE ScanPacked BY <1>5 DEF ScanPacked, GoesOn
<1>6. CASE EndPacked
  BY <1>6, ReturnReturns DEF EndPacked, In, CallerKinds
<1>7. CASE EnterMessage
  <2> DEFINE limit == End(pos, Top.limit)
             f == Frame(KindOf(Field.type), Field.type, limit, After(pos, Top.limit))
  <2>1. stack' = Append(stack, f) /\ tags' = Append(tags, Top.tag) /\ UNCHANGED phase
    BY <1>7 DEF EnterMessage
  <2>2. IsFrame(f) /\ f.kind # "packed" BY FrameIsFrame DEF KindOf
  <2>3. Top.kind # "packed" BY <1>7 DEF EnterMessage, Scannable, AtField, AtTag, In
  <2> HIDE DEF f
  <2> QED BY <2>1, <2>2, <2>3 DEF MakesCall, CallsFrom
<1>8. CASE ChildTypeError
  BY <1>8 DEF ChildTypeError, Fails, Scannable, AtField, AtTag, In
<1>9. CASE EndMessage
  BY <1>9, ReturnReturns DEF EndMessage, AtEnd, In
<1> QED BY <1>1, <1>2, <1>3, <1>4, <1>5, <1>6, <1>7, <1>8, <1>9 DEF ScanMessage

\* So do the renderers,
LEMMA RenderSteps ==
  ASSUME Calls(stack), Render, phase = "scan"
  PROVE  ScanStep
<1> USE TopIsFrame DEF ScanStep
<1>1. CASE TimestampField BY <1>1, ProceedGoesOn DEF TimestampField
<1>2. CASE TimestampOther BY <1>2, ProceedGoesOn DEF TimestampOther
<1>3. CASE EndTimestamp BY <1>3, ReturnReturns DEF EndTimestamp, AtEnd, In, CallerKinds
<1>4. CASE RenderWrapperValue BY <1>4, ReturnReturns DEF RenderWrapperValue, In, CallerKinds
<1>5. CASE LeaveWrapper BY <1>5, ReturnReturns DEF LeaveWrapper, In, CallerKinds
<1> QED BY <1>1, <1>2, <1>3, <1>4, <1>5 DEF Render

\* and ScanAnyMessage().
LEMMA ScanAnySteps ==
  ASSUME Calls(stack), ScanAnyMessage, phase = "scan"
  PROVE  ScanStep \/ Fails
<1> USE TopIsFrame DEF ScanStep
<1>1. CASE AnyField
  <2> DEFINE p == Skipped(Top.tag, pos, Top.limit)
  <2>1. Top.kind = "any" /\ UNCHANGED <<phase, tags>> BY <1>1 DEF AnyField, AtTag, In
  <2>2. \E part, frame : /\ frame \in {[Top EXCEPT !.url = part], [Top EXCEPT !.value = part], Top}
                        /\ SetTop(Onward(frame, p))
    BY <1>1 DEF AnyField
  <2>3. PICK part, frame :
          /\ frame \in {[Top EXCEPT !.url = part], [Top EXCEPT !.value = part], Top}
          /\ SetTop(Onward(frame, p))
    BY <2>2
  <2>4. IsFrame(frame) /\ frame.kind = "any" BY <2>1, <2>3 DEF IsFrame
  <2>5. Alike(Top, Onward(frame, p)) BY <2>1, <2>4, OnwardAlike DEF Alike
  <2> QED BY <2>1, <2>3, <2>5 DEF GoesOn, SetTop
<1>2. CASE AnyUrlMissingError \/ AnyTypeError
  BY <1>2 DEF AnyUrlMissingError, AnyTypeError, Fails, AtEnd, In
<1>3. CASE AnyWithoutValue
  <2> DEFINE f == [Top EXCEPT !.kind = "nested"]
  <2>1. Alike(Top, f) BY <1>3 DEF AnyWithoutValue, AtEnd, In, Alike, IsFrame
  <2>2. SetTop(f) /\ UNCHANGED <<phase, tags>> BY <1>3 DEF AnyWithoutValue
  <2> HIDE DEF f
  <2> QED BY <2>1, <2>2 DEF GoesOn, SetTop
<1>4. CASE EndAny BY <1>4, ReturnReturns DEF EndAny, In, CallerKinds
<1>5. CASE EnterAny
  <2> DEFINE v == Top.value
             g == [Top EXCEPT !.kind = "nested"]
             frame == Frame("message", TypeNamed(Url), v.to, v.from)
             f == [frame EXCEPT !.back = pos]
  <2>1. /\ stack' = Append(PopBack(stack), g) \o <<f>>
        /\ tags' = Append(tags, v.tag) /\ UNCHANGED phase
    BY <1>5 DEF EnterAny
  <2>2. Alike(Top, g) /\ g.kind # "packed" BY <1>5 DEF EnterAny, AtEnd, In, Alike, IsFrame
  <2>3. IsFrame(frame) /\ frame.kind = "message" BY FrameIsFrame
  <2> HIDE DEF frame, g
  <2>4. IsFrame(f) /\ f.kind # "packed" BY <2>3 DEF IsFrame
  <2> HIDE DEF f, v
  <2>5. Append(PopBack(stack), g) = [stack EXCEPT ![Len(stack)] = g]
    BY SequenceReplaceLast DEF PopBack, Calls
  <2>6. Sequence([stack EXCEPT ![Len(stack)] = g])
    <3>1. Len(stack) \in 1..Len(stack) BY CallsLen
    <3> QED BY <3>1, SequenceExcept
  <2>7. stack' = Append([stack EXCEPT ![Len(stack)] = g], f)
    BY <2>1, <2>5, <2>6, SequenceConcatOne
  <2> QED BY <2>1, <2>2, <2>4, <2>7 DEF MakesCall, CallsFrom
<1> QED BY <1>1, <1>2, <1>3, <1>4, <1>5 DEF ScanAnyMessage

\* A scan, until it ends or fails.
Scanning == ScanMessage \/ Render \/ ScanAnyMessage \/ EndCall

\* Only a call that scans, or hands up an error, makes steps.
LEMMA RunningScans ==
  /\ Running <=> Scanning \/ Unwinding
  /\ Scanning => phase = "scan"
  /\ Unwinding => phase = "failing"
<1>1. Running <=> Scanning \/ Unwinding BY DEF Running, Scanning
<1>2. Scanning => phase = "scan"
  BY DEF Scanning, ScanMessage, Render, ScanAnyMessage, EndCall, SkipUnknown, SkipDeep,
         ScanPrimitiveField, StartPacked, ScanPacked, EndPacked, EnterMessage, ChildTypeError,
         EndMessage, TimestampField, TimestampOther, EndTimestamp, RenderWrapperValue,
         LeaveWrapper, AnyField, AnyUrlMissingError, AnyTypeError, AnyWithoutValue, EnterAny,
         EndAny, Scannable, AtField, AtTag, AtEnd, In
<1>3. Unwinding => phase = "failing" BY DEF Unwinding, UnwindCall, FailCall, Failing
<1> QED BY <1>1, <1>2, <1>3

\* An error takes the tag of each call back: only a packed field, which finds none, has
\* not pushed one.
LEMMA UnwindingHands ==
  ASSUME NEW base, Handed(base), Unwinding
  PROVE  Handed(base)'
<1>1. Follows(stack, tags, base) /\ Calls(stack) /\ Top.kind # "packed" /\ phase = "failing"
  BY RunningScans DEF Handed, Follows
<1>2. CASE UnwindCall
  <2> DEFINE below == PopBack(stack)
  <2>1. Len(stack) > 1 /\ stack' = below /\ tags' = PopBack(tags) /\ phase' = "failing"
    BY <1>1, <1>2 DEF UnwindCall
  <2>2. Follows(below, PopBack(tags), base) /\ Len(below) = Len(stack) - 1
    BY <1>1, <2>1, FollowsPop DEF Top
  <2>3. below[Len(below)].kind # "packed"
    <3>1. Len(stack) \in Nat /\ Sequence(stack) BY <1>1, CallsLen
    <3>2. Len(stack) - 1 \in 0..Len(stack) /\ Len(stack) - 1 \in 1..(Len(stack) - 1)
      BY <2>1, <3>1
    <3>3. below[Len(below)] = stack[Len(stack) - 1]
      BY <2>2, <3>1, <3>2, SequencePrefix DEF PopBack
    <3> QED BY <1>1, <3>2, <3>3 DEF Calls
  <2> HIDE DEF below
  <2> QED BY <2>1, <2>2, <2>3 DEF Handed, Top
<1>3. CASE FailCall
  <2>1. tags = base BY <1>1, <1>3, FollowsRoot DEF FailCall
  <2> QED BY <1>3, <2>1 DEF FailCall, Handed
<1> QED BY <1>2, <1>3 DEF Unwinding

\* A step of a call hands the tags on as they were handed to it.
LEMMA RunningHands ==
  ASSUME NEW base, Handed(base), Running
  PROVE  Handed(base)'
<1>1. CASE Unwinding BY <1>1, UnwindingHands
<1>2. CASE Scanning
  <2>1. phase = "scan" BY <1>2, RunningScans
  <2>2. Follows(stack, tags, base) /\ Calls(stack) BY <2>1 DEF Handed, Follows
  <2>3. CASE ScanStep
    BY <2>2, <2>3, ScanStepFollows DEF Handed, ScanStep, GoesOn, MakesCall, Returns
  <2>4. CASE Fails BY <2>1, <2>4 DEF Fails, Fail, Handed, Top
  <2>5. CASE EndCall BY <2>2, <2>5, FollowsRoot DEF EndCall, Handed
  <2> QED BY <1>2, <2>1, <2>2, <2>3, <2>4, <2>5, ScanMessageSteps, RenderSteps, ScanAnySteps
          DEF Scanning
<1> QED BY <1>1, <1>2, RunningScans

\* A call begins with the tags of its caller.
LEMMA StartHands ==
  ASSUME NEW base, Handed(base), NEW kind \in CallerKinds, NEW type, NEW p, NEW limit,
         Start(kind, type, p, limit)
  PROVE  Handed(base)'
<1> DEFINE f == Frame(kind, type, limit, p)
<1>1. stack' = <<f>> /\ UNCHANGED tags /\ phase' = "scan" /\ tags = base BY DEF Start, Handed
<1>2. IsFrame(f) /\ f.kind = kind BY FrameIsFrame
<1> HIDE DEF f
<1>3. Sequence(<<f>>) /\ Len(<<f>>) = 1 /\ <<f>>[1] = f BY SequenceOne
<1>4. Calls(<<f>>) /\ Pushed(<<f>>) = 0
  BY <1>2, <1>3, SequenceLen DEF Calls, Pushed, CallerKinds
<1>5. Follows(<<f>>, tags, base) BY <1>1, <1>4, SequenceLen DEF Follows, Handed
<1> QED BY <1>1, <1>5 DEF Handed

-------------------------------------------------------------------------------
(* The limits of the calls, and the positions.  A scan that begins at the      *)
(* position `low` and may read up to the limit `high` stays between them; what *)
(* has been read of an Any is behind nothing that is still to be read.         *)

Placed(f, low) ==
  /\ f.limit \in Nat /\ f.at \in Nat /\ low <= f.at /\ f.at <= f.limit
  /\ f.back \in Nat \cup {-1} /\ (f.back # -1 => low <= f.back)

LimitInside(f, caller) ==
  IF f.back = -1 THEN f.limit <= caller.limit
  ELSE f.limit <= f.back /\ f.back <= caller.limit

Nested(st, low, high) ==
  /\ st[1].limit = high
  /\ \A i \in 1..Len(st) : Placed(st[i], low)
  /\ \A i \in 2..Len(st) : LimitInside(st[i], st[i - 1])
  /\ \A i \in 1..(Len(st) - 1) : st[i].kind # "any"

\* The value of an Any, if it has been read.
ValueRead(f, p, low) ==
  /\ f.value.from \in Nat /\ f.value.to \in Nat /\ f.value.to <= p
  /\ f.value.to # 0 => low <= f.value.from

\* The innermost call is at p, behind the tag it has read.
AtTagRead(f) == f.kind \notin {"packed", "nested"} /\ f.tag # 0

Reads(data, f, p, low) ==
  /\ p \in Nat /\ low <= p /\ p <= f.limit
  /\ AtTagRead(f) => p <= EndOf(data, f.limit)
  /\ f.kind = "any" => ValueRead(f, p, low)

Bounded(data, st, p, low, high) == Nested(st, low, high) /\ Reads(data, st[Len(st)], p, low)

SameBounds(f, g) == g.limit = f.limit /\ g.back = f.back

\* The innermost call may go on inside its limit.
LEMMA NestedSet ==
  ASSUME NEW st, Calls(st), NEW low, NEW high, Nested(st, low, high),
         NEW g, SameBounds(st[Len(st)], g), Placed(g, low)
  PROVE  Nested([st EXCEPT ![Len(st)] = g], low, high)
<1> DEFINE t == [st EXCEPT ![Len(st)] = g]
<1>1. Len(st) \in Nat /\ Len(st) \in 1..Len(st) /\ Sequence(st) BY CallsLen
<1>2. /\ Len(t) = Len(st) /\ t[Len(st)] = g
      /\ \A i \in 1..Len(st) : i # Len(st) => t[i] = st[i]
  BY <1>1, SequenceExcept
<1> HIDE DEF t
<1>3. \A i \in 2..Len(t) : LimitInside(t[i], t[i - 1])
  <2>1. TAKE i \in 2..Len(t)
  <2>2. LimitInside(st[i], st[i - 1]) /\ i \in 1..Len(st) /\ i - 1 \in 1..Len(st)
    BY <1>1, <1>2 DEF Nested
  <2>3. SameBounds(st[i], t[i]) /\ SameBounds(st[i - 1], t[i - 1])
    BY <1>1, <1>2, <2>2 DEF SameBounds
  <2> QED BY <2>2, <2>3 DEF LimitInside, SameBounds
<1>4. \A i \in 1..Len(t) : Placed(t[i], low)
  BY <1>1, <1>2 DEF Nested
<1>5. \A i \in 1..(Len(t) - 1) : t[i].kind # "any"
  <2>1. TAKE i \in 1..(Len(t) - 1)
  <2>2. i \in 1..(Len(st) - 1) /\ i \in 1..Len(st) /\ i # Len(st) BY <1>1, <1>2
  <2> QED BY <1>2, <2>2 DEF Nested
<1>6. t[1].limit = high
  <2>1. 1 \in 1..Len(st) BY <1>1
  <2>2. t[1] = st[1] \/ (t[1] = g /\ st[1] = st[Len(st)]) BY <1>2, <2>1
  <2> QED BY <2>2 DEF Nested, SameBounds
<1> QED BY <1>3, <1>4, <1>5, <1>6 DEF Nested, t

\* A call may be made with a limit inside that of its caller.
LEMMA NestedPush ==
  ASSUME NEW st, Calls(st), NEW low, NEW high, Nested(st, low, high),
         st[Len(st)].kind # "any",
         NEW f, LimitInside(f, st[Len(st)]), Placed(f, low)
  PROVE  Nested(Append(st, f), low, high) /\ Append(st, f)[Len(Append(st, f))] = f
<1> DEFINE t == Append(st, f)
<1>1. Len(st) \in Nat /\ Len(st) \in 1..Len(st) /\ Sequence(st) BY CallsLen
<1>2. Len(t) = Len(st) + 1 /\ t[Len(st) + 1] = f /\ \A i \in 1..Len(st) : t[i] = st[i]
  BY <1>1, SequenceAppend
<1> HIDE DEF t
<1>3. \A i \in 2..Len(t) : LimitInside(t[i], t[i - 1])
  <2>1. TAKE i \in 2..Len(t)
  <2>2. CASE i = Len(t) BY <1>1, <1>2, <2>2
  <2>3. CASE i # Len(t)
    <3>1. i \in 2..Len(st) /\ i \in 1..Len(st) /\ i - 1 \in 1..Len(st) BY <1>1, <1>2, <2>3
    <3> QED BY <1>2, <3>1 DEF Nested
  <2> QED BY <2>2, <2>3
<1>4. \A i \in 1..Len(t) : Placed(t[i], low)
  <2>1. TAKE i \in 1..Len(t)
  <2>2. CASE i = Len(t) BY <1>1, <1>2, <2>2
  <2>3. CASE i # Len(t)
    <3>1. i \in 1..Len(st) BY <1>1, <1>2, <2>3
    <3> QED BY <1>2, <3>1 DEF Nested
  <2> QED BY <2>2, <2>3
<1>5. \A i \in 1..(Len(t) - 1) : t[i].kind # "any" BY <1>1, <1>2 DEF Nested
<1>6. t[1].limit = high
  <2>1. 1 \in 1..Len(st) BY <1>1
  <2> QED BY <1>2, <2>1 DEF Nested
<1> QED BY <1>2, <1>3, <1>4, <1>5, <1>6 DEF Nested, t

\* The caller of a call that returns is not an Any that is being read.
LEMMA NestedPop ==
  ASSUME NEW st, Calls(st), Len(st) > 1, NEW low, NEW high, Nested(st, low, high)
  PROVE  /\ Calls(PopBack(st)) /\ PopBack(st)[Len(PopBack(st))] = st[Len(st) - 1]
         /\ Nested(PopBack(st), low, high) /\ st[Len(st) - 1].kind # "any"
         /\ LimitInside(st[Len(st)], st[Len(st) - 1])
<1> DEFINE t == PopBack(st)
<1>1. Len(st) \in Nat /\ Sequence(st) BY CallsLen
<1>2. Sequence(t) /\ Len(t) = Len(st) - 1 /\ \A i \in 1..(Len(st) - 1) : t[i] = st[i]
  <2>1. Len(st) - 1 \in 0..Len(st) BY <1>1
  <2> QED BY <1>1, <2>1, SequencePrefix DEF PopBack
<1> HIDE DEF t
<1>3. t # <<>> BY <1>1, <1>2, SequenceLen
<1>4. Calls(t) BY <1>1, <1>2, <1>3 DEF Calls
<1>5. t[Len(t)] = st[Len(st) - 1] /\ st[Len(st) - 1].kind # "any" BY <1>1, <1>2 DEF Nested
<1>6. \A i \in 2..Len(t) : LimitInside(t[i], t[i - 1])
  <2>1. TAKE i \in 2..Len(t)
  <2>2. i \in 2..Len(st) /\ i \in 1..(Len(st) - 1) /\ i - 1 \in 1..(Len(st) - 1) BY <1>1, <1>2
  <2> QED BY <1>2, <2>2 DEF Nested
<1>7. /\ \A i \in 1..Len(t) : Placed(t[i], low)
      /\ \A i \in 1..(Len(t) - 1) : t[i].kind # "any"
  <2>1. 1..Len(t) \subseteq 1..Len(st) /\ 1..(Len(t) - 1) \subseteq 1..(Len(st) - 1)
        /\ 1..(Len(t) - 1) \subseteq 1..Len(t)
    BY <1>1, <1>2
  <2> QED BY <1>2, <2>1 DEF Nested
<1>8. LimitInside(st[Len(st)], st[Len(st) - 1]) BY <1>1 DEF Nested
<1>9. t[1].limit = high
  <2>1. 1 \in 1..(Len(st) - 1) BY <1>1
  <2> QED BY <1>2, <2>1 DEF Nested
<1> QED BY <1>4, <1>5, <1>6, <1>7, <1>8, <1>9 DEF Nested, t

-------------------------------------------------------------------------------
(* The frames *)

\* A frame that is made reads its first tag inside its limit.
LEMMA FrameBounds ==
  ASSUME message \in Seq(Nat), NEW kind, NEW type, NEW limit \in Nat, NEW p \in Nat,
         p <= limit, NEW low \in Nat, low <= p
  PROVE  LET f == Frame(kind, type, limit, p)
         IN  f.limit = limit /\ f.back = -1 /\ Placed(f, low)
             /\ Reads(message, f, After(p, limit), low)
<1> DEFINE f == Frame(kind, type, limit, p)
           q == After(p, limit)
<1>1. /\ f.limit = limit /\ f.back = -1 /\ f.tag = ReadVarint(message, p, limit) /\ f.value = None
      /\ f.at = p
  BY DEF Frame, Read
<1>2. /\ q \in Nat /\ p <= q /\ q <= limit
      /\ ReadVarint(message, p, limit) # 0 => q <= EndOf(message, limit)
  BY AfterVarintBounds DEF After
<1> HIDE DEF f, q
<1>3. Placed(f, low) BY <1>1 DEF Placed
<1>4. Reads(message, f, q, low) BY <1>1, <1>2 DEF Reads, ValueRead, None, AtTagRead
<1> QED BY <1>1, <1>3, <1>4 DEF f, q

\* A frame that reads the next tag has the limits it had.
LEMMA OnwardBounds ==
  ASSUME NEW f, IsFrame(f), NEW p \in Nat, NEW low, Placed(f, low), low <= p, p <= f.limit
  PROVE  /\ SameBounds(f, Onward(f, p)) /\ Placed(Onward(f, p), low)
         /\ Onward(f, p).value = f.value
         /\ f.kind # "any" => Onward(f, p).kind # "any"
         /\ f.kind = "nested" => Onward(f, p) = f
         /\ f.kind # "nested" => Onward(f, p).tag = Read(p, f.limit)
<1> DEFINE onward == [f EXCEPT !.tag = Read(p, f.limit), !.at = p]
           field == Fields[f.type][NumberOf(f.tag)]
           again == field.repeated /\ onward.tag = f.tag
                      /\ ~(IsPackable(field) /\ WireOf(f.tag) = LengthDelimited)
<1>1. /\ IsFrame(onward) /\ onward.kind = f.kind /\ SameBounds(f, onward)
      /\ onward.value = f.value /\ onward.tag = Read(p, f.limit) /\ onward.at = p
  BY DEF IsFrame, SameBounds
<1>2. Onward(f, p) = CASE f.kind = "nested" -> f
                       [] f.kind = "single" -> [onward EXCEPT !.kind = IF again THEN @ ELSE "last"]
                       [] OTHER             -> onward
  BY DEF Onward
<1> HIDE DEF onward, again, field
<1>3. ASSUME NEW g, SameBounds(f, g), g.at = p PROVE Placed(g, low)
  BY <1>3 DEF Placed, SameBounds
<1>4. CASE f.kind = "nested" BY <1>2, <1>4 DEF SameBounds
<1>5. CASE f.kind = "single"
  <2>1. Onward(f, p) = [onward EXCEPT !.kind = IF again THEN onward.kind ELSE "last"]
    BY <1>2, <1>5
  <2>2. /\ SameBounds(f, Onward(f, p)) /\ Onward(f, p).at = p /\ Onward(f, p).value = f.value
        /\ Onward(f, p).kind # "any" /\ Onward(f, p).tag = Read(p, f.limit)
    BY <1>1, <1>5, <2>1 DEF IsFrame, SameBounds
  <2> QED BY <1>3, <1>5, <2>2
<1>6. CASE f.kind \notin {"nested", "single"} BY <1>1, <1>2, <1>3, <1>6
<1> QED BY <1>4, <1>5, <1>6

\* It has read that tag.
LEMMA OnwardReads ==
  ASSUME message \in Seq(Nat), NEW f, IsFrame(f), f.kind # "any", NEW p \in Nat, NEW low \in Nat,
         Placed(f, low), low <= p, p <= f.limit
  PROVE  Reads(message, Onward(f, p), IF f.kind = "nested" THEN p ELSE After(p, f.limit), low)
<1> DEFINE g == Onward(f, p)
           q == After(p, f.limit)
<1>1. /\ SameBounds(f, g) /\ g.kind # "any" /\ (f.kind = "nested" => g = f)
      /\ f.kind # "nested" => g.tag = Read(p, f.limit)
  BY OnwardBounds
<1>2. f.limit \in Nat BY DEF Placed
<1>3. /\ q \in Nat /\ p <= q /\ q <= f.limit
      /\ Read(p, f.limit) # 0 => q <= EndOf(message, f.limit)
  BY <1>2, AfterVarintBounds DEF After, Read
<1> HIDE DEF g, q
<1>4. f.kind = "nested" => Reads(message, g, p, low) BY <1>1 DEF Reads, AtTagRead
<1>5. f.kind # "nested" => Reads(message, g, q, low)
  BY <1>1, <1>2, <1>3 DEF Reads, AtTagRead, SameBounds
<1> QED BY <1>4, <1>5 DEF g, q
-------------------------------------------------------------------------------
(* The steps of a scan: what they do to the limits and the position.           *)

InBounds(low, high) ==
  /\ message \in Seq(Nat) /\ low \in Nat
  /\ Calls(stack) /\ Bounded(message, stack, pos, low, high)
Inside(p, low) == p \in Nat /\ low <= p /\ p <= Top.limit
BoundedNext(low, high) == Bounded(message', stack', pos', low, high)

\* Everything that is read or skipped is inside the limit of the innermost call.
LEMMA ReadsInside ==
  ASSUME NEW low, NEW high, InBounds(low, high)
  PROVE  /\ Top.limit \in Nat /\ Inside(pos, low) /\ Inside(After(pos, Top.limit), low)
         /\ Inside(End(pos, Top.limit), low) /\ After(pos, Top.limit) <= End(pos, Top.limit)
         /\ pos <= After(pos, Top.limit)
         /\ AtTagRead(Top) => /\ Inside(EndText(pos, Top.limit), low)
                              /\ After(pos, Top.limit) <= EndText(pos, Top.limit)
         /\ \A tag : AtTagRead(Top) => /\ Inside(Skipped(tag, pos, Top.limit), low)
                                       /\ pos <= Skipped(tag, pos, Top.limit)
         /\ IsFrame(Top) /\ Placed(Top, low) /\ Nested(stack, low, high)
         /\ Reads(message, Top, pos, low) /\ low \in Nat /\ Calls(stack)
<1>1. Len(stack) \in 1..Len(stack) /\ IsFrame(Top) BY CallsLen DEF InBounds, Top
<1>2. /\ Placed(Top, low) /\ Reads(message, Top, pos, low) /\ Nested(stack, low, high)
      /\ low \in Nat /\ Calls(stack) /\ message \in Seq(Nat)
  BY <1>1 DEF InBounds, Bounded, Nested, Top
<1>3. Top.limit \in Nat /\ pos \in Nat /\ low <= pos /\ pos <= Top.limit
  BY <1>2 DEF Placed, Reads
<1>4. AtTagRead(Top) => pos <= EndOf(message, Top.limit) BY <1>2 DEF Reads
<1> HIDE DEF Top
<1>5. /\ After(pos, Top.limit) \in Nat /\ pos <= After(pos, Top.limit)
      /\ After(pos, Top.limit) <= Top.limit
  BY <1>2, <1>3, AfterVarintBounds DEF After
<1>6. /\ End(pos, Top.limit) \in Nat /\ After(pos, Top.limit) <= End(pos, Top.limit)
      /\ End(pos, Top.limit) <= Top.limit
  BY <1>2, <1>3, EndOfLengthBounds DEF After, End
<1>7. AtTagRead(Top) =>
        /\ EndText(pos, Top.limit) \in Nat /\ EndText(pos, Top.limit) <= Top.limit
        /\ After(pos, Top.limit) <= EndText(pos, Top.limit)
  BY <1>2, <1>3, <1>4, EndOfStringBounds DEF After, EndText
<1>8. ASSUME NEW tag, AtTagRead(Top)
      PROVE  /\ Skipped(tag, pos, Top.limit) \in Nat /\ pos <= Skipped(tag, pos, Top.limit)
             /\ Skipped(tag, pos, Top.limit) <= Top.limit
  BY <1>2, <1>3, <1>4, <1>8, SkipFieldBounds DEF Skipped
<1>9. ASSUME NEW p \in Nat, pos <= p, p <= Top.limit PROVE Inside(p, low)
  BY <1>2, <1>3, <1>9 DEF Inside
<1>10. Inside(pos, low) /\ Inside(After(pos, Top.limit), low) BY <1>3, <1>5, <1>9
<1>11. Inside(End(pos, Top.limit), low)
  <2>1. pos <= End(pos, Top.limit) BY <1>3, <1>5, <1>6
  <2> QED BY <1>6, <1>9, <2>1
<1>12. AtTagRead(Top) => Inside(EndText(pos, Top.limit), low)
  <2>1. AtTagRead(Top) => pos <= EndText(pos, Top.limit) BY <1>3, <1>5, <1>7
  <2> QED BY <1>7, <1>9, <2>1
<1> QED BY <1>1, <1>2, <1>3, <1>5, <1>6, <1>7, <1>8, <1>9, <1>10, <1>11, <1>12

\* The innermost call goes on in a frame with its limits.
LEMMA SetBounded ==
  ASSUME NEW low, NEW high, InBounds(low, high), NEW g, SameBounds(Top, g), Placed(g, low),
         stack' = [stack EXCEPT ![Len(stack)] = g], message' = message,
         Reads(message, g, pos', low)
  PROVE  BoundedNext(low, high)
<1> DEFINE t == [stack EXCEPT ![Len(stack)] = g]
<1>1. Len(stack) \in 1..Len(stack) /\ Sequence(stack) BY CallsLen DEF InBounds
<1>2. Len(t) = Len(stack) /\ t[Len(stack)] = g BY <1>1, SequenceExcept
<1>3. Nested(t, low, high) BY NestedSet DEF InBounds, Bounded, Top
<1> HIDE DEF t
<1>4. t[Len(t)] = g BY <1>2
<1>5. stack' = t BY DEF t
<1> QED BY <1>3, <1>4, <1>5 DEF BoundedNext, Bounded

\* The innermost call goes on inside its limit.
LEMMA ProceedBounded ==
  ASSUME NEW low, NEW high, InBounds(low, high), Top.kind \notin {"any", "nested"},
         NEW p, Inside(p, low), Proceed(p)
  PROVE  BoundedNext(low, high)
<1> DEFINE q == After(p, Top.limit)
           g == Onward(Top, p)
<1>1. IsFrame(Top) /\ Placed(Top, low) /\ low \in Nat BY ReadsInside
<1>2. p \in Nat /\ low <= p /\ p <= Top.limit /\ message \in Seq(Nat) BY DEF Inside, InBounds
<1>3. SameBounds(Top, g) /\ Placed(g, low) BY <1>1, <1>2, OnwardBounds
<1>4. stack' = [stack EXCEPT ![Len(stack)] = g] /\ pos' = q /\ message' = message
  BY DEF Proceed, SetTop, config, input
<1>5. Reads(message, g, IF Top.kind = "nested" THEN p ELSE q, low) BY <1>1, <1>2, OnwardReads
<1> HIDE DEF q, g
<1>6. Reads(message, g, pos', low) BY <1>4, <1>5
<1> QED BY <1>3, <1>4, <1>6, SetBounded

\* A call that returns is inside the limit of its caller, where that goes on.
LEMMA ReturnBounded ==
  ASSUME NEW low, NEW high, InBounds(low, high), Len(stack) > 1, NEW p, Inside(p, low), Return(p)
  PROVE  BoundedNext(low, high)
<1> DEFINE below == PopBack(stack)
           caller == stack[Len(stack) - 1]
           q == IF Top.back = -1 THEN p ELSE Top.back
           r == IF caller.kind = "nested" THEN q ELSE After(q, caller.limit)
           g == Onward(caller, q)
           t == [below EXCEPT ![Len(below)] = g]
<1>1. /\ Len(stack) \in Nat /\ Len(stack) - 1 \in 1..Len(stack) /\ Len(stack) \in 1..Len(stack)
      /\ Nested(stack, low, high) /\ Calls(stack) /\ low \in Nat /\ message \in Seq(Nat)
  BY CallsLen DEF InBounds, Bounded
<1>2. IsFrame(caller) /\ Placed(caller, low) /\ Placed(Top, low)
  BY <1>1 DEF Nested, Top, Calls
<1>3. /\ LimitInside(Top, caller) /\ Nested(below, low, high)
      /\ Calls(below) /\ below[Len(below)] = caller /\ caller.kind # "any"
  BY <1>1, NestedPop DEF Top
<1>4. q \in Nat /\ low <= q /\ q <= caller.limit
  <2>1. p \in Nat /\ low <= p /\ p <= Top.limit BY DEF Inside
  <2>2. Top.limit \in Nat /\ caller.limit \in Nat /\ Top.back \in Nat \cup {-1}
        /\ (Top.back # -1 => low <= Top.back)
    BY <1>2 DEF Placed
  <2> HIDE DEF Top, caller
  <2>3. CASE Top.back = -1 BY <1>3, <2>1, <2>2, <2>3 DEF LimitInside
  <2>4. CASE Top.back # -1 BY <1>3, <2>1, <2>2, <2>4 DEF LimitInside
  <2> QED BY <2>3, <2>4
<1>5. /\ stack' = [below EXCEPT ![Len(below)] = Onward(below[Len(below)], q)]
      /\ pos' = IF below[Len(below)].kind = "nested" THEN q
                ELSE After(q, below[Len(below)].limit)
      /\ message' = message
  BY DEF Return, config, input
<1>6. stack' = t /\ pos' = r BY <1>3, <1>5
<1> HIDE DEF below, caller, q
<1>7. SameBounds(caller, g) /\ Placed(g, low) BY <1>2, <1>4, OnwardBounds
<1>8. Reads(message, g, r, low) BY <1>1, <1>2, <1>3, <1>4, OnwardReads
<1> HIDE DEF r, g
<1>9. Nested(t, low, high) BY <1>3, <1>7, NestedSet
<1>10. t[Len(t)] = g
  <2>1. Len(below) \in 1..Len(below) /\ Sequence(below) BY <1>3, CallsLen
  <2> QED BY <2>1, SequenceExcept
<1> HIDE DEF t
<1> QED BY <1>5, <1>6, <1>8, <1>9, <1>10 DEF BoundedNext, Bounded

\* A call that is made reads between its own limits.
LEMMA CallBounded ==
  ASSUME NEW low, NEW high, InBounds(low, high), Top.kind # "any",
         NEW f, f.back = -1, f.limit <= Top.limit, Placed(f, low),
         stack' = Append(stack, f), Reads(message, f, pos', low), message' = message
  PROVE  BoundedNext(low, high)
<1>1. LimitInside(f, Top) BY DEF LimitInside
<1> DEFINE t == Append(stack, f)
<1>2. Nested(t, low, high) /\ t[Len(t)] = f
  BY <1>1, NestedPush DEF InBounds, Bounded, Top
<1>3. stack' = t OBVIOUS
<1> HIDE DEF t
<1> QED BY <1>2, <1>3 DEF BoundedNext, Bounded

\* ScanMessage() and the scans of its fields stay inside the limits, or fail.
LEMMA ScanMessageBounded ==
  ASSUME NEW low, NEW high, InBounds(low, high), ScanMessage, phase = "scan"
  PROVE  BoundedNext(low, high) \/ Fail
<1>0. AtField => AtTagRead(Top) /\ Top.kind \notin {"any", "nested"}
  BY DEF AtField, AtTag, In, AtTagRead
<1>1. CASE SkipUnknown
  <2>1. AtField /\ Proceed(Skipped(Top.tag, pos, Top.limit)) BY <1>1 DEF SkipUnknown
  <2>2. Inside(Skipped(Top.tag, pos, Top.limit), low) BY <1>0, <2>1, ReadsInside
  <2> QED BY <1>0, <2>1, <2>2, ProceedBounded
<1>2. CASE SkipDeep
  <2>1. CASE Field.repeated
    <3> DEFINE f == [Top EXCEPT !.tag = 0, !.kind = IF @ = "single" THEN "last" ELSE @]
    <3>1. /\ IsFrame(Top) /\ Placed(Top, low) /\ Reads(message, Top, pos, low)
          /\ Top.kind \notin {"any", "nested"}
      BY <1>0, <1>2, ReadsInside DEF SkipDeep
    <3>2. /\ SameBounds(Top, f) /\ f.kind # "any" /\ f.tag = 0 /\ f.at = Top.at
      BY <3>1 DEF IsFrame, SameBounds
    <3>3. stack' = [stack EXCEPT ![Len(stack)] = f] /\ message' = message /\ pos' = pos
      BY <1>2, <2>1 DEF SkipDeep, SetTop, config, input
    <3> HIDE DEF f
    <3>4. Placed(f, low) BY <3>1, <3>2 DEF Placed, SameBounds
    <3>5. Reads(message, f, pos', low)
      BY <3>1, <3>2, <3>3 DEF Reads, SameBounds, AtTagRead
    <3> QED BY <3>2, <3>3, <3>4, <3>5, SetBounded
  <2>2. CASE ~Field.repeated
    <3>1. AtField /\ Proceed(pos) BY <1>2, <2>2 DEF SkipDeep
    <3> QED BY <1>0, <3>1, ReadsInside, ProceedBounded
  <2> QED BY <2>1, <2>2
<1>3. CASE ScanPrimitiveField
  <2> DEFINE p == Behind(Field, pos, Top.limit)
  <2>1. AtField /\ Proceed(p) BY <1>3 DEF ScanPrimitiveField, Scannable
  <2>2. Inside(p, low) BY <1>0, <2>1, ReadsInside DEF Behind
  <2> QED BY <1>0, <2>1, <2>2, ProceedBounded
<1>4. CASE StartPacked
  <2> DEFINE frame == Frame("packed", Top.type, End(pos, Top.limit), pos)
             f == [frame EXCEPT !.tag = Top.tag - LengthDelimited]
             limit == End(pos, Top.limit)
             q == After(pos, Top.limit)
  <2>1. /\ stack' = Append(stack, f) /\ pos' = q /\ message' = message
        /\ Top.kind # "any"
    BY <1>0, <1>4 DEF StartPacked, Scannable, config, input
  <2>2. f.limit = limit /\ f.back = -1 /\ f.kind = "packed" /\ f.at = pos BY DEF Frame
  <2>3. /\ Inside(pos, low) /\ Inside(limit, low) /\ Inside(q, low) /\ q <= limit /\ pos <= q
    BY ReadsInside
  <2> HIDE DEF f, limit, q
  <2>4. pos <= limit BY <2>3 DEF Inside
  <2>5. Placed(f, low) BY <2>2, <2>3, <2>4 DEF Placed, Inside
  <2>6. Reads(message, f, pos', low) BY <2>1, <2>2, <2>3 DEF Reads, Inside, AtTagRead
  <2>7. f.limit <= Top.limit BY <2>2, <2>3 DEF Inside
  <2> QED BY <2>1, <2>2, <2>5, <2>6, <2>7, CallBounded
<1>5. CASE ScanPacked
  <2>1. Top.kind = "packed" /\ UNCHANGED <<message, stack>> /\ pos' = After(pos, Top.limit)
    BY <1>5 DEF ScanPacked, In, config, input
  <2>2. Nested(stack, low, high) /\ Inside(pos', low) BY <2>1, ReadsInside
  <2>3. Reads(message, Top, pos', low) BY <2>1, <2>2 DEF Reads, Inside, AtTagRead
  <2> QED BY <2>1, <2>2, <2>3 DEF BoundedNext, Bounded, Top
<1>6. CASE EndPacked
  <2>1. Len(stack) > 1 /\ Return(pos)
    BY <1>6, TopIsFrame DEF EndPacked, In, CallerKinds, InBounds
  <2> QED BY <2>1, ReadsInside, ReturnBounded
<1>7. CASE EnterMessage
  <2> DEFINE limit == End(pos, Top.limit)
             body == After(pos, Top.limit)
             f == Frame(KindOf(Field.type), Field.type, limit, body)
             q == After(body, limit)
  <2>1. /\ stack' = Append(stack, f) /\ pos' = q /\ message' = message /\ Top.kind # "any"
    BY <1>0, <1>7 DEF EnterMessage, Scannable, config, input
  <2>2. /\ limit \in Nat /\ limit <= Top.limit /\ body \in Nat /\ low <= body /\ body <= limit
        /\ low \in Nat /\ message \in Seq(Nat)
    BY ReadsInside DEF Inside, InBounds
  <2>3. f.limit = limit /\ f.back = -1 /\ Placed(f, low) /\ Reads(message, f, q, low)
    <3> HIDE DEF limit, body
    <3> QED BY <2>2, FrameBounds
  <2> HIDE DEF f, q, limit, body
  <2> QED BY <2>1, <2>2, <2>3, CallBounded
<1>8. CASE ChildTypeError BY <1>8 DEF ChildTypeError
<1>9. CASE EndMessage
  <2>1. Len(stack) > 1 /\ Return(pos) BY <1>9 DEF EndMessage
  <2> QED BY <2>1, ReadsInside, ReturnBounded
<1> QED BY <1>1, <1>2, <1>3, <1>4, <1>5, <1>6, <1>7, <1>8, <1>9 DEF ScanMessage

\* So do the renderers.
LEMMA RenderBounded ==
  ASSUME NEW low, NEW high, InBounds(low, high), Render, phase = "scan"
  PROVE  BoundedNext(low, high)
<1>1. CASE TimestampField
  <2>1. Top.kind = "timestamp" /\ Proceed(After(pos, Top.limit))
    BY <1>1 DEF TimestampField, AtTag, In
  <2> QED BY <2>1, ReadsInside, ProceedBounded
<1>2. CASE TimestampOther
  <2>1. Top.kind = "timestamp" /\ Proceed(pos) BY <1>2 DEF TimestampOther, AtTag, In
  <2> QED BY <2>1, ReadsInside, ProceedBounded
<1>3. CASE EndTimestamp
  <2>1. Len(stack) > 1 /\ Return(pos)
    BY <1>3, TopIsFrame DEF EndTimestamp, AtEnd, In, CallerKinds, InBounds
  <2> QED BY <2>1, ReadsInside, ReturnBounded
<1>4. CASE RenderWrapperValue
  <2>1. Len(stack) > 1 /\ Top.kind = "wrapper"
    BY <1>4, TopIsFrame DEF RenderWrapperValue, In, CallerKinds, InBounds
  <2>2. Return(IF Top.tag = 0 THEN pos ELSE Skipped(Top.tag, pos, Top.limit))
    BY <1>4 DEF RenderWrapperValue
  <2>3. Inside(pos, low) /\ (Top.tag # 0 => Inside(Skipped(Top.tag, pos, Top.limit), low))
    BY <2>1, ReadsInside DEF AtTagRead
  <2> QED BY <2>1, <2>2, <2>3, ReturnBounded
<1>5. CASE LeaveWrapper
  <2>1. Len(stack) > 1 /\ Return(Top.at)
    BY <1>5, TopIsFrame DEF LeaveWrapper, In, CallerKinds, InBounds
  <2>2. Inside(Top.at, low) BY ReadsInside DEF Inside, Placed
  <2> QED BY <2>1, <2>2, ReturnBounded
<1> QED BY <1>1, <1>2, <1>3, <1>4, <1>5 DEF Render

\* The fields of an Any that count are strings.
LEMMA AnyTags ==
  ASSUME NEW tag, FindAndVerifyField(AnyType, tag), NumberOf(tag) \in {1, 2}
  PROVE  WireOf(tag) = LengthDelimited
<1>1. FindField(AnyType, NumberOf(tag)) BY DEF FindAndVerifyField
<1>2. Fields[AnyType][NumberOf(tag)].kind = "text" BY <1>1, AnyAssumption DEF AnyHasTexts
<1> QED BY <1>2 DEF FindAndVerifyField, WireTypeOf, IsPackable

\* The value of an Any is behind the position when it has been read.
LEMMA AnyFieldBounded ==
  ASSUME NEW low, NEW high, InBounds(low, high), AnyField, phase = "scan"
  PROVE  BoundedNext(low, high)
<1> DEFINE end == EndText(pos, Top.limit)
           part == [tag |-> Top.tag, from |-> After(pos, Top.limit), to |-> end]
           found == FindAndVerifyField(AnyType, Top.tag)
           number == NumberOf(Top.tag)
           frame == CASE found /\ number = 1 -> [Top EXCEPT !.url = part]
                      [] found /\ number = 2 -> [Top EXCEPT !.value = part]
                      [] OTHER               -> Top
           p == Skipped(Top.tag, pos, Top.limit)
           q == After(p, Top.limit)
           g == Onward(frame, p)
           last == EndOf(message, Top.limit)
<1>1. /\ stack' = [stack EXCEPT ![Len(stack)] = g] /\ pos' = q /\ message' = message
      /\ Top.kind = "any" /\ Top.tag # 0
  BY DEF AnyField, AtTag, In, SetTop, config, input
<1>2. AtTagRead(Top) BY <1>1 DEF AtTagRead
<1>3. /\ Inside(pos, low) /\ Inside(p, low) /\ Inside(end, low) /\ Top.limit \in Nat
      /\ Inside(part.from, low) /\ part.to = end /\ IsFrame(Top) /\ Placed(Top, low)
      /\ low \in Nat /\ message \in Seq(Nat) /\ pos <= p
  BY <1>2, ReadsInside DEF InBounds
<1>4. ValueRead(Top, pos, low) /\ pos <= last BY <1>1, <1>2, ReadsInside DEF Reads
<1>5. found /\ number = 2 => end <= p
  <2>1. message \in Seq(Nat) /\ pos \in Nat /\ Top.limit \in Nat /\ pos <= Top.limit
        /\ pos <= EndOf(message, Top.limit)
    BY <1>3, <1>4 DEF Inside
  <2>2. found /\ number = 2 => NumberOf(Top.tag) # 0 /\ WireOf(Top.tag) = LengthDelimited
    BY AnyTags
  <2> QED BY <2>1, <2>2, SkipFieldBounds DEF Skipped, EndText
<1>6. /\ q \in Nat /\ p <= q /\ q <= Top.limit
      /\ Read(p, Top.limit) # 0 => q <= last
  BY <1>3, AfterVarintBounds DEF Inside, After, Read
<1>7. frame = Top \/ frame = [Top EXCEPT !.url = part]
      \/ (frame = [Top EXCEPT !.value = part] /\ found /\ number = 2)
  <2> HIDE DEF part, found, number
  <2>1. CASE found /\ number = 1 BY <2>1
  <2>2. CASE found /\ number = 2 BY <2>2
  <2>3. CASE ~(found /\ number = 1) /\ ~(found /\ number = 2) BY <2>3
  <2> QED BY <2>1, <2>2, <2>3
<1> HIDE DEF part, frame, found, number, last
<1>8. /\ IsFrame(frame) /\ frame.kind = "any" /\ SameBounds(Top, frame) /\ frame.at = Top.at
      /\ frame.value = Top.value \/ (frame.value = part /\ found /\ number = 2)
  BY <1>1, <1>3, <1>7 DEF IsFrame, SameBounds
<1>9. Placed(frame, low) BY <1>3, <1>8 DEF Placed, SameBounds
<1>10. p \in Nat /\ low <= p /\ p <= frame.limit BY <1>3, <1>8 DEF Inside, SameBounds
<1> HIDE DEF p
<1>11. /\ SameBounds(frame, g) /\ g.value = frame.value /\ g.tag = Read(p, frame.limit)
       /\ Placed(g, low)
  BY <1>8, <1>9, <1>10, OnwardBounds
<1> HIDE DEF q, g, end
<1>12. /\ SameBounds(Top, g) /\ g.tag = Read(p, Top.limit) BY <1>8, <1>11 DEF SameBounds
<1>13. ValueRead(g, q, low)
  <2>1. pos \in Nat /\ part.from \in Nat /\ low <= part.from /\ end \in Nat
    BY <1>3 DEF Inside
  <2>2. CASE frame.value = Top.value
    BY <1>3, <1>4, <1>6, <1>10, <1>11, <2>1, <2>2 DEF ValueRead
  <2>3. CASE frame.value = part /\ found /\ number = 2
    BY <1>3, <1>5, <1>6, <1>10, <1>11, <2>1, <2>3 DEF ValueRead
  <2> QED BY <1>8, <2>2, <2>3
<1>14. low <= q BY <1>3, <1>6, <1>10
<1>15. Reads(message, g, q, low)
  BY <1>6, <1>12, <1>13, <1>14 DEF Reads, SameBounds, last, AtTagRead
<1> QED BY <1>1, <1>11, <1>12, <1>15, SetBounded

\* The value of an Any is scanned to its own end, and back is inside the limit of the Any.
LEMMA EnterAnyBounded ==
  ASSUME NEW low, NEW high, InBounds(low, high), EnterAny, phase = "scan"
  PROVE  BoundedNext(low, high)
<1> DEFINE v == Top.value
           g == [Top EXCEPT !.kind = "nested"]
           frame == Frame("message", TypeNamed(Url), v.to, v.from)
           f == [frame EXCEPT !.back = pos]
           q == After(v.from, v.to)
           st == [stack EXCEPT ![Len(stack)] = g]
<1>1. /\ stack' = Append(PopBack(stack), g) \o <<f>> /\ pos' = q /\ message' = message
      /\ Top.kind = "any" /\ Bytes(v) # <<>>
  BY DEF EnterAny, AtEnd, In, config, input
<1>2. /\ Inside(pos, low) /\ Top.limit \in Nat /\ IsFrame(Top) /\ Placed(Top, low)
      /\ low \in Nat /\ Reads(message, Top, pos, low) /\ Nested(stack, low, high) /\ Calls(stack)
  BY ReadsInside
<1>3. v.from \in Nat /\ v.to \in Nat /\ v.to <= pos /\ (v.to # 0 => low <= v.from)
  BY <1>1, <1>2 DEF Reads, ValueRead
<1>4. v.from < v.to
  <2>1. ASSUME NEW m \in Seq(Nat), NEW i \in Nat, NEW k \in Nat, i >= k
        PROVE  SubSeq(m, i + 1, k) = <<>>
    BY <2>1
  <2>2. message \in Seq(Nat) BY DEF InBounds
  <2>3. Bytes(v) = SubSeq(message, v.from + 1, v.to) BY DEF Bytes
  <2>4. ASSUME v.from >= v.to PROVE FALSE
    <3> HIDE DEF v
    <3> QED BY <1>1, <1>3, <2>1, <2>2, <2>3, <2>4
  <2> HIDE DEF v
  <2> QED BY <1>3, <2>4
<1>5. f.limit = v.to /\ f.back = pos /\ f.kind = "message" /\ f.at = v.from /\ f.tag = frame.tag
  BY DEF Frame
<1>6. frame.limit = v.to /\ frame.kind = "message" BY DEF Frame
<1>7. Placed(frame, low) /\ Reads(message, frame, q, low)
  <2>1. message \in Seq(Nat) /\ low <= v.from /\ v.from <= v.to
    <3> HIDE DEF v
    <3> QED BY <1>3, <1>4 DEF InBounds
  <2> HIDE DEF v
  <2> QED BY <1>2, <1>3, <2>1, FrameBounds
<1>8. Len(stack) \in 1..Len(stack) /\ Sequence(stack) BY CallsLen DEF InBounds
<1>9. /\ Alike(Top, g) /\ SameBounds(Top, g) /\ g.kind = "nested" /\ g.at = Top.at
  BY <1>1, <1>2 DEF Alike, IsFrame, SameBounds
<1> HIDE DEF v, g, frame, f, q
<1>10. Placed(f, low)
  <2>1. low <= pos /\ pos \in Nat BY <1>2 DEF Inside
  <2>2. low <= v.from BY <1>3, <1>4
  <2> QED BY <1>3, <1>4, <1>5, <2>1, <2>2 DEF Placed
<1>11. Reads(message, f, q, low) BY <1>5, <1>6, <1>7 DEF Reads, AtTagRead
<1>12. Placed(g, low) BY <1>2, <1>9 DEF Placed, SameBounds
<1>13. /\ Sequence(st) /\ Len(st) = Len(stack) /\ st[Len(st)] = g
       /\ \A i \in 1..Len(stack) : i # Len(stack) => st[i] = stack[i]
  BY <1>8, SequenceExcept
<1>14. Nested(st, low, high) BY <1>2, <1>9, <1>12, NestedSet DEF Top
<1>15. stack' = Append(st, f)
  <2>1. Append(PopBack(stack), g) = st
    BY <1>8, SequenceReplaceLast DEF PopBack, Calls, InBounds
  <2> HIDE DEF st
  <2> QED BY <1>1, <1>13, <2>1, SequenceConcatOne
<1> HIDE DEF st
<1>16. Calls(st)
  <2>1. st # <<>> BY <1>8, <1>13, SequenceLen
  <2>2. st[1].kind \in CallerKinds
    BY <1>1, <1>8, <1>13 DEF InBounds, Calls, CallerKinds, Top
  <2> QED BY <1>8, <1>9, <1>13, <2>1, <2>2 DEF InBounds, Calls, Alike
<1>17. LimitInside(f, st[Len(st)])
  BY <1>2, <1>3, <1>5, <1>9, <1>13 DEF LimitInside, SameBounds, Inside
<1>18. /\ Nested(Append(st, f), low, high) /\ Append(st, f)[Len(Append(st, f))] = f
  BY <1>9, <1>10, <1>13, <1>14, <1>16, <1>17, NestedPush
<1> QED BY <1>1, <1>11, <1>15, <1>18 DEF BoundedNext, Bounded

\* ScanAnyMessage() stays inside the limits, or fails.
LEMMA ScanAnyBounded ==
  ASSUME NEW low, NEW high, InBounds(low, high), ScanAnyMessage, phase = "scan"
  PROVE  BoundedNext(low, high) \/ Fail
<1>1. CASE AnyField BY <1>1, AnyFieldBounded
<1>2. CASE AnyUrlMissingError \/ AnyTypeError BY <1>2 DEF AnyUrlMissingError, AnyTypeError
<1>3. CASE AnyWithoutValue
  <2> DEFINE f == [Top EXCEPT !.kind = "nested"]
  <2>1. IsFrame(Top) /\ Placed(Top, low) /\ Reads(message, Top, pos, low) BY ReadsInside
  <2>2. SameBounds(Top, f) /\ f.kind = "nested" /\ f.at = Top.at BY <2>1 DEF SameBounds, IsFrame
  <2>3. stack' = [stack EXCEPT ![Len(stack)] = f] /\ message' = message /\ pos' = pos
    BY <1>3 DEF AnyWithoutValue, SetTop, config, input
  <2> HIDE DEF f
  <2>4. Placed(f, low) /\ Reads(message, f, pos', low)
    BY <2>1, <2>2, <2>3 DEF Placed, Reads, SameBounds, AtTagRead
  <2> QED BY <2>2, <2>3, <2>4, SetBounded
<1>4. CASE EnterAny BY <1>4, EnterAnyBounded
<1>5. CASE EndAny
  <2>1. Len(stack) > 1 /\ Return(pos)
    BY <1>5, TopIsFrame DEF EndAny, In, CallerKinds, InBounds
  <2> QED BY <2>1, ReadsInside, ReturnBounded
<1> QED BY <1>1, <1>2, <1>3, <1>4, <1>5 DEF ScanAnyMessage

-------------------------------------------------------------------------------
(* The invariant *)

\* What a call that begins at `low` and may read up to `high` hands back is between them.
Stops(low, high) ==
  /\ phase = "scan" => Bounded(message, stack, pos, low, high)
  /\ phase = "ok" => /\ pos \in Nat /\ low <= pos /\ pos <= high
                     /\ position \in Nat /\ low <= position /\ position <= high

\* Each step of a call stays there.
LEMMA RunningStops ==
  ASSUME message \in Seq(Nat), NEW base, Handed(base),
         NEW low \in Nat, NEW high, Stops(low, high), Running, UNCHANGED message
  PROVE  Stops(low, high)'
<1>0. CASE Unwinding BY <1>0 DEF Unwinding, UnwindCall, FailCall, Failing, Stops
<1> SUFFICES ASSUME Scanning PROVE Stops(low, high)' BY <1>0, RunningScans
<1>1. phase = "scan" BY RunningScans
<1>2. Calls(stack) /\ InBounds(low, high) BY <1>1 DEF Handed, Follows, Stops, InBounds
<1>3. CASE Fail BY <1>3 DEF Fail, Stops
<1>4. CASE EndCall
  <2>1. /\ phase' = "ok" /\ position' = Top.at /\ pos' = pos /\ Len(stack) = 1
    BY <1>4 DEF EndCall
  <2>2. Top.limit = high BY <1>2, <2>1, ReadsInside DEF Nested, Top
  <2>3. /\ pos \in Nat /\ low <= pos /\ pos <= Top.limit
        /\ Top.at \in Nat /\ low <= Top.at /\ Top.at <= Top.limit
    BY <1>2, ReadsInside DEF Inside, Placed
  <2> QED BY <2>1, <2>2, <2>3 DEF Stops
<1>5. CASE ~Fail /\ ~EndCall
  <2>1. ScanStep
    BY <1>1, <1>2, <1>5, ScanMessageSteps, RenderSteps, ScanAnySteps DEF Scanning, Fails
  <2>2. BoundedNext(low, high)
    BY <1>1, <1>2, <1>5, ScanMessageBounded, RenderBounded, ScanAnyBounded DEF Scanning
  <2>3. phase' = "scan" BY <2>1 DEF ScanStep, GoesOn, MakesCall, Returns
  <2> QED BY <2>2, <2>3 DEF Stops, BoundedNext
<1> QED BY <1>3, <1>4, <1>5

\* A call begins there.
LEMMA StartStops ==
  ASSUME message \in Seq(Nat), NEW kind, NEW type, NEW p \in Nat, NEW limit \in Nat, p <= limit,
         Start(kind, type, p, limit), UNCHANGED message
  PROVE  Stops(p, limit)'
<1> DEFINE f == Frame(kind, type, limit, p)
           q == After(p, limit)
           st == <<f>>
<1>1. stack' = st /\ pos' = q /\ phase' = "scan" BY DEF Start
<1>2. f.limit = limit /\ Placed(f, p) /\ Reads(message, f, q, p) BY FrameBounds
<1> HIDE DEF f, q
<1>3. Len(st) = 1 /\ st[1] = f BY SequenceOne
<1> HIDE DEF st
<1>4. Nested(st, p, limit) BY <1>2, <1>3 DEF Nested
<1>5. Bounded(message, st, q, p, limit) BY <1>2, <1>3, <1>4 DEF Bounded
<1> QED BY <1>1, <1>5 DEF Stops

TypeInv ==
  /\ Handed(parentTags) /\ message \in Seq(Nat) /\ pos \in Nat
  /\ phase \in {"idle", "scan", "failing", "ok", "error"}
  /\ call \in {"none", "message", "field"}
  /\ Stops(0, NoLimit)
  /\ phase = "idle" => pos = 0 /\ position = 0

\* The invariant holds before the call,
LEMMA TypeInvInit == Init => TypeInv
<1> SUFFICES ASSUME Init PROVE TypeInv OBVIOUS
<1>1. message \in Seq(Nat) /\ parentTags \in Seq(Nat) BY InputsAssumption DEF Init
<1>2. Handed(parentTags) BY <1>1 DEF Init, Handed, Sequence
<1> QED BY <1>1, <1>2 DEF Init, TypeInv, Stops

\* No step changes what the call was made with.
LEMMA RunningKeeps == Running => UNCHANGED config
<1>1. ScanMessage => UNCHANGED config
  BY DEF ScanMessage, SkipUnknown, SkipDeep, ScanPrimitiveField, StartPacked, ScanPacked,
         EndPacked, EnterMessage, ChildTypeError, EndMessage, Proceed, Return, Fail
<1>2. Render => UNCHANGED config
  BY DEF Render, TimestampField, TimestampOther, EndTimestamp, RenderWrapperValue,
         LeaveWrapper, Proceed, Return
<1>3. ScanAnyMessage => UNCHANGED config
  BY DEF ScanAnyMessage, AnyField, AnyUrlMissingError, AnyTypeError, AnyWithoutValue,
         EnterAny, EndAny, Return, Fail
<1>4. Unwinding => UNCHANGED config BY DEF Unwinding, UnwindCall, FailCall
<1> QED BY <1>1, <1>2, <1>3, <1>4 DEF Running, EndCall

\* when it begins,
LEMMA TypeInvStart ==
  ASSUME TypeInv, NEW kind \in CallerKinds, Start(kind, RootType, 0, NoLimit),
         call' \in {"message", "field"}
  PROVE  TypeInv'
<1>1. phase' = "scan" /\ message' = message /\ parentTags' = parentTags BY DEF Start, input
<1>2. 0 \in Nat /\ NoLimit \in Nat /\ 0 <= NoLimit BY DEF NoLimit
<1>3. Stops(0, NoLimit)' BY <1>1, <1>2, StartStops DEF TypeInv
<1>4. pos' \in Nat BY <1>1, <1>3 DEF Stops, Bounded, Reads
<1>5. Handed(parentTags)' BY <1>1, StartHands DEF TypeInv, Handed
<1> QED BY <1>1, <1>3, <1>4, <1>5 DEF TypeInv

\* after each step,
LEMMA TypeInvStep == TypeInv /\ [Next]_vars => TypeInv'
<1> SUFFICES ASSUME TypeInv, [Next]_vars PROVE TypeInv' OBVIOUS
<1>1. CASE CalculateChecksum
  <2>1. call' = "message" BY <1>1 DEF CalculateChecksum
  <2>2. CASE message # <<>>
    <3>1. Start("message", RootType, 0, NoLimit) BY <1>1, <2>2 DEF CalculateChecksum
    <3> QED BY <2>1, <3>1, TypeInvStart DEF CallerKinds
  <2>3. CASE message = <<>>
    <3>1. /\ phase = "idle" /\ phase' = "ok"
          /\ UNCHANGED <<message, parentTags, pos, stack, tags, position>>
      BY <1>1, <2>3 DEF CalculateChecksum, input, answer
    <3>2. Stops(0, NoLimit)' BY <3>1 DEF TypeInv, Stops, NoLimit
    <3> QED BY <2>1, <3>1, <3>2 DEF TypeInv, Handed
  <2> QED BY <2>2, <2>3
<1>2. CASE CalculateSingleFieldChecksum
  <2>1. call' = "field" /\ Start("single", RootType, 0, NoLimit)
    BY <1>2 DEF CalculateSingleFieldChecksum
  <2> QED BY <2>1, TypeInvStart DEF CallerKinds
<1>3. CASE Running
  <2>1. UNCHANGED config BY <1>3, RunningKeeps
  <2>2. message' = message /\ parentTags' = parentTags /\ call' = call
    BY <2>1 DEF config, input
  <2>3. Handed(parentTags)'
    <3>1. PICK base : base = parentTags OBVIOUS
    <3>2. Handed(base) /\ Handed(base)' BY <1>3, <3>1, RunningHands DEF TypeInv
    <3> QED BY <2>2, <3>1, <3>2 DEF Handed
  <2>4. Stops(0, NoLimit)' BY <1>3, <2>2, RunningStops DEF TypeInv
  <2>5. CASE Fail \/ Unwinding
    BY <2>2, <2>3, <2>4, <2>5 DEF Fail, Unwinding, UnwindCall, FailCall, Failing, TypeInv
  <2>6. CASE EndCall BY <2>2, <2>3, <2>4, <2>6 DEF EndCall, TypeInv
  <2>7. CASE ~Fail /\ ~Unwinding /\ ~EndCall
    <3>1. phase = "scan" /\ Scanning BY <1>3, <2>7, RunningScans
    <3>5. Calls(stack) BY <3>1 DEF TypeInv, Handed, Follows
    <3>2. ScanStep
      BY <2>7, <3>1, <3>5, ScanMessageSteps, RenderSteps, ScanAnySteps DEF Scanning, Fails
    <3>3. phase' = "scan" BY <3>2 DEF ScanStep, GoesOn, MakesCall, Returns
    <3>4. pos' \in Nat BY <2>4, <3>3 DEF Stops, Bounded, Reads
    <3> QED BY <2>2, <2>3, <2>4, <3>3, <3>4 DEF TypeInv
  <2> QED BY <2>5, <2>6, <2>7
<1>4. CASE UNCHANGED vars
  BY <1>4 DEF vars, config, input, answer, TypeInv, Handed, Top, Stops
<1> QED BY <1>1, <1>2, <1>3, <1>4 DEF Next

\* and so always.
LEMMA TypeInvariant == Spec => []TypeInv
BY TypeInvInit, TypeInvStep, PTL DEF Spec

\* The tags and the position of a call: whatever the message says, a call that runs
\* is inside its limits, and as deep in the tags as in the calls, also while it hands an
\* error up.
THEOREM ChecksummerTypes == Spec => []TypeOK
<1>1. TypeInv => TypeOK
  <2> SUFFICES ASSUME TypeInv PROVE TypeOK OBVIOUS
  <2>1. ASSUME phase \in {"scan", "failing"}
        PROVE  /\ stack # <<>>
               /\ Len(tags) - Len(parentTags)
                    = Len(stack) - IF Top.kind = "packed" THEN 2 ELSE 1
    <3>1. Follows(stack, tags, parentTags) /\ Calls(stack)
      BY <2>1 DEF TypeInv, Handed, Follows
    <3>2. /\ Len(tags) - Len(parentTags) = Pushed(stack)
          /\ Pushed(stack) = Len(stack) - IF Top.kind = "packed" THEN 2 ELSE 1
      BY <3>1, CallsLen, SequenceLen DEF Follows, Pushed, Top
    <3> QED BY <3>1, <3>2 DEF Calls
  <2>2. ASSUME phase = "scan"
        PROVE  /\ pos <= Top.limit
               /\ \A i \in 2..Len(stack) :
                    stack[i].limit <= IF stack[i].back = -1 THEN stack[i - 1].limit
                                      ELSE stack[i].back
    <3>1. Bounded(message, stack, pos, 0, NoLimit) BY <2>2 DEF TypeInv, Stops
    <3> QED BY <3>1 DEF Bounded, Nested, LimitInside, Reads, Top
  <2> QED BY <2>1, <2>2 DEF TypeInv, TypeOK
<1> QED BY <1>1, TypeInvariant, PTL

\* Every tag that is pushed is popped again: a caller whose call succeeds, the scrubber
\* in the middle of a message, goes on with the tags it had, and one whose call fails has
\* them as well.
THEOREM ChecksummerTags == Spec => []TagsRestored
<1>1. TypeInv => TagsRestored BY DEF TypeInv, Handed, TagsRestored
<1> QED BY <1>1, TypeInvariant, PTL
===============================================================================
