----------------------------- MODULE Checksummer ------------------------------
(***************************************************************************)
(* Checksummer (checksummer.cc): a checksum of the fields of a serialized  *)
(* message that does not depend on their order.  Every value is hashed     *)
(* together with the tags that lead to it, and the hashes are xor-ed.      *)
(***************************************************************************)
EXTENDS MessageTypes

CONSTANTS
  RootType,   \* the type CalculateChecksum() is called with
  Timestamps, \* Timestamp and Duration, with a renderer of their own
  Wrappers,   \* DoubleValue to BoolValue, with another one
  Inputs,     \* the arguments of the call: a message and parent_tags
  MaxDepths   \* values of max_depth_; negative ones stand for no limit

\* A message is a sequence of bytes, and parent_tags one of tags.
ASSUME InputsAssumption ==
  \A data \in Inputs : data.message \in Seq(Nat) /\ data.tags \in Seq(Nat)

ASSUME AnyAssumption == AnyHasTexts

VARIABLES
  message,    \* the data
  parentTags, \* history: parent_tags when the call was made
  maxDepth,   \* max_depth_
  call,       \* history: what was asked for, "none", "message" or "field"
  phase,      \* "idle", "scan", "failing" while an error is handed to the caller,
              \*   and the outcomes "ok" and "error"
  pos,        \* CurrentPosition() of input_stream
  stack,      \* the calls in progress
  tags,       \* parent_tags
  checksum,   \* the pairs in the checksum
  next,       \* the tag CalculateSingleFieldChecksum() has returned,
  position    \*   and its position

input == <<message, parentTags, maxDepth>>
config == <<input, call>>
answer == <<next, position>>
vars == <<config, phase, pos, stack, tags, checksum, answer>>

-------------------------------------------------------------------------------
(* Reading the message from position p on, up to the limit                    *)

Read(p, limit) == ReadVarint(message, p, limit)
After(p, limit) == AfterVarint(message, p, limit)
End(p, limit) == EndOfLength(message, p, limit)
EndText(p, limit) == EndOfString(message, p, limit)
Skipped(tag, p, limit) == SkipField(message, tag, p, limit)

AddToChecksum(at, value) == checksum' = Added(checksum, at, value)

-------------------------------------------------------------------------------
(* The calls in progress.  A frame "message" is ScanMessage(); "single" is     *)
(* CalculateSingleFieldChecksum(), which becomes "last" when its field is      *)
(* complete; "packed", "any" and the renderers are the calls they make, and an *)
(* "any" becomes "nested" when its fields have been read.  A frame has the tag *)
(* it has read and the position of that and, for Any, where its fields are;    *)
(* the value of an Any is read as a stream of its own, and the scan comes back *)
(* to `back` when it ends.                                                     *)

None == [tag |-> 0, from |-> 0, to |-> 0]

\* A frame whose first tag is at position p.
Frame(kind, type, limit, p) ==
  [kind |-> kind, type |-> type, limit |-> limit, tag |-> Read(p, limit), at |-> p,
   url |-> None, value |-> None, back |-> -1]

Top == stack[Len(stack)]
PopBack(s) == SubSeq(s, 1, Len(s) - 1)
SetTop(frame) == stack' = [stack EXCEPT ![Len(stack)] = frame]

In(kind) == phase = "scan" /\ Top.kind = kind
AtTag(kind) == In(kind) /\ Top.tag # 0
AtEnd(kind) == In(kind) /\ Top.tag = 0

\* ScanMessage() and ScanRepeatedField() are about to look at a field.
AtField == AtTag("message") \/ AtTag("single")

Known == Top.kind = "single" \/ FindAndVerifyField(Top.type, Top.tag)
Field == Fields[Top.type][NumberOf(Top.tag)]

\* Mutant: a repeated field is scanned once.
OnwardOnce(frame, p) ==
  LET onward == [frame EXCEPT !.tag = Read(p, frame.limit), !.at = p]
  IN  CASE frame.kind = "nested" -> frame
        [] frame.kind = "single" -> [onward EXCEPT !.kind = "last"]
        [] OTHER                 -> onward

\* A frame goes on at position p: it reads the next tag.  Of a single field it
\* goes on while an unpacked repeated field has the same tag.
Onward(frame, p) ==
  LET onward == [frame EXCEPT !.tag = Read(p, frame.limit), !.at = p]
      field == Fields[frame.type][NumberOf(frame.tag)]
      again == field.repeated /\ onward.tag = frame.tag
                 /\ ~(IsPackable(field) /\ WireOf(frame.tag) = LengthDelimited)
  IN  CASE frame.kind = "nested" -> frame
        [] frame.kind = "single" -> [onward EXCEPT !.kind = IF again THEN @ ELSE "last"]
        [] OTHER                 -> onward

Proceed(p) ==
  /\ SetTop(Onward(Top, p))
  /\ pos' = After(p, Top.limit)
  /\ UNCHANGED <<config, phase, tags, answer>>

\* The innermost call returns, at position p.
Return(p) ==
  LET below == PopBack(stack)
      caller == below[Len(below)]
      q == IF Top.back = -1 THEN p ELSE Top.back
  IN  /\ stack' = [below EXCEPT ![Len(below)] = Onward(caller, q)]
      /\ pos' = IF caller.kind = "nested" THEN q ELSE After(q, caller.limit)
      /\ UNCHANGED <<config, phase, answer>>

\* An error is handed through all the callers of the innermost call.
Fail == phase' = "failing" /\ UNCHANGED <<config, pos, stack, tags, checksum, answer>>

Failing == phase = "failing"

\* Mutant: a call that fails leaves its tag behind.
UnwindTagged ==
  /\ Failing /\ Len(stack) > 1
  /\ stack' = PopBack(stack)
  /\ UNCHANGED <<config, phase, pos, tags, checksum, answer>>

\* ScanNonRepeatedField() and ScanAnyMessage() pop the tag they have pushed before
\* they look at what the call they made has returned.
UnwindCall ==
  /\ Failing /\ Len(stack) > 1
  /\ stack' = PopBack(stack) /\ tags' = PopBack(tags)
  /\ UNCHANGED <<config, phase, pos, checksum, answer>>

\* The error is returned to the user, who gets no checksum and no tag.
FailCall ==
  /\ Failing /\ Len(stack) = 1
  /\ phase' = "error" /\ pos' = 0 /\ stack' = <<>>
  /\ checksum' = {} /\ next' = 0 /\ position' = 0
  /\ UNCHANGED <<config, tags>>

Unwinding == UnwindCall \/ FailCall

-------------------------------------------------------------------------------
(* ScanMessage() *)

SkipUnknown ==
  /\ AtField /\ ~Known
  /\ Proceed(Skipped(Top.tag, pos, Top.limit))
  /\ UNCHANGED checksum

TooDeep == maxDepth >= 0 /\ Len(tags) > maxDepth

\* Mutant: the scan goes on with the same field.
SkipDeepAgain ==
  /\ AtField /\ Known /\ TooDeep
  /\ IF Field.repeated THEN UNCHANGED vars ELSE Proceed(pos) /\ UNCHANGED checksum

\* Beyond the limit a field is left unread: what is behind its tag is taken for
\* the next tag, and a repeated field ends the scan.
SkipDeep ==
  /\ AtField /\ Known /\ TooDeep
  /\ IF Field.repeated
     THEN /\ SetTop([Top EXCEPT !.tag = 0, !.kind = IF @ = "single" THEN "last" ELSE @])
          /\ UNCHANGED <<config, phase, pos, tags, answer>>
     ELSE Proceed(pos)
  /\ UNCHANGED checksum

Scannable == AtField /\ Known /\ ~TooDeep

Packed == IsPackable(Field) /\ WireOf(Top.tag) = LengthDelimited

\* ScanPrimitiveField() on the value at position p, and where that ends: a field
\* asked for alone is read by its kind, whatever the wire type of its tag.
Value(field, p, limit) ==
  IF field.kind = "text" THEN ReadString(message, p, limit) ELSE <<Read(p, limit)>>

Behind(field, p, limit) == IF field.kind = "text" THEN EndText(p, limit) ELSE After(p, limit)

ScanPrimitiveField ==
  /\ Scannable /\ Field.kind # "message" /\ ~Packed
  /\ AddToChecksum(Append(tags, Top.tag), Value(Field, pos, Top.limit))
  /\ Proceed(Behind(Field, pos, Top.limit))

\* The numbers count with the tag they would have unpacked.
StartPacked ==
  /\ Scannable /\ Packed
  /\ LET frame == Frame("packed", Top.type, End(pos, Top.limit), pos)
     IN  stack' = Append(stack, [frame EXCEPT !.tag = Top.tag - LengthDelimited])
  /\ pos' = After(pos, Top.limit)
  /\ UNCHANGED <<config, phase, tags, checksum, answer>>

\* Mutant: the numbers count with the tag of the packed field.
ScanPackedAsIs ==
  /\ In("packed") /\ pos < Top.limit
  /\ AddToChecksum(Append(tags, Top.tag + LengthDelimited), <<Read(pos, Top.limit)>>)
  /\ pos' = After(pos, Top.limit)
  /\ UNCHANGED <<config, phase, stack, tags, answer>>

ScanPacked ==
  /\ In("packed") /\ pos < Top.limit
  /\ AddToChecksum(Append(tags, Top.tag), <<Read(pos, Top.limit)>>)
  /\ pos' = After(pos, Top.limit)
  /\ UNCHANGED <<config, phase, stack, tags, answer>>

EndPacked ==
  /\ In("packed") /\ pos >= Top.limit
  /\ Return(pos)
  /\ UNCHANGED <<tags, checksum>>

-------------------------------------------------------------------------------
(* ScanNonRepeatedField() of a message *)

KindOf(type) ==
  IF type \in Timestamps THEN "timestamp"
  ELSE IF type \in Wrappers THEN "wrapper"
  ELSE IF type = AnyType THEN "any" ELSE "message"

\* A renderer is found by its type_url; the type finder is not asked for it.
Rendered(type) == type \in Timestamps \cup Wrappers
Scanned(type) == Rendered(type) \/ Found(type)

\* The child is entered, its limit pushed, and its first tag read.
EnterMessage ==
  /\ Scannable /\ Field.kind = "message" /\ Scanned(Field.type)
  /\ LET limit == End(pos, Top.limit)
         body == After(pos, Top.limit)
     IN  /\ stack' = Append(stack, Frame(KindOf(Field.type), Field.type, limit, body))
         /\ pos' = After(body, limit)
  /\ tags' = Append(tags, Top.tag)
  /\ UNCHANGED <<config, phase, checksum, answer>>

\* Mutant: a message whose type is not found is skipped.
ChildTypeSkipped ==
  /\ Scannable /\ Field.kind = "message" /\ ~Scanned(Field.type)
  /\ Proceed(Skipped(Top.tag, pos, Top.limit))
  /\ UNCHANGED checksum

ChildTypeError == Scannable /\ Field.kind = "message" /\ ~Scanned(Field.type) /\ Fail

EndMessage ==
  /\ AtEnd("message") /\ Len(stack) > 1
  /\ Return(pos) /\ tags' = PopBack(tags)
  /\ UNCHANGED checksum

\* The call made by the user returns.
EndCall ==
  /\ AtEnd("message") \/ In("last")
  /\ Len(stack) = 1
  /\ phase' = "ok" /\ stack' = <<>> /\ next' = Top.tag /\ position' = Top.at
  /\ UNCHANGED <<config, pos, tags, checksum>>

-------------------------------------------------------------------------------
(* RenderTimestampAndDuration(): numbers other than 0 count; a field that is   *)
(* neither 1 nor 2 is not skipped.                                             *)

TimestampField ==
  /\ AtTag("timestamp") /\ NumberOf(Top.tag) \in {1, 2}
  /\ LET value == Read(pos, Top.limit)
     IN  IF value = 0 THEN UNCHANGED checksum
         ELSE AddToChecksum(Append(tags, Top.tag), <<value>>)
  /\ Proceed(After(pos, Top.limit))

TimestampOther ==
  /\ AtTag("timestamp") /\ NumberOf(Top.tag) \notin {1, 2}
  /\ Proceed(pos)
  /\ UNCHANGED checksum

EndTimestamp ==
  /\ AtEnd("timestamp")
  /\ Return(pos) /\ tags' = PopBack(tags)
  /\ UNCHANGED checksum

\* RenderWrapperValue(): the first field only, unless it is 0.
RenderWrapperValue ==
  /\ In("wrapper") /\ Found(Top.type)
  /\ LET value == Read(pos, Top.limit)
     IN  IF Top.tag # 0 /\ FindAndVerifyField(Top.type, Top.tag) /\ value # 0
         THEN AddToChecksum(Append(tags, Top.tag), <<value>>)
         ELSE UNCHANGED checksum
  /\ Return(IF Top.tag = 0 THEN pos ELSE Skipped(Top.tag, pos, Top.limit))
  /\ tags' = PopBack(tags)

\* A wrapper whose type is not found is not read, and no error: the call goes on
\* inside it, and takes what it finds there for fields of the message around it.
LeaveWrapper ==
  /\ In("wrapper") /\ ~Found(Top.type)
  /\ Return(Top.at) /\ tags' = PopBack(tags)
  /\ UNCHANGED checksum

-------------------------------------------------------------------------------
(* ScanAnyMessage(): both fields are read before they are looked at, the last  *)
(* one of each wins.                                                           *)

AnyField ==
  /\ AtTag("any")
  /\ LET end == EndText(pos, Top.limit)
         part == [tag |-> Top.tag, from |-> After(pos, Top.limit), to |-> end]
         found == FindAndVerifyField(AnyType, Top.tag)
         frame == CASE found /\ NumberOf(Top.tag) = 1 -> [Top EXCEPT !.url = part]
                    [] found /\ NumberOf(Top.tag) = 2 -> [Top EXCEPT !.value = part]
                    [] OTHER                          -> Top
         p == Skipped(Top.tag, pos, Top.limit)
     IN  /\ SetTop(Onward(frame, p))
         /\ pos' = After(p, Top.limit)
  /\ UNCHANGED <<config, phase, tags, checksum, answer>>

Bytes(part) == SubSeq(message, part.from + 1, part.to)
Url == Bytes(Top.url)

AnyUrlMissingError == AtEnd("any") /\ Url = <<>> /\ Fail

AnyTypeError ==
  AtEnd("any") /\ Url # <<>> /\ Bytes(Top.value) # <<>> /\ TypeNamed(Url) = NoType /\ Fail

CountUrl == AddToChecksum(Append(tags, Top.url.tag), Url)

AnyWithoutValue ==
  /\ AtEnd("any") /\ Url # <<>> /\ Bytes(Top.value) = <<>>
  /\ CountUrl
  /\ SetTop([Top EXCEPT !.kind = "nested"])
  /\ UNCHANGED <<config, phase, pos, tags, answer>>

\* Mutant: the tag of the value is not pushed.
EnterAnyUntagged ==
  /\ AtEnd("any") /\ Url # <<>> /\ Bytes(Top.value) # <<>> /\ TypeNamed(Url) # NoType
  /\ CountUrl
  /\ LET v == Top.value
     IN  /\ stack' = Append(PopBack(stack), [Top EXCEPT !.kind = "nested"])
                       \o <<[Frame("message", TypeNamed(Url), v.to, v.from) EXCEPT !.back = pos]>>
         /\ pos' = After(v.from, v.to)
  /\ UNCHANGED <<config, phase, tags, answer>>

EnterAny ==
  /\ AtEnd("any") /\ Url # <<>> /\ Bytes(Top.value) # <<>> /\ TypeNamed(Url) # NoType
  /\ CountUrl
  /\ LET v == Top.value
     IN  /\ stack' = Append(PopBack(stack), [Top EXCEPT !.kind = "nested"])
                       \o <<[Frame("message", TypeNamed(Url), v.to, v.from) EXCEPT !.back = pos]>>
         /\ pos' = After(v.from, v.to)
         /\ tags' = Append(tags, v.tag)
  /\ UNCHANGED <<config, phase, answer>>

EndAny ==
  /\ In("nested")
  /\ Return(pos) /\ tags' = PopBack(tags)
  /\ UNCHANGED checksum

-------------------------------------------------------------------------------
(* The calls *)

\* The call begins to read at position p.
Start(kind, type, p, limit) ==
  /\ phase = "idle"
  /\ phase' = "scan" /\ stack' = <<Frame(kind, type, limit, p)>> /\ pos' = After(p, limit)
  /\ UNCHANGED <<input, tags, checksum, answer>>

\* CalculateChecksum(): of an empty message it is 0.
CalculateChecksum ==
  /\ IF message # <<>> THEN Start("message", RootType, 0, NoLimit)
     ELSE phase = "idle" /\ phase' = "ok" /\ UNCHANGED <<input, pos, stack, tags, checksum, answer>>
  /\ call' = "message"

\* CalculateSingleFieldChecksum(): the caller has found the field whose tag it
\* has read.
CalculateSingleFieldChecksum ==
  /\ message # <<>> /\ FindField(RootType, NumberOf(Read(0, NoLimit)))
  /\ Start("single", RootType, 0, NoLimit)
  /\ call' = "field"

Init ==
  /\ \E data \in Inputs : message = data.message /\ parentTags = data.tags
  /\ maxDepth \in MaxDepths
  /\ call = "none" /\ phase = "idle" /\ pos = 0 /\ stack = <<>> /\ tags = parentTags
  /\ checksum = {} /\ next = 0 /\ position = 0

ScanMessage ==
  \/ SkipUnknown \/ SkipDeep \/ ScanPrimitiveField
  \/ StartPacked \/ ScanPacked \/ EndPacked
  \/ EnterMessage \/ ChildTypeError \/ EndMessage

Render ==
  TimestampField \/ TimestampOther \/ EndTimestamp \/ RenderWrapperValue \/ LeaveWrapper

ScanAnyMessage ==
  \/ AnyField \/ AnyUrlMissingError \/ AnyTypeError
  \/ AnyWithoutValue \/ EnterAny \/ EndAny

Running == ScanMessage \/ Render \/ ScanAnyMessage \/ EndCall \/ Unwinding

Next == CalculateChecksum \/ CalculateSingleFieldChecksum \/ Running

\* A call that has started runs to its end.
Spec == Init /\ [][Next]_vars /\ WF_vars(Running)

-------------------------------------------------------------------------------

\* While a call runs, or fails, the tags are the caller's and those of the calls in
\* progress.  What is read is inside the limit of the innermost one.  Limits are nested
\* but for the value of an Any, which is a stream of its own and ends before the
\* position where the scan of the Any goes on.
TypeOK ==
  /\ phase \in {"idle", "scan", "failing", "ok", "error"} /\ call \in {"none", "message", "field"}
  /\ pos \in Nat
  /\ phase \in {"scan", "failing"} =>
       /\ stack # <<>>
       /\ Len(tags) - Len(parentTags) = Len(stack) - IF Top.kind = "packed" THEN 2 ELSE 1
  /\ phase = "scan" =>
       /\ pos <= Top.limit
       /\ \A i \in 2..Len(stack) :
            stack[i].limit <= IF stack[i].back = -1 THEN stack[i - 1].limit ELSE stack[i].back

\* A call leaves its caller with the tags it was given, whether it succeeds or an
\* error is handed up from any depth: each nested call has taken back the one it
\* pushed.
TagsRestored == phase \in {"idle", "ok", "error"} => tags = parentTags
===============================================================================
