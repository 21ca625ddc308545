---------------------------- MODULE ProtoScrubber -----------------------------
(***************************************************************************)
(* ProtoScrubber::Scrub() and ScrubWithChecksum() (proto_scrubber.cc): one *)
(* pass over a serialized message that asks the field checkers about every *)
(* field, collects in `copies` what the result is made of, and then writes *)
(* the result.  Asked for a checksum, the scrubber also sums what it       *)
(* leaves out; where it calls the Checksummer for this it waits in phase   *)
(* "sum" for it (ScrubWithChecksum).                                       *)
(*                                                                         *)
(* The recursive calls ScanField(), ScanMapEntry(), ScanAnyField() and the *)
(* loop over a packed enum are the frames of `stack`, the innermost one    *)
(* last, and one step is one iteration of the loop of the innermost frame. *)
(* The value of an Any is scrubbed by a scrubber of its own; the scrubbers *)
(* that wait for one are in `outer`.                                       *)
(***************************************************************************)
EXTENDS MessageTypes, TLC

CONSTANTS
  RootType,     \* type_
  EmptyErased,  \* Struct, Value and ListValue: erased when nothing is left
  ValueType,    \* google.protobuf.Value, whose fields are not in paths
  StructEntry,  \* the map entry type of Struct
  OnKnown(_, _, _, _), \* OnKnown(c, p, f, d): what checker c says of the known field f
                  \* at path p and depth d
  OnUnknown(_, _, _), \* OnUnknown(c, p, d): what it says of a field that the type at
                  \* path p does not have
  OnType(_, _), \* OnType(c, t): what it says of an Any with a t in it
  SupportsAny(_), \* it wants to be asked about Any fields
  Inputs,       \* messages the scrubber is given, each with its field_checkers_
  Filters,      \* checkers that AddFieldFilter() adds
  WithChecksum, \* FALSE for calls of Scrub(), TRUE for ScrubWithChecksum()
  MaxScrubs,    \* bound: calls
  MaxCheckers   \* bound: checkers, when AddFieldFilter() adds one

ASSUME MessagesAssumption == \A input \in Inputs : input.message \in Seq(Nat)

VARIABLES
  message,   \* the caller's MessageData
  original,  \* history: the message given to the first call
  checkers,  \* field_checkers_
  checkOnly, \* field_check_only_
  summing,   \* is_checksum_enabled
  scrubs,    \* history: calls so far
  phase,     \* "idle", "scan", "sum", "copy", and the outcomes "ok" and "error"
  outer,     \* the scrubbers that wait for the one of an Any
  pos,       \* CurrentPosition() of input_stream, before a tag is read
  stack,     \* the calls in progress
  path,      \* path
  copies,    \* tag_insert, a list of TagCopy
  tags,      \* parent_tags
  sum,       \* scrubbed_fields_checksum
  written,   \* CopyAndInsertTag(): how many TagCopys it has written,
  output,    \*   and the bytes they made
  sumPhase, sumPos, sumStack, checksum, next, position \* the Checksummer

config == <<original, checkers, checkOnly, summing, scrubs>>
sums == <<tags, sum>>
checksummer == <<sumPhase, sumPos, sumStack, checksum, next, position>>
vars == <<message, config, phase, outer, pos, stack, path, copies, sums, written, output,
          checksummer>>

-------------------------------------------------------------------------------
(* The scrubber that runs: the one that was called, or that of an Any.         *)

Back(s) == s[Len(s)]
PopBack(s) == SubSeq(s, 1, Len(s) - 1)
SetBack(s, x) == [s EXCEPT ![Len(s)] = x]

Top == Back(stack)

\* any_field_checkers_, which are also all the checkers the scrubber of an Any has.
AnyCheckers == SelectSeq(checkers, SupportsAny)

Data == IF outer = <<>> THEN message ELSE Back(outer).value
Active == IF outer = <<>> THEN checkers ELSE AnyCheckers
Depth == IF outer = <<>> THEN 0 ELSE Back(outer).depth

\* The field at the current position, which ends at the limit of the innermost
\* call at the latest; the tag 0 is read at the limit or at the end of the data,
\* or is malformed.
AtLimit == pos >= EndOf(Data, Top.limit)
TagHere == ReadVarint(Data, pos, Top.limit)
BehindTag == AfterVarint(Data, pos, Top.limit)
EndHere == SkipField(Data, TagHere, BehindTag, Top.limit)
Number == NumberOf(TagHere)

-------------------------------------------------------------------------------
(* CheckField(): the first checker that excludes wins, any partial one makes   *)
(* the result partial.                                                         *)

Aggregate(verdicts) ==
  IF "exclude" \in verdicts THEN "exclude"
  ELSE IF "partial" \in verdicts THEN "partial" ELSE "include"

CheckField(p, field) ==
  Aggregate({OnKnown(Active[i], p, field, Depth + Len(p) - 1) : i \in 1..Len(Active)})

\* A field that is not known has no name to add to the path.
CheckUnknown ==
  Aggregate({OnUnknown(Active[i], path, Depth + Len(path) - 1) : i \in 1..Len(Active)})

-------------------------------------------------------------------------------
(* TagCopy *)

\* MakeTagCopyForInserting() and MakeTagCopyForCopying(), and the TagCopy of the
\* scrubbed value of an Any; <<>> stands for tag 0.
Inserting(tag, length) ==
  [tag |-> <<tag>>, length |-> length, start |-> 0, copy |-> 0, message |-> <<>>]
Copying(start, n) == [tag |-> <<>>, length |-> 0, start |-> start, copy |-> n, message |-> <<>>]
Scrubbed(tag, value) == [Inserting(tag, Len(value)) EXCEPT !.message = value]

TagSize == 1
SizeWithTag(n) == TagSize + VarintSize(n) + n

\* Mutant: whatever the segment, the last copied one is made longer.
ContinuesAnywhere(list, start) == list # <<>> /\ Back(list).copy > 0

\* The segment follows the last TagCopy, so that one can be made longer; or it
\* is the last TagCopy.
Continues(list, start) ==
  /\ list # <<>> /\ Back(list).copy > 0
  /\ Back(list).start + Back(list).copy = start

Repeats(list, start, n) ==
  list # <<>> /\ Back(list).start = start /\ Back(list).copy = n

Rolls(list, start, n) == Continues(list, start) \/ Repeats(list, start, n)

AddTagCopyOrRollToPrevious(list, start, n) ==
  IF Continues(list, start) THEN SetBack(list, [Back(list) EXCEPT !.copy = @ + n])
  ELSE IF Repeats(list, start, n) THEN list
  ELSE Append(list, Copying(start, n))

-------------------------------------------------------------------------------
(* The calls in progress *)

\* ScanField() of a message of that type; the map entry of that type scanned by
\* ScanMapEntry() for ScanMapField(); an "any", which is "scrubbed" when its value
\* is; the packed enum of ScanEnumField().  The frame remembers the tag it was
\* called with, where that was, the limit it pushed, the position of its own
\* TagCopy and the bytes it has kept; for a map entry what is known of the key,
\* for an Any its two fields.
NoKey == [found |-> FALSE, check |-> "include", pos |-> 0, length |-> 0,
          start |-> 0, added |-> FALSE, rolled |-> FALSE]
NoPart == [tag |-> 0, start |-> 0, length |-> 0, bytes |-> <<>>]

Frame(kind, type, tag, start, limit, index) ==
  [kind |-> kind, type |-> type, tag |-> tag, start |-> start, limit |-> limit,
   index |-> index, result |-> 0, key |-> NoKey, url |-> NoPart, value |-> NoPart]

In(kind) == phase = "scan" /\ stack # <<>> /\ Top.kind = kind

\* Scrub() returns an error (proto_scrubber.cc:150-152): the path, the list and the tags
\* are dropped with it, whatever is in them.
Abort == /\ phase' = "error"
         /\ outer' = <<>> /\ pos' = 0 /\ stack' = <<>> /\ path' = <<>> /\ copies' = <<>>
         /\ tags' = <<>> /\ sum' = {} /\ written' = 0 /\ output' = <<>>
         /\ UNCHANGED config

\* Mutant: the message is emptied before the error is returned.
FailEmptied == Abort /\ message' = <<>> /\ UNCHANGED checksummer

Fail == Abort /\ UNCHANGED <<message, checksummer>>

Staying == UNCHANGED <<message, config, outer, written, output>>
Scanning == Staying /\ UNCHANGED <<phase, checksummer>>

\* parent_tags has the tags of the calls in progress, and is only used to sum.
Push(tag) == tags' = IF summing THEN Append(tags, tag) ELSE tags
Pop == tags' = IF summing THEN PopBack(tags) ELSE tags
Summed(at, value) == IF summing THEN Added(sum, at, value) ELSE sum

Grow(frame, n) == [frame EXCEPT !.result = @ + n]

\* A call ended and returned n to its caller, the innermost frame of st; list
\* is tag_insert then.  ScanField() adds n to its result; ScanMapEntry() also
\* adds the length of the key, unless a Struct's value came out empty.
Dropped(entry, n) == n = 0 /\ entry.type = StructEntry

\* Mutant: the copied key stays.
WithoutKeyStays(entry, list) == list

WithoutKey(entry, list) ==
  IF entry.key.rolled
  THEN SetBack(list, [Back(list) EXCEPT !.copy = @ - entry.key.length])
  ELSE IF list = <<>> THEN list ELSE PopBack(list)

Return(st, list, p, n) ==
  LET caller == Back(st)
      entry == IF Dropped(caller, n) THEN [caller EXCEPT !.key.length = 0] ELSE caller
  IN  IF caller.kind = "entry"
      THEN /\ stack' = SetBack(st, Grow(entry, entry.key.length + n))
           /\ copies' = IF Dropped(caller, n) THEN WithoutKey(caller, list) ELSE list
           /\ path' = p
      ELSE /\ stack' = SetBack(st, Grow(caller, n))
           /\ copies' = list
           /\ path' = IF caller.type = ValueType THEN p ELSE PopBack(p)

-------------------------------------------------------------------------------
(* Scrub() and ScrubWithChecksum() *)

Between == phase \in {"idle", "ok", "error"}

\* The outcome of the last call says nothing of the checkers there are now.
AddFieldFilter(checker) ==
  /\ Between /\ Len(checkers) < MaxCheckers
  /\ checkers' = Append(checkers, checker)
  /\ phase' = "idle"
  /\ UNCHANGED <<message, original, checkOnly, summing, scrubs, outer, pos, stack, path,
                 copies, sums, written, output, checksummer>>

Root(type) == <<Frame("message", type, 0, 0, NoLimit, 0)>>

Scrub ==
  /\ Between /\ scrubs < MaxScrubs
  /\ scrubs' = scrubs + 1
  /\ summing' \in WithChecksum
  /\ phase' = IF checkers = <<>> THEN "ok" ELSE "scan"
  /\ stack' = IF checkers = <<>> THEN <<>> ELSE Root(RootType)
  /\ outer' = <<>> /\ pos' = 0 /\ path' = <<>> /\ copies' = <<>>
  /\ tags' = <<>> /\ sum' = {} /\ written' = 0 /\ output' = <<>>
  /\ UNCHANGED <<message, original, checkers, checkOnly, checksummer>>

-------------------------------------------------------------------------------
(* ScanField(): one field of the innermost message *)

Known == FindField(Top.type, Number)
Field == Fields[Top.type][Number]
Named == IF Top.type = ValueType THEN path ELSE Append(path, Field.name)

AtField == In("message") /\ TagHere # 0

\* Fields of Google's public types are not checked.
FieldVerdict == IF ~Known THEN CheckUnknown
                ELSE IF Field.public THEN "include" ELSE CheckField(Named, Field)

ExcludeField ==
  /\ AtField /\ ~checkOnly /\ FieldVerdict = "exclude" /\ ~(Known /\ summing)
  /\ pos' = EndHere
  /\ UNCHANGED <<stack, path, copies, sums>> /\ Scanning

\* The scrubber calls CalculateSingleFieldChecksum().
AskForField ==
  /\ AtField /\ ~checkOnly /\ FieldVerdict = "exclude" /\ Known /\ summing
  /\ phase' = "sum"
  /\ UNCHANGED <<pos, stack, path, copies, sums, checksummer>> /\ Staying

ExcludeFieldError == AtField /\ checkOnly /\ FieldVerdict = "exclude" /\ Fail

IncludeField ==
  /\ AtField /\ FieldVerdict = "include"
  /\ LET n == EndHere - pos
     IN  /\ copies' = AddTagCopyOrRollToPrevious(copies, pos, n)
         /\ stack' = SetBack(stack, Grow(Top, n))
  /\ pos' = EndHere
  /\ UNCHANGED <<path, sums>> /\ Scanning

UnknownPartialError == AtField /\ ~Known /\ FieldVerdict = "partial" /\ Fail

\* The loop over a message, or an Any, met a tag 0 before the end.
NotConsumedError == (In("message") \/ In("any")) /\ ~AtLimit /\ TagHere = 0 /\ Fail

\* Mutant: an empty Struct also erases the TagCopy before its own.
EndMessageErasesMore ==
  /\ In("message") /\ AtLimit /\ Len(stack) > 1
  /\ LET n == Top.result
         erased == n = 0 /\ Top.type \in EmptyErased
     IN  Return(PopBack(stack),
                IF erased THEN SubSeq(copies, 1, Top.index - 2)
                ELSE [copies EXCEPT ![Top.index].length = n],
                path,
                IF erased THEN 0 ELSE SizeWithTag(n))
  /\ Pop /\ UNCHANGED <<pos, sum>> /\ Scanning

\* The message is complete.  Its TagCopy gets the length of what is left of it;
\* an empty Struct, Value or ListValue leaves nothing behind.
EndMessage ==
  /\ In("message") /\ AtLimit /\ Len(stack) > 1
  /\ LET n == Top.result
         erased == n = 0 /\ Top.type \in EmptyErased
     IN  Return(PopBack(stack),
                IF erased THEN SubSeq(copies, 1, Top.index - 1)
                ELSE [copies EXCEPT ![Top.index].length = n],
                path,
                IF erased THEN 0 ELSE SizeWithTag(n))
  /\ Pop /\ UNCHANGED <<pos, sum>> /\ Scanning

\* Mutant: ConsumedEntireMessage() is not asked.
EndRootUnchecked ==
  /\ In("message") /\ TagHere = 0 /\ Len(stack) = 1
  /\ ~checkOnly \/ outer = <<>>
  /\ phase' = IF checkOnly THEN "ok" ELSE "copy"
  /\ copies' = IF checkOnly THEN <<>> ELSE copies
  /\ stack' = <<>> /\ pos' = 0
  /\ UNCHANGED <<path, sums, checksummer>> /\ Staying

EndRoot ==
  /\ In("message") /\ AtLimit /\ Len(stack) = 1
  /\ ~checkOnly \/ outer = <<>>
  /\ phase' = IF checkOnly THEN "ok" ELSE "copy"
  /\ copies' = IF checkOnly THEN <<>> ELSE copies
  /\ stack' = <<>> /\ pos' = 0
  /\ UNCHANGED <<path, sums, checksummer>> /\ Staying

-------------------------------------------------------------------------------
(* ScanMapEntry(): one field of the innermost map entry; 1 is the key, 2 the   *)
(* value.                                                                      *)

AtEntryField(number) == In("entry") /\ TagHere # 0 /\ Number = number

\* The key behind its tag; the path has it as a text.
IsText == Fields[Top.type][1].kind = "text"
Key == IF IsText THEN ReadString(Data, BehindTag, Top.limit)
       ELSE <<ReadVarint(Data, BehindTag, Top.limit)>>
KeyEnd == IF IsText THEN EndOfString(Data, BehindTag, Top.limit)
          ELSE AfterVarint(Data, BehindTag, Top.limit)
ReadMapKeyAsString == IF IsText THEN ToString(Key) ELSE ToString(Key[1])

\* A second key replaces the first one in the path.
EntryKey ==
  /\ AtEntryField(1)
  /\ LET p == Append(IF Top.key.found THEN PopBack(path) ELSE path, ReadMapKeyAsString)
         check == CheckField(p, Fields[Top.type][2])
     IN  /\ path' = p
         /\ stack' = SetBack(stack, [Top EXCEPT
                       !.key.found = TRUE, !.key.check = check,
                       !.key.pos = pos, !.key.length = KeyEnd - pos])
         /\ sum' = IF check = "exclude" /\ ~checkOnly THEN Summed(Append(tags, TagHere), Key)
                   ELSE sum
  /\ pos' = KeyEnd
  /\ UNCHANGED <<copies, tags>> /\ Scanning

AtValue(verdict) == AtEntryField(2) /\ Top.key.check = verdict

ExcludeValue ==
  /\ AtValue("exclude") /\ ~checkOnly /\ ~summing
  /\ pos' = EndHere
  /\ UNCHANGED <<stack, path, copies, sums>> /\ Scanning

AskForValue ==
  /\ AtValue("exclude") /\ ~checkOnly /\ summing
  /\ phase' = "sum"
  /\ UNCHANGED <<pos, stack, path, copies, sums, checksummer>> /\ Staying

ExcludeValueError == AtValue("exclude") /\ checkOnly /\ Fail

\* A second value takes the place of the first one in copies; the key goes
\* before it.
IncludeValue ==
  /\ AtValue("include")
  /\ LET n == EndHere - pos
         kept == IF Top.key.added THEN PopBack(copies) ELSE copies
         keyed == IF Top.key.found
                  THEN AddTagCopyOrRollToPrevious(kept, Top.key.pos, Top.key.length)
                  ELSE kept
         m == IF Top.key.found THEN Top.key.length + n ELSE n
     IN  /\ copies' = Append(keyed, Copying(pos, n))
         /\ stack' = SetBack(stack, [Grow(Top, m) EXCEPT !.key.added = TRUE])
  /\ pos' = EndHere
  /\ UNCHANGED <<path, sums>> /\ Scanning

\* Mutant: the field is not skipped.
OtherEntryFieldAgain ==
  /\ In("entry") /\ TagHere # 0 /\ Number \notin {1, 2}
  /\ UNCHANGED <<pos, stack, path, copies, sums>> /\ Scanning

OtherEntryField ==
  /\ In("entry") /\ TagHere # 0 /\ Number \notin {1, 2}
  /\ pos' = EndHere
  /\ UNCHANGED <<stack, path, copies, sums>> /\ Scanning

\* Mutant: the key stays in the path.
CloseEntryKeyStays ==
  LET n == Top.result
  IN  /\ Return(PopBack(stack),
                IF n = 0 THEN PopBack(copies) ELSE [copies EXCEPT ![Top.index].length = n],
                path,
                IF n = 0 THEN 0 ELSE SizeWithTag(n))
      /\ Pop /\ UNCHANGED sum

\* An entry nothing is left of is dropped with its TagCopy.
CloseEntry ==
  LET n == Top.result
  IN  /\ Return(PopBack(stack),
                IF n = 0 THEN PopBack(copies) ELSE [copies EXCEPT ![Top.index].length = n],
                IF Top.key.found THEN PopBack(path) ELSE path,
                IF n = 0 THEN 0 ELSE SizeWithTag(n))
      /\ Pop /\ UNCHANGED sum

EndEntry == In("entry") /\ AtLimit /\ CloseEntry /\ UNCHANGED pos /\ Scanning

\* The loop also ends at a tag 0, before the end of the entry; what is behind it
\* is then read as fields of the caller.
EndEntryEarly ==
  /\ In("entry") /\ ~AtLimit /\ TagHere = 0
  /\ CloseEntry
  /\ pos' = BehindTag
  /\ Scanning

-------------------------------------------------------------------------------
(* ScanChildField(): a field that is partially included.  In a map entry the   *)
(* field is the value, and its key is copied before it.                        *)

AtPartial == AtValue("partial") \/ (AtField /\ Known /\ FieldVerdict = "partial")

CallerStack ==
  IF Top.kind = "message" THEN stack
  ELSE SetBack(stack, [Top EXCEPT
         !.key.rolled = Rolls(copies, Top.key.start, Top.key.length)])

CallerCopies ==
  IF Top.kind = "message" THEN copies
  ELSE AddTagCopyOrRollToPrevious(copies, Top.key.start, Top.key.length)

CallerPath == IF Top.kind = "message" THEN Named ELSE path

\* The call reads the length and pushes the limit of the child; `list` is what it
\* adds to tag_insert.
Enter(kind, type, list) ==
  LET body == AfterVarint(Data, BehindTag, Top.limit)
      limit == EndOfLength(Data, BehindTag, Top.limit)
      frame == Frame(kind, type, TagHere, pos, limit, Len(CallerCopies \o list))
  IN  /\ stack' = Append(CallerStack, [frame EXCEPT !.key.start = body, !.key.pos = body])
      /\ copies' = CallerCopies \o list
      /\ path' = CallerPath
      /\ pos' = body
      /\ UNCHANGED sum /\ Scanning

AtChild == AtPartial /\ Field.kind = "message" /\ Found(Field.type)
AtAny == Field.type = AnyType /\ AnyCheckers # <<>>
OwnTag == <<Inserting(TagHere, 0)>>

EnterMessage ==
  AtChild /\ ~AtAny /\ ~Field.map /\ Enter("message", Field.type, OwnTag) /\ Push(TagHere)

EnterMap ==
  AtChild /\ ~AtAny /\ Field.map /\ Enter("entry", Field.type, OwnTag) /\ Push(TagHere)

EnterAny == AtChild /\ AtAny /\ Enter("any", AnyType, <<>>) /\ Push(TagHere)

UntypedChildError == AtPartial /\ Field.kind # "enum" /\ ~Found(Field.type) /\ Fail

-------------------------------------------------------------------------------
(* ScanAnyField(): both fields are read before they are looked at, the last    *)
(* one of each wins.                                                           *)

AnyField ==
  /\ In("any") /\ TagHere # 0
  /\ LET end == EndOfString(Data, BehindTag, Top.limit)
         part == [tag |-> TagHere, start |-> pos, length |-> end - pos,
                  bytes |-> ReadString(Data, BehindTag, Top.limit)]
     IN  /\ pos' = IF Number \in {1, 2} THEN end ELSE EndHere
         /\ stack' = CASE Number = 1 -> SetBack(stack, [Top EXCEPT !.url = part])
                       [] Number = 2 -> SetBack(stack, [Top EXCEPT !.value = part])
                       [] OTHER      -> stack
  /\ UNCHANGED <<path, copies, sums>> /\ Scanning

AnyRead == In("any") /\ AtLimit
Url == Top.url.bytes

\* Without a type there is nothing the checkers could be asked about.
TypeVerdict ==
  IF Url = <<>> \/ TypeNamed(Url) = NoType THEN "include"
  ELSE Aggregate({OnType(AnyCheckers[i], TypeNamed(Url)) : i \in 1..Len(AnyCheckers)})

IncludeAny ==
  /\ AnyRead /\ TypeVerdict = "include"
  /\ LET n == pos - Top.start
     IN  Return(PopBack(stack), AddTagCopyOrRollToPrevious(copies, Top.start, n), path, n)
  /\ Pop /\ UNCHANGED <<pos, sum>> /\ Scanning

\* The Any leaves nothing behind; its type_url is summed.
DropAny(total, at) ==
  /\ Return(PopBack(stack), copies, path, 0)
  /\ sum' = IF summing THEN Added(total, Append(at, Top.url.tag), Url) ELSE sum
  /\ tags' = IF summing THEN PopBack(at) ELSE tags
  /\ UNCHANGED pos

ExcludeAny ==
  /\ AnyRead /\ TypeVerdict = "exclude" /\ ~checkOnly
  /\ summing => Top.value.bytes = <<>>
  /\ DropAny(sum, tags) /\ Scanning

\* Mutant: also with check only an Any is dropped in silence.
ExcludeAnyUnchecked ==
  AnyRead /\ TypeVerdict = "exclude" /\ checkOnly /\ DropAny(sum, tags) /\ Scanning

ExcludeAnyError == AnyRead /\ TypeVerdict = "exclude" /\ checkOnly /\ Fail

\* The scrubber calls CalculateChecksum() of the value.
AskForAny ==
  /\ AnyRead /\ TypeVerdict = "exclude" /\ ~checkOnly
  /\ summing /\ Top.value.bytes # <<>>
  /\ phase' = "sum" /\ Push(Top.value.tag)
  /\ UNCHANGED <<pos, stack, path, copies, sum, checksummer>> /\ Staying

\* Mutant: the scrubber of the value begins at depth 0.
ScrubAnyAtTop ==
  /\ AnyRead /\ TypeVerdict = "partial" /\ Top.value.tag # 0
  /\ outer' = Append(outer, [value |-> Top.value.bytes, depth |-> 0,
                             pos |-> pos, stack |-> stack, path |-> path, copies |-> copies])
  /\ pos' = 0 /\ stack' = Root(TypeNamed(Url)) /\ path' = <<>> /\ copies' = <<>>
  /\ Push(Top.value.tag)
  /\ UNCHANGED <<message, config, phase, sum, written, output, checksummer>>

\* The value is scrubbed by a scrubber of its own, whose depth counts from here;
\* its checksum is xor-ed to that of the outer one.
ScrubAny ==
  /\ AnyRead /\ TypeVerdict = "partial" /\ Top.value.tag # 0
  /\ outer' = Append(outer, [value |-> Top.value.bytes, depth |-> Depth + Len(path),
                             pos |-> pos, stack |-> stack, path |-> path, copies |-> copies])
  /\ pos' = 0 /\ stack' = Root(TypeNamed(Url)) /\ path' = <<>> /\ copies' = <<>>
  /\ Push(Top.value.tag)
  /\ UNCHANGED <<message, config, phase, sum, written, output, checksummer>>

\* That scrubber has returned, and left this value.
AnyScrubbed(value) ==
  LET caller == Back(outer)
      frame == [Back(caller.stack) EXCEPT !.kind = "scrubbed", !.value.bytes = value]
  IN  /\ phase' = "scan" /\ outer' = PopBack(outer)
      /\ pos' = caller.pos /\ stack' = SetBack(caller.stack, frame)
      /\ path' = caller.path /\ copies' = caller.copies
      /\ Pop /\ written' = 0 /\ output' = <<>>
      /\ UNCHANGED <<message, config, sum, checksummer>>

\* With check only, it has left it as it was.
EndRootOfAny ==
  /\ In("message") /\ AtLimit /\ Len(stack) = 1
  /\ checkOnly /\ outer # <<>>
  /\ AnyScrubbed(Data)

EmptyAny ==
  \/ AnyRead /\ TypeVerdict = "partial" /\ Top.value.tag = 0
  \/ In("scrubbed") /\ Top.value.bytes = <<>>

\* Mutant: its type_url is not summed.
DropEmptyAnySilently ==
  /\ EmptyAny
  /\ Return(PopBack(stack), copies, path, 0) /\ Pop
  /\ UNCHANGED <<pos, sum>> /\ Scanning

DropEmptyAny == EmptyAny /\ DropAny(sum, tags) /\ Scanning

\* The type_url goes before the value, whatever their order was.
KeepAny ==
  /\ In("scrubbed") /\ Top.value.bytes # <<>>
  /\ LET n == Top.url.length + SizeWithTag(Len(Top.value.bytes))
     IN  Return(PopBack(stack),
                copies \o <<Inserting(Top.tag, n), Copying(Top.url.start, Top.url.length),
                            Scrubbed(Top.value.tag, Top.value.bytes)>>,
                path, SizeWithTag(n))
  /\ Pop /\ UNCHANGED <<pos, sum>> /\ Scanning

-------------------------------------------------------------------------------
(* ScanEnumField(): packed values are checked one by one *)

AtEnum == AtPartial /\ Field.kind = "enum"
IsPacked == WireOf(TagHere) = LengthDelimited

\* Mutant: the values are summed with the tag of the packed field.
EnterPackedAsIs ==
  AtEnum /\ IsPacked /\ Enter("packed", Top.type, OwnTag) /\ Push(TagHere)

\* The values are summed with the tag they would have unpacked.  The frame's type
\* is that of the field's message, for the field is checked again.
EnterPacked ==
  /\ AtEnum /\ IsPacked
  /\ Enter("packed", Top.type, OwnTag) /\ Push(TagHere - LengthDelimited)

\* CheckEnumValue() on the value at position `at`, of the enum at path p; what
\* cannot be read is 2^32 - 1, here -1.
EnumAt(at) == IF at >= EndOf(Data, Top.limit) THEN -1 ELSE ReadVarint(Data, at, Top.limit)
EnumVerdict(p, at, field) == CheckField(Append(p, ToString(EnumAt(at))), field)

EnumValue ==
  /\ AtEnum /\ ~IsPacked
  /\ LET verdict == EnumVerdict(CallerPath, BehindTag, Field)
         end == AfterVarint(Data, BehindTag, Top.limit)
     IN  /\ ~(verdict = "exclude" /\ checkOnly)
         /\ IF verdict = "include"
            THEN Return(CallerStack, AddTagCopyOrRollToPrevious(CallerCopies, pos, end - pos),
                        CallerPath, end - pos)
            ELSE Return(CallerStack, CallerCopies, CallerPath, 0)
         /\ sum' = IF verdict = "exclude"
                   THEN Summed(Append(tags, TagHere), <<EnumAt(BehindTag)>>) ELSE sum
         /\ pos' = end
  /\ UNCHANGED tags /\ Scanning

EnumValueError ==
  /\ AtEnum /\ ~IsPacked /\ checkOnly
  /\ EnumVerdict(CallerPath, BehindTag, Field) = "exclude"
  /\ Fail

PackedValue ==
  /\ In("packed") /\ pos < Top.limit
  /\ LET verdict == EnumVerdict(path, pos, Fields[Top.type][NumberOf(Top.tag)])
         end == AfterVarint(Data, pos, Top.limit)
     IN  /\ IF verdict = "include"
            THEN /\ copies' = AddTagCopyOrRollToPrevious(copies, pos, end - pos)
                 /\ stack' = SetBack(stack, Grow(Top, end - pos))
            ELSE UNCHANGED <<copies, stack>>
         /\ sum' = IF verdict = "exclude" THEN Summed(tags, <<EnumAt(pos)>>) ELSE sum
         /\ pos' = end
  /\ UNCHANGED <<path, tags>> /\ Scanning

EndPacked ==
  /\ In("packed") /\ pos >= Top.limit
  /\ LET n == Top.result
     IN  Return(PopBack(stack), [copies EXCEPT ![Top.index].length = n], path, SizeWithTag(n))
  /\ Pop /\ UNCHANGED <<pos, sum>> /\ Scanning

-------------------------------------------------------------------------------
(* CopyAndInsertTag(), then MessageData::CopyFrom() *)

Copy(c) ==
  /\ phase = "copy" /\ written < Len(copies) /\ c = copies[written + 1]
  /\ IF c.copy > 0 /\ Len(Data) < c.start + c.copy
     THEN Fail
     ELSE /\ output' = output \o
                (IF c.copy > 0 THEN SubSeq(Data, c.start + 1, c.start + c.copy)
                               ELSE c.tag \o Varint(c.length) \o c.message)
          /\ written' = written + 1
          /\ UNCHANGED <<message, config, phase, outer, pos, stack, path, copies, sums, checksummer>>

CopyNext == \E i \in {written + 1} \cap 1..Len(copies) : Copy(copies[i])

Copied == phase = "copy" /\ written = Len(copies)

Replace ==
  /\ Copied /\ outer = <<>>
  /\ message' = output
  /\ phase' = "ok"
  /\ copies' = <<>> /\ written' = 0 /\ output' = <<>>
  /\ UNCHANGED <<config, outer, pos, stack, path, sums, checksummer>>

ReplaceInAny == Copied /\ outer # <<>> /\ AnyScrubbed(output)

-------------------------------------------------------------------------------

Init ==
  /\ \E input \in Inputs : message = input.message /\ checkers = input.checkers
  /\ original = message
  /\ checkOnly \in BOOLEAN /\ summing = FALSE
  /\ scrubs = 0 /\ phase = "idle"
  /\ outer = <<>> /\ pos = 0 /\ stack = <<>> /\ path = <<>> /\ copies = <<>>
  /\ tags = <<>> /\ sum = {} /\ written = 0 /\ output = <<>>
  /\ sumPhase = "idle" /\ sumPos = 0 /\ sumStack = <<>>
  /\ checksum = {} /\ next = 0 /\ position = 0

ScanFieldStep ==
  \/ ExcludeField \/ AskForField \/ ExcludeFieldError \/ IncludeField
  \/ UnknownPartialError \/ NotConsumedError \/ EndMessage \/ EndRoot

ScanMapEntryStep ==
  \/ EntryKey \/ ExcludeValue \/ AskForValue \/ ExcludeValueError \/ IncludeValue
  \/ OtherEntryField \/ EndEntry \/ EndEntryEarly

ScanAnyStep ==
  \/ EnterAny \/ AnyField \/ IncludeAny \/ ExcludeAny \/ AskForAny \/ ExcludeAnyError
  \/ ScrubAny \/ EndRootOfAny \/ ReplaceInAny \/ DropEmptyAny \/ KeepAny

ScanChildStep ==
  \/ EnterMessage \/ EnterMap \/ UntypedChildError
  \/ EnterPacked \/ EnumValue \/ EnumValueError \/ PackedValue \/ EndPacked

Running ==
  ScanFieldStep \/ ScanMapEntryStep \/ ScanAnyStep \/ ScanChildStep \/ CopyNext \/ Replace

Next == Scrub \/ (\E c \in Filters : AddFieldFilter(c)) \/ Running

\* A call that has started runs to its end.
Spec == Init /\ [][Next]_vars /\ WF_vars(Running)

-------------------------------------------------------------------------------

\* The message is changed only when the result is OK (proto_scrubber.h:75-78), and
\* when more was asked for than a check.
KeptIntact == [][message' # message => phase' = "ok" /\ ~checkOnly]_vars

\* A call remembers where its TagCopy is in tag_insert, while the calls it makes add
\* to the list, merge segments in it and take back (proto_scrubber.cc:224, 332, 569,
\* 595, 635, 701).  What it finds there in the end, to write the length, is the TagCopy
\* of its own field, and that of no other call.
HasTagCopy(frame) == frame.kind \in {"message", "entry", "packed"}

FindTagCopies(frames, list) ==
  \A i \in 2..Len(frames) : HasTagCopy(frames[i]) =>
    /\ frames[i].index \in 1..Len(list) /\ frames[i].index > frames[i - 1].index
    /\ list[frames[i].index].tag = <<frames[i].tag>>

TagCopiesFound ==
  /\ FindTagCopies(stack, copies)
  /\ \A i \in 1..Len(outer) : FindTagCopies(outer[i].stack, outer[i].copies)

\* Limits of nested calls are nested, the position is inside all of them, and the
\* TagCopys of calls are in the list, in the order of the calls; what is to be copied
\* has been read.
Inside(frames, list, p) ==
  /\ \A i \in 1..Len(frames) : p <= frames[i].limit /\ frames[i].index \in 0..Len(list)
  /\ \A i \in 2..Len(frames) : /\ frames[i].limit <= frames[i - 1].limit
                               /\ frames[i].index >= frames[i - 1].index
  /\ \A i \in 1..Len(list) : list[i].start + list[i].copy <= p

\* A scan stays inside the limits it has pushed, whatever the bytes say and in whichever
\* order the fields of a map entry or of an Any come; what is written is a message again,
\* for the next call (proto_scrubber.cc:218, 319, 348, 575, 719).
TypeOK ==
  /\ phase \in {"idle", "scan", "sum", "copy", "ok", "error"}
  /\ message \in Seq(Nat) /\ pos \in Nat /\ written \in 0..Len(copies)
  /\ IF phase \in {"scan", "sum"} THEN Inside(stack, copies, pos) ELSE stack = <<>>
  /\ \A i \in 1..Len(outer) : Inside(outer[i].stack, outer[i].copies, outer[i].pos)

\* The path has been taken back when a scan has succeeded (proto_scrubber.cc:155).  After
\* an error this says nothing: Scrub() drops the path as it is (150-152), see Abort.
PathUnwound == phase \notin {"scan", "sum"} => path = <<>>
===============================================================================
