--------------------------- MODULE ScrubWithChecksum ---------------------------
(***************************************************************************)
(* A scrubber that is asked for a checksum, and the Checksummer it calls   *)
(* for what it excludes.  They read the same stream: the checksummer goes  *)
(* on where the scrubber has read a tag, and the scrubber where the        *)
(* checksummer has stopped.  parent_tags are handed from one to the other. *)
(***************************************************************************)
EXTENDS ProtoScrubber

CONSTANTS Timestamps, Wrappers \* types the checksummer has renderers for

ASSUME AnyAssumption == AnyHasTexts

C == INSTANCE Checksummer WITH
       message <- Data, parentTags <- <<>>, maxDepth <- -1, call <- "none",
       phase <- sumPhase, pos <- sumPos, stack <- sumStack, Inputs <- {}, MaxDepths <- {-1}

scrubber == <<message, config, phase, outer, pos, stack, path, copies, sum, written, output>>

\* CalculateSingleFieldChecksum() of the field, or the value, the scrubber is at,
\* and CalculateChecksum() of the value of an Any, which is a copy of these bytes.
CallChecksummer ==
  /\ phase = "sum" /\ UNCHANGED scrubber
  /\ LET end == Top.value.start + Top.value.length
     IN  IF Top.kind = "any"
         THEN C!Start("message", TypeNamed(Url), end - Len(Top.value.bytes), end)
         ELSE C!Start("single", Top.type, pos, Top.limit)

ChecksummerStep == phase = "sum" /\ UNCHANGED scrubber /\ C!Running

Answered ==
  /\ phase = "sum" /\ sumPhase \in {"ok", "error"}
  /\ sumPhase' = "idle" /\ sumPos' = 0 /\ sumStack' = <<>>
  /\ checksum' = {} /\ next' = 0 /\ position' = 0

\* ScanField() goes on with the tag the checksummer has read.
FieldSummed ==
  /\ Answered /\ sumPhase = "ok" /\ Top.kind = "message"
  /\ phase' = "scan" /\ sum' = Xor(sum, checksum) /\ pos' = position
  /\ UNCHANGED <<stack, path, copies, tags>> /\ Staying

\* ScanMapEntry() reads the tag after that one: what the checksummer has read is
\* lost to it.
ValueSummed ==
  /\ Answered /\ sumPhase = "ok" /\ Top.kind = "entry"
  /\ phase' = "scan" /\ sum' = Xor(sum, checksum) /\ pos' = sumPos
  /\ UNCHANGED <<stack, path, copies, tags>> /\ Staying

AnySummed ==
  /\ Answered /\ sumPhase = "ok" /\ Top.kind = "any"
  /\ phase' = "scan" /\ DropAny(Xor(sum, checksum), PopBack(tags)) /\ Staying

\* What cannot be summed is not scrubbed.
SumError == Answered /\ sumPhase = "error" /\ Abort /\ UNCHANGED message

Summing ==
  CallChecksummer \/ ChecksummerStep \/ FieldSummed \/ ValueSummed \/ AnySummed \/ SumError

SumNext == Next \/ Summing

\* A call that has started runs to its end.
SumSpec == Init /\ [][SumNext]_vars /\ WF_vars(Running \/ Summing)

-------------------------------------------------------------------------------
(* parent_tags                                                                 *)

\* A call counts with the tag it was made for; a packed enum as unpacked.
CountedTag(frame) == IF frame.kind = "packed" THEN frame.tag - LengthDelimited ELSE frame.tag

TagsOf(frames) == [i \in 1..(Len(frames) - 1) |-> CountedTag(frames[i + 1])]

\* A scrubber that waits for that of the value of an Any hands it the tags of its
\* calls, and that of the value.
TagsHanded(waiting) == Append(TagsOf(waiting.stack), Back(waiting.stack).value.tag)

TagsAround(scrubbers) ==
  LET around[n \in 0..Len(scrubbers)] ==
        IF n = 0 THEN <<>> ELSE around[n - 1] \o TagsHanded(scrubbers[n])
  IN  around[Len(scrubbers)]

\* The tags that what is left out is summed with are those of the calls in progress,
\* those around the scrubber of an Any included; without a checksum there are none.
TagsFollowCalls ==
  phase \in {"scan", "copy"} =>
    tags = IF summing THEN TagsAround(outer) \o TagsOf(stack) ELSE <<>>
===============================================================================
