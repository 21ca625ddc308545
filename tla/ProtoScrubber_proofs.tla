------------------------- MODULE ProtoScrubber_proofs -------------------------
(***************************************************************************)
(* The caller's message is changed only by a call that ends well and was   *)
(* asked for more than a check; and the length of a nested message is      *)
(* written into its own TagCopy.  Both whatever the checkers say and the   *)
(* messages are, and whether the scrubber sums what it leaves out or not.  *)
(***************************************************************************)
EXTENDS ScrubCalls_proofs

-------------------------------------------------------------------------------
(* The message                                                                 *)

\* The inductive invariant: only a call that is to write the message copies.
CopiesToWrite == phase = "copy" => ~checkOnly

\* A step may write the message, at the end of a call.
MayWrite == message' # message => phase' = "ok" /\ ~checkOnly

\* Most steps touch neither the message nor what was asked for, and begin no copy.
Quiet ==
  /\ message' = message /\ checkOnly' = checkOnly
  /\ phase' = "copy" => phase = "copy"

\* A quiet step keeps the invariant and the message.
LEMMA QuietSteps ==
  ASSUME CopiesToWrite, Quiet
  PROVE  CopiesToWrite' /\ MayWrite
BY DEF CopiesToWrite, Quiet, MayWrite

\* An error leaves the message alone, at any depth of the calls.
LEMMA FailQuiet == Fail => Quiet
BY DEF Fail, Abort, Quiet, config

\* ScanField(): all but the end of the whole scan.
LEMMA ScanFieldQuiet == ScanFieldStep /\ ~EndRoot => Quiet
<1> USE DEF Scanning, Staying, config, Quiet
<1>1. ExcludeField => Quiet BY DEF ExcludeField
<1>2. AskForField => Quiet BY DEF AskForField
<1>3. ExcludeFieldError => Quiet BY FailQuiet DEF ExcludeFieldError
<1>4. IncludeField => Quiet BY DEF IncludeField
<1>5. UnknownPartialError => Quiet BY FailQuiet DEF UnknownPartialError
<1>6. NotConsumedError => Quiet BY FailQuiet DEF NotConsumedError
<1>7. EndMessage => Quiet BY DEF EndMessage
<1> QED BY <1>1, <1>2, <1>3, <1>4, <1>5, <1>6, <1>7 DEF ScanFieldStep

\* ScanMapEntry().
LEMMA ScanMapEntryQuiet == ScanMapEntryStep => Quiet
<1> USE DEF Scanning, Staying, config, Quiet
<1>1. EntryKey => Quiet BY DEF EntryKey
<1>2. ExcludeValue => Quiet BY DEF ExcludeValue
<1>3. AskForValue => Quiet BY DEF AskForValue
<1>4. ExcludeValueError => Quiet BY FailQuiet DEF ExcludeValueError
<1>5. IncludeValue => Quiet BY DEF IncludeValue
<1>6. OtherEntryField => Quiet BY DEF OtherEntryField
<1>7. EndEntry => Quiet BY DEF EndEntry
<1>8. EndEntryEarly => Quiet BY DEF EndEntryEarly
<1> QED BY <1>1, <1>2, <1>3, <1>4, <1>5, <1>6, <1>7, <1>8 DEF ScanMapEntryStep

\* The nested scrubber of an Any works on a copy: it ends in its caller's scan.
LEMMA AnyScrubbedQuiet == \A value : AnyScrubbed(value) => Quiet
BY DEF AnyScrubbed, Quiet, config

\* ScanAnyField().
LEMMA ScanAnyQuiet == ScanAnyStep => Quiet
<1> USE DEF Scanning, Staying, config, Quiet
<1>1. EnterAny => Quiet BY DEF EnterAny, Enter
<1>2. AnyField => Quiet BY DEF AnyField
<1>3. IncludeAny => Quiet BY DEF IncludeAny
<1>4. ExcludeAny => Quiet BY DEF ExcludeAny
<1>5. AskForAny => Quiet BY DEF AskForAny
<1>6. ExcludeAnyError => Quiet BY FailQuiet DEF ExcludeAnyError
<1>7. ScrubAny => Quiet BY DEF ScrubAny
<1>8. EndRootOfAny => Quiet BY AnyScrubbedQuiet DEF EndRootOfAny
<1>9. ReplaceInAny => Quiet BY AnyScrubbedQuiet DEF ReplaceInAny
<1>10. DropEmptyAny => Quiet BY DEF DropEmptyAny
<1>11. KeepAny => Quiet BY DEF KeepAny
<1> QED BY <1>1, <1>2, <1>3, <1>4, <1>5, <1>6, <1>7, <1>8, <1>9, <1>10, <1>11 DEF ScanAnyStep

\* ScanChildField() and the loop over a packed enum.
LEMMA ScanChildQuiet == ScanChildStep => Quiet
<1> USE DEF Scanning, Staying, config, Quiet
<1>1. EnterMessage => Quiet BY DEF EnterMessage, Enter
<1>2. EnterMap => Quiet BY DEF EnterMap, Enter
<1>3. UntypedChildError => Quiet BY FailQuiet DEF UntypedChildError
<1>4. EnterPacked => Quiet BY DEF EnterPacked, Enter
<1>5. EnumValue => Quiet BY DEF EnumValue
<1>6. EnumValueError => Quiet BY FailQuiet DEF EnumValueError
<1>7. PackedValue => Quiet BY DEF PackedValue
<1>8. EndPacked => Quiet BY DEF EndPacked
<1> QED BY <1>1, <1>2, <1>3, <1>4, <1>5, <1>6, <1>7, <1>8 DEF ScanChildStep

\* A segment that is not there ends the copying, and the message stays.
LEMMA CopyQuiet == CopyNext => Quiet
<1>1. ASSUME NEW c, Copy(c) PROVE Quiet
  <2>1. CASE c.copy > 0 /\ Len(Data) < c.start + c.copy
    BY <1>1, <2>1, FailQuiet DEF Copy
  <2>2. CASE ~(c.copy > 0 /\ Len(Data) < c.start + c.copy)
    BY <1>1, <2>2 DEF Copy, Quiet, config
  <2> QED BY <2>1, <2>2
<1> QED BY <1>1 DEF CopyNext

\* The calls of the checksummer, whose steps change its own state only.
LEMMA SummingQuiet == Summing => Quiet
<1> USE DEF Staying, config, Quiet
<1>1. CallChecksummer => Quiet BY DEF CallChecksummer, scrubber
<1>2. ChecksummerStep => Quiet BY DEF ChecksummerStep, scrubber
<1>3. FieldSummed => Quiet BY DEF FieldSummed
<1>4. ValueSummed => Quiet BY DEF ValueSummed
<1>5. AnySummed => Quiet BY DEF AnySummed
<1>6. SumError => Quiet BY DEF SumError, Abort
<1> QED BY <1>1, <1>2, <1>3, <1>4, <1>5, <1>6 DEF Summing

\* Of the steps that are not quiet, a call begins with a scan, the end of a scan
\* that is not only a check begins the copying, and the end of the copying writes.
LEMMA StepKeeps ==
  ASSUME CopiesToWrite, [SumNext]_vars
  PROVE  CopiesToWrite' /\ MayWrite
<1> USE DEF CopiesToWrite, MayWrite
<1>1. CASE Scrub BY <1>1 DEF Scrub
<1>2. ASSUME NEW c \in Filters, AddFieldFilter(c) PROVE CopiesToWrite' /\ MayWrite
  BY <1>2 DEF AddFieldFilter
<1>3. CASE EndRoot BY <1>3 DEF EndRoot, Staying, config
<1>4. CASE Replace BY <1>4 DEF Replace, Copied, config
<1>5. CASE Quiet BY <1>5, QuietSteps
<1>6. CASE UNCHANGED vars BY <1>6 DEF vars, config
<1>7. CASE Running
  <2>1. CASE ScanFieldStep BY <2>1, <1>3, <1>5, ScanFieldQuiet
  <2>2. CASE ~ScanFieldStep
    BY <2>2, <1>7, <1>4, <1>5, ScanMapEntryQuiet, ScanAnyQuiet, ScanChildQuiet, CopyQuiet
       DEF Running
  <2> QED BY <2>1, <2>2
<1> QED BY <1>1, <1>2, <1>5, <1>6, <1>7, SummingQuiet DEF SumNext, Next

\* A scrubber that is asked for sums keeps the message intact when it fails, and
\* when it only checks.
THEOREM SumKeepsIntact == SumSpec => KeptIntact
<1>1. Init => CopiesToWrite BY DEF Init, CopiesToWrite
<1>2. CopiesToWrite /\ [SumNext]_vars => CopiesToWrite' /\ [MayWrite]_vars
  BY StepKeeps
<1> QED BY <1>1, <1>2, PTL DEF SumSpec, KeptIntact, MayWrite

\* The same for a scrubber by itself.
THEOREM ScrubKeepsIntact == Spec => KeptIntact
<1>1. Init => CopiesToWrite BY DEF Init, CopiesToWrite
<1>2. CopiesToWrite /\ [Next]_vars => CopiesToWrite' /\ [MayWrite]_vars
  BY StepKeeps DEF SumNext
<1> QED BY <1>1, <1>2, PTL DEF Spec, KeptIntact, MayWrite

-------------------------------------------------------------------------------
(* Lists of TagCopy                                                            *)

IsTagCopy(c) == DOMAIN c = {"tag", "length", "start", "copy", "message"}
TagCopies(l) == Sequence(l) /\ \A i \in 1..Len(l) : IsTagCopy(l[i])

\* The first n of the list still have their tags.
Keeps(list, l, n) ==
  TagCopies(l) /\ n <= Len(l) /\ \A i \in 1..n : l[i].tag = list[i].tag

\* What is kept by one change and by the next is kept by both.
LEMMA KeepsMore ==
  ASSUME NEW list, NEW l, NEW m, NEW j \in Int, NEW k \in Int, NEW n \in Int,
         Keeps(list, l, j), Keeps(l, m, k), n <= j, n <= k
  PROVE  Keeps(list, m, n)
<1>1. Len(m) \in Nat BY SequenceLen DEF Keeps, TagCopies
<1> QED BY <1>1 DEF Keeps

\* What is kept of more is kept of less.
LEMMA KeepsLess ==
  ASSUME NEW list, NEW l, NEW k \in Int, NEW n \in Int, Keeps(list, l, k), n <= k
  PROVE  Keeps(list, l, n)
<1>1. Len(l) \in Nat BY SequenceLen DEF Keeps, TagCopies
<1> QED BY <1>1 DEF Keeps

\* An element may change but for its tag.
LEMMA SetKeeps ==
  ASSUME NEW list, TagCopies(list), NEW k \in 1..Len(list), NEW c, IsTagCopy(c),
         c.tag = list[k].tag
  PROVE  Keeps(list, [list EXCEPT ![k] = c], Len(list)) /\ Len([list EXCEPT ![k] = c]) = Len(list)
<1> DEFINE l == [list EXCEPT ![k] = c]
<1>1. /\ Sequence(l) /\ Len(l) = Len(list) /\ l[k] = c
      /\ \A i \in 1..Len(list) : i # k => l[i] = list[i]
  BY SequenceExcept DEF TagCopies
<1>2. Len(list) \in Nat BY SequenceLen DEF TagCopies
<1> HIDE DEF l
<1>3. \A i \in 1..Len(l) : IsTagCopy(l[i]) /\ l[i].tag = list[i].tag BY <1>1 DEF TagCopies
<1> QED BY <1>1, <1>2, <1>3 DEF Keeps, TagCopies, l

\* Writing a length leaves the tags alone.
LEMMA SetLengthKeeps ==
  ASSUME NEW list, TagCopies(list), NEW k \in 1..Len(list), NEW n
  PROVE  Keeps(list, [list EXCEPT ![k].length = n], Len(list))
<1> DEFINE c == [list[k] EXCEPT !.length = n]
<1>1. IsTagCopy(c) /\ c.tag = list[k].tag BY DEF TagCopies, IsTagCopy
<1>2. [list EXCEPT ![k].length = n] = [list EXCEPT ![k] = c] OBVIOUS
<1> HIDE DEF c
<1> QED BY <1>1, <1>2, SetKeeps

\* The last copied segment gets longer or shorter.
LEMMA SetCopyKeeps ==
  ASSUME NEW list, TagCopies(list), list # <<>>, NEW n
  PROVE  LET l == SetBack(list, [Back(list) EXCEPT !.copy = n])
         IN  Keeps(list, l, Len(list)) /\ Len(l) = Len(list)
<1> DEFINE c == [Back(list) EXCEPT !.copy = n]
<1>1. Len(list) \in 1..Len(list) BY SequenceLen DEF TagCopies
<1>2. IsTagCopy(c) /\ c.tag = list[Len(list)].tag BY <1>1 DEF TagCopies, IsTagCopy, Back
<1> HIDE DEF c
<1>3. Keeps(list, SetBack(list, c), Len(list)) /\ Len(SetBack(list, c)) = Len(list)
  BY <1>1, <1>2, SetKeeps DEF SetBack
<1> QED BY <1>3 DEF c

\* The list is cut.
LEMMA PrefixKeeps ==
  ASSUME NEW list, TagCopies(list), NEW n \in 0..Len(list)
  PROVE  Keeps(list, SubSeq(list, 1, n), n) /\ Len(SubSeq(list, 1, n)) = n
<1>1. /\ Sequence(SubSeq(list, 1, n)) /\ Len(SubSeq(list, 1, n)) = n
      /\ \A i \in 1..n : SubSeq(list, 1, n)[i] = list[i]
  BY SequencePrefix DEF TagCopies
<1>2. Len(list) \in Nat BY SequenceLen DEF TagCopies
<1> QED BY <1>1, <1>2 DEF Keeps, TagCopies

\* One TagCopy is appended.
LEMMA AppendKeeps ==
  ASSUME NEW list, TagCopies(list), NEW c, IsTagCopy(c)
  PROVE  Keeps(list, Append(list, c), Len(list)) /\ Len(Append(list, c)) = Len(list) + 1
         /\ Append(list, c)[Len(list) + 1] = c
<1>1. /\ Sequence(Append(list, c)) /\ Len(Append(list, c)) = Len(list) + 1
      /\ Append(list, c)[Len(list) + 1] = c
      /\ \A i \in 1..Len(list) : Append(list, c)[i] = list[i]
  BY SequenceAppend DEF TagCopies
<1>2. Len(list) \in Nat BY SequenceLen DEF TagCopies
<1>3. \A i \in 1..(Len(list) + 1) : IsTagCopy(Append(list, c)[i]) BY <1>1, <1>2 DEF TagCopies
<1> QED BY <1>1, <1>2, <1>3 DEF Keeps, TagCopies

\* Several are appended.
LEMMA ConcatKeeps ==
  ASSUME NEW list, TagCopies(list), NEW new, TagCopies(new)
  PROVE  Keeps(list, list \o new, Len(list))
<1> DEFINE l == list \o new
<1>1. /\ Sequence(l) /\ Len(l) = Len(list) + Len(new)
      /\ \A i \in 1..Len(list) : l[i] = list[i]
      /\ \A i \in 1..Len(new) : l[Len(list) + i] = new[i]
  BY SequenceConcat DEF TagCopies
<1>2. Len(list) \in Nat /\ Len(new) \in Nat BY SequenceLen DEF TagCopies
<1> HIDE DEF l
<1>3. ASSUME NEW i \in 1..Len(l) PROVE IsTagCopy(l[i])
  <2>1. CASE i \in 1..Len(list) BY <1>1, <2>1 DEF TagCopies
  <2>2. CASE i \notin 1..Len(list)
    <3>1. i - Len(list) \in 1..Len(new) /\ Len(list) + (i - Len(list)) = i BY <1>1, <1>2, <2>2
    <3> QED BY <1>1, <3>1 DEF TagCopies
  <2> QED BY <2>1, <2>2
<1> QED BY <1>1, <1>2, <1>3 DEF Keeps, TagCopies, l

\* What the lists are made of.
LEMMA NewTagCopies ==
  ASSUME NEW tag, NEW n, NEW start
  PROVE  /\ IsTagCopy(Inserting(tag, n)) /\ Inserting(tag, n).tag = <<tag>>
         /\ IsTagCopy(Copying(start, n)) /\ \A value : IsTagCopy(Scrubbed(tag, value))
BY DEF IsTagCopy, Inserting, Copying, Scrubbed

\* A segment is rolled into the last one, or is appended.
LEMMA RollKeeps ==
  ASSUME NEW list, TagCopies(list), NEW start, NEW n
  PROVE  LET l == AddTagCopyOrRollToPrevious(list, start, n)
         IN  /\ Keeps(list, l, Len(list))
             /\ Len(l) = IF Rolls(list, start, n) THEN Len(list) ELSE Len(list) + 1
<1>1. CASE Continues(list, start)
  BY <1>1, SetCopyKeeps DEF AddTagCopyOrRollToPrevious, Rolls, Continues
<1>2. CASE ~Continues(list, start) /\ Repeats(list, start, n)
  <2>1. Len(list) \in Nat BY SequenceLen DEF TagCopies
  <2> QED BY <1>2, <2>1 DEF AddTagCopyOrRollToPrevious, Rolls, Keeps
<1>3. CASE ~Rolls(list, start, n)
  BY <1>3, AppendKeeps, NewTagCopies DEF AddTagCopyOrRollToPrevious, Rolls
<1> QED BY <1>1, <1>2, <1>3 DEF Rolls

-------------------------------------------------------------------------------
(* The calls in progress, and the list they add to                             *)

\* What a call must find when it goes on: all up to its own TagCopy, and the value
\* that a map entry has added.
Floor(f) == f.index + (IF f.kind = "entry" /\ f.key.added THEN 1 ELSE 0)

\* Where the list of the caller c ended when it made the call f, and where f begins:
\* between the two is the key of a map entry, unless it was rolled into a TagCopy.
Begin(f) == f.index - (IF HasTagCopy(f) THEN 1 ELSE 0)
Base(c, f) == Begin(f) - (IF c.kind = "entry" /\ ~c.key.rolled THEN 1 ELSE 0)

Listed(st, list) ==
  /\ TagCopies(list)
  /\ \A i \in 1..Len(st) : st[i].index \in Nat /\ Floor(st[i]) <= Len(list)
  /\ \A j \in 2..Len(st) : \A i \in 1..(j - 1) : Floor(st[i]) <= Base(st[j - 1], st[j])
  /\ \A i \in 2..Len(st) : HasTagCopy(st[i]) => list[st[i].index].tag = <<st[i].tag>>

\* A frame goes on, and has added no value.
Grown(f, g) == Alike(f, g) /\ g.index = f.index /\ g.key.added = f.key.added

\* The ends of a call are counted in integers.
LEMMA FloorBase ==
  ASSUME NEW f, f.index \in Nat
  PROVE  /\ Floor(f) \in Nat /\ f.index <= Floor(f) /\ Floor(f) <= f.index + 1
         /\ Begin(f) \in Int /\ Begin(f) <= f.index /\ f.index <= Begin(f) + 1
         /\ \A c : Base(c, f) \in Int /\ Base(c, f) <= Begin(f)
BY DEF Floor, Begin, Base

\* An inner call begins where the calls around it have their parts of the list.
LEMMA ListedOrder ==
  ASSUME NEW st, NEW list, Calls(st), Listed(st, list),
         NEW j \in 2..Len(st), NEW i \in 1..(j - 1)
  PROVE  /\ st[i].index \in Nat /\ Floor(st[i]) \in Nat /\ st[i].index <= Floor(st[i])
         /\ Base(st[j - 1], st[j]) \in Int /\ Floor(st[i]) <= Base(st[j - 1], st[j])
         /\ st[j].index \in Nat /\ Base(st[j - 1], st[j]) <= st[j].index
         /\ HasTagCopy(st[j]) => st[i].index < st[j].index
<1>1. Len(st) \in Nat BY SequenceLen DEF Calls
<1>2. i \in 1..Len(st) /\ j \in 1..Len(st) BY <1>1
<1>3. st[i].index \in Nat /\ st[j].index \in Nat BY <1>2 DEF Listed
<1>4. Floor(st[i]) \in Nat /\ st[i].index <= Floor(st[i]) BY <1>3, FloorBase
<1>5. /\ Begin(st[j]) \in Int /\ Begin(st[j]) <= st[j].index /\ Base(st[j - 1], st[j]) \in Int
      /\ Base(st[j - 1], st[j]) <= Begin(st[j])
  BY <1>3, FloorBase
<1>6. Floor(st[i]) <= Base(st[j - 1], st[j]) BY DEF Listed
<1>7. HasTagCopy(st[j]) => Begin(st[j]) = st[j].index - 1 BY DEF Begin
<1> QED BY <1>3, <1>4, <1>5, <1>6, <1>7

\* What is known of the innermost call; a map entry has a TagCopy.
LEMMA ListedTop ==
  ASSUME NEW st, NEW list, Calls(st), Listed(st, list)
  PROVE  /\ Len(st) \in Nat /\ Len(st) >= 1 /\ IsFrame(Back(st)) /\ Back(st) = st[Len(st)]
         /\ Back(st).index \in Nat /\ Back(st).index <= Len(list)
         /\ Floor(Back(st)) \in Nat /\ Back(st).index <= Floor(Back(st))
         /\ Floor(Back(st)) <= Len(list) /\ Len(list) \in Nat
         /\ (HasTagCopy(Back(st)) /\ Len(st) > 1) \/ Back(st).kind = "entry"
              => Back(st).index \in 1..Len(list)
<1>1. Len(st) \in Nat /\ Len(st) >= 1 /\ IsFrame(Back(st)) BY CallsBack
<1>2. Len(list) \in Nat BY SequenceLen DEF Listed, TagCopies
<1>3. Back(st) = st[Len(st)] /\ Len(st) \in 1..Len(st) BY <1>1 DEF Back
<1>4. Back(st).index \in Nat /\ Floor(Back(st)) <= Len(list) BY <1>3 DEF Listed
<1>5. Floor(Back(st)) \in Nat /\ Back(st).index <= Floor(Back(st)) BY <1>4, FloorBase
<1>6. ASSUME HasTagCopy(Back(st)), Len(st) > 1 PROVE Back(st).index >= 1
  <2>1. Len(st) \in 2..Len(st) /\ 1 \in 1..(Len(st) - 1) BY <1>1, <1>6
  <2>2. st[1].index \in Nat /\ (HasTagCopy(st[Len(st)]) => st[1].index < st[Len(st)].index)
    BY <2>1, ListedOrder
  <2> QED BY <1>3, <1>4, <1>6, <2>2
<1>7. Back(st).kind = "entry" => HasTagCopy(Back(st)) /\ Len(st) > 1
  BY <1>1, InnerCall DEF HasTagCopy
<1> QED BY <1>1, <1>2, <1>3, <1>4, <1>5, <1>6, <1>7

\* The innermost call goes on and leaves what is before its own part of the list.
LEMMA ListedOn ==
  ASSUME NEW st, NEW list, Calls(st), Listed(st, list), NEW f, Alike(Back(st), f),
         f.index = Back(st).index, NEW l, Keeps(list, l, Back(st).index), Floor(f) <= Len(l)
  PROVE  Listed(SetBack(st, f), l)
<1> DEFINE t == SetBack(st, f)
           n == Len(st)
<1>1. /\ n \in Nat /\ n >= 1 /\ Back(st) = st[n] /\ Back(st).index \in Nat /\ Len(t) = n
      /\ t[n] = f /\ \A i \in 1..(n - 1) : t[i] = st[i]
  BY ListedTop, CallsBack DEF Back
<1> HIDE DEF t
<1>2. TagCopies(l) /\ Back(st).index <= Len(l) /\ Len(l) \in Nat
  BY SequenceLen DEF Keeps, TagCopies
<1>3. HasTagCopy(f) = HasTagCopy(st[n]) /\ f.index = st[n].index /\ f.tag = st[n].tag
  BY <1>1 DEF HasTagCopy, Alike
<1>4. \A c : Base(c, f) = Base(c, st[n]) BY <1>3 DEF Base, Begin
<1>5. \A i \in 1..n : i # n => i \in 1..(n - 1) /\ n \in 2..n BY <1>1
<1>6. ASSUME NEW j \in 2..n, NEW i \in 1..(j - 1) PROVE Floor(t[i]) <= Base(t[j - 1], t[j])
  <2>1. Floor(st[i]) <= Base(st[j - 1], st[j]) BY <1>6, ListedOrder
  <2>2. t[i] = st[i] /\ t[j - 1] = st[j - 1] BY <1>1
  <2>3. CASE j = n BY <1>1, <1>4, <2>1, <2>2, <2>3
  <2>4. CASE j # n
    <3>1. t[j] = st[j] BY <1>1, <1>5, <2>4
    <3> QED BY <2>1, <2>2, <3>1
  <2> QED BY <2>3, <2>4
<1>7. ASSUME NEW i \in 1..n PROVE t[i].index \in Nat /\ Floor(t[i]) <= Len(l)
  <2>1. CASE i = n BY <1>1, <1>3, <2>1
  <2>2. CASE i # n
    <3>1. /\ st[i].index \in Nat /\ Floor(st[i]) \in Nat /\ Base(st[n - 1], st[n]) \in Int
          /\ Floor(st[i]) <= Base(st[n - 1], st[n]) /\ Base(st[n - 1], st[n]) <= st[n].index
      BY <1>5, <2>2, ListedOrder
    <3>2. t[i] = st[i] BY <1>1, <1>5, <2>2
    <3> QED BY <1>1, <1>2, <3>1, <3>2
  <2> QED BY <2>1, <2>2
<1>8. ASSUME NEW i \in 2..n, HasTagCopy(t[i]) PROVE l[t[i].index].tag = <<t[i].tag>>
  <2>1. i \in 1..n /\ 1 \in 1..(i - 1) BY <1>1
  <2>2. t[i].index = st[i].index /\ t[i].tag = st[i].tag /\ HasTagCopy(st[i])
    <3>1. CASE i = n BY <1>1, <1>3, <1>8, <3>1
    <3>2. CASE i # n BY <1>1, <1>5, <1>8, <2>1, <3>2
    <3> QED BY <3>1, <3>2
  <2>3. list[st[i].index].tag = <<st[i].tag>> BY <2>2 DEF Listed
  <2>4. st[i].index \in Nat /\ st[i].index >= 1 BY <2>1, <2>2, ListedOrder
  <2>5. st[i].index <= st[n].index
    <3>1. CASE i = n BY <2>4, <3>1
    <3>2. CASE i # n
      <4>1. /\ st[i].index <= Floor(st[i]) /\ Floor(st[i]) <= Base(st[n - 1], st[n])
            /\ Base(st[n - 1], st[n]) <= st[n].index
            /\ Floor(st[i]) \in Nat /\ Base(st[n - 1], st[n]) \in Int
        BY <1>5, <2>1, <3>2, ListedOrder
      <4> QED BY <1>1, <2>4, <4>1
    <3> QED BY <3>1, <3>2
  <2>6. st[i].index \in 1..Back(st).index BY <1>1, <2>4, <2>5
  <2> QED BY <2>2, <2>3, <2>6 DEF Keeps
<1> QED BY <1>1, <1>2, <1>6, <1>7, <1>8 DEF Listed, t

\* A call is made, which begins behind what the list has.
LEMMA ListedCall ==
  ASSUME NEW st, NEW list, Calls(st), Listed(st, list), NEW g, Grown(Back(st), g),
         NEW f, IsFrame(f), ~f.key.added, NEW l, Keeps(list, l, Len(list)),
         f.index \in Nat, f.index <= Len(l), Len(list) <= Base(g, f),
         HasTagCopy(f) => l[f.index].tag = <<f.tag>>
  PROVE  Listed(Append(SetBack(st, g), f), l)
<1> DEFINE s == SetBack(st, g)
           t == Append(s, f)
           n == Len(st)
<1>1. /\ n \in Nat /\ n >= 1 /\ Len(list) \in Nat /\ Back(st) = st[n] /\ Back(st).index \in Nat
      /\ Back(st).index <= Len(list) /\ Floor(Back(st)) <= Len(list)
  BY ListedTop
<1>2. Alike(Back(st), g) /\ g.index = Back(st).index /\ Floor(g) = Floor(Back(st))
  <2>1. g.kind = "entry" <=> Back(st).kind = "entry" BY DEF Grown, Alike
  <2> QED BY <2>1 DEF Grown, Floor
<1>3. TagCopies(l) /\ Len(l) \in Nat /\ Len(list) <= Len(l)
  BY SequenceLen DEF Keeps, TagCopies
<1>4. Keeps(list, l, Back(st).index) BY <1>1, KeepsLess
<1>5. Floor(g) <= Len(l) BY <1>1, <1>2, <1>3, FloorBase
<1>6. Calls(s) /\ Len(s) = n /\ Back(s) = g BY <1>2, CallsBack
<1>7. Listed(s, l) BY <1>2, <1>4, <1>5, ListedOn
<1>8. Listed(s, list)
  <2>1. Keeps(list, list, Back(st).index) BY <1>1 DEF Keeps, Listed
  <2> QED BY <1>1, <1>2, <2>1, ListedOn
<1> HIDE DEF s
<1>9. Len(t) = n + 1 /\ t[n + 1] = f /\ s[n] = g /\ \A i \in 1..n : t[i] = s[i]
  BY <1>6, CallsAppend DEF Back
<1> HIDE DEF t, n
<1>10. Floor(f) = f.index BY DEF Floor
<1>11. \A i \in 1..(n + 1) : i # n + 1 => i \in 1..n BY <1>1
<1>12. ASSUME NEW i \in 1..(n + 1) PROVE t[i].index \in Nat /\ Floor(t[i]) <= Len(l)
  <2>1. CASE i = n + 1 BY <1>9, <1>10, <2>1
  <2>2. CASE i # n + 1 BY <1>6, <1>7, <1>9, <1>11, <2>2 DEF Listed
  <2> QED BY <2>1, <2>2
<1>13. ASSUME NEW j \in 2..(n + 1), NEW i \in 1..(j - 1)
       PROVE  Floor(t[i]) <= Base(t[j - 1], t[j])
  <2>1. i \in 1..n /\ j - 1 \in 1..n BY <1>1
  <2>2. t[i] = s[i] /\ t[j - 1] = s[j - 1] BY <1>9, <2>1
  <2>3. CASE j = n + 1
    <3>1. j - 1 = n BY <1>1, <2>3
    <3>2. t[j - 1] = g /\ t[j] = f BY <1>9, <2>2, <2>3, <3>1
    <3>3. s[i].index \in Nat /\ Floor(s[i]) <= Len(list) BY <1>6, <1>8, <2>1 DEF Listed
    <3>4. Floor(s[i]) \in Nat /\ Base(g, f) \in Int BY <3>3, FloorBase
    <3> QED BY <1>1, <2>2, <3>2, <3>3, <3>4
  <2>4. CASE j # n + 1
    <3>1. j \in 2..n /\ j \in 1..n BY <1>1, <2>4
    <3>2. Floor(s[i]) <= Base(s[j - 1], s[j]) BY <1>6, <1>7, <3>1 DEF Listed
    <3>3. t[j] = s[j] BY <1>9, <3>1
    <3> QED BY <2>2, <3>2, <3>3
  <2> QED BY <2>3, <2>4
<1>14. ASSUME NEW i \in 2..(n + 1), HasTagCopy(t[i]) PROVE l[t[i].index].tag = <<t[i].tag>>
  <2>1. CASE i = n + 1 BY <1>9, <1>14, <2>1
  <2>2. CASE i # n + 1
    <3>1. i \in 2..n /\ i \in 1..n BY <1>1, <2>2
    <3>2. t[i] = s[i] BY <1>9, <3>1
    <3> QED BY <1>6, <1>7, <1>14, <3>1, <3>2 DEF Listed
  <2> QED BY <2>1, <2>2
<1> QED BY <1>3, <1>9, <1>12, <1>13, <1>14 DEF Listed, t, s

\* A call returns, and has taken back no more than it and its caller's key have added.
LEMMA ListedReturn ==
  ASSUME NEW st, NEW list, Calls(st), Listed(st, list), Len(st) > 1,
         NEW f, Grown(Back(PopBack(st)), f), NEW l,
         Keeps(list, l, Base(Back(PopBack(st)), Back(st)))
  PROVE  Listed(SetBack(PopBack(st), f), l)
<1> DEFINE t == PopBack(st)
           n == Len(st) - 1
           b == Base(st[n], st[n + 1])
<1>1. /\ Len(st) \in Nat /\ Calls(t) /\ Len(t) = n /\ n \in Nat /\ n >= 1
      /\ \A i \in 1..n : t[i] = st[i]
  BY CallsPop, CallsBack
<1>2. Back(t) = st[n] /\ Back(st) = st[n + 1] BY <1>1 DEF Back
<1> HIDE DEF t, n
<1>3. n + 1 \in 2..Len(st) /\ n + 1 - 1 = n /\ Len(st) = n + 1 BY <1>1 DEF n
<1>4. \A i \in 1..n : /\ st[i].index \in Nat /\ Floor(st[i]) \in Nat /\ b \in Int
                      /\ st[i].index <= Floor(st[i]) /\ Floor(st[i]) <= b
  <2>1. ASSUME NEW j, j = n + 1, NEW i \in 1..n
        PROVE  /\ st[i].index \in Nat /\ Floor(st[i]) \in Nat /\ b \in Int
               /\ st[i].index <= Floor(st[i]) /\ Floor(st[i]) <= b
    <3>1. j \in 2..Len(st) /\ j - 1 = n BY <1>1, <1>3, <2>1
    <3>2. b = Base(st[j - 1], st[j]) BY <2>1, <3>1
    <3>3. i \in 1..(j - 1) BY <3>1
    <3> HIDE DEF b
    <3> QED BY <3>1, <3>2, <3>3, ListedOrder
  <2> QED BY <2>1
<1>5. TagCopies(l) /\ b <= Len(l) /\ Len(l) \in Nat /\ \A i \in 1..b : l[i].tag = list[i].tag
  BY <1>2, SequenceLen DEF Keeps, TagCopies, t
<1> HIDE DEF b
<1>6. Listed(t, l)
  <2>1. ASSUME NEW i \in 1..n PROVE t[i].index \in Nat /\ Floor(t[i]) <= Len(l)
    <3>1. t[i] = st[i] BY <1>1
    <3>2. st[i].index \in Nat /\ Floor(st[i]) \in Nat /\ b \in Int /\ Floor(st[i]) <= b
      BY <1>4
    <3>3. b <= Len(l) /\ Len(l) \in Nat BY <1>5
    <3> QED BY <3>1, <3>2, <3>3
  <2>2. ASSUME NEW j \in 2..n, NEW i \in 1..(j - 1) PROVE Floor(t[i]) <= Base(t[j - 1], t[j])
    <3>1. j \in 2..Len(st) /\ i \in 1..n /\ j - 1 \in 1..n /\ j \in 1..n BY <1>1, <1>3
    <3>2. Floor(st[i]) <= Base(st[j - 1], st[j]) BY <3>1, ListedOrder
    <3> QED BY <1>1, <3>1, <3>2
  <2>3. ASSUME NEW i \in 2..n, HasTagCopy(t[i]) PROVE l[t[i].index].tag = <<t[i].tag>>
    <3>1. i \in 2..Len(st) /\ i \in 1..n /\ 1 \in 1..(i - 1) BY <1>1, <1>3
    <3>2. t[i] = st[i] /\ list[st[i].index].tag = <<st[i].tag>>
      BY <1>1, <2>3, <3>1 DEF Listed
    <3>3. st[i].index > st[1].index /\ st[1].index \in Nat /\ st[i].index \in Nat
      BY <2>3, <3>1, <3>2, ListedOrder
    <3>4. st[i].index <= b
      <4>1. /\ Floor(st[i]) \in Nat /\ b \in Int /\ st[i].index <= Floor(st[i])
            /\ Floor(st[i]) <= b
        BY <1>4, <3>1
      <4> QED BY <3>3, <4>1
    <3>5. st[i].index \in 1..b BY <3>3, <3>4
    <3> QED BY <1>5, <3>2, <3>5
  <2> QED BY <1>1, <1>5, <2>1, <2>2, <2>3 DEF Listed
<1>7. Floor(f) = Floor(Back(t)) /\ f.index = Back(t).index /\ Alike(Back(t), f)
  <2>1. f.kind = "entry" <=> Back(t).kind = "entry" BY DEF Grown, Alike, t
  <2> QED BY <2>1 DEF Grown, Floor, t
<1>8. Keeps(l, l, Back(t).index) /\ Floor(f) <= Len(l)
  BY <1>1, <1>5, <1>6, <1>7, ListedTop DEF Keeps
<1>9. Listed(SetBack(t, f), l) BY <1>1, <1>6, <1>7, <1>8, ListedOn
<1> QED BY <1>9 DEF t

-------------------------------------------------------------------------------
(* The steps of a scan                                                         *)

\* Whatever else changes in a frame, it grows.
LEMMA FramesGrow ==
  ASSUME NEW f, IsFrame(f)
  PROVE  /\ Grown(f, f) /\ \A n : Grown(f, Grow(f, n))
         /\ \A n : Grown(f, [f EXCEPT !.key.length = n])
         /\ \A b : LET g == [f EXCEPT !.key.rolled = b] IN Grown(f, g) /\ g.key.rolled = b
BY DEF IsFrame, Alike, Grown, Grow

\* Return() takes back the key that a map entry has appended for the call, at most.
LEMMA ReturnLists ==
  ASSUME NEW st, Calls(st), NEW list, TagCopies(list), NEW p, NEW n, Return(st, list, p, n),
         NEW k \in Int, Back(st).kind = "entry" => Len(list) >= 1,
         k <= Len(list) - (IF Back(st).kind = "entry" /\ ~Back(st).key.rolled THEN 1 ELSE 0)
  PROVE  Keeps(list, copies', k) /\ \E f : Grown(Back(st), f) /\ stack' = SetBack(st, f)
<1> DEFINE caller == Back(st)
           entry == IF Dropped(caller, n) THEN [caller EXCEPT !.key.length = 0] ELSE caller
<1>1. IsFrame(caller) /\ Len(list) \in Nat BY CallsBack, SequenceLen DEF TagCopies
<1>2. Grown(caller, entry) /\ IsFrame(entry)
  <2> HIDE DEF caller
  <2>1. CASE Dropped(caller, n)
    <3>1. \A m : Grown(caller, [caller EXCEPT !.key.length = m]) BY <1>1, FramesGrow
    <3>2. entry = [caller EXCEPT !.key.length = 0] BY <2>1
    <3> HIDE DEF entry
    <3> QED BY <3>1, <3>2 DEF Grown, Alike
  <2>2. CASE ~Dropped(caller, n) BY <1>1, <2>2, FramesGrow
  <2> QED BY <2>1, <2>2
<1>3. \A m : Grown(caller, Grow(entry, m)) /\ Grown(caller, Grow(caller, m))
  <2> HIDE DEF caller, entry
  <2>1. \A m : Grown(entry, Grow(entry, m)) /\ Grown(caller, Grow(caller, m))
    BY <1>1, <1>2, FramesGrow
  <2> QED BY <1>2, <2>1 DEF Grown, Alike
<1>4. \E f : Grown(caller, f) /\ stack' = SetBack(st, f)
  <2>1. \E m : stack' = SetBack(st, Grow(entry, m)) \/ stack' = SetBack(st, Grow(caller, m))
    BY DEF Return
  <2> HIDE DEF caller, entry
  <2> QED BY <1>3, <2>1
<1>5. Keeps(list, list, k) BY <1>1 DEF Keeps
<1>6. Keeps(list, copies', k)
  <2>1. CASE caller.kind = "entry" /\ Dropped(caller, n)
    <3>1. copies' = WithoutKey(caller, list) BY <2>1 DEF Return
    <3>2. list # <<>> BY <2>1, SequenceEmpty
    <3>3. CASE caller.key.rolled
      <4>1. PICK m : copies' = SetBack(list, [Back(list) EXCEPT !.copy = m])
        BY <3>1, <3>3 DEF WithoutKey
      <4>2. Keeps(list, copies', Len(list)) BY <3>2, <4>1, SetCopyKeeps
      <4> QED BY <1>1, <3>3, <4>2, KeepsLess
    <3>4. CASE ~caller.key.rolled
      <4>1. copies' = SubSeq(list, 1, Len(list) - 1) BY <3>1, <3>2, <3>4 DEF WithoutKey, PopBack
      <4>2. Len(list) - 1 \in 0..Len(list) BY <1>1, <2>1
      <4>3. Keeps(list, copies', Len(list) - 1) BY <4>1, <4>2, PrefixKeeps
      <4> QED BY <2>1, <3>4, <4>2, <4>3, KeepsLess
    <3> QED BY <3>3, <3>4
  <2>2. CASE ~(caller.kind = "entry" /\ Dropped(caller, n)) BY <1>5, <2>2 DEF Return
  <2> QED BY <2>1, <2>2
<1> QED BY <1>4, <1>6

\* A call returns that leaves what was there before its own TagCopy.
LEMMA ReturnListed ==
  ASSUME Calls(stack), Listed(stack, copies), Len(stack) > 1, NEW list, NEW p, NEW n,
         Keeps(copies, list, Begin(Top)), Return(PopBack(stack), list, p, n)
  PROVE  Listed(stack, copies)'
<1> DEFINE caller == Back(PopBack(stack))
           b == Base(caller, Top)
           m == Len(stack) - 1
<1>1. Len(stack) \in Nat /\ Calls(PopBack(stack)) BY CallsPop, CallsBack
<1>2. /\ m \in 1..m /\ m + 1 = Len(stack) /\ m + 1 \in 2..Len(stack) /\ caller = stack[m]
      /\ Top = stack[Len(stack)]
  BY <1>1, CallsPop DEF Back, Top
<1>3. /\ caller.index \in Nat /\ caller.index <= Floor(caller) /\ Floor(caller) \in Nat
      /\ b \in Int /\ Floor(caller) <= b /\ Top.index \in Nat
  <2>1. ASSUME NEW j, j = Len(stack)
        PROVE  j \in 2..Len(stack) /\ m \in 1..(j - 1) /\ b = Base(stack[j - 1], stack[j])
    <3>1. j - 1 = m BY <1>2, <2>1
    <3> QED BY <1>2, <2>1, <3>1
  <2> HIDE DEF b, caller, m
  <2> QED BY <1>2, <2>1, ListedOrder
<1>4. TagCopies(list) /\ Begin(Top) <= Len(list) /\ Len(list) \in Nat
  BY SequenceLen DEF Keeps, TagCopies
<1>5. /\ Begin(Top) \in Int /\ b <= Begin(Top)
      /\ b = Begin(Top) - (IF caller.kind = "entry" /\ ~caller.key.rolled THEN 1 ELSE 0)
  BY <1>3, FloorBase DEF Base
<1>6. caller.kind = "entry" => caller.index >= 1
  <2>1. ASSUME caller.kind = "entry" PROVE caller.index >= 1
    <3>1. m # 1 BY <1>2, <2>1 DEF Calls
    <3>2. m \in 2..Len(stack) /\ 1 \in 1..(m - 1) BY <1>2, <3>1
    <3>3. stack[1].index \in Nat /\ (HasTagCopy(stack[m]) => stack[1].index < stack[m].index)
      BY <3>2, ListedOrder
    <3> QED BY <1>2, <1>3, <2>1, <3>3 DEF HasTagCopy
  <2> QED BY <2>1
<1> HIDE DEF b, caller, m
<1>7. caller.kind = "entry" => Len(list) >= 1 BY <1>3, <1>4, <1>5, <1>6
<1>8. b <= Len(list) - (IF caller.kind = "entry" /\ ~caller.key.rolled THEN 1 ELSE 0)
  BY <1>3, <1>4, <1>5
<1>9. Keeps(list, copies', b) /\ \E f : Grown(caller, f) /\ stack' = SetBack(PopBack(stack), f)
  BY <1>1, <1>3, <1>4, <1>7, <1>8, ReturnLists DEF caller
<1>10. Keeps(copies, copies', b) BY <1>3, <1>5, <1>9, KeepsMore
<1> QED BY <1>1, <1>9, <1>10, ListedReturn DEF caller, b, Top

\* The innermost call goes on, and adds to the list.
LEMMA GoesOnListed ==
  ASSUME Calls(stack), Listed(stack, copies), NEW f, Grown(Top, f), stack' = SetBack(stack, f),
         Keeps(copies, copies', Len(copies))
  PROVE  Listed(stack, copies)'
<1>1. /\ Top.index \in Nat /\ Top.index <= Len(copies) /\ Len(copies) \in Nat
      /\ Floor(Top) <= Len(copies) /\ Floor(Top) \in Nat
  BY ListedTop DEF Top
<1>2. Keeps(copies, copies', Top.index) BY <1>1, KeepsLess
<1>3. Floor(f) = Floor(Top)
  <2>1. f.kind = "entry" <=> Top.kind = "entry" BY DEF Grown, Alike
  <2> QED BY <2>1 DEF Grown, Floor
<1>4. Len(copies) <= Len(copies') /\ Len(copies') \in Nat BY SequenceLen DEF Keeps, TagCopies
<1>5. Floor(f) <= Len(copies') BY <1>1, <1>3, <1>4
<1> QED BY <1>2, <1>5, ListedOn DEF Grown, Top

\* What a step that leaves the calls and the list alone does not change.
LEMMA UnchangedListed ==
  ASSUME Listed(stack, copies), UNCHANGED <<stack, copies>>
  PROVE  Listed(stack, copies)'
OBVIOUS

\* The caller of a field that is partially included appends its key, or rolls it.
LEMMA CallerListed ==
  ASSUME Calls(stack), Listed(stack, copies), AtPartial
  PROVE  /\ Keeps(copies, CallerCopies, Len(copies)) /\ Len(CallerCopies) \in Nat
         /\ \E g : /\ Grown(Top, g) /\ CallerStack = SetBack(stack, g)
                   /\ Len(CallerCopies) - (IF g.kind = "entry" /\ ~g.key.rolled THEN 1 ELSE 0)
                        = Len(copies)
<1>1. IsFrame(Top) /\ TagCopies(copies) /\ Len(copies) \in Nat
  BY ListedTop DEF Listed, Top
<1>2. CASE Top.kind = "message"
  <2>1. CallerStack = SetBack(stack, Top) /\ CallerCopies = copies
    BY <1>2, SetBackSame DEF CallerStack, CallerCopies, Top
  <2>2. Keeps(copies, copies, Len(copies)) BY <1>1 DEF Keeps
  <2> QED BY <1>1, <1>2, <2>1, <2>2, FramesGrow
<1>3. CASE Top.kind = "entry"
  <2> DEFINE b == Rolls(copies, Top.key.start, Top.key.length)
             g == [Top EXCEPT !.key.rolled = b]
  <2>1. CallerStack = SetBack(stack, g) BY <1>3 DEF CallerStack
  <2>2. Grown(Top, g) /\ g.key.rolled = b BY <1>1, FramesGrow
  <2>3. g.kind = "entry" BY <1>3 DEF IsFrame
  <2>4. CallerCopies = AddTagCopyOrRollToPrevious(copies, Top.key.start, Top.key.length)
    BY <1>3 DEF CallerCopies
  <2>5. /\ Keeps(copies, CallerCopies, Len(copies))
        /\ Len(CallerCopies) = IF b THEN Len(copies) ELSE Len(copies) + 1
    BY <1>1, <2>4, RollKeeps
  <2> HIDE DEF g, b
  <2> QED BY <1>1, <2>1, <2>2, <2>3, <2>5
<1> QED BY <1>2, <1>3 DEF AtPartial, AtValue, AtEntryField, AtField, In

\* Enter() makes a call that has its own TagCopy, or none, at the end of the list.
LEMMA EnterListed ==
  ASSUME Calls(stack), Listed(stack, copies), AtPartial, NEW kind, NEW type, NEW list,
         Enter(kind, type, list),
         \/ kind \in {"message", "entry", "packed"} /\ list = OwnTag
         \/ kind = "any" /\ list = <<>>
  PROVE  Listed(stack, copies)'
<1> DEFINE body == AfterVarint(Data, BehindTag, Top.limit)
           limit == EndOfLength(Data, BehindTag, Top.limit)
           l == CallerCopies \o list
           frame == Frame(kind, type, TagHere, pos, limit, Len(l))
           f == [frame EXCEPT !.key.start = body, !.key.pos = body]
<1>1. /\ Keeps(copies, CallerCopies, Len(copies)) /\ Len(CallerCopies) \in Nat
      /\ \E g : /\ Grown(Top, g) /\ CallerStack = SetBack(stack, g)
                /\ Len(CallerCopies) - (IF g.kind = "entry" /\ ~g.key.rolled THEN 1 ELSE 0)
                     = Len(copies)
  BY CallerListed
<1>2. PICK g : /\ Grown(Top, g) /\ CallerStack = SetBack(stack, g)
               /\ Len(CallerCopies) - (IF g.kind = "entry" /\ ~g.key.rolled THEN 1 ELSE 0)
                    = Len(copies)
  BY <1>1
<1>3. stack' = Append(CallerStack, f) /\ copies' = l BY DEF Enter
<1>4. /\ IsFrame(frame) /\ frame.kind = kind /\ frame.tag = TagHere /\ frame.index = Len(l)
      /\ ~frame.key.added
  BY FrameIsFrame DEF Frame, NoKey
<1> HIDE DEF frame, body, limit, l
<1>5. IsFrame(f) /\ f.kind = kind /\ f.tag = TagHere /\ f.index = Len(l) /\ ~f.key.added
  BY <1>4 DEF IsFrame
<1> HIDE DEF f
<1>6. TagCopies(CallerCopies) /\ Sequence(CallerCopies) BY <1>1 DEF Keeps, TagCopies
<1>7. CASE HasTagCopy(f)
  <2>1. list = <<Inserting(TagHere, 0)>>
    BY <1>5, <1>7 DEF HasTagCopy, OwnTag
  <2>2. l = Append(CallerCopies, Inserting(TagHere, 0)) BY <1>6, <2>1, SequenceConcatOne DEF l
  <2>3. /\ Keeps(CallerCopies, l, Len(CallerCopies)) /\ Len(l) = Len(CallerCopies) + 1
        /\ l[Len(l)].tag = <<TagHere>>
    <3> DEFINE c == Inserting(TagHere, 0)
    <3>1. IsTagCopy(c) /\ c.tag = <<TagHere>> BY NewTagCopies
    <3> HIDE DEF c
    <3>2. l = Append(CallerCopies, c) BY <2>2 DEF c
    <3> QED BY <1>1, <1>6, <3>1, <3>2, AppendKeeps
  <2>4. Len(copies) \in Nat /\ Len(copies) <= Len(CallerCopies) /\ Len(l) \in Nat
    BY <1>1, <2>3, ListedTop DEF Keeps
  <2>5. Keeps(copies, l, Len(copies)) BY <1>1, <2>3, <2>4, KeepsMore
  <2>6. Base(g, f) = Len(copies) BY <1>1, <1>2, <1>5, <1>7, <2>3 DEF Base, Begin
  <2> QED BY <1>2, <1>3, <1>5, <2>3, <2>4, <2>5, <2>6, ListedCall DEF Top
<1>8. CASE ~HasTagCopy(f)
  <2>1. list = <<>> BY <1>5, <1>8 DEF HasTagCopy
  <2>2. l = CallerCopies
    <3>1. PICK S : CallerCopies \in Seq(S) BY <1>6 DEF Sequence
    <3> QED BY <2>1, <3>1 DEF l
  <2>3. Len(copies) \in Nat /\ Len(l) \in Nat /\ Keeps(copies, l, Len(copies))
    BY <1>1, <2>2, ListedTop
  <2>4. Base(g, f) = Len(copies) BY <1>1, <1>2, <1>5, <1>8, <2>2 DEF Base, Begin
  <2> QED BY <1>2, <1>3, <1>5, <1>8, <2>3, <2>4, ListedCall DEF Top
<1> QED BY <1>7, <1>8

\* What is known of the innermost call where it is used below.
LEMMA TopListed ==
  ASSUME Calls(stack), Listed(stack, copies)
  PROVE  /\ IsFrame(Top) /\ TagCopies(copies) /\ Len(copies) \in Nat
         /\ Top.index \in Nat /\ Top.index <= Len(copies) /\ Begin(Top) \in Int
         /\ HasTagCopy(Top) /\ Len(stack) > 1
              => Top.index \in 1..Len(copies) /\ Begin(Top) = Top.index - 1
         /\ ~HasTagCopy(Top) => Begin(Top) = Top.index
         /\ \A n \in Int : n <= Len(copies) => Keeps(copies, copies, n)
         /\ Top.kind # "message" => Len(stack) > 1
BY ListedTop, InnerCall DEF Top, Listed, Keeps, Begin

\* A call that has its own TagCopy ends: it takes all its TagCopys back, or writes
\* the length into its own.
LEMMA EndKeeps ==
  ASSUME Calls(stack), Listed(stack, copies), HasTagCopy(Top), Len(stack) > 1, NEW n
  PROVE  /\ Keeps(copies, SubSeq(copies, 1, Top.index - 1), Begin(Top))
         /\ Keeps(copies, [copies EXCEPT ![Top.index].length = n], Begin(Top))
         /\ Keeps(copies, PopBack(copies), Begin(Top))
<1>1. /\ Top.index \in 1..Len(copies) /\ Begin(Top) = Top.index - 1 /\ Begin(Top) \in Int
      /\ TagCopies(copies) /\ Len(copies) \in Nat
  BY TopListed
<1>2. Keeps(copies, SubSeq(copies, 1, Top.index - 1), Begin(Top))
  <2>1. Top.index - 1 \in 0..Len(copies) BY <1>1
  <2> QED BY <1>1, <2>1, PrefixKeeps
<1>3. Keeps(copies, [copies EXCEPT ![Top.index].length = n], Begin(Top))
  <2>1. Keeps(copies, [copies EXCEPT ![Top.index].length = n], Len(copies))
    BY <1>1, SetLengthKeeps
  <2>2. Begin(Top) <= Len(copies) BY <1>1
  <2> QED BY <1>1, <2>1, <2>2, KeepsLess
<1>4. Keeps(copies, PopBack(copies), Begin(Top))
  <2>1. Len(copies) - 1 \in 0..Len(copies) /\ Begin(Top) <= Len(copies) - 1 BY <1>1
  <2>2. Keeps(copies, PopBack(copies), Len(copies) - 1) BY <1>1, <2>1, PrefixKeeps DEF PopBack
  <2> QED BY <1>1, <2>1, <2>2, KeepsLess
<1> QED BY <1>2, <1>3, <1>4

\* ScanField()
LEMMA ScanFieldListed ==
  ASSUME Calls(stack), Listed(stack, copies), ExcludeField \/ IncludeField \/ EndMessage
  PROVE  Listed(stack, copies)'
<1> USE TopListed
<1>1. CASE ExcludeField BY <1>1, UnchangedListed DEF ExcludeField
<1>2. CASE IncludeField
  <2>1. PICK n : stack' = SetBack(stack, Grow(Top, n)) BY <1>2 DEF IncludeField
  <2>2. PICK start, m : copies' = AddTagCopyOrRollToPrevious(copies, start, m)
    BY <1>2 DEF IncludeField
  <2>3. Keeps(copies, copies', Len(copies)) BY <2>2, RollKeeps
  <2>4. Grown(Top, Grow(Top, n)) BY FramesGrow
  <2> QED BY <2>1, <2>3, <2>4, GoesOnListed
<1>3. CASE EndMessage
  <2>1. HasTagCopy(Top) /\ Len(stack) > 1 BY <1>3 DEF EndMessage, In, HasTagCopy
  <2>2. PICK list, n : /\ Return(PopBack(stack), list, path, n)
                       /\ \/ list = SubSeq(copies, 1, Top.index - 1)
                          \/ \E m : list = [copies EXCEPT ![Top.index].length = m]
    BY <1>3 DEF EndMessage
  <2>3. Keeps(copies, list, Begin(Top)) BY <2>1, <2>2, EndKeeps
  <2> QED BY <2>1, <2>2, <2>3, ReturnListed
<1> QED BY <1>1, <1>2, <1>3

\* ScanMapEntry()
LEMMA ScanMapEntryListed ==
  ASSUME Calls(stack), Listed(stack, copies),
         EntryKey \/ ExcludeValue \/ IncludeValue \/ OtherEntryField \/ EndEntry \/ EndEntryEarly
  PROVE  Listed(stack, copies)'
<1> USE TopListed
<1>1. CASE EntryKey
  <2>1. PICK check, at, n :
          stack' = SetBack(stack, [Top EXCEPT !.key.found = TRUE, !.key.check = check,
                                              !.key.pos = at, !.key.length = n])
    BY <1>1 DEF EntryKey
  <2> DEFINE f == [Top EXCEPT !.key.found = TRUE, !.key.check = check,
                              !.key.pos = at, !.key.length = n]
  <2>2. Top.kind = "entry" /\ UNCHANGED copies BY <1>1 DEF EntryKey, AtEntryField, In
  <2>3. Alike(Top, f) BY <2>2, KeyedAlike
  <2>4. f.index = Top.index /\ f.key.added = Top.key.added BY DEF IsFrame
  <2> HIDE DEF f
  <2>5. stack' = SetBack(stack, f) BY <2>1 DEF f
  <2> QED BY <2>2, <2>3, <2>4, <2>5, GoesOnListed DEF Grown
<1>2. CASE ExcludeValue BY <1>2, UnchangedListed DEF ExcludeValue
<1>3. CASE IncludeValue
  <2> DEFINE kept == IF Top.key.added THEN PopBack(copies) ELSE copies
             keyed == IF Top.key.found
                      THEN AddTagCopyOrRollToPrevious(kept, Top.key.pos, Top.key.length)
                      ELSE kept
  <2>1. /\ Top.kind = "entry"
        /\ \E n : copies' = Append(keyed, Copying(pos, n))
        /\ \E m : stack' = SetBack(stack, [Grow(Top, m) EXCEPT !.key.added = TRUE])
    BY <1>3 DEF IncludeValue, AtValue, AtEntryField, In
  <2>2. Keeps(copies, kept, Top.index) /\ Len(kept) \in Nat
    <3>1. CASE Top.key.added
      <4>1. Top.index + 1 <= Len(copies) BY <2>1, <3>1, ListedTop DEF Floor, Top
      <4>2. Len(copies) - 1 \in 0..Len(copies) /\ Top.index <= Len(copies) - 1 BY <4>1
      <4>3. Keeps(copies, PopBack(copies), Len(copies) - 1) BY <4>2, PrefixKeeps DEF PopBack
      <4>4. Len(PopBack(copies)) = Len(copies) - 1 BY <4>2, PrefixKeeps DEF PopBack
      <4> QED BY <3>1, <4>2, <4>3, <4>4, KeepsLess
    <3>2. CASE ~Top.key.added BY <3>2
    <3> QED BY <3>1, <3>2
  <2> HIDE DEF kept
  <2>3. Keeps(kept, keyed, Len(kept)) /\ Len(keyed) \in Nat
    <3>1. TagCopies(kept) BY <2>2 DEF Keeps
    <3>2. Keeps(kept, kept, Len(kept)) BY <2>2, <3>1 DEF Keeps
    <3>3. Keeps(kept, keyed, Len(kept)) BY <3>1, <3>2, RollKeeps
    <3> HIDE DEF keyed
    <3> QED BY <3>3, SequenceLen DEF Keeps, TagCopies
  <2> HIDE DEF keyed
  <2>4. Keeps(keyed, copies', Len(keyed)) /\ Len(copies') = Len(keyed) + 1
    <3>1. PICK n : copies' = Append(keyed, Copying(pos, n)) BY <2>1
    <3>2. IsTagCopy(Copying(pos, n)) /\ TagCopies(keyed) BY <2>3, NewTagCopies DEF Keeps
    <3> QED BY <3>1, <3>2, AppendKeeps
  <2>5. Top.index <= Len(kept) /\ Len(kept) <= Len(keyed) BY <2>2, <2>3 DEF Keeps
  <2>6. Keeps(copies, keyed, Top.index) BY <2>2, <2>3, <2>5, KeepsMore
  <2>7. Keeps(copies, copies', Top.index) BY <2>3, <2>4, <2>5, <2>6, KeepsMore
  <2>8. PICK m : stack' = SetBack(stack, [Grow(Top, m) EXCEPT !.key.added = TRUE]) BY <2>1
  <2> DEFINE f == [Grow(Top, m) EXCEPT !.key.added = TRUE]
  <2>9. Alike(Top, f) /\ f.index = Top.index BY DEF IsFrame, Alike, Grow
  <2> HIDE DEF f
  <2>10. Floor(f) <= Len(copies') BY <2>2, <2>3, <2>4, <2>5, <2>9, FloorBase
  <2>11. stack' = SetBack(stack, f) BY <2>8 DEF f
  <2> QED BY <2>7, <2>9, <2>10, <2>11, ListedOn DEF Top
<1>4. CASE OtherEntryField BY <1>4, UnchangedListed DEF OtherEntryField
<1>5. CASE EndEntry \/ EndEntryEarly
  <2>1. HasTagCopy(Top) /\ Len(stack) > 1 /\ CloseEntry
    BY <1>5 DEF EndEntry, EndEntryEarly, In, HasTagCopy
  <2>2. PICK list, p, n : /\ Return(PopBack(stack), list, p, n)
                          /\ \/ list = PopBack(copies)
                             \/ \E m : list = [copies EXCEPT ![Top.index].length = m]
    BY <2>1 DEF CloseEntry
  <2>3. Keeps(copies, list, Begin(Top)) BY <2>1, <2>2, EndKeeps
  <2> QED BY <2>1, <2>2, <2>3, ReturnListed
<1> QED BY <1>1, <1>2, <1>3, <1>4, <1>5

\* ScanAnyField(), which has no TagCopy while it reads; the one it returns with is
\* behind what its caller has.
LEMMA DropAnyListed ==
  ASSUME Calls(stack), Listed(stack, copies), Top.kind \in {"any", "scrubbed"},
         NEW total, NEW at, DropAny(total, at)
  PROVE  Listed(stack, copies)'
<1>1. ~HasTagCopy(Top) /\ Len(stack) > 1 BY TopListed DEF HasTagCopy
<1>2. Keeps(copies, copies, Begin(Top)) BY <1>1, TopListed
<1>3. \E n : Return(PopBack(stack), copies, path, n) BY DEF DropAny
<1> QED BY <1>1, <1>2, <1>3, ReturnListed

\* The other steps of ScanAnyField().
LEMMA ScanAnyListed ==
  ASSUME Calls(stack), Listed(stack, copies),
         AnyField \/ IncludeAny \/ ExcludeAny \/ DropEmptyAny \/ KeepAny
  PROVE  Listed(stack, copies)'
<1> USE TopListed
<1>1. CASE AnyField
  <2>1. UNCHANGED copies /\ Keeps(copies, copies', Len(copies)) BY <1>1 DEF AnyField
  <2>2. \/ \E part : stack' = SetBack(stack, [Top EXCEPT !.url = part])
        \/ \E part : /\ DOMAIN part = {"tag", "start", "length", "bytes"}
                     /\ stack' = SetBack(stack, [Top EXCEPT !.value = part])
        \/ UNCHANGED stack
    <3> DEFINE end == EndOfString(Data, BehindTag, Top.limit)
               part == [tag |-> TagHere, start |-> pos, length |-> end - pos,
                        bytes |-> ReadString(Data, BehindTag, Top.limit)]
    <3>1. stack' = CASE Number = 1 -> SetBack(stack, [Top EXCEPT !.url = part])
                     [] Number = 2 -> SetBack(stack, [Top EXCEPT !.value = part])
                     [] OTHER      -> stack
      BY <1>1 DEF AnyField
    <3>2. DOMAIN part = {"tag", "start", "length", "bytes"} OBVIOUS
    <3> HIDE DEF part
    <3>3. Number = 1 => Number # 2 OBVIOUS
    <3> QED BY <3>1, <3>2, <3>3
  <2>3. ASSUME NEW part, stack' = SetBack(stack, [Top EXCEPT !.url = part])
        PROVE  Listed(stack, copies)'
    <3> DEFINE f == [Top EXCEPT !.url = part]
    <3>1. Grown(Top, f) BY DEF IsFrame, Alike, Grown
    <3> HIDE DEF f
    <3>2. stack' = SetBack(stack, f) BY <2>3 DEF f
    <3> QED BY <2>1, <3>1, <3>2, GoesOnListed
  <2>4. ASSUME NEW part, DOMAIN part = {"tag", "start", "length", "bytes"},
               stack' = SetBack(stack, [Top EXCEPT !.value = part])
        PROVE  Listed(stack, copies)'
    <3> DEFINE f == [Top EXCEPT !.value = part]
    <3>1. Grown(Top, f) BY <2>4 DEF IsFrame, Alike, Grown
    <3> HIDE DEF f
    <3>2. stack' = SetBack(stack, f) BY <2>4 DEF f
    <3> QED BY <2>1, <3>1, <3>2, GoesOnListed
  <2> QED BY <2>1, <2>2, <2>3, <2>4, UnchangedListed
<1>2. CASE IncludeAny
  <2>1. ~HasTagCopy(Top) /\ Len(stack) > 1 BY <1>2 DEF IncludeAny, AnyRead, In, HasTagCopy
  <2>2. PICK n : Return(PopBack(stack), AddTagCopyOrRollToPrevious(copies, Top.start, n), path, n)
    BY <1>2 DEF IncludeAny
  <2>3. Keeps(copies, AddTagCopyOrRollToPrevious(copies, Top.start, n), Len(copies)) BY RollKeeps
  <2>4. Begin(Top) <= Len(copies) BY <2>1
  <2>5. Keeps(copies, AddTagCopyOrRollToPrevious(copies, Top.start, n), Begin(Top))
    BY <2>3, <2>4, KeepsLess
  <2> QED BY <2>1, <2>2, <2>5, ReturnListed
<1>3. CASE ExcludeAny \/ DropEmptyAny
  <2>1. DropAny(sum, tags) /\ Top.kind \in {"any", "scrubbed"}
    BY <1>3 DEF ExcludeAny, DropEmptyAny, EmptyAny, AnyRead, In
  <2> QED BY <2>1, DropAnyListed
<1>4. CASE KeepAny
  <2>1. ~HasTagCopy(Top) /\ Len(stack) > 1 BY <1>4 DEF KeepAny, In, HasTagCopy
  <2>2. PICK a, b, c : /\ IsTagCopy(a) /\ IsTagCopy(b) /\ IsTagCopy(c)
                       /\ \E n : Return(PopBack(stack), copies \o <<a, b, c>>, path, n)
    BY <1>4, NewTagCopies DEF KeepAny
  <2>3. TagCopies(<<a, b, c>>)
    <3> DEFINE new == <<a, b, c>>
    <3>1. new \in Seq({a, b, c}) OBVIOUS
    <3>2. Len(new) = 3 /\ new[1] = a /\ new[2] = b /\ new[3] = c OBVIOUS
    <3>3. \A i \in 1..3 : i = 1 \/ i = 2 \/ i = 3 OBVIOUS
    <3> HIDE DEF new
    <3>4. TagCopies(new) BY <2>2, <3>1, <3>2, <3>3 DEF Sequence, TagCopies
    <3> QED BY <3>4 DEF new
  <2>4. Keeps(copies, copies \o <<a, b, c>>, Len(copies)) BY <2>3, ConcatKeeps
  <2>5. Begin(Top) <= Len(copies) BY <2>1
  <2>6. Keeps(copies, copies \o <<a, b, c>>, Begin(Top)) BY <2>4, <2>5, KeepsLess
  <2> QED BY <2>1, <2>2, <2>6, ReturnListed
<1> QED BY <1>1, <1>2, <1>3, <1>4

\* ScanChildField() and the loop over a packed enum.
LEMMA ScanChildListed ==
  ASSUME Calls(stack), Listed(stack, copies),
         EnterAny \/ EnterMessage \/ EnterMap \/ EnterPacked \/ EnumValue \/ PackedValue
           \/ EndPacked
  PROVE  Listed(stack, copies)'
<1> USE TopListed
<1>1. CASE EnterAny BY <1>1, EnterListed DEF EnterAny, AtChild
<1>2. CASE EnterMessage BY <1>2, EnterListed DEF EnterMessage, AtChild
<1>3. CASE EnterMap BY <1>3, EnterListed DEF EnterMap, AtChild
<1>4. CASE EnterPacked BY <1>4, EnterListed DEF EnterPacked, AtEnum
<1>5. CASE EnumValue
  <2>1. AtPartial BY <1>5 DEF EnumValue, AtEnum
  <2>2. PICK g : /\ Grown(Top, g) /\ CallerStack = SetBack(stack, g)
                 /\ Len(CallerCopies) - (IF g.kind = "entry" /\ ~g.key.rolled THEN 1 ELSE 0)
                      = Len(copies)
    BY <2>1, CallerListed
  <2>3. /\ Keeps(copies, CallerCopies, Len(copies)) /\ Len(CallerCopies) \in Nat
        /\ TagCopies(CallerCopies)
    BY <2>1, CallerListed DEF Keeps
  <2>4. PICK list, n : /\ Return(CallerStack, list, CallerPath, n)
                       /\ \/ list = CallerCopies
                          \/ \E start, m : list = AddTagCopyOrRollToPrevious(CallerCopies, start, m)
    BY <1>5 DEF EnumValue
  <2>5. Keeps(CallerCopies, list, Len(CallerCopies))
    <3>1. CASE list = CallerCopies BY <2>3, <3>1 DEF Keeps
    <3>2. ASSUME NEW start, NEW m, list = AddTagCopyOrRollToPrevious(CallerCopies, start, m)
          PROVE  Keeps(CallerCopies, list, Len(CallerCopies))
      BY <2>3, <3>2, RollKeeps
    <3> QED BY <2>4, <3>1, <3>2
  <2>6. TagCopies(list) /\ Len(list) \in Nat /\ Len(CallerCopies) <= Len(list)
    BY <2>5, SequenceLen DEF Keeps, TagCopies
  <2>7. Calls(CallerStack) /\ Back(CallerStack) = g BY <2>2, CallsBack DEF Grown, Top
  <2>8. g.kind = "entry" => Len(list) >= 1
    <3>1. g.kind = "entry" => Top.kind = "entry" BY <2>2 DEF Grown, Alike
    <3>2. Top.kind = "entry" => Len(copies) >= 1 BY ListedTop DEF Top
    <3>3. Len(copies) <= Len(CallerCopies) BY <2>3 DEF Keeps
    <3> QED BY <2>3, <2>6, <3>1, <3>2, <3>3
  <2>9. Len(copies) <= Len(list) - (IF g.kind = "entry" /\ ~g.key.rolled THEN 1 ELSE 0)
    BY <2>2, <2>3, <2>6
  <2>10. /\ Keeps(list, copies', Len(copies))
         /\ \E f : Grown(g, f) /\ stack' = SetBack(CallerStack, f)
    BY <2>4, <2>6, <2>7, <2>8, <2>9, ReturnLists
  <2>11. PICK f : Grown(g, f) /\ stack' = SetBack(CallerStack, f) BY <2>10
  <2>12. Grown(Top, f) /\ stack' = SetBack(stack, f)
    BY <2>2, <2>11, SetBackSame DEF Grown, Alike, Top
  <2>13. Len(copies) <= Len(CallerCopies) BY <2>3 DEF Keeps
  <2>14. Keeps(copies, list, Len(copies)) BY <2>3, <2>5, <2>13, KeepsMore
  <2>15. Keeps(copies, copies', Len(copies)) BY <2>10, <2>14, KeepsMore
  <2> QED BY <2>12, <2>15, GoesOnListed
<1>6. CASE PackedValue
  <2>1. \/ UNCHANGED <<copies, stack>>
        \/ /\ \E start, m : copies' = AddTagCopyOrRollToPrevious(copies, start, m)
           /\ \E n : stack' = SetBack(stack, Grow(Top, n))
    BY <1>6 DEF PackedValue
  <2>2. ASSUME NEW start, NEW m, copies' = AddTagCopyOrRollToPrevious(copies, start, m)
        PROVE  Keeps(copies, copies', Len(copies))
    BY <2>2, RollKeeps
  <2>3. \A n : Grown(Top, Grow(Top, n)) BY FramesGrow
  <2> QED BY <2>1, <2>2, <2>3, UnchangedListed, GoesOnListed
<1>7. CASE EndPacked
  <2>1. HasTagCopy(Top) /\ Len(stack) > 1 BY <1>7 DEF EndPacked, In, HasTagCopy
  <2>2. PICK m, n : Return(PopBack(stack), [copies EXCEPT ![Top.index].length = m], path, n)
    BY <1>7 DEF EndPacked
  <2>3. Keeps(copies, [copies EXCEPT ![Top.index].length = m], Begin(Top)) BY <2>1, EndKeeps
  <2> QED BY <2>1, <2>2, <2>3, ReturnListed
<1> QED BY <1>1, <1>2, <1>3, <1>4, <1>5, <1>6, <1>7

-------------------------------------------------------------------------------
(* The invariant: the calls of every scrubber and its list agree, those of the *)
(* scrubbers that wait for the one of an Any included.                         *)

ListInv ==
  /\ IF phase \in {"scan", "sum"} THEN Listed(stack, copies) ELSE stack = <<>>
  /\ \A i \in 1..Len(outer) : Listed(outer[i].stack, outer[i].copies)

\* A scrubber begins with an empty list.
LEMMA RootListed == ASSUME NEW type PROVE Listed(Root(type), <<>>)
<1> DEFINE f == Frame("message", type, 0, 0, NoLimit, 0)
           st == Root(type)
<1>1. Len(st) = 1 /\ st[1] = f BY SequenceOne DEF Root
<1>2. f.index = 0 /\ f.kind = "message" BY DEF Frame
<1> HIDE DEF f, st
<1>3. Floor(f) = 0 BY <1>2 DEF Floor
<1>4. TagCopies(<<>>) /\ Len(<<>>) = 0 BY SequenceEmpty DEF TagCopies
<1>5. \A i \in 1..Len(st) : st[i] = f BY <1>1
<1> QED BY <1>1, <1>2, <1>3, <1>4, <1>5 DEF Listed, st

\* The scrubber of an Any returns to the one that waits for it.
LEMMA AnyScrubbedLists ==
  ASSUME PathInv, ListInv, outer # <<>>, NEW value, AnyScrubbed(value) PROVE ListInv'
<1> DEFINE caller == Back(outer)
           f == [Back(caller.stack) EXCEPT !.kind = "scrubbed", !.value.bytes = value]
<1>1. Len(outer) \in Nat /\ Len(outer) \in 1..Len(outer) BY SequenceLen DEF PathInv
<1>2. Waiting(caller) /\ Listed(caller.stack, caller.copies)
  BY <1>1 DEF PathInv, ListInv, Back
<1>3. /\ Len(PopBack(outer)) = Len(outer) - 1
      /\ \A i \in 1..(Len(outer) - 1) : PopBack(outer)[i] = outer[i]
  <2>1. Sequence(outer) /\ Len(outer) - 1 \in 0..Len(outer) BY <1>1 DEF PathInv
  <2> QED BY <2>1, SequencePrefix DEF PopBack
<1>4. Calls(caller.stack) /\ Back(caller.stack).kind = "any" BY <1>2 DEF Waiting, Unwinds
<1>5. IsFrame(Back(caller.stack)) BY <1>4, CallsBack
<1>6. /\ Alike(Back(caller.stack), f) /\ f.index = Back(caller.stack).index
      /\ f.kind = "scrubbed"
  BY <1>4, <1>5 DEF IsFrame, Alike
<1>7. /\ stack' = SetBack(caller.stack, f) /\ copies' = caller.copies
      /\ phase' = "scan" /\ outer' = PopBack(outer)
  BY DEF AnyScrubbed
<1> HIDE DEF f, caller
<1>8. Floor(f) <= Len(caller.copies)
  <2>1. Floor(f) = Back(caller.stack).index BY <1>2, <1>4, <1>6, ListedTop DEF Floor
  <2> QED BY <1>2, <1>4, <2>1, ListedTop
<1>9. Keeps(caller.copies, caller.copies, Back(caller.stack).index)
  BY <1>2, <1>4, ListedTop DEF Keeps, Listed
<1>10. Listed(stack', copies') BY <1>2, <1>4, <1>6, <1>7, <1>8, <1>9, ListedOn
<1> QED BY <1>1, <1>3, <1>7, <1>10 DEF ListInv

\* The scrubber of an Any begins; the one that called it keeps its calls and its list.
LEMMA ScrubAnyLists == ASSUME PathInv, ListInv, ScrubAny PROVE ListInv'
<1> DEFINE s == [value |-> Top.value.bytes, depth |-> Depth + Len(path),
                 pos |-> pos, stack |-> stack, path |-> path, copies |-> copies]
<1>1. Listed(s.stack, s.copies) BY DEF ListInv, ScrubAny, AnyRead, In
<1>2. /\ outer' = Append(outer, s) /\ phase' = "scan" /\ copies' = <<>>
      /\ \E type : stack' = Root(type)
  BY DEF ScrubAny, AnyRead, In
<1> HIDE DEF s
<1>3. /\ Len(Append(outer, s)) = Len(outer) + 1 /\ Append(outer, s)[Len(outer) + 1] = s
      /\ \A i \in 1..Len(outer) : Append(outer, s)[i] = outer[i]
      /\ Len(outer) \in Nat
  BY SequenceAppend, SequenceLen DEF PathInv
<1>4. ASSUME NEW i \in 1..(Len(outer) + 1)
      PROVE  Listed(Append(outer, s)[i].stack, Append(outer, s)[i].copies)
  <2>1. CASE i = Len(outer) + 1 BY <1>1, <1>3, <2>1
  <2>2. CASE i # Len(outer) + 1
    <3>1. i \in 1..Len(outer) BY <1>3, <2>2
    <3> QED BY <1>3, <3>1 DEF ListInv
  <2> QED BY <2>1, <2>2
<1>5. Listed(stack', copies') BY <1>2, RootListed
<1> QED BY <1>2, <1>3, <1>4, <1>5 DEF ListInv

\* An error forgets all.
LEMMA AbortLists == ASSUME Abort PROVE ListInv'
BY SequenceEmpty DEF Abort, ListInv

\* The steps that leave calls and lists alone, but for the phase.
LEMMA PausedLists ==
  ASSUME ListInv, UNCHANGED <<stack, outer>>,
         phase' \in {"scan", "sum"} <=> phase \in {"scan", "sum"},
         phase \in {"scan", "sum"} => UNCHANGED copies
  PROVE  ListInv'
BY DEF ListInv

\* A step of a scan is one of the scrubber that runs.
LEMMA ScanLists ==
  ASSUME ListInv, Listed(stack, copies)', phase' = "scan", UNCHANGED outer PROVE ListInv'
BY DEF ListInv

\* A scrubber that runs keeps the invariant,
LEMMA RunningLists == ASSUME PathInv, ListInv, Running PROVE ListInv'
<1>1. phase = "scan" => Calls(stack) /\ Listed(stack, copies) BY DEF PathInv, ListInv, Unwinds
<1>2. CASE AskForField \/ AskForValue \/ AskForAny
  BY <1>2, PausedLists
  DEF AskForField, AskForValue, AskForAny, AnyRead, AtField, AtValue, AtEntryField, In, Staying
<1>3. CASE Fail BY <1>3, AbortLists DEF Fail
<1>4. ASSUME outer # <<>>, NEW value, AnyScrubbed(value) PROVE ListInv'
  BY <1>4, AnyScrubbedLists
<1>5. CASE ScanFieldStep
  <2>1. CASE ExcludeField \/ IncludeField \/ EndMessage
    <3>1. phase = "scan" /\ phase' = "scan" /\ UNCHANGED outer
      BY <2>1 DEF ExcludeField, IncludeField, EndMessage, AtField, In, Scanning, Staying
    <3> QED BY <1>1, <2>1, <3>1, ScanFieldListed, ScanLists
  <2>2. CASE EndRoot BY <2>2 DEF EndRoot, Staying, ListInv
  <2>3. CASE ExcludeFieldError \/ UnknownPartialError \/ NotConsumedError
    BY <1>3, <2>3 DEF ExcludeFieldError, UnknownPartialError, NotConsumedError
  <2> QED BY <1>2, <1>5, <2>1, <2>2, <2>3 DEF ScanFieldStep
<1>6. CASE ScanMapEntryStep
  <2>1. CASE ExcludeValueError BY <1>3, <2>1 DEF ExcludeValueError
  <2>2. CASE ~(ExcludeValueError \/ AskForValue)
    <3>1. /\ phase = "scan" /\ phase' = "scan" /\ UNCHANGED outer
          /\ \/ EntryKey \/ ExcludeValue \/ IncludeValue \/ OtherEntryField \/ EndEntry
             \/ EndEntryEarly
      BY <1>6, <2>2 DEF ScanMapEntryStep, EntryKey, ExcludeValue, IncludeValue, OtherEntryField,
                        EndEntry, EndEntryEarly, AtValue, AtEntryField, In, Scanning, Staying
    <3> QED BY <1>1, <3>1, ScanMapEntryListed, ScanLists
  <2> QED BY <1>2, <2>1, <2>2
<1>7. CASE ScanAnyStep
  <2>1. CASE AnyField \/ IncludeAny \/ ExcludeAny \/ DropEmptyAny \/ KeepAny
    <3>1. phase = "scan" /\ phase' = "scan" /\ UNCHANGED outer
      BY <2>1 DEF AnyField, IncludeAny, ExcludeAny, DropEmptyAny, EmptyAny, KeepAny, AnyRead, In,
                  Scanning, Staying
    <3> QED BY <1>1, <2>1, <3>1, ScanAnyListed, ScanLists
  <2>2. CASE EnterAny
    <3>1. phase = "scan" /\ phase' = "scan" /\ UNCHANGED outer
      BY <2>2 DEF EnterAny, AtChild, AtPartial, AtValue, AtEntryField, AtField, In, Enter,
                  Scanning, Staying
    <3> QED BY <1>1, <2>2, <3>1, ScanChildListed, ScanLists
  <2>3. CASE EndRootOfAny \/ ReplaceInAny BY <1>4, <2>3 DEF EndRootOfAny, ReplaceInAny
  <2>4. CASE ExcludeAnyError BY <1>3, <2>4 DEF ExcludeAnyError
  <2>5. CASE ScrubAny BY <2>5, ScrubAnyLists
  <2> QED BY <1>2, <1>7, <2>1, <2>2, <2>3, <2>4, <2>5 DEF ScanAnyStep
<1>8. CASE ScanChildStep
  <2>1. CASE UntypedChildError \/ EnumValueError
    BY <1>3, <2>1 DEF UntypedChildError, EnumValueError
  <2>2. CASE ~(UntypedChildError \/ EnumValueError)
    <3>1. EnterMessage \/ EnterMap \/ EnterPacked \/ EnumValue \/ PackedValue \/ EndPacked
      BY <1>8, <2>2 DEF ScanChildStep
    <3>2. phase = "scan" /\ phase' = "scan" /\ UNCHANGED outer
      BY <3>1 DEF EnterMessage, EnterMap, EnterPacked, EnumValue, PackedValue, EndPacked, Enter,
                  AtChild, AtEnum, AtPartial, AtValue, AtEntryField, AtField, In, Scanning, Staying
    <3> QED BY <1>1, <3>1, <3>2, ScanChildListed, ScanLists
  <2> QED BY <2>1, <2>2
<1>9. CASE CopyNext
  <2>1. PICK c : Copy(c) BY <1>9 DEF CopyNext
  <2>2. CASE Fail BY <1>3, <2>2
  <2>3. CASE ~Fail BY <2>1, <2>3, PausedLists DEF Copy
  <2> QED BY <2>2, <2>3
<1>10. CASE Replace BY <1>10, PausedLists DEF Replace, Copied
<1> QED BY <1>5, <1>6, <1>7, <1>8, <1>9, <1>10 DEF Running

\* so do the calls of the checksummer,
LEMMA SummingLists == ASSUME PathInv, ListInv, Summing PROVE ListInv'
<1>1. CASE CallChecksummer \/ ChecksummerStep
  BY <1>1, PausedLists DEF CallChecksummer, ChecksummerStep, scrubber
<1>2. CASE FieldSummed \/ ValueSummed
  BY <1>2, PausedLists DEF FieldSummed, ValueSummed, Answered, Staying
<1>3. CASE AnySummed
  <2>1. /\ Calls(stack) /\ Listed(stack, copies) /\ Top.kind = "any"
        /\ phase' = "scan" /\ UNCHANGED outer
    BY <1>3 DEF AnySummed, Answered, PathInv, ListInv, Unwinds, Staying
  <2>2. Listed(stack, copies)' BY <1>3, <2>1, DropAnyListed DEF AnySummed
  <2> QED BY <2>1, <2>2, ScanLists
<1>4. CASE SumError BY <1>4, AbortLists DEF SumError
<1> QED BY <1>1, <1>2, <1>3, <1>4 DEF Summing

\* and so does every step there is.
LEMMA ListStep == ASSUME PathInv, ListInv, [SumNext]_vars PROVE ListInv'
<1>1. CASE Scrub
  <2>1. CASE checkers = <<>> BY <1>1, <2>1, SequenceEmpty DEF Scrub, ListInv
  <2>2. CASE checkers # <<>> BY <1>1, <2>2, SequenceEmpty, RootListed DEF Scrub, ListInv
  <2> QED BY <2>1, <2>2
<1>2. ASSUME NEW c \in Filters, AddFieldFilter(c) PROVE ListInv'
  BY <1>2, PausedLists DEF AddFieldFilter, Between
<1>3. CASE UNCHANGED vars BY <1>3, PausedLists DEF vars
<1> QED BY <1>1, <1>2, <1>3, RunningLists, SummingLists DEF SumNext, Next

\* A list that agrees with the calls has their TagCopys where they remember them.
LEMMA ListedFinds ==
  ASSUME NEW st, NEW list, Calls(st), Listed(st, list) PROVE FindTagCopies(st, list)
<1>1. Len(st) \in Nat /\ Len(list) \in Nat BY ListedTop
<1>2. ASSUME NEW i \in 2..Len(st), HasTagCopy(st[i])
      PROVE  /\ st[i].index \in 1..Len(list) /\ st[i].index > st[i - 1].index
             /\ list[st[i].index].tag = <<st[i].tag>>
  <2>1. i \in 1..Len(st) /\ i - 1 \in 1..(i - 1) BY <1>1
  <2>2. /\ st[i - 1].index \in Nat /\ st[i].index \in Nat /\ st[i - 1].index < st[i].index
    BY <1>2, <2>1, ListedOrder
  <2>3. Floor(st[i]) <= Len(list) BY <2>1 DEF Listed
  <2>4. st[i].index <= Len(list) BY <1>1, <2>2, <2>3, FloorBase
  <2> QED BY <1>1, <1>2, <2>2, <2>4 DEF Listed
<1> QED BY <1>2 DEF FindTagCopies

\* So what the calls of all scrubbers remember is right.
LEMMA InvFinds == ASSUME PathInv, ListInv PROVE TagCopiesFound
<1>1. FindTagCopies(stack, copies)
  <2>1. CASE phase \in {"scan", "sum"}
    BY <2>1, ListedFinds DEF PathInv, ListInv, Unwinds
  <2>2. CASE phase \notin {"scan", "sum"}
    <3>1. stack = <<>> BY <2>2 DEF ListInv
    <3>2. 2..Len(stack) = {} BY <3>1
    <3> QED BY <3>2 DEF FindTagCopies
  <2> QED BY <2>1, <2>2
<1>2. ASSUME NEW i \in 1..Len(outer) PROVE FindTagCopies(outer[i].stack, outer[i].copies)
  BY ListedFinds DEF PathInv, ListInv, Waiting, Unwinds
<1> QED BY <1>1, <1>2 DEF TagCopiesFound

\* The length of every nested message, map entry and packed enum is written into its own
\* TagCopy, whatever messages and checkers there are and whatever is summed.
THEOREM SumFindsTagCopies == SumSpec => []TagCopiesFound
<1>1. Init => ListInv BY SequenceEmpty DEF Init, ListInv
<1> QED BY <1>1, PathInit, PathStep, ListStep, InvFinds, PTL DEF SumSpec

\* The same for a scrubber by itself.
THEOREM ScrubFindsTagCopies == Spec => []TagCopiesFound
<1>1. Init => ListInv BY SequenceEmpty DEF Init, ListInv
<1>2. [Next]_vars => [SumNext]_vars BY DEF SumNext
<1> QED BY <1>1, <1>2, PathInit, PathStep, ListStep, InvFinds, PTL DEF Spec
===============================================================================
