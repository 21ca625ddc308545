# proto_processing_lib in TLA+

`proto_processing_lib` removes from a serialized protocol buffer message the
fields that its callers should not see. This directory models the parts that
decide which fields those are and that cut them out of the bytes, checks them
with TLC on small instances, and proves some of their properties with TLAPS for
all instances. Source paths below are relative to
`src/proto_processing_lib/proto_scrubber/`.

## Inventory

| Component | State | Operations | Where it is modelled |
|---|---|---|---|
| `FieldMaskNode`, `FieldMaskTree` (`field_mask_node.*`, `field_mask_tree.*`) | a tree of nodes (`type_`, `is_leaf_`, `is_map_`, `all_keys_included_`, `children_`), `status_` | `AddOrIntersectFieldPaths`, `CheckField`; inside: `InsertField`, `InsertValueField`, `AddChild`, `Intersect`, `Clone` | `FieldMaskTree` |
| `ProtoScrubber`, scrubbing (`proto_scrubber.*`) | `field_checkers_`, `any_field_checkers_`, `field_check_only_`; during a call the position in the input, the `path`, the list of `TagCopy`, `parent_tags` and the checksum of what was scrubbed | `AddFieldFilter`, `Scrub`, `ScrubWithChecksum`; inside: `ScanField`, `ScanMapField`, `ScanMapEntry`, `ScanEnumField`, `ScanAnyField` with a nested scrubber, `ScanChildField`, `CheckField`, `CalculateScrubbedFieldsChecksum`, `CopyAndInsertTag` | `ProtoScrubber`, `ScrubWithChecksum` |
| `ProtoScrubber`, type cache (`proto_scrubber.cc:989-1004`) | `field_type_map_`, `lock_` | `GetFieldType`, from many threads | `TypeCache` |
| `Checksummer` (`checksummer.*`) | the depth limit, a table of renderers | `CalculateChecksum`, `CalculateSingleFieldChecksum`; inside: `ScanMessage`, `ScanRepeatedField`, `ScanNonRepeatedField`, `ScanPacked`, `ScanAnyMessage`, the renderers, `AddToChecksum` | `Checksummer`, and in `ScrubWithChecksum` as the scrubber calls it |
| `FieldMaskPathChecker` (`field_mask_path_checker.*`) | a `FieldMaskTree` | `AddOrIntersectFieldPaths`, `CheckField` | `FieldMaskPathChecker` |
| `UnknownFieldChecker` (`unknown_field_checker.*`), `InternalFieldChecker` (`internal_field_checker.*`) | none that changes | `CheckField`, `CheckType`, `SupportAny` | `FieldCheckers` |
| `utility.*` | none | predicates on types | the one the checkers use in `FieldCheckers`; the others' results are data of the schemas |
| `constants.*`, interfaces, factories | none | names, glue | not modelled |
| protobuf streams, `MessageData` | position, limits, bytes | `ReadTag`, `PushLimit`, `SkipField`, ... | external: `WireFormat`, as the code uses them |

**How they interact.** A `ProtoScrubber` owns nothing but pointers to field
checkers; for each field of a message it calls every checker's `CheckField()`
with the path of the field, and combines the verdicts include, partial and
exclude. `FieldMaskTree` is such a checker, and `FieldMaskPathChecker` wraps
one; `UnknownFieldChecker` and `InternalFieldChecker` are the others. The
scrubber and the trees call the caller's `type_finder` to resolve the
types of nested fields. One scrubber is used by many threads at once, each with
its own message; the cache of field types is what they share. An Any is scrubbed
by a second `ProtoScrubber` made on the way, with those of the checkers that
support Any. With a checksum asked for, the scrubber calls the `Checksummer` for
each field it drops, on its own input stream: the two share the position, hand
over `parent_tags`, and xor their sums.

**What is hard.**

* *Bytes.* A submessage's length is written before its fields, but known only
  after they have been scanned, and the size of the length depends on it. The
  scrubber keeps a list of segments to copy and tags to insert, merges segments
  that touch, takes some back, and remembers positions in that list across
  nested calls. Every level must report exactly the bytes its part will make.
* *Order in map entries.* Keys and values may be missing, repeated or reversed;
  the verdict on a value is taken when the key is read.
* *Failure in the middle.* An error at any depth leaves the message as it was; an
  illegal path in a list leaves the tree as it was, and broken for good.
* *Threads.* Check and insertion in the type cache, around a callback.
* *Maps in masks.* A map is addressed by a key, by the wildcard, or under all keys;
  field names and keys live in the same `children_`.
* *Any.* The fields of an Any come in any order, its value is bytes for the outer scan and
  a message for the inner one, whose depth and tags go on from the outer one's.
* *Positions in a shared stream.* The checksummer reads one tag too far to know that
  a repeated field has ended, and hands tag and position to its caller; beyond
  its depth limit it leaves a field unread, and its callers read on.

**What makes each component correct.** The tree: a verdict is that of the union
of each list's paths, intersected over the lists; a list is taken whole or not
at all. The scrubber: the result is the serialization of what all checkers
leave, or an error and the old message; the checksum of what was scrubbed is
what the checksums of the message before and after differ by. The cache: one answer per field, asked
for once, and no thread waits for ever. The checksummer: every value counts once,
with the tags that lead to it, in whatever order and packing it comes.
`PROJECT.json` lists the hazards with their lines, and the properties that
would catch them going wrong.

## Modules

| Module | What it is |
|---|---|
| `MaskSchema` | What masks are compiled against: types, fields, segments of paths, `FindChildField()` |
| `FieldMaskTree` | The compiler and the verdicts, one action per branch of the code |
| `FieldMask` | Abstract specification: a verdict for every query, met with each list accepted; a broken mask ends the process, as in the code and not in its documentation |
| `MaskMeaning` | What a list of paths means, without a tree; which lists are compiled exactly, and which may be accepted and rejected |
| `MaskVerdicts` | The property that compares the tree's verdicts with what the lists mean; the mapping of the tree to the abstract mask |
| `MCFieldMaskTree` | Schema, paths, lists and queries; a claim of the documentation |
| `FieldMaskTree_proofs` | Theorems about `FieldMaskTree`; the tree that one list is compiled to answers as its paths |
| `MaskVerdicts_proofs` | The intersection of trees answers as the lists in common: the theorem about `ExactVerdicts`; the tree implements the abstract mask: the theorem about `ImplementsMask` |
| `FieldMaskPathChecker` | The wrapper's `CheckField()`, which folds cycles of types |
| `MCPathChecker` | Types that contain each other; the property that compares the wrapper with paths taken back by hand |
| `WireFormat` | Bytes: how tags, varints, lengths and fields are read, skipped and written |
| `MessageTypes` | What messages are scanned against: types, fields, `FindField()`; what a checksum is |
| `Messages` | Reference: messages before they are serialized, their bytes, and their checksum |
| `ProtoScrubber` | The scan, one step per iteration of the innermost loop, and the copying |
| `ScrubbedMessage` | Reference: what is kept of a message and when a call fails, on the message's fields instead of its bytes; the properties every run of the scrubber shares |
| `MCProtoScrubber` | Schema, messages, checkers for every combination of verdicts |
| `Checksummer` | The scan that sums a message or a single field, one step per field |
| `MCChecksummer` | Schema, messages, depth limits; the properties that compare sum and reference |
| `ScrubWithChecksum` | `ProtoScrubber` and `Checksummer` composed: the calls of one by the other |
| `FieldCheckers` | `UnknownFieldChecker` and `InternalFieldChecker` |
| `MCScrubWithChecksum` | Schema with Any, messages, rules and the two checkers; the properties of the sums |
| `WireFormat_proofs` | Lemmas: sequences whose elements have no common type; what is read stays inside the limit, and never goes back |
| `Checksummer_proofs` | Theorems about `Checksummer`: limits, positions, tags |
| `ScrubCalls_proofs` | Which steps of a scan go on, call and return; theorems about the path, and about the tags of scrubber and checksummer together |
| `ProtoScrubber_proofs` | Theorems about the message and the list of `TagCopy` |
| `ScrubBounds_proofs` | Theorem about limits, positions and the segments to copy |
| `TypeCache`, `TypeCache_proofs` | The shared map of field types, and theorems about it |

### FieldMaskTree

A tree is a function from positions (sequences of child names) to nodes, so
`children_` of a node is the set of positions one name longer. The loop over
the paths is `NextPath`; `InsertField()` and `InsertValueField()` call each other
as their last action, so that their pending call is one record of arguments
(`at`, `key`, `segs`) and each branch is one action. `Intersect()` recurses into
pairs of children in the order of a hash map; the pending calls are a set
`work`, taken in any order, and `merged` is the result under construction. An error
discards the new tree (`FailPath`). `ABSL_LOG(FATAL)` is the state `aborted`.
Segments arrive split and parsed: a field name with a key, `NoKey`, or
`Malformed` where `CUnescape` fails. `CheckField()` is an operator.

`FindChildField()` remembers the fields of a type; that cache only repeats the
schema and is left out.

### FieldMaskPathChecker

`CheckPath()` is a loop over the path: `Visit` looks up the node's type in
`type_to_node` and may replace the node, `Follow` takes one element. The reference in
`MCPathChecker` has no tree: it keeps the types a path is inside of, and on arriving at
one of them again goes back to where the path entered it, forgetting what it
entered since; the lists' verdict on the way so shortened is what `Meaning` says. The
code does not forget, so the two agree on paths that enter each type in one way
(`OneWay`). Masks with map keys are left out, as the header does.

### WireFormat

A message is a sequence of numbers, and a byte has no meaning of its own: a scan
that is out of step reads a value as a tag, as the code does. Tags and values take one
byte; a length takes two bytes from `VarintBase` on (5 in the runs of the
scrubber instead of 128, so that the lengths of short messages cross the boundary). Reading
stops at the limit of the innermost call or at the end of the data, whichever comes first
(`EndOf`); tag 0 is read there, and is a proper end of a message in both cases. A limit may be
behind the end of the data, and so may a position: skipping a field that passes such a limit
goes to the limit (`Skip`). This is how `CodedInputStream` behaves for the calls the code
makes; the outermost message has no limit.

### ProtoScrubber

Nested calls are frames on `stack`; a frame holds the call's locals: its limit, the
position of its own `TagCopy`, the bytes counted, for a map entry what is known of
the key, for an Any its two fields. Each iteration of a scanning loop is
one action chosen by the field and its verdict; returning from a call is
`Return`, which performs the rest of the caller's iteration. `CopyAndInsertTag()`
writes one `TagCopy` per step. The value of an Any is scrubbed by a scrubber of its own:
`ScrubAny` puts the locals of the waiting one on `outer` and starts again on
`Data`, the value's bytes, with `AnyCheckers` and the `Depth` of the Any;
`AnyScrubbed` takes them back. `parent_tags` is `tags`, and a sum is `sum` (a set, see
Checksummer).

Checkers are constant operators, their verdicts on known fields, on unknown fields (both
asked with the path and the depth) and on types in Any, so that a run covers every checker that can be written as data. An error drops
the path and the list of `TagCopy` as they are, which are locals of the call (`proto_scrubber.cc:150-152`): `Abort`.
`IsTypePackable()` is false for messages, so the branch for packed maps
(`proto_scrubber.cc:658-686`) cannot be reached and is left out, as are the
statistics (empty functions), groups, and the `Unimplemented` branches for verdicts
that do not exist.

### ScrubWithChecksum

Where the scrubber calls the checksummer it goes to phase "sum". `Checksummer` is
instantiated with its own position and stack and the scrubber's bytes and tags;
`CallChecksummer` starts it behind the tag the scrubber has read, within the scrubber's
limit, and `FieldSummed`, `ValueSummed` and `AnySummed` are the three places that get
the answer. `ScanField()` goes on with the tag the checksummer has read too far;
`ScanMapEntry()` overwrites it (`proto_scrubber.cc:845-846`), and the scan goes
on behind that tag.

### FieldCheckers

Both are functions of the field and its depth, or of the type in an Any. The limit
of 100 (`unknown_field_checker.cc:32`) is 2 in the run, the depths of whose messages
go from 0 to 4. `check_embedded_fields_` is always true.

### Checksummer

A CRC of tags and value that is xor-ed into a sum is a pair (tags, value) that is
put into a set, or taken out if it is in it: the sum is the set of pairs added
an odd number of times, and two sums are equal only if the sets are. (Two
pairs with one CRC are the collisions every checksum has.) `parent_tags`, joined with
dots in the code, is the sequence `tags`. `pos` is the position in
the stream; the loops of `ScanMessage()` and `ScanRepeatedField()` are frames
"message" and, where the caller asked for one field, "single", which becomes "last" when
`Onward` reads another tag. The value of an Any is a stream of its own, after
which the scan is `back` where the Any ended. An error is handed up call by call: in phase "failing" each
`UnwindCall` takes a call off the stack and pops the tag that was pushed for it (`checksummer.cc:325`, 391), and `FailCall`
returns to the user. A wrapper whose type is not found (`Found`) is no error: its renderer
logs a warning and reads nothing (469-473), and `LeaveWrapper` leaves the scan inside the wrapper, out of the
wrapper's limit. All kinds of numbers are varints
here; groups, fixed-width kinds, and missing ends are not in the messages.

### TypeCache

`GetFieldType()` by any number of threads: `Lock`, lookup, the callback (which may
answer differently each time), `Insert`, `Return`.

## Runs

| Run | Bounds | Shows |
|---|---|---|
| `mask_tree` | 16 legal paths of every shape and 6 illegal ones, lists of at most 2, 2 lists; 1,012,072 states | types; pending calls on existing nodes; exact verdicts on 25 queries; lists all or nothing |
| `mask_refinement` | 13 lists, 2 of them with a key that is the name of a field, 3 calls; 10,921 states | `FieldMaskTree` implements `FieldMask`; every call returns |
| `mask_cycles` | 8 paths, lists of at most 2, 2 lists, every query up to 4 fields deep; 66,615 states | cycles of types judged as their first pass |
| `scrub` | 40 messages with up to four levels of nesting and 10 whose end is missing, each under all checkers of a family, 2 calls, a checker added between them; 138,204 states | bytes equal to the reference, failures as in the reference, lengths kept at every step, limits and positions nested, the message intact otherwise |
| `scrub_sum` | 50 messages of Any, maps, Structs, enums and unknown fields under 11 lists of checkers, 8 malformed or odd map entries and 2 messages with wrappers of a type that is not found under 3, with and without a checksum, one call; 31,091 states | bytes, failures, sums; unknown fields gone down to the limit; tags and path follow the calls, and each call finds its own `TagCopy`; every call returns |
| `checksum` | 88 messages of every kind of field, twice nested, and with types that are not found, with and without a tag of a parent, limits -1, 0, 1, 3; whole messages and first fields; 12,434 states | limits are nested and tags follow the calls; the caller gets its tags back, after an error too; the sum is that of the fields; failures as in the reference; where a single field ends; every call returns, beyond the limit too |
| `type_cache` | 3 threads, 2 fields; 3,938 states, deadlock checked | one answer, one question, entries stay, the lock is released |
| `mask_union`, `mask_cycles_anywhere`, `scrub_late_key`, `scrub_packed_cut`, `checksum_depth` | one claim each | the findings below |

**Why the bounds are enough.** A path has every kind of segment the code tells
apart, in front, in the middle and at the end; two paths meet in a list in every
order, two lists meet in every combination; a third list (`mask_refinement`)
meets a tree that already is an intersection. Messages reach every branch of the
scan (TLC's coverage shows no action unused), nested twice in themselves, with
lengths below and above `VarintBase`; two calls show that the output is a proper
input. Three threads let one insert while another waits and a third
starts. `CHECK_DEADLOCK FALSE` where calls are bounded by `MaxCalls` or
`MaxScrubs`, or a process has aborted.

**The exact part of masks.** `ExactVerdicts` and `ImplementsMask` promise verdicts for
lists that are `Unmixed`: below one map (or enum, which can have keys too) a list does
not name keys and use all keys too, nor the wildcard beside either, except beside
whole entries `m["k"]`; and whole entries, `m["*"]` too, do not
meet a list with all keys, nor keys one with the wildcard. Outside of that the code is not exact. Of one list, see the
first finding. Of two lists: a key and the wildcard are children with different names, so that `m["k"].f` and
`m["*"].f` have nothing in common; and the intersection of `m["k"]` with `m.f` puts a clone of the node
of `m` in the place of the key (`field_mask_node.cc:246-248`, 281-284), which still has all keys included, so that
`CheckField()` takes the field behind the key for another key and does not include `m["k"].f`. The key of
`m["k"].f` and all keys of `m.g` or `m.f` are intersected as they should be (274-286), and are in the exact part.
`ImplementsMask` promises for all lists, mixed ones too, whether a call is accepted: the legal ones
are and the others are not, with two exceptions. `Excused` describes the illegal paths the code accepts
because an earlier path of the list hides them. And where a path names a key of a map, and another goes on
under all keys to a field of that very name (`Confused`), the list may be taken either way:
keys of a map and fields of its values are children of one node, so that the second path
goes on at the node of the key.

**Where sums are compared.** `ExactChecksum`, `FailsExactly` and `StopsBehindField` of
`MCChecksummer` speak of messages that are nowhere nested beyond the limit
(`Within`); with no limit this is every message. The reference takes the fields of a wrapper whose
type is not found for fields of the message around it, as the code does (`AsRead`, see below). Beyond it only `Terminates` and
the last finding say something.

**Where outputs are compared.** `OutputExact`, `FailsExactly` and `SumsAddUp` of the
scrubber speak of `Regular` messages: fields serialized as their types say, map
entries with a key and then a value, no wrappers of a type that is not found. For the others (`Irregular`) there is no
reference; the runs check the path, the tags, the positions of `TagCopy`s and termination, and a
finding says what goes wrong. A check-only scrubber fails at every field left out but for values of
packed enums, which the code passes over; asked for a checksum, the scrubber also fails
where what it leaves out cannot be summed. Where the end of the message is missing (`missing` of a
field in `Messages`), the cut is in the middle of nested fields, and the nested ones lack less than,
as much as, or more than those around them; `Overruns` says when that is an error.

**Fairness.** Calls are sequential code, so a call that has started takes its next
step (`WF` of `Compiling`, of the `Running` of scrubber and checksummer, which includes handing up an error, and of both together in `SumSpec`); nothing says that a caller calls. In
`TypeCache` a thread inside the critical section keeps running, and so does the type
finder (it returns, and does not call back into the scrubber); nothing is
assumed of threads that wait, so `Released` says nothing of who gets the lock next.

Every property has a mutant: a change of the modelled code, defined next to the
original, under which TLC finds the property violated.

## Findings

1. `mask_union`: a list with `m["k"]` and `m.s` is not the union of its paths
   (`field_mask_tree.h:67-69`); `s` is inserted among the keys of `m`.
2. `mask_cycles_anywhere`: with `A {B b, b2}` and `B {A a}`, `b2` inside `b.a` is judged by the
   mask of `b` (`field_mask_path_checker.h:58-60`).
3. `scrub_late_key`: a partially included entry gets the first bytes of the entry in place
   of a key that comes later (`proto_scrubber.cc:747`, `808`); of two keys it gets the
   first, whatever the verdict on it.
4. `scrub_packed_cut`: the loop over a packed enum whose end is missing from the message does not
   end (`proto_scrubber.cc:577`): it waits for the limit, and reads nothing. In the model the
   step `PackedValue` is enabled for ever and changes nothing.
5. `checksum_depth`: beyond the depth limit a field is not skipped but left unread
   (`checksummer.cc:246-250`); what follows its tag is summed as fields of the
   messages around it.

Seen while modelling, without a run of its own:

* A broken tree ends the process when it is used again (`ABSL_LOG(FATAL)`, `field_mask_tree.cc:53` and 106).
  `field_mask_tree.h:72-74` says that `AddOrIntersectFieldPaths()` "will yield an error of FAILED_PRECONDITION",
  and 81-82 that `CheckField()` returns kExclude; the statements that do so stand behind the `LOG(FATAL)` and are
  not reached. `FieldMask` has this as `Abort`, so that a tree can be compared with its mask to the end:
  `ImplementsMask` shows that a tree aborts only when it is broken, and not that it should.
* Of an included entry with two values, the second takes back the `TagCopy` of the first (`proto_scrubber.cc:788-803`),
  but `result` still counts the first, and its key: the length written for the entry is too large. That the key
  is not copied twice is the work of the branch for equal segments (191), where the key has a `TagCopy` of its own.
* A nested message whose end is missing is not an error: the end of the data is a proper end for
  `ConsumedEntireMessage()`, and the length is corrected to what there is. A field copied whole stays
  as it is, with its old length, and is then longer than the message around it says. Only a
  field that by its length passes a limit behind the data fails, in `CopyAndInsertTag()` (1018), and
  not at all when only checking. `Checksummer::ScanPacked()` (`checksummer.cc:404`) has the loop of finding 4.
* `ScrubWithChecksum()` is to scrub "same as Scrub" (`proto_scrubber.h:82-83`). It fails where `Scrub()` does
  not: when an excluded field has a nested type that is not found, or an Any without `type_url` or with a
  type that is not found (`proto_scrubber.cc:1075-1079`). In map entries that have fields
  behind an excluded value it drops a tag (775, 846), and reads on behind it.
* The key of a Struct's value that comes out empty is taken back without being summed
  (816-825), so that the sum of what was scrubbed and the sum of what remains do not give
  that of the original, as `proto_scrubber_test.cc:122-129` has it for other messages. `SumsAddUp`
  leaves these keys out of the original. The same is true of an entry that has a key only, of an
  enum value that is judged "partial" (it is left out, but only "exclude" is summed), and of an
  explicit 0 left out of a partially scrubbed Timestamp.
* With `map<string, R> n` in `R`, the legal list `n["m"].p`, `n.m.f` is rejected, as there is no `f` in the
  type of `n["m"]`, and the list `n["m"].a.f`, `n.m.a`, which is not legal, is accepted
  (`ConfusedLists` of `MCFieldMaskTree`): `InsertField()` looks for the name among all children of the node,
  keys or fields (`field_mask_node.cc:169-173`).
* A wrapper whose type is not found is only a warning for the checksummer (`checksummer.cc:469-473`), where every other
  type that is not found is an error (308-311). The call returns OK; as nothing of the wrapper has been read, its fields
  are summed as fields of the message around it. In `ScrubWithChecksum()` the scrubber goes on there
  too: of an excluded wrapper of this kind the fields stay in the output, as fields of the message around it.
* "Unknown" fields of an Any that is included by its type stay in it (415-418), though checkers
  exclude unknown fields; they are dropped when it is scrubbed (376-383).

## Proofs

**TypeCache** (`TypeCache_proofs`), for any sets of threads, fields and types. The
inductive invariant adds to the types: a thread in the critical section is the one
that holds the lock; a field that has been asked about is in the map, or is the
field of the thread between the callback and the insertion; whatever has
been returned for a field is what the map holds; and the thread about to return
holds the map's answer. From it: type correctness, mutual exclusion, one
answer per field (`Agreement`), one question per field (`AskedOnce`), and that
entries never change (`EntriesStay`).

**FieldMaskTree** (`FieldMaskTree_proofs`), for any schema and any lists. The
inductive invariant adds to the types and to `PendingNodesExist` that trees have a root
node, that during an intersection either the result has one or the call that
makes it is pending, that pending calls refer to the two trees, and that a
running call implies an unbroken tree. The lemmas on trees (adding a node,
marking a leaf, cloning a subtree to another position) carry the steps. From
it: type correctness, no call on a node that does not exist, and
`AllOrNothing`.

**Verdicts of masks** (`FieldMaskTree_proofs`, `MaskVerdicts_proofs`), for any schema, any queries and any
lists that are `Unmixed`: `ExactVerdicts`. The argument has four parts.

* *What a tree answers.* To each position of a tree belong the fields on the way to it (`F`) and the pattern of
  message elements it stands for (`Pt`). A tree is in shape (`Shape`) when these agree with its nodes
  (`Spelled`), when a node has only such children as the paths it was made from address it by (`Fitting`: by keys, under all
  keys, by the wildcard), and when each path has a leaf and each position a path (`Linked`). Then no
  query has two ways through the tree to choose from, and `CheckField()`, which takes the first it finds, answers as the
  paths (`PathVerdict`, which `Union` is).
* *Insertion.* The tree is in shape at every step (`ListInv`). An insertion in progress is on the node that
  the segments it has taken lead to (`FieldPlace`, `ValuePlace`); a child it adds or a node it makes a
  leaf keeps the shape (`Hangs`, `Marked`). A step that marks a leaf hides what
  hangs below it, and the paths there are covered by the leaf.
* *Intersection.* Each node of the result comes from one of each tree, A and B of it (`Merges`, `Meeting`); the two
  are on one level (`Level`): they stand for the same fields, but one may be a map under all keys and the other
  one of its entries, when the loop over keys has stayed on the former. A walk of `CheckField()` through the
  result is at a node when the walks through the trees are at the two it comes from, or have stopped (`Tracks`). So
  the verdict is the stricter of the two (`Stricter`), which is what `Met` says.
* *Lists.* The invariant of the history (`VerdictInv`) is that the root stands for the lists accepted (`Answers`)
  and that an intersection in progress is that of the root and of the list being compiled (`Intersected`).

That `Unmixed` is needed of *all* lists, not of neighbours only, is in `Apart`: a tree that is an
intersection remembers the sorts of keys of every list before it. The inductions over the length of a path,
query or loop are on sets of numbers: the set of those for which the claim holds has no least number
outside of it (`LeastNumber`, `UpTo`, from the library's `WFMin`).

**The abstract mask** (`MaskVerdicts_proofs`, `TreesImplementMasks`), for any schema, any queries and any
lists, mixed ones too: `ImplementsMask`. The initial verdicts are all "include". A step
that completes a list is `Accept`, one that fails on a path `Reject`, one that uses
a broken tree `Abort`; all others are stutters, as the root changes only with the history of
lists (`MaskStep`). What has to be shown of them:

* *Verdicts*: for `Unmixed` lists the new ones are those of `VerdictInv` before and after, and one list more
  is one more list to `Meet` (`MoreMet`). For others they are just verdicts.
* *What a tree has been made from* (`SowInv`, for lists that are neither empty nor `Confused`, `Plain`). To each
  node of the tree being built belong the fields on the way to it (`F`) and whether it
  is the node of a key (`K`). It was put there by a path of the list that has those fields (`Sown`, `Sprouts`),
  has the type the schema has behind them (`TypedBy`), and if it is a leaf an earlier path ends
  there (`Ended`). Below the node of the call in progress there is only what earlier paths
  put there (`Traced`).
* *Only what may be rejected is rejected* (`RefusedList`): the call is on the node that the segments it has
  taken lead to (`Stands`), whose type is the one the schema has behind these segments. So when
  `FindChildField()` fails, the path is illegal at that segment. This is where confused lists are
  different: the node's type can then be that of another path.
* *Only what may be accepted is accepted* (`AcceptedList`): of each path taken so far every segment was legal, or the
  illegal one was not looked at since an earlier path has a leaf above it or a node for it
  (`LegalUpTo`, `AcceptedUpTo`), which is what `Excused` says.

**Checksummer** (`Checksummer_proofs`), for any bytes, well-formed or not, any schema and any depth limit.
Two properties hold only together with more than they say. `TypeOK`, that limits are nested and the
position is inside the innermost one, needs of each call that waits where it goes on: what it has read of an
Any is before the position (`ValueRead`), the value of an Any, which is a stream of its own, goes on at `back` inside
the limit of its caller (`Nested`), and a tag that is read ahead begins where the position handed back is
(`AtTagRead`). `Bounded` says the same for any two positions, the one where a call began and the one where
the caller's limit is: `Stops` is the invariant that what the call hands back lies between the two, and the proof about
`SumSpec` needs it of each call. `TagsRestored`, that a call
leaves the tags as it got them whether it succeeds or fails, needs that at every moment, also while an error is
handed up, the tags are the caller's, followed by one for each call but the outermost (`Follows`), and that
an error is never found inside a packed field, for which no call has pushed a tag; a packed field has its
tag pushed a second time with another wire type. Every action is shown to be one of three
kinds: it goes on, makes a call or returns (`GoesOn`, `MakesCall`, `Returns`); the invariants are
proved for the kinds. What reading does is in the lemmas of `WireFormat_proofs`: a varint, a length, a
string and a skipped field end inside the limit, and none before it began.

**ProtoScrubber**, for any messages, types and checkers, alone (`Spec`) and with the
checksummer (`SumSpec`), whatever the bytes are; the scrubbers of Anys may be nested to any depth.

* `KeptIntact` (`ProtoScrubber_proofs`). The inductive invariant is that a scrubber that only checks
  never copies (`CopiesToWrite`): the property alone does not say that the end of the copying,
  which writes, is not reached with check. All steps but four (the begin of a call, a filter
  added, the end of a scan, the end of the copying) are shown to be `Quiet`: they leave the
  message alone and begin no copying.
* `PathUnwound` (`ScrubCalls_proofs`). The property speaks of a scan that has succeeded (an error drops the path as it is); the invariant (`PathInv`)
  says of every moment how long the path is: each call has its own length to start from (`Depths`), a
  caller has pushed the name of its field unless it is a Value or a map entry, and a map
  entry has its key there as soon as it has found one, however often it finds one. The same holds of every scrubber that
  waits in `outer`. As with the checksummer, a step goes on, calls or returns.
* `TagsFollowCalls` (`ScrubCalls_proofs`), of `SumSpec`. The tags are those around the scrubber and those of its
  calls (`TagsInv`). While it waits for the checksummer, the steps are those of `Checksummer` with the scrubber's
  data; `Checksummer_proofs` is instantiated (`CP`) as the model instantiates `Checksummer`, and its
  invariant `Handed` gives back the tags that were handed over. Instead of an induction over
  what the recursive function of `TagsAround` computes, the invariant carries along that the function
  exists and what it has for each scrubber in `outer` (`Surround`).
* `TagCopiesFound` (`ProtoScrubber_proofs`). A call remembers a position in a list to which the calls
  inside of it add, in which they merge segments, and from which they take back. The property is not inductive: that the
  `TagCopy` of a caller survives depends on how much its callees take back. The invariant (`ListInv`)
  gives each call a `Floor`, up to where its caller's list must stay (its own `TagCopy`, and the value
  that a map entry has added), and a `Base`, the end of its caller's list when it was called: a `TagCopy` further back if
  the caller is a map entry that has appended its key, and not if the key was rolled into the `TagCopy`
  before (`proto_scrubber.cc:808-825`). Each `Floor` is at most the `Base` of every call
  further in; a call that returns keeps all tags up to its `Base` (`Keeps`).
* `TypeOK` (`ScrubBounds_proofs`), of `Spec` and `SumSpec`. The property speaks of limits, of positions in the list and of
  what is to be copied; nothing of it is inductive without what the calls remember. The invariant
  (`BoundsInv`, on top of `PathInv` and `ListInv`) says that everything a frame keeps has been read (`FrameIn`: where it starts, the
  key of a map entry, wherever in the entry it is, and the two fields of an Any), that every
  segment of the list, merged or not, ends at or before the position (`SegmentIn`), and that limits are nested in the scrubber that runs
  and in those that wait, whose values of Anys are bytes. When a key is taken out of the segment it
  was rolled into, the segment's length may be anything, negative too, as far as the invariant
  knows; what it needs is the segment's end. A returning call hands its position to a caller with
  a wider limit. With the checksummer, the invariant adds that a call of it for a field or a value
  begins at the position of the scan and stops inside the scan's innermost limit
  (`StopsBehind`, from `Stops` of `Checksummer_proofs`); the scan goes on at the position it hands back.

The assumptions are those named in the modules (`SchemaAssumption`, `PathListsAssumption`,
`CacheAssumption`, `VarintBaseAssumption`, `QueriesAssumption`, `AnyKeyAssumption`, `MessagesAssumption`, `InputsAssumption`, `AnyAssumption`): that the constants have the form the
comments give them; the scrubber's and the checksummer's messages are sequences of natural numbers, and the two
fields of an Any that the code reads are strings (`AnyHasTexts`). TLC evaluates them in every run of the modules they are in.

**Only model-checked**, and why:

* Liveness (`Returns`, `Terminates`, `Released`), which is beyond the prover.
* `CyclesOnce`, `OutputExact`, `FailsExactly`, `SumsAddUp`, `UnknownsRemoved`,
  `ExactChecksum`, `StopsBehindField`: they compare with references that are defined by recursion over
  the types on a path or over the fields of nested messages, which are trees, and what these compute for all inputs needs
  induction over data.
* `KeptBytes` is an invariant only for `Regular` messages (of the other kind, see what was seen without a run), which
  are a matter of the fields that the bytes were made from.

## Plan

1. *Done*: the mask compiler with its abstract mask, the scan, the type cache; the
   first theorems.
2. *Done*: `FieldMaskPathChecker` on the trees of `FieldMaskTree`, over types that
   contain each other.
3. *Done*: `Checksummer`.
4. *Done*: the checksums of `ProtoScrubber`, composed with `Checksummer`.
5. *Done*: `ScanAnyField()` and its nested scrubber; `UnknownFieldChecker` and
   `InternalFieldChecker`.
6. *Done*: messages whose end is missing, which `CopyAndInsertTag()` checks for
   (`proto_scrubber.cc:1018`).
7. *Done*: proofs about the types and the tags of `Checksummer`; path, tags, list, limits and
   positions of `ProtoScrubber`, alone and with `Checksummer`.
8. *Done*: the proof that compiled trees answer as their lists say (`ExactVerdicts`).
9. *Done*: the proof that `FieldMaskTree` implements `FieldMask`, for all schemas and lists.

Not planned: the text of errors and logs, `DebugString()`, statistics, the
formatting of numbers in the checksummer, the singletons of `GetDefault()`, and the concurrent use of
`AddFieldFilter()` during a call, which is undefined behaviour.
