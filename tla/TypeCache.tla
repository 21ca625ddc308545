------------------------------ MODULE TypeCache -------------------------------
(***************************************************************************)
(* ProtoScrubber::GetFieldType() (proto_scrubber.cc): the map of field     *)
(* types that all threads scrubbing with one ProtoScrubber share, filled   *)
(* in as fields are met.  It is the only state a const ProtoScrubber       *)
(* changes; lock_ guards it, also while the caller's type_finder_ runs.    *)
(***************************************************************************)
EXTENDS Naturals

CONSTANTS
  Threads,       \* the threads that call Scrub()
  NoThread,      \* nobody holds lock_
  Fields,        \* the fields they ask for
  MessageFields, \* those of kind TYPE_MESSAGE
  Types,         \* what type_finder_ may find
  NoType,        \* nullptr in place of a type
  Absent         \* the field is not in field_type_map_

ASSUME CacheAssumption ==
  /\ NoThread \notin Threads
  /\ MessageFields \subseteq Fields
  /\ NoType \notin Types
  /\ Absent \notin Types \cup {NoType}

VARIABLES
  lock,     \* lock_: the thread that holds it
  fieldTypeMap, \* field_type_map_
  pc,       \* where each thread is in GetFieldType(), "idle" outside
  field,    \* its argument
  result,   \* its result
  asked,    \* history: how often type_finder_ was asked about each field
  returned  \* history: the results GetFieldType() returned for each field

vars == <<lock, fieldTypeMap, pc, field, result, asked, returned>>

Answers == Types \cup {NoType}

Locations == {"idle", "lock", "find", "finder", "insert", "unlock"}

Cached(f) == fieldTypeMap[f] # Absent

Init ==
  /\ lock = NoThread
  /\ fieldTypeMap = [f \in Fields |-> Absent]
  /\ pc = [t \in Threads |-> "idle"]
  /\ field \in [Threads -> Fields]
  /\ result = [t \in Threads |-> NoType]
  /\ asked = [f \in Fields |-> 0]
  /\ returned = [f \in Fields |-> {}]

GetFieldType(t, f) ==
  /\ pc[t] = "idle"
  /\ field' = [field EXCEPT ![t] = f]
  /\ pc' = [pc EXCEPT ![t] = "lock"]
  /\ UNCHANGED <<lock, fieldTypeMap, result, asked, returned>>

Lock(t) ==
  /\ pc[t] = "lock" /\ lock = NoThread
  /\ lock' = t
  /\ pc' = [pc EXCEPT ![t] = "find"]
  /\ UNCHANGED <<fieldTypeMap, field, result, asked, returned>>

\* Mutant: the result of find() is not compared with end().
HitAlways(t) ==
  /\ pc[t] = "find"
  /\ result' = [result EXCEPT ![t] = fieldTypeMap[field[t]]]
  /\ pc' = [pc EXCEPT ![t] = "unlock"]
  /\ UNCHANGED <<lock, fieldTypeMap, field, asked, returned>>

Hit(t) ==
  /\ pc[t] = "find" /\ Cached(field[t])
  /\ result' = [result EXCEPT ![t] = fieldTypeMap[field[t]]]
  /\ pc' = [pc EXCEPT ![t] = "unlock"]
  /\ UNCHANGED <<lock, fieldTypeMap, field, asked, returned>>

\* Only fields of message kind have a type.
NotAMessage(t) ==
  /\ pc[t] = "find" /\ ~Cached(field[t]) /\ field[t] \notin MessageFields
  /\ result' = [result EXCEPT ![t] = NoType]
  /\ pc' = [pc EXCEPT ![t] = "insert"]
  /\ UNCHANGED <<lock, fieldTypeMap, field, asked, returned>>

\* Mutant: lock_ is released while type_finder_ runs.
CallTypeFinderUnlocked(t) ==
  /\ pc[t] = "find" /\ ~Cached(field[t]) /\ field[t] \in MessageFields
  /\ asked' = [asked EXCEPT ![field[t]] = @ + 1]
  /\ pc' = [pc EXCEPT ![t] = "finder"]
  /\ lock' = NoThread
  /\ UNCHANGED <<fieldTypeMap, field, result, returned>>

CallTypeFinder(t) ==
  /\ pc[t] = "find" /\ ~Cached(field[t]) /\ field[t] \in MessageFields
  /\ asked' = [asked EXCEPT ![field[t]] = @ + 1]
  /\ pc' = [pc EXCEPT ![t] = "finder"]
  /\ UNCHANGED <<lock, fieldTypeMap, field, result, returned>>

\* The callback may find a type or not, and need not repeat itself.
TypeFinderReturns(t) ==
  /\ pc[t] = "finder"
  /\ \E answer \in Answers : result' = [result EXCEPT ![t] = answer]
  /\ pc' = [pc EXCEPT ![t] = "insert"]
  /\ UNCHANGED <<lock, fieldTypeMap, field, asked, returned>>

\* Mutant: that no type was found is not remembered.
InsertFoundOnly(t) ==
  /\ pc[t] = "insert"
  /\ fieldTypeMap' = IF result[t] = NoType THEN fieldTypeMap
                     ELSE [fieldTypeMap EXCEPT ![field[t]] = result[t]]
  /\ pc' = [pc EXCEPT ![t] = "unlock"]
  /\ UNCHANGED <<lock, field, result, asked, returned>>

Insert(t) ==
  /\ pc[t] = "insert"
  /\ fieldTypeMap' = [fieldTypeMap EXCEPT ![field[t]] = result[t]]
  /\ pc' = [pc EXCEPT ![t] = "unlock"]
  /\ UNCHANGED <<lock, field, result, asked, returned>>

\* Mutant: the mutex is not unlocked.
ReturnLocked(t) ==
  /\ pc[t] = "unlock"
  /\ pc' = [pc EXCEPT ![t] = "idle"]
  /\ returned' = [returned EXCEPT ![field[t]] = @ \cup {result[t]}]
  /\ UNCHANGED <<lock, fieldTypeMap, field, result, asked>>

\* The MutexLock ends with the call, which returns the result.
Return(t) ==
  /\ pc[t] = "unlock"
  /\ lock' = NoThread
  /\ pc' = [pc EXCEPT ![t] = "idle"]
  /\ returned' = [returned EXCEPT ![field[t]] = @ \cup {result[t]}]
  /\ UNCHANGED <<fieldTypeMap, field, result, asked>>

\* The steps of a call in the critical section.
Locked(t) ==
  Hit(t) \/ NotAMessage(t) \/ CallTypeFinder(t) \/ TypeFinderReturns(t) \/ Insert(t) \/ Return(t)

Next == \E t \in Threads : (\E f \in Fields : GetFieldType(t, f)) \/ Lock(t) \/ Locked(t)

Spec == Init /\ [][Next]_vars

\* A thread that holds the lock keeps running, and so does type_finder_.  Nothing
\* is assumed of the order in which waiting threads get the lock.
FairSpec == Spec /\ \A t \in Threads : WF_vars(Locked(t))

-------------------------------------------------------------------------------

TypeOK ==
  /\ lock \in Threads \cup {NoThread}
  /\ fieldTypeMap \in [Fields -> Answers \cup {Absent}]
  /\ pc \in [Threads -> Locations]
  /\ field \in [Threads -> Fields]
  /\ result \in [Threads -> Answers]
  /\ asked \in [Fields -> Nat]
  /\ returned \in [Fields -> SUBSET Answers]

\* All threads are told the same type of a field, whatever type_finder_ answered
\* each time it was asked.
Agreement == \A f \in Fields : \A u, v \in returned[f] : u = v

\* type_finder_ is asked at most once about a field, also when threads meet the
\* field at the same time; about fields that are no messages it is never asked.
AskedOnce == \A f \in Fields : asked[f] <= IF f \in MessageFields THEN 1 ELSE 0

\* An entry of field_type_map_ never changes again, so the copies threads took
\* of it stay right.
EntriesStay == [][\A f \in Fields : Cached(f) => fieldTypeMap'[f] = fieldTypeMap[f]]_vars

\* The lock is released again whenever a thread has got it.
Released == \A t \in Threads : lock = t ~> lock # t
===============================================================================
