--------------------------- MODULE TypeCache_proofs ---------------------------
(***************************************************************************)
(* TypeCache for any number of threads, fields and types: mutual exclusion *)
(* of the critical section, and from it that every thread is told the same *)
(* type of a field and that the type finder is asked at most once.         *)
(***************************************************************************)
EXTENDS TypeCache, TLAPS

InSection == {"find", "finder", "insert", "unlock"}

\* The thread in the critical section is the one that holds the lock.
HolderInside == \A t \in Threads : pc[t] \in InSection <=> lock = t

\* What the thread in the critical section knows about its field.
Asking(t) == pc[t] = "finder" \/ (pc[t] = "insert" /\ field[t] \in MessageFields)

Knows(t) ==
  /\ pc[t] \in {"finder", "insert"} => ~Cached(field[t])
  /\ pc[t] = "finder" => field[t] \in MessageFields
  /\ pc[t] = "unlock" => Cached(field[t]) /\ fieldTypeMap[field[t]] = result[t]

\* The finder was asked only about fields that are in the map since, or that
\* the thread in the critical section is about to put there.
AskedFor(f) ==
  IF Cached(f) \/ \E t \in Threads : Asking(t) /\ field[t] = f
  THEN asked[f] <= IF f \in MessageFields THEN 1 ELSE 0
  ELSE asked[f] = 0

\* Only what is in the map was ever returned.
ReturnedOf(f) == \A v \in returned[f] : Cached(f) /\ v = fieldTypeMap[f]

IInv ==
  /\ TypeOK
  /\ HolderInside
  /\ \A t \in Threads : Knows(t)
  /\ \A f \in Fields : AskedFor(f)
  /\ \A f \in Fields : ReturnedOf(f)

\* The inductive invariant holds initially: the lock is free, the map empty.
LEMMA InitInv == Init => IInv
  BY CacheAssumption
  DEF Init, IInv, TypeOK, HolderInside, Knows, AskedFor, ReturnedOf, Asking, Cached,
      InSection, Locations, Answers

\* Every step of GetFieldType() keeps the types of the state.
LEMMA TypeStep == TypeOK /\ [Next]_vars => TypeOK'
<1> SUFFICES ASSUME TypeOK, [Next]_vars PROVE TypeOK'
  OBVIOUS
<1> USE DEF TypeOK, Locations, Answers
<1>1. CASE UNCHANGED vars
  BY <1>1 DEF vars
<1>2. ASSUME NEW t \in Threads, NEW f \in Fields, GetFieldType(t, f) PROVE TypeOK'
  BY <1>2 DEF GetFieldType
<1>3. ASSUME NEW t \in Threads, Lock(t) PROVE TypeOK'
  BY <1>3 DEF Lock
<1>4. ASSUME NEW t \in Threads, Hit(t) PROVE TypeOK'
  BY <1>4 DEF Hit, Cached
<1>5. ASSUME NEW t \in Threads, NotAMessage(t) PROVE TypeOK'
  BY <1>5 DEF NotAMessage
<1>6. ASSUME NEW t \in Threads, CallTypeFinder(t) PROVE TypeOK'
  BY <1>6 DEF CallTypeFinder
<1>7. ASSUME NEW t \in Threads, TypeFinderReturns(t) PROVE TypeOK'
  BY <1>7 DEF TypeFinderReturns
<1>8. ASSUME NEW t \in Threads, Insert(t) PROVE TypeOK'
  BY <1>8 DEF Insert
<1>9. ASSUME NEW t \in Threads, Return(t) PROVE TypeOK'
  <2>1. returned[field[t]] \cup {result[t]} \in SUBSET (Types \cup {NoType})
    OBVIOUS
  <2> QED
    BY <1>9, <2>1 DEF Return
<1> QED
  BY <1>1, <1>2, <1>3, <1>4, <1>5, <1>6, <1>7, <1>8, <1>9 DEF Next, Locked

\* Every step of GetFieldType() keeps the inductive invariant.
LEMMA StepInv == IInv /\ [Next]_vars => IInv'
<1> SUFFICES ASSUME IInv, [Next]_vars PROVE IInv'
  OBVIOUS
<1>0. TypeOK'
  BY TypeStep DEF IInv
<1> USE CacheAssumption DEF TypeOK, HolderInside, InSection, Locations, Answers
<1>1. CASE UNCHANGED vars
  BY <1>1 DEF vars, IInv, Knows, AskedFor, ReturnedOf, Asking, Cached
<1>2. ASSUME NEW t \in Threads, NEW f \in Fields, GetFieldType(t, f) PROVE IInv'
  BY <1>0, <1>2 DEF GetFieldType, IInv, Knows, AskedFor, ReturnedOf, Asking, Cached
<1>3. ASSUME NEW t \in Threads, Lock(t) PROVE IInv'
  BY <1>0, <1>3 DEF Lock, IInv, Knows, AskedFor, ReturnedOf, Asking, Cached
<1>4. ASSUME NEW t \in Threads, Hit(t) PROVE IInv'
  BY <1>0, <1>4 DEF Hit, IInv, Knows, AskedFor, ReturnedOf, Asking, Cached
<1>5. ASSUME NEW t \in Threads, NotAMessage(t) PROVE IInv'
  BY <1>0, <1>5 DEF NotAMessage, IInv, Knows, AskedFor, ReturnedOf, Asking, Cached
<1>6. ASSUME NEW t \in Threads, CallTypeFinder(t) PROVE IInv'
  BY <1>0, <1>6 DEF CallTypeFinder, IInv, Knows, AskedFor, ReturnedOf, Asking, Cached
<1>7. ASSUME NEW t \in Threads, TypeFinderReturns(t) PROVE IInv'
  BY <1>0, <1>7 DEF TypeFinderReturns, IInv, Knows, AskedFor, ReturnedOf, Asking, Cached
<1>8. ASSUME NEW t \in Threads, Insert(t) PROVE IInv'
  BY <1>0, <1>8 DEF Insert, IInv, Knows, AskedFor, ReturnedOf, Asking, Cached
<1>9. ASSUME NEW t \in Threads, Return(t) PROVE IInv'
  BY <1>0, <1>9 DEF Return, IInv, Knows, AskedFor, ReturnedOf, Asking, Cached
<1> QED
  BY <1>1, <1>2, <1>3, <1>4, <1>5, <1>6, <1>7, <1>8, <1>9 DEF Next, Locked

\* The inductive invariant holds in every reachable state.
LEMMA Invariance == Spec => []IInv
  BY InitInv, StepInv, PTL DEF Spec

\* The state of GetFieldType() has the declared types.
THEOREM TypeCorrect == Spec => []TypeOK
<1>1. IInv => TypeOK
  BY DEF IInv
<1> QED
  BY <1>1, Invariance, PTL

\* No two threads are in the critical section at once.
THEOREM MutualExclusion ==
  Spec => [](\A t, u \in Threads : pc[t] \in InSection /\ pc[u] \in InSection => t = u)
<1>1. IInv => \A t, u \in Threads : pc[t] \in InSection /\ pc[u] \in InSection => t = u
  BY DEF IInv, HolderInside
<1> QED
  BY <1>1, Invariance, PTL

\* All calls of GetFieldType() for one field return the same type.
THEOREM SameAnswer == Spec => []Agreement
<1>1. IInv => Agreement
  BY DEF IInv, ReturnedOf, Agreement
<1> QED
  BY <1>1, Invariance, PTL

\* The type finder is asked at most once about a field.
THEOREM FinderAskedOnce == Spec => []AskedOnce
<1>1. IInv => AskedOnce
  BY DEF IInv, TypeOK, AskedFor, AskedOnce
<1> QED
  BY <1>1, Invariance, PTL

\* An entry of the shared map never changes.
THEOREM MapEntriesStay == Spec => EntriesStay
<1>1. IInv /\ [Next]_vars =>
        [\A f \in Fields : Cached(f) => fieldTypeMap'[f] = fieldTypeMap[f]]_vars
  <2> SUFFICES ASSUME IInv, Next, NEW f \in Fields, Cached(f)
               PROVE  fieldTypeMap'[f] = fieldTypeMap[f]
    BY DEF vars
  <2>1. ASSUME NEW t \in Threads, Insert(t) PROVE fieldTypeMap'[f] = fieldTypeMap[f]
    BY <2>1 DEF IInv, TypeOK, Knows, Insert, Cached
  <2>2. CASE \A t \in Threads : ~Insert(t)
    BY <2>2 DEF Next, GetFieldType, Lock, Locked, Hit, NotAMessage, CallTypeFinder,
                TypeFinderReturns, Return
  <2> QED
    BY <2>1, <2>2
<1> QED
  BY <1>1, Invariance, PTL DEF Spec, EntriesStay
===============================================================================
