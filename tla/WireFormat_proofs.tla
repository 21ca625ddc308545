--------------------------- MODULE WireFormat_proofs ---------------------------
(***************************************************************************)
(* Lemmas about sequences whose elements have no type in common, as the    *)
(* stacks, paths and lists of the scrubber and the checksummer; and about  *)
(* reading, which stays inside the limit that was pushed, and inside the   *)
(* data but for a field that is skipped to a limit behind its end, and     *)
(* never goes back.                                                        *)
(***************************************************************************)
EXTENDS WireFormat, SequenceTheorems, TLAPS

-------------------------------------------------------------------------------
(* Sequences: what appending to one, dropping its last element and replacing   *)
(* an element do.                                                              *)

Sequence(s) == \E S : s \in Seq(S)

\* A sequence is a function on 1..Len(s), and only the empty one has length 0.
LEMMA SequenceLen ==
  ASSUME NEW s, Sequence(s)
  PROVE  Len(s) \in Nat /\ DOMAIN s = 1..Len(s) /\ (s = <<>> <=> Len(s) = 0)
<1>1. PICK S : s \in Seq(S) BY DEF Sequence
<1> QED BY <1>1

\* The empty sequence.
LEMMA SequenceEmpty == Sequence(<<>>) /\ Len(<<>>) = 0
BY EmptySeq DEF Sequence

\* A sequence of one element.
LEMMA SequenceOne == ASSUME NEW x PROVE Sequence(<<x>>) /\ Len(<<x>>) = 1 /\ <<x>>[1] = x
<1>1. <<x>> \in Seq({x}) OBVIOUS
<1> QED BY <1>1 DEF Sequence

\* Append() adds one element behind the others.
LEMMA SequenceAppend ==
  ASSUME NEW s, NEW x, Sequence(s)
  PROVE  /\ Sequence(Append(s, x)) /\ Len(Append(s, x)) = Len(s) + 1
         /\ Append(s, x)[Len(s) + 1] = x
         /\ \A i \in 1..Len(s) : Append(s, x)[i] = s[i]
<1>1. PICK S : s \in Seq(S) BY DEF Sequence
<1>2. s \in Seq(S \cup {x}) BY <1>1
<1> QED BY <1>2, AppendProperties DEF Sequence

\* A prefix has the elements of the whole sequence.
LEMMA SequencePrefix ==
  ASSUME NEW s, Sequence(s), NEW n \in 0..Len(s)
  PROVE  /\ Sequence(SubSeq(s, 1, n)) /\ Len(SubSeq(s, 1, n)) = n
         /\ \A i \in 1..n : SubSeq(s, 1, n)[i] = s[i]
<1>1. PICK S : s \in Seq(S) BY DEF Sequence
<1>2. Len(s) \in Nat BY <1>1
<1>3. \A i \in 1..n : s[i] \in S BY <1>1, <1>2
<1>4. SubSeq(s, 1, n) \in Seq(S) BY <1>1, <1>2, <1>3, SubSeqProperties
<1> QED BY <1>1, <1>2, <1>4, SubSeqProperties DEF Sequence

\* Replacing an element leaves the others alone.
LEMMA SequenceExcept ==
  ASSUME NEW s, Sequence(s), NEW k \in 1..Len(s), NEW x
  PROVE  /\ Sequence([s EXCEPT ![k] = x]) /\ Len([s EXCEPT ![k] = x]) = Len(s)
         /\ [s EXCEPT ![k] = x][k] = x
         /\ \A i \in 1..Len(s) : i # k => [s EXCEPT ![k] = x][i] = s[i]
<1>1. PICK S : s \in Seq(S) BY DEF Sequence
<1>2. s \in Seq(S \cup {x}) BY <1>1
<1> QED BY <1>2 DEF Sequence

\* The elements of a concatenation are those of its parts.
LEMMA SequenceConcat ==
  ASSUME NEW s, NEW t, Sequence(s), Sequence(t)
  PROVE  /\ Sequence(s \o t) /\ Len(s \o t) = Len(s) + Len(t)
         /\ \A i \in 1..Len(s) : (s \o t)[i] = s[i]
         /\ \A i \in 1..Len(t) : (s \o t)[Len(s) + i] = t[i]
<1>1. PICK S : s \in Seq(S) BY DEF Sequence
<1>2. PICK T : t \in Seq(T) BY DEF Sequence
<1>3. s \in Seq(S \cup T) /\ t \in Seq(S \cup T) BY <1>1, <1>2
<1> QED BY <1>3 DEF Sequence

\* Sequences of the same length with the same elements are equal.
LEMMA SequenceEqual ==
  ASSUME NEW s, NEW t, Sequence(s), Sequence(t), Len(s) = Len(t),
         \A i \in 1..Len(s) : s[i] = t[i]
  PROVE  s = t
<1>1. PICK S : s \in Seq(S) BY DEF Sequence
<1>2. PICK T : t \in Seq(T) BY DEF Sequence
<1>3. s \in Seq(S \cup T) /\ t \in Seq(S \cup T) BY <1>1, <1>2
<1> QED BY <1>3, SeqEqual

\* Two ways to write the same sequence.
LEMMA SequenceReplaceLast ==
  ASSUME NEW s, Sequence(s), s # <<>>, NEW x
  PROVE  Append(SubSeq(s, 1, Len(s) - 1), x) = [s EXCEPT ![Len(s)] = x]
<1> DEFINE t == SubSeq(s, 1, Len(s) - 1)
           u == [s EXCEPT ![Len(s)] = x]
<1>1. Len(s) \in 1..Len(s) /\ Len(s) - 1 \in 0..Len(s) BY SequenceLen
<1>2. Sequence(t) /\ Len(t) = Len(s) - 1 /\ \A i \in 1..(Len(s) - 1) : t[i] = s[i]
  BY <1>1, SequencePrefix
<1>3. /\ Sequence(u) /\ Len(u) = Len(s) /\ u[Len(s)] = x
      /\ \A i \in 1..Len(s) : i # Len(s) => u[i] = s[i]
  <2> DEFINE k == Len(s)
  <2>1. k \in 1..Len(s) BY <1>1
  <2> HIDE DEF k
  <2>2. /\ Sequence([s EXCEPT ![k] = x]) /\ Len([s EXCEPT ![k] = x]) = Len(s)
        /\ [s EXCEPT ![k] = x][k] = x
        /\ \A i \in 1..Len(s) : i # k => [s EXCEPT ![k] = x][i] = s[i]
    BY <2>1, SequenceExcept
  <2> QED BY <2>2 DEF k
<1> HIDE DEF t, u
<1>4. /\ Sequence(Append(t, x)) /\ Len(Append(t, x)) = Len(s) /\ Append(t, x)[Len(s)] = x
      /\ \A i \in 1..(Len(s) - 1) : Append(t, x)[i] = s[i]
  BY <1>1, <1>2, SequenceAppend
<1>5. \A i \in 1..Len(s) : Append(t, x)[i] = u[i] BY <1>1, <1>3, <1>4
<1>6. Append(t, x) = u BY <1>3, <1>4, <1>5, SequenceEqual
<1> QED BY <1>6 DEF t, u

\* Appending is concatenating a sequence of one element.
LEMMA SequenceConcatOne ==
  ASSUME NEW s, Sequence(s), NEW x
  PROVE  s \o <<x>> = Append(s, x)
<1>1. /\ Sequence(s \o <<x>>) /\ Len(s \o <<x>>) = Len(s) + 1 /\ (s \o <<x>>)[Len(s) + 1] = x
      /\ \A i \in 1..Len(s) : (s \o <<x>>)[i] = s[i]
  BY SequenceConcat, SequenceOne
<1>2. /\ Sequence(Append(s, x)) /\ Len(Append(s, x)) = Len(s) + 1 /\ Append(s, x)[Len(s) + 1] = x
      /\ \A i \in 1..Len(s) : Append(s, x)[i] = s[i]
  BY SequenceAppend
<1>3. \A i \in 1..Len(s \o <<x>>) : (s \o <<x>>)[i] = Append(s, x)[i] BY <1>1, <1>2, SequenceLen
<1> QED BY <1>1, <1>2, <1>3, SequenceEqual

-------------------------------------------------------------------------------
(* Reading                                                                     *)

\* Up() is the smaller one.
LEMMA UpBounds ==
  ASSUME NEW m \in Nat, NEW n \in Nat
  PROVE  Up(m, n) \in Nat /\ Up(m, n) <= m /\ Up(m, n) <= n /\ (Up(m, n) = m \/ Up(m, n) = n)
BY DEF Up

\* Nothing is read behind the limit, nor behind the end of the data.
LEMMA EndOfBounds ==
  ASSUME NEW data \in Seq(Nat), NEW limit \in Nat
  PROVE  /\ EndOf(data, limit) \in Nat /\ Len(data) \in Nat
         /\ EndOf(data, limit) <= limit /\ EndOf(data, limit) <= Len(data)
<1>1. Len(data) \in Nat OBVIOUS
<1> QED BY <1>1, UpBounds DEF EndOf

\* A tag, a number or a length is a natural number, also where two bytes of it are read.
LEMMA ReadVarintType ==
  ASSUME NEW data \in Seq(Nat), NEW p \in Nat, NEW limit \in Nat
  PROVE  ReadVarint(data, p, limit) \in Nat
<1> DEFINE last == EndOf(data, limit)
<1>0. ReadVarint(data, p, limit) =
        IF p >= last THEN 0
        ELSE IF data[p + 1] < 128 \/ p + 1 = last THEN data[p + 1]
        ELSE data[p + 1] - 128 + VarintBase * data[p + 2]
  BY DEF ReadVarint
<1>1. last \in Nat /\ last <= Len(data) /\ Len(data) \in Nat BY EndOfBounds
<1> HIDE DEF last
<1>2. CASE p >= last BY <1>0, <1>2
<1>3. CASE ~(p >= last)
  <2>1. data[p + 1] \in Nat
    <3>1. p + 1 \in 1..Len(data) BY <1>1, <1>3
    <3> QED BY <3>1
  <2>2. CASE data[p + 1] < 128 \/ p + 1 = last BY <1>0, <1>3, <2>1, <2>2
  <2>3. CASE ~(data[p + 1] < 128 \/ p + 1 = last)
    <3>1. p + 2 \in 1..Len(data) BY <1>1, <1>3, <2>3
    <3>2. data[p + 2] \in Nat BY <3>1
    <3>3. VarintBase * data[p + 2] \in Nat BY <3>2, VarintBaseAssumption
    <3>4. data[p + 1] - 128 + VarintBase * data[p + 2] \in Nat BY <2>1, <2>3, <3>3
    <3> QED BY <1>0, <1>3, <2>3, <3>4
  <2> QED BY <2>2, <2>3
<1> QED BY <1>2, <1>3

\* The position behind it is not behind the end of what can be read, unless it was so before.
LEMMA AfterVarintBounds ==
  ASSUME NEW data \in Seq(Nat), NEW p \in Nat, NEW limit \in Nat
  PROVE  /\ AfterVarint(data, p, limit) \in Nat /\ AfterVarint(data, p, limit) >= p
         /\ p <= limit => AfterVarint(data, p, limit) <= limit
         /\ p <= EndOf(data, limit) => AfterVarint(data, p, limit) <= EndOf(data, limit)
         /\ ReadVarint(data, p, limit) # 0 => AfterVarint(data, p, limit) <= EndOf(data, limit)
<1> DEFINE last == EndOf(data, limit)
           q == AfterVarint(data, p, limit)
           n == IF data[p + 1] < 128 THEN 1 ELSE 2
<1>1. last \in Nat /\ last <= limit BY EndOfBounds
<1>2. q = IF p >= last THEN p ELSE Up(p + n, last) BY DEF AfterVarint
<1>3. p >= last => ReadVarint(data, p, limit) = 0 BY DEF ReadVarint
<1>4. n \in {1, 2} OBVIOUS
<1> HIDE DEF last, q, n
<1>5. CASE p >= last BY <1>1, <1>2, <1>3, <1>5 DEF last, q
<1>6. CASE ~(p >= last)
  <2>1. q = IF p + n < last THEN p + n ELSE last BY <1>2, <1>6 DEF Up
  <2>2. q \in Nat /\ q >= p /\ q <= last /\ q <= limit BY <1>1, <1>4, <1>6, <2>1
  <2> QED BY <2>2 DEF last, q
<1> QED BY <1>5, <1>6

\* A limit that is pushed is inside the one before, and not behind the position.
LEMMA EndOfLengthBounds ==
  ASSUME NEW data \in Seq(Nat), NEW p \in Nat, NEW limit \in Nat
  PROVE  /\ EndOfLength(data, p, limit) \in Nat /\ EndOfLength(data, p, limit) <= limit
         /\ p <= limit => AfterVarint(data, p, limit) <= EndOfLength(data, p, limit)
<1> DEFINE q == AfterVarint(data, p, limit)
           n == ReadVarint(data, p, limit)
           end == EndOfLength(data, p, limit)
<1>1. q \in Nat /\ n \in Nat /\ (p <= limit => q <= limit) BY ReadVarintType, AfterVarintBounds
<1>2. end = IF q + n < limit THEN q + n ELSE limit BY DEF EndOfLength, Up
<1> HIDE DEF q, n, end
<1>3. end \in Nat /\ end <= limit /\ (p <= limit => q <= end) BY <1>1, <1>2
<1> QED BY <1>3 DEF q, end

\* A string ends inside the limit and the data, whatever its length says.
LEMMA EndOfStringBounds ==
  ASSUME NEW data \in Seq(Nat), NEW p \in Nat, NEW limit \in Nat
  PROVE  /\ EndOfString(data, p, limit) \in Nat
         /\ EndOfString(data, p, limit) <= limit /\ EndOfString(data, p, limit) <= Len(data)
         /\ p <= EndOf(data, limit) => AfterVarint(data, p, limit) <= EndOfString(data, p, limit)
<1> DEFINE e == EndOfLength(data, p, limit)
           end == EndOfString(data, p, limit)
           q == AfterVarint(data, p, limit)
           last == EndOf(data, limit)
<1>1. e \in Nat /\ e <= limit /\ (p <= limit => q <= e) BY EndOfLengthBounds
<1>2. end = IF Len(data) < e THEN Len(data) ELSE e BY DEF EndOfString, EndOf, Up
<1>3. /\ last \in Nat /\ last <= limit /\ last <= Len(data) /\ Len(data) \in Nat
      /\ q \in Nat /\ (p <= last => q <= last)
  BY AfterVarintBounds, EndOfBounds
<1> HIDE DEF e, end, q, last
<1>4. end \in Nat /\ end <= limit /\ end <= Len(data) /\ (p <= last => q <= end)
  BY <1>1, <1>2, <1>3
<1> QED BY <1>4 DEF end, q, last

\* What is read of a string are numbers.
LEMMA ReadStringType ==
  ASSUME NEW data \in Seq(Nat), NEW p \in Nat, NEW limit \in Nat
  PROVE  ReadString(data, p, limit) \in Seq(Nat)
<1>1. AfterVarint(data, p, limit) \in Nat BY AfterVarintBounds
<1>2. EndOfString(data, p, limit) \in Nat /\ EndOfString(data, p, limit) <= Len(data)
  BY EndOfStringBounds
<1> DEFINE m == AfterVarint(data, p, limit) + 1
           n == EndOfString(data, p, limit)
<1>3. m \in Nat /\ m >= 1 BY <1>1
<1> HIDE DEF m, n
<1>4. \A i \in m..n : data[i] \in Nat
  <2> TAKE i \in m..n
  <2>1. i \in 1..Len(data) BY <1>2, <1>3 DEF n
  <2> QED BY <2>1
<1>5. SubSeq(data, m, n) \in Seq(Nat) BY <1>2, <1>3, <1>4, SubSeqProperties DEF n
<1> QED BY <1>5 DEF ReadString, m, n

\* A field that is skipped ends inside the limit and not before its tag; a string, not
\* before the string does.
LEMMA SkipFieldBounds ==
  ASSUME NEW data \in Seq(Nat), NEW p \in Nat, NEW limit \in Nat, NEW tag, p <= limit
  PROVE  /\ SkipField(data, tag, p, limit) \in Nat /\ SkipField(data, tag, p, limit) <= limit
         /\ p <= EndOf(data, limit) => p <= SkipField(data, tag, p, limit)
         /\ NumberOf(tag) # 0 /\ WireOf(tag) = LengthDelimited /\ p <= EndOf(data, limit) =>
              EndOfString(data, p, limit) <= SkipField(data, tag, p, limit)
<1> DEFINE end == SkipField(data, tag, p, limit)
           q == AfterVarint(data, p, limit)
           n == ReadVarint(data, p, limit)
           last == EndOf(data, limit)
           string == EndOfString(data, p, limit)
           number == NumberOf(tag)
           wire == WireOf(tag)
<1>1. /\ q \in Nat /\ n \in Nat /\ q >= p /\ q <= limit /\ (p <= last => q <= last)
      /\ last \in Nat /\ last <= limit /\ last <= Len(data) /\ Len(data) \in Nat
  BY ReadVarintType, AfterVarintBounds, EndOfBounds
<1>2. string \in Nat /\ string = Up(Len(data), Up(q + n, limit)) /\ LengthDelimited # VarintWire
  <2>1. string \in Nat BY EndOfStringBounds
  <2>2. string = Up(Len(data), Up(q + n, limit)) BY DEF EndOfString, EndOf, EndOfLength
  <2>3. LengthDelimited # VarintWire BY DEF VarintWire, LengthDelimited
  <2> HIDE DEF string
  <2> QED BY <2>1, <2>2, <2>3
<1>3. end = IF number = 0 THEN p
            ELSE CASE wire = VarintWire      -> q
                   [] wire = LengthDelimited -> Skip(data, q, n, limit)
                   [] wire = 1               -> Up(p + 8, last)
                   [] wire = 5               -> Up(p + 4, last)
                   [] OTHER                  -> p
  BY DEF SkipField
<1> HIDE DEF end, q, n, last, string, number, wire
<1>4. CASE number # 0 /\ wire = LengthDelimited
  <2>1. end = Skip(data, q, n, limit)
    <3>1. wire # VarintWire /\ wire # 1 /\ wire # 5
      BY <1>4 DEF VarintWire, LengthDelimited
    <3> QED BY <1>3, <1>4, <3>1, Zenon
  <2>2. end = IF q + n > limit THEN limit ELSE IF q + n < Len(data) THEN q + n ELSE Len(data)
    BY <2>1 DEF Skip, Up
  <2>3. string = IF q + n < limit THEN IF Len(data) < q + n THEN Len(data) ELSE q + n
                 ELSE IF Len(data) < limit THEN Len(data) ELSE limit
    BY <1>2 DEF Up
  <2>4. end \in Nat /\ end <= limit /\ (p <= last => p <= end) /\ string <= end
    BY <1>1, <2>2, <2>3
  <2> QED BY <2>4 DEF end, last, string
<1>5. CASE ~(number # 0 /\ wire = LengthDelimited)
  <2>1. end = p \/ end = q \/ end = Up(p + 8, last) \/ end = Up(p + 4, last)
    <3>1. CASE number = 0 BY <1>3, <3>1
    <3>2. CASE number # 0 /\ wire = VarintWire BY <1>3, <3>2 DEF VarintWire, LengthDelimited
    <3>3. CASE number # 0 /\ wire = 1 BY <1>3, <3>3 DEF VarintWire, LengthDelimited
    <3>4. CASE number # 0 /\ wire = 5 BY <1>3, <3>4 DEF VarintWire, LengthDelimited
    <3>5. CASE number # 0 /\ wire # VarintWire /\ wire # LengthDelimited /\ wire # 1 /\ wire # 5
      BY <1>3, <3>5, Zenon
    <3> QED BY <1>5, <3>1, <3>2, <3>3, <3>4, <3>5
  <2>2. end \in Nat /\ end <= limit /\ (p <= last => p <= end)
    BY <1>1, <2>1 DEF Up
  <2> QED BY <1>5, <2>2 DEF end, last, number, wire
<1> QED BY <1>4, <1>5
===============================================================================
