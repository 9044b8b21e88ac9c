--------------------------- MODULE StunAttrsProofs ---------------------------
(***************************************************************************)
(* Theorems about StunAttrs, for buffers and messages of any size: the     *)
(* iterator stays inside of every message that decode accepts, no u16 sum  *)
(* overflows, and what append wrote is what the iterator reads.            *)
(***************************************************************************)
EXTENDS StunAttrs, TLAPS

\* Lengths are numbers.
LEMMA LensNat == \A n \in Lens : n \in Nat
  BY AttrsAssumption

\* Padding fills up to the next multiple of four.
LEMMA PaddingRange ==
  ASSUME NEW n \in Nat
  PROVE  Padding(n) \in 0..3 /\ (n + Padding(n)) % 4 = 0
  BY DEF Padding

\* What append and next compute from a length.
LEMMA LengthAtFacts ==
  ASSUME NEW o \in Nat, NEW n \in Nat
  PROVE  /\ LengthAt(o, n) \in Nat
         /\ LengthAt(o, n) >= o + 4 + n
         /\ o % 4 = 0 => LengthAt(o, n) % 4 = 0
         /\ LengthAt(o, n) = o + 4 + n + Padding(n)
  BY PaddingRange DEF LengthAt, Padding

\* A message is complete, and an iterator is at the start of an attribute.
MessageOK ==
  /\ TypeOK
  /\ origin \in {"received", "built"} => length % 4 = 0 /\ 20 + length <= BufLen
  /\ iter # "idle" => origin \in {"received", "built"}
  /\ iter = "running" => offset <= length /\ offset % 4 = 0
  /\ iter # "panicked"

\* Where attribute k of a built message starts.
StartOf(k) == IF k = 1 THEN 0 ELSE written[k - 1].at

\* The attributes written lie one behind the other up to the length of the
\* message, and those read are the first ones of them.
ChainOK ==
  origin = "built" =>
    /\ length = StartOf(Len(written) + 1)
    /\ \A k \in 1..Len(written) :
         /\ StartOf(k) \in Offsets /\ StartOf(k) < length
         /\ words[StartOf(k)] = [typ |-> written[k].typ, len |-> written[k].len]
         /\ written[k].at = LengthAt(StartOf(k), written[k].len)
         /\ written[k].at <= length
    /\ iter \in {"running", "done"} =>
         /\ Len(read) <= Len(written)
         /\ \A k \in 1..Len(read) : read[k] = written[k]
         /\ offset = StartOf(Len(read) + 1)
    /\ iter = "done" => Len(read) = Len(written)

-----------------------------------------------------------------------------
\* next finds a header exactly where there is a word before the end.
LEMMA HeaderThere ==
  ASSUME MessageOK, iter = "running", ~HeaderMissing
  PROVE  offset \in Offsets /\ words[offset] \in Header
         /\ words[offset].typ \in Types /\ words[offset].len \in Lens
         /\ words[offset].len \in Nat
<1>1. offset \in Offsets
  BY AttrsAssumption DEF MessageOK, TypeOK, HeaderMissing, Offsets
<1>2. words[offset] \in Header
  BY <1>1 DEF MessageOK, TypeOK
<1>3. words[offset].typ \in Types /\ words[offset].len \in Lens
  BY <1>2 DEF Header
<1> QED
  BY <1>1, <1>2, <1>3, LensNat

\* The iterator moves on inside of the message.
LEMMA NextStep ==
  ASSUME MessageOK, iter = "running", ~HeaderMissing, ~ValueMissing(words[offset].len)
  PROVE  LET at == LengthAt(offset, words[offset].len)
         IN  at \in 0..U16Max /\ at <= length /\ at % 4 = 0
<1>1. words[offset].len \in Nat /\ offset \in Nat /\ length \in 0..U16Max /\ offset % 4 = 0
  BY HeaderThere DEF MessageOK, TypeOK
<1> DEFINE n == words[offset].len
<1> HIDE DEF n
<1>2. n \in Nat /\ ~ValueMissing(n)
  BY <1>1 DEF n
<1>a. Padding(n) \in 0..3
  BY <1>2, PaddingRange
<1>b. U16Max \in Nat
  BY AttrsAssumption
<1>3. length - offset - 4 - n >= Padding(n)
  BY <1>1, <1>2, <1>a, <1>b DEF ValueMissing
<1>c. LengthAt(offset, n) = offset + 4 + n + Padding(n) /\ LengthAt(offset, n) % 4 = 0
  BY <1>1, <1>2, LengthAtFacts, ZenonT(60)
<1>4. LengthAt(offset, n) \in 0..U16Max /\ LengthAt(offset, n) <= length
  BY <1>1, <1>2, <1>3, <1>a, <1>b DEF LengthAt
<1> QED
  BY <1>4, <1>c DEF n

\* An attribute is appended inside of the buffer.
LEMMA AppendStep ==
  ASSUME MessageOK, NEW n \in Lens, origin = "built", Fits(n)
  PROVE  LET at == LengthAt(length, n)
         IN  /\ at \in 0..U16Max /\ at % 4 = 0 /\ 20 + at <= BufLen /\ length < at
             /\ length \in Offsets
<1>1. n \in Nat /\ length \in Nat /\ length % 4 = 0 /\ U16Max \in Nat /\ BufLen \in Nat
  BY LensNat, AttrsAssumption DEF MessageOK, TypeOK
<1>a. Padding(n) \in 0..3
  BY <1>1, PaddingRange
<1>3. LengthAt(length, n) % 4 = 0 /\ LengthAt(length, n) = length + 4 + n + Padding(n)
  BY <1>1, LengthAtFacts, ZenonT(60)
<1>2. LengthAt(length, n) \in 0..U16Max /\ 20 + LengthAt(length, n) <= BufLen /\ length + 4 <= LengthAt(length, n)
  BY <1>1, <1>a DEF Fits, LengthAt
<1>4. length \in Offsets
  BY <1>1, <1>2 DEF Offsets
<1> QED
  BY <1>1, <1>2, <1>3, <1>4

\* MessageOK is inductive.
LEMMA MessageInductive ==
  ASSUME MessageOK, [Next]_vars
  PROVE  MessageOK'
<1>1. CASE UNCHANGED vars
  BY <1>1 DEF vars, MessageOK, TypeOK
<1>2. CASE \E n \in 0..BufLen : decode(n)
  BY <1>2, AttrsAssumption DEF decode, MessageOK, TypeOK
<1>3. CASE Clear
  BY <1>3, AttrsAssumption DEF Clear, MessageOK, TypeOK
<1>4. CASE \E typ \in Types, n \in Lens, value \in Header : append(typ, n, value)
  <2> PICK typ \in Types, n \in Lens, value \in Header : append(typ, n, value)
    BY <1>4
  <2> DEFINE at == LengthAt(length, n)
  <2>1. at \in 0..U16Max /\ at % 4 = 0 /\ 20 + at <= BufLen
    BY AppendStep DEF append
  <2>2. [typ |-> typ, len |-> n, at |-> at] \in Attribute /\ [typ |-> typ, len |-> n] \in Header
    BY <2>1 DEF Attribute, Header
  <2>3. length' = at /\ written' \in Seq(Attribute)
    BY <2>2 DEF append, MessageOK, TypeOK
  <2>4. words' \in [Offsets -> Header]
    BY <2>2 DEF append, MessageOK, TypeOK
  <2> HIDE DEF at
  <2> QED
    BY <2>1, <2>3, <2>4 DEF append, MessageOK, TypeOK
<1>5. CASE into_iter
  BY <1>5, AttrsAssumption DEF into_iter, MessageOK, TypeOK
<1>6. CASE next
  <2>1. CASE HeaderMissing \/ ValueMissing(words[offset].len)
    BY <1>6, <2>1 DEF next, MessageOK, TypeOK
  <2>2. CASE ~HeaderMissing /\ ~ValueMissing(words[offset].len)
    <3> DEFINE at == LengthAt(offset, words[offset].len)
               item == [typ |-> words[offset].typ, len |-> words[offset].len, at |-> LengthOf(offset, words[offset].len)]
    <3>1. at \in 0..U16Max /\ at <= length /\ at % 4 = 0
      BY <1>6, <2>2, NextStep DEF next
    <3>2. item \in Attribute
      BY <1>6, <2>2, <3>1, HeaderThere DEF next, Attribute, LengthOf
    <3>a. ~(at > U16Max)
      BY <3>1, AttrsAssumption
    <3>3. offset' = at /\ read' = Append(read, item) /\ UNCHANGED <<iter, words, length, origin, written>>
      BY <1>6, <2>2, <3>a, Zenon DEF next
    <3> HIDE DEF at, item
    <3>4. read' \in Seq(Attribute)
      BY <3>2, <3>3 DEF MessageOK, TypeOK
    <3> QED
      BY <3>1, <3>3, <3>4 DEF MessageOK, TypeOK
  <2> QED
    BY <2>1, <2>2
<1> QED
  BY <1>1, <1>2, <1>3, <1>4, <1>5, <1>6 DEF Next

\* MessageOK holds.
LEMMA MessageInvariant == Spec => []MessageOK
<1>1. Init => MessageOK
  BY AttrsAssumption DEF Init, MessageOK, TypeOK
<1> QED
  BY <1>1, MessageInductive, PTL DEF Spec

\* The variables keep their types: no message length exceeds u16.
THEOREM TypeCorrect == Spec => []TypeOK
<1>1. MessageOK => TypeOK
  BY DEF MessageOK
<1> QED
  BY <1>1, MessageInvariant, PTL

\* Attrs::next stays inside of every message that decode accepts and never
\* panics, whatever the bytes are.
THEOREM ReadsInsideHolds == Spec => []ReadsInside
<1>1. MessageOK => ReadsInside
  BY DEF MessageOK, ReadsInside
<1> QED
  BY <1>1, MessageInvariant, PTL

-----------------------------------------------------------------------------
\* append adds one attribute behind the ones written.
LEMMA ChainAppend ==
  ASSUME MessageOK, ChainOK, NEW typ \in Types, NEW n \in Lens, NEW value \in Header,
         append(typ, n, value)
  PROVE  ChainOK'
<1> DEFINE at == LengthAt(length, n)
           last == Len(written) + 1
           new == [typ |-> typ, len |-> n, at |-> at]
<1>1. at \in Nat /\ length < at /\ length \in Offsets /\ length \in Nat
  BY AppendStep DEF append, MessageOK, TypeOK
<1>2. /\ origin = "built" /\ iter = "idle" /\ iter' = "idle" /\ length' = at
      /\ written' = Append(written, new) /\ written \in Seq(Attribute)
  BY DEF append, MessageOK, TypeOK
<1>3. /\ Len(written') = last /\ Len(written) \in Nat /\ written'[last] = new
      /\ \A k \in 1..Len(written) : written'[k] = written[k]
  BY <1>2
<1>4. /\ words'[length] = [typ |-> typ, len |-> n]
      /\ \A o \in Offsets : o < length => words'[o] = words[o]
  BY <1>1 DEF append, Offsets
<1>5. new.at = at /\ new.typ = typ /\ new.len = n
  OBVIOUS
<1> HIDE DEF new, last
<1>6. \A k \in 1..last : StartOf(k)' = StartOf(k)
  BY <1>3 DEF StartOf, last
<1>7. length = StartOf(last)
  BY <1>2 DEF ChainOK, last
<1>8. length' = StartOf(Len(written) + 1)'
  <2>1. Len(written') \in Nat /\ Len(written') + 1 # 1 /\ (Len(written') + 1) - 1 = last
    BY <1>3 DEF last
  <2>2. written'[(Len(written') + 1) - 1].at = at
    BY <1>3, <1>5, <2>1
  <2> QED
    BY <1>2, <2>1, <2>2 DEF StartOf
<1>9. ASSUME NEW k \in 1..last
      PROVE  /\ StartOf(k)' \in Offsets /\ StartOf(k)' < length'
             /\ words'[StartOf(k)'] = [typ |-> written'[k].typ, len |-> written'[k].len]
             /\ written'[k].at = LengthAt(StartOf(k)', written'[k].len)
             /\ written'[k].at <= length'
  <2>1. CASE k = last
    BY <1>1, <1>2, <1>3, <1>4, <1>5, <1>6, <1>7, <2>1
  <2>2. CASE k # last
    <3>1. k \in 1..Len(written)
      BY <1>3, <2>2 DEF last
    <3>2. StartOf(k) \in Offsets /\ StartOf(k) < length /\ StartOf(k) \in Nat /\ written[k].at <= length
          /\ written[k].at \in Nat
      <4>1. StartOf(k) \in Offsets /\ StartOf(k) < length /\ written[k].at <= length
        BY <1>2, <3>1, ZenonT(60) DEF ChainOK
      <4>2. StartOf(k) \in Nat
        BY <4>1 DEF Offsets
      <4>3. written[k] \in Attribute
        BY <1>2, <3>1
      <4>4. written[k].at \in Nat
        BY <4>3 DEF Attribute
      <4> QED
        BY <4>1, <4>2, <4>4
    <3>3. /\ words[StartOf(k)] = [typ |-> written[k].typ, len |-> written[k].len]
          /\ written[k].at = LengthAt(StartOf(k), written[k].len)
      BY <1>2, <3>1 DEF ChainOK
    <3> HIDE DEF at
    <3> QED
      BY <1>1, <1>2, <1>3, <1>4, <1>6, <3>1, <3>2, <3>3
  <2> QED
    BY <2>1, <2>2
<1> HIDE DEF at
<1> QED
  BY <1>2, <1>3, <1>8, <1>9 DEF ChainOK

\* next reads the first attribute that was not read yet.
LEMMA ChainNext ==
  ASSUME MessageOK, ChainOK, next
  PROVE  ChainOK'
<1>0. SUFFICES ASSUME origin = "built" PROVE ChainOK'
  BY DEF next, ChainOK
<1>1. /\ UNCHANGED <<words, length, origin, written>> /\ iter = "running"
      /\ written \in Seq(Attribute) /\ read \in Seq(Attribute)
      /\ Len(written) \in Nat /\ Len(read) \in Nat
  BY DEF next, MessageOK, TypeOK
<1>2. /\ Len(read) <= Len(written) /\ offset = StartOf(Len(read) + 1)
      /\ \A k \in 1..Len(read) : read[k] = written[k]
      /\ length = StartOf(Len(written) + 1)
  BY <1>0, <1>1 DEF ChainOK
<1>3. \A k : StartOf(k)' = StartOf(k)
  BY <1>1 DEF StartOf
<1>4. CASE Len(read) = Len(written)
  <2>1. HeaderMissing /\ iter' = "done" /\ UNCHANGED <<offset, read>>
    BY <1>1, <1>2, <1>4 DEF next, HeaderMissing, MessageOK, TypeOK
  <2> QED
    BY <1>0, <1>1, <1>2, <1>3, <1>4, <2>1 DEF ChainOK
<1>5. CASE Len(read) < Len(written)
  <2> DEFINE k == Len(read) + 1
             w == written[k]
  <2>1. /\ k \in 1..Len(written) /\ offset = StartOf(k)
        /\ offset \in Offsets /\ offset < length
        /\ words[offset] = [typ |-> w.typ, len |-> w.len]
        /\ w.at = LengthAt(offset, w.len) /\ w.at <= length
    BY <1>0, <1>1, <1>2, <1>5 DEF ChainOK
  <2>a. w \in Attribute
    BY <1>1, <2>1
  <2>b. w.len \in Lens /\ w.at \in Nat /\ w = [typ |-> w.typ, len |-> w.len, at |-> w.at]
    BY <2>a DEF Attribute
  <2>2. w \in Attribute /\ w.len \in Nat /\ w.at \in Nat /\ w = [typ |-> w.typ, len |-> w.len, at |-> w.at]
    BY <2>a, <2>b, LensNat
  <2>3. words[offset].len = w.len /\ words[offset].typ = w.typ
    BY <2>1
  <2> HIDE DEF w
  <2>4. offset \in Nat /\ length \in 0..U16Max /\ 20 + length <= BufLen
    BY <1>0, <2>1 DEF MessageOK, TypeOK
  <2>5. w.at = offset + 4 + w.len + Padding(w.len) /\ Padding(w.len) \in 0..3
    BY <2>1, <2>2, <2>4, LengthAtFacts, PaddingRange
  <2>c. offset % 4 = 0 /\ offset <= BufLen - 24 /\ U16Max \in Nat /\ BufLen \in Nat
    BY <2>1, AttrsAssumption DEF Offsets
  <2>6. ~HeaderMissing /\ ~ValueMissing(w.len)
    <3> DEFINE n == w.len
               m == w.at
    <3>1. n \in Nat /\ m \in Nat /\ m = offset + 4 + n + Padding(n) /\ m <= length /\ Padding(n) \in 0..3
      BY <2>1, <2>2, <2>5
    <3> HIDE DEF n, m
    <3>2. ~HeaderMissing
      BY <2>4, <2>c, <3>1 DEF HeaderMissing
    <3>3. ~ValueMissing(n)
      BY <2>4, <2>c, <3>1 DEF ValueMissing
    <3> QED
      BY <3>2, <3>3 DEF n
  <2>d. ~(LengthAt(offset, w.len) > U16Max)
    BY <2>1, <2>2, <2>4, <2>c, SMTT(60)
  <2>7. offset' = w.at /\ iter' = "running" /\ read' = Append(read, w)
    BY <1>1, <2>1, <2>2, <2>3, <2>6, <2>d, Zenon DEF next, LengthOf
  <2>8. /\ Len(read') = k /\ read'[k] = w
        /\ \A j \in 1..Len(read) : read'[j] = read[j]
    BY <1>1, <2>2, <2>7
  <2>9. offset' = StartOf(Len(read) + 1)'
    <3>1. Len(read') + 1 # 1 /\ (Len(read') + 1) - 1 = k
      BY <1>1, <2>8
    <3> QED
      BY <1>1, <2>7, <3>1 DEF StartOf, w
  <2>10. \A j \in 1..k : read'[j] = written[j]
    BY <1>1, <1>2, <2>8 DEF w
  <2> QED
    BY <1>0, <1>1, <1>2, <1>3, <2>1, <2>7, <2>8, <2>9, <2>10 DEF ChainOK
<1> QED
  BY <1>1, <1>2, <1>4, <1>5

\* ChainOK is inductive.
LEMMA ChainInductive ==
  ASSUME MessageOK, ChainOK, [Next]_vars
  PROVE  ChainOK'
<1>1. CASE UNCHANGED vars
  BY <1>1 DEF vars, ChainOK, StartOf
<1>2. CASE \E n \in 0..BufLen : decode(n)
  BY <1>2 DEF decode, ChainOK
<1>3. CASE Clear
  BY <1>3 DEF Clear, ChainOK, StartOf
<1>4. CASE into_iter
  <2>1. Len(written) \in Nat
    BY DEF MessageOK, TypeOK
  <2> QED
    BY <1>4, <2>1 DEF into_iter, ChainOK, StartOf
<1> QED
  BY <1>1, <1>2, <1>3, <1>4, ChainAppend, ChainNext DEF Next

\* What Stun::append wrote is what Attrs reads, in order, each attribute with
\* the message length that its value was encoded with.
THEOREM RoundTripHolds == Spec => []RoundTrip
<1>1. Init => ChainOK
  BY DEF Init, ChainOK
<1>2. ChainOK => RoundTrip
  BY DEF ChainOK, RoundTrip
<1> QED
  BY <1>1, <1>2, MessageInvariant, ChainInductive, PTL DEF Spec
=============================================================================
