------------------------------ MODULE StunAttrs ------------------------------
(***************************************************************************)
(* The attributes of a STUN message (stun/stun.rs, stun/attr/attrs.rs):    *)
(* a header of 20 bytes, then type-length-value attributes, each padded    *)
(* to four bytes.  Stun::append writes attributes at the end of a message, *)
(* the iterator Attrs reads them.                                          *)
(*                                                                         *)
(* The attribute area of the buffer is an array of words of four bytes;    *)
(* any word, of a header or of a value, can be read as an attribute header *)
(* [typ, len].  Lengths and offsets are u16, checked: a result above       *)
(* U16Max panics (the build enables overflow checks).                      *)
(***************************************************************************)
EXTENDS Integers, Sequences

CONSTANTS
  U16Max,   \* u16::MAX
  BufLen,   \* length of the buffer, in bytes
  Types,    \* attribute types
  Lens      \* attribute lengths that occur

ASSUME AttrsAssumption ==
  /\ U16Max \in Nat /\ U16Max >= 7
  /\ BufLen \in Nat /\ BufLen >= 20
  /\ Lens \subseteq 0..U16Max

VARIABLES
  words,    \* the attribute area of the buffer
  length,   \* the length field of the message header
  origin,   \* "raw" bytes, a "received" message, a message being "built", "refused"
  written,  \* the attributes appended to a message being built
  offset,   \* Attrs::offset
  iter,     \* "idle", "running", "done", "panicked"
  read      \* the attributes the iterator has returned

vars == <<words, length, origin, written, offset, iter, read>>

\* Where the words of the attribute area are.
Offsets == {o \in 0..(BufLen - 24) : o % 4 = 0}

Header == [typ : Types, len : Lens]

\* An attribute, with the message length that its value was computed with or
\* is to be verified with: the message up to and including this attribute.
Attribute == [typ : Types, len : Lens, at : 0..U16Max]

Padding(n) == (4 - (n % 4)) % 4

\* The length of a message that has an attribute of n bytes at offset o last.
LengthAt(o, n) == o + 4 + n + Padding(n)

-----------------------------------------------------------------------------
(* Messages *)

\* Stun::decode, of n bytes from the network: the length has to be a multiple
\* of four and the message complete.
decode(n) ==
  /\ origin = "raw"
  /\ origin' = IF length % 4 = 0 /\ n >= 20 + length THEN "received" ELSE "refused"
  /\ UNCHANGED <<words, length, written, offset, iter, read>>

\* set_length(0), which starts a new message in the buffer.
Clear ==
  /\ origin \in {"raw", "received", "built"} /\ iter # "running"
  /\ length' = 0 /\ origin' = "built" /\ written' = <<>>
  /\ offset' = 0 /\ iter' = "idle" /\ read' = <<>>
  /\ UNCHANGED words

\* The checks of Stun::append: an attribute of n bytes fits into the lengths
\* that STUN can express and into the buffer.
Fits(n) ==
  /\ n <= U16Max - 4 - Padding(n)
  /\ length <= U16Max - 4 - Padding(n) - n
  /\ 20 + LengthAt(length, n) <= BufLen

\* Stun::append.  An attribute that does not fit is refused and changes
\* nothing.  The words of the value become value; there is no iterator while
\* the message is borrowed mutably.
append(typ, n, value) ==
  LET at == LengthAt(length, n)
  IN  /\ origin = "built" /\ iter = "idle"
      /\ Fits(n)
      /\ length' = at
      /\ words' = [o \in Offsets |-> IF o = length THEN [typ |-> typ, len |-> n]
                                     ELSE IF o > length /\ o < at THEN value ELSE words[o]]
      /\ written' = Append(written, [typ |-> typ, len |-> n, at |-> at])
      /\ UNCHANGED <<origin, offset, iter, read>>

-----------------------------------------------------------------------------
(* The iterator *)

\* IntoIterator for &Stun.
into_iter ==
  /\ origin \in {"received", "built"} /\ iter # "running"
  /\ offset' = 0 /\ iter' = "running" /\ read' = <<>>
  /\ UNCHANGED <<words, length, origin, written>>

\* The iterator has no whole attribute header left.
HeaderMissing ==
  \/ offset >= length
  \/ length - offset < 4
  \/ BufLen - 4 < 16 + offset + 4

\* Mutant of ValueMissing: the length of the message is not consulted.
ValueMissing_BufferOnly(n) == BufLen - 4 < 16 + offset + 4 + n

\* The value, its padding, or the part of the buffer it lies in is missing.
ValueMissing(n) ==
  LET remaining == length - offset - 4
  IN  \/ remaining < n
      \/ remaining - n < Padding(n)
      \/ BufLen - 4 < 16 + offset + 4 + n

\* Mutant of LengthOf: the attribute is presented with the length of the whole
\* message.
LengthOf_Message(o, n) == length

\* The length in the first four bytes of the prefix that goes with a value.
LengthOf(o, n) == LengthAt(o, n)

\* Attrs::next.
next ==
  /\ iter = "running"
  /\ IF HeaderMissing \/ ValueMissing(words[offset].len)
     THEN iter' = "done" /\ UNCHANGED <<offset, read>>
     ELSE LET h == words[offset]
              at == LengthAt(offset, h.len)
          IN  IF at > U16Max
              THEN iter' = "panicked" /\ UNCHANGED <<offset, read>>
              ELSE /\ offset' = at
                   /\ read' = Append(read, [typ |-> h.typ, len |-> h.len, at |-> LengthOf(offset, h.len)])
                   /\ UNCHANGED iter
  /\ UNCHANGED <<words, length, origin, written>>

-----------------------------------------------------------------------------
Init ==
  /\ words \in [Offsets -> Header] /\ length \in 0..U16Max
  /\ origin = "raw" /\ written = <<>>
  /\ offset = 0 /\ iter = "idle" /\ read = <<>>

Next ==
  \/ \E n \in 0..BufLen : decode(n)
  \/ Clear
  \/ \E typ \in Types, n \in Lens, value \in Header : append(typ, n, value)
  \/ into_iter
  \/ next

Spec == Init /\ [][Next]_vars

-----------------------------------------------------------------------------
(* Properties *)

\* The variables have the types their declarations describe; in particular
\* no length that append computes exceeds u16.
TypeOK ==
  /\ words \in [Offsets -> Header]
  /\ length \in 0..U16Max
  /\ origin \in {"raw", "received", "built", "refused"}
  /\ written \in Seq(Attribute)
  /\ offset \in 0..U16Max
  /\ iter \in {"idle", "running", "done", "panicked"}
  /\ read \in Seq(Attribute)

\* Attrs::next reads only inside of the message and of the buffer, and none of
\* its u16 sums overflows, for any bytes that decode accepts.
ReadsInside ==
  /\ iter # "panicked"
  /\ iter = "running" => /\ offset <= length /\ offset % 4 = 0
                         /\ 20 + length <= BufLen

\* What was appended is what is read back, in order, each attribute with the
\* message length its value was encoded with: an integrity value verifies no
\* matter what was appended after it.
RoundTrip ==
  origin = "built" /\ iter \in {"running", "done"} =>
    /\ Len(read) <= Len(written)
    /\ \A k \in 1..Len(read) : read[k] = written[k]
    /\ iter = "done" => Len(read) = Len(written)
=============================================================================
