----------------------------- MODULE StunValues -----------------------------
(***************************************************************************)
(* Values of STUN attributes, as bytes (stun/attr/values.rs, stun/attr.rs, *)
(* stun/rfc8489.rs, stun/rfc8656.rs, stun/rfc8445.rs): socket addresses,   *)
(* xored with the message they are in, numbers, error codes, lists of      *)
(* types, and the small values of TURN.                                    *)
(***************************************************************************)
EXTENDS Integers, Sequences, FiniteSets

CONSTANT BitXor(_, _)  \* ^ of two bytes

Byte == 0..255

\* Xoring a byte twice with the same byte gives the byte back.
ASSUME XorAssumption ==
  \A a, b \in Byte : BitXor(a, b) \in Byte /\ BitXor(BitXor(a, b), b) = a

\* The header of a message without its first four bytes: the cookie 0x2112A442,
\* and the transaction id.
Prefix(txid) == <<33, 18, 164, 66>> \o txid

\* Prefix::xor_bytes, of at most 16 bytes.
xor_bytes(txid, bytes) == [i \in 1..Len(bytes) |-> BitXor(bytes[i], Prefix(txid)[i])]

\* A socket address: an IPv4 or IPv6 address, and the bytes of a port.
Octets(n) == [1..n -> Byte]

SocketAddr == [ip : Octets(4) \cup Octets(16), port : Octets(2)]

\* sockaddr_attr!(_, true): the value consists of a zero, the family, the port
\* and the address.
SocketAddr_encode(txid, a) ==
  <<0, IF Len(a.ip) = 4 THEN 1 ELSE 2>> \o xor_bytes(txid, a.port) \o xor_bytes(txid, a.ip)

\* The address in a value.  What a value has too much of is ignored.
SocketAddr_decode(txid, value) ==
  LET part(m, n) == [i \in 1..(n - m + 1) |-> value[m + i - 1]]
      addr(n) == [ip |-> xor_bytes(txid, part(5, 4 + n)), port |-> xor_bytes(txid, part(3, 4))]
  IN  CASE Len(value) >= 8 /\ value[2] = 1 -> addr(4)
        [] Len(value) >= 20 /\ value[2] = 2 -> addr(16)
        [] OTHER -> [error |-> "SocketAddrError"]

UnexpectedLength == [error |-> "UnexpectedLength"]

\* ERROR_CODE, with an empty reason: the hundreds of the code, and the rest.
ERROR_CODE_encode(code) == <<0, 0, code \div 100, code % 100>>

ERROR_CODE_decode(value) ==
  IF Len(value) < 4 THEN UnexpectedLength ELSE 100 * (value[3] % 8) + (value[4] % 100)

\* ADDRESS_ERROR_CODE: the same, with an address family in the first byte.
ADDRESS_ERROR_CODE_encode(family, code) == [ERROR_CODE_encode(code) EXCEPT ![1] = family]

ADDRESS_ERROR_CODE_decode(value) ==
  IF Len(value) < 4 THEN UnexpectedLength ELSE [family |-> value[1], code |-> ERROR_CODE_decode(value)]

-----------------------------------------------------------------------------
(* Numbers *)

\* to_be_bytes of u16, u32 and u64.
be16(n) == <<n \div 256, n % 256>>

be32(n) == be16(n \div 65536) \o be16(n % 65536)

be64(n) ==
  LET high == n \div 65536 IN be32(high \div 65536) \o be16(high % 65536) \o be16(n % 65536)

\* from_be_bytes of the two bytes at i.
Word(bytes, i) == 256 * bytes[i] + bytes[i + 1]

\* numeric_attr!(_, u32) and numeric_attr!(_, u64): nothing but all bytes will do.
u32_decode(value) ==
  IF Len(value) = 4 THEN 65536 * Word(value, 1) + Word(value, 3) ELSE UnexpectedLength

u64_decode(value) ==
  IF Len(value) = 8
  THEN 65536 * (65536 * (65536 * Word(value, 1) + Word(value, 3)) + Word(value, 5)) + Word(value, 7)
  ELSE UnexpectedLength

-----------------------------------------------------------------------------
(* The values of TURN *)

CHANNEL_NUMBER_encode(n) == be16(n) \o <<0, 0>>

CHANNEL_NUMBER_decode(value) == IF Len(value) < 2 THEN UnexpectedLength ELSE Word(value, 1)

\* The highest bit of a byte.
EVEN_PORT_encode(even) == <<IF even THEN 128 ELSE 0>>

EVEN_PORT_decode(value) == IF Len(value) < 1 THEN UnexpectedLength ELSE value[1] >= 128

\* weird_byte_attr!: address families and transports.
byte_encode(b) == <<b, 0, 0, 0>>

byte_decode(value) == IF Len(value) < 1 THEN UnexpectedLength ELSE value[1]

\* ICMP: type and code are written twice.  There is no way to decode it.
ICMP_encode(typ, code, data) == <<typ, code, typ, code>> \o data

-----------------------------------------------------------------------------
(* UNKNOWN_ATTRIBUTES: an array of types, in which 0 is a free place *)

\* The body of the loop of collect_unknown: the first place that is free or has
\* the type already is looked for.
collect(types, typ) ==
  [i \in DOMAIN types |->
     IF types[i] = 0 /\ \A j \in 1..(i - 1) : types[j] \notin {0, typ} THEN typ ELSE types[i]]

\* How many types there are.
Count(types) == Cardinality({i \in DOMAIN types : types[i] # 0})

\* Every type is counted, but only those in front of the first free place are
\* written over what was in the buffer.
UNKNOWN_ATTRIBUTES_encode(types, buffer) ==
  [b \in 1..(2 * Count(types)) |->
     LET i == (b + 1) \div 2
     IN  IF \E j \in 1..i : types[j] = 0 THEN buffer[b] ELSE be16(types[i])[2 - (b % 2)]]

\* As many types as there are in the value, and at most n.
UNKNOWN_ATTRIBUTES_decode(n, value) ==
  [i \in 1..n |-> IF 2 * i <= Len(value) THEN Word(value, 2 * i - 1) ELSE 0]

\* The free places are at the end.
Packed(types) == \A i, j \in DOMAIN types : i < j /\ types[i] = 0 => types[j] = 0
=============================================================================
