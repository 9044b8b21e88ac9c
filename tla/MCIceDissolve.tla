--------------------------- MODULE MCIceDissolve ---------------------------
(***************************************************************************)
(* Values of the constants of IceDissolve for TLC.                         *)
(***************************************************************************)
EXTENDS IceDissolve, Bitwise, FiniteSets

MCXor(a, b) == a ^^ b

Client == <<32, 1, 13, 184, 255, 170, 85, 0, 1, 2, 4, 8, 16, 32, 64, 128>>

Host == <<253, 0, 0, 0, 0, 0, 0, 0, 0, 0, 0, 0, 0, 0, 255, 255>>

Txid == <<0, 255, 33, 18, 164, 66, 1, 2, 3, 4, 5, 6>>

Attr(t, v) == [typ |-> t, good |-> TRUE, val |-> v]

Bad(t) == [typ |-> t, good |-> FALSE, val |-> "any"]

Plain(t) == Attr(t, "any")

\* The check of a client in the given role.
CheckOf(role) ==
  <<Attr("USERNAME", "dissolve"), Plain(role), Plain("PRIORITY"),
    Attr("MESSAGE_INTEGRITY", "match"), Plain("FINGERPRINT")>>

Attributes ==
  {Attr("USERNAME", "dissolve"), Attr("USERNAME", "other"), Bad("USERNAME"),
   Attr("MESSAGE_INTEGRITY", "match"), Attr("MESSAGE_INTEGRITY", "mismatch"),
   Plain("MESSAGE_INTEGRITY_SHA256"), Plain("ICE_CONTROLLED"), Plain("ICE_CONTROLLING"),
   Bad("ICE_CONTROLLING"), Plain("PRIORITY"), Plain("USE_CANDIDATE"), Plain("FINGERPRINT"),
   Bad("FINGERPRINT"), Plain("SOFTWARE"), Plain("REALM"), Plain("ZERO")}

Without(b, i) == SubSeq(b, 1, i - 1) \o SubSeq(b, i + 1, Len(b))

With(b, i, a) == SubSeq(b, 1, i - 1) \o <<a>> \o SubSeq(b, i, Len(b))

\* The checks of both roles, and what becomes of them if one attribute is left
\* out, replaced or put in, two are exchanged, or two are put in that are not
\* understood.
Bodies ==
  UNION {LET b == CheckOf(role)
         IN  {b}
               \cup {Without(b, i) : i \in 1..5}
               \cup {[b EXCEPT ![i] = a] : i \in 1..5, a \in Attributes}
               \cup {With(b, i, a) : i \in 1..6, a \in Attributes}
               \cup {<<Plain("REALM"), Plain("MESSAGE_INTEGRITY_SHA256")>> \o b}
               \cup {[b EXCEPT ![i] = b[j], ![j] = b[i]] : i, j \in 1..5}
         : role \in {"ICE_CONTROLLED", "ICE_CONTROLLING"}}

\* A packet of n bytes with these parts, as far as it has them.
PacketOf(n, ip, udp, stun, body) ==
  [len  |-> n,
   ip   |-> IF n >= 40 THEN ip ELSE None,
   udp  |-> IF n >= 48 THEN udp ELSE None,
   stun |-> IF n >= 68 THEN stun ELSE None,
   body |-> IF n >= 68 /\ n >= 68 + stun.length THEN body ELSE None]

IpOf(version, payload, next_header) ==
  [version |-> version, payload |-> payload, next_header |-> next_header, src |-> Client, dst |-> Host]

UdpOf(n) == [sport |-> <<200, 1>>, dport |-> <<13, 150>>, length |-> n, checksum |-> 1]

StunOf(typ, n, magic) == [typ |-> typ, length |-> n, magic |-> magic, txid |-> Txid]

\* A check has attributes of 100 bytes.
Whole(body) == PacketOf(168, IpOf(6, 128, 17), UdpOf(128), StunOf(1, 100, TRUE), body)

Check == CheckOf("ICE_CONTROLLING")

\* Whole packets with all of the bodies, and packets with a check of which one
\* part is not what it should be: lengths that do not agree, at the limits of the
\* header, the buffer and 16 bits included, and other protocols and types.
MCPackets ==
  {Whole(b) : b \in Bodies}
    \cup {PacketOf(168, IpOf(v, 128, q), UdpOf(128), StunOf(1, 100, TRUE), Check) :
            v \in {4, 6}, q \in {6, 17}}
    \cup {PacketOf(n, IpOf(6, m - 40, 17), UdpOf(m - 40), StunOf(1, l, TRUE), Check) :
            n \in {0, 41, 47, 48, 60, 68, 168, 65536}, m \in {47, 48, 68, 168, 65536, 65575}, l \in {0, 100, 65468}}
    \cup {PacketOf(168, IpOf(6, 128, 17), UdpOf(n), StunOf(1, 100, TRUE), Check) : n \in {0, 120, 65535}}
    \cup {PacketOf(168, IpOf(6, 128, 17), UdpOf(128), StunOf(t, l, magic), Check) :
            t \in {1, 2, 17, 257, 273, 769, 16385}, l \in {0, 98, 100, 104}, magic \in BOOLEAN}

\* What is not overwritten in full may be part of a check.
MCMixes == [ip |-> {IpOf(6, 128, 17)}, udp |-> {UdpOf(128)}, stun |-> {StunOf(1, 100, TRUE)}, body |-> {Check}]

\* Sums with which the checksum is zero, as are some others.
MCDataSums ==
  LET fixed == AddrSum(Client) + AddrSum(Host) + 17 + Word(<<200, 1>>, 1) + Word(<<13, 150>>, 1)
  IN  {1, 1000000} \cup {10 * 65535 - fixed - 2 * n : n \in {44, 68, 84}}

\* The loop of ip_checksum, as it is written.
LoopFolded(accum) ==
  LET fold[a \in Nat] == IF a > 65535 THEN fold[Fold(a)] ELSE a IN fold[accum]

ASSUME FoldsLikeTheLoop ==
  \A a \in {65535 * k + d : k \in {0, 1, 2, 255, 32766}, d \in 0..3} : Folded(a) = LoopFolded(a)

\* What is encoded is decoded again, for some values of every kind; and arrays of
\* types stay packed and come back whatever was in the buffer.
ASSUME ValuesComeBack ==
  /\ \A n \in {0, 1, 255, 256, 40000, 65535} : CHANNEL_NUMBER_decode(CHANNEL_NUMBER_encode(n)) = n
  /\ \A n \in {0, 65535, 65536, 1000000000} : u32_decode(be32(n)) = n /\ u64_decode(be64(n)) = n
  /\ \A b \in BOOLEAN : EVEN_PORT_decode(EVEN_PORT_encode(b)) = b
  /\ \A n \in 0..799 : ERROR_CODE_decode(ERROR_CODE_encode(n)) = n
  /\ \A types \in [1..3 -> {0, 1, 2, 513}] :
       Packed(types) =>
         /\ \A typ \in {0, 1, 513} : Packed(collect(types, typ))
         /\ \A old \in {0, 255} :
              UNKNOWN_ATTRIBUTES_decode(3, UNKNOWN_ATTRIBUTES_encode(types, [b \in 1..6 |-> old])) = types

\* A responder to which must_precede has no exceptions.
Strict ==
  INSTANCE IceResponder WITH None <- None, Late <- {}, packet <- packet, answer <- sent

\* The exceptions matter, and nothing else does: there are packets that are a
\* check because of them only, and the two responders differ on no packet without
\* an attribute of a type in Late behind its MESSAGE_INTEGRITY.
ASSUME LateMatters ==
  /\ \E p \in MCPackets : Responder!Check(p) /\ ~Strict!Check(p)
  /\ \A p \in MCPackets :
       Responder!Answer(p) # Strict!Answer(p) =>
         \E i, j \in 1..Len(p.body) :
           i < j /\ p.body[i].typ = "MESSAGE_INTEGRITY" /\ p.body[j].typ \in Late
=============================================================================
