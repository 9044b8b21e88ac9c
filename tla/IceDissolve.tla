----------------------------- MODULE IceDissolve -----------------------------
(***************************************************************************)
(* The ICE responder (bin/ice-dissolve.rs): a loop that reads a packet     *)
(* from a TUN interface into its buffer, turns it into a response if it is *)
(* a connectivity check for the user "dissolve", and sends back what is in *)
(* the buffer.                                                             *)
(*                                                                         *)
(* The buffer is never cleared: what a packet does not overwrite is left   *)
(* from earlier packets.  It is divided into the parts of a packet; a part *)
(* that a packet overwrites only in part becomes any mix of bytes.         *)
(***************************************************************************)
EXTENDS StunType, StunValues, AttrChain, Checksum

CONSTANTS
  Packets,   \* packets that arrive
  None,      \* the parts that a packet does not have
  BufLen,    \* the length of the buffer
  Mixes,     \* for each part, what it may be when a packet overwrote some of its bytes
  DataSums,  \* what the 16-bit words of a response may add up to
  RoundMax   \* bound on the number of packets

\* The parts of a packet.
U16 == {x \in Nat : x < 65536}

IpHeader == [version : Nat, payload : U16, next_header : Byte, src : Octets(16), dst : Octets(16)]

UdpHeader == [sport : Octets(2), dport : Octets(2), length : U16, checksum : U16]

StunHeader == [typ : U16, length : U16, magic : BOOLEAN, txid : Octets(12)]

\* A packet: its length, and its parts as far as it is long enough for them.
Packet ==
  [len : 0..BufLen, ip : IpHeader \cup {None}, udp : UdpHeader \cup {None},
   stun : StunHeader \cup {None}, body : Seq(Attribute) \cup {None}]

\* Where each part of a packet ends.
EndOf(p) ==
  [ip |-> 40, udp |-> 48, stun |-> 68, body |-> IF p.stun = None THEN 68 ELSE 68 + p.stun.length]

ASSUME BufferAssumption ==
  /\ BufLen \in Nat /\ BufLen >= 200 /\ RoundMax \in Nat
  /\ \A n \in DataSums : n \in Nat /\ n <= 16384 * 65536

ASSUME MixesAssumption ==
  /\ Mixes.ip \subseteq IpHeader /\ Mixes.udp \subseteq UdpHeader
  /\ Mixes.stun \subseteq StunHeader /\ Mixes.body \subseteq Seq(Attribute)

ASSUME PacketsAssumption ==
  /\ None \notin Packets
  /\ \A p \in Packets :
       /\ p \in Packet
       /\ \A part \in {"ip", "udp", "stun", "body"} : p[part] # None <=> EndOf(p)[part] <= p.len

VARIABLES
  pc,       \* "recv", "inspect", "parse", "send", "panicked"
  packet,   \* history: the packet that is being handled, or None
  buffer,   \* what the buffer holds
  length,   \* the length of the packet in the buffer
  pos, armed, dest, unknown,  \* the chain of parsers, see AttrChain
  verdict,  \* what was done with the packet: "pass", "441", "487", "mapped"
  data,     \* the sum of the 16-bit words of the response
  sent,     \* what was sent last, or None
  rounds    \* how many packets were received

chainVars == <<pos, armed, dest, unknown>>
vars == <<pc, packet, buffer, length, chainVars, verdict, data, sent, rounds>>

\* The parsers of main, in the order they are chained in.
Chain ==
  <<"USERNAME", "MESSAGE_INTEGRITY", "ICE_CONTROLLED", "ICE_CONTROLLING", "PRIORITY",
    "USE_CANDIDATE", "FINGERPRINT">>

\* Types whose parsers are chained behind the one of MESSAGE_INTEGRITY: that one
\* keeps the attribute to itself, and so they go on waiting although must_precede
\* says that they come too late.
Late == {"ICE_CONTROLLED", "ICE_CONTROLLING", "PRIORITY", "USE_CANDIDATE"}

-----------------------------------------------------------------------------
(* Receiving *)

\* What a part of the buffer may be after p was read over it.
Overwritten(p, part, start) ==
  IF p[part] # None THEN {p[part]}
  ELSE IF p.len <= start THEN {buffer[part]}
  ELSE {buffer[part]} \cup Mixes[part]

\* network.recv.
Recv(p) ==
  /\ pc = "recv" /\ rounds < RoundMax
  /\ pc' = "inspect" /\ rounds' = rounds + 1
  /\ packet' = p /\ length' = p.len
  /\ sent' = None /\ verdict' = "pass" /\ data' = 0
  /\ \E ip \in Overwritten(p, "ip", 0), udp \in Overwritten(p, "udp", 40),
       stun \in Overwritten(p, "stun", 48), body \in Overwritten(p, "body", 68) :
       buffer' = [ip |-> ip, udp |-> udp, stun |-> stun, body |-> body]
  /\ UNCHANGED chainVars

-----------------------------------------------------------------------------
(* Inspecting *)

\* Mutant of WholeUdp: the length of the IP packet is not compared.
WholeUdp_AnyLength ==
  /\ buffer.ip.version = 6
  /\ buffer.ip.next_header = 17 /\ buffer.ip.payload >= 8
  /\ buffer.udp.length = buffer.ip.payload

\* The checks of the IPv6 and UDP headers.
WholeUdp ==
  /\ buffer.ip.version = 6 /\ 40 + buffer.ip.payload = length
  /\ buffer.ip.next_header = 17 /\ buffer.ip.payload >= 8
  /\ buffer.udp.length = buffer.ip.payload

data_len == buffer.udp.length - 8

\* Stun::decode, and the type of the message.
WholeRequest ==
  /\ buffer.stun.typ \div 256 \in 0..2
  /\ ~NotStun(buffer.stun.typ)
  /\ buffer.stun.length % 4 = 0 /\ buffer.stun.magic
  /\ data_len >= 20 + buffer.stun.length
  /\ class(buffer.stun.typ) = Request /\ raw_method(buffer.stun.typ) = Method.Binding

\* From the received packet to the chain of parsers.  decode asserts that the
\* buffer has data_len bytes behind the headers.
Inspect ==
  /\ pc = "inspect"
  /\ pc' = IF ~WholeUdp THEN "send"
           ELSE IF buffer.stun.typ \div 256 \in 0..2 /\ data_len > BufLen - 48 THEN "panicked"
           ELSE IF WholeRequest THEN "parse"
           ELSE "send"
  /\ UNCHANGED <<packet, buffer, length, chainVars, verdict, data, sent, rounds>>

\* AttrParser::next, through the whole chain, down to collect_unknown::<1>.
Pull ==
  LET a == buffer.body[pos]
  IN  /\ pc = "parse" /\ pos <= Len(buffer.body)
      /\ dest' = Kept(dest, armed, a, pos)
      /\ armed' = armed \ Disarmed(Chain, armed, a.typ)
      /\ unknown' = IF a.typ \in Types(Chain) THEN unknown ELSE Collected(unknown, 1, a.typ)
      /\ pos' = pos + 1
      /\ UNCHANGED <<pc, packet, buffer, length, verdict, data, sent, rounds>>

-----------------------------------------------------------------------------
(* Answering *)

Given(t) == dest[t] # 0

Is(t, v) == Given(t) /\ buffer.body[dest[t]].val = v

\* All expected attributes are there, no others, and the user is "dissolve".
Intercepts ==
  /\ unknown = <<>>
  /\ Given("USERNAME") /\ Given("MESSAGE_INTEGRITY")
  /\ Given("ICE_CONTROLLED") # Given("ICE_CONTROLLING")
  /\ Given("PRIORITY") /\ Given("FINGERPRINT")
  /\ Is("USERNAME", "dissolve")

Verdict ==
  IF ~Is("MESSAGE_INTEGRITY", "match") THEN "441"
  ELSE IF Given("ICE_CONTROLLED") THEN "487"
  ELSE "mapped"

\* The attributes of the responses, with the bytes of their values.  Values of
\* MESSAGE_INTEGRITY and FINGERPRINT are computed from what is in front of them.
Content(v) ==
  LET bytes(t, b) == [typ |-> t, good |-> TRUE, val |-> "bytes", value |-> b]
      sender == [ip |-> buffer.ip.src, port |-> buffer.udp.sport]
      integrity == bytes("MESSAGE_INTEGRITY", [i \in 1..20 |-> 0])
      fingerprint == bytes("FINGERPRINT", [i \in 1..4 |-> 0])
  IN  CASE v = "441" -> <<bytes("ERROR_CODE", ERROR_CODE_encode(441)), fingerprint>>
        [] v = "487" -> <<bytes("ERROR_CODE", ERROR_CODE_encode(487)), integrity, fingerprint>>
        [] v = "mapped" ->
             <<bytes("XOR_MAPPED_ADDRESS", SocketAddr_encode(buffer.stun.txid, sender)),
               integrity, fingerprint>>

\* The length of a message with these attributes; none needs padding.
ContentLen(v) == CASE v = "441" -> 16 [] v = "487" -> 40 [] v = "mapped" -> 56

\* The sum of the 16-bit words of an address.
AddrSum(ip) ==
  Word(ip, 1) + Word(ip, 3) + Word(ip, 5) + Word(ip, 7) + Word(ip, 9) + Word(ip, 11) + Word(ip, 13) + Word(ip, 15)

\* What udp_checksum_fill sums up for the packet in b, without the checksum; n is
\* the sum of the words of the message.
Summed(b, n) ==
  AddrSum(b.ip.src) + AddrSum(b.ip.dst) + 17 + b.ip.payload
    + Word(b.udp.sport, 1) + Word(b.udp.dport, 1) + b.udp.length + n

\* Mutant of Turned: the ports stay where they are.
Turned_SamePorts(v) ==
  LET n == 28 + ContentLen(v)
  IN  [ip |-> [buffer.ip EXCEPT !.src = buffer.ip.dst, !.dst = buffer.ip.src, !.payload = n],
       udp |-> [buffer.udp EXCEPT !.length = n, !.checksum = 0],
       stun |-> [buffer.stun EXCEPT !.typ = set_class(@, IF v = "mapped" THEN Success ELSE Error),
                                    !.length = ContentLen(v)],
       body |-> Content(v)]

\* The response, without its checksum: source and destination swapped, the
\* lengths set, and the attributes in place of those of the request.
Turned(v) ==
  LET n == 28 + ContentLen(v)
  IN  [ip |-> [buffer.ip EXCEPT !.src = buffer.ip.dst, !.dst = buffer.ip.src, !.payload = n],
       udp |-> [buffer.udp EXCEPT !.sport = buffer.udp.dport, !.dport = buffer.udp.sport,
                                  !.length = n, !.checksum = 0],
       stun |-> [buffer.stun EXCEPT !.typ = set_class(@, IF v = "mapped" THEN Success ELSE Error),
                                    !.length = ContentLen(v)],
       body |-> Content(v)]

\* The packet is no check for us.
PassOn ==
  /\ pc = "parse" /\ pos > Len(buffer.body) /\ ~Intercepts
  /\ pc' = "send"
  /\ UNCHANGED <<packet, buffer, length, chainVars, verdict, data, sent, rounds>>

\* The packet becomes a response, whose words add up to n.  append fails if the
\* buffer is too short.
Intercept(n) ==
  /\ pc = "parse" /\ pos > Len(buffer.body) /\ Intercepts
  /\ pc' = IF 48 + 20 + ContentLen(Verdict) <= BufLen THEN "send" ELSE "panicked"
  /\ verdict' = Verdict /\ data' = n
  /\ buffer' = [Turned(Verdict) EXCEPT !.udp.checksum = udp_checksum(Summed(Turned(Verdict), n))]
  /\ length' = 68 + ContentLen(Verdict)
  /\ UNCHANGED <<packet, chainVars, sent, rounds>>

\* network.send: the first length bytes of the buffer.  With this the iteration
\* of the loop and its locals end.
Send ==
  /\ pc = "send" /\ pc' = "recv" /\ packet' = None
  /\ sent' = LET whole(end, part) == IF end <= length THEN part ELSE None
             IN  [len  |-> length,
                  ip   |-> whole(40, buffer.ip),
                  udp  |-> whole(48, buffer.udp),
                  stun |-> whole(68, buffer.stun),
                  body |-> whole(68 + buffer.stun.length, buffer.body)]
  /\ pos' = 1 /\ armed' = Types(Chain) /\ dest' = [t \in Types(Chain) |-> 0] /\ unknown' = <<>>
  /\ UNCHANGED <<buffer, length, verdict, data, rounds>>

-----------------------------------------------------------------------------
\* The buffer is zeroed once.
Zeroed ==
  LET zeroes(n) == [i \in 1..n |-> 0]
  IN  [ip   |-> [version |-> 0, payload |-> 0, next_header |-> 0, src |-> zeroes(16), dst |-> zeroes(16)],
       udp  |-> [sport |-> zeroes(2), dport |-> zeroes(2), length |-> 0, checksum |-> 0],
       stun |-> [typ |-> 0, length |-> 0, magic |-> FALSE, txid |-> zeroes(12)],
       body |-> <<>>]

Init ==
  /\ pc = "recv" /\ packet = None /\ buffer = Zeroed /\ length = 0
  /\ pos = 1 /\ armed = Types(Chain) /\ dest = [t \in Types(Chain) |-> 0] /\ unknown = <<>>
  /\ verdict = "pass" /\ data = 0 /\ sent = None /\ rounds = 0

Next ==
  \/ \E p \in Packets : Recv(p)
  \/ Inspect \/ Pull \/ PassOn
  \/ \E n \in DataSums : Intercept(n)
  \/ Send

Spec == Init /\ [][Next]_vars

-----------------------------------------------------------------------------
(* Properties *)

\* The variables have the types their declarations describe.
TypeOK ==
  /\ pc \in {"recv", "inspect", "parse", "send", "panicked"}
  /\ (packet = None <=> pc = "recv") /\ length \in 0..BufLen
  /\ buffer.ip \in IpHeader /\ buffer.udp \in UdpHeader /\ buffer.stun \in StunHeader
  /\ pos \in Nat /\ armed \subseteq Types(Chain) /\ dest \in [Types(Chain) -> Nat]
  /\ Len(unknown) <= 1 /\ data \in Nat /\ rounds \in 0..RoundMax
  /\ verdict \in {"pass", "441", "487", "mapped"}

\* Neither the assertion of Stun::decode fails, whatever the lengths in a packet
\* and in the remains of earlier ones, nor the unwrap of an append: the buffer is
\* long enough for every response.
NeverPanics == pc # "panicked"

\* The receiver of a response finds its UDP checksum right, and present.
ChecksumRight ==
  pc = "recv" /\ verdict # "pass" => Verifies(Summed(sent, data), sent.udp.checksum)

\* What the sender of a check reads in a response, with the decoders of this
\* library.
Read(s) ==
  IF s.body[1].typ = "ERROR_CODE"
  THEN [error |-> ERROR_CODE_decode(s.body[1].value)]
  ELSE [mapped |-> SocketAddr_decode(s.stun.txid, s.body[1].value)]

Responder ==
  INSTANCE IceResponder WITH
    None <- None,
    Late <- Late,
    packet <- packet,
    answer <- IF pc # "recv" \/ verdict = "pass" THEN sent
              ELSE [src  |-> [ip |-> sent.ip.src, port |-> sent.udp.sport],
                    dst  |-> [ip |-> sent.ip.dst, port |-> sent.udp.dport],
                    txid |-> sent.stun.txid,
                    says |-> Read(sent)]

\* The loop, with its buffer, its chain of parsers and its encoders, does what a
\* stateless responder does: whatever earlier packets left behind in the buffer,
\* what is sent depends on the packet alone, and its sender reads from it what
\* the responder had to say.  (The responder counts some attributes behind
\* MESSAGE_INTEGRITY, see Late.)
Stateless == Responder!Spec
=============================================================================
