------------------------- MODULE IceDissolveProofs -------------------------
(***************************************************************************)
(* The ICE responder never panics, fills in checksums that verify, and     *)
(* implements the stateless responder, for packets of any content, buffers *)
(* of any length from 200 on, and whatever the buffer still holds.         *)
(***************************************************************************)
EXTENDS IceDissolve, StunProofs, TLAPS

-----------------------------------------------------------------------------
(* Values *)

LEMMA FromU16 ==
  ASSUME NEW x \in U16
  PROVE  x \in Nat /\ x < 65536
  BY SMTT(60) DEF U16

LEMMA ToU16 ==
  ASSUME NEW x \in Nat, x < 65536
  PROVE  x \in U16
  BY SMTT(60) DEF U16

\* The codes that the responder answers with.
LEMMA CodesReadBack ==
  ERROR_CODE_decode(ERROR_CODE_encode(441)) = 441 /\ ERROR_CODE_decode(ERROR_CODE_encode(487)) = 487
<1>1. 441 \in 0..799 /\ 487 \in 0..799
  OBVIOUS
<1>2. \A code \in 0..799 : ERROR_CODE_decode(ERROR_CODE_encode(code)) = code
  BY ErrorRoundTrip, ZenonT(60)
<1> QED
  BY <1>1, <1>2

\* The sum of the words of an address.
LEMMA AddrSumBound ==
  ASSUME NEW ip \in Octets(16)
  PROVE  AddrSum(ip) \in Nat /\ AddrSum(ip) < 8 * 65536
<1>1. \A i \in 1..16 : ip[i] \in Byte
  BY DEF Octets
<1>2. \A i \in 1..15 : Word(ip, i) \in Nat /\ Word(ip, i) < 65536
  <2> SUFFICES ASSUME NEW i \in 1..15 PROVE Word(ip, i) \in Nat /\ Word(ip, i) < 65536
    OBVIOUS
  <2>1. i \in Nat /\ ip[i] \in Byte /\ ip[i + 1] \in Byte
    BY <1>1
  <2> QED
    BY <2>1, WordBound
<1> QED
  BY <1>2, SMTT(60) DEF AddrSum

\* What udp_checksum_fill sums up fits a u32, with the checksum as well.
LEMMA SummedBound ==
  ASSUME NEW b, b.ip \in IpHeader, b.udp \in UdpHeader, NEW n \in Nat, n <= 16384 * 65536
  PROVE  Summed(b, n) \in Nat /\ Summed(b, n) > 0 /\ Summed(b, n) + 65535 < 65536 * 65536
<1>1. b.ip.src \in Octets(16) /\ b.ip.dst \in Octets(16) /\ b.ip.payload \in U16
  BY SMTT(60) DEF IpHeader
<1>2. b.udp.sport \in Octets(2) /\ b.udp.dport \in Octets(2) /\ b.udp.length \in U16
  BY SMTT(60) DEF UdpHeader
<1>3. /\ AddrSum(b.ip.src) \in Nat /\ AddrSum(b.ip.src) < 8 * 65536
      /\ AddrSum(b.ip.dst) \in Nat /\ AddrSum(b.ip.dst) < 8 * 65536
  BY <1>1, AddrSumBound, SMTT(60)
<1>4. \A p \in Octets(2) : Word(p, 1) \in Nat /\ Word(p, 1) < 65536
  <2> SUFFICES ASSUME NEW p \in Octets(2) PROVE Word(p, 1) \in Nat /\ Word(p, 1) < 65536
    OBVIOUS
  <2>1. p[1] \in Byte /\ p[1 + 1] \in Byte
    BY DEF Octets
  <2> QED
    BY <2>1, WordBound
<1>5. /\ b.ip.payload \in Nat /\ b.ip.payload < 65536
      /\ b.udp.length \in Nat /\ b.udp.length < 65536
  BY <1>1, <1>2, FromU16, SMTT(60)
<1>6. /\ Word(b.udp.sport, 1) \in Nat /\ Word(b.udp.sport, 1) < 65536
      /\ Word(b.udp.dport, 1) \in Nat /\ Word(b.udp.dport, 1) < 65536
  BY <1>2, <1>4, SMTT(60)
<1> QED
  BY <1>3, <1>5, <1>6, SMTT(60) DEF Summed

-----------------------------------------------------------------------------
(* The chain *)

\* The parsers, one by one.
LEMMA ParsersAre ==
  /\ Types(Chain) = {"USERNAME", "MESSAGE_INTEGRITY", "ICE_CONTROLLED", "ICE_CONTROLLING", "PRIORITY",
                     "USE_CANDIDATE", "FINGERPRINT"}
  /\ \A i \in 1..Len(Chain) : /\ Chain[i] = "USERNAME" <=> i = 1
                              /\ Chain[i] = "MESSAGE_INTEGRITY" <=> i = 2
                              /\ Chain[i] = "FINGERPRINT" <=> i = 7
                              /\ Chain[i] # "MESSAGE_INTEGRITY_SHA256" /\ i <= 7
  /\ 2 \in 1..Len(Chain)
<1>1. Len(Chain) = 7
  BY DEF Chain
<1>2. /\ Chain[1] = "USERNAME" /\ Chain[2] = "MESSAGE_INTEGRITY" /\ Chain[3] = "ICE_CONTROLLED"
      /\ Chain[4] = "ICE_CONTROLLING" /\ Chain[5] = "PRIORITY" /\ Chain[6] = "USE_CANDIDATE"
      /\ Chain[7] = "FINGERPRINT"
  BY DEF Chain
<1>3. 1..7 = {1, 2, 3, 4, 5, 6, 7}
  OBVIOUS
<1>4. Types(Chain) = {Chain[1], Chain[2], Chain[3], Chain[4], Chain[5], Chain[6], Chain[7]}
  BY <1>1, <1>3 DEF Types
<1> QED
  BY <1>1, <1>2, <1>3, <1>4

\* The attributes that make a parser give up waiting are the ones that its own
\* must precede and that no parser in front of it keeps: what Late excepts.
LEMMA BlockersAre ==
  \A t \in Types(Chain) : \A u :
    (Reaches(Chain, u, t) /\ must_precede(t, u)) <=> u \in Responder!BlockersOf(t)
<1> SUFFICES ASSUME NEW t \in Types(Chain), NEW u
             PROVE  (Reaches(Chain, u, t) /\ must_precede(t, u)) <=> u \in Responder!BlockersOf(t)
  BY Zenon
<1>1. PICK k \in 1..Len(Chain) : Chain[k] = t
  BY Zenon DEF Types
<1>2. u \in Responder!BlockersOf(t) <=> must_precede(t, u) /\ ~(u = "MESSAGE_INTEGRITY" /\ t \in Late)
  BY Zenon DEF must_precede, Responder!must_precede, Responder!BlockersOf
<1>3. must_precede(t, u) /\ u # "MESSAGE_INTEGRITY" => Reaches(Chain, u, t)
  <2>1. u = "MESSAGE_INTEGRITY_SHA256" => Reaches(Chain, u, t)
    BY ParsersAre, Zenon DEF Reaches
  <2>2. u = "FINGERPRINT" /\ t # "FINGERPRINT" => Reaches(Chain, u, t)
    BY ParsersAre DEF Reaches
  <2> QED
    BY <2>1, <2>2, Zenon DEF must_precede
<1>4. ASSUME must_precede(t, u), u = "MESSAGE_INTEGRITY"
      PROVE  Reaches(Chain, u, t) <=> t \notin Late
  <2>1. CASE t = "USERNAME"
    BY <1>4, <2>1, ParsersAre DEF Reaches, Late
  <2>2. CASE t # "USERNAME"
    <3>1. t \in Late
      BY <1>4, <2>2, ParsersAre, Zenon DEF Late, must_precede
    <3>2. 2 < k
      BY <1>1, <3>1, ParsersAre DEF Late
    <3> QED
      BY <1>1, <1>4, <3>1, <3>2, ParsersAre, Zenon DEF Reaches
  <2> QED
    BY <2>1, <2>2, Zenon
<1> QED
  BY <1>2, <1>3, <1>4, Zenon

Blocking == [t \in Types(Chain) |-> Responder!BlockersOf(t)]

\* de has attribute t where p has it.
Matches(p, de, t) ==
  /\ de[t] # 0 <=> Responder!Has(p, t)
  /\ \A v : (de[t] # 0 /\ p.body[de[t]].val = v) <=> Responder!HasValue(p, t, v)

\* What the chain has found when the attributes of p are through is what p has.
LEMMA FoundIsHas ==
  ASSUME NEW p, Len(p.body) \in Nat, NEW ar, NEW de,
         Traced(Types(Chain), Blocking, p.body, Len(p.body) + 1, ar, de),
         NEW t \in Types(Chain)
  PROVE  Matches(p, de, t)
<1> DEFINE n == Len(p.body)
           found(i) == Found(p.body, Blocking, t, i)
<1>1. de[t] \in Nat /\ de[t] < n + 1 /\ n \in Nat
  BY Zenon DEF Traced
<1>2. \A i \in 1..n : de[t] = i <=> found(i)
  BY <1>1 DEF Traced
<1>3. \A i \in 1..n : found(i) <=> (p.body[i].typ = t /\ Responder!First(p.body, i, Responder!BlockersOf(t)))
  BY Zenon DEF Found, Open, Blocking, Responder!First
<1> HIDE DEF n, found
<1>4. de[t] # 0 <=> de[t] \in 1..n
  BY <1>1
<1>5. de[t] # 0 <=> \E i \in 1..n : found(i)
  BY <1>1, <1>2, <1>4, Zenon
<1>6. \A v : (de[t] # 0 /\ p.body[de[t]].val = v) <=> \E i \in 1..n : found(i) /\ p.body[i].val = v
  BY <1>1, <1>2, <1>4, Zenon
<1> QED
  BY <1>3, <1>5, <1>6, Zenon DEF Matches, Responder!Has, Responder!HasValue, n

\* Nothing is collected just when all that has to be understood is.
LEMMA ListedIsUnderstood ==
  ASSUME NEW p, Len(p.body) \in Nat, NEW un, Listed(Types(Chain), 1, p.body, Len(p.body), un)
  PROVE  un = <<>> <=> \A i \in 1..Len(p.body) :
           Responder!comprehension_required(p.body[i].typ) => p.body[i].typ \in Responder!Understood
<1>1. un = <<>> <=> \A j \in 1..Len(p.body) : ~Missed(Types(Chain), p.body, j)
  BY NothingListed
<1>2. Responder!Understood = Types(Chain) \cup {"ZERO"}
  BY ParsersAre, Zenon DEF Responder!Understood
<1>3. \A u : Responder!comprehension_required(u) <=> comprehension_required(u)
  BY Zenon DEF comprehension_required, Responder!comprehension_required
<1>4. \A j : Missed(Types(Chain), p.body, j) <=>
        (Responder!comprehension_required(p.body[j].typ) /\ p.body[j].typ \notin Responder!Understood)
  BY <1>2, <1>3, Zenon DEF Missed
<1> QED
  BY <1>1, <1>4, Zenon

-----------------------------------------------------------------------------
(* The invariant *)

\* What the assumption says of a packet.
LEMMA PacketFacts ==
  ASSUME NEW p \in Packets
  PROVE  /\ p # None /\ p.len \in 0..BufLen /\ p.len \in Nat
         /\ p = [len |-> p.len, ip |-> p.ip, udp |-> p.udp, stun |-> p.stun, body |-> p.body]
         /\ p.ip # None <=> 40 <= p.len
         /\ p.udp # None <=> 48 <= p.len
         /\ p.stun # None <=> 68 <= p.len
         /\ p.stun = None => p.body = None
         /\ p.stun # None => (p.body # None <=> 68 + p.stun.length <= p.len)
         /\ p.ip # None => p.ip \in IpHeader
         /\ p.udp # None => p.udp \in UdpHeader
         /\ p.stun # None => p.stun \in StunHeader
         /\ p.body # None => p.body \in Seq(Attribute)
<1>1. p \in Packet /\ p # None
  BY PacketsAssumption, Zenon
<1>2. \A part \in {"ip", "udp", "stun", "body"} : p[part] # None <=> EndOf(p)[part] <= p.len
  BY PacketsAssumption, Zenon
<1>3. BufLen \in Nat
  BY BufferAssumption
<1>4. /\ EndOf(p)["ip"] = 40 /\ EndOf(p)["udp"] = 48 /\ EndOf(p)["stun"] = 68
      /\ EndOf(p)["body"] = IF p.stun = None THEN 68 ELSE 68 + p.stun.length
  BY Zenon DEF EndOf
<1>5. /\ p.len \in 0..BufLen
      /\ p = [len |-> p.len, ip |-> p.ip, udp |-> p.udp, stun |-> p.stun, body |-> p.body]
      /\ p.ip \in IpHeader \cup {None} /\ p.udp \in UdpHeader \cup {None}
      /\ p.stun \in StunHeader \cup {None} /\ p.body \in Seq(Attribute) \cup {None}
  BY <1>1, Zenon DEF Packet
<1>6. p.len \in Nat
  BY <1>3, <1>5
<1>7. /\ p.ip # None <=> 40 <= p.len
      /\ p.udp # None <=> 48 <= p.len
      /\ p.stun # None <=> 68 <= p.len
      /\ p.body # None <=> (IF p.stun = None THEN 68 ELSE 68 + p.stun.length) <= p.len
  BY <1>2, <1>4, Zenon
<1> QED
  BY <1>1, <1>5, <1>6, <1>7, Zenon

\* The parts of the buffer have their types, the mixes as well.
LEMMA MixesTypes ==
  /\ \A x \in Mixes.ip : x \in IpHeader
  /\ \A x \in Mixes.udp : x \in UdpHeader
  /\ \A x \in Mixes.stun : x \in StunHeader
  BY MixesAssumption, Zenon

\* The chain is as it is at the start of an iteration.
Fresh ==
  pos = 1 /\ armed = Types(Chain) /\ dest = [t \in Types(Chain) |-> 0] /\ unknown = <<>>

\* The buffer holds all that p has.
Holds(p) ==
  /\ length = p.len
  /\ p.ip # None => buffer.ip = p.ip
  /\ p.udp # None => buffer.udp = p.udp
  /\ p.stun # None => buffer.stun = p.stun
  /\ p.body # None => buffer.body = p.body

\* The chain read the attributes of p up to the cursor.
Reading(p) ==
  /\ Responder!BindingRequest(p)
  /\ Traced(Types(Chain), Blocking, p.body, pos, armed, dest)
  /\ Listed(Types(Chain), 1, p.body, pos - 1, unknown)
  /\ pos <= Len(p.body) + 1

\* What a response says, as the refinement mapping has it.
Told(b) ==
  [src |-> [ip |-> b.ip.src, port |-> b.udp.sport], dst |-> [ip |-> b.ip.dst, port |-> b.udp.dport],
   txid |-> b.stun.txid, says |-> Read(b)]

\* The buffer holds the answer to p.
Answers(p) ==
  /\ Responder!Check(p) /\ Told(buffer) = Responder!Answer(p)
  /\ Verifies(Summed(buffer, data), buffer.udp.checksum)
  /\ length = 68 + ContentLen(verdict) /\ buffer.stun.length = ContentLen(verdict)

Inv ==
  /\ TypeOK /\ pc # "panicked"
  /\ pc # "recv" => packet \in Packets
  /\ pc \in {"recv", "inspect"} => Fresh
  /\ pc \in {"inspect", "parse"} => verdict = "pass"
  /\ pc # "recv" /\ verdict = "pass" => Holds(packet)
  /\ pc = "parse" => Reading(packet)
  /\ pc = "send" /\ verdict = "pass" => ~Responder!Check(packet)
  /\ pc = "send" /\ verdict # "pass" => Answers(packet)
  /\ ChecksumRight

\* The buffer that is zeroed has the types of headers.
LEMMA ZeroedType ==
  Zeroed.ip \in IpHeader /\ Zeroed.udp \in UdpHeader /\ Zeroed.stun \in StunHeader
<1> DEFINE z(n) == [i \in 1..n |-> 0]
<1>1. \A n \in Nat : z(n) \in Octets(n)
  BY DEF Octets, Byte
<1>2. z(16) \in Octets(16) /\ z(2) \in Octets(2) /\ z(12) \in Octets(12)
  BY <1>1, Zenon
<1>3. 0 \in U16 /\ 0 \in Nat
  BY ToU16, SMTT(60)
<1>4. 0 \in Byte
  BY DEF Byte
<1>5. /\ Zeroed.ip = [version |-> 0, payload |-> 0, next_header |-> 0, src |-> z(16), dst |-> z(16)]
      /\ Zeroed.udp = [sport |-> z(2), dport |-> z(2), length |-> 0, checksum |-> 0]
      /\ Zeroed.stun = [typ |-> 0, length |-> 0, magic |-> FALSE, txid |-> z(12)]
  BY DEF Zeroed
<1> HIDE DEF z
<1> QED
  BY <1>2, <1>3, <1>4, <1>5 DEF IpHeader, UdpHeader, StunHeader

LEMMA InitInv == Init => Inv
<1> SUFFICES ASSUME Init PROVE Inv
  BY Zenon
<1>1. /\ pc = "recv" /\ packet = None /\ buffer = Zeroed /\ length = 0 /\ Fresh
      /\ verdict = "pass" /\ data = 0 /\ rounds = 0
  BY DEF Init, Fresh
<1>2. length \in 0..BufLen /\ rounds \in 0..RoundMax
  BY <1>1, BufferAssumption
<1>3. dest \in [Types(Chain) -> Nat] /\ pos \in Nat /\ Len(unknown) <= 1 /\ armed \subseteq Types(Chain)
  BY <1>1 DEF Fresh
<1>4. TypeOK
  BY <1>1, <1>2, <1>3, ZeroedType, Zenon DEF TypeOK
<1> QED
  BY <1>1, <1>4, Zenon DEF Inv, ChecksumRight

-----------------------------------------------------------------------------
(* Steps *)

\* What a part that a packet has in full overwrites is gone.
LEMMA OverwrittenIs ==
  ASSUME NEW p, NEW part, NEW start, NEW x \in Overwritten(p, part, start)
  PROVE  /\ p[part] # None => x = p[part]
         /\ p[part] = None => x \in {buffer[part]} \cup Mixes[part]
<1>1. CASE p[part] # None
  <2>1. Overwritten(p, part, start) = {p[part]}
    BY <1>1, Zenon DEF Overwritten
  <2> QED
    BY <1>1, <2>1, Zenon
<1>2. CASE p[part] = None
  BY <1>2, Zenon DEF Overwritten
<1> QED
  BY <1>1, <1>2, Zenon

LEMMA RecvInv ==
  ASSUME Inv, NEW p \in Packets, Recv(p)
  PROVE  Inv'
<1>1. /\ pc = "recv" /\ pc' = "inspect" /\ rounds < RoundMax /\ rounds' = rounds + 1
      /\ packet' = p /\ length' = p.len /\ verdict' = "pass" /\ data' = 0
      /\ pos' = pos /\ armed' = armed /\ dest' = dest /\ unknown' = unknown
  BY Zenon DEF Recv, chainVars
<1>2. PICK ip \in Overwritten(p, "ip", 0), udp \in Overwritten(p, "udp", 40),
           stun \in Overwritten(p, "stun", 48), body \in Overwritten(p, "body", 68) :
        buffer' = [ip |-> ip, udp |-> udp, stun |-> stun, body |-> body]
  BY Zenon DEF Recv
<1>3. buffer'.ip = ip /\ buffer'.udp = udp /\ buffer'.stun = stun /\ buffer'.body = body
  BY <1>2, Zenon
<1>4. /\ (p.ip # None => ip = p.ip) /\ (p.ip = None => ip \in {buffer.ip} \cup Mixes.ip)
      /\ (p.udp # None => udp = p.udp) /\ (p.udp = None => udp \in {buffer.udp} \cup Mixes.udp)
      /\ (p.stun # None => stun = p.stun) /\ (p.stun = None => stun \in {buffer.stun} \cup Mixes.stun)
      /\ p.body # None => body = p.body
  BY OverwrittenIs
<1>5. Holds(p)'
  BY <1>1, <1>3, <1>4, Zenon DEF Holds
<1>6. TypeOK /\ Fresh
  BY <1>1, Zenon DEF Inv
<1>7. buffer.ip \in IpHeader /\ buffer.udp \in UdpHeader /\ buffer.stun \in StunHeader
  BY <1>6, Zenon DEF TypeOK
<1>8. buffer'.ip \in IpHeader /\ buffer'.udp \in UdpHeader /\ buffer'.stun \in StunHeader
  <2>1. /\ p.ip # None => p.ip \in IpHeader
        /\ p.udp # None => p.udp \in UdpHeader
        /\ p.stun # None => p.stun \in StunHeader
    BY PacketFacts, Zenon
  <2>2. ip \in IpHeader
    BY <1>4, <1>7, <2>1, MixesTypes, Zenon
  <2>3. udp \in UdpHeader
    BY <1>4, <1>7, <2>1, MixesTypes, Zenon
  <2>4. stun \in StunHeader
    BY <1>4, <1>7, <2>1, MixesTypes, Zenon
  <2> QED
    BY <1>3, <2>2, <2>3, <2>4, Zenon
<1>9. length' \in 0..BufLen /\ packet' # None /\ data' \in Nat
  BY <1>1, PacketFacts
<1>10. rounds' \in 0..RoundMax
  BY <1>1, <1>6, BufferAssumption DEF TypeOK
<1>11. TypeOK'
  <2>1. pos' \in Nat /\ armed' \subseteq Types(Chain) /\ dest' \in [Types(Chain) -> Nat] /\ Len(unknown') <= 1
    BY <1>1, <1>6, Zenon DEF TypeOK
  <2> QED
    BY <1>1, <1>8, <1>9, <1>10, <2>1, Zenon DEF TypeOK
<1>12. Fresh'
  BY <1>1, <1>6, Zenon DEF Fresh
<1>13. Holds(packet)'
  BY <1>1, <1>5, Zenon DEF Holds
<1> QED
  BY <1>1, <1>11, <1>12, <1>13, Zenon DEF Inv, ChecksumRight

\* With the lengths the headers have, the packet has all parts.
LEMMA WholeParts ==
  ASSUME NEW p \in Packets, 48 <= p.len, p.stun # None => p.stun.length \in Nat
  PROVE  /\ p.ip # None /\ p.udp # None
         /\ 68 <= p.len => p.stun # None
         /\ p.stun # None /\ 68 + p.stun.length <= p.len => p.body # None
<1>1. p.len \in Nat /\ 40 <= p.len
  BY PacketFacts
<1> QED
  BY <1>1, PacketFacts, Zenon

LEMMA Types16 ==
  ASSUME NEW p \in Packets
  PROVE  /\ p.ip # None => p.ip.payload \in Nat /\ p.ip.payload < 65536
         /\ p.udp # None => p.udp.length \in Nat
         /\ p.stun # None => p.stun.length \in Nat /\ p.stun.typ \in Nat
<1>1. p.ip # None => p.ip.payload \in U16
  BY PacketFacts DEF IpHeader
<1>2. p.udp # None => p.udp.length \in U16
  BY PacketFacts DEF UdpHeader
<1>3. p.stun # None => p.stun.length \in U16 /\ p.stun.typ \in U16
  BY PacketFacts DEF StunHeader
<1> QED
  BY <1>1, <1>2, <1>3, FromU16, SMTT(60)

\* A type of 1 has no bits that are not of STUN.
LEMMA OneIsStun == ~NotStun(1)
  BY DEF NotStun

\* decode never finds more data than the buffer has, and what gets as far as the
\* chain of parsers is a Binding request.
LEMMA Inspected ==
  ASSUME Inv, pc = "inspect"
  PROVE  /\ WholeUdp => data_len <= BufLen - 48
         /\ (WholeUdp /\ WholeRequest) <=> Responder!BindingRequest(packet)
<1>1. packet \in Packets /\ Holds(packet)
  BY DEF Inv
<1>2. /\ buffer.ip.payload \in Nat /\ buffer.udp.length \in Nat
      /\ buffer.stun.length \in Nat /\ buffer.stun.typ \in Nat
  <2>1. buffer.ip \in IpHeader /\ buffer.udp \in UdpHeader /\ buffer.stun \in StunHeader
    BY Zenon DEF Inv, TypeOK
  <2>2. /\ buffer.ip.payload \in U16 /\ buffer.udp.length \in U16
        /\ buffer.stun.length \in U16 /\ buffer.stun.typ \in U16
    BY <2>1 DEF IpHeader, UdpHeader, StunHeader
  <2> QED
    BY <2>2, FromU16, SMTT(60)
<1>3. packet.len \in Nat /\ packet.len <= BufLen /\ length = packet.len /\ BufLen \in Nat
  <2>1. packet.len \in 0..BufLen /\ length = packet.len
    BY <1>1, PacketFacts DEF Holds
  <2> QED
    BY <2>1, BufferAssumption
<1>4. WholeUdp => /\ data_len \in Nat /\ data_len = length - 48 /\ length >= 48
  BY <1>2, <1>3 DEF WholeUdp, data_len
<1>5. (WholeUdp /\ WholeRequest) => Responder!BindingRequest(packet)
  <2> SUFFICES ASSUME WholeUdp, WholeRequest PROVE Responder!BindingRequest(packet)
    OBVIOUS
  <2>1. 68 + buffer.stun.length <= packet.len /\ 68 <= packet.len /\ 48 <= packet.len
    BY <1>2, <1>3, <1>4 DEF WholeRequest
  <2>2. packet.stun # None => packet.stun.length \in Nat
    BY <1>1, Types16
  <2>3. packet.ip # None /\ packet.udp # None /\ packet.stun # None
    BY <1>1, <2>1, <2>2, WholeParts, Zenon
  <2>4. buffer.ip = packet.ip /\ buffer.udp = packet.udp /\ buffer.stun = packet.stun
    BY <1>1, <2>3 DEF Holds
  <2>5. packet.body # None
    BY <1>1, <2>1, <2>2, <2>3, <2>4, WholeParts, Zenon
  <2>6. packet.stun.typ = 1
    BY <1>2, <2>4, BindingType DEF WholeRequest
  <2>7. /\ packet.ip.version = 6 /\ packet.ip.next_header = 17 /\ 40 + packet.ip.payload = packet.len
        /\ packet.udp.length = packet.ip.payload
    BY <1>3, <2>4 DEF WholeUdp
  <2>8. packet.stun.magic /\ packet.stun.length % 4 = 0
    BY <2>4 DEF WholeRequest
  <2> QED
    BY <2>1, <2>3, <2>4, <2>5, <2>6, <2>7, <2>8, Zenon DEF Responder!BindingRequest
<1>6. Responder!BindingRequest(packet) => WholeUdp /\ WholeRequest
  <2> SUFFICES ASSUME Responder!BindingRequest(packet) PROVE WholeUdp /\ WholeRequest
    OBVIOUS
  <2>1. buffer.ip = packet.ip /\ buffer.udp = packet.udp /\ buffer.stun = packet.stun
    BY <1>1 DEF Holds, Responder!BindingRequest
  <2>2. /\ buffer.ip.version = 6 /\ buffer.ip.next_header = 17 /\ 40 + buffer.ip.payload = length
        /\ buffer.udp.length = buffer.ip.payload
        /\ buffer.stun.typ = 1 /\ buffer.stun.magic
        /\ buffer.stun.length % 4 = 0 /\ 68 + buffer.stun.length <= length
    BY <1>3, <2>1 DEF Responder!BindingRequest
  <2>3. WholeUdp
    BY <1>2, <2>2 DEF WholeUdp
  <2>4. data_len >= 20 + buffer.stun.length
    BY <1>2, <2>2 DEF data_len
  <2>5. /\ buffer.stun.typ \div 256 \in 0..2 /\ class(buffer.stun.typ) = Request
        /\ raw_method(buffer.stun.typ) = Method.Binding
    BY <1>2, <2>2, BindingType
  <2>6. ~NotStun(buffer.stun.typ)
    BY <2>2, OneIsStun
  <2> QED
    BY <2>2, <2>3, <2>4, <2>5, <2>6 DEF WholeRequest
<1> QED
  BY <1>3, <1>4, <1>5, <1>6

\* The attributes of a Binding request.
LEMMA BodyFacts ==
  ASSUME NEW p \in Packets, Responder!BindingRequest(p)
  PROVE  p.body \in Seq(Attribute) /\ Len(p.body) \in Nat /\ DOMAIN p.body = 1..Len(p.body)
<1>1. p.body # None
  BY Zenon DEF Responder!BindingRequest
<1>2. p.body \in Seq(Attribute)
  BY <1>1, PacketFacts, Zenon
<1> QED
  BY <1>2

LEMMA InspectInv ==
  ASSUME Inv, Inspect
  PROVE  Inv'
<1>1. /\ pc = "inspect" /\ packet' = packet /\ buffer' = buffer /\ length' = length
      /\ pos' = pos /\ armed' = armed /\ dest' = dest /\ unknown' = unknown
      /\ verdict' = verdict /\ data' = data /\ sent' = sent /\ rounds' = rounds
  BY Zenon DEF Inspect, chainVars
<1>2. /\ TypeOK /\ packet \in Packets /\ Fresh /\ verdict = "pass" /\ Holds(packet)
  BY <1>1, Zenon DEF Inv
<1>3. ~(WholeUdp /\ data_len > BufLen - 48)
  <2>1. WholeUdp => data_len \in Int /\ BufLen - 48 \in Int
    <3>1. buffer.udp.length \in Nat
      <4>1. buffer.udp \in UdpHeader
        BY <1>2, Zenon DEF TypeOK
      <4> QED
        BY <4>1, FromU16, SMTT(60) DEF UdpHeader
    <3> QED
      BY <3>1, BufferAssumption DEF data_len
  <2>2. WholeUdp => data_len <= BufLen - 48
    BY <1>1, Inspected
  <2> QED
    BY <2>1, <2>2
<1>4. /\ pc' = IF WholeUdp /\ WholeRequest THEN "parse" ELSE "send"
  BY <1>1, <1>3, Zenon DEF Inspect
<1>5. pc' = "parse" <=> Responder!BindingRequest(packet)
  BY <1>1, <1>4, Inspected
<1>6. TypeOK'
  <2>1. pc' \in {"parse", "send"}
    BY <1>4
  <2> QED
    BY <1>1, <1>2, <2>1 DEF TypeOK
<1>7. Holds(packet)'
  BY <1>1, <1>2 DEF Holds
<1>8. pc' = "parse" => Reading(packet)'
  <2> SUFFICES ASSUME pc' = "parse" PROVE Reading(packet)'
    OBVIOUS
  <2>1. Responder!BindingRequest(packet)
    BY <1>5
  <2>2. Traced(Types(Chain), Blocking, packet.body, 1, Types(Chain), [t \in Types(Chain) |-> 0])
    BY FreshTrace
  <2>3. Listed(Types(Chain), 1, packet.body, 0, <<>>)
    BY FreshListed
  <2>4. 1 <= Len(packet.body) + 1
    BY <1>2, <2>1, BodyFacts
  <2>5. pos = 1 /\ armed = Types(Chain) /\ dest = [t \in Types(Chain) |-> 0] /\ unknown = <<>> /\ pos - 1 = 0
    BY <1>2 DEF Fresh
  <2>6. Reading(packet)
    BY <2>1, <2>2, <2>3, <2>4, <2>5 DEF Reading
  <2> QED
    BY <1>1, <2>6 DEF Reading
<1>9. pc' = "send" => ~Responder!Check(packet)
  BY <1>5 DEF Responder!Check
<1>10. (pc' = "send" => ~Responder!Check(packet)')
  BY <1>1, <1>9
<1> QED
  BY <1>1, <1>2, <1>4, <1>6, <1>7, <1>8, <1>10, Zenon DEF Inv, ChecksumRight

LEMMA PullInv ==
  ASSUME Inv, Pull
  PROVE  Inv'
<1> DEFINE b == packet.body
<1>1. /\ pc = "parse" /\ pc' = pc /\ packet' = packet /\ buffer' = buffer /\ length' = length
      /\ verdict' = verdict /\ data' = data /\ sent' = sent /\ rounds' = rounds
  BY Zenon DEF Pull
<1>2. TypeOK /\ packet \in Packets /\ verdict = "pass" /\ Holds(packet) /\ Reading(packet)
  BY <1>1, Zenon DEF Inv
<1>3. Responder!BindingRequest(packet) /\ b \in Seq(Attribute) /\ Len(b) \in Nat /\ DOMAIN b = 1..Len(b)
  BY <1>2, BodyFacts, Zenon DEF Reading
<1>4. buffer.body = b
  BY <1>2, <1>3, Zenon DEF Holds, Responder!BindingRequest
<1>5. /\ pos <= Len(b) /\ pos' = pos + 1
      /\ dest' = Kept(dest, armed, b[pos], pos)
      /\ armed' = armed \ Disarmed(Chain, armed, b[pos].typ)
      /\ unknown' = IF b[pos].typ \in Types(Chain) THEN unknown ELSE Collected(unknown, 1, b[pos].typ)
  BY <1>4, Zenon DEF Pull
<1>6. Traced(Types(Chain), Blocking, b, pos, armed, dest) /\ Listed(Types(Chain), 1, b, pos - 1, unknown)
  BY <1>2, Zenon DEF Reading
<1>7. pos \in Nat \ {0}
  BY <1>6, Zenon DEF Traced
<1> HIDE DEF b
<1>8. Traced(Types(Chain), Blocking, b, pos', armed', dest')
  <2>1. \A t \in Types(Chain) : \A u : (Reaches(Chain, u, t) /\ must_precede(t, u)) <=> u \in Blocking[t]
    BY BlockersAre, Zenon DEF Blocking
  <2>2. Traced(Types(Chain), Blocking, b, pos + 1, armed \ Disarmed(Chain, armed, b[pos].typ),
               Kept(dest, armed, b[pos], pos))
    BY <1>6, <2>1, PulledTrace, Zenon
  <2> QED
    BY <1>5, <2>2, Zenon
<1>9. Listed(Types(Chain), 1, b, pos' - 1, unknown')
  <2>1. PICK n \in Nat : n = pos - 1 /\ n + 1 = pos /\ pos' - 1 = n + 1
    BY <1>5, <1>7
  <2>2. Listed(Types(Chain), 1, b, n, unknown)
    BY <1>6, <2>1, Zenon
  <2>3. n + 1 \in DOMAIN b
    BY <1>3, <1>5, <1>7, <2>1 DEF b
  <2>4. 1 \in Nat
    BY Zenon
  <2>5. Listed(Types(Chain), 1, b, n + 1,
               IF b[n + 1].typ \in Types(Chain) THEN unknown ELSE Collected(unknown, 1, b[n + 1].typ))
    BY <2>2, <2>3, <2>4, CollectedListed, Zenon
  <2> QED
    BY <1>5, <2>1, <2>5, Zenon
<1>10. TypeOK'
  <2>1. pos' \in Nat /\ armed' \subseteq Types(Chain) /\ dest' \in [Types(Chain) -> Nat]
    BY <1>8, Zenon DEF Traced
  <2>2. Len(unknown') <= 1
    <3>1. pos' - 1 \in Nat
      BY <1>5, <1>7
    <3>2. Cardinality(Firsts(Types(Chain), b, pos' - 1)) \in Nat
      BY <3>1, FirstsFinite, Zenon
    <3>3. Len(unknown') = IF Cardinality(Firsts(Types(Chain), b, pos' - 1)) < 1
                          THEN Cardinality(Firsts(Types(Chain), b, pos' - 1)) ELSE 1
      BY <1>9, Zenon DEF Listed
    <3> QED
      BY <3>2, <3>3
  <2> QED
    BY <1>1, <1>2, <2>1, <2>2, Zenon DEF TypeOK
<1>11. Holds(packet)'
  BY <1>1, <1>2, Zenon DEF Holds
<1>12. Reading(packet)'
  <2>1. pos' <= Len(b) + 1
    BY <1>3, <1>5, <1>7
  <2> QED
    BY <1>1, <1>3, <1>8, <1>9, <2>1, Zenon DEF Reading, b
<1> QED
  BY <1>1, <1>2, <1>10, <1>11, <1>12, Zenon DEF Inv, ChecksumRight

\* When the attributes are through, the chain has found what the check is about.
LEMMA Through ==
  ASSUME Inv, pc = "parse", pos > Len(buffer.body)
  PROVE  /\ Intercepts <=> Responder!Check(packet)
         /\ Verdict = IF ~Responder!HasValue(packet, "MESSAGE_INTEGRITY", "match") THEN "441"
                      ELSE IF Responder!Has(packet, "ICE_CONTROLLED") THEN "487" ELSE "mapped"
<1> DEFINE b == packet.body
<1>1. packet \in Packets /\ Holds(packet) /\ Reading(packet)
  BY Zenon DEF Inv
<1>2. Responder!BindingRequest(packet) /\ Len(b) \in Nat
  BY <1>1, BodyFacts, Zenon DEF Reading
<1>3. buffer.body = b
  BY <1>1, <1>2, Zenon DEF Holds, Responder!BindingRequest
<1>4. pos = Len(b) + 1
  <2>1. pos \in Nat /\ pos <= Len(b) + 1
    BY <1>1, Zenon DEF Reading, Traced
  <2> QED
    BY <1>2, <1>3, <2>1
<1>5. Traced(Types(Chain), Blocking, b, Len(b) + 1, armed, dest)
  BY <1>1, <1>4, Zenon DEF Reading
<1>6. Listed(Types(Chain), 1, b, Len(b), unknown)
  <2>1. pos - 1 = Len(b)
    BY <1>2, <1>4
  <2> QED
    BY <1>1, <2>1, Zenon DEF Reading
<1>7. \A t \in Types(Chain) :
        /\ Given(t) <=> Responder!Has(packet, t)
        /\ \A v : Is(t, v) <=> Responder!HasValue(packet, t, v)
  <2> SUFFICES ASSUME NEW t \in Types(Chain)
               PROVE  /\ Given(t) <=> Responder!Has(packet, t)
                      /\ \A v : Is(t, v) <=> Responder!HasValue(packet, t, v)
    BY Zenon
  <2>1. Matches(packet, dest, t)
    <3>1. /\ Len(packet.body) \in Nat
          /\ Traced(Types(Chain), Blocking, packet.body, Len(packet.body) + 1, armed, dest)
      BY <1>2, <1>5, Zenon
    <3> QED
      BY <3>1, FoundIsHas, Zenon
  <2> QED
    BY <1>3, <2>1, Zenon DEF Matches, Given, Is
<1>8. unknown = <<>> <=> \A i \in 1..Len(b) :
        Responder!comprehension_required(b[i].typ) => b[i].typ \in Responder!Understood
  BY <1>2, <1>6, ListedIsUnderstood, Zenon
<1>9. /\ "USERNAME" \in Types(Chain) /\ "MESSAGE_INTEGRITY" \in Types(Chain) /\ "ICE_CONTROLLED" \in Types(Chain)
      /\ "ICE_CONTROLLING" \in Types(Chain) /\ "PRIORITY" \in Types(Chain) /\ "FINGERPRINT" \in Types(Chain)
  BY ParsersAre, Zenon
<1>10. /\ Given("MESSAGE_INTEGRITY") <=> Responder!Has(packet, "MESSAGE_INTEGRITY")
       /\ Given("ICE_CONTROLLED") <=> Responder!Has(packet, "ICE_CONTROLLED")
       /\ Given("ICE_CONTROLLING") <=> Responder!Has(packet, "ICE_CONTROLLING")
       /\ Given("PRIORITY") <=> Responder!Has(packet, "PRIORITY")
       /\ Given("FINGERPRINT") <=> Responder!Has(packet, "FINGERPRINT")
       /\ Is("USERNAME", "dissolve") <=> Responder!HasValue(packet, "USERNAME", "dissolve")
       /\ Is("MESSAGE_INTEGRITY", "match") <=> Responder!HasValue(packet, "MESSAGE_INTEGRITY", "match")
       /\ Is("USERNAME", "dissolve") => Given("USERNAME")
  BY <1>7, <1>9, Zenon DEF Is
<1>11. Given("ICE_CONTROLLED") # Given("ICE_CONTROLLING") <=>
       Responder!Has(packet, "ICE_CONTROLLED") # Responder!Has(packet, "ICE_CONTROLLING")
  <2>1. /\ Given("ICE_CONTROLLED") \in BOOLEAN /\ Given("ICE_CONTROLLING") \in BOOLEAN
        /\ Responder!Has(packet, "ICE_CONTROLLED") \in BOOLEAN /\ Responder!Has(packet, "ICE_CONTROLLING") \in BOOLEAN
    BY Zenon DEF Given, Responder!Has
  <2> QED
    BY <1>10, <2>1, Zenon
<1> HIDE DEF b
<1>12. Intercepts <=> Responder!Check(packet)
  BY <1>2, <1>8, <1>10, <1>11, Zenon DEF Intercepts, Responder!Check, b
<1> QED
  BY <1>10, <1>12, Zenon DEF Verdict

LEMMA PassOnInv ==
  ASSUME Inv, PassOn
  PROVE  Inv'
<1>1. /\ pc = "parse" /\ pc' = "send" /\ packet' = packet /\ buffer' = buffer /\ length' = length
      /\ pos' = pos /\ armed' = armed /\ dest' = dest /\ unknown' = unknown
      /\ verdict' = verdict /\ data' = data /\ sent' = sent /\ rounds' = rounds
  BY Zenon DEF PassOn, chainVars
<1>2. TypeOK /\ packet \in Packets /\ verdict = "pass" /\ Holds(packet)
  BY <1>1, Zenon DEF Inv
<1>3. ~Responder!Check(packet)
  BY <1>1, Through, Zenon DEF PassOn
<1>4. TypeOK'
  BY <1>1, <1>2, Zenon DEF TypeOK
<1>5. Holds(packet)'
  BY <1>1, <1>2, Zenon DEF Holds
<1>6. ~Responder!Check(packet)'
  BY <1>1, <1>3, Zenon
<1> QED
  BY <1>1, <1>2, <1>4, <1>5, <1>6, Zenon DEF Inv, ChecksumRight

\* The lengths of the responses.
LEMMA ContentLens ==
  ASSUME NEW v \in {"441", "487", "mapped"}
  PROVE  ContentLen(v) \in Nat /\ ContentLen(v) <= 56
  BY DEF ContentLen

\* The response has the types of headers, and all but its source, destination
\* and lengths from the request.
LEMMA TurnedTypes ==
  ASSUME NEW v \in {"441", "487", "mapped"}, buffer.ip \in IpHeader, buffer.udp \in UdpHeader,
         buffer.stun \in StunHeader, buffer.stun.typ = 1
  PROVE  /\ Turned(v).ip \in IpHeader /\ Turned(v).udp \in UdpHeader /\ Turned(v).stun \in StunHeader
         /\ Turned(v).ip.src = buffer.ip.dst /\ Turned(v).ip.dst = buffer.ip.src
         /\ Turned(v).udp.sport = buffer.udp.dport /\ Turned(v).udp.dport = buffer.udp.sport
         /\ Turned(v).stun.txid = buffer.stun.txid /\ Turned(v).stun.length = ContentLen(v)
         /\ Turned(v).body = Content(v)
<1> DEFINE n == 28 + ContentLen(v)
           t == set_class(buffer.stun.typ, IF v = "mapped" THEN Success ELSE Error)
           l == ContentLen(v)
<1>1. n \in Nat /\ n < 65536 /\ l \in Nat /\ l < 65536
  BY ContentLens, SMTT(60)
<1>2. n \in U16 /\ l \in U16
  BY <1>1, ToU16, SMTT(60)
<1>3. 0 \in U16
  BY ToU16, SMTT(60)
<1>4. t \in U16
  <2>1. set_class(1, Success) = 257 /\ set_class(1, Error) = 273
    BY DEF set_class, Field, Success, Error
  <2>2. t = 257 \/ t = 273
    BY <2>1
  <2> QED
    BY <2>2, ToU16, SMTT(60)
<1>5. /\ Turned(v).ip = [buffer.ip EXCEPT !.src = buffer.ip.dst, !.dst = buffer.ip.src, !.payload = n]
      /\ Turned(v).udp = [buffer.udp EXCEPT !.sport = buffer.udp.dport, !.dport = buffer.udp.sport,
                                            !.length = n, !.checksum = 0]
      /\ Turned(v).stun = [buffer.stun EXCEPT !.typ = t, !.length = l]
      /\ Turned(v).body = Content(v)
  BY DEF Turned
<1> HIDE DEF n, t, l
<1>6. Turned(v).ip \in IpHeader /\ Turned(v).ip.src = buffer.ip.dst /\ Turned(v).ip.dst = buffer.ip.src
  BY <1>2, <1>5, ZenonT(60) DEF IpHeader
<1>7. Turned(v).udp \in UdpHeader /\ Turned(v).udp.sport = buffer.udp.dport /\ Turned(v).udp.dport = buffer.udp.sport
  BY <1>2, <1>3, <1>5, ZenonT(60) DEF UdpHeader
<1>8. Turned(v).stun \in StunHeader /\ Turned(v).stun.txid = buffer.stun.txid /\ Turned(v).stun.length = l
  BY <1>2, <1>4, <1>5, ZenonT(60) DEF StunHeader
<1> QED
  BY <1>5, <1>6, <1>7, <1>8 DEF l

\* f is b with the right checksum.
Fills(f, b, n) ==
  /\ f.ip = b.ip /\ f.udp \in UdpHeader /\ f.stun = b.stun /\ f.body = b.body
  /\ f.udp.sport = b.udp.sport /\ f.udp.dport = b.udp.dport
  /\ Verifies(Summed(f, n), f.udp.checksum)

\* The checksum goes into the UDP header, and is no part of what it is made from.
LEMMA Filled ==
  ASSUME NEW b, b.ip \in IpHeader, b.udp \in UdpHeader, NEW n \in DataSums, NEW f,
         b = [ip |-> b.ip, udp |-> b.udp, stun |-> b.stun, body |-> b.body],
         f = [b EXCEPT !.udp.checksum = udp_checksum(Summed(b, n))]
  PROVE  Fills(f, b, n)
<1> DEFINE c == udp_checksum(Summed(b, n))
<1>1. n \in Nat /\ n <= 16384 * 65536
  BY BufferAssumption, SMTT(60)
<1>2. Summed(b, n) \in Nat /\ Summed(b, n) > 0 /\ Summed(b, n) + 65535 < 65536 * 65536
  BY <1>1, SummedBound, SMTT(60)
<1>3. c \in Nat /\ c < 65536 /\ Verifies(Summed(b, n), c)
  BY <1>2, ChecksumVerifies, SMTT(60)
<1>4. c \in U16
  BY <1>3, ToU16, SMTT(60)
<1>5. f = [b EXCEPT !.udp.checksum = c]
  OBVIOUS
<1> HIDE DEF c
<1>6. /\ f.ip = b.ip /\ f.udp = [b.udp EXCEPT !.checksum = c] /\ f.stun = b.stun /\ f.body = b.body
  BY <1>5
<1>7. /\ f.udp \in UdpHeader /\ f.udp.sport = b.udp.sport /\ f.udp.dport = b.udp.dport
      /\ f.udp.length = b.udp.length /\ f.udp.checksum = c
  BY <1>4, <1>6 DEF UdpHeader
<1>8. Summed(f, n) = Summed(b, n)
  BY <1>6, <1>7, Zenon DEF Summed
<1>9. Verifies(Summed(f, n), f.udp.checksum)
  <2>1. Verifies(Summed(b, n), c)
    BY <1>3
  <2> QED
    BY <1>7, <1>8, <2>1, Zenon
<1> QED
  BY <1>6, <1>7, <1>9, Zenon DEF Fills

\* What a response of each kind says.
Says(v) ==
  IF v = "441" THEN [error |-> 441] ELSE IF v = "487" THEN [error |-> 487]
  ELSE [mapped |-> [ip |-> buffer.ip.src, port |-> buffer.udp.sport]]

\* What the sender of the check reads in the response.
LEMMA ReadBack ==
  ASSUME NEW v \in {"441", "487", "mapped"}, NEW f, f.body = Content(v), f.stun.txid = buffer.stun.txid,
         buffer.ip \in IpHeader, buffer.udp \in UdpHeader, buffer.stun \in StunHeader
  PROVE  Read(f) = Says(v)
<1> DEFINE a == [ip |-> buffer.ip.src, port |-> buffer.udp.sport]
           x == SocketAddr_encode(buffer.stun.txid, a)
           e(k) == ERROR_CODE_encode(k)
<1>1. CASE v = "441"
  <2>1. f.body[1] = [typ |-> "ERROR_CODE", good |-> TRUE, val |-> "bytes", value |-> e(441)]
    BY <1>1 DEF Content
  <2> HIDE DEF e
  <2>2. f.body[1].typ = "ERROR_CODE" /\ f.body[1].value = e(441)
    BY <2>1
  <2> QED
    BY <1>1, <2>2, CodesReadBack, SMTT(60) DEF Read, Says, e
<1>2. CASE v = "487"
  <2>1. f.body[1] = [typ |-> "ERROR_CODE", good |-> TRUE, val |-> "bytes", value |-> e(487)]
    BY <1>2 DEF Content
  <2> HIDE DEF e
  <2>2. f.body[1].typ = "ERROR_CODE" /\ f.body[1].value = e(487)
    BY <2>1
  <2> QED
    BY <1>2, <2>2, CodesReadBack, SMTT(60) DEF Read, Says, e
<1>3. CASE v = "mapped"
  <2>1. f.body[1] = [typ |-> "XOR_MAPPED_ADDRESS", good |-> TRUE, val |-> "bytes", value |-> x]
    BY <1>3 DEF Content
  <2> HIDE DEF x
  <2>2. f.body[1].typ # "ERROR_CODE" /\ f.body[1].value = x
    BY <2>1
  <2>3. buffer.stun.txid \in Octets(12) /\ buffer.ip.src \in Octets(16) /\ buffer.udp.sport \in Octets(2)
    BY Zenon DEF IpHeader, UdpHeader, StunHeader
  <2>4. SocketAddr_decode(buffer.stun.txid, x) = a
    <3>1. a \in SocketAddr
      BY <2>3, Zenon DEF SocketAddr
    <3> QED
      BY <2>3, <3>1, AddressRoundTrip, Zenon DEF x
  <2>5. Read(f) = [mapped |-> SocketAddr_decode(f.stun.txid, f.body[1].value)]
    BY <2>2, Zenon DEF Read
  <2> QED
    BY <1>3, <2>2, <2>4, <2>5, SMTT(60) DEF Says
<1> QED
  BY <1>1, <1>2, <1>3, Zenon

LEMMA InterceptInv ==
  ASSUME Inv, NEW n \in DataSums, Intercept(n)
  PROVE  Inv'
<1> DEFINE v == Verdict
<1>1. /\ pc = "parse" /\ packet' = packet /\ verdict' = v /\ data' = n /\ length' = 68 + ContentLen(v)
      /\ pos' = pos /\ armed' = armed /\ dest' = dest /\ unknown' = unknown
      /\ sent' = sent /\ rounds' = rounds
  BY Zenon DEF Intercept, chainVars
<1>2. TypeOK /\ packet \in Packets /\ Holds(packet) /\ Responder!BindingRequest(packet)
  BY <1>1, Zenon DEF Inv, Reading
<1>3. buffer.ip = packet.ip /\ buffer.udp = packet.udp /\ buffer.stun = packet.stun /\ buffer.stun.typ = 1
  BY <1>2, Zenon DEF Holds, Responder!BindingRequest
<1>4. buffer.ip \in IpHeader /\ buffer.udp \in UdpHeader /\ buffer.stun \in StunHeader
  BY <1>2, Zenon DEF TypeOK
<1>5. Responder!Check(packet)
  BY <1>1, Through, Zenon DEF Intercept
<1>6. v = IF ~Responder!HasValue(packet, "MESSAGE_INTEGRITY", "match") THEN "441"
          ELSE IF Responder!Has(packet, "ICE_CONTROLLED") THEN "487" ELSE "mapped"
  BY <1>1, Through, Zenon DEF Intercept
<1>7. v \in {"441", "487", "mapped"} /\ v # "pass"
  BY <1>6, Zenon
<1>8. buffer' = [Turned(v) EXCEPT !.udp.checksum = udp_checksum(Summed(Turned(v), n))]
  BY Zenon DEF Intercept
<1>9. pc' = IF 48 + 20 + ContentLen(v) <= BufLen THEN "send" ELSE "panicked"
  BY Zenon DEF Intercept
<1> HIDE DEF v
<1>10. pc' = "send" /\ length' \in 0..BufLen
  <2>1. ContentLen(v) \in Nat /\ ContentLen(v) <= 56
    BY <1>7, ContentLens
  <2>2. BufLen \in Nat /\ BufLen >= 200
    BY BufferAssumption
  <2> QED
    BY <1>1, <1>9, <2>1, <2>2
<1>11. /\ Turned(v).ip \in IpHeader /\ Turned(v).udp \in UdpHeader /\ Turned(v).stun \in StunHeader
       /\ Turned(v).ip.src = buffer.ip.dst /\ Turned(v).ip.dst = buffer.ip.src
       /\ Turned(v).udp.sport = buffer.udp.dport /\ Turned(v).udp.dport = buffer.udp.sport
       /\ Turned(v).stun.txid = buffer.stun.txid /\ Turned(v).stun.length = ContentLen(v)
       /\ Turned(v).body = Content(v)
  BY <1>3, <1>4, <1>7, TurnedTypes, Zenon
<1>12. Turned(v) = [ip |-> Turned(v).ip, udp |-> Turned(v).udp, stun |-> Turned(v).stun, body |-> Turned(v).body]
  BY Zenon DEF Turned
<1>13. /\ buffer'.ip = Turned(v).ip /\ buffer'.udp \in UdpHeader
       /\ buffer'.stun = Turned(v).stun /\ buffer'.body = Turned(v).body
       /\ buffer'.udp.sport = Turned(v).udp.sport /\ buffer'.udp.dport = Turned(v).udp.dport
       /\ Verifies(Summed(buffer', n), buffer'.udp.checksum)
  <2>1. PICK t : t = Turned(v)
    BY Zenon
  <2>2. /\ t.ip \in IpHeader /\ t.udp \in UdpHeader
        /\ t = [ip |-> t.ip, udp |-> t.udp, stun |-> t.stun, body |-> t.body]
        /\ buffer' = [t EXCEPT !.udp.checksum = udp_checksum(Summed(t, n))]
    BY <1>8, <1>11, <1>12, <2>1, Zenon
  <2>3. Fills(buffer', t, n)
    BY <2>2, Filled, Zenon
  <2> QED
    BY <2>1, <2>3, Zenon DEF Fills
<1>14. Read(buffer') = Says(v)
  <2>1. buffer'.body = Content(v) /\ buffer'.stun.txid = buffer.stun.txid
    BY <1>11, <1>13, Zenon
  <2> QED
    BY <1>4, <1>7, <2>1, ReadBack, Zenon
<1>15. Told(buffer') = Responder!Answer(packet)
  <2>1. Told(buffer').src = [ip |-> packet.ip.dst, port |-> packet.udp.dport]
    BY <1>3, <1>11, <1>13, Zenon DEF Told
  <2>2. Told(buffer').dst = [ip |-> packet.ip.src, port |-> packet.udp.sport]
    BY <1>3, <1>11, <1>13, Zenon DEF Told
  <2>3. Told(buffer').txid = packet.stun.txid
    BY <1>3, <1>11, <1>13, Zenon DEF Told
  <2>4. Told(buffer').says = IF ~Responder!HasValue(packet, "MESSAGE_INTEGRITY", "match") THEN [error |-> 441]
                             ELSE IF Responder!Has(packet, "ICE_CONTROLLED") THEN [error |-> 487]
                             ELSE [mapped |-> [ip |-> packet.ip.src, port |-> packet.udp.sport]]
    <3> DEFINE wrong == [error |-> 441]
               switch == [error |-> 487]
               right == [mapped |-> [ip |-> packet.ip.src, port |-> packet.udp.sport]]
               signed == Responder!HasValue(packet, "MESSAGE_INTEGRITY", "match")
               controlled == Responder!Has(packet, "ICE_CONTROLLED")
    <3>1. Told(buffer').says = Says(v)
      BY <1>14, Zenon DEF Told
    <3>2. Says(v) = IF v = "441" THEN wrong ELSE IF v = "487" THEN switch ELSE right
      BY <1>3 DEF Says
    <3>3. v = IF ~signed THEN "441" ELSE IF controlled THEN "487" ELSE "mapped"
      BY <1>6, Zenon
    <3> HIDE DEF wrong, switch, right, signed, controlled
    <3>4. Told(buffer').says = IF ~signed THEN wrong ELSE IF controlled THEN switch ELSE right
      BY <3>1, <3>2, <3>3, Zenon
    <3> QED
      BY <3>4, Zenon DEF wrong, switch, right, signed, controlled
  <2>5. Told(buffer') = [src |-> Told(buffer').src, dst |-> Told(buffer').dst, txid |-> Told(buffer').txid,
                         says |-> Told(buffer').says]
    BY Zenon DEF Told
  <2> QED
    BY <1>5, <2>1, <2>2, <2>3, <2>4, <2>5, Zenon DEF Responder!Answer
<1>16. Answers(packet)'
  <2>1. Responder!Check(packet)' /\ Told(buffer)' = Responder!Answer(packet)'
    BY <1>1, <1>5, <1>15, Zenon
  <2>2. Verifies(Summed(buffer, data), buffer.udp.checksum)'
    BY <1>1, <1>13, Zenon
  <2>3. (length = 68 + ContentLen(verdict) /\ buffer.stun.length = ContentLen(verdict))'
    BY <1>1, <1>11, <1>13, Zenon
  <2> QED
    BY <2>1, <2>2, <2>3, Zenon DEF Answers
<1>17. TypeOK'
  <2>1. buffer'.ip \in IpHeader /\ buffer'.udp \in UdpHeader /\ buffer'.stun \in StunHeader
    BY <1>11, <1>13, SMTT(60)
  <2>2. data' \in Nat
    BY <1>1, BufferAssumption, SMTT(60)
  <2> QED
    BY <1>1, <1>2, <1>7, <1>10, <2>1, <2>2, Zenon DEF TypeOK
<1> QED
  BY <1>1, <1>2, <1>7, <1>10, <1>16, <1>17, Zenon DEF Inv, ChecksumRight

\* What goes out when the packet is passed on, and when it is answered.
LEMMA SentIs ==
  ASSUME Inv, Send
  PROVE  /\ verdict = "pass" => sent' = packet
         /\ verdict # "pass" => /\ sent'.ip = buffer.ip /\ sent'.udp = buffer.udp
                                /\ sent'.stun = buffer.stun /\ sent'.body = buffer.body
<1> DEFINE whole(end, part) == IF end <= length THEN part ELSE None
<1>1. pc = "send" /\ packet \in Packets /\ TypeOK
  <2>1. pc = "send" /\ pc # "recv"
    BY Zenon DEF Send
  <2> QED
    BY <2>1, Zenon DEF Inv
<1>2. sent' = [len |-> length, ip |-> whole(40, buffer.ip), udp |-> whole(48, buffer.udp),
               stun |-> whole(68, buffer.stun), body |-> whole(68 + buffer.stun.length, buffer.body)]
  BY DEF Send
<1>3. length \in Nat /\ buffer.stun.length \in Nat
  <2>1. length \in 0..BufLen /\ BufLen \in Nat /\ buffer.stun \in StunHeader
    BY <1>1, BufferAssumption DEF TypeOK
  <2>2. buffer.stun.length \in U16
    BY <2>1 DEF StunHeader
  <2> QED
    BY <2>1, <2>2, FromU16, SMTT(60)
<1>4. ASSUME verdict = "pass" PROVE sent' = packet
  <2>1. Holds(packet)
    BY <1>1, <1>4 DEF Inv
  <2>2. whole(40, buffer.ip) = packet.ip
    BY <1>1, <2>1, PacketFacts DEF Holds
  <2>3. whole(48, buffer.udp) = packet.udp
    BY <1>1, <2>1, PacketFacts DEF Holds
  <2>4. whole(68, buffer.stun) = packet.stun
    BY <1>1, <2>1, PacketFacts DEF Holds
  <2>5. whole(68 + buffer.stun.length, buffer.body) = packet.body
    <3>1. CASE packet.stun = None
      <4>1. packet.body = None /\ ~(68 <= length)
        BY <1>1, <2>1, <3>1, PacketFacts DEF Holds
      <4>2. ~(68 + buffer.stun.length <= length)
        BY <1>3, <4>1
      <4> QED
        BY <4>1, <4>2
    <3>2. CASE packet.stun # None
      <4>1. buffer.stun = packet.stun /\ (packet.body # None <=> 68 + packet.stun.length <= packet.len)
        BY <1>1, <2>1, <3>2, PacketFacts, SMTT(60) DEF Holds
      <4> QED
        BY <2>1, <4>1 DEF Holds
    <3> QED
      BY <3>1, <3>2
  <2>6. packet = [len |-> packet.len, ip |-> packet.ip, udp |-> packet.udp, stun |-> packet.stun, body |-> packet.body]
    BY <1>1, PacketFacts, SMTT(60)
  <2>7. length = packet.len
    BY <2>1 DEF Holds
  <2> HIDE DEF whole
  <2> QED
    BY <1>2, <2>2, <2>3, <2>4, <2>5, <2>6, <2>7, Zenon
<1>5. ASSUME verdict # "pass"
      PROVE  /\ sent'.ip = buffer.ip /\ sent'.udp = buffer.udp
             /\ sent'.stun = buffer.stun /\ sent'.body = buffer.body
  <2>1. length = 68 + ContentLen(verdict) /\ buffer.stun.length = ContentLen(verdict)
    BY <1>1, <1>5, SMTT(60) DEF Inv, Answers
  <2>2. 40 <= length /\ 48 <= length /\ 68 <= length /\ 68 + buffer.stun.length <= length
    BY <1>3, <2>1
  <2> QED
    BY <1>2, <2>2, SMTT(60)
<1> QED
  BY <1>4, <1>5, Zenon

LEMMA SendInv ==
  ASSUME Inv, Send
  PROVE  Inv'
<1>1. /\ pc = "send" /\ pc' = "recv" /\ packet' = None /\ buffer' = buffer /\ length' = length
      /\ verdict' = verdict /\ data' = data /\ rounds' = rounds /\ Fresh'
  BY Zenon DEF Send, Fresh
<1>2. TypeOK
  BY Zenon DEF Inv
<1>3. TypeOK'
  <2>1. dest' \in [Types(Chain) -> Nat] /\ pos' \in Nat /\ Len(unknown') <= 1 /\ armed' \subseteq Types(Chain)
    BY <1>1 DEF Fresh
  <2> QED
    BY <1>1, <1>2, <2>1, Zenon DEF TypeOK
<1>4. ChecksumRight'
  <2> SUFFICES ASSUME verdict # "pass" PROVE Verifies(Summed(sent', data'), sent'.udp.checksum)
    BY <1>1, Zenon DEF ChecksumRight
  <2>1. Verifies(Summed(buffer, data), buffer.udp.checksum)
    BY <1>1, Zenon DEF Inv, Answers
  <2>2. sent'.ip = buffer.ip /\ sent'.udp = buffer.udp
    BY SentIs, Zenon
  <2>3. Summed(sent', data') = Summed(buffer, data)
    BY <1>1, <2>2, Zenon DEF Summed
  <2> QED
    BY <2>1, <2>2, <2>3, Zenon
<1> QED
  BY <1>1, <1>3, <1>4, Zenon DEF Inv

LEMMA NextInv == Inv /\ [Next]_vars => Inv'
<1> SUFFICES ASSUME Inv, [Next]_vars PROVE Inv'
  BY Zenon
<1>1. ASSUME NEW p \in Packets, Recv(p) PROVE Inv'
  BY <1>1, RecvInv, Zenon
<1>2. CASE Inspect
  BY <1>2, InspectInv, Zenon
<1>3. CASE Pull
  BY <1>3, PullInv, Zenon
<1>4. CASE PassOn
  BY <1>4, PassOnInv, Zenon
<1>5. ASSUME NEW n \in DataSums, Intercept(n) PROVE Inv'
  BY <1>5, InterceptInv, Zenon
<1>6. CASE Send
  BY <1>6, SendInv, Zenon
<1>7. CASE UNCHANGED vars
  <2>1. /\ pc' = pc /\ packet' = packet /\ buffer' = buffer /\ length' = length
        /\ pos' = pos /\ armed' = armed /\ dest' = dest /\ unknown' = unknown
        /\ verdict' = verdict /\ data' = data /\ sent' = sent /\ rounds' = rounds
    BY <1>7, Zenon DEF vars, chainVars
  <2> QED
    BY <2>1, ZenonT(60) DEF Inv, TypeOK, Fresh, Holds, Reading, Answers, ChecksumRight
<1> QED
  BY <1>1, <1>2, <1>3, <1>4, <1>5, <1>6, <1>7, Zenon DEF Next

\* The invariant holds throughout the loop of main.
THEOREM InvHolds == Spec => []Inv
  BY InitInv, NextInv, PTL DEF Spec

-----------------------------------------------------------------------------
(* Theorems *)

\* The variables of the loop have their types.
THEOREM TypeCorrect == Spec => []TypeOK
<1>1. Inv => TypeOK
  BY Zenon DEF Inv
<1> QED
  BY <1>1, InvHolds, PTL

\* Neither the assertion of Stun::decode nor an unwrap of an append fails.
THEOREM NeverPanicsHolds == Spec => []NeverPanics
<1>1. Inv => NeverPanics
  BY Zenon DEF Inv, NeverPanics
<1> QED
  BY <1>1, InvHolds, PTL

\* The checksum of every response that is sent verifies, and is not zero.
THEOREM ChecksumRightHolds == Spec => []ChecksumRight
<1>1. Inv => ChecksumRight
  BY Zenon DEF Inv
<1> QED
  BY <1>1, InvHolds, PTL

\* What the refinement mapping has for the answer.
Ans == IF pc # "recv" \/ verdict = "pass" THEN sent ELSE Told(sent)

\* A step of the loop is a step of the stateless responder, or changes nothing
\* that the responder shows.
LEMMA StepResponds ==
  ASSUME Inv, [Next]_vars
  PROVE  \/ packet = None /\ packet' # None /\ Ans' = None
         \/ packet # None /\ Ans' = Responder!Answer(packet) /\ packet' = None
         \/ packet' = packet /\ Ans' = Ans
<1>1. ASSUME NEW p \in Packets, Recv(p) PROVE packet = None /\ packet' # None /\ Ans' = None
  <2>1. pc = "recv" /\ pc' = "inspect" /\ packet' = p /\ sent' = None
    BY <1>1, Zenon DEF Recv
  <2>2. packet = None
    BY <2>1, Zenon DEF Inv, TypeOK
  <2> QED
    BY <2>1, <2>2, PacketFacts, Zenon DEF Ans
<1>2. ASSUME Inspect \/ Pull \/ PassOn \/ \E n \in DataSums : Intercept(n)
      PROVE  packet' = packet /\ Ans' = Ans
  <2>1. pc # "recv" /\ pc' # "recv" /\ packet' = packet /\ sent' = sent
    BY <1>2, Zenon DEF Inspect, Pull, PassOn, Intercept
  <2> QED
    BY <2>1, Zenon DEF Ans
<1>3. ASSUME Send PROVE packet # None /\ Ans' = Responder!Answer(packet) /\ packet' = None
  <2>1. pc = "send" /\ pc' = "recv" /\ packet' = None /\ verdict' = verdict
    BY <1>3, Zenon DEF Send
  <2>2. packet # None
    BY <2>1, Zenon DEF Inv, TypeOK
  <2>3. ASSUME verdict = "pass" PROVE Ans' = Responder!Answer(packet)
    <3>1. Ans' = packet
      BY <1>3, <2>1, <2>3, SentIs, Zenon DEF Ans
    <3>2. ~Responder!Check(packet)
      BY <2>1, <2>3, Zenon DEF Inv
    <3> QED
      BY <3>1, <3>2, Zenon DEF Responder!Answer
  <2>4. ASSUME verdict # "pass" PROVE Ans' = Responder!Answer(packet)
    <3>1. Ans' = Told(sent')
      BY <2>1, <2>4, Zenon DEF Ans
    <3>2. sent'.ip = buffer.ip /\ sent'.udp = buffer.udp /\ sent'.stun = buffer.stun /\ sent'.body = buffer.body
      BY <1>3, <2>4, SentIs, Zenon
    <3>3. Told(sent') = Told(buffer)
      BY <3>2, Zenon DEF Told, Read
    <3>4. Told(buffer) = Responder!Answer(packet)
      BY <2>1, <2>4, Zenon DEF Inv, Answers
    <3> QED
      BY <3>1, <3>3, <3>4, Zenon
  <2> QED
    BY <2>1, <2>2, <2>3, <2>4, Zenon
<1>4. ASSUME UNCHANGED vars PROVE packet' = packet /\ Ans' = Ans
  BY <1>4, Zenon DEF vars, Ans, Told, Read
<1> QED
  BY <1>1, <1>2, <1>3, <1>4, Zenon DEF Next

\* The loop implements the stateless responder: whatever earlier packets left in
\* the buffer, what is sent is the responder's answer to the packet at hand.
THEOREM StatelessHolds == Spec => Stateless
<1>1. Init => Responder!Init
  BY Zenon DEF Init, Responder!Init
<1>2. Inv /\ [Next]_vars => [Responder!Next]_(<<packet, Ans>>)
  BY StepResponds, Zenon DEF Responder!Next, Responder!Receive, Responder!Respond, Ans, Told
<1> QED
  BY <1>1, <1>2, InvHolds, PTL DEF Spec, Stateless, Responder!Spec, Ans, Told
=============================================================================
