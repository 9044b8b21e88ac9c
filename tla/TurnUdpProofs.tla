--------------------------- MODULE TurnUdpProofs ---------------------------
(***************************************************************************)
(* The UDP server keeps its types, misses no edge, stays inside of its     *)
(* buffer, implements Relay and accounts for what its clients send to each *)
(* other, for every configuration of subnets.                              *)
(***************************************************************************)
EXTENDS TurnUdp, TLAPS

-----------------------------------------------------------------------------
(* Mappings *)

\* The elements of a sequence over a set are in that set.
LEMMA ElementIn ==
  ASSUME NEW S, NEW q \in Seq(S), NEW i \in 1..Len(q)
  PROVE  q[i] \in S
  OBVIOUS

\* Each mapping's fields are numbers.
LEMMA MappingType ==
  \A i \in 1..Len(Mappings) : Mappings[i].udp \in Nat /\ Mappings[i].tun \in Nat /\ Mappings[i].size \in Nat
<1>1. \A i \in 1..Len(Mappings) : Mappings[i] \in [udp : Nat, tun : Nat, size : Nat]
  BY UdpAssumption, ElementIn, Zenon
<1> QED
  BY <1>1, Zenon

\* Subnets that are apart have no address in common.
LEMMA ApartDisjoint ==
  ASSUME NEW first \in Nat, NEW size \in Nat, NEW other \in Nat, NEW otherSize \in Nat,
         Apart(first, size, other, otherSize), NEW a \in Nat, contains(first, size, a)
  PROVE  ~contains(other, otherSize, a)
  BY DEF Apart, contains

\* An address of the udp subnet of mapping i belongs to that mapping alone.
LEMMA OnlyUdp ==
  ASSUME NEW a \in Nat, NEW i \in 1..Len(Mappings), contains(Mappings[i].udp, Mappings[i].size, a)
  PROVE  FirstUdp(a) = {i}
<1>1. ASSUME NEW j \in 1..Len(Mappings), j # i
      PROVE  ~contains(Mappings[j].udp, Mappings[j].size, a)
  <2>1. Apart(Mappings[i].udp, Mappings[i].size, Mappings[j].udp, Mappings[j].size)
    BY <1>1, UdpAssumption, Zenon
  <2> QED
    BY <2>1, MappingType, ApartDisjoint, Zenon
<1> QED
  BY <1>1 DEF FirstUdp

\* The same, for its tun subnet.
LEMMA OnlyTun ==
  ASSUME NEW a \in Nat, NEW i \in 1..Len(Mappings), contains(Mappings[i].tun, Mappings[i].size, a)
  PROVE  FirstTun(a) = {i}
<1>1. ASSUME NEW j \in 1..Len(Mappings), j # i
      PROVE  ~contains(Mappings[j].tun, Mappings[j].size, a)
  <2>1. Apart(Mappings[i].tun, Mappings[i].size, Mappings[j].tun, Mappings[j].size)
    BY <1>1, UdpAssumption, Zenon
  <2> QED
    BY <2>1, MappingType, ApartDisjoint, Zenon
<1> QED
  BY <1>1 DEF FirstTun

\* The way back from a client's relayed address leads to that client.
LEMMA ToUdpOfToNet ==
  ASSUME NEW c \in Clients
  PROVE  ToNet(c) \in Nat /\ InTun(ToNet(c)) /\ ToUdp(ToNet(c)) = c
<1>1. PICK i \in 1..Len(Mappings) : contains(Mappings[i].udp, Mappings[i].size, c)
  BY UdpAssumption, Zenon
<1>2. c \in Nat
  BY UdpAssumption, Zenon
<1>3. FirstUdp(c) = {i}
  BY <1>1, <1>2, OnlyUdp, Zenon
<1>31. Mappings[i].udp \in Nat /\ Mappings[i].tun \in Nat /\ Mappings[i].size \in Nat
  BY MappingType, Zenon
<1>4. ToNet(c) = Mappings[i].tun + (c - Mappings[i].udp)
  BY <1>3, Zenon DEF ToNet, to_net
<1>5. ToNet(c) \in Nat /\ contains(Mappings[i].tun, Mappings[i].size, ToNet(c))
  BY <1>1, <1>2, <1>31, <1>4, SMTT(60) DEF contains
<1>6. FirstTun(ToNet(c)) = {i}
  BY <1>5, OnlyTun, Zenon
<1>7. ToUdp(ToNet(c)) = Mappings[i].udp + (ToNet(c) - Mappings[i].tun)
  BY <1>6, Zenon DEF ToUdp, to_udp
<1>8. ToUdp(ToNet(c)) = c
  BY <1>2, <1>4, <1>7, MappingType
<1> QED
  BY <1>5, <1>6, <1>8, Zenon DEF InTun

\* What is sent to an address of a tun subnet reaches a client only if that is
\* the client's relayed address.
LEMMA ToNetOfToUdp ==
  ASSUME NEW a \in Nat, InTun(a), ToUdp(a) \in Clients
  PROVE  ToNet(ToUdp(a)) = a
<1>1. PICK i \in 1..Len(Mappings) : contains(Mappings[i].tun, Mappings[i].size, a)
  BY Zenon DEF InTun, FirstTun
<1>2. FirstTun(a) = {i}
  BY <1>1, OnlyTun, Zenon
<1>21. Mappings[i].udp \in Nat /\ Mappings[i].tun \in Nat /\ Mappings[i].size \in Nat
  BY MappingType, Zenon
<1>3. ToUdp(a) = Mappings[i].udp + (a - Mappings[i].tun)
  BY <1>2, Zenon DEF ToUdp, to_udp
<1>4. ToUdp(a) \in Nat /\ contains(Mappings[i].udp, Mappings[i].size, ToUdp(a))
  BY <1>1, <1>21, <1>3, SMTT(60) DEF contains
<1>5. FirstUdp(ToUdp(a)) = {i}
  BY <1>4, OnlyUdp, Zenon
<1>6. ToNet(ToUdp(a)) = Mappings[i].tun + (ToUdp(a) - Mappings[i].udp)
  BY <1>5, Zenon DEF ToNet, to_net
<1> QED
  BY <1>3, <1>6, MappingType

\* Relayed addresses are addresses, and numbers.
LEMMA RelayedFacts ==
  /\ \A c \in Clients : /\ Relayed[c] = ToNet(c) /\ Relayed[c] \in Addresses
                        /\ InTun(Relayed[c]) /\ ToUdp(Relayed[c]) = c
  /\ \A a \in Addresses : a \in Nat
<1>1. \A c \in Clients : Relayed[c] = ToNet(c)
  BY Zenon DEF Relayed
<1>2. \A c \in Clients : Relayed[c] \in Nat /\ InTun(Relayed[c]) /\ ToUdp(Relayed[c]) = c
  BY <1>1, ToUdpOfToNet, Zenon
<1> QED
  BY <1>1, <1>2, UdpAssumption, Zenon DEF Addresses

-----------------------------------------------------------------------------
(* Types *)

\* What a client may receive, given the types of its fields.
LEMMA ReceivedType ==
  ASSUME TypeOK, NEW kind \in {"allocated", "data", "icmp"}, NEW to, NEW peer \in Addresses, NEW n \in Nat
  PROVE  Received(kind, to, peer, n) \subseteq
           [kind : {"allocated", "data", "icmp"}, to : Clients, peer : Addresses, data : Nat]
  BY DEF Received, TypeOK

\* Queues only grow by what is put into them.
LEMMA EnqueuedIn ==
  \A queue, p : Enqueued(queue, p) \subseteq queue \cup {p}
  BY Zenon DEF Enqueued

\* The fields of what waits at the socket and at the interface.
LEMMA QueueTypes ==
  ASSUME TypeOK
  PROVE  /\ \A d \in udpIn : /\ d.kind # "ignored" => d.from \in Clients
                             /\ d.kind = "send" => d.peer \in Addresses /\ d.data \in Lens
         /\ \A p \in tunIn : p.src \in Addresses /\ p.dst \in Addresses /\ p.data \in Lens
         /\ \A p \in tunOut : p.src \in Addresses /\ p.dst \in Addresses /\ p.data \in Lens
  BY Zenon DEF TypeOK, SendIndication, OtherMessage, UdpPacket, IcmpPacket

\* What may happen to a datagram that is lost.
LEMMA LosesType ==
  ASSUME TypeOK, NEW s, Loses(s)
  PROVE  /\ server' = server /\ tunOut' = tunOut /\ got' = got /\ told' = told
         /\ lost' \subseteq Internal
  BY DEF Loses, TypeOK

\* A step of the UDP loop.
LEMMA UdpRecvType ==
  ASSUME TypeOK, NEW d \in udpIn, UdpRecv(d)
  PROVE  TypeOK'
<1>1. /\ d.kind # "ignored" => d.from \in Clients
      /\ d.kind = "send" => d.peer \in Addresses /\ d.data \in Lens
  BY QueueTypes, Zenon
<1>2. /\ udpIn' \subseteq udpIn /\ ready' = ready /\ events' = events /\ tunIn' = tunIn
      /\ copies' = copies /\ sent' = sent
  BY Zenon DEF UdpRecv
<1>3. CASE d.kind = "send"
  <2> DEFINE q == [proto |-> "udp", src |-> ToNet(d.from), dst |-> d.peer, data |-> d.data]
  <2>1. q \in UdpPacket
    BY <1>1, <1>3, RelayedFacts, Zenon DEF UdpPacket
  <2>2. Relays(d)
    BY <1>3, Zenon DEF UdpRecv
  <2>3. /\ server' \in {"running", "panicked"} /\ got' = got /\ told' = told /\ lost' \subseteq Internal
        /\ tunOut' \subseteq tunOut \cup {q}
    BY <2>2, LosesType, Zenon DEF Relays, Writes, TypeOK
  <2> HIDE DEF q
  <2> QED
    BY <1>2, <2>1, <2>3, Zenon DEF TypeOK
<1>4. CASE d.kind # "send"
  <2>1. server' = server /\ tunOut' = tunOut /\ told' = told /\ lost' = lost
    BY <1>4, Zenon DEF UdpRecv, Responds
  <2>2. got' = got \/ (d.kind = "request" /\ got' = Received("allocated", d.from, ToNet(d.from), 0))
    BY <1>4, Zenon DEF UdpRecv, Responds
  <2>3. d.kind = "request" => ToNet(d.from) \in Addresses
    BY <1>1, RelayedFacts DEF TypeOK
  <2>4. got' \subseteq [kind : {"allocated", "data", "icmp"}, to : Clients, peer : Addresses, data : Nat]
    BY <2>2, <2>3, ReceivedType DEF TypeOK
  <2> QED
    BY <1>2, <2>1, <2>4, Zenon DEF TypeOK
<1> QED
  BY <1>3, <1>4, Zenon

\* What the indications that handle_net makes leave alone.
LEMMA IndicationType ==
  ASSUME TypeOK, NEW p \in tunIn, TunRecv(p)
  PROVE  /\ tunIn' \subseteq tunIn /\ ready' = ready /\ events' = events /\ udpIn' = udpIn
         /\ tunOut' = tunOut /\ copies' = copies /\ sent' = sent
         /\ server' \in {"running", "panicked"}
         /\ told' \subseteq Internal /\ lost' \subseteq Internal
<1>1. tunIn' \subseteq tunIn /\ ready' = ready /\ events' = events /\ udpIn' = udpIn /\ copies' = copies /\ sent' = sent
  BY Zenon DEF TunRecv
<1>2. CASE UNCHANGED <<server, tunOut, got, told, lost>>
  BY <1>1, <1>2, Zenon DEF TypeOK
<1>3. CASE IcmpIndication(p)
  <2>1. Reports(p) => tunOut' = tunOut /\ server' = server /\ lost' = lost /\ told' \subseteq told \cup Internal
    BY Zenon DEF Reports
  <2> QED
    BY <1>1, <1>2, <1>3, <2>1, LosesType, Zenon DEF IcmpIndication, TypeOK
<1>4. CASE DataIndication(p)
  BY <1>1, <1>2, <1>4, LosesType, Zenon DEF DataIndication, TypeOK
<1> QED
  BY <1>2, <1>3, <1>4, Zenon DEF TunRecv

\* What is received in a step of the TUN loop.
LEMMA IndicationGot ==
  ASSUME NEW p \in tunIn, TunRecv(p)
  PROVE  \/ got' = got
         \/ p.proto = "icmp" /\ got' = Received("icmp", ToUdp(p.src), p.dst, 0)
         \/ p.proto # "icmp" /\ got' = Received("data", ToUdp(p.dst), p.src, p.data)
  BY Zenon DEF TunRecv, IcmpIndication, DataIndication, Reports, Loses

\* A step of the TUN loop.
LEMMA TunRecvType ==
  ASSUME TypeOK, NEW p \in tunIn, TunRecv(p)
  PROVE  TypeOK'
<1>1. p.src \in Addresses /\ p.dst \in Addresses /\ p.data \in Nat
  BY QueueTypes, UdpAssumption, Zenon
<1>2. got' \subseteq [kind : {"allocated", "data", "icmp"}, to : Clients, peer : Addresses, data : Nat]
  BY <1>1, IndicationGot, ReceivedType DEF TypeOK
<1> QED
  BY <1>2, IndicationType, Zenon DEF TypeOK

\* What the kernel and the network put into the queue of the interface.
LEMMA ToServerType ==
  ASSUME TypeOK, NEW p \in UdpPacket \cup IcmpPacket, ToServer(p)
  PROVE  /\ (tunIn \subseteq UdpPacket \cup IcmpPacket)' /\ (ready \subseteq {"UDP", "TUN"})'
         /\ (lost \subseteq Internal)'
<1>1. (lost \subseteq Internal)'
  BY Zenon DEF ToServer, TypeOK
<1> QED
  BY <1>1, EnqueuedIn DEF ToServer, TypeOK

\* What clients and the network put into the queue of the socket.
LEMMA AtSocketType ==
  ASSUME TypeOK, NEW d \in SendIndication \cup OtherMessage, AtSocket(d)
  PROVE  /\ (udpIn \subseteq SendIndication \cup OtherMessage)' /\ (ready \subseteq {"UDP", "TUN"})'
         /\ (lost \subseteq Internal)'
<1>1. (lost \subseteq Internal)'
  BY Zenon DEF AtSocket, TypeOK
<1> QED
  BY <1>1, EnqueuedIn DEF AtSocket, TypeOK

\* The message about a packet.
LEMMA IcmpType ==
  ASSUME NEW p \in UdpPacket, NEW typ \in 1..4, NEW to \in Addresses
  PROVE  Icmp(typ, to, p) \in IcmpPacket
  BY DEF Icmp, IcmpPacket, UdpPacket

\* Steps of the kernel and of the network.
LEMMA KernelType ==
  ASSUME TypeOK, Kernel \/ Network
  PROVE  TypeOK'
<1>1. ASSUME NEW p \in tunOut, Route(p) PROVE TypeOK'
  <2>1. p \in UdpPacket /\ p.src \in Addresses
    BY QueueTypes, Zenon DEF TypeOK
  <2>2. Icmp(2, p.src, p) \in IcmpPacket
    BY <2>1, IcmpType
  <2>3. /\ (tunIn \subseteq UdpPacket \cup IcmpPacket)' /\ (ready \subseteq {"UDP", "TUN"})'
        /\ (lost \subseteq Internal)'
    BY <1>1, <2>1, <2>2, ToServerType, Zenon DEF Route
  <2> QED
    BY <1>1, <2>3, Zenon DEF Route, TypeOK
<1>2. ASSUME NEW p \in tunOut, Leave(p) PROVE TypeOK'
  BY <1>2, Zenon DEF Leave, TypeOK, history
<1>3. ASSUME NEW p \in tunOut, NEW typ \in {1, 4}, NEW to \in Addresses, Unreachable(p, typ, to) PROVE TypeOK'
  <2>1. p \in UdpPacket /\ typ \in 1..4
    BY <1>3 DEF TypeOK
  <2>2. Icmp(typ, to, p) \in IcmpPacket
    BY <2>1, IcmpType, Zenon
  <2>3. /\ (tunIn \subseteq UdpPacket \cup IcmpPacket)' /\ (ready \subseteq {"UDP", "TUN"})'
        /\ (lost \subseteq Internal)'
    BY <1>3, <2>2, ToServerType, Zenon DEF Unreachable
  <2> QED
    BY <1>3, <2>3, Zenon DEF Unreachable, TypeOK
<1>4. ASSUME NEW d \in ClientSends, ClientSend(d) PROVE TypeOK'
  <2>1. d \in SendIndication \cup OtherMessage /\ Sends(d) \in Datagram
    BY RelayedFacts, Zenon DEF ClientSends, SendIndication, Sends, Datagram
  <2>2. /\ (udpIn \subseteq SendIndication \cup OtherMessage)' /\ (ready \subseteq {"UDP", "TUN"})'
        /\ (lost \subseteq Internal)'
    BY <1>4, <2>1, AtSocketType, Zenon DEF ClientSend
  <2>3. (sent \subseteq Datagram)'
    BY <1>4, <2>1, Zenon DEF ClientSend, Sent, TypeOK
  <2> QED
    BY <1>4, <2>2, <2>3, Zenon DEF ClientSend, TypeOK
<1>5. ASSUME NEW d \in SendIndication \cup OtherMessage, ClientNoise(d) PROVE TypeOK'
  <2>1. /\ (udpIn \subseteq SendIndication \cup OtherMessage)' /\ (ready \subseteq {"UDP", "TUN"})'
        /\ (lost \subseteq Internal)'
    BY <1>5, AtSocketType, Zenon DEF ClientNoise
  <2>2. (copies \in 0..CopiesMax)'
    BY <1>5, UdpAssumption DEF ClientNoise, TypeOK
  <2> QED
    BY <1>5, <2>1, <2>2, Zenon DEF ClientNoise, TypeOK
<1>6. ASSUME NEW p \in HostSends, HostSend(p) PROVE TypeOK'
  <2>1. p \in UdpPacket /\ About(p) \in Datagram
    BY Zenon DEF HostSends, UdpPacket, About, Datagram
  <2>2. /\ (tunIn \subseteq UdpPacket \cup IcmpPacket)' /\ (ready \subseteq {"UDP", "TUN"})'
        /\ (lost \subseteq Internal)'
    BY <1>6, <2>1, ToServerType, Zenon DEF HostSend
  <2>3. (sent \subseteq Datagram)'
    BY <1>6, <2>1, Zenon DEF HostSend, Sent, TypeOK
  <2> QED
    BY <1>6, <2>2, <2>3, Zenon DEF HostSend, TypeOK
<1>7. \A p \in tunOut : Unreachable(p, 4, p.src) => p.src \in Addresses
  BY QueueTypes, Zenon
<1> QED
  BY <1>1, <1>2, <1>3, <1>4, <1>5, <1>6, <1>7, Zenon DEF Kernel, Network

\* The end of a loop, and poll.
LEMMA LoopType ==
  ASSUME TypeOK, Poll \/ UdpEmpty \/ TunEmpty
  PROVE  TypeOK'
<1>1. CASE Poll
  <2>1. events' \in Seq({"UDP", "TUN"})
    <3>1. events' \in {<<"UDP">>, <<"TUN">>, <<"UDP", "TUN">>, <<"TUN", "UDP">>}
      BY <1>1, Zenon DEF Poll
    <3>2. /\ <<"UDP">> \in Seq({"UDP", "TUN"}) /\ <<"TUN">> \in Seq({"UDP", "TUN"})
          /\ <<"UDP", "TUN">> \in Seq({"UDP", "TUN"}) /\ <<"TUN", "UDP">> \in Seq({"UDP", "TUN"})
      OBVIOUS
    <3> QED
      BY <3>1, <3>2, Zenon
  <2> QED
    BY <1>1, <2>1, Zenon DEF Poll, TypeOK, history
<1>2. CASE UdpEmpty \/ TunEmpty
  <2>1. events' \in Seq({"UDP", "TUN"})
    BY <1>2 DEF UdpEmpty, TunEmpty, Handling, TypeOK
  <2> QED
    BY <1>2, <2>1, Zenon DEF UdpEmpty, TunEmpty, TypeOK, history
<1> QED
  BY <1>1, <1>2, Zenon

\* The types are inductive.
LEMMA TypeInvariant == Spec => []TypeOK
<1>1. Init => TypeOK
  BY UdpAssumption DEF Init, TypeOK
<1>2. TypeOK /\ [Next]_vars => TypeOK'
  <2> SUFFICES ASSUME TypeOK, [Next]_vars PROVE TypeOK'
    BY Zenon
  <2>1. CASE UNCHANGED vars
    BY <2>1, Zenon DEF vars, history, TypeOK
  <2> QED
    BY <2>1, UdpRecvType, TunRecvType, KernelType, LoopType, Zenon DEF Next, ServerStep
<1> QED
  BY <1>1, <1>2, PTL DEF Spec

\* The variables keep their types, for every configuration.
THEOREM TypeCorrect == Spec => []TypeOK
  BY TypeInvariant, Zenon

-----------------------------------------------------------------------------
(* Lengths *)

\* Padding is the same behind the UDP header, and it does not go beyond a
\* multiple of four.
LEMMA PaddingFits ==
  ASSUME NEW n \in Nat, BufLen % 4 = 0, Head48 + n <= BufLen
  PROVE  ~(Head48 + n + padding(n + 8) > BufLen)
<1>1. BufLen \in Nat
  BY UdpAssumption, Zenon
<1> QED
  BY <1>1 DEF padding, Head48

\* Lengths of data are numbers.
LEMMA LensNat == \A n \in Lens : n \in Nat
  BY UdpAssumption, Zenon

\* So are the limits.
LEMMA LimitsNat == U16Max \in Nat /\ BufLen \in Nat /\ MaxDatagram \in Nat /\ Mtu \in Nat
  BY UdpAssumption, Zenon

\* The server does not panic, if the buffer is a multiple of four bytes and
\* u16 can express its last index: the sums that handle_turn computes do not
\* overflow, and the padding that handle_net zeroes lies inside of the buffer.
THEOREM NeverPanicsHolds == BufLen % 4 = 0 /\ BufLen <= U16Max + 1 => (Spec => []NeverPanics)
<1> SUFFICES ASSUME BufLen % 4 = 0, BufLen <= U16Max + 1
             PROVE  Spec => []NeverPanics
  BY Zenon
<1>1. Init => NeverPanics
  BY Zenon DEF Init, NeverPanics
<1>2. TypeOK /\ NeverPanics /\ [Next]_vars => NeverPanics'
  <2> SUFFICES ASSUME TypeOK, NeverPanics, [Next]_vars PROVE NeverPanics'
    BY Zenon
  <2>1. ASSUME NEW d \in udpIn, UdpRecv(d) PROVE NeverPanics'
    <3>1. CASE d.kind = "send"
      <4>1. d.data \in Nat
        BY <3>1, QueueTypes, LensNat, Zenon
      <4>2. ~(Head48 + d.data <= BufLen /\ d.data + 8 > U16Max)
        BY <4>1, LimitsNat DEF Head48
      <4>3. Head48 + d.data > BufLen \/ ~(d.data + 8 > U16Max)
        BY <4>1, <4>2, LimitsNat DEF Head48
      <4> QED
        BY <2>1, <3>1, <4>3, Zenon DEF UdpRecv, Relays, Writes, Loses, NeverPanics
    <3>2. CASE d.kind # "send"
      BY <2>1, <3>2, Zenon DEF UdpRecv, Responds, NeverPanics
    <3> QED
      BY <3>1, <3>2, Zenon
  <2>2. ASSUME NEW p \in tunIn, TunRecv(p) PROVE NeverPanics'
    <3>1. CASE p.proto = "icmp"
      BY <2>2, <3>1, Zenon DEF TunRecv, IcmpIndication, Reports, Loses, NeverPanics
    <3>2. CASE p.proto # "icmp" /\ Head48 + p.data > BufLen
      BY <2>2, <3>2, Zenon DEF TunRecv, NeverPanics
    <3>3. CASE p.proto # "icmp" /\ ~(Head48 + p.data > BufLen)
      <4>1. p.data \in Nat
        BY <3>3, QueueTypes, LensNat, Zenon
      <4>2. Head48 + p.data <= BufLen
        BY <3>3, <4>1, LimitsNat DEF Head48
      <4>4. ~(Head48 + p.data + padding(p.data + 8) > BufLen)
        BY <4>1, <4>2, PaddingFits, Zenon
      <4>5. DataIndication(p)
        BY <2>2, <3>3, Zenon DEF TunRecv
      <4> QED
        BY <4>4, <4>5, Zenon DEF DataIndication, Loses, NeverPanics
    <3> QED
      BY <3>1, <3>2, <3>3, Zenon
  <2>3. CASE Kernel
    BY <2>3, Zenon DEF Kernel, Route, Leave, NeverPanics
  <2>4. CASE Network
    BY <2>4, Zenon DEF Network, Unreachable, ClientSend, ClientNoise, HostSend, NeverPanics
  <2>5. CASE Poll \/ UdpEmpty \/ TunEmpty \/ UNCHANGED vars
    BY <2>5, Zenon DEF Poll, UdpEmpty, TunEmpty, vars, NeverPanics
  <2> QED
    BY <2>1, <2>2, <2>3, <2>4, <2>5, Zenon DEF Next, ServerStep
<1> QED
  BY <1>1, <1>2, TypeInvariant, PTL DEF Spec

-----------------------------------------------------------------------------
(* Edges *)

\* Taking the first event off the batch leaves every other token in it.
LEMMA TailKeeps ==
  ASSUME NEW q \in Seq({"UDP", "TUN"}), q # <<>>, NEW i \in 1..Len(q), q[i] # Head(q)
  PROVE  \E j \in 1..Len(Tail(q)) : Tail(q)[j] = q[i]
<1>1. i # 1 /\ i - 1 \in 1..Len(Tail(q)) /\ Tail(q)[i - 1] = q[i]
  OBVIOUS
<1> QED
  BY <1>1, Zenon

\* Every loop of the server goes on until its source is empty, so nothing that
\* waits is forgotten: its token is in the batch or is reported next.
THEOREM NoLostWakeupHolds == Spec => []NoLostWakeup
<1>1. Init => NoLostWakeup
  BY Zenon DEF Init, NoLostWakeup, Pending
<1>2. TypeOK /\ NoLostWakeup /\ [Next]_vars => NoLostWakeup'
  <2> SUFFICES ASSUME TypeOK, NoLostWakeup, [Next]_vars PROVE NoLostWakeup'
    BY Zenon
  <2>1. CASE Poll
    <3>1. \A t \in ready : t \in Pending'
      BY <2>1, Zenon DEF Poll, Pending
    <3>2. Pending = ready
      BY <2>1 DEF Poll, Pending
    <3> QED
      BY <2>1, <3>1, <3>2, Zenon DEF Poll, NoLostWakeup
  <2>2. CASE UdpEmpty
    <3>1. "TUN" \in Pending => "TUN" \in Pending'
      <4>1. events \in Seq({"UDP", "TUN"}) /\ events # <<>> /\ Head(events) # "TUN"
        BY <2>2, Zenon DEF UdpEmpty, Handling, TypeOK
      <4>2. ready' = ready /\ events' = Tail(events)
        BY <2>2, Zenon DEF UdpEmpty
      <4>3. \A i \in 1..Len(events) : events[i] = "TUN" => \E j \in 1..Len(Tail(events)) : Tail(events)[j] = "TUN"
        BY <4>1, TailKeeps, Zenon
      <4> QED
        BY <4>2, <4>3, Zenon DEF Pending
    <3> QED
      BY <2>2, <3>1, Zenon DEF UdpEmpty, Handling, NoLostWakeup
  <2>3. CASE TunEmpty
    <3>1. "UDP" \in Pending => "UDP" \in Pending'
      <4>1. events \in Seq({"UDP", "TUN"}) /\ events # <<>> /\ Head(events) # "UDP"
        BY <2>3, Zenon DEF TunEmpty, Handling, TypeOK
      <4>2. ready' = ready /\ events' = Tail(events)
        BY <2>3, Zenon DEF TunEmpty
      <4>3. \A i \in 1..Len(events) : events[i] = "UDP" => \E j \in 1..Len(Tail(events)) : Tail(events)[j] = "UDP"
        BY <4>1, TailKeeps, Zenon
      <4> QED
        BY <4>2, <4>3, Zenon DEF Pending
    <3> QED
      BY <2>3, <3>1, Zenon DEF TunEmpty, Handling, NoLostWakeup
  <2>4. ASSUME NEW d \in udpIn, UdpRecv(d) PROVE NoLostWakeup'
    <3>1. Pending' = Pending
      BY <2>4, Zenon DEF UdpRecv, Pending
    <3>2. server = "running" /\ udpIn # {} /\ tunIn' = tunIn
      BY <2>4, Zenon DEF UdpRecv, Handling
    <3> QED
      BY <3>1, <3>2, Zenon DEF NoLostWakeup
  <2>5. ASSUME NEW p \in tunIn, TunRecv(p) PROVE NoLostWakeup'
    <3>1. Pending' = Pending
      BY <2>5, Zenon DEF TunRecv, Pending
    <3>2. server = "running" /\ tunIn # {} /\ udpIn' = udpIn
      BY <2>5, Zenon DEF TunRecv, Handling
    <3> QED
      BY <3>1, <3>2, Zenon DEF NoLostWakeup
  <2>6. CASE Kernel
    <3>1. /\ server' = server /\ udpIn' = udpIn /\ events' = events
          /\ \/ ready' = ready \cup {"TUN"}
             \/ ready' = ready /\ tunIn' = tunIn
      BY <2>6, Zenon DEF Kernel, Route, Leave, ToServer
    <3> QED
      BY <3>1, Zenon DEF Pending, NoLostWakeup
  <2>7. CASE Network
    <3>1. /\ server' = server /\ events' = events
          /\ \/ ready' = ready \cup {"TUN"} /\ udpIn' = udpIn
             \/ ready' = ready \cup {"UDP"} /\ tunIn' = tunIn
      BY <2>7, Zenon DEF Network, Unreachable, ClientSend, ClientNoise, HostSend, ToServer, AtSocket
    <3> QED
      BY <3>1, Zenon DEF Pending, NoLostWakeup
  <2>8. CASE UNCHANGED vars
    BY <2>8, Zenon DEF vars, NoLostWakeup, Pending
  <2> QED
    BY <2>1, <2>2, <2>3, <2>4, <2>5, <2>6, <2>7, <2>8, Zenon DEF Next, ServerStep
<1> QED
  BY <1>1, <1>2, TypeInvariant, PTL DEF Spec

-----------------------------------------------------------------------------
(* Refinement *)

\* A datagram that was sent has these addresses and this data.
WasSent(src, dst, n) == \E s \in sent : s.src = src /\ s.dst = dst /\ s.data = n

\* A client sent something to dst, from its relayed address src.
ByClient(src, dst) == (\E c \in Clients : src = Relayed[c]) /\ \E s \in sent : s.src = src /\ s.dst = dst

\* Everything that is queued stems from something that was sent; what the
\* server writes to the interface, and what is reported back, from clients;
\* and what waits at the interface is addressed to a tun subnet.
HistoryOK ==
  /\ \A d \in udpIn : d.kind = "send" => WasSent(Relayed[d.from], d.peer, d.data)
  /\ \A p \in tunOut : WasSent(p.src, p.dst, p.data) /\ ByClient(p.src, p.dst)
  /\ \A p \in tunIn : p.proto # "icmp" => WasSent(p.src, p.dst, p.data) /\ InTun(p.dst)
  /\ \A p \in tunIn : p.proto = "icmp" => ByClient(p.src, p.dst)

\* What was sent stays sent.
LEMMA SentKept ==
  ASSUME sent \subseteq sent'
  PROVE  /\ \A src, dst, n : WasSent(src, dst, n) => WasSent(src, dst, n)'
         /\ \A src, dst : ByClient(src, dst) => ByClient(src, dst)'
  BY Zenon DEF WasSent, ByClient

\* The server's loops keep HistoryOK: a Send indication leaves with the relayed
\* address of its sender.
LEMMA ServerHistory ==
  ASSUME TypeOK, HistoryOK, ServerStep
  PROVE  HistoryOK'
<1>1. CASE Poll \/ UdpEmpty \/ TunEmpty
  BY <1>1, ZenonT(60) DEF Poll, UdpEmpty, TunEmpty, history, HistoryOK, WasSent, ByClient
<1>2. ASSUME NEW d \in udpIn, UdpRecv(d) PROVE HistoryOK'
  <2> DEFINE q == [proto |-> "udp", src |-> ToNet(d.from), dst |-> d.peer, data |-> d.data]
  <2>1. udpIn' \subseteq udpIn /\ tunIn' = tunIn /\ sent' = sent
    BY <1>2, Zenon DEF UdpRecv
  <2>2. tunOut' = tunOut \/ (d.kind = "send" /\ tunOut' \subseteq tunOut \cup {q})
    BY <1>2, Zenon DEF UdpRecv, Relays, Writes, Loses, Responds
  <2>3. d.kind = "send" => WasSent(q.src, q.dst, q.data) /\ ByClient(q.src, q.dst)
    <3>1. d.kind = "send" => d.from \in Clients /\ Relayed[d.from] = ToNet(d.from)
      BY QueueTypes, RelayedFacts
    <3> QED
      BY <3>1, ZenonT(60) DEF HistoryOK, WasSent, ByClient
  <2>4. \A p \in tunOut' : WasSent(p.src, p.dst, p.data) /\ ByClient(p.src, p.dst)
    BY <2>2, <2>3, Zenon DEF HistoryOK
  <2> HIDE DEF q
  <2> QED
    BY <2>1, <2>4, SentKept, Zenon DEF HistoryOK
<1>3. ASSUME NEW p \in tunIn, TunRecv(p) PROVE HistoryOK'
  <2>1. udpIn' = udpIn /\ tunIn' \subseteq tunIn /\ tunOut' = tunOut /\ sent' = sent
    BY <1>3, IndicationType, Zenon
  <2> QED
    BY <2>1, SentKept, Zenon DEF HistoryOK
<1> QED
  BY <1>1, <1>2, <1>3, Zenon DEF ServerStep

\* So do the kernel, and the network.
LEMMA NetworkHistory ==
  ASSUME TypeOK, HistoryOK, Kernel \/ Network
  PROVE  HistoryOK'
<1>1. ASSUME NEW p \in tunOut, Route(p) PROVE HistoryOK'
  <2> DEFINE q == IF Head48 + p.data <= Mtu THEN p
                  ELSE Icmp(2, p.src, p)
  <2>1. udpIn' = udpIn /\ tunOut' \subseteq tunOut /\ sent' = sent /\ tunIn' \subseteq tunIn \cup {q}
    BY <1>1, EnqueuedIn DEF Route, ToServer
  <2>2. /\ q.proto # "icmp" => WasSent(q.src, q.dst, q.data) /\ InTun(q.dst)
        /\ q.proto = "icmp" => ByClient(q.src, q.dst)
    BY <1>1, Zenon DEF Route, Icmp, HistoryOK
  <2> HIDE DEF q
  <2> QED
    BY <2>1, <2>2, SentKept, Zenon DEF HistoryOK
<1>2. ASSUME NEW p \in tunOut, Leave(p) PROVE HistoryOK'
  <2>1. udpIn' = udpIn /\ tunOut' \subseteq tunOut /\ sent' = sent /\ tunIn' = tunIn
    BY <1>2, Zenon DEF Leave, history
  <2> QED
    BY <2>1, SentKept, Zenon DEF HistoryOK
<1>3. ASSUME NEW p \in tunOut, NEW typ \in {1, 4}, NEW to \in Addresses, Unreachable(p, typ, to) PROVE HistoryOK'
  <2> DEFINE q == Icmp(typ, to, p)
  <2>1. udpIn' = udpIn /\ tunOut' \subseteq tunOut /\ sent' = sent /\ tunIn' \subseteq tunIn \cup {q}
    BY <1>3, EnqueuedIn DEF Unreachable, ToServer
  <2>2. q.proto = "icmp" /\ ByClient(q.src, q.dst)
    BY Zenon DEF HistoryOK, Icmp
  <2> HIDE DEF q
  <2> QED
    BY <2>1, <2>2, SentKept, Zenon DEF HistoryOK
<1>4. ASSUME NEW d \in ClientSends, ClientSend(d) PROVE HistoryOK'
  <2>1. udpIn' \subseteq udpIn \cup {d} /\ tunOut' = tunOut /\ sent \subseteq sent' /\ tunIn' = tunIn
    BY <1>4, EnqueuedIn, Zenon DEF ClientSend, AtSocket, Sent
  <2>2. WasSent(Relayed[d.from], d.peer, d.data)'
    BY <1>4 DEF ClientSend, Sent, Sends, WasSent
  <2> QED
    BY <2>1, <2>2, SentKept, Zenon DEF HistoryOK
<1>5. ASSUME NEW d \in SendIndication \cup OtherMessage, ClientNoise(d) PROVE HistoryOK'
  <2>1. udpIn' \subseteq udpIn \cup {d} /\ tunOut' = tunOut /\ sent' = sent /\ tunIn' = tunIn
    BY <1>5, EnqueuedIn, Zenon DEF ClientNoise, AtSocket
  <2>2. d.kind = "send" => WasSent(Relayed[d.from], d.peer, d.data)
    BY <1>5, Zenon DEF ClientNoise, Sends, WasSent
  <2> QED
    BY <2>1, <2>2, SentKept, Zenon DEF HistoryOK
<1>6. ASSUME NEW p \in HostSends, HostSend(p) PROVE HistoryOK'
  <2>1. udpIn' = udpIn /\ tunOut' = tunOut /\ sent \subseteq sent' /\ tunIn' \subseteq tunIn \cup {p}
    BY <1>6, EnqueuedIn, Zenon DEF HostSend, ToServer, Sent
  <2>2. p.proto # "icmp" /\ InTun(p.dst)
    BY DEF HostSends, UdpPacket
  <2>3. WasSent(p.src, p.dst, p.data)'
    BY <1>6 DEF HostSend, Sent, About, WasSent
  <2> QED
    BY <2>1, <2>2, <2>3, SentKept, Zenon DEF HistoryOK
<1>7. \A p \in tunOut : Unreachable(p, 4, p.src) => p.src \in Addresses
  BY QueueTypes, Zenon
<1> QED
  BY <1>1, <1>2, <1>3, <1>4, <1>5, <1>6, <1>7, Zenon DEF Kernel, Network

\* HistoryOK is an invariant.
LEMMA HistoryInvariant == Spec => []HistoryOK
<1>1. Init => HistoryOK
  BY Zenon DEF Init, HistoryOK
<1>2. TypeOK /\ HistoryOK /\ [Next]_vars => HistoryOK'
  <2> SUFFICES ASSUME TypeOK, HistoryOK, [Next]_vars PROVE HistoryOK'
    BY Zenon
  <2>1. CASE UNCHANGED vars
    BY <2>1, Zenon DEF vars, history, HistoryOK, WasSent, ByClient
  <2> QED
    BY <2>1, ServerHistory, NetworkHistory, Zenon DEF Next
<1> QED
  BY <1>1, <1>2, TypeInvariant, PTL DEF Spec

\* A client is told its relayed address; or nothing is received.
LEMMA UdpRecvRelays ==
  ASSUME TypeOK, NEW d \in udpIn, UdpRecv(d)
  PROVE  [Promise!Next]_<<sent, got>>
<1>1. /\ sent' = sent
      /\ got' = got \/ (d.kind = "request" /\ got' = Received("allocated", d.from, ToNet(d.from), 0))
  BY Zenon DEF UdpRecv, Relays, Writes, Loses, Responds
<1>2. d.kind = "request" => d.from \in Clients /\ ToNet(d.from) = Relayed[d.from]
  BY QueueTypes, RelayedFacts
<1>3. got' = got \/ (d.kind = "request" /\ Promise!Tell(d.from))
  BY <1>1, <1>2, Zenon DEF Received, Promise!Tell, Promise!Receive
<1> QED
  BY <1>1, <1>2, <1>3, Zenon DEF Promise!Next

\* A client receives what was sent to its relayed address, or a report about
\* what it sent; or nothing is received.
LEMMA TunRecvRelays ==
  ASSUME TypeOK, HistoryOK, NEW p \in tunIn, TunRecv(p)
  PROVE  [Promise!Next]_<<sent, got>>
<1>1. sent' = sent
  BY Zenon DEF TunRecv
<1>2. p.src \in Nat /\ p.dst \in Nat
  BY QueueTypes, RelayedFacts, Zenon
<1>3. CASE got' = got
  BY <1>1, <1>3, Zenon
<1>4. CASE p.proto = "icmp" /\ got' = Received("icmp", ToUdp(p.src), p.dst, 0)
  <2>1. PICK c \in Clients : p.src = Relayed[c]
    BY <1>4, Zenon DEF HistoryOK, ByClient
  <2>2. ToUdp(p.src) = c
    BY <2>1, RelayedFacts, Zenon
  <2>3. PICK s \in sent : s.src = p.src /\ s.dst = p.dst
    BY <1>4, Zenon DEF HistoryOK, ByClient
  <2>4. Promise!Receive("icmp", c, s.dst, 0)
    BY <1>1, <1>4, <2>2, <2>3, Zenon DEF Received, Promise!Receive
  <2>5. Promise!Report(c)
    BY <2>1, <2>3, <2>4, Zenon DEF Promise!Report
  <2> QED
    BY <2>5, Zenon DEF Promise!Next
<1>5. CASE p.proto # "icmp" /\ got' = Received("data", ToUdp(p.dst), p.src, p.data)
  <2>1. CASE ToUdp(p.dst) \notin Clients
    BY <1>1, <1>5, <2>1, Zenon DEF Received
  <2>2. CASE ToUdp(p.dst) \in Clients
    <3>1. Relayed[ToUdp(p.dst)] = p.dst
      BY <1>2, <1>5, <2>2, ToNetOfToUdp, RelayedFacts, Zenon DEF HistoryOK
    <3>2. PICK s \in sent : s.src = p.src /\ s.dst = p.dst /\ s.data = p.data
      BY <1>5, Zenon DEF HistoryOK, WasSent
    <3>3. Promise!Receive("data", ToUdp(p.dst), s.src, s.data)
      BY <1>1, <1>5, <2>2, <3>2, Zenon DEF Received, Promise!Receive
    <3>4. Promise!Deliver(ToUdp(p.dst))
      BY <3>1, <3>2, <3>3, Zenon DEF Promise!Deliver
    <3> QED
      BY <2>2, <3>4, Zenon DEF Promise!Next
  <2> QED
    BY <2>1, <2>2, Zenon
<1> QED
  BY <1>3, <1>4, <1>5, IndicationGot, Zenon

\* A datagram is sent; or nothing happens that Relay speaks of.
LEMMA OthersRelay ==
  ASSUME Kernel \/ Network \/ Poll \/ UdpEmpty \/ TunEmpty \/ UNCHANGED vars
  PROVE  [Promise!Next]_<<sent, got>>
<1>1. ASSUME NEW d \in ClientSends, ClientSend(d)
      PROVE  Promise!Next
  <2>1. Promise!Send(Relayed[d.from], d.peer, d.data)
    BY <1>1, Zenon DEF ClientSend, Sent, Sends, Promise!Send
  <2>2. d.from \in Clients /\ d.peer \in Addresses /\ d.data \in Lens
    BY Zenon DEF ClientSends, SendIndication
  <2>3. Relayed[d.from] \in Promise!Addresses /\ d.peer \in Promise!Addresses
    BY <2>2, Zenon DEF Addresses, Promise!Addresses
  <2> QED
    BY <2>1, <2>2, <2>3, Zenon DEF Promise!Next
<1>2. ASSUME NEW p \in HostSends, HostSend(p)
      PROVE  Promise!Next
  <2>1. Promise!Send(p.src, p.dst, p.data)
    BY <1>2, Zenon DEF HostSend, Sent, About, Promise!Send
  <2>2. p.src \in Promise!Addresses /\ p.dst \in Promise!Addresses /\ p.data \in Lens
    BY Zenon DEF HostSends, UdpPacket, Addresses, Promise!Addresses
  <2> QED
    BY <2>1, <2>2, Zenon DEF Promise!Next
<1>3. CASE Kernel \/ Poll \/ UdpEmpty \/ TunEmpty \/ UNCHANGED vars
  BY <1>3, Zenon DEF Kernel, Route, Leave, Poll, UdpEmpty, TunEmpty, history, vars
<1>4. CASE Network
  BY <1>1, <1>2, <1>4, Zenon DEF Network, Unreachable, ClientNoise
<1> QED
  BY <1>3, <1>4, Zenon

\* The UDP server is a relay, for every configuration of subnets: its mappings,
\* queues, events and buffers do not show in what clients receive.
THEOREM RefinesRelayHolds == Spec => RefinesRelay
<1>1. Init => Promise!Init
  BY Zenon DEF Init, Promise!Init
<1>2. TypeOK /\ HistoryOK /\ [Next]_vars => [Promise!Next]_<<sent, got>>
  BY UdpRecvRelays, TunRecvRelays, OthersRelay, Zenon DEF Next, ServerStep
<1> QED
  BY <1>1, <1>2, TypeInvariant, HistoryInvariant, PTL DEF Spec, RefinesRelay, Promise!Spec

-----------------------------------------------------------------------------
(* What happens to a datagram between clients *)

\* The sizes fit together: the buffer takes what a socket or the interface
\* delivers, length fields of 16 bits can express it, and a packet that the
\* interface carries fits into a datagram once its data is padded.
SizesFit ==
  /\ BufLen % 4 = 0 /\ BufLen <= U16Max + 1
  /\ Mtu <= BufLen /\ MaxDatagram <= BufLen
  /\ Mtu + padding(Mtu) <= MaxDatagram

\* What was sent fits into the buffer; what waits at the interface was carried by
\* it; and a report about a datagram between clients is that it was too big, and
\* addressed to its sender.
LengthsOK ==
  /\ \A s \in sent : Head48 + s.data <= BufLen
  /\ \A p \in tunIn : p.proto # "icmp" => Head48 + p.data <= Mtu
  /\ \A p \in tunIn : p.proto = "icmp" /\ InTun(p.dst) => p.typ = 2 /\ p.to = p.src

\* A packet that is put into the queue of the interface.
LEMMA ToServerLengths ==
  ASSUME LengthsOK, NEW p, ToServer(p), sent' = sent,
         p.proto # "icmp" => Head48 + p.data <= Mtu,
         p.proto = "icmp" /\ InTun(p.dst) => p.typ = 2 /\ p.to = p.src
  PROVE  LengthsOK'
<1>1. tunIn' \subseteq tunIn \cup {p}
  BY EnqueuedIn, Zenon DEF ToServer
<1> QED
  BY <1>1, Zenon DEF LengthsOK

\* The lengths are kept: clients are limited by their sockets, and hosts and the
\* kernel by the interface.
LEMMA LengthsStep ==
  ASSUME SizesFit, TypeOK, LengthsOK, [Next]_vars
  PROVE  LengthsOK'
<1>1. CASE Poll \/ UdpEmpty \/ TunEmpty \/ UNCHANGED vars
  BY <1>1, Zenon DEF Poll, UdpEmpty, TunEmpty, vars, history, LengthsOK
<1>2. ASSUME NEW d \in udpIn, UdpRecv(d) PROVE LengthsOK'
  BY <1>2, Zenon DEF UdpRecv, LengthsOK
<1>3. ASSUME NEW p \in tunIn, TunRecv(p) PROVE LengthsOK'
  <2>1. tunIn' \subseteq tunIn /\ sent' = sent
    BY <1>3, IndicationType, Zenon
  <2> QED
    BY <2>1, Zenon DEF LengthsOK
<1>4. ASSUME NEW p \in tunOut, Route(p) PROVE LengthsOK'
  <2>1. CASE Head48 + p.data <= Mtu
    <3>1. p.proto # "icmp"
      BY DEF TypeOK, UdpPacket
    <3> QED
      BY <1>4, <2>1, <3>1, ToServerLengths, Zenon DEF Route
  <2>2. CASE ~(Head48 + p.data <= Mtu)
    <3>1. LET q == Icmp(2, p.src, p) IN q.proto = "icmp" /\ q.typ = 2 /\ q.to = q.src
      BY DEF Icmp
    <3>2. ToServer(Icmp(2, p.src, p)) /\ sent' = sent
      BY <1>4, <2>2, Zenon DEF Route
    <3> QED
      BY <3>1, <3>2, ToServerLengths, Zenon
  <2> QED
    BY <2>1, <2>2, Zenon
<1>5. ASSUME NEW p \in tunOut, Leave(p) PROVE LengthsOK'
  BY <1>5, Zenon DEF Leave, history, LengthsOK
<1>6. ASSUME NEW p \in tunOut, NEW typ, NEW to, Unreachable(p, typ, to) PROVE LengthsOK'
  <2>1. LET q == Icmp(typ, to, p) IN q.proto = "icmp" /\ q.dst = p.dst
    BY DEF Icmp
  <2>2. ToServer(Icmp(typ, to, p)) /\ sent' = sent /\ ~InTun(p.dst)
    BY <1>6, Zenon DEF Unreachable
  <2> QED
    BY <2>1, <2>2, ToServerLengths, Zenon
<1>7. ASSUME NEW d \in ClientSends, ClientSend(d) PROVE LengthsOK'
  <2>1. d.data \in Nat /\ Head48 + d.data + padding(d.data) <= MaxDatagram
    BY LensNat, Zenon DEF ClientSends, SendIndication
  <2>2. Head48 + d.data <= BufLen
    <3>1. padding(d.data) \in Nat /\ MaxDatagram <= BufLen
      BY <2>1 DEF padding, SizesFit
    <3> QED
      BY <2>1, <3>1, LimitsNat DEF Head48
  <2>3. Sends(d).data = d.data
    BY DEF Sends
  <2>4. sent' = sent \cup {Sends(d)} /\ tunIn' = tunIn
    BY <1>7, Zenon DEF ClientSend, Sent
  <2> QED
    BY <2>2, <2>3, <2>4, Zenon DEF LengthsOK
<1>8. ASSUME NEW d, ClientNoise(d) PROVE LengthsOK'
  BY <1>8, Zenon DEF ClientNoise, LengthsOK
<1>9. ASSUME NEW p \in HostSends, HostSend(p) PROVE LengthsOK'
  <2>1. p.data \in Nat /\ Head48 + p.data <= Mtu /\ p.proto # "icmp"
    BY LensNat DEF HostSends, UdpPacket
  <2>2. Head48 + p.data <= BufLen
    BY <2>1, LimitsNat DEF SizesFit, Head48
  <2>3. About(p).data = p.data
    BY DEF About
  <2>4. sent' = sent \cup {About(p)} /\ tunIn' \subseteq tunIn \cup {p}
    BY <1>9, EnqueuedIn, Zenon DEF HostSend, Sent, ToServer
  <2> QED
    BY <2>1, <2>2, <2>3, <2>4, Zenon DEF LengthsOK
<1> QED
  BY <1>1, <1>2, <1>3, <1>4, <1>5, <1>6, <1>7, <1>8, <1>9, Zenon
     DEF Next, ServerStep, Kernel, Network

\* A datagram is accounted for.
Settled(s) == Delivered(s) \/ s \in told \/ s \in lost

\* What was settled stays so, if nothing is taken off the histories.
LEMMA SettledKept ==
  ASSUME got \subseteq got', told \subseteq told', lost \subseteq lost'
  PROVE  \A s : Settled(s) => Settled(s)'
  BY Zenon DEF Settled, Delivered

\* Nothing is.
LEMMA HistoriesGrow ==
  ASSUME [Next]_vars
  PROVE  got \subseteq got' /\ told \subseteq told' /\ lost \subseteq lost'
<1> DEFINE Grow == got \subseteq got' /\ told \subseteq told' /\ lost \subseteq lost'
<1>1. CASE Poll \/ UdpEmpty \/ TunEmpty \/ UNCHANGED vars
  BY <1>1, Zenon DEF Poll, UdpEmpty, TunEmpty, vars, history
<1>2. ASSUME NEW s, Loses(s) PROVE Grow
  BY <1>2, Zenon DEF Loses
<1>3. ASSUME NEW d \in udpIn, UdpRecv(d) PROVE Grow
  BY <1>2, <1>3, Zenon DEF UdpRecv, Relays, Writes, Responds, Received
<1>4. ASSUME NEW p \in tunIn, TunRecv(p) PROVE Grow
  BY <1>2, <1>4, Zenon DEF TunRecv, IcmpIndication, Reports, DataIndication, Received
<1>5. CASE Kernel
  BY <1>5, Zenon DEF Kernel, Route, Leave, ToServer, history
<1>6. CASE Network
  BY <1>6, Zenon DEF Network, Unreachable, ClientSend, ClientNoise, HostSend, ToServer, AtSocket
<1> QED
  BY <1>1, <1>3, <1>4, <1>5, <1>6, Zenon DEF Next, ServerStep

\* The relayed address of a client is in a tun subnet, and leads to that client.
LEMMA InternalAddresses ==
  ASSUME NEW s \in Internal
  PROVE  /\ \E c \in Clients : s.src = Relayed[c]
         /\ \E e \in Clients : s.dst = Relayed[e] /\ ToUdp(s.dst) = e
         /\ InTun(s.dst)
<1>1. s.src \in {Relayed[c] : c \in Clients} /\ s.dst \in {Relayed[c] : c \in Clients}
  BY Zenon DEF Internal
<1> QED
  BY <1>1, RelayedFacts, Zenon

\* A Send indication that the UDP loop takes is written to the interface, or a
\* failed call loses it.
LEMMA RelaysAccounts ==
  ASSUME SizesFit, TypeOK, HistoryOK, LengthsOK,
         NEW d \in udpIn, d.kind = "send", UdpRecv(d), Sends(d) \in Internal
  PROVE  Underway(Sends(d))' \/ Settled(Sends(d))'
<1>1. d.data \in Nat /\ d.from \in Clients
  BY QueueTypes, LensNat
<1>2. Head48 + d.data <= BufLen
  <2>1. PICK s \in sent : s.data = d.data
    BY Zenon DEF HistoryOK, WasSent
  <2> QED
    BY <2>1, Zenon DEF LengthsOK
<1>3. ~(Head48 + d.data > BufLen) /\ ~(d.data + 8 > U16Max)
  BY <1>1, <1>2, LimitsNat DEF SizesFit, Head48
<1>4. Writes(d)
  BY <1>3, Zenon DEF UdpRecv, Relays
<1> DEFINE q == [proto |-> "udp", src |-> ToNet(d.from), dst |-> d.peer, data |-> d.data]
<1>5. About(q) = Sends(d)
  BY <1>1, RelayedFacts, Zenon DEF About, Sends
<1>6. q \in tunOut' \/ Sends(d) \in lost'
  BY <1>4, Zenon DEF Writes, Loses
<1> HIDE DEF q
<1> QED
  BY <1>5, <1>6, Zenon DEF Underway, Settled

\* A packet that the TUN loop takes is delivered, or a failed call loses it.
LEMMA DataAccounts ==
  ASSUME SizesFit, TypeOK, LengthsOK,
         NEW p \in tunIn, p.proto # "icmp", TunRecv(p), About(p) \in Internal
  PROVE  Settled(About(p))'
<1>1. p.data \in Nat /\ Head48 + p.data <= Mtu
  BY QueueTypes, LensNat, Zenon DEF LengthsOK
<1>2. Head48 + p.data <= BufLen
  BY <1>1, LimitsNat DEF SizesFit, Head48
<1>3. ~(Head48 + p.data > BufLen)
  BY <1>1, <1>2, LimitsNat DEF Head48
<1>4. ~(Head48 + p.data + padding(p.data + 8) > BufLen)
  BY <1>1, <1>2, PaddingFits, Zenon DEF SizesFit
<1>5. padding(p.data + 8) \in Nat
  BY <1>1 DEF padding
<1>6. ~(20 + padding(p.data + 8) + (p.data + 8) > U16Max)
  BY <1>1, <1>4, <1>5, LimitsNat DEF SizesFit, Head48
<1>7. ~(20 + (20 + padding(p.data + 8) + (p.data + 8)) > MaxDatagram)
  <2>1. Mtu \in Nat /\ MaxDatagram \in Nat /\ Mtu + padding(Mtu) <= MaxDatagram
    BY LimitsNat, Zenon DEF SizesFit
  <2> QED
    BY <1>1, <2>1 DEF padding, Head48
<1>8. \/ got' = Received("data", ToUdp(p.dst), p.src, p.data)
      \/ Loses(About(p))
  BY <1>3, <1>4, <1>6, <1>7, Zenon DEF TunRecv, DataIndication
<1>9. CASE Loses(About(p))
  BY <1>9, Zenon DEF Loses, Settled
<1>10. CASE got' = Received("data", ToUdp(p.dst), p.src, p.data)
  <2>1. About(p).src = p.src /\ About(p).dst = p.dst /\ About(p).data = p.data
    BY DEF About
  <2>2. PICK e \in Clients : p.dst = Relayed[e] /\ ToUdp(p.dst) = e
    BY <2>1, InternalAddresses, Zenon
  <2>3. [kind |-> "data", to |-> e, peer |-> p.src, data |-> p.data] \in got'
    BY <1>10, <2>2, Zenon DEF Received
  <2> QED
    BY <2>1, <2>2, <2>3, Zenon DEF Settled, Delivered
<1> QED
  BY <1>8, <1>9, <1>10, Zenon

\* A report that the TUN loop takes is sent to the datagram's sender, or a failed
\* call loses it.
LEMMA IcmpAccounts ==
  ASSUME TypeOK, LengthsOK, NEW p \in tunIn, p.proto = "icmp", TunRecv(p), About(p) \in Internal
  PROVE  Settled(About(p))'
<1>1. About(p).dst = p.dst
  BY DEF About
<1>2. p.typ = 2 /\ p.to = p.src
  BY <1>1, InternalAddresses, Zenon DEF LengthsOK
<1>3. p.typ \in 1..3
  BY <1>2
<1>4. Reports(p) \/ Loses(About(p))
  BY <1>2, <1>3, Zenon DEF TunRecv, IcmpIndication
<1> QED
  BY <1>4, Zenon DEF Reports, Loses, Settled

\* What enters a queue is under way, unless the queue is full.
LEMMA ToServerAccounts ==
  ASSUME NEW p, ToServer(p), About(p) \in Internal
  PROVE  Underway(About(p))' \/ Settled(About(p))'
<1>1. p \in tunIn' \/ About(p) \in lost'
  BY Zenon DEF ToServer, Enqueued
<1> QED
  BY <1>1, Zenon DEF Underway, Settled

\* The same, at the socket.
LEMMA AtSocketAccounts ==
  ASSUME NEW d, d.kind = "send", AtSocket(d), Sends(d) \in Internal
  PROVE  Underway(Sends(d))' \/ Settled(Sends(d))'
<1>1. d \in udpIn' \/ Sends(d) \in lost'
  BY Zenon DEF AtSocket, Enqueued
<1> QED
  BY <1>1, Zenon DEF Underway, Settled

\* One step keeps what is accounted for, and accounts for what is sent in it.
LEMMA AccountedStep ==
  ASSUME SizesFit, TypeOK, HistoryOK, LengthsOK, Accounted, [Next]_vars
  PROVE  Accounted'
<1>1. SUFFICES ASSUME NEW s \in sent', s \in Internal
               PROVE  Underway(s)' \/ Settled(s)'
  BY Zenon DEF Accounted, Settled
<1>2. \A t : Settled(t) => Settled(t)'
  BY HistoriesGrow, SettledKept, Zenon
<1>3. s \in sent => Underway(s) \/ Settled(s)
  BY <1>1, Zenon DEF Accounted, Settled
<1>4. CASE Poll \/ UdpEmpty \/ TunEmpty \/ UNCHANGED vars
  BY <1>2, <1>3, <1>4, Zenon DEF Poll, UdpEmpty, TunEmpty, vars, history, Underway
<1>5. ASSUME NEW d \in udpIn, UdpRecv(d) PROVE Underway(s)' \/ Settled(s)'
  <2>1. sent' = sent /\ udpIn' = udpIn \ {d} /\ tunIn' = tunIn /\ tunOut \subseteq tunOut'
    BY <1>5, Zenon DEF UdpRecv, Relays, Writes, Loses, Responds
  <2>2. CASE d.kind = "send" /\ Sends(d) = s
    BY <1>1, <1>5, <2>2, RelaysAccounts, Zenon
  <2>3. CASE ~(d.kind = "send" /\ Sends(d) = s)
    BY <1>2, <1>3, <2>1, <2>3, Zenon DEF Underway
  <2> QED
    BY <2>2, <2>3, Zenon
<1>6. ASSUME NEW p \in tunIn, TunRecv(p) PROVE Underway(s)' \/ Settled(s)'
  <2>1. sent' = sent /\ udpIn' = udpIn /\ tunIn' = tunIn \ {p} /\ tunOut' = tunOut
    BY <1>6, IndicationType, Zenon DEF TunRecv
  <2>2. CASE About(p) = s
    BY <1>1, <1>6, <2>2, DataAccounts, IcmpAccounts, Zenon
  <2>3. CASE About(p) # s
    BY <1>2, <1>3, <2>1, <2>3, Zenon DEF Underway
  <2> QED
    BY <2>2, <2>3, Zenon
<1>7. ASSUME NEW p \in tunOut, NEW q, ToServer(q), About(q) = About(p),
             sent' = sent, udpIn' = udpIn, tunOut' = tunOut \ {p}
      PROVE  Underway(s)' \/ Settled(s)'
  <2>1. tunIn \subseteq tunIn'
    BY <1>7, Zenon DEF ToServer, Enqueued
  <2>2. CASE About(p) = s
    BY <1>1, <1>7, <2>2, ToServerAccounts, Zenon
  <2>3. CASE About(p) # s
    BY <1>2, <1>3, <1>7, <2>1, <2>3, Zenon DEF Underway
  <2> QED
    BY <2>2, <2>3, Zenon
<1>8. ASSUME NEW p \in tunOut, NEW typ, NEW to PROVE About(Icmp(typ, to, p)) = About(p)
  BY DEF About, Icmp
<1>9. ASSUME NEW p \in tunOut, Route(p) PROVE Underway(s)' \/ Settled(s)'
  <2>1. PICK q : ToServer(q) /\ About(q) = About(p)
    BY <1>8, <1>9, Zenon DEF Route
  <2> QED
    BY <1>7, <1>9, <2>1, Zenon DEF Route
<1>10. ASSUME NEW p \in tunOut, NEW typ, NEW to, Unreachable(p, typ, to) PROVE Underway(s)' \/ Settled(s)'
  BY <1>7, <1>8, <1>10, Zenon DEF Unreachable
<1>11. ASSUME NEW p \in tunOut, Leave(p) PROVE Underway(s)' \/ Settled(s)'
  <2>1. sent' = sent /\ udpIn' = udpIn /\ tunIn' = tunIn /\ tunOut' = tunOut \ {p} /\ ~InTun(p.dst)
    BY <1>11, Zenon DEF Leave, history
  <2>2. About(p) # s
    <3>1. About(p).dst = p.dst
      BY DEF About
    <3> QED
      BY <1>1, <2>1, <3>1, InternalAddresses, Zenon
  <2> QED
    BY <1>2, <1>3, <2>1, <2>2, Zenon DEF Underway
<1>12. ASSUME NEW d, AtSocket(d), tunIn' = tunIn, tunOut' = tunOut,
              s \in sent \/ (d.kind = "send" /\ Sends(d) = s)
       PROVE  Underway(s)' \/ Settled(s)'
  <2>1. udpIn \subseteq udpIn'
    BY <1>12, Zenon DEF AtSocket, Enqueued
  <2> QED
    BY <1>1, <1>2, <1>3, <1>12, <2>1, AtSocketAccounts, Zenon DEF Underway
<1>13. ASSUME NEW d \in ClientSends, ClientSend(d) PROVE Underway(s)' \/ Settled(s)'
  <2>1. d.kind = "send"
    BY DEF ClientSends, SendIndication
  <2> QED
    BY <1>1, <1>12, <1>13, <2>1, Zenon DEF ClientSend, Sent
<1>14. ASSUME NEW d, ClientNoise(d) PROVE Underway(s)' \/ Settled(s)'
  BY <1>1, <1>12, <1>14, Zenon DEF ClientNoise
<1>15. ASSUME NEW p \in HostSends, HostSend(p) PROVE Underway(s)' \/ Settled(s)'
  <2>1. tunIn \subseteq tunIn' /\ udpIn' = udpIn /\ tunOut' = tunOut /\ sent' = sent \cup {About(p)} /\ ToServer(p)
    BY <1>15, Zenon DEF HostSend, ToServer, Enqueued, Sent
  <2>2. CASE About(p) = s
    BY <1>1, <2>1, <2>2, ToServerAccounts, Zenon
  <2>3. CASE About(p) # s
    BY <1>1, <1>2, <1>3, <2>1, <2>3, Zenon DEF Underway
  <2> QED
    BY <2>2, <2>3, Zenon
<1> QED
  BY <1>4, <1>5, <1>6, <1>9, <1>10, <1>11, <1>13, <1>14, <1>15, Zenon
     DEF Next, ServerStep, Kernel, Network

\* Between its clients the server itself loses nothing, if the sizes fit: what
\* one sends to the other is under way, delivered, reported as too big, or a copy
\* of it met a call that failed or a full queue.
THEOREM AccountedHolds == SizesFit => (Spec => []Accounted)
<1> SUFFICES ASSUME SizesFit PROVE Spec => []Accounted
  BY Zenon
<1>1. Init => LengthsOK /\ Accounted
  BY Zenon DEF Init, LengthsOK, Accounted
<1>2. TypeOK /\ HistoryOK /\ LengthsOK /\ Accounted /\ [Next]_vars => LengthsOK' /\ Accounted'
  BY LengthsStep, AccountedStep, Zenon
<1> QED
  BY <1>1, <1>2, TypeInvariant, HistoryInvariant, PTL DEF Spec
=============================================================================
