------------------------------ MODULE TurnUdp ------------------------------
(***************************************************************************)
(* The UDP server (bin/turnserver-udp.rs): the mapping between the         *)
(* addresses of clients and their relayed addresses, the event loop, the   *)
(* part of handle_turn that relays a Send indication and handle_net        *)
(* (common/mod.rs), with the sizes of the buffers and of the length fields *)
(* they write; and, around it, the kernel, which routes what the server    *)
(* writes to its TUN interface, and the network.                           *)
(*                                                                         *)
(* IPv6 addresses are numbers, ports are left out (they are copied), and   *)
(* datagrams are told apart by the length of their data.                   *)
(***************************************************************************)
EXTENDS Integers, FiniteSets, Sequences

CONSTANTS
  Mappings,     \* the parsed mappings: [udp, tun, size], first addresses of the two subnets
  Clients,      \* addresses that clients send from
  Hosts,        \* other addresses: peers in the network
  Lens,         \* lengths of relayed data
  U16Max,       \* largest value of a length field
  BufLen,       \* length of the buffer
  MaxDatagram,  \* largest datagram a UDP socket sends
  Mtu,          \* largest packet the TUN interface carries
  QueueMax,     \* bound on what waits at the socket and at the interface
  SentMax,      \* bound on the number of different datagrams that are sent
  CopiesMax     \* bound on the number of requests and duplicates

VARIABLES
  server,  \* "running", or "panicked"
  ready,   \* tokens with an edge that poll has not reported yet
  events,  \* tokens of the current batch, the one being handled first
  udpIn,   \* datagrams that wait at the UDP socket
  tunIn,   \* packets that wait at the TUN interface
  tunOut,  \* packets that the server wrote to the TUN interface
  copies,  \* requests and duplicates so far
  sent,    \* history: datagrams that were sent
  got,     \* history: messages that clients received
  told,    \* history: datagrams between clients that were reported to their sender
  lost     \* history: those of which a call that failed, or a full queue, lost a copy

history == <<copies, sent, got, told, lost>>
vars == <<server, ready, events, udpIn, tunIn, tunOut, history>>

-----------------------------------------------------------------------------
(* Mappings *)

\* Ipv6Net::contains, hostmask and network of the subnet of the given size
\* that begins at first.
contains(first, size, a) == first <= a /\ a < first + size

\* Mapping::to_net, if the mapping applies.
to_net(m, a) == m.tun + (a - m.udp)

\* Mapping::to_udp, if the mapping applies.
to_udp(m, a) == m.udp + (a - m.tun)

\* The mappings whose turn it is: the loops over the mappings end at the first
\* that applies.
FirstUdp(a) ==
  {i \in 1..Len(Mappings) : /\ contains(Mappings[i].udp, Mappings[i].size, a)
                            /\ \A j \in 1..(i - 1) : ~contains(Mappings[j].udp, Mappings[j].size, a)}

FirstTun(a) ==
  {i \in 1..Len(Mappings) : /\ contains(Mappings[i].tun, Mappings[i].size, a)
                            /\ \A j \in 1..(i - 1) : ~contains(Mappings[j].tun, Mappings[j].size, a)}

\* An address without a mapping stays what it is.
ToNet(a) == IF FirstUdp(a) = {} THEN a ELSE to_net(Mappings[CHOOSE i \in FirstUdp(a) : TRUE], a)

ToUdp(a) == IF FirstTun(a) = {} THEN a ELSE to_udp(Mappings[CHOOSE i \in FirstTun(a) : TRUE], a)

InTun(a) == FirstTun(a) # {}

\* The relayed address of each client.
Relayed == [c \in Clients |-> ToNet(c)]

\* Two subnets of the given sizes have no address in common.
Apart(first, size, other, otherSize) == first + size <= other \/ other + otherSize <= first

\* A configuration in which no address is in two udp subnets or in two tun
\* subnets, and no client sends from an address without a mapping.
ASSUME UdpAssumption ==
  /\ Mappings \in Seq([udp : Nat, tun : Nat, size : Nat])
  /\ \A i, j \in 1..Len(Mappings) :
       \/ i = j
       \/ /\ Apart(Mappings[i].udp, Mappings[i].size, Mappings[j].udp, Mappings[j].size)
          /\ Apart(Mappings[i].tun, Mappings[i].size, Mappings[j].tun, Mappings[j].size)
  /\ Clients \subseteq Nat /\ Hosts \subseteq Nat /\ Lens \subseteq Nat
  /\ \A c \in Clients : \E i \in 1..Len(Mappings) : contains(Mappings[i].udp, Mappings[i].size, c)
  /\ U16Max \in Nat /\ BufLen \in Nat /\ MaxDatagram \in Nat /\ Mtu \in Nat
  /\ QueueMax \in Nat /\ SentMax \in Nat /\ CopiesMax \in Nat

-----------------------------------------------------------------------------
(* Messages *)

Addresses == Hosts \cup {Relayed[c] : c \in Clients}

\* What clients send to the server: a Send indication for a peer, a request
\* that is answered with success, or something that is not answered.
SendIndication == [kind : {"send"}, from : Clients, peer : Addresses, data : Lens]

OtherMessage == [kind : {"request"}, from : Clients] \cup [kind : {"ignored"}]

\* UDP packets, with the length of their data.
UdpPacket == [proto : {"udp"}, src : Addresses, dst : Addresses, data : Lens]

\* ICMPv6 messages about a UDP packet from src to dst, which they quote.
IcmpPacket ==
  [proto : {"icmp"}, typ : 1..4, to : Addresses, src : Addresses, dst : Addresses, data : Lens]

Datagram == [src : Addresses, dst : Addresses, data : Lens]

\* Datagrams between two clients of the server.
Internal ==
  [src : {Relayed[c] : c \in Clients}, dst : {Relayed[c] : c \in Clients}, data : Lens]

\* The datagram that a message to the server, or a packet, is about.
Sends(d) == [src |-> Relayed[d.from], dst |-> d.peer, data |-> d.data]

About(p) == [src |-> p.src, dst |-> p.dst, data |-> p.data]

\* Bytes in front of the data: IPv6 and UDP headers, or the headers of a STUN
\* message, of its XOR_PEER_ADDRESS attribute with an IPv6 address and of DATA.
Head48 == 48

padding(n) == (4 - (n % 4)) % 4

\* Queues have room for QueueMax.
Fits(queue, p) == p \in queue \/ Cardinality(queue) < QueueMax

Enqueued(queue, p) == IF Fits(queue, p) THEN queue \cup {p} ELSE queue

-----------------------------------------------------------------------------
(* The server *)

\* poll returns with the tokens of all edges, in some order.
Poll ==
  /\ server = "running" /\ events = <<>> /\ ready # {}
  /\ events' \in {e \in {<<"UDP">>, <<"TUN">>, <<"UDP", "TUN">>, <<"TUN", "UDP">>} :
                   {e[i] : i \in 1..Len(e)} = ready}
  /\ ready' = {}
  /\ UNCHANGED <<server, udpIn, tunIn, tunOut, history>>

Handling(token) == server = "running" /\ events # <<>> /\ Head(events) = token

\* The client, if there is one at that address, receives a message.
Received(kind, to, peer, n) ==
  IF to \in Clients
  THEN got \cup {[kind |-> kind, to |-> to, peer |-> peer, data |-> n]}
  ELSE got

\* The datagram s is lost for an error that is ignored.
Loses(s) == lost' = lost \cup ({s} \cap Internal) /\ UNCHANGED <<server, tunOut, got, told>>

\* network.send writes the packet to the interface, or fails.
Writes(d) ==
  \/ /\ tunOut' = tunOut \cup {[proto |-> "udp", src |-> ToNet(d.from), dst |-> d.peer, data |-> d.data]}
     /\ UNCHANGED <<server, got, told, lost>>
  \/ Loses(Sends(d))

\* Mutant of Relays: the UDP length counts the IPv6 header too.
Relays_WholeLength(d) ==
  IF Head48 + d.data > BufLen THEN UNCHANGED <<server, tunOut, got, told, lost>>
  ELSE IF d.data + Head48 > U16Max
  THEN server' = "panicked" /\ UNCHANGED <<tunOut, got, told, lost>>
  ELSE Writes(d)

\* handle_turn for a Send indication: None if the data does not fit behind the
\* headers, and the UDP length is computed with an overflow check.
Relays(d) ==
  IF Head48 + d.data > BufLen THEN UNCHANGED <<server, tunOut, got, told, lost>>
  ELSE IF d.data + 8 > U16Max
  THEN server' = "panicked" /\ UNCHANGED <<tunOut, got, told, lost>>
  ELSE Writes(d)

\* Mutant of Responds: the client is told the address it sent from.
Responds_Unmapped(d) ==
  /\ got' = Received("allocated", d.from, d.from, 0)
  /\ UNCHANGED <<server, tunOut, told, lost>>

\* handle_turn for a request: the response tells the relayed address, and goes
\* to the address the request came from, unless send_to fails.
Responds(d) ==
  /\ got' \in {got, Received("allocated", d.from, ToNet(d.from), 0)}
  /\ UNCHANGED <<server, tunOut, told, lost>>

\* Mutant of UdpRecv: one datagram for each event.
UdpRecv_Once(d) ==
  /\ Handling("UDP") /\ d \in udpIn
  /\ udpIn' = udpIn \ {d}
  /\ IF d.kind = "send" THEN Relays(d)
     ELSE IF d.kind = "request" THEN Responds(d)
     ELSE UNCHANGED <<server, tunOut, got, told, lost>>
  /\ events' = Tail(events)
  /\ UNCHANGED <<ready, tunIn, copies, sent>>

\* The loop of UDP: recv_from, decode, the mapping of the sender, handle_turn
\* and the response.
UdpRecv(d) ==
  /\ Handling("UDP") /\ d \in udpIn
  /\ udpIn' = udpIn \ {d}
  /\ IF d.kind = "send" THEN Relays(d)
     ELSE IF d.kind = "request" THEN Responds(d)
     ELSE UNCHANGED <<server, tunOut, got, told, lost>>
  /\ UNCHANGED <<ready, events, tunIn, copies, sent>>

\* recv_from would block: the loop ends.
UdpEmpty ==
  /\ Handling("UDP") /\ udpIn = {}
  /\ events' = Tail(events)
  /\ UNCHANGED <<server, ready, udpIn, tunIn, tunOut, history>>

\* Mutant of DataIndication: the padding is written behind as many bytes as the
\* UDP packet has, its header counted twice.
DataIndication_PastData(p) ==
  LET udp_length == p.data + 8
      pad == padding(udp_length)
  IN  IF Head48 + udp_length + pad > BufLen
      THEN server' = "panicked" /\ UNCHANGED <<tunOut, got, told, lost>>
      ELSE /\ got' = Received("data", ToUdp(p.dst), p.src, p.data)
           /\ UNCHANGED <<server, tunOut, told, lost>>

\* Mutant of DataIndication: the peer is the receiver instead of the sender.
DataIndication_Receiver(p) ==
  /\ got' = Received("data", ToUdp(p.dst), p.dst, p.data)
  /\ UNCHANGED <<server, tunOut, told, lost>>

\* handle_net for a UDP packet: the packet becomes a Data indication in place,
\* and the bytes of the padding behind the data are zeroed.  send_to refuses a
\* message that is too long, and may fail for other reasons.
DataIndication(p) ==
  LET udp_length == p.data + 8
      pad == padding(udp_length)
      stun_length == 20 + pad + udp_length
  IN  IF stun_length > U16Max
      THEN UNCHANGED <<server, tunOut, got, told, lost>>
      ELSE IF Head48 + p.data + pad > BufLen
      THEN server' = "panicked" /\ UNCHANGED <<tunOut, got, told, lost>>
      ELSE IF 20 + stun_length > MaxDatagram
      THEN UNCHANGED <<server, tunOut, got, told, lost>>
      ELSE \/ /\ got' = Received("data", ToUdp(p.dst), p.src, p.data)
              /\ UNCHANGED <<server, tunOut, told, lost>>
           \/ Loses(About(p))

\* The sender of the packet that p is about is told about it.
Reports(p) ==
  /\ got' = Received("icmp", ToUdp(p.src), p.dst, 0)
  /\ told' = told \cup ({About(p)} \cap Internal)
  /\ UNCHANGED <<server, tunOut, lost>>

\* Mutant of IcmpIndication: packet too big is not relayed.
IcmpIndication_NotTooBig(p) ==
  IF p.typ \in {1, 3} /\ p.to = p.src
  THEN Reports(p) \/ Loses(About(p))
  ELSE UNCHANGED <<server, tunOut, got, told, lost>>

\* handle_net for an ICMPv6 message: the sender of the packet it is about gets
\* an indication, for three types, and if the message was addressed to it; unless
\* send_to fails.
IcmpIndication(p) ==
  IF p.typ \in 1..3 /\ p.to = p.src
  THEN Reports(p) \/ Loses(About(p))
  ELSE UNCHANGED <<server, tunOut, got, told, lost>>

\* The loop of TUN: recv, handle_net, the mapping of the receiver and send_to.
\* A packet that is longer than the buffer is cut, and then its length field
\* is not what recv returned.
TunRecv(p) ==
  /\ Handling("TUN") /\ p \in tunIn
  /\ tunIn' = tunIn \ {p}
  /\ IF p.proto = "icmp" THEN IcmpIndication(p)
     ELSE IF Head48 + p.data > BufLen THEN UNCHANGED <<server, tunOut, got, told, lost>>
     ELSE DataIndication(p)
  /\ UNCHANGED <<ready, events, udpIn, copies, sent>>

\* Mutant of TunEmpty: the loop goes on when recv fails.
TunEmpty_Retries == Handling("TUN") /\ tunIn = {} /\ UNCHANGED vars

\* recv would block: the loop ends.
TunEmpty ==
  /\ Handling("TUN") /\ tunIn = {}
  /\ events' = Tail(events)
  /\ UNCHANGED <<server, ready, udpIn, tunIn, tunOut, history>>

-----------------------------------------------------------------------------
(* The kernel and the network *)

\* A packet is queued at the interface, if there is room; each is an edge.
ToServer(p) ==
  /\ tunIn' = Enqueued(tunIn, p) /\ ready' = ready \cup {"TUN"}
  /\ lost' = IF Fits(tunIn, p) THEN lost ELSE lost \cup ({About(p)} \cap Internal)

Icmp(typ, to, p) ==
  [proto |-> "icmp", typ |-> typ, to |-> to, src |-> p.src, dst |-> p.dst, data |-> p.data]

\* The kernel routes a packet back to the interface, if its destination is in
\* a tun subnet, or reports it if the interface cannot carry it.
Route(p) ==
  /\ p \in tunOut /\ InTun(p.dst)
  /\ tunOut' = tunOut \ {p}
  /\ ToServer(IF Head48 + p.data <= Mtu THEN p ELSE Icmp(2, p.src, p))
  /\ UNCHANGED <<server, events, udpIn, copies, sent, got, told>>

\* A packet leaves for a host.
Leave(p) ==
  /\ p \in tunOut /\ ~InTun(p.dst)
  /\ tunOut' = tunOut \ {p}
  /\ UNCHANGED <<server, ready, events, udpIn, tunIn, history>>

\* It cannot be delivered, and some node says so, perhaps to another address.
Unreachable(p, typ, to) ==
  /\ p \in tunOut /\ ~InTun(p.dst) /\ InTun(to)
  /\ tunOut' = tunOut \ {p}
  /\ ToServer(Icmp(typ, to, p))
  /\ UNCHANGED <<server, events, udpIn, copies, sent, got, told>>

Sent(s) == s \notin sent /\ Cardinality(sent) < SentMax /\ sent' = sent \cup {s}

\* A datagram is queued at the socket, if there is room.
AtSocket(d) ==
  /\ udpIn' = Enqueued(udpIn, d) /\ ready' = ready \cup {"UDP"}
  /\ lost' = IF d.kind # "send" \/ Fits(udpIn, d) THEN lost ELSE lost \cup ({Sends(d)} \cap Internal)

\* Send indications that are as long as a client's socket allows.
ClientSends == {d \in SendIndication : Head48 + d.data + padding(d.data) <= MaxDatagram}

\* A client sends a Send indication.
ClientSend(d) ==
  /\ d \in ClientSends
  /\ Sent(Sends(d)) /\ AtSocket(d)
  /\ UNCHANGED <<server, events, tunIn, tunOut, copies, got, told>>

\* A client sends something else, or the network duplicates what it sent.  There
\* is no end to what is not answered.
ClientNoise(d) ==
  /\ d.kind = "send" => Sends(d) \in sent
  /\ IF d.kind = "ignored" THEN UNCHANGED copies ELSE copies < CopiesMax /\ copies' = copies + 1
  /\ AtSocket(d)
  /\ UNCHANGED <<server, events, tunIn, tunOut, sent, got, told>>

\* Packets from a host that the interface carries.
HostSends == {p \in UdpPacket : p.src \in Hosts /\ InTun(p.dst) /\ Head48 + p.data <= Mtu}

\* A host sends to a relayed address.
HostSend(p) ==
  /\ p \in HostSends
  /\ Sent(About(p)) /\ ToServer(p)
  /\ UNCHANGED <<server, events, udpIn, tunOut, copies, got, told>>

-----------------------------------------------------------------------------
Init ==
  /\ server = "running" /\ ready = {} /\ events = <<>>
  /\ udpIn = {} /\ tunIn = {} /\ tunOut = {} /\ copies = 0
  /\ sent = {} /\ got = {} /\ told = {} /\ lost = {}

ServerStep ==
  \/ Poll \/ UdpEmpty \/ TunEmpty
  \/ \E d \in udpIn : UdpRecv(d)
  \/ \E p \in tunIn : TunRecv(p)

Kernel == \E p \in tunOut : Route(p) \/ Leave(p)

Network ==
  \/ \E p \in tunOut : \/ \E to \in Addresses : Unreachable(p, 1, to)
                       \/ Unreachable(p, 4, p.src)
  \/ \E d \in ClientSends : ClientSend(d)
  \/ \E d \in SendIndication \cup OtherMessage : ClientNoise(d)
  \/ \E p \in HostSends : HostSend(p)

Next == ServerStep \/ Kernel \/ Network

Spec == Init /\ [][Next]_vars

\* The server's thread and the kernel run.
FairSpec == Spec /\ WF_vars(ServerStep) /\ WF_vars(Kernel)

-----------------------------------------------------------------------------
(* Properties *)

\* The variables have the types their declarations describe.
TypeOK ==
  /\ server \in {"running", "panicked"}
  /\ ready \subseteq {"UDP", "TUN"}
  /\ events \in Seq({"UDP", "TUN"})
  /\ udpIn \subseteq SendIndication \cup OtherMessage
  /\ tunIn \subseteq UdpPacket \cup IcmpPacket
  /\ tunOut \subseteq UdpPacket
  /\ copies \in 0..CopiesMax
  /\ sent \subseteq Datagram /\ told \subseteq Internal /\ lost \subseteq Internal
  /\ got \subseteq [kind : {"allocated", "data", "icmp"}, to : Clients, peer : Addresses, data : Nat]

\* Whatever the length of what is relayed, in either direction, the arithmetic
\* on the length fields does not overflow and no slice of the buffer is out of
\* range.
NeverPanics == server = "running"

\* The tokens that are still to be handled, in this batch or the next.
Pending == ready \cup {events[i] : i \in 1..Len(events)}

\* The poll is edge-triggered: while something waits at the socket or at the
\* interface, its token is still to be handled.
NoLostWakeup ==
  server = "running" =>
    /\ udpIn # {} => "UDP" \in Pending
    /\ tunIn # {} => "TUN" \in Pending

Promise ==
  INSTANCE Relay WITH Clients <- Clients, Hosts <- Hosts, Lens <- Lens, Relayed <- Relayed,
                      sent <- sent, got <- got

\* The server is a relay: what a client receives is its own relayed address, a
\* datagram that was sent to that address, with its sender, or a report about
\* one that it sent.
RefinesRelay == Promise!Spec

\* A datagram was delivered to the client it was sent to.
Delivered(s) ==
  \E e \in Clients :
    s.dst = Relayed[e] /\ [kind |-> "data", to |-> e, peer |-> s.src, data |-> s.data] \in got

\* A datagram, or a report about it, is still to be handled by somebody.
Underway(s) ==
  \/ \E d \in udpIn : d.kind = "send" /\ Sends(d) = s
  \/ \E p \in tunOut \cup tunIn : About(p) = s

\* The server itself loses nothing between its clients, whatever the length: a
\* datagram is under way, was delivered, was reported to its sender, or a copy
\* of it met a call that failed or a full queue.
Accounted == \A s \in sent \cap Internal : Underway(s) \/ Delivered(s) \/ s \in told \/ s \in lost

\* Every datagram between clients is delivered, reported to its sender, or lost
\* to a call that failed or a full queue, if the loop of UDP ends again and again:
\* what arrives at the socket could keep the thread in it for ever.
SendSettled ==
  []<>~Handling("UDP") => []<>(\A s \in sent \cap Internal : Delivered(s) \/ s \in told \/ s \in lost)
=============================================================================
