# A TLA+ model of masquerade

masquerade relays UDP for WebRTC peers. It consists of a few single-threaded
Linux programs around a TUN interface each: two TURN servers (over UDP and over
TCP), a DTLS proxy, an ICE responder and an SCTP-to-Ethernet bridge, and a small
STUN library they share. This directory holds TLA+ modules that model all five
programs and the library, TLC configurations that check them on small instances,
and TLAPS proofs of the safety properties for all values of the constants.

Paths below are relative to `src/src/` of the repository.

## 1. The system

| part | code | state | operations |
|---|---|---|---|
| TCP server | `bin/turnserver-tcp.rs` | a slab of connections, each with its relayed address and the unfinished rest of a frame; the batch of events being handled | accept, relay from TUN to a stream, continue a frame, peek and read a message, answer it, clean up |
| UDP server | `bin/turnserver-udp.rs` | none but the table of mappings | take a datagram, take a packet |
| TURN handlers | `common/mod.rs` | none; they rewrite a message in its buffer | `handle_turn`, `handle_net`, checksum, authentication |
| STUN messages | `stun/stun.rs`, `stun/mod.rs`, `stun/attr/attrs.rs` | the message in its buffer, the offset of the iterator | decode, class and method, append, iterate |
| STUN parsing | `stun/attr.rs`, `stun/attr/parse.rs`, `stun/attr/integrity.rs` | which parsers still wait for their attribute, unknown attributes | the chain of `AttrParser`s, `collect_unknown`, `Integrity::verify` |
| STUN values | `stun/attr/values.rs`, `stun/rfc*.rs`, `stun/util.rs`, `stun/error.rs` | none | encode and decode single values |
| DTLS proxy | `bin/dtls-proxy.rs` | a table of streams (OpenSSL session, SRTP sessions, `send_to`, time of last write), the threshold of the next cleanup | one iteration per packet: open, handshake, media, write, peek and read, roam, clean up |
| SCTP bridge | `bin/snow-fell.rs`, `sctp/linux.rs` | the OUI drawn at start; associations and their queue, in the kernel's socket | open a data channel for a new association, frames in both directions, text |
| ICE responder | `bin/ice-dissolve.rs` | none but the buffer, which is never cleared | answer connectivity checks, send the rest back |
| packet layouts | `wire/mod.rs` | none | headers, checksum |

**Interaction.** Both servers read STUN messages, pass them to `handle_turn` and
send its response, or a UDP packet, on; both read packets off their TUN
interface, pass them to `handle_net` and send the resulting indication to a
client. The kernel routes between TUN interfaces, so one server's client may be
another's peer, and one program's output another's input. The DTLS proxy and the
ICE responder only meet packets; the bridge tunnels Ethernet frames between a TAP
interface and the associations of one SCTP socket. There is no shared memory and no locking: concurrency is between
a program's thread and the kernel, the network, its clients and the service
manager (`Restart=always`).

**What is hard.**
 * All loops are edge-triggered: whatever is left behind when a loop stops is
   not reported again.
 * Non-blocking writes are partial; the rest of a frame is state that the next
   event, packet or message has to respect.
 * Slab keys are reused, while events that were reported for an earlier owner
   are still in the batch.
 * Addresses are computed from keys and back with shifts, masks and `or`; tables
   of subnets are searched in order, and overlap.
 * A message is rewritten in place, with u16 lengths near the ends of the field
   and of the buffer, under overflow checks.
 * What an integrity value covers depends on the order of attributes and on the
   order in which parsers are chained.
 * The proxy follows roaming clients while packets are lost, late or foreign, its
   timer overwrites the packet it was about to read, and early `continue`s skip its
   cleanup.
 * The bridge keeps no table: it routes by what fits of an association's id into a
   MAC address, under an OUI that changes with each start of the process.
 * The responder inspects a buffer in which a short packet leaves old bytes, and
   rewrites it in place.

`PROJECT.json` lists these hazards one by one at their lines.

## 2. Modules

| module | models | used by |
|---|---|---|
| `TurnTcpMapping` | `Mapping` of the TCP server: slab key to address and back | `TurnTcp` |
| `Leases` | abstract: what the TCP server promises about relayed addresses | `TurnTcp` |
| `TurnTcp` | the TCP server, its sockets, epoll, clients | `MCTurnTcp`, `TurnTcpProofs` |
| `Relay` | abstract: what a TURN server promises | `TurnUdp` |
| `TurnUdp` | the UDP server with `handle_net` and the relaying part of `handle_turn`, the kernel's routing, the network | `MCTurnUdp`, `TurnUdpProofs` |
| `StunType` | class and method in the type field | `TurnHandlers`, `IceResponder`, `IceDissolve` |
| `AttrChain` | what one attribute does to a chain of parsers | `TurnHandlers`, `IceResponder`, `IceDissolve` |
| `StunValues` | values of attributes as bytes: addresses, numbers, error codes, lists of types, the values of TURN | `IceDissolve`, `StunProofs` |
| `Checksum` | `ip_checksum`, `udp_checksum_fill` | `IceDissolve` |
| `TurnHandlers` | the parser chain of `handle_turn`, and its match with its answers | `MCTurnHandlers`, `TurnHandlersProofs` |
| `StunAttrs` | `decode`, `append` and the attribute iterator | `MCStunAttrs`, `StunAttrsProofs` |
| `DtlsProxy` | the proxy's loop, its clients and the network | `MCDtlsProxy`, `DtlsProxyProofs` |
| `IceResponder` | abstract: what the ICE responder promises | `IceDissolve` |
| `IceDissolve` | the ICE responder's loop and its buffer | `MCIceDissolve`, `IceDissolveProofs` |
| `SnowFell` | the bridge's loop, the kernel's associations, peers and hosts | `MCSnowFell`, `SnowFellProofs` |
| `StunProofs` | theorems and lemmas on `StunType`, `StunValues`, `AttrChain` and `Checksum` | `TurnHandlersProofs`, `IceDissolveProofs` |

The `MC*` modules give values to constants that a configuration cannot express.
Definitions named `X_Y` next to a definition `X` are mutants: changed versions,
each of which a property of some run tells from the original. Nothing uses them
otherwise.

### TurnTcp

The server's steps are its system calls, and clients act between any two of
them. `pc` says which loop of `main` the thread is in; `cur` holds its locals
(key, `is_readable()`, rest of the response); `events` is the batch; `streams`
and `slabLen` are the slab; `sock` is the other side of each connection (socket
buffers, whether the client hung up, the client's framer); `edge` is what epoll
will report. A frame is `FrameLen` chunks, the send buffer `SndBuf` of them.

| action | code |
|---|---|
| `Poll`, `PollFails` | `poll.poll(..)?` |
| `DispatchListener`, `DispatchTun`, `DispatchStream` | the match on the token, the lookup in the slab and the read-closed test |
| `Accept`, `AcceptFails`, `SetupFails` | `TCP => loop` |
| `TunRecv`, `TunEmpty` | `TUN => loop`; packets that change nothing are stuttering steps |
| `Flush` | the loop that continues a partial frame |
| `Peek`, `Read`, `ReadShort`, `ReadFails` | the read loop |
| `Respond` | the loop that writes a response |
| `Connect`, `ArriveHalf`, `ArriveRest`, `Hangup`, `Drain`, `TunReady`, `Restart` | clients, kernel, systemd (external) |

A `?` on any path is `Exit`: the process ends, every connection closes, and
`Restart` starts from an empty slab. IPv6 addresses are split at the prefix of
the subnet, because the code's bit operations act on both parts separately.

`Leases` has two variables: the addresses that are lent, by connection, and the
connections that have ended. It knows no slab, no keys and no events. The refinement
mapping `Lessor` finds the address of an open connection through its slab entry, so
`LendsAddresses` says that freeing and reusing keys never shows: the address that a
client was told stays its own, alone, until its connection ends.

### TurnUdp and Relay

Addresses are numbers and a subnet an interval, so that `contains`, `hostmask`
and `network` are comparisons and sums. A datagram is the length of its data: what
matters for buffers, length fields and MTU. `Route` is the kernel's routing of
what the server wrote: back to the interface, or an ICMPv6 packet-too-big message
to the sender. Requests, ignored datagrams and duplicates of Send indications are
`ClientNoise`; there is no end to the ignored ones. Queues are sets, so that arrival
order is arbitrary, and what finds a queue full is dropped. The server ignores errors of
`network.send` (`common/mod.rs:216`) and of `send_to` (`turnserver-udp.rs:138` and `163`):
each of them may fail at any time, in `Writes`, `Responds`, `DataIndication` and
`IcmpIndication`. A `send_to` that fails also stands for a datagram that the network loses
on its way to the client.

Two history variables follow the datagrams between clients: `told` has those that were
reported to their senders, each by itself, and `lost` those of which a failed call or a full
queue took a copy. `Accounted` says that there is nothing else that a datagram can come to:
in particular no length is dropped in silence by one of the checks, in either direction. What is
too long for `send_to` is not counted as lost, so that `Accounted` shows that it does not
happen either.

`Relay` has two variables: datagrams sent and messages received. Its steps are
the only things that may happen: a client is told its own relayed address, gets a
datagram that was sent to it with the right sender, or a report about one it
sent. `TurnUdp` has both as history variables; its queues, buffers, mappings and
events are hidden by the refinement mapping `Promise == INSTANCE Relay WITH ...`,
which defines the relayed addresses from the mappings.

### TurnHandlers, AttrChain and StunType

A behaviour takes one message through the chain of parsers, one `Pull` for each
attribute, then `Answer` is the rest of `handle_turn`. An attribute is its type,
whether its decoder accepts it, and what of its value the match looks at.
`Forward` takes a response to another server as a message, as if the request had come from
that server's socket. `StunType` is the
bit layout of the type field, in arithmetic; `ASSUME TypeFieldReadsBack` in
`MCTurnHandlers` checks it for all 65536 values of the field.

### StunAttrs

The attribute area is an array of 4-byte words, any of which may be read as an
attribute header: so a value can look like attributes, and bytes from the network
can be anything. One buffer is decoded, cleared, appended to and iterated over in
any order the borrow checker allows.

### DtlsProxy

One iteration of the loop is one action, chosen by the phase of the stream and
the source and kind of the packet: `Drop`, `HandshakeFlight`, `HandshakeWaits`,
`HandshakeDone`, `HandshakeFails`, `Media`, `Write`, `Peek`; each includes the
removal on error, or the cleanup at the end of the loop if it is reached.
OpenSSL is external: a session is a number that proxy and client share after the
client has answered a flight. Clients begin, answer, use, close and move; the wire
holds up to `WireMax` packets, taken in any order or lost (`Lose`). A flight that the
timer writes again overwrites the packet in the shared buffer: `HandshakeFlight` takes
its packet without reading it.

### IceDissolve and IceResponder

The buffer is divided into the parts of a packet: IPv6, UDP and STUN headers and the
attributes. `Recv` writes the parts that a packet has in full; a part it overwrites in
part becomes any of `Mixes`; the others keep what an earlier packet left. `Inspect` is
the checks up to `decode` and the message's type, `Pull` takes one attribute through
the chain (`AttrChain`, as in `TurnHandlers`), `PassOn` or `Intercept` is the rest of
`'intercept`, and `Send` sends the first `length` bytes. A `recv` that fails is a
stuttering step, and a `send` that fails loses its packet as the network might.
Addresses and ports are bytes, so that the xored address and the checksum are
computed as in the code (`StunValues`); what the words of the response's attributes add up to is any
of `DataSums`, since values of HMAC and CRC are among them. `BitXor` is a constant
operator of which `XorAssumption` states what is needed.

`IceResponder` says what this amounts to: a packet comes, and what is sent is a
function of that packet alone. It has no buffer, no chain (an attribute counts if it is
the first of its type and nothing is in front of it that must not be), no bytes and
no lengths. What must not be in front of an attribute is what `must_precede` says, with the
exceptions in `Late`: the chain has the parsers of the roles, `PRIORITY` and `USE_CANDIDATE`
behind the one of `MESSAGE_INTEGRITY`, which keeps that attribute to itself, and so they
count behind it too. That is the same disagreement with `attr.rs:14` that `TurnHandlersOrder`
shows for the servers; `Stateless` takes it as given. `ASSUME LateMatters` in `MCIceDissolve`
compares the responder with one without exceptions: some packets of the run are answered because
of `Late` only, and the two differ only on packets with such an attribute behind
`MESSAGE_INTEGRITY`. The refinement mapping `Responder` reads a response as its receiver would,
with the decoders of the library: so `Stateless` includes that encoding and decoding
are inverse to each other.

`StunValues` has the other values too, although no program reads most of them. Two
deserve a word. `ERROR_CODE_encode` asserts that its code is at most 799, which
`ERROR_CODE_decode` must guarantee for a code that is passed on. And for
`UNKNOWN_ATTRIBUTES`, `length` counts all types that are not zero while `encode` stops at
the first zero; `append` does not clear the value, so a gap in the array would leave
bytes of an earlier message in the response. `collect` and `Packed` are about why there
is none.

### SnowFell

`server` and `oui` belong to the process, `ready` and `events` to epoll and the batch
being handled, `tapIn` and `rcv` are the queues of the two sources, `chan` and `label`
what the kernel and the peer know of each association. A MAC address is its OUI, a
number whose two lowest bits are the multicast and the local bit, and three low bytes
of which `IdSpan` stands for 2^24.

| action | code |
|---|---|
| `Poll`, `PollFails` | `poll.poll(..)?` |
| `TapRecv`, `LoopEnds("TAP", ..)` | `TAP => loop` |
| `Opens` | a notification that an association is up, up to the `sendmsg` of the DCEP message |
| `Bridges` | a frame on stream 1, with the comparison of its source address |
| `Text`, `TextPanics` | text; `getsockopt` for an association that has ended fails, and with it an assertion |
| `Ignores` | everything that is only traced |
| `LoopEnds("SCTP", ..)` | `recvmsg` would block |
| `Associate`, `PeerSends`, `PeerRestarts`, `End`, `HostSends`, `Restart` | kernel, peers, hosts, systemd (external) |

When the process exits its socket closes and the associations are aborted. A
`sendmsg` may fail, which the code only traces: `Opens(FALSE)` leaves the association
`refused`, and `TapRecv` reaches any subset of the receivers. A peer that restarts
(`SCTP_RESTART`) is not sent a label again: the association is `forgotten`.
`panic!("WAT?")` for a frame without an Ethernet header is left out, as the kernel
writes none to a TAP interface.

## 3. What TLC checks

Passing runs:

| run | instance | properties |
|---|---|---|
| `TurnTcpRelay` | 2 connections, frames of 2 chunks, a buffer of 1, one client with a message of any kind, exits and restarts | `TypeOK`, `NoLeak`, `TornOnlyIfBlocked`, `NoLostWakeup`, `QueuedFrameKept`, `ClosedByLeftover` |
| `TurnTcpLive` | 2 connections of clients that read, one of which sends a request, 1 address | `RoutesBack`, `LendsAddresses`, `BacklogServed`, `MessagesConsumed`, `PartialFlushed` |
| `StunAttrs` | every content of a 32-byte buffer over 2 types and 5 lengths | `ReadsInside`, `RoundTrip` |
| `TurnHandlers` | 12 message types, every sequence of up to 3 of 14 attributes and of up to 5 of the 6 that authentication looks at, an array of 2 unknown ones | `TypeOK`, `ParsedAsSpecified`, `UnknownListed`, `KeyCovered`, `NoEcho` |
| `TurnUdp` | 2 clients behind nested mappings as in `turn-udp.service`, 1 host, lengths at and above the MTU, failing sends, full queues | `TypeOK`, `NeverPanics`, `Accounted`, `NoLostWakeup`, `RefinesRelay`, `SendSettled` |
| `DtlsProxy` | 2 clients, 2 addresses, 2 destinations, 2 streams opened | `TypeOK`, `AuthenticRoaming`, `TableBounded`, `FreshKept` |
| `DtlsProxyFollow` | 1 client that moves twice, packets lost and overtaking each other | `AuthenticRoaming`, `Follows`, `HandshakeCompletes` |
| `SnowFell` | 2 associations, 2 starts of the process, a frame to everybody and to one address | `TypeOK`, `RepliesReturn`, `LabelHeard`, `NoneForgotten`, `ChannelOpens`, `TapServed` |
| `IceDissolve` | 2 packets in a row, of several hundred | `NeverPanics`, `ChecksumRight`, `Stateless` |

Runs that end in a counterexample, each a disagreement between a comment and the
code:

| run | property | what happens |
|---|---|---|
| `TurnTcpTorn` | `FramesIntact` | A response meets a full send buffer. Its rest becomes the stream's partial frame, but the loop goes on writing it as well: the client gets those bytes twice. |
| `TurnTcpStale` | `HealthyStreamsStay` | A client hangs up. In one batch, the TUN interface's event finds that its stream cannot be written to and removes it, the listener's event gives its key to a new connection, and the event of the old stream, which is still in the batch with its read-closed flag, closes the new one. `ClosedByLeftover` says that this is the only way. |
| `TurnHandlersOrder` | `UsedAttributesCovered` | A `REQUESTED_TRANSPORT` or `LIFETIME` attribute behind `MESSAGE_INTEGRITY` is acted on although the integrity value does not cover it: the integrity parser keeps its attribute, and the parsers chained behind it stay armed. The ICE responder's chain (`ice-dissolve.rs:96`) does the same with a role or a `PRIORITY`; see `Late` in `IceDissolve`. |

One comment is right under a condition that it does not state. "Check if we've exceeded our
subnet" (`turnserver-tcp.rs:61`) misses an excess if the lowest network bit of the subnet is
set: `from_index` or-s the excess bit into that one, the result is inside of the subnet, and
`RoutesBack` fails (`Prefix = 1` instead of 2 in `TurnTcpLive`). Theorem `RoutesBackHolds` names
the condition.

Some behaviour that the models show and that no line of the repository speaks about:

 * While a client does not read, the response loop of the TCP server never ends, and
   no other client is served: `MessagesConsumed` needs the fairness of `Drain`.
 * In the proxy, plaintext from `endpoint` that begins with a byte of 128..190 is taken
   for media and lost (kind `plain128` in `Media`).
 * In the bridge, a text message that is read after its association has ended ends the
   process (`TextPanics`), a data channel whose opening failed is not tried again, and a
   peer that restarts is told no address.
 * `RepliesReturn` is restricted to ids below 2^24; larger ones share an address with
   smaller ones, and answers go to those.
 * `cfg/lib/systemd/system/snow-fell.service` passes an option `-s` that the program
   does not declare.

**Bounds.** TurnTcp: a second connection is what it takes to reuse a key, to
meet a stale event or to run out of addresses; a frame longer than the buffer is
what it takes to cut one short. Messages per
client are bounded by `MaxMsgs`, descriptors by `MaxFds`; one client sends one message,
while the other connects, hangs up, reads and gets packets, and the theorems on wakeups,
frames and leaks hold for any number of messages. StunAttrs: 12 bytes of
attributes hold three empty attributes or one with nested ones. TurnHandlers: three
attributes put any two parsers and a blocker in every order; five of the key
attributes are USERNAME, REALM, MESSAGE_INTEGRITY and two more, duplicates included;
`UnknownMax` is 2 so that it overflows. TurnUdp: the largest value of a length field, the
buffer, the largest datagram and the MTU are scaled down together, from 65535, 65536, 65507 or
65527 and what the interface has to 1499, 1500, 1500 and 1499. The data is 1451 bytes long, and
then the padding ends exactly at the end of the buffer and the indication is as long as the socket
allows, or 1452, which fits the buffer exactly and is one byte too long for the interface. The
overflow of the two u16 sums (`common/mod.rs:195` and `247`) is out of reach, in the model as in
the code: data that fits behind 48 bytes of a buffer that is one longer than u16 can express leaves
more room than the 8 or 28 that are added and the padding. `NeverPanicsHolds` proves this; the
mutant `Relays_WholeLength` breaks it. `SentMax` datagrams, `CopiesMax` requests or duplicates;
`QueueMax` is 2, so that a queue is full when an ignored message or a duplicate waits in it with
another. DtlsProxy: a `Slack` of 1
stands for the 10 streams between two cleanups, `MaxAge` of 1 tick for `max_age`;
`SessionMax` bounds the streams opened, `MoveMax` and `WireMax` the rest. SnowFell: two
associations are what it takes for a frame to reach the wrong one, and two starts for
an OUI to be stale; the queues hold `RcvMax` and `TapMax` items. IceDissolve: two packets
(`RoundMax`), as a packet sees only what is in the buffer when it comes; the packets are
the checks of both roles with one attribute left out, replaced, inserted or exchanged, and
checks with one header field or length changed, at the ends of headers, of the buffer
and of 16 bits; `DataSums` include those with which each response's checksum is zero.
`FoldsLikeTheLoop` in `MCIceDissolve` compares the two folds of `Checksum` with the loop,
and `ValuesComeBack` encodes and decodes some values of each kind and all packed arrays of
three of four types.

**Symmetry** is used in `DtlsProxy`, where clients, addresses and destinations are
interchangeable and the properties are invariants and action properties.

**Deadlock** is checked in the TCP runs: the server can always be restarted or
sent something. In the others the bounded clients stop sending, and that is the end.

**Fairness.** `TurnTcp`: the thread runs when it can (weak fairness of
`ServerStep`: it never waits for anything but `poll`), the TUN interface is empty
at some point (`TunEmpty`), systemd restarts the process, and clients read what is
sent to them (`Drain`). `TurnUdp`: thread and
kernel run. Arrivals at the socket never end, and could keep the thread in the loop of UDP, which
has no bound; that this loop ends again and again is a premise of `SendSettled`. `DtlsProxy`: the loop takes packets that arrive;
a client says hello again, answers flights and keeps sending, and some of what it
sends from its current address gets through (strong fairness, as lost or late packets
may intervene); a handshake's timer runs out again and again, but not before every
packet. `SnowFell`: only the thread runs; that the other source is found empty again
and again is a premise of `ChannelOpens` and `TapServed`, since the loops drain one
source before they look at the other. No liveness is claimed against failure actions.

## 4. What is proved

| module | theorem | for every |
|---|---|---|
| `TurnTcpProofs` | `TypeCorrect`, `NoLeakHolds`, `TornOnlyIfBlockedHolds`, `QueuedFrameKeptHolds`, `ClosedByLeftoverHolds` | set of connections, frame, buffer, number of descriptors and messages |
| | `NoLostWakeupHolds` | the same, for a finite set of connections |
| | `RoutesBackHolds`, `LendsAddressesHolds` | subnet whose lowest network bit is clear |
| `StunAttrsProofs` | `TypeCorrect`, `ReadsInsideHolds`, `RoundTripHolds` | buffer, width of the length field, types and lengths |
| `TurnUdpProofs` | `TypeCorrect`, `NoLostWakeupHolds`, `RefinesRelayHolds` | tables of mappings whose subnets are apart, clients, hosts, lengths, bounds |
| | `AccountedHolds` | the same, for sizes that fit together (`SizesFit`) |
| | `NeverPanicsHolds` | buffer that is a multiple of four and not longer than u16 can express plus one, as the program's 65536 is |
| `StunProofs` | `SetClass`, `SetMethod` | type field, method of twelve bits |
| | `FoldLoop` | sum of words that a u32 holds |
| | `ChecksumVerifies` | sum of words, not zero, that leaves room for the checksum in a u32 |
| | `AddressRoundTrip` | IPv4 or IPv6 address, port and transaction id; operator that undoes itself like xor |
| | `ErrorRoundTrip`, `NumbersRoundTrip` | code up to 799; number of 16, 32 or 64 bits |
| | `Decoded` | bytes of a value |
| | `UnknownRoundTrip`, `CollectPacked` | size of the array, types in it without a gap, content of the buffer; type that is added |
| `TurnHandlersProofs` | `TypeCorrect`, `ParsedAsSpecifiedHolds`, `UnknownListedHolds`, `KeyCoveredHolds`, `NoEchoHolds` | message type, sequence of attributes and size of the array of unknown ones |
| `DtlsProxyProofs` | `TypeCorrect`, `TableBoundedHolds`, `AuthenticRoamingHolds`, `FreshKeptHolds` | set of clients and addresses, finite set of destinations, threshold, age and bound |
| `SnowFellProofs` | `TypeCorrect`, `RepliesReturnHolds`, `LabelHeardHolds`, `NoneForgottenHolds` | set of ids above the reserved ones, sequence of drawn OUIs, destinations of hosts |
| `IceDissolveProofs` | `TypeCorrect`, `NeverPanicsHolds`, `ChecksumRightHolds`, `StatelessHolds` | set of packets, content of partly overwritten headers, buffer of at least 200 bytes, operator that undoes itself like xor |

**TurnTcp.** `SlabOK` says that the open sockets and the slab entries correspond
one to one and that epoll has edges for open sockets only; `ThreadOK` that keys
are below the slab's length, that the stream being handled is in the slab, and
that after a successful peek a message is in the queue. Together they are
inductive and give `TypeOK` and `NoLeak`. For `RoutesBack`, keys must not only map
back but stay below the capacity: a new key is at most the slab's length, a full
subnet refuses it (`FullSubnet`), so the length never exceeds the capacity
(`RoutesInv`). For the framing, `FrameInv` relates the stream's partial frame to
what the client's framer waits for: equal, except inside of the response loop,
where the rest of the response is what it waits for, and except on connections
whose response was blocked; `RespondInv` says that a response begins only with no
partial frame. The action property follows from the same invariant.

For the leases, a step that neither accepts nor closes a connection leaves what is held
alone (`QuietLease`), although the slab's entries change; a cleanup ends one lease
(`CleanupLease`), an exit all (`ExitLease`). An accept lends an address that nobody holds
(`AcceptLease`), which needs `RoutesInv`: were it lent already, the address would lead back
to two keys. `LeaseStep` combines them action by action. For the wakeups, `WakeInv` adds to
the slab's invariants that an event of an open stream leads to that stream, and says that it
is finished only if it is (`EventsOK`), and is inductive with `Awake`: each handler either
drains its source or leaves an edge behind, and what arrives sets one. `Listening` is the
same for the listen queue; a descriptor is left for its head because the connections in the
slab are fewer than the clients (`DescriptorLeft`, by counting). `ClosedByLeftover` follows
from `EventsOK`: an event that closes an open stream either is its own, and then its client
has hung up, or is one of a connection that is closed.

**StunAttrs.** `MessageOK`: offsets are multiples of four and at most the length, and
the message is inside of the buffer. `ChainOK`: the words at the offsets of the
attributes that were written hold their headers, each attribute begins where the
one before ends, and what was read is a prefix of what was written. The induction
over the list is in the state: `next` and `append` each extend it by one.

**TurnUdp.** `ToUdpOfToNet`: for a client, the first mapping that applies on the way
out is the only one whose tun subnet holds the result, so the way back finds it.
`HistoryOK`: every queued datagram and packet stems from one in `sent`, with the
sender's relayed address as its source. Then each step of the server is a step of
`Relay` or leaves `sent` and `got` alone. For `Accounted`, a datagram that a step takes out of a
queue has to be somewhere afterwards: in the next queue, in `got`, `told` or `lost`. That no check
on lengths drops it needs `LengthsOK`, which bounds what is in each queue by the limit of whoever put it
there and says that a report about a datagram between clients is of type 2 and addressed to
its sender; and `SizesFit`: what the interface carries is, with its padding, not too long for the
socket, and what the socket receives is not longer than the buffer.

**TurnHandlers.** `ChainOK` says after every `Pull` what the chain has done with the
attributes pulled so far: a parser is armed exactly as long as neither its attribute
nor one of its blockers was among them, and it found the attribute at `i` exactly if
that was the first of its type, decodes, and no blocker came before. The step from one
attribute to the next rests on `BlockersAre`: what reaches a parser through the ones in
front of it and makes it give up is the set `Blockers` of the specification. At the end
of the message this is `ParsedAsSpecified`. `AnswerOK` (a signed answer had a user
name, a realm and a matching integrity value) then gives `KeyCovered`: had the integrity
attribute come first, it would have been a blocker. `EchoOK` (after a hop the class is
Success or Error) needs that the class which `set_class` sets is the one `class` reads;
`SetClass` proves it by splitting the field into its five parts, as `SetMethod` does for
the method around the class bits. For `UnknownListed`, the
invariant says the same of the attributes pulled so far (`CollectedListed` in `StunProofs`,
by the ranks of the first occurrences), and the end of the message is its special case.

**DtlsProxy.** An iteration changes at most one entry of the table and then may clean up
(`IterationEffect`); all else is argued from that. `TableBounded` rests on the cleanup that
follows each new entry: either it does not reach the threshold or the threshold is set
above what is left. `AuthenticRoaming` is inductive with `Numbered` (no session is used
that was not opened), `Recorded` (a packet that carries a session comes from where its
client has used it) and `Answered` (what finishes a handshake comes from where the flight
was sent): late and foreign packets satisfy these too.

**SnowFell.** `Addressed`: a frame that was seen has the low bits of its association's id
in a unicast address, and what is sent to a unicast address goes to the id in it; drawn
OUIs are unicast and local (`DrawnLocal`), which keeps answers out of `SCTP_SENDALL`. So an answer
finds the association of the frame, under whichever OUI. `Ended`: while the process is
down no association lives, so a label never outlives the OUI it was made with.
`NoneForgotten` is inductive as it stands: a loop ends only on an empty queue, an arrival
makes its source ready, and the notification of an association leaves the queue only in
the step that opens its channel or, with all others, when the process exits.

**IceDissolve.** While a packet is handled, the buffer holds every part that the packet has
(`Holds`), and what the checks let through to the chain is a packet that has them all
(`Reading`): so nothing is read that is left over. `PulledTrace` and `CollectedListed`, shared
with the handlers, say what the chain has found so far; at the end this is `Check` of
`IceResponder`, as `Late` is just what `MESSAGE_INTEGRITY` does not reach (`BlockersAre`). `Answers` says that the response in the buffer, read with the decoders, is
the responder's answer and that its checksum verifies; `Send` then is a step of
`IceResponder`, and every other step leaves its variables alone or is its `Receive`.

**Values.** A value is put together of pieces whose lengths are known (`Joined`), and what a
reader takes at an offset is the piece that was put there; xoring twice gives the bytes back
(`XorTwice`). Numbers are split and joined word by word (`TwoWords`, `FourWords`). For the
list of unknown types, `CountedTypes`: in an array without a gap, place `i` is taken exactly
if `i` is at most the number of types, by comparing the set of taken places with `1..i` and
`1..(i - 1)`. So `encode` meets no zero before the value is full, whatever `buffer` holds.
`FoldLoop` gives the equations of `ip_checksum`'s loop instead of an induction over it: a sum
that fits u16 is left alone, every other one is worth what it is after one more round, and a
round makes it smaller.

**Only model-checked.** Liveness (`MessagesConsumed`, `PartialFlushed`,
`BacklogServed`, `SendSettled`, `Follows`, `HandshakeCompletes`, `ChannelOpens`, `TapServed`),
which the prover does not handle; of their safety parts, `NoLostWakeup`, `Accounted` and
`NoneForgotten` are proved. The violated properties need no proof.
`TypeOK` of `IceDissolve` is only proved.

## 5. What is not modelled

 * Attribute values that are copied as they are: strings, slices, tokens, empty ones; and
   addresses that are not xored. The reason behind an error code. `stun/util.rs` is macros
   for accessors; most of `sctp/linux.rs` is layouts that nothing uses.
 * Layouts of ICMPv6, SCTP, Ethernet and DCEP headers beyond the fields above.
 * Contents of relayed packets, flow labels, hop limits, IPv4 canonicalisation: copied
   or constant, and no property depends on them. Ports, except in `IceDissolve`.
 * Cryptography: HMAC, CRC, MD5 keys, OpenSSL, SRTP. The kernel's SCTP.
 * Parsing of arguments, opening of devices and sockets at start.
 * Endless arrivals of frames that keep the TUN loop of the TCP server busy for ever: the code
   does not bound them. (Those at the socket of the UDP server are in the model.)
 * More than one DTLS record in a packet, for the proxy.
 * Two mappings with overlapping subnets, and clients without a mapping
   (`UdpAssumption`): the deployed configuration has neither.

## 6. What could follow

 * `TurnTcp` as an implementation of `Relay`: its frames would have to carry the
   datagrams they stand for, and torn frames would have to be excluded.
 * `IceDissolve` in front of `DtlsProxy`, composed through the packets it sends back; with
   `Stateless` proved, this is `IceResponder` in front of it.
