----------------------------- MODULE DtlsProxy -----------------------------
(***************************************************************************)
(* The DTLS proxy (bin/dtls-proxy.rs): a loop that takes one UDP packet    *)
(* after another off a TUN interface.  Streams are found by the address    *)
(* that a packet is sent to; a packet for a new address opens a stream;    *)
(* DTLS data becomes plaintext for an endpoint, SRTP media plaintext for   *)
(* another, and what the endpoints send becomes cipher text for the        *)
(* address that the stream's client was last heard from.  One iteration of *)
(* the loop is one action.                                                 *)
(*                                                                         *)
(* OpenSSL is external: a session is a number that the proxy and one       *)
(* client come to share once the client has received a flight of the       *)
(* handshake and has answered it; what is protected with it authenticates  *)
(* to its stream and to no other.                                          *)
(***************************************************************************)
EXTENDS Integers, FiniteSets, Functions

CONSTANTS
  Clients,      \* DTLS clients
  Addrs,        \* addresses that clients send from
  Dsts,         \* addresses that are routed to the interface
  Endpoint,     \* endpoint: address of the plaintext peer
  RtpEndpoint,  \* rtp_endpoint: address of the media peer
  Nobody,       \* no client
  Slack,        \* streams that are opened between two cleanups
  MaxAge,       \* max_age, in ticks
  SessionMax,   \* bound on the number of streams opened
  MoveMax,      \* bound on the number of times a client changes its address
  WireMax       \* bound on the packets under way

ASSUME ProxyAssumption ==
  /\ Endpoint \notin Addrs /\ RtpEndpoint \notin Addrs /\ Endpoint # RtpEndpoint
  /\ Nobody \notin Clients /\ IsFiniteSet(Dsts)
  /\ Slack \in Nat /\ MaxAge \in Nat /\ SessionMax \in Nat /\ MoveMax \in Nat /\ WireMax \in Nat

VARIABLES
  streams,      \* the streams, by the address they send from
  nextCleanup,  \* next_cleanup
  opened,       \* number of streams opened so far
  out,          \* what the last iteration sent: [to, form]
  flights,      \* flights of handshakes that are under way to clients
  wire,         \* packets that are under way to the proxy
  where,        \* the address of each client
  moves,        \* changes of address so far
  session,      \* the session that each client has, 0 for none
  spoke         \* history: sessions, and addresses their client has used them from

proxyVars == <<streams, nextCleanup, opened, out, flights>>
clientVars == <<where, moves, session, spoke>>
vars == <<proxyVars, wire, clientVars>>

Sources == Addrs \cup {Endpoint, RtpEndpoint}

\* struct Bio, with what is known of the Ssl that owns it.
Stream == [phase : {"handshake", "established"}, sendTo : Sources, age : 0..MaxAge,
           peer : Clients \cup {Nobody}, sess : 1..SessionMax, srtp : {"none", "pair"}]

\* What a packet holds.  "media" begins with a byte of 128..190; so may a
\* plaintext packet of endpoint ("plain128"); "big" is plaintext whose cipher
\* text does not fit the buffer; "junk" is anything that is not DTLS.
Kinds == {"hello", "finish", "data", "close", "media", "junk", "plain", "plain128", "big"}

Packet == [src : Sources, dst : Dsts, kind : Kinds, by : Clients \cup {Nobody}, sess : 0..SessionMax]

EndpointPackets ==
  [src : {Endpoint}, dst : Dsts, kind : {"plain", "plain128", "big"}, by : {Nobody}, sess : {0}]
    \cup [src : {RtpEndpoint}, dst : Dsts, kind : {"media"}, by : {Nobody}, sess : {0}]

-----------------------------------------------------------------------------
(* The loop *)

Live == DOMAIN streams

\* Mutant of Entry: a new stream answers to the packet's destination.
Entry_Swapped(p) ==
  IF p.dst \in Live
  THEN streams[p.dst]
  ELSE [phase |-> "handshake", sendTo |-> p.dst, age |-> 0, peer |-> Nobody, sess |-> opened + 1, srtp |-> "none"]

\* The entry of the packet's destination, new if it was vacant.
Entry(p) ==
  IF p.dst \in Live
  THEN streams[p.dst]
  ELSE [phase |-> "handshake", sendTo |-> p.src, age |-> 0, peer |-> Nobody, sess |-> opened + 1, srtp |-> "none"]

\* A packet that gets to a stream, in the given phase.
Enters(p, phase) ==
  /\ p.dst \in Live \/ (p.src # Endpoint /\ opened < SessionMax)
  /\ Entry(p).phase = phase
  /\ opened' = IF p.dst \in Live THEN opened ELSE opened + 1

WithEntry(p, s) == [d \in Live \cup {p.dst} |-> IF d = p.dst THEN s ELSE streams[d]]

\* Mutant of Cleanup: the threshold does not grow with the table.
Cleanup_Fixed(table) ==
  LET kept == {d \in DOMAIN table : table[d].age < MaxAge}
  IN  IF Cardinality(DOMAIN table) > nextCleanup
      THEN streams' = Restrict(table, kept) /\ nextCleanup' = Slack
      ELSE streams' = table /\ nextCleanup' = nextCleanup

\* Mutant of Cleanup: everything goes.
Cleanup_All(table) ==
  IF Cardinality(DOMAIN table) > nextCleanup
  THEN streams' = Restrict(table, {}) /\ nextCleanup' = Slack
  ELSE streams' = table /\ nextCleanup' = nextCleanup

\* The end of an iteration that comes that far.
Cleanup(table) ==
  LET kept == {d \in DOMAIN table : table[d].age < MaxAge}
  IN  IF Cardinality(DOMAIN table) > nextCleanup
      THEN streams' = Restrict(table, kept) /\ nextCleanup' = Cardinality(kept) + Slack
      ELSE streams' = table /\ nextCleanup' = nextCleanup

\* An error of OpenSSL: the entry is removed, and the iteration ends.
Remove(p) == streams' = Restrict(streams, Live \ {p.dst}) /\ UNCHANGED nextCleanup

Emit(to, form) == out' = {[to |-> to, form |-> form]}

\* Drop packets coming from endpoint where we don't have a stream.
Drop(p) ==
  /\ p.src = Endpoint /\ p.dst \notin Live
  /\ out' = {}
  /\ UNCHANGED <<streams, nextCleanup, opened, flights>>

\* Mutant of HandshakeFlight: a flight is written only once.
HandshakeFlight_Once(p) ==
  LET e == Entry(p)
  IN  /\ Enters(p, "handshake") /\ e.peer = Nobody /\ p.kind = "hello"
      /\ flights' = flights \cup {[to |-> e.sendTo, by |-> p.by, dst |-> p.dst, sess |-> e.sess]}
      /\ Emit(e.sendTo, "cipher")
      /\ Cleanup(WithEntry(p, [e EXCEPT !.peer = p.by, !.age = 0]))

\* do_handshake writes a flight: to a first hello, or again, when its timer has
\* run out; then the shared buffer is overwritten before the packet is read.
HandshakeFlight(p) ==
  LET e == Entry(p)
      peer == IF e.peer = Nobody THEN p.by ELSE e.peer
  IN  /\ Enters(p, "handshake") /\ (e.peer # Nobody \/ p.kind = "hello")
      /\ flights' = flights \cup {[to |-> e.sendTo, by |-> peer, dst |-> p.dst, sess |-> e.sess]}
      /\ Emit(e.sendTo, "cipher")
      /\ Cleanup(WithEntry(p, [e EXCEPT !.peer = peer, !.age = 0]))

\* do_handshake finds nothing it can use.
HandshakeWaits(p) ==
  /\ Enters(p, "handshake")
  /\ p.kind # "hello" /\ ~(p.kind = "finish" /\ p.sess = Entry(p).sess)
  /\ out' = {}
  /\ Cleanup(WithEntry(p, Entry(p)))
  /\ UNCHANGED flights

\* The handshake finishes; session_pair may find no SRTP profile.
HandshakeDone(p, srtp) ==
  LET e == Entry(p)
  IN  /\ Enters(p, "handshake")
      /\ p.kind = "finish" /\ p.sess = e.sess
      /\ Emit(e.sendTo, "cipher")
      /\ Cleanup(WithEntry(p, [e EXCEPT !.phase = "established", !.age = 0, !.srtp = srtp]))
      /\ UNCHANGED flights

\* do_handshake fails.
HandshakeFails(p) ==
  /\ Enters(p, "handshake") /\ p.kind = "junk"
  /\ out' = {}
  /\ Remove(p)
  /\ UNCHANGED flights

\* Packets that begin like media are decrypted and encrypted with the SRTP
\* sessions, and the iteration ends.
Media(p) ==
  LET e == Entry(p)
  IN  /\ Enters(p, "established") /\ p.kind \in {"media", "plain128"}
      /\ out' = IF e.srtp = "none" THEN {}
                ELSE IF p.src = RtpEndpoint THEN {[to |-> e.sendTo, form |-> "cipher"]}
                ELSE IF p.kind = "media" /\ p.sess = e.sess THEN {[to |-> RtpEndpoint, form |-> "plain"]}
                ELSE {}
      /\ UNCHANGED <<streams, nextCleanup, flights>>

\* ssl_write of what endpoint sent.
Write(p) ==
  LET e == Entry(p)
  IN  /\ Enters(p, "established") /\ p.src = Endpoint /\ p.kind # "plain128"
      /\ IF p.kind = "big"
         THEN Remove(p) /\ out' = {}
         ELSE Cleanup(WithEntry(p, [e EXCEPT !.age = 0])) /\ Emit(e.sendTo, "cipher")
      /\ UNCHANGED flights

\* Mutant of Peek: send_to follows every packet.
Peek_Trusting(p) ==
  LET e == Entry(p)
  IN  /\ Enters(p, "established") /\ p.src # Endpoint /\ p.kind # "media"
      /\ out' = {}
      /\ Cleanup(WithEntry(p, [e EXCEPT !.sendTo = p.src]))
      /\ UNCHANGED flights

\* Mutant of Peek: send_to stays.
Peek_Fixed(p) ==
  LET e == Entry(p)
  IN  /\ Enters(p, "established") /\ p.src # Endpoint /\ p.kind # "media"
      /\ out' = {}
      /\ Cleanup(WithEntry(p, e))
      /\ UNCHANGED flights

\* ssl_peek, and the loop that pulls the data out and updates send_to; data
\* that does not authenticate is not there, and the end of the session is an
\* error.
Peek(p) ==
  LET e == Entry(p)
      valid == p.sess = e.sess
  IN  /\ Enters(p, "established") /\ p.src # Endpoint /\ p.kind # "media"
      /\ IF p.kind = "close" /\ valid
         THEN Remove(p) /\ out' = {}
         ELSE IF p.kind = "data" /\ valid
         THEN Cleanup(WithEntry(p, [e EXCEPT !.sendTo = p.src])) /\ Emit(Endpoint, "plain")
         ELSE Cleanup(WithEntry(p, e)) /\ out' = {}
      /\ UNCHANGED flights

\* One iteration of the loop, for the packet p.
Iteration(p) ==
  \/ Drop(p)
  \/ HandshakeFlight(p)
  \/ HandshakeWaits(p)
  \/ \E srtp \in {"none", "pair"} : HandshakeDone(p, srtp)
  \/ HandshakeFails(p)
  \/ Media(p)
  \/ Write(p)
  \/ Peek(p)

\* A packet arrives.
Arrive(p) == p \in wire /\ Iteration(p) /\ wire' = wire \ {p} /\ UNCHANGED clientVars

FromEndpoint(p) == Iteration(p) /\ UNCHANGED <<wire, clientVars>>

\* Time passes.
Tick ==
  /\ \E d \in Live : streams[d].age < MaxAge
  /\ streams' = [d \in Live |-> [streams[d] EXCEPT !.age = IF @ < MaxAge THEN @ + 1 ELSE @]]
  /\ UNCHANGED <<nextCleanup, opened, out, flights, wire, clientVars>>

-----------------------------------------------------------------------------
(* Clients and the network *)

Transmit(p) == p \notin wire /\ Cardinality(wire) < WireMax /\ wire' = wire \cup {p}

\* A packet that is protected with no session.
Begin(c, d, kind) ==
  /\ Transmit([src |-> where[c], dst |-> d, kind |-> kind, by |-> c, sess |-> 0])
  /\ UNCHANGED <<proxyVars, clientVars>>

\* A client receives the flight that answers its hello, and answers it.
Answer(c, f) ==
  /\ f \in flights /\ f.to = where[c] /\ f.by = c
  /\ flights' = flights \ {f}
  /\ session' = [session EXCEPT ![c] = f.sess]
  /\ spoke' = spoke \cup {<<f.sess, where[c]>>}
  /\ Transmit([src |-> where[c], dst |-> f.dst, kind |-> "finish", by |-> c, sess |-> f.sess])
  /\ UNCHANGED <<streams, nextCleanup, opened, out, where, moves>>

\* A client uses its session.
Use(c, d, kind) ==
  /\ session[c] # 0
  /\ Transmit([src |-> where[c], dst |-> d, kind |-> kind, by |-> c, sess |-> session[c]])
  /\ spoke' = spoke \cup {<<session[c], where[c]>>}
  /\ UNCHANGED <<proxyVars, where, moves, session>>

\* The network loses a packet.
Lose(p) == wire' = wire \ {p} /\ UNCHANGED <<proxyVars, clientVars>>

\* A client gets another address.
Move(c, a) ==
  /\ moves < MoveMax /\ a # where[c]
  /\ where' = [where EXCEPT ![c] = a] /\ moves' = moves + 1
  /\ UNCHANGED <<proxyVars, wire, session, spoke>>

-----------------------------------------------------------------------------
Init ==
  /\ streams = [d \in {} |-> 0] /\ nextCleanup = Slack /\ opened = 0 /\ out = {}
  /\ flights = {} /\ wire = {}
  /\ where \in [Clients -> Addrs] /\ moves = 0
  /\ session = [c \in Clients |-> 0] /\ spoke = {}

ProxyStep ==
  \/ \E p \in wire : Arrive(p)
  \/ \E p \in EndpointPackets : FromEndpoint(p)

ClientStep ==
  \E c \in Clients :
    \/ \E d \in Dsts, kind \in {"hello", "junk"} : Begin(c, d, kind)
    \/ \E f \in flights : Answer(c, f)
    \/ \E d \in Dsts, kind \in {"data", "media", "close"} : Use(c, d, kind)
    \/ \E a \in Addrs : Move(c, a)

Next == ProxyStep \/ Tick \/ ClientStep \/ \E p \in wire : Lose(p)

Spec == Init /\ [][Next]_vars

\* A data packet from where its client is now arrives.
DataArrives == \E p \in wire : p.kind = "data" /\ p.src = where[p.by] /\ Arrive(p)

\* A packet arrives at a handshake whose timer has run out.
FlightArrives == \E p \in wire : HandshakeFlight(p) /\ Arrive(p)

\* The client's answer arrives while the timer is running.
FinishArrives == \E p \in wire, srtp \in {"none", "pair"} : HandshakeDone(p, srtp) /\ Arrive(p)

\* Clients say hello again, answer flights and, once they have a session, keep
\* sending; a packet does not stay under way for ever, and the loop takes what
\* arrives; the network lets through some of what it is given again and again;
\* the timer of a handshake runs out, but not before every packet.
FairSpec ==
  /\ Spec
  /\ \A c \in Clients, d \in Dsts : SF_vars(Use(c, d, "data")) /\ SF_vars(Begin(c, d, "hello"))
  /\ \A c \in Clients : SF_vars(\E f \in flights : Answer(c, f))
  /\ WF_vars(\E p \in wire : Arrive(p) \/ Lose(p)) /\ SF_vars(DataArrives)
  /\ SF_vars(FlightArrives) /\ SF_vars(FinishArrives)

-----------------------------------------------------------------------------
(* Properties *)

\* The variables have the types their declarations describe.
TypeOK ==
  /\ Live \subseteq Dsts /\ streams \in [Live -> Stream]
  /\ nextCleanup \in Nat /\ opened \in 0..SessionMax
  /\ out \subseteq [to : Sources, form : {"cipher", "plain"}]
  /\ flights \subseteq [to : Sources, by : Clients, dst : Dsts, sess : 1..SessionMax]
  /\ wire \subseteq Packet
  /\ where \in [Clients -> Addrs] /\ moves \in 0..MoveMax
  /\ session \in [Clients -> 0..SessionMax] /\ spoke \subseteq (1..SessionMax) \X Addrs

\* At the head of the loop the table is never larger than the threshold of the
\* next cleanup, although iterations that end early do not clean up.
TableBounded == Cardinality(Live) <= nextCleanup

\* The proxy sends an established stream's cipher text to an address from
\* which that stream's own client has used its session, whatever arrives from
\* elsewhere, late, or from the client's earlier sessions.
AuthenticRoaming ==
  \A d \in Live : streams[d].phase = "established" => <<streams[d].sess, streams[d].sendTo>> \in spoke

\* A stream that was written to within max_age ends only by an error of its
\* own: in an iteration that opens no stream and changes no other.
FreshKept ==
  [][\A d \in Live \ DOMAIN streams' :
       streams[d].age < MaxAge => opened' = opened /\ streams' = Restrict(streams, Live \ {d})]_vars

\* The stream's cipher text goes where its client no longer is.
Lagging(c, d) ==
  d \in Live /\ streams[d].phase = "established" /\ streams[d].sess = session[c] /\ streams[d].sendTo # where[c]

\* A client that has changed its address gets cipher text there in the end,
\* if it keeps sending, even when packets from its old address arrive late.
Follows == \A c \in Clients, d \in Dsts : Lagging(c, d) ~> ~Lagging(c, d)

\* The client's hello was heard and it is still where the stream sends to, but
\* the handshake has not finished.
Pending(c, d) ==
  d \in Live /\ streams[d].phase = "handshake" /\ streams[d].peer = c /\ streams[d].sendTo = where[c]

\* A handshake does not hang: although the network loses packets, and a flight
\* that is written again overwrites the packet that was read, it finishes, it
\* fails or its client goes elsewhere.
HandshakeCompletes == \A c \in Clients, d \in Dsts : Pending(c, d) ~> ~Pending(c, d)
=============================================================================
