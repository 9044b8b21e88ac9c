------------------------------ MODULE TurnTcp ------------------------------
(***************************************************************************)
(* The event loop of turnserver-tcp: a single thread that accepts TCP      *)
(* connections, relays packets from a TUN interface to them as framed STUN *)
(* messages, and answers the STUN/TURN messages they send.                 *)
(*                                                                         *)
(* The server's steps are its system calls, so that clients and the        *)
(* network act between any two of them.  epoll is edge-triggered (mio):    *)
(* a source is reported when something happened to it, once, with the      *)
(* readiness it has at that moment.                                        *)
(*                                                                         *)
(* A frame is FrameLen chunks.  What is left of a frame is a number of     *)
(* chunks, and the client's framer (which finds the end of a message from  *)
(* its header) is the number of chunks it still waits for.                 *)
(***************************************************************************)
EXTENDS TurnTcpMapping, FiniteSets

CONSTANTS
  Socks,      \* client connections, each connects at most once
  TCP, TUN,   \* the two reserved tokens
  Messages,   \* what clients send: subset of MessageKinds
  FrameLen,   \* chunks of a frame
  SndBuf,     \* chunks the kernel buffers for a connection
  MaxMsgs,    \* bound: the number of messages that each client sends
  MaxFds      \* connections the process has file descriptors for

\* Messages handle_turn has a response for, ones it has none for, and ones
\* decode refuses: not STUN, or longer than the read buffer.
MessageKinds == {"request", "indication", "notstun", "oversize"}

ASSUME TcpAssumption ==
  /\ TCP \notin Socks /\ TUN \notin Socks /\ TCP # TUN
  /\ Messages \subseteq MessageKinds
  /\ FrameLen \in Nat \ {0}
  /\ SndBuf \in Nat \ {0}
  /\ MaxMsgs \in [Socks -> Nat] /\ MaxFds \in Nat

VARIABLES
  pc,        \* where the server's thread is
  cur,       \* its locals: the key of the stream being handled, is_readable()
             \* of its event, and the chunks of a response still to write
  events,    \* reported and not yet handled: source -> readiness and token
  streams,   \* the slab: key -> Conn
  slabLen,   \* entries the slab has allocated
  sock,      \* the kernel's and the client's side of each connection
  edge       \* sources epoll will report

vars == <<pc, cur, events, streams, slabLen, sock, edge>>

Sources == Socks \cup {TCP, TUN}

Pcs == {"next", "accept", "tun", "write", "read", "got", "respond", "exited"}

\* partial: chunks left of the frame being written; 0 is Option::None.
Conn == [relayed : Address, partial : 0..FrameLen, stream : Socks]

\* A connection outside of the server: its state; the client's end; messages
\* the client may still send; the receive queue, in whole messages and in
\* unfinished ones at its tail; free space in the send buffer; chunks the
\* client's framer waits for.  Two fields are history: frames, whether all the
\* client received is a sequence of frames; responses, whether writing one has
\* ever found the send buffer full.
Sock ==
  [state : {"new", "backlog", "open", "closed"}, peer : {"up", "fin", "rst"},
   quota : Nat, inq : Nat, half : 0..1, room : 0..SndBuf, due : 0..FrameLen,
   frames : {"whole", "torn"}, responses : {"flowing", "blocked"}]

NewSock(s) ==
  [state |-> "new", peer |-> "up", quota |-> MaxMsgs[s], inq |-> 0, half |-> 0,
   room |-> SndBuf, due |-> 0, frames |-> "whole", responses |-> "flowing"]

ClosedSock ==
  [state |-> "closed", peer |-> "up", quota |-> 0, inq |-> 0, half |-> 0,
   room |-> SndBuf, due |-> 0, frames |-> "whole", responses |-> "flowing"]

Idle == [key |-> 0, readable |-> FALSE, rest |-> 0]

-----------------------------------------------------------------------------
(* The slab *)

\* Slab::vacant_entry: a key freed earlier if there is one (which one is the
\* library's affair), otherwise a new entry at the end.
VacantKeys ==
  LET freed == (0..(slabLen - 1)) \ DOMAIN streams
  IN  IF freed # {} THEN freed ELSE {slabLen}

Inserted(key, conn) ==
  [k \in DOMAIN streams \cup {key} |-> IF k = key THEN conn ELSE streams[k]]

Removed(key) == [k \in DOMAIN streams \ {key} |-> streams[k]]

WithPartial(key, r) == [streams EXCEPT ![key].partial = r]

-----------------------------------------------------------------------------
(* write(2) on a non-blocking socket *)

WriteFails(s) == sock[s].peer = "rst"
WriteBlocks(s) == sock[s].peer # "rst" /\ sock[s].room = 0
WriteTakes(s) == sock[s].peer # "rst" /\ sock[s].room > 0

\* Mutant of Taken: the write is taken to be complete.
Taken_All(s, r) == r

\* Of r chunks, the ones that fit.
Taken(s, r) == IF r <= sock[s].room THEN r ELSE sock[s].room

\* The first Taken(s, r) of the last r chunks of a frame go out.  The client
\* can make sense of them if these are the chunks it waits for, or if it is
\* between two frames and this is the start of one.
Send(s, r) ==
  sock' = [sock EXCEPT
    ![s].room = @ - Taken(s, r),
    ![s].due = r - Taken(s, r),
    ![s].frames = IF sock[s].due = r \/ (sock[s].due = 0 /\ r = FrameLen)
                  THEN @ ELSE "torn"]

-----------------------------------------------------------------------------
(* Cleanup: deregister from epoll, remove from the slab, close.  Readiness *)
(* that epoll has already reported stays in events.                        *)

\* Mutant of Cleanup: the stream is closed but left in the slab.
Cleanup_KeepsEntry(key) ==
  /\ streams' = streams
  /\ sock' = [sock EXCEPT ![streams[key].stream] = ClosedSock]
  /\ edge' = edge \ {streams[key].stream}

Cleanup(key) ==
  /\ streams' = Removed(key)
  /\ sock' = [sock EXCEPT ![streams[key].stream] = ClosedSock]
  /\ edge' = edge \ {streams[key].stream}

\* An error propagated by ? ends the process, which closes every socket.
Exit ==
  /\ pc' = "exited" /\ cur' = Idle
  /\ events' = <<>> /\ streams' = <<>> /\ slabLen' = 0
  /\ sock' = [s \in Socks |-> IF sock[s].state = "new" THEN NewSock(s) ELSE ClosedSock]
  /\ edge' = {}

-----------------------------------------------------------------------------
(* The event loop *)

NoReadiness == [token |-> 0, closed |-> FALSE, writable |-> FALSE, readable |-> FALSE]

\* Mutant of Readiness: registered for Interest::READABLE only.
Readiness_ReadOnly(s) ==
  [token    |-> CHOOSE k \in DOMAIN streams : streams[k].stream = s,
   closed   |-> sock[s].peer # "up",
   writable |-> FALSE,
   readable |-> sock[s].inq + sock[s].half > 0]

\* Mutant of Readiness: a stream that is not writable is taken for finished.
Readiness_NotWritable(s) ==
  [token    |-> CHOOSE k \in DOMAIN streams : streams[k].stream = s,
   closed   |-> sock[s].peer # "up" \/ sock[s].room = 0,
   writable |-> sock[s].room > 0,
   readable |-> sock[s].inq + sock[s].half > 0]

\* What epoll reports of a registered connection.
Readiness(s) ==
  [token    |-> CHOOSE k \in DOMAIN streams : streams[k].stream = s,
   closed   |-> sock[s].peer # "up",
   writable |-> sock[s].room > 0,
   readable |-> sock[s].inq + sock[s].half > 0]

\* poll.poll: blocks until some source has an edge, then reports every one.
Poll ==
  /\ pc = "next" /\ events = <<>> /\ edge # {}
  /\ events' = [e \in edge |-> IF e \in Socks THEN Readiness(e) ELSE NoReadiness]
  /\ edge' = {}
  /\ UNCHANGED <<pc, cur, streams, slabLen, sock>>

\* poll.poll fails (a signal interrupts epoll_wait).
PollFails ==
  /\ pc = "next" /\ events = <<>>
  /\ Exit

Handled(e) == [x \in DOMAIN events \ {e} |-> events[x]]

\* The TCP and the TUN token.
DispatchListener ==
  /\ pc = "next" /\ TCP \in DOMAIN events
  /\ pc' = "accept"
  /\ events' = Handled(TCP)
  /\ UNCHANGED <<cur, streams, slabLen, sock, edge>>

DispatchTun ==
  /\ pc = "next" /\ TUN \in DOMAIN events
  /\ pc' = "tun"
  /\ events' = Handled(TUN)
  /\ UNCHANGED <<cur, streams, slabLen, sock, edge>>

\* Token(index): there is no such stream any more; or the event says it is
\* finished; or it is written to, then read from, as far as the event says.
DispatchStream(e) ==
  LET ev == events[e]
  IN  /\ pc = "next" /\ e \in DOMAIN events
      /\ events' = Handled(e)
      /\ \/ /\ ev.token \notin DOMAIN streams
            /\ UNCHANGED <<pc, cur, streams, sock, edge>>
         \/ /\ ev.token \in DOMAIN streams /\ ev.closed
            /\ Cleanup(ev.token)
            /\ UNCHANGED <<pc, cur>>
         \/ /\ ev.token \in DOMAIN streams /\ ~ev.closed
            /\ ev.writable \/ ev.readable
            /\ pc' = IF ev.writable THEN "write" ELSE "read"
            /\ cur' = [key |-> ev.token, readable |-> ev.readable, rest |-> 0]
            /\ UNCHANGED <<streams, sock, edge>>
         \/ /\ ev.token \in DOMAIN streams /\ ~ev.closed
            /\ ~ev.writable /\ ~ev.readable
            /\ UNCHANGED <<pc, cur, streams, sock, edge>>
      /\ UNCHANGED slabLen

\* break 'event, or the end of the handler.
EndEvent == pc' = "next" /\ cur' = Idle

-----------------------------------------------------------------------------
(* TCP => loop: accept until accept fails *)

NoFds == Cardinality(DOMAIN streams) >= MaxFds

\* listener.accept fails: nothing is queued, or the process has no descriptor
\* left.  Either way the loop ends.
AcceptFails ==
  /\ pc = "accept"
  /\ NoFds \/ \A s \in Socks : sock[s].state # "backlog"
  /\ pc' = "next"
  /\ UNCHANGED <<cur, events, streams, slabLen, sock, edge>>

\* Mutant of Accept: one connection per event.
Accept_One(s, key) ==
  /\ pc = "accept" /\ sock[s].state = "backlog" /\ ~NoFds
  /\ key \in VacantKeys /\ from_index(key) # None
  /\ streams' = Inserted(key, [relayed |-> from_index(key), partial |-> 0, stream |-> s])
  /\ slabLen' = IF key = slabLen THEN slabLen + 1 ELSE slabLen
  /\ sock' = [sock EXCEPT ![s].state = "open"]
  /\ edge' = edge \cup {s}
  /\ pc' = "next"
  /\ UNCHANGED <<cur, events>>

\* A connection gets a slab entry and the relayed address that goes with its
\* key; a key without an address leaves the entry vacant and drops the
\* connection.  A new connection is writable, so registering it is an edge.
Accept(s, key) ==
  /\ pc = "accept" /\ sock[s].state = "backlog" /\ ~NoFds
  /\ key \in VacantKeys
  /\ \/ /\ from_index(key) = None
        /\ sock' = [sock EXCEPT ![s] = ClosedSock]
        /\ UNCHANGED <<streams, slabLen, edge>>
     \/ /\ from_index(key) # None
        /\ streams' = Inserted(key, [relayed |-> from_index(key), partial |-> 0, stream |-> s])
        /\ slabLen' = IF key = slabLen THEN slabLen + 1 ELSE slabLen
        /\ sock' = [sock EXCEPT ![s].state = "open"]
        /\ edge' = edge \cup {s}
  /\ UNCHANGED <<pc, cur, events>>

\* set_nodelay or the registration of the accepted stream fails.
SetupFails ==
  /\ pc = "accept" /\ ~NoFds
  /\ \E s \in Socks : sock[s].state = "backlog"
  /\ Exit

-----------------------------------------------------------------------------
(* TUN => loop: receive until the interface has nothing more *)

TunEmpty ==
  /\ pc = "tun"
  /\ pc' = "next"
  /\ UNCHANGED <<cur, events, streams, slabLen, sock, edge>>

\* Receivers of packets, inside and outside of the subnet.
Receivers ==
  [prefix : {Prefix, Prefix + 1}, host : 0..(HostSpan - 1), port : 0..(2 * PortSpan - 1)]

\* Mutant of TunRecv: a frame is written while the previous one is unfinished.
TunRecv_Unguarded(receiver) ==
  LET key == to_index(receiver)
      s == streams[key].stream
  IN  /\ pc = "tun"
      /\ key # None /\ key \in DOMAIN streams
      /\ WriteTakes(s)
      /\ Send(s, FrameLen)
      /\ streams' = WithPartial(key, FrameLen - Taken(s, FrameLen))
      /\ UNCHANGED <<pc, cur, events, slabLen, edge>>

\* network.recv: a packet for receiver, made into a frame by handle_net.  A
\* packet changes nothing when handle_net refuses it, when no stream is behind
\* its address, when the previous frame is unfinished and when the send buffer
\* is full: those are stuttering steps of this loop.
TunRecv(receiver) ==
  LET key == to_index(receiver)
      s == streams[key].stream
  IN  /\ pc = "tun"
      /\ key # None /\ key \in DOMAIN streams
      /\ streams[key].partial = 0
      /\ \/ /\ WriteTakes(s)
            /\ Send(s, FrameLen)
            /\ streams' = WithPartial(key, FrameLen - Taken(s, FrameLen))
            /\ UNCHANGED edge
         \/ /\ WriteFails(s)
            /\ Cleanup(key)
      /\ UNCHANGED <<pc, cur, events, slabLen>>

-----------------------------------------------------------------------------
(* Token(index): writing *)

\* Mutant of ThenRead: a stream that was written to is not read from.
ThenRead_Ends == EndEvent

\* From the writing to the reading part of the handler.
ThenRead ==
  IF cur.readable THEN pc' = "read" /\ cur' = cur ELSE EndEvent

\* One turn of the loop that continues a partial frame.  The loop ends when
\* nothing is left and when the send buffer is full.
Flush ==
  LET s == streams[cur.key].stream
      r == streams[cur.key].partial
  IN  /\ pc = "write"
      /\ \/ /\ r = 0 \/ WriteBlocks(s)
            /\ ThenRead
            /\ UNCHANGED <<streams, sock, edge>>
         \/ /\ r > 0 /\ WriteTakes(s)
            /\ Send(s, r)
            /\ streams' = WithPartial(cur.key, r - Taken(s, r))
            /\ IF Taken(s, r) = r THEN ThenRead ELSE UNCHANGED <<pc, cur>>
            /\ UNCHANGED edge
         \/ /\ r > 0 /\ WriteFails(s)
            /\ Cleanup(cur.key)
            /\ EndEvent
      /\ UNCHANGED <<events, slabLen>>

-----------------------------------------------------------------------------
(* Token(index): reading *)

\* peek, then decode: no whole message yet, so the loop ends; a message; one
\* that decode refuses; or a dead socket, whose queued data the kernel may or
\* may not have kept.
Peek ==
  LET s == streams[cur.key].stream
  IN  /\ pc = "read"
      /\ \/ /\ sock[s].inq = 0 /\ sock[s].peer # "rst"
            /\ EndEvent
            /\ UNCHANGED <<streams, sock, edge>>
         \/ /\ sock[s].inq > 0 /\ Messages \cap {"request", "indication"} # {}
            /\ pc' = "got"
            /\ UNCHANGED <<cur, streams, sock, edge>>
         \/ /\ \/ sock[s].inq > 0 /\ Messages \cap {"notstun", "oversize"} # {}
               \/ sock[s].peer = "rst"
            /\ Cleanup(cur.key)
            /\ EndEvent
      /\ UNCHANGED <<events, slabLen>>

\* Mutant of Read: a request is answered while a frame is unfinished.
Read_Answers(m) ==
  /\ pc = "got"
  /\ sock' = [sock EXCEPT ![streams[cur.key].stream].inq = @ - 1]
  /\ \/ m = "indication" /\ pc' = "read" /\ UNCHANGED cur
     \/ m = "request" /\ pc' = "respond" /\ cur' = [cur EXCEPT !.rest = FrameLen]
  /\ UNCHANGED <<events, streams, slabLen, edge>>

\* read: the message leaves the receive queue.  It is dropped while a frame is
\* unfinished; otherwise handle_turn has a response for it or has not.
Read(m) ==
  LET s == streams[cur.key].stream
  IN  /\ pc = "got"
      /\ sock' = [sock EXCEPT ![s].inq = @ - 1]
      /\ \/ /\ streams[cur.key].partial > 0 \/ m = "indication"
            /\ pc' = "read"
            /\ UNCHANGED cur
         \/ /\ streams[cur.key].partial = 0 /\ m = "request"
            /\ pc' = "respond"
            /\ cur' = [cur EXCEPT !.rest = FrameLen]
      /\ UNCHANGED <<events, streams, slabLen, edge>>

\* The connection was reset between peek and read: read returns less than was
\* peeked, or an error, which ends the process.
ReadShort ==
  /\ pc = "got" /\ sock[streams[cur.key].stream].peer = "rst"
  /\ Cleanup(cur.key)
  /\ EndEvent
  /\ UNCHANGED <<events, slabLen>>

ReadFails ==
  /\ pc = "got" /\ sock[streams[cur.key].stream].peer = "rst"
  /\ Exit

\* One turn of the loop that writes a response.  When the send buffer is full
\* the rest becomes the stream's partial frame, and the loop goes on.
Respond ==
  LET s == streams[cur.key].stream
      left == cur.rest - Taken(s, cur.rest)
  IN  /\ pc = "respond"
      /\ \/ /\ WriteTakes(s)
            /\ Send(s, cur.rest)
            /\ cur' = [cur EXCEPT !.rest = left]
            /\ pc' = IF left = 0 THEN "read" ELSE "respond"
            /\ UNCHANGED <<streams, edge>>
         \/ /\ WriteBlocks(s)
            /\ streams' = WithPartial(cur.key, cur.rest)
            /\ sock' = [sock EXCEPT ![s].responses = "blocked"]
            /\ UNCHANGED <<pc, cur, edge>>
         \/ /\ WriteFails(s)
            /\ Cleanup(cur.key)
            /\ EndEvent
      /\ UNCHANGED <<events, slabLen>>

-----------------------------------------------------------------------------
(* The service manager, the clients, the kernel and the network *)

\* systemd: Restart=always.
Restart ==
  /\ pc = "exited"
  /\ pc' = "next"
  /\ UNCHANGED <<cur, events, streams, slabLen, sock, edge>>

Connected(s) == sock[s].state \in {"backlog", "open"} /\ sock[s].peer = "up"

\* epoll notices what happens to the connections registered with it.
Notice(s) == edge' = IF sock[s].state = "open" THEN edge \cup {s} ELSE edge

Connect(s) ==
  /\ sock[s].state = "new" /\ pc # "exited"
  /\ sock' = [sock EXCEPT ![s].state = "backlog"]
  /\ edge' = edge \cup {TCP}
  /\ UNCHANGED <<pc, cur, events, streams, slabLen>>

\* The first segment of a message arrives, later the rest of it.
ArriveHalf(s) ==
  /\ Connected(s) /\ sock[s].half = 0 /\ sock[s].quota > 0
  /\ sock' = [sock EXCEPT ![s].half = 1, ![s].quota = @ - 1]
  /\ Notice(s)
  /\ UNCHANGED <<pc, cur, events, streams, slabLen>>

ArriveRest(s) ==
  /\ Connected(s) /\ sock[s].half = 1
  /\ sock' = [sock EXCEPT ![s].half = 0, ![s].inq = @ + 1]
  /\ Notice(s)
  /\ UNCHANGED <<pc, cur, events, streams, slabLen>>

\* The client closes its end, or the connection is reset.
Hangup(s) ==
  /\ sock[s].state \in {"backlog", "open"}
  /\ \/ sock[s].peer = "up" /\ sock' = [sock EXCEPT ![s].peer = "fin"]
     \/ sock[s].peer # "rst" /\ sock' = [sock EXCEPT ![s].peer = "rst"]
  /\ Notice(s)
  /\ UNCHANGED <<pc, cur, events, streams, slabLen>>

\* The client takes what the kernel has buffered for it.  That a full buffer
\* has space again is an edge.  (A client that has closed its end may still
\* read.)
Drain(s) ==
  /\ sock[s].state = "open" /\ sock[s].peer # "rst" /\ sock[s].room < SndBuf
  /\ sock' = [sock EXCEPT ![s].room = SndBuf]
  /\ IF sock[s].room = 0 THEN Notice(s) ELSE UNCHANGED edge
  /\ UNCHANGED <<pc, cur, events, streams, slabLen>>

\* Packets arrive at the TUN interface.
TunReady ==
  /\ TUN \notin edge /\ pc # "exited"
  /\ edge' = edge \cup {TUN}
  /\ UNCHANGED <<pc, cur, events, streams, slabLen, sock>>

-----------------------------------------------------------------------------
Init ==
  /\ pc = "next" /\ cur = Idle
  /\ events = <<>> /\ streams = <<>> /\ slabLen = 0
  /\ sock = [s \in Socks |-> NewSock(s)]
  /\ edge = {}

ServerStep ==
  \/ Poll \/ DispatchListener \/ DispatchTun
  \/ \E e \in Socks : DispatchStream(e)
  \/ AcceptFails
  \/ \E s \in Socks : \E key \in VacantKeys : Accept(s, key)
  \/ TunEmpty
  \/ \E receiver \in Receivers : TunRecv(receiver)
  \/ Flush \/ Peek
  \/ \E m \in Messages \cap {"request", "indication"} : Read(m)
  \/ ReadShort \/ Respond

Failure == PollFails \/ SetupFails \/ ReadFails

Client(s) ==
  Connect(s) \/ ArriveHalf(s) \/ ArriveRest(s) \/ Hangup(s) \/ Drain(s)

Next ==
  \/ ServerStep \/ Failure \/ Restart
  \/ \E s \in Socks : Client(s)
  \/ TunReady

Spec == Init /\ [][Next]_vars

\* The thread runs whenever it can; the TUN interface is empty at some point
\* of every turn of the event loop; systemd restarts the process.
ServerFairness ==
  WF_vars(ServerStep) /\ WF_vars(TunEmpty) /\ WF_vars(Restart)

\* The same, for clients that keep reading.
FairSpec == Spec /\ ServerFairness /\ \A s \in Socks : WF_vars(Drain(s))

-----------------------------------------------------------------------------
(* Properties *)

\* The variables have the types their declarations describe.
TypeOK ==
  /\ pc \in Pcs
  /\ cur \in [key : Nat, readable : BOOLEAN, rest : 0..FrameLen]
  /\ DOMAIN events \subseteq Sources
  /\ \A e \in DOMAIN events :
       events[e] \in [token : Nat, closed : BOOLEAN, writable : BOOLEAN, readable : BOOLEAN]
  /\ DOMAIN streams \subseteq Nat
  /\ \A k \in DOMAIN streams : streams[k] \in Conn
  /\ slabLen \in Nat
  /\ sock \in [Socks -> Sock]
  /\ edge \subseteq Sources

\* A packet sent to the relayed address a client was given reaches the slab
\* entry of that client (TUN branch: mapping.to_index, streams.get_mut): no two
\* live connections are ever given one address, however entries are reused and
\* however many connections are refused because the subnet is used up.
RoutesBack ==
  \A k \in DOMAIN streams : to_index(streams[k].relayed) = k

\* The address that each open connection was given, found through the slab.
Held ==
  [s \in {t \in Socks : sock[t].state = "open"} |->
     streams[CHOOSE k \in DOMAIN streams : streams[k].stream = s].relayed]

Gone == {s \in Socks : sock[s].state = "closed"}

Lessor ==
  INSTANCE Leases WITH
    Conns <- Socks, held <- Held, ended <- Gone,
    Addresses <- [prefix : {Prefix}, host : 0..(HostSpan - 1), port : PortSpan..(2 * PortSpan - 1)]

\* Accepting, relaying, answering, cleaning up and exiting, with keys of the slab
\* that are reused, amount to lending addresses of the subnet: whatever happens
\* to other connections, a client keeps the address it was told, alone, until its
\* own connection ends.
LendsAddresses == Lessor!Spec

\* An accepted connection is in the slab under exactly one key until it is
\* closed, and nothing else is: no path through the handlers (write error,
\* hangup, bad message, short read, process exit) leaks a socket or leaves an
\* entry behind, and the stream being handled exists throughout its handler.
NoLeak ==
  /\ \A s \in Socks :
       sock[s].state = "open" <=> \E k \in DOMAIN streams : streams[k].stream = s
  /\ \A j, k \in DOMAIN streams : streams[j].stream = streams[k].stream => j = k
  /\ pc \in {"write", "read", "got", "respond"} => cur.key \in DOMAIN streams

\* What a client receives is a sequence of whole frames (comment in the TUN
\* branch: "Don't attempt to write a frame unless the previous frame has
\* finished writing").
FramesIntact == \A s \in Socks : sock[s].frames = "whole"

\* The same, for every connection on which the response loop has never found
\* the send buffer full: relayed packets and responses interleaved with short
\* writes of either keep the framing.
TornOnlyIfBlocked == \A s \in Socks : sock[s].frames = "torn" => sock[s].responses = "blocked"

\* An unfinished frame is only ever continued, never replaced by another: what
\* is left of it shrinks until the connection goes.
QueuedFrameKept ==
  [][\A k \in DOMAIN streams :
       (streams[k].partial > 0 /\ k \in DOMAIN streams' /\ streams'[k].stream = streams[k].stream)
         => streams'[k].partial <= streams[k].partial]_vars

\* An event closes the stream it was reported for (comment in the Token branch:
\* an event left over finds that its stream was "closed/removed"): the client's
\* end of a stream that an event closes is down.
HealthyStreamsStay ==
  [][\A s \in Socks :
       (pc = "next" /\ pc' # "exited" /\ sock[s].state = "open" /\ sock[s].peer = "up")
         => sock'[s].state = "open"]_vars

\* What the violation of HealthyStreamsStay comes down to: a stream whose client
\* is up is closed by an event only if the event is left over from a connection
\* that is gone and whose key it was given; on no other path through the
\* handlers is it closed at all, unless decode refuses a message.
ClosedByLeftover ==
  [][\A k \in DOMAIN streams :
       (/\ k \notin DOMAIN streams' /\ sock[streams[k].stream].peer = "up"
        /\ pc # "read" /\ pc' # "exited")
         => \E e \in DOMAIN events \cap Socks :
              events[e].token = k /\ sock[e].state = "closed"]_vars

\* What makes the thread read from, write to or close a stream: an edge that epoll
\* has to report, or an event of the batch that says so, or that its handler is at
\* it.  All sources are edge-triggered, so nothing else would.
ReadDue(s) == s \in edge \/ (s \in DOMAIN events /\ (events[s].readable \/ events[s].closed))
WriteDue(s) == s \in edge \/ (s \in DOMAIN events /\ (events[s].writable \/ events[s].closed))
CloseDue(s) == s \in edge \/ (s \in DOMAIN events /\ events[s].closed)

Reading(k) == cur.key = k /\ (pc \in {"read", "got", "respond"} \/ (pc = "write" /\ cur.readable))
Writing(k) == cur.key = k /\ pc = "write"

Awake(k) ==
  LET s == streams[k].stream
  IN  /\ sock[s].inq > 0 => ReadDue(s) \/ Reading(k)
      /\ streams[k].partial > 0 /\ sock[s].room > 0 => WriteDue(s) \/ Writing(k)
      /\ sock[s].peer # "up" => CloseDue(s)

\* No wakeup is lost, wherever the handlers stop and whatever arrives meanwhile:
\* not the one for a complete message, for an unfinished frame whose socket has
\* room, for a client that hung up, or for a connection in the listen queue (as
\* long as there are descriptors).
NoLostWakeup ==
  /\ \A k \in DOMAIN streams : Awake(k)
  /\ Cardinality(Socks) <= MaxFds /\ (\E s \in Socks : sock[s].state = "backlog")
       => TCP \in edge \cup DOMAIN events \/ pc = "accept"

\* Edge-triggered readiness loses no message: one that is complete is read,
\* whatever was left in the receive queue when the handler last stopped, unless
\* the connection goes.
MessagesConsumed ==
  \A s \in Socks :
    (sock[s].state = "open" /\ sock[s].inq > 0) ~> (sock[s].state # "open" \/ sock[s].inq = 0)

\* A frame cut short by a full send buffer is finished, or the connection goes.
Unfinished(s) == \E k \in DOMAIN streams : streams[k].stream = s /\ streams[k].partial > 0

PartialFlushed == \A s \in Socks : Unfinished(s) ~> ~Unfinished(s)

\* A connection in the listen queue is accepted or dropped (given descriptors).
BacklogServed ==
  \A s \in Socks : sock[s].state = "backlog" ~> sock[s].state # "backlog"
=============================================================================
