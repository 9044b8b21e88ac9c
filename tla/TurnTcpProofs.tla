--------------------------- MODULE TurnTcpProofs ---------------------------
(***************************************************************************)
(* Proofs about the event loop of turnserver-tcp: the slab and the thread, *)
(* the relayed addresses and their leases, the framing of what is written, *)
(* and the wakeups of edge-triggered sources.                              *)
(***************************************************************************)
EXTENDS TurnTcp, TLAPS

HandlerPcs == {"write", "read", "got", "respond"}

\* The slab, the sockets and epoll, on their own.
SlabOK ==
  /\ DOMAIN streams \subseteq Nat
  /\ \A k \in DOMAIN streams : streams[k] \in Conn
  /\ sock \in [Socks -> Sock]
  /\ edge \subseteq Sources
  /\ \A s \in Socks :
       sock[s].state = "open" <=> \E k \in DOMAIN streams : streams[k].stream = s
  /\ \A j, k \in DOMAIN streams : streams[j].stream = streams[k].stream => j = k
  /\ \A s \in edge \cap Socks : sock[s].state = "open"

\* The server's thread.
ThreadOK ==
  /\ pc \in Pcs
  /\ cur \in [key : Nat, readable : BOOLEAN, rest : 0..FrameLen]
  /\ DOMAIN events \subseteq Sources
  /\ \A e \in DOMAIN events :
       events[e] \in [token : Nat, closed : BOOLEAN, writable : BOOLEAN, readable : BOOLEAN]
  /\ slabLen \in Nat
  /\ \A k \in DOMAIN streams : k < slabLen
  /\ pc \in HandlerPcs => cur.key \in DOMAIN streams
  /\ pc = "got" => sock[streams[cur.key].stream].inq > 0

\* The other side of a socket before and after a connection has its type.
LEMMA ClosedType == ClosedSock \in Sock /\ \A s \in Socks : NewSock(s) \in Sock
  BY TcpAssumption DEF ClosedSock, NewSock, Sock

\* Cleanup takes one socket out of the slab and closes it.
LEMMA CleanupSlab ==
  ASSUME SlabOK, NEW key \in DOMAIN streams, Cleanup(key)
  PROVE  SlabOK'
<1> DEFINE s0 == streams[key].stream
<1>0. s0 \in Socks
  BY Zenon DEF SlabOK, Conn
<1>1. /\ DOMAIN streams' = DOMAIN streams \ {key}
      /\ \A k \in DOMAIN streams' : streams'[k] = streams[k]
  BY Zenon DEF Cleanup, Removed
<1>2. /\ sock' \in [Socks -> Sock]
      /\ sock'[s0].state = "closed"
      /\ \A s \in Socks \ {s0} : sock'[s] = sock[s]
  BY <1>0, ClosedType, Zenon DEF Cleanup, SlabOK, ClosedSock
<1>3. edge' = edge \ {s0}
  BY Zenon DEF Cleanup
<1> QED
  BY <1>0, <1>1, <1>2, <1>3 DEF SlabOK

\* Removal takes out one key.
LEMMA RemovedDomain ==
  ASSUME NEW key, Cleanup(key)
  PROVE  DOMAIN streams' = DOMAIN streams \ {key}
  BY Zenon DEF Cleanup, Removed

\* A new partial frame changes nothing else of the slab.
LEMMA PartialQuiet ==
  ASSUME SlabOK, NEW key \in DOMAIN streams, NEW r \in 0..FrameLen,
         streams' = WithPartial(key, r)
  PROVE  /\ DOMAIN streams' = DOMAIN streams
         /\ \A k \in DOMAIN streams : streams'[k] \in Conn /\ streams'[k].stream = streams[k].stream
         /\ streams'[key].partial = r
         /\ \A k \in DOMAIN streams \ {key} : streams'[k] = streams[k]
         /\ \A k \in DOMAIN streams : streams'[k].relayed = streams[k].relayed
  BY DEF SlabOK, WithPartial, Conn

\* What a write that takes something does to the socket.
LEMMA SendQuiet ==
  ASSUME SlabOK, NEW s \in Socks, NEW r \in 0..FrameLen, WriteTakes(s), Send(s, r)
  PROVE  /\ Taken(s, r) \in 0..r
         /\ r > 0 => Taken(s, r) > 0
         /\ sock' \in [Socks -> Sock]
         /\ \A x \in Socks : sock'[x].state = sock[x].state /\ sock'[x].inq = sock[x].inq
         /\ \A x \in Socks : sock'[x].responses = sock[x].responses
         /\ \A x \in Socks \ {s} : sock'[x] = sock[x]
         /\ sock'[s].due = r - Taken(s, r)
         /\ sock[s].due = r \/ (sock[s].due = 0 /\ r = FrameLen) => sock'[s].frames = sock[s].frames
<1>1. sock[s] \in Sock
  BY Zenon DEF SlabOK
<1>2. Taken(s, r) \in 0..r /\ Taken(s, r) <= sock[s].room /\ (r > 0 => Taken(s, r) > 0)
  BY <1>1, TcpAssumption DEF Taken, Sock, WriteTakes
<1>3. sock' \in [Socks -> Sock]
  <2> DEFINE room == sock[s].room - Taken(s, r)
             due == r - Taken(s, r)
             frames == IF sock[s].due = r \/ (sock[s].due = 0 /\ r = FrameLen)
                       THEN sock[s].frames ELSE "torn"
  <2>1. room \in 0..SndBuf /\ due \in 0..FrameLen /\ frames \in {"whole", "torn"}
    BY <1>1, <1>2, TcpAssumption DEF Sock
  <2>2. sock' = [sock EXCEPT ![s].room = room, ![s].due = due, ![s].frames = frames]
    BY Zenon DEF Send
  <2> HIDE DEF room, due, frames
  <2>3. [sock[s] EXCEPT !.room = room, !.due = due, !.frames = frames] \in Sock
    BY <1>1, <2>1, Zenon DEF Sock
  <2>4. /\ sock'[s] = [sock[s] EXCEPT !.room = room, !.due = due, !.frames = frames]
        /\ \A x \in Socks \ {s} : sock'[x] = sock[x]
        /\ sock' = [x \in Socks |-> sock'[x]]
    BY <2>2, Zenon DEF SlabOK
  <2> QED
    BY <2>3, <2>4 DEF SlabOK
<1> QED
  BY <1>1, <1>2, <1>3 DEF SlabOK, Send

\* The locals between two events have their type.
LEMMA IdleType == Idle \in [key : Nat, readable : BOOLEAN, rest : 0..FrameLen]
  BY TcpAssumption DEF Idle

\* A vacant key is not in the slab.
LEMMA VacantFresh ==
  ASSUME ThreadOK, NEW key \in VacantKeys
  PROVE  key \in Nat /\ key \notin DOMAIN streams /\ key <= slabLen
  BY DEF VacantKeys, ThreadOK

\* The frame of a packet is written as far as the send buffer takes it.
TunWrites(key) ==
  LET s == streams[key].stream
  IN  /\ WriteTakes(s)
      /\ Send(s, FrameLen)
      /\ streams' = WithPartial(key, FrameLen - Taken(s, FrameLen))
      /\ UNCHANGED edge

\* A packet for a stream has two outcomes: its frame is written, or the stream is
\* cleaned up.
LEMMA TunRecvCases ==
  ASSUME SlabOK, NEW receiver, TunRecv(receiver)
  PROVE  \E key \in DOMAIN streams :
           /\ streams[key].stream \in Socks /\ streams[key].partial = 0
           /\ TunWrites(key) \/ Cleanup(key)
           /\ pc = "tun" /\ UNCHANGED <<pc, cur, events, slabLen>>
<1>1. PICK key : key = to_index(receiver)
  BY Zenon
<1>2. /\ key \in DOMAIN streams /\ streams[key].partial = 0
      /\ TunWrites(key) \/ Cleanup(key)
      /\ pc = "tun" /\ UNCHANGED <<pc, cur, events, slabLen>>
  BY <1>1, Zenon DEF TunRecv, TunWrites
<1>3. streams[key].stream \in Socks
  BY <1>2, Zenon DEF SlabOK, Conn
<1> QED
  BY <1>2, <1>3, Zenon

\* Every step keeps the slab, epoll and the sockets in agreement, and the
\* thread's locals valid.
LEMMA SlabThreadInductive ==
  ASSUME SlabOK, ThreadOK, [Next]_vars
  PROVE  SlabOK' /\ ThreadOK'
\* When the process ends, the slab is empty and no socket is open.
<1>ExitSlab.
      ASSUME SlabOK, Exit
      PROVE  SlabOK'
  <2> USE <1>ExitSlab
  <2>1. /\ DOMAIN streams' = {}
        /\ edge' = {}
        /\ sock' \in [Socks -> Sock]
        /\ \A s \in Socks : sock'[s].state # "open"
    BY ClosedType DEF Exit, ClosedSock, NewSock
  <2> QED
    BY <2>1, Zenon DEF SlabOK
\* A step that opens and closes no connection.
<1>QuietSlab.
      ASSUME SlabOK,
             sock' \in [Socks -> Sock],
             \A s \in Socks : sock'[s].state = sock[s].state,
             DOMAIN streams' = DOMAIN streams,
             \A k \in DOMAIN streams : streams'[k] \in Conn /\ streams'[k].stream = streams[k].stream,
             edge' \subseteq Sources,
             \A s \in edge' \cap Socks : sock[s].state = "open"
      PROVE  SlabOK'
  BY <1>QuietSlab DEF SlabOK
\* from_index yields an address or None.
<1>FromIndexType.
      \A key \in Nat : from_index(key) \in Address \cup {None}
  <2> SUFFICES ASSUME NEW key \in Nat PROVE from_index(key) \in Address \cup {None}
    BY Zenon
  <2>1. (key \div PortSpan) \in Nat /\ (key % PortSpan) \in 0..(PortSpan - 1)
    BY MappingNew
  <2>2. ((key \div PortSpan) % HostSpan) \in 0..(HostSpan - 1)
    BY <2>1, MappingNew
  <2>3. (key % PortSpan) + PortSpan \in 0..(2 * PortSpan - 1)
    BY <2>1, MappingNew
  <2> QED
    BY <2>2, <2>3, MappingNew, Zenon DEF from_index, Address
\* The thread goes back to the list of events.
<1>EndEventThread.
      ASSUME ThreadOK, EndEvent, slabLen' = slabLen, events' = events,
             DOMAIN streams' \subseteq DOMAIN streams
      PROVE  ThreadOK'
  BY <1>EndEventThread, IdleType, Zenon DEF ThreadOK, EndEvent, HandlerPcs, Pcs
\* Taking an event out of the batch keeps the others' types.
<1>HandledThread.
      ASSUME ThreadOK, NEW e, events' = Handled(e)
      PROVE  /\ DOMAIN events' \subseteq Sources
             /\ \A x \in DOMAIN events' :
                  events'[x] \in [token : Nat, closed : BOOLEAN, writable : BOOLEAN, readable : BOOLEAN]
  BY <1>HandledThread, Zenon DEF ThreadOK, Handled
\* poll reports edges of open sockets only.
<1>PollStep.
      ASSUME SlabOK, ThreadOK, Poll
      PROVE  SlabOK' /\ ThreadOK'
  <2> USE <1>PollStep
  <2>1. SlabOK'
    BY Zenon DEF Poll, SlabOK
  <2>2. ASSUME NEW e \in edge
        PROVE  events'[e] \in [token : Nat, closed : BOOLEAN, writable : BOOLEAN, readable : BOOLEAN]
    <3>1. CASE e \in Socks
      <4>1. \E k \in DOMAIN streams : streams[k].stream = e
        BY <3>1, Zenon DEF SlabOK
      <4>2. (CHOOSE k \in DOMAIN streams : streams[k].stream = e) \in Nat
        BY <4>1, Zenon DEF SlabOK
      <4>3. events'[e] = Readiness(e)
        BY <3>1, Zenon DEF Poll
      <4> QED
        BY <4>2, <4>3 DEF Readiness
    <3>2. CASE e \notin Socks
      BY <3>2, Zenon DEF Poll, NoReadiness
    <3> QED
      BY <3>1, <3>2, Zenon
  <2>3. DOMAIN events' = edge /\ edge \subseteq Sources
    BY Zenon DEF Poll, SlabOK
  <2>4. ThreadOK'
    BY <2>2, <2>3, Zenon DEF Poll, ThreadOK, HandlerPcs
  <2> QED
    BY <2>1, <2>4, Zenon
\* The dispatch on the token, with the read-closed test.
<1>DispatchStep.
      ASSUME SlabOK, ThreadOK, NEW e \in Socks, DispatchStream(e)
      PROVE  SlabOK' /\ ThreadOK'
  <2> USE <1>DispatchStep
  <2> DEFINE ev == events[e]
  <2>1. /\ DOMAIN events' \subseteq Sources
        /\ \A x \in DOMAIN events' :
             events'[x] \in [token : Nat, closed : BOOLEAN, writable : BOOLEAN, readable : BOOLEAN]
    BY <1>HandledThread, Zenon DEF DispatchStream
  <2>2. ev \in [token : Nat, closed : BOOLEAN, writable : BOOLEAN, readable : BOOLEAN]
    BY Zenon DEF DispatchStream, ThreadOK
  <2>3. CASE UNCHANGED <<pc, cur, streams, sock, edge>>
    BY <2>1, <2>3 DEF DispatchStream, SlabOK, ThreadOK, HandlerPcs
  <2>4. CASE ev.token \in DOMAIN streams /\ Cleanup(ev.token) /\ UNCHANGED <<pc, cur>>
    BY <2>1, <2>4, CleanupSlab, RemovedDomain, Zenon DEF DispatchStream, ThreadOK, HandlerPcs
  <2>5. CASE /\ ev.token \in DOMAIN streams
             /\ pc' = IF ev.writable THEN "write" ELSE "read"
             /\ cur' = [key |-> ev.token, readable |-> ev.readable, rest |-> 0]
             /\ UNCHANGED <<streams, sock, edge>>
    <3>1. cur' \in [key : Nat, readable : BOOLEAN, rest : 0..FrameLen] /\ cur'.key = ev.token
      BY <2>2, <2>5, TcpAssumption
    <3>2. pc' \in {"write", "read"}
      BY <2>5, Zenon
    <3>3. slabLen' = slabLen
      BY Zenon DEF DispatchStream
    <3> QED
      BY <2>1, <2>5, <3>1, <3>2, <3>3 DEF SlabOK, ThreadOK, HandlerPcs, Pcs
  <2> QED
    BY <2>3, <2>4, <2>5, Zenon DEF DispatchStream
\* A connection is accepted, or dropped when the addresses are used up.
<1>AcceptStep.
      ASSUME SlabOK, ThreadOK, NEW s \in Socks, NEW key \in VacantKeys, Accept(s, key)
      PROVE  SlabOK' /\ ThreadOK'
  <2> USE <1>AcceptStep
  <2>1. key \in Nat /\ key \notin DOMAIN streams /\ key <= slabLen
    BY VacantFresh, Zenon
  <2>2. CASE UNCHANGED <<streams, slabLen, edge>> /\ sock' = [sock EXCEPT ![s] = ClosedSock]
    <3>1. sock[s].state # "open" /\ sock'[s].state # "open" /\ sock' \in [Socks -> Sock]
      BY <2>2, ClosedType, Zenon DEF Accept, SlabOK, ClosedSock
    <3>2. \A x \in Socks \ {s} : sock'[x] = sock[x]
      BY <2>2, Zenon DEF SlabOK
    <3>3. SlabOK'
      BY <2>2, <3>1, <3>2 DEF SlabOK
    <3>4. ThreadOK'
      BY <2>2, Zenon DEF Accept, ThreadOK, HandlerPcs
    <3> QED
      BY <3>3, <3>4, Zenon
  <2>3. CASE /\ from_index(key) # None
             /\ streams' = Inserted(key, [relayed |-> from_index(key), partial |-> 0, stream |-> s])
             /\ slabLen' = IF key = slabLen THEN slabLen + 1 ELSE slabLen
             /\ sock' = [sock EXCEPT ![s].state = "open"]
             /\ edge' = edge \cup {s}
    <3> DEFINE conn == [relayed |-> from_index(key), partial |-> 0, stream |-> s]
    <3>1. conn \in Conn /\ conn.stream = s
      BY <2>1, <2>3, <1>FromIndexType, TcpAssumption DEF Conn
    <3>2. /\ DOMAIN streams' = DOMAIN streams \cup {key}
          /\ streams'[key] = conn
          /\ \A k \in DOMAIN streams : streams'[k] = streams[k]
      BY <2>1, <2>3, Zenon DEF Inserted
    <3> HIDE DEF conn
    <3>3. sock[s].state # "open"
      BY Zenon DEF Accept
    <3>4. /\ sock' \in [Socks -> Sock]
          /\ sock'[s].state = "open"
          /\ \A x \in Socks \ {s} : sock'[x] = sock[x]
      BY <2>3 DEF SlabOK, Sock
    <3>5. SlabOK'
      <4>1. /\ DOMAIN streams' \subseteq Nat
            /\ \A k \in DOMAIN streams' : streams'[k] \in Conn
            /\ edge' \subseteq Sources
        BY <2>1, <2>3, <3>1, <3>2, Zenon DEF SlabOK, Sources
      <4>2. \A x \in Socks :
              sock'[x].state = "open" <=> \E k \in DOMAIN streams' : streams'[k].stream = x
        BY <2>1, <3>1, <3>2, <3>4 DEF SlabOK
      <4>3. \A j, k \in DOMAIN streams' : streams'[j].stream = streams'[k].stream => j = k
        BY <3>1, <3>2, <3>3 DEF SlabOK
      <4>4. \A x \in edge' \cap Socks : sock'[x].state = "open"
        BY <2>3, <3>4, Zenon DEF SlabOK
      <4> QED
        BY <3>4, <4>1, <4>2, <4>3, <4>4, Zenon DEF SlabOK
    <3>6. slabLen' \in Nat /\ \A k \in DOMAIN streams' : k < slabLen'
      BY <2>1, <2>3, <3>2 DEF ThreadOK, SlabOK
    <3>7. ThreadOK'
      BY <3>6, Zenon DEF Accept, ThreadOK, HandlerPcs
    <3> QED
      BY <3>5, <3>7, Zenon
  <2> QED
    BY <2>2, <2>3, Zenon DEF Accept
\* A packet is written to a stream as a frame.
<1>TunRecvStep.
      ASSUME SlabOK, ThreadOK, NEW receiver, TunRecv(receiver)
      PROVE  SlabOK' /\ ThreadOK'
  <2> USE <1>TunRecvStep
  <2>1. PICK key \in DOMAIN streams :
          /\ streams[key].stream \in Socks
          /\ TunWrites(key) \/ Cleanup(key)
          /\ pc = "tun" /\ UNCHANGED <<pc, cur, events, slabLen>>
    BY TunRecvCases, Zenon
  <2> DEFINE s == streams[key].stream
             rest == FrameLen - Taken(s, FrameLen)
  <2>2. CASE TunWrites(key)
    <3>1. /\ WriteTakes(s) /\ Send(s, FrameLen) /\ FrameLen \in 0..FrameLen
          /\ streams' = WithPartial(key, rest) /\ UNCHANGED edge
      BY <2>2, TcpAssumption DEF TunWrites
    <3>2. rest \in 0..FrameLen
      BY <2>1, <3>1, SendQuiet, TcpAssumption
    <3> HIDE DEF rest
    <3>3. SlabOK'
      BY <2>1, <3>1, <3>2, SendQuiet, PartialQuiet, <1>QuietSlab, Zenon DEF SlabOK
    <3>4. ThreadOK'
      BY <2>1, <3>1, <3>2, PartialQuiet, Zenon DEF ThreadOK, HandlerPcs
    <3> QED
      BY <3>3, <3>4, Zenon
  <2>3. CASE Cleanup(key)
    BY <2>1, <2>3, CleanupSlab, RemovedDomain, Zenon DEF ThreadOK, HandlerPcs
  <2> QED
    BY <2>1, <2>2, <2>3, Zenon
\* A partial frame is continued.
<1>FlushStep.
      ASSUME SlabOK, ThreadOK, Flush
      PROVE  SlabOK' /\ ThreadOK'
  <2> USE <1>FlushStep
  <2> DEFINE s == streams[cur.key].stream
             r == streams[cur.key].partial
  <2>1. cur.key \in DOMAIN streams /\ s \in Socks /\ r \in 0..FrameLen
    BY Zenon DEF Flush, ThreadOK, HandlerPcs, SlabOK, Conn
  <2>2. CASE ThenRead /\ UNCHANGED <<streams, sock, edge>>
    <3>1. SlabOK'
      BY <2>2, Zenon DEF SlabOK
    <3>2. ThreadOK'
      BY <2>1, <2>2, <1>EndEventThread, Zenon DEF Flush, ThenRead, ThreadOK, HandlerPcs, Pcs
    <3> QED
      BY <3>1, <3>2, Zenon
  <2>3. CASE /\ WriteTakes(s) /\ Send(s, r)
             /\ streams' = WithPartial(cur.key, r - Taken(s, r))
             /\ IF Taken(s, r) = r THEN ThenRead ELSE UNCHANGED <<pc, cur>>
             /\ UNCHANGED edge
    <3>1. r - Taken(s, r) \in 0..FrameLen
      BY <2>1, <2>3, SendQuiet, TcpAssumption, SMTT(60)
    <3>2. SlabOK'
      <4>1. sock' \in [Socks -> Sock] /\ \A x \in Socks : sock'[x].state = sock[x].state
        BY <2>1, <2>3, SendQuiet, Zenon
      <4>2. /\ DOMAIN streams' = DOMAIN streams
            /\ \A k \in DOMAIN streams : streams'[k] \in Conn /\ streams'[k].stream = streams[k].stream
        BY <2>1, <2>3, <3>1, PartialQuiet, Zenon
      <4> QED
        BY <2>3, <4>1, <4>2, <1>QuietSlab, Zenon DEF SlabOK
    <3>3. DOMAIN streams' = DOMAIN streams
      BY <2>1, <2>3, <3>1, PartialQuiet, Zenon
    <3>4. ThreadOK'
      BY <2>1, <2>3, <3>3, <1>EndEventThread, Zenon DEF Flush, ThenRead, ThreadOK, HandlerPcs, Pcs
    <3> QED
      BY <3>2, <3>4, Zenon
  <2>4. CASE Cleanup(cur.key) /\ EndEvent
    BY <2>1, <2>4, CleanupSlab, RemovedDomain, <1>EndEventThread, Zenon DEF Flush
  <2> QED
    BY <2>2, <2>3, <2>4, Zenon DEF Flush
\* A message is peeked at.
<1>PeekStep.
      ASSUME SlabOK, ThreadOK, Peek
      PROVE  SlabOK' /\ ThreadOK'
  <2> USE <1>PeekStep
  <2> DEFINE s == streams[cur.key].stream
  <2>1. cur.key \in DOMAIN streams /\ s \in Socks
    BY Zenon DEF Peek, ThreadOK, HandlerPcs, SlabOK, Conn
  <2>2. CASE EndEvent /\ UNCHANGED <<streams, sock, edge>>
    BY <2>2, <1>EndEventThread, Zenon DEF Peek, SlabOK
  <2>3. CASE sock[s].inq > 0 /\ pc' = "got" /\ UNCHANGED <<cur, streams, sock, edge>>
    BY <2>1, <2>3, SMTT(60) DEF Peek, SlabOK, ThreadOK, HandlerPcs, Pcs
  <2>4. CASE Cleanup(cur.key) /\ EndEvent
    BY <2>1, <2>4, CleanupSlab, RemovedDomain, <1>EndEventThread, Zenon DEF Peek
  <2> QED
    BY <2>2, <2>3, <2>4, Zenon DEF Peek
\* A message is read and handled.
<1>ReadStep.
      ASSUME SlabOK, ThreadOK, NEW m, Read(m)
      PROVE  SlabOK' /\ ThreadOK'
  <2> USE <1>ReadStep
  <2> DEFINE s == streams[cur.key].stream
  <2>1. cur.key \in DOMAIN streams /\ s \in Socks /\ sock[s].inq > 0 /\ sock[s] \in Sock
    BY Zenon DEF Read, ThreadOK, HandlerPcs, SlabOK, Conn
  <2>2. sock' = [sock EXCEPT ![s].inq = sock[s].inq - 1]
    BY Zenon DEF Read
  <2>3. sock[s].inq - 1 \in Nat
    BY <2>1 DEF Sock
  <2>4. sock' \in [Socks -> Sock] /\ \A x \in Socks : sock'[x].state = sock[x].state
    BY <2>1, <2>2, <2>3, SMTT(60) DEF SlabOK, Sock
  <2>5. SlabOK'
    BY <2>4, <1>QuietSlab, Zenon DEF Read, SlabOK
  <2>6. cur' \in [key : Nat, readable : BOOLEAN, rest : 0..FrameLen] /\ cur'.key = cur.key
    BY TcpAssumption DEF Read, ThreadOK
  <2>7. ThreadOK'
    BY <2>1, <2>6, Zenon DEF Read, ThreadOK, HandlerPcs, Pcs
  <2> QED
    BY <2>5, <2>7, Zenon
\* One turn of the loop that writes a response.
<1>RespondStep.
      ASSUME SlabOK, ThreadOK, Respond
      PROVE  SlabOK' /\ ThreadOK'
  <2> USE <1>RespondStep
  <2> DEFINE s == streams[cur.key].stream
             left == cur.rest - Taken(s, cur.rest)
  <2>1. cur.key \in DOMAIN streams /\ s \in Socks /\ cur.rest \in 0..FrameLen
    BY Zenon DEF Respond, ThreadOK, HandlerPcs, SlabOK, Conn
  <2>2. CASE /\ WriteTakes(s) /\ Send(s, cur.rest)
             /\ cur' = [cur EXCEPT !.rest = left]
             /\ pc' = IF left = 0 THEN "read" ELSE "respond"
             /\ UNCHANGED <<streams, edge>>
    <3>1. left \in 0..FrameLen
      BY <2>1, <2>2, SendQuiet, TcpAssumption
    <3>2. SlabOK'
      BY <2>1, <2>2, SendQuiet, <1>QuietSlab, Zenon DEF SlabOK
    <3>3. cur' \in [key : Nat, readable : BOOLEAN, rest : 0..FrameLen] /\ cur'.key = cur.key
      BY <2>2, <3>1, Zenon DEF ThreadOK
    <3>4. pc' \in {"read", "respond"}
      BY <2>2, Zenon
    <3>5. ThreadOK'
      BY <2>1, <2>2, <3>3, <3>4, Zenon DEF Respond, ThreadOK, HandlerPcs, Pcs
    <3> QED
      BY <3>2, <3>5, Zenon
  <2>3. CASE /\ streams' = WithPartial(cur.key, cur.rest)
             /\ sock' = [sock EXCEPT ![s].responses = "blocked"]
             /\ UNCHANGED <<pc, cur, edge>>
    <3>1. sock' \in [Socks -> Sock] /\ \A x \in Socks : sock'[x].state = sock[x].state
      BY <2>1, <2>3, SMTT(60) DEF SlabOK, Sock
    <3>2. SlabOK'
      BY <2>1, <2>3, <3>1, PartialQuiet, <1>QuietSlab, Zenon DEF SlabOK
    <3>3. ThreadOK'
      BY <2>1, <2>3, PartialQuiet, Zenon DEF Respond, ThreadOK, HandlerPcs
    <3> QED
      BY <3>2, <3>3, Zenon
  <2>4. CASE Cleanup(cur.key) /\ EndEvent
    BY <2>1, <2>4, CleanupSlab, RemovedDomain, <1>EndEventThread, Zenon DEF Respond
  <2> QED
    BY <2>2, <2>3, <2>4, Zenon DEF Respond
\* What clients do leaves the slab alone.
<1>ClientStep.
      ASSUME SlabOK, ThreadOK, NEW s \in Socks, Client(s)
      PROVE  SlabOK' /\ ThreadOK'
  <2> USE <1>ClientStep
  <2>1. sock[s] \in Sock
    BY Zenon DEF SlabOK
  <2>2. CASE Connect(s)
    <3>1. /\ sock' \in [Socks -> Sock]
          /\ sock'[s].state # "open" /\ sock[s].state # "open"
          /\ \A x \in Socks \ {s} : sock'[x] = sock[x]
          /\ sock'[s].inq = sock[s].inq
      BY <2>1, <2>2 DEF Connect, SlabOK, Sock
    <3>2. edge' = edge \cup {TCP} /\ edge' \subseteq Sources
      BY <2>2, Zenon DEF Connect, SlabOK, Sources
    <3>3. SlabOK'
      BY <2>2, <3>1, <3>2, TcpAssumption DEF Connect, SlabOK
    <3>4. ThreadOK'
      BY <2>2, <3>1, Zenon DEF Connect, ThreadOK, HandlerPcs, SlabOK, Conn
    <3> QED
      BY <3>3, <3>4, Zenon
  <2>3. ASSUME sock' \in [Socks -> Sock],
               \A x \in Socks : sock'[x].state = sock[x].state /\ sock'[x].inq >= sock[x].inq,
               Notice(s) \/ edge' = edge,
               UNCHANGED <<pc, cur, events, streams, slabLen>>
        PROVE  SlabOK' /\ ThreadOK'
    <3>1. SlabOK'
      BY <2>3, <1>QuietSlab, Zenon DEF Notice, SlabOK, Sources
    <3>2. ASSUME pc = "got" PROVE sock'[streams[cur.key].stream].inq > 0
      <4> DEFINE x == streams[cur.key].stream
      <4>1. x \in Socks /\ sock[x].inq > 0
        BY <3>2, Zenon DEF ThreadOK, HandlerPcs, SlabOK, Conn
      <4>2. sock[x].inq \in Nat /\ sock'[x].inq \in Nat
        BY <2>3, <4>1, Zenon DEF SlabOK, Sock
      <4> QED
        BY <2>3, <4>1, <4>2
    <3>3. ThreadOK'
      BY <2>3, <3>2, Zenon DEF ThreadOK, HandlerPcs
    <3> QED
      BY <3>1, <3>3, Zenon
  <2>4. CASE ArriveHalf(s)
    <3>1. sock' \in [Socks -> Sock] /\ \A x \in Socks : sock'[x].state = sock[x].state /\ sock'[x].inq = sock[x].inq
      BY <2>1, <2>4 DEF ArriveHalf, SlabOK, Sock
    <3> QED
      BY <2>3, <2>4, <3>1, SMTT(60) DEF ArriveHalf, SlabOK, Sock
  <2>5. CASE ArriveRest(s)
    <3>1. /\ sock' \in [Socks -> Sock]
          /\ \A x \in Socks : sock'[x].state = sock[x].state /\ sock'[x].inq >= sock[x].inq
      BY <2>1, <2>5 DEF ArriveRest, SlabOK, Sock
    <3> QED
      BY <2>3, <2>5, <3>1, Zenon DEF ArriveRest
  <2>6. CASE Hangup(s)
    <3>1. sock' \in [Socks -> Sock] /\ \A x \in Socks : sock'[x].state = sock[x].state /\ sock'[x].inq = sock[x].inq
      BY <2>1, <2>6 DEF Hangup, SlabOK, Sock
    <3> QED
      BY <2>3, <2>6, <3>1 DEF Hangup, SlabOK, Sock
  <2>7. CASE Drain(s)
    <3>1. sock' \in [Socks -> Sock] /\ \A x \in Socks : sock'[x].state = sock[x].state /\ sock'[x].inq = sock[x].inq
      BY <2>1, <2>7, TcpAssumption DEF Drain, SlabOK, Sock
    <3> QED
      BY <2>3, <2>7, <3>1 DEF Drain, SlabOK, Sock
  <2> QED
    BY <2>2, <2>4, <2>5, <2>6, <2>7, Zenon DEF Client
\* The process ends.
<1>ExitStep.
      ASSUME SlabOK, ThreadOK, Exit
      PROVE  SlabOK' /\ ThreadOK'
  <2> USE <1>ExitStep
  <2>1. ThreadOK'
    BY IdleType DEF Exit, ThreadOK, HandlerPcs, Pcs
  <2> QED
    BY <2>1, <1>ExitSlab, Zenon
<1>1. CASE UNCHANGED vars
  BY <1>1, Zenon DEF vars, SlabOK, ThreadOK, HandlerPcs
<1>2. CASE DispatchListener
  BY <1>2, <1>HandledThread, Zenon DEF DispatchListener, SlabOK, ThreadOK, HandlerPcs, Pcs
<1>3. CASE DispatchTun
  BY <1>3, <1>HandledThread DEF DispatchTun, SlabOK, ThreadOK, HandlerPcs, Pcs
<1>4. CASE AcceptFails
  BY <1>4, Zenon DEF AcceptFails, SlabOK, ThreadOK, HandlerPcs, Pcs
<1>5. CASE TunEmpty
  BY <1>5 DEF TunEmpty, SlabOK, ThreadOK, HandlerPcs, Pcs
<1>6. CASE Restart
  BY <1>6, Zenon DEF Restart, SlabOK, ThreadOK, HandlerPcs, Pcs
<1>7. CASE TunReady
  BY <1>7, TcpAssumption DEF TunReady, SlabOK, ThreadOK, HandlerPcs, Sources
<1>8. CASE ReadShort
  <2>1. cur.key \in DOMAIN streams
    BY <1>8, Zenon DEF ReadShort, ThreadOK, HandlerPcs
  <2> QED
    BY <1>8, <2>1, CleanupSlab, RemovedDomain, <1>EndEventThread, Zenon DEF ReadShort
<1>9. CASE Failure
  BY <1>9, <1>ExitStep, Zenon DEF Failure, PollFails, SetupFails, ReadFails
<1>10. CASE \E s \in Socks : \E key \in VacantKeys : Accept(s, key)
  BY <1>10, <1>AcceptStep, Zenon
<1>11. CASE \E m \in Messages \cap {"request", "indication"} : Read(m)
  BY <1>11, <1>ReadStep, Zenon
<1> QED
  BY Zenon, <1>1, <1>2, <1>3, <1>4, <1>5, <1>6, <1>7, <1>8, <1>9, <1>10, <1>11,
     <1>PollStep, <1>DispatchStep, <1>TunRecvStep, <1>FlushStep, <1>PeekStep, <1>RespondStep, <1>ClientStep
  DEF Next, ServerStep

\* The server starts with an empty slab.
LEMMA SlabThreadInit == Init => SlabOK /\ ThreadOK
<1> SUFFICES ASSUME Init PROVE SlabOK /\ ThreadOK
  BY Zenon
<1>1. SlabOK
  BY ClosedType DEF Init, SlabOK, NewSock
<1>2. ThreadOK
  BY IdleType DEF Init, ThreadOK, HandlerPcs, Pcs
<1> QED
  BY <1>1, <1>2, Zenon

\* SlabOK and ThreadOK are inductive together.
LEMMA SlabThreadInvariant == Spec => [](SlabOK /\ ThreadOK)
  BY SlabThreadInit, SlabThreadInductive, PTL DEF Spec

\* The variables keep their types in every reachable state.
THEOREM TypeCorrect == Spec => []TypeOK
<1>1. SlabOK /\ ThreadOK => TypeOK
  BY Zenon DEF SlabOK, ThreadOK, TypeOK
<1> QED
  BY <1>1, SlabThreadInvariant, PTL

\* Accepted connections and slab entries correspond one to one, for any number
\* of clients and whatever they do.
THEOREM NoLeakHolds == Spec => []NoLeak
<1>1. SlabOK /\ ThreadOK => NoLeak
  BY Zenon DEF SlabOK, ThreadOK, NoLeak, HandlerPcs
<1> QED
  BY <1>1, SlabThreadInvariant, PTL

-----------------------------------------------------------------------------
(* Relayed addresses *)

\* A key below the subnet's capacity that has an address is found again from it.
LEMMA RoundTrip ==
  \A key \in 0..(Capacity - 1) : from_index(key) # None => to_index(from_index(key)) = key
<1> SUFFICES ASSUME NEW key \in 0..(PortSpan * HostSpan - 1), from_index(key) # None
             PROVE  to_index(from_index(key)) = key
  BY Zenon DEF Capacity
<1> DEFINE host == key \div PortSpan
           port == key % PortSpan
<1>1. /\ key = PortSpan * host + port
      /\ port \in 0..(PortSpan - 1)
      /\ host \in 0..(HostSpan - 1)
  BY MappingNew
<1>2. host % HostSpan = host /\ (port + PortSpan) % PortSpan = port
  BY <1>1, MappingNew
<1>3. from_index(key) = [prefix |-> Prefix, host |-> host, port |-> port + PortSpan]
  BY <1>2, Zenon DEF from_index
<1>4. to_index(from_index(key)) = (host * PortSpan + port) % UsizeSpan
  BY <1>2, <1>3 DEF to_index
<1>5. host * PortSpan + port = key
  BY <1>1, MappingNew
<1>6. key % UsizeSpan = key
  BY MappingNew
<1> QED
  BY <1>4, <1>5, <1>6, Zenon

RoutesInv ==
  /\ slabLen <= Capacity
  /\ \A k \in DOMAIN streams : streams[k].relayed = from_index(k)

\* Keys stay below the capacity of the subnet.
LEMMA RoutesInductive ==
  ASSUME Prefix % 2 = 0, SlabOK, ThreadOK, RoutesInv, [Next]_vars
  PROVE  RoutesInv'
\* The first key past the capacity is refused when the lowest network bit is 0.
<1>FullSubnet.
      Prefix % 2 = 0 => from_index(Capacity) = None
  <2>1. (PortSpan * HostSpan) \div PortSpan = HostSpan /\ HostSpan \div HostSpan = 1
    BY MappingNew
  <2> QED
    BY <2>1, MappingNew DEF from_index, Absorbed, Capacity
\* Only Accept adds an entry; the other steps keep addresses.
<1>AddressesKept.
      ASSUME SlabOK, ThreadOK, [Next]_vars,
             ~ \E s \in Socks : \E key \in VacantKeys : Accept(s, key)
      PROVE  /\ slabLen' = slabLen \/ slabLen' = 0
             /\ DOMAIN streams' \subseteq DOMAIN streams
             /\ \A k \in DOMAIN streams' : streams'[k].relayed = streams[k].relayed
  <2> USE <1>AddressesKept
  <2> DEFINE Goal == /\ slabLen' = slabLen \/ slabLen' = 0
                     /\ DOMAIN streams' \subseteq DOMAIN streams
                     /\ \A k \in DOMAIN streams' : streams'[k].relayed = streams[k].relayed
  <2> SUFFICES Goal
    BY Zenon
  <2>1. ASSUME slabLen' = slabLen, streams' = streams PROVE Goal
    BY <2>1, Zenon
  <2>2. ASSUME slabLen' = slabLen, NEW key, Cleanup(key) PROVE Goal
    BY <2>2, Zenon DEF Cleanup, Removed
  <2>3. ASSUME slabLen' = slabLen, NEW key \in Nat, NEW r, streams' = WithPartial(key, r) PROVE Goal
    BY <2>3 DEF WithPartial, SlabOK, Conn
  <2>4. ASSUME Exit PROVE Goal
    BY <2>4 DEF Exit
  <2> HIDE DEF Goal
  <2>5. CASE UNCHANGED vars
    BY <2>1, <2>5, Zenon DEF vars
  <2>6. CASE Poll \/ DispatchListener \/ DispatchTun \/ AcceptFails \/ TunEmpty \/ Restart \/ TunReady
    BY <2>1, <2>6, Zenon DEF Poll, DispatchListener, DispatchTun, AcceptFails, TunEmpty, Restart, TunReady
  <2>7. CASE \E e \in Socks : DispatchStream(e)
    BY <2>1, <2>2, <2>7, Zenon DEF DispatchStream
  <2>8. CASE \E receiver \in Receivers : TunRecv(receiver)
    <3>1. PICK receiver \in Receivers : TunRecv(receiver)
      BY <2>8, Zenon
    <3>2. to_index(receiver) \in Nat
      BY <3>1, Zenon DEF TunRecv, SlabOK
    <3> QED
      BY <2>2, <2>3, <3>1, <3>2, Zenon DEF TunRecv
  <2>9. CASE Flush \/ Respond
    <3>1. cur.key \in Nat
      BY Zenon DEF ThreadOK
    <3> QED
      BY <2>1, <2>2, <2>3, <2>9, <3>1, Zenon DEF Flush, Respond
  <2>10. CASE Peek \/ ReadShort \/ \E m \in Messages \cap {"request", "indication"} : Read(m)
    BY <2>1, <2>2, <2>10, Zenon DEF Peek, ReadShort, Read
  <2>11. CASE Failure
    BY <2>4, <2>11, Zenon DEF Failure, PollFails, SetupFails, ReadFails
  <2>12. CASE \E s \in Socks : Client(s)
    BY <2>1, <2>12, Zenon DEF Client, Connect, ArriveHalf, ArriveRest, Hangup, Drain
  <2> QED
    BY <2>5, <2>6, <2>7, <2>8, <2>9, <2>10, <2>11, <2>12, Zenon DEF Next, ServerStep
<1>0. Capacity \in Nat /\ slabLen \in Nat
  BY MappingNew DEF Capacity, ThreadOK
<1>1. CASE \E s \in Socks : \E key \in VacantKeys : Accept(s, key)
  <2>1. PICK s \in Socks, key \in VacantKeys : Accept(s, key)
    BY <1>1, Zenon
  <2>2. CASE UNCHANGED <<streams, slabLen>>
    BY <2>2, Zenon DEF RoutesInv
  <2>3. CASE /\ from_index(key) # None
             /\ streams' = Inserted(key, [relayed |-> from_index(key), partial |-> 0, stream |-> s])
             /\ slabLen' = IF key = slabLen THEN slabLen + 1 ELSE slabLen
    <3>1. slabLen' <= Capacity
      BY <1>0, <2>3, <1>FullSubnet DEF RoutesInv
    <3>2. \A k \in DOMAIN streams' : streams'[k].relayed = from_index(k)
      BY <2>3, Zenon DEF Inserted, RoutesInv
    <3> QED
      BY <3>1, <3>2, Zenon DEF RoutesInv
  <2> QED
    BY <2>1, <2>2, <2>3, Zenon DEF Accept
<1>2. CASE ~ \E s \in Socks : \E key \in VacantKeys : Accept(s, key)
  BY <1>0, <1>2, <1>AddressesKept DEF RoutesInv
<1> QED
  BY <1>1, <1>2, Zenon

\* With a subnet whose lowest network bit is 0, the address each live client
\* was given leads back to it, for every subnet size and any number of clients.
THEOREM RoutesBackHolds == Prefix % 2 = 0 => (Spec => []RoutesBack)
<1> SUFFICES ASSUME Prefix % 2 = 0 PROVE Spec => []RoutesBack
  BY Zenon
<1>1. Init => RoutesInv
  BY MappingNew DEF Init, RoutesInv, Capacity
<1>2. SlabOK /\ ThreadOK /\ RoutesInv => RoutesBack
  <2> SUFFICES ASSUME SlabOK, ThreadOK, RoutesInv, NEW k \in DOMAIN streams
               PROVE  to_index(streams[k].relayed) = k
    BY Zenon DEF RoutesBack
  <2>1. k \in 0..(Capacity - 1)
    BY MappingNew DEF SlabOK, ThreadOK, RoutesInv, Capacity
  <2>2. from_index(k) # None
    BY NoneIsNoAddress DEF SlabOK, RoutesInv, Conn
  <2> QED
    BY <2>1, <2>2, RoundTrip, Zenon DEF RoutesInv
<1> QED
  BY <1>1, <1>2, RoutesInductive, SlabThreadInvariant, PTL DEF Spec

-----------------------------------------------------------------------------
(* Leases *)

\* An open connection holds the address of its entry.
LEMMA HolderOf ==
  ASSUME SlabOK, NEW k \in DOMAIN streams
  PROVE  /\ streams[k].stream \in Socks /\ sock[streams[k].stream].state = "open"
         /\ streams[k].stream \in DOMAIN Held
         /\ Held[streams[k].stream] = streams[k].relayed
<1>1. streams[k].stream \in Socks /\ sock[streams[k].stream].state = "open"
  BY Zenon DEF SlabOK, Conn
<1>2. (CHOOSE j \in DOMAIN streams : streams[j].stream = streams[k].stream) = k
  BY Zenon DEF SlabOK
<1> QED
  BY <1>1, <1>2, Zenon DEF Held

\* The same, after a step.
LEMMA HolderOfNext ==
  ASSUME SlabOK', NEW k \in DOMAIN streams'
  PROVE  /\ streams'[k].stream \in Socks /\ sock'[streams'[k].stream].state = "open"
         /\ streams'[k].stream \in DOMAIN Held'
         /\ Held'[streams'[k].stream] = streams'[k].relayed
<1>1. streams'[k].stream \in Socks /\ sock'[streams'[k].stream].state = "open"
  BY Zenon DEF SlabOK, Conn
<1>2. (CHOOSE j \in DOMAIN streams' : streams'[j].stream = streams'[k].stream) = k
  BY Zenon DEF SlabOK
<1> QED
  BY <1>1, <1>2, Zenon DEF Held

\* What a step does to the leases of the connections that are open before and
\* after it: nothing, as long as it leaves their entries' addresses alone.
LEMMA LeaseKept ==
  ASSUME SlabOK, SlabOK',
         \A k \in DOMAIN streams \cap DOMAIN streams' :
           streams'[k].stream = streams[k].stream /\ streams'[k].relayed = streams[k].relayed,
         DOMAIN streams \subseteq DOMAIN streams' \/ DOMAIN streams' \subseteq DOMAIN streams
  PROVE  \A s \in DOMAIN Held \cap DOMAIN Held' : Held'[s] = Held[s]
<1> SUFFICES ASSUME NEW s \in DOMAIN Held \cap DOMAIN Held' PROVE Held'[s] = Held[s]
  BY Zenon
<1>1. PICK k \in DOMAIN streams : streams[k].stream = s
  BY Zenon DEF Held, SlabOK
<1>2. PICK j \in DOMAIN streams' : streams'[j].stream = s
  BY Zenon DEF Held, SlabOK
<1>3. k \in DOMAIN streams' \/ j \in DOMAIN streams
  BY Zenon
<1>4. /\ \A x, y \in DOMAIN streams : streams[x].stream = streams[y].stream => x = y
      /\ \A x, y \in DOMAIN streams' : streams'[x].stream = streams'[y].stream => x = y
  BY Zenon DEF SlabOK
<1>5. j = k
  BY <1>1, <1>2, <1>3, <1>4, Zenon
<1> QED
  BY <1>1, <1>2, <1>5, HolderOf, HolderOfNext, Zenon

\* A step that opens and closes no connection and changes no address.
LEMMA QuietLease ==
  ASSUME SlabOK, SlabOK',
         \A s \in Socks : sock'[s].state = sock[s].state \/ {sock[s].state, sock'[s].state} = {"new", "backlog"},
         DOMAIN streams' = DOMAIN streams,
         \A k \in DOMAIN streams :
           streams'[k].stream = streams[k].stream /\ streams'[k].relayed = streams[k].relayed
  PROVE  UNCHANGED <<Held, Gone>>
<1>0. \A s \in Socks : /\ sock'[s].state = "open" <=> sock[s].state = "open"
                       /\ sock'[s].state = "closed" <=> sock[s].state = "closed"
  BY Zenon
<1>1. Gone' = Gone
  BY <1>0, Zenon DEF Gone
<1>2. DOMAIN Held' = DOMAIN Held
  BY <1>0, Zenon DEF Held
<1>3. \A s \in DOMAIN Held : Held'[s] = Held[s]
  BY <1>2, LeaseKept, Zenon
<1>4. Held = [s \in DOMAIN Held |-> Held[s]] /\ Held' = [s \in DOMAIN Held' |-> Held'[s]]
  BY DEF Held
<1> QED
  BY <1>1, <1>2, <1>3, <1>4, Zenon

\* A connection that is cleaned up gives back its address, and its alone.
LEMMA CleanupLease ==
  ASSUME SlabOK, SlabOK', NEW key \in DOMAIN streams, Cleanup(key)
  PROVE  Lessor!Next
<1> DEFINE s0 == streams[key].stream
<1>1. s0 \in Socks
  BY HolderOf, Zenon
<1>2. /\ DOMAIN streams' \subseteq DOMAIN streams
      /\ \A k \in DOMAIN streams' : streams'[k] = streams[k]
  BY Zenon DEF Cleanup, Removed
<1>3. sock'[s0].state = "closed" /\ \A s \in Socks \ {s0} : sock'[s] = sock[s]
  BY <1>1, Zenon DEF Cleanup, SlabOK, ClosedSock
<1> HIDE DEF s0
<1>4. Gone' = Gone \cup {s0}
  BY <1>1, <1>3, Zenon DEF Gone
<1>5. DOMAIN Held' = DOMAIN Held \ {s0}
  BY <1>1, <1>3, Zenon DEF Held
<1>6. \A s \in DOMAIN Held' : Held'[s] = Held[s]
  BY <1>2, <1>5, LeaseKept, Zenon
<1>7. Held' = [s \in DOMAIN Held' |-> Held'[s]]
  BY DEF Held
<1>8. Held' = [s \in DOMAIN Held \ {s0} |-> Held[s]]
  BY <1>5, <1>6, <1>7, Zenon
<1>9. Lessor!End(s0)
  BY <1>4, <1>8, Zenon DEF Lessor!End
<1> QED
  BY <1>1, <1>9, Zenon DEF Lessor!Next

\* When the process ends, so do all leases.
LEMMA ExitLease ==
  ASSUME SlabOK, Exit
  PROVE  Lessor!Next
<1> DEFINE cs == {s \in Socks : sock[s].state # "new"}
<1>1. \A s \in Socks : sock'[s] = IF sock[s].state = "new" THEN NewSock(s) ELSE ClosedSock
  BY Zenon DEF Exit
<1>2. \A s \in Socks : sock'[s].state # "open" /\ (sock'[s].state = "closed" <=> sock[s].state # "new")
  <2>1. ClosedSock.state = "closed" /\ \A s \in Socks : NewSock(s).state = "new"
    BY DEF NewSock, ClosedSock
  <2> QED
    BY <1>1, <2>1, Zenon
<1>3. DOMAIN Held' = {} /\ Held' = [s \in DOMAIN Held' |-> Held'[s]]
  BY <1>2 DEF Held
<1>4. Held' = Lessor!Nothing
  BY <1>3 DEF Lessor!Nothing
<1>5. DOMAIN Held \subseteq cs
  BY Zenon DEF Held
<1>6. Gone' = Gone \cup cs
  BY <1>2, Zenon DEF Gone
<1>7. cs \in SUBSET Socks
  BY Zenon
<1> HIDE DEF cs
<1> QED
  BY <1>4, <1>5, <1>6, <1>7, Zenon DEF Lessor!Next, Lessor!EndAll

\* A connection is lent an address of the subnet that nobody holds; or it is refused.
LEMMA AcceptLease ==
  ASSUME SlabOK, SlabOK', ThreadOK, ThreadOK', RoutesInv, RoutesInv',
         NEW s \in Socks, NEW key \in VacantKeys, Accept(s, key)
  PROVE  Lessor!Next
<1>1. key \in Nat /\ key \notin DOMAIN streams
  BY VacantFresh, Zenon
<1>2. sock[s].state = "backlog"
  BY Zenon DEF Accept
<1>3. CASE sock' = [sock EXCEPT ![s] = ClosedSock] /\ UNCHANGED streams
  <2>1. sock'[s].state = "closed" /\ \A x \in Socks \ {s} : sock'[x] = sock[x]
    BY <1>3 DEF SlabOK, ClosedSock
  <2>2. Gone' = Gone \cup {s}
    BY <2>1, Zenon DEF Gone
  <2>3. DOMAIN Held' = DOMAIN Held /\ s \notin DOMAIN Held
    BY <1>2, <2>1, Zenon DEF Held
  <2>4. \A x \in DOMAIN Held' : Held'[x] = Held[x]
    BY <1>3, <2>3, LeaseKept, Zenon
  <2>5. Held' = [x \in DOMAIN Held' |-> Held'[x]]
    BY DEF Held
  <2>6. DOMAIN Held \ {s} = DOMAIN Held
    BY <2>3, Zenon
  <2>7. Held' = [x \in DOMAIN Held \ {s} |-> Held[x]]
    BY <2>3, <2>4, <2>5, <2>6, Zenon
  <2>8. Lessor!End(s)
    BY <2>2, <2>7, Zenon DEF Lessor!End
  <2> QED
    BY <2>8, Zenon DEF Lessor!Next
<1>4. CASE /\ from_index(key) # None
           /\ streams' = Inserted(key, [relayed |-> from_index(key), partial |-> 0, stream |-> s])
           /\ sock' = [sock EXCEPT ![s].state = "open"]
  <2> DEFINE a == from_index(key)
  <2>1. /\ DOMAIN streams' = DOMAIN streams \cup {key}
        /\ streams'[key].stream = s /\ streams'[key].relayed = a
        /\ \A k \in DOMAIN streams : streams'[k] = streams[k]
    BY <1>1, <1>4, Zenon DEF Inserted
  <2>2. a \in [prefix : {Prefix}, host : 0..(HostSpan - 1), port : PortSpan..(2 * PortSpan - 1)]
    <3>1. (key \div PortSpan) \in Nat /\ (key % PortSpan) \in 0..(PortSpan - 1)
      BY <1>1, MappingNew
    <3>2. ((key \div PortSpan) % HostSpan) \in 0..(HostSpan - 1)
      BY <3>1, MappingNew
    <3>3. (key % PortSpan) + PortSpan \in PortSpan..(2 * PortSpan - 1)
      BY <3>1, MappingNew
    <3> QED
      BY <1>4, <3>2, <3>3, Zenon DEF from_index
  <2> HIDE DEF a
  <2>3. sock'[s].state = "open" /\ \A x \in Socks \ {s} : sock'[x] = sock[x]
    BY <1>4 DEF SlabOK, Sock
  <2>4. Gone' = Gone /\ s \notin Gone
    BY <1>2, <2>3, Zenon DEF Gone
  <2>5. DOMAIN Held' = DOMAIN Held \cup {s} /\ s \notin DOMAIN Held
    BY <1>2, <2>3, Zenon DEF Held
  <2>6. Held'[s] = a
    BY <2>1, HolderOfNext, Zenon
  <2>7. \A x \in DOMAIN Held : Held'[x] = Held[x]
    BY <1>1, <2>1, <2>5, LeaseKept, Zenon
  <2>8. Held' = [x \in DOMAIN Held' |-> Held'[x]]
    BY DEF Held
  <2>9. Held' = [x \in DOMAIN Held \cup {s} |-> IF x = s THEN a ELSE Held[x]]
    BY <2>5, <2>6, <2>7, <2>8, Zenon
  <2>10. \A x \in DOMAIN Held : Held[x] # a
    <3> SUFFICES ASSUME NEW x \in DOMAIN Held, Held[x] = a PROVE FALSE
      BY Zenon
    <3>1. PICK k \in DOMAIN streams : streams[k].stream = x
      BY Zenon DEF Held, SlabOK
    <3>2. from_index(k) = a /\ from_index(key) = a
      BY <2>1, <3>1, HolderOf, Zenon DEF RoutesInv, a
    <3>3. k \in 0..(Capacity - 1) /\ key \in 0..(Capacity - 1)
      BY <1>1, <2>1, MappingNew DEF SlabOK, ThreadOK, RoutesInv, Capacity
    <3>4. to_index(from_index(k)) = k /\ to_index(from_index(key)) = key
      BY <1>4, <3>2, <3>3, RoundTrip, Zenon
    <3> QED
      BY <1>1, <3>1, <3>2, <3>4, Zenon
  <2>11. Lessor!Lend(s, a)
    BY <2>4, <2>5, <2>9, <2>10, Zenon DEF Lessor!Lend
  <2> QED
    BY <2>2, <2>11, Zenon DEF Lessor!Next
<1> QED
  BY <1>3, <1>4, Zenon DEF Accept

\* A change of another field leaves the states of all sockets alone.
LEMMA StateKept ==
  ASSUME SlabOK, NEW s \in Socks,
         \/ sock' = [sock EXCEPT ![s].inq = @ - 1]
         \/ sock' = [sock EXCEPT ![s].responses = "blocked"]
  PROVE  \A x \in Socks : sock'[x].state = sock[x].state
<1>1. \A x \in Socks : sock[x] \in Sock
  BY Zenon DEF SlabOK
<1>2. /\ \A x \in Socks \ {s} : sock'[x] = sock[x]
      /\ \/ sock'[s] = [sock[s] EXCEPT !.inq = @ - 1]
         \/ sock'[s] = [sock[s] EXCEPT !.responses = "blocked"]
  BY Zenon DEF SlabOK
<1>3. sock'[s].state = sock[s].state
  BY <1>1, <1>2 DEF Sock
<1> QED
  BY <1>2, <1>3, Zenon

\* Every step of the server is one of the lessor's, or none.
LEMMA LeaseStep ==
  ASSUME SlabOK, ThreadOK, RoutesInv, [Next]_vars, SlabOK', ThreadOK', RoutesInv'
  PROVE  [Lessor!Next]_<<Held, Gone>>
<1> DEFINE Goal == [Lessor!Next]_<<Held, Gone>>
<1> SUFFICES Goal
  BY Zenon
<1>1. ASSUME streams' = streams,
             \A s \in Socks : sock'[s].state = sock[s].state \/ {sock[s].state, sock'[s].state} = {"new", "backlog"}
      PROVE  Goal
  BY <1>1, QuietLease, Zenon
<1>2. ASSUME NEW key \in DOMAIN streams, NEW r \in 0..FrameLen, streams' = WithPartial(key, r),
             \A s \in Socks : sock'[s].state = sock[s].state
      PROVE  Goal
  <2>1. /\ DOMAIN streams' = DOMAIN streams
        /\ \A k \in DOMAIN streams :
             streams'[k].stream = streams[k].stream /\ streams'[k].relayed = streams[k].relayed
    BY <1>2, PartialQuiet, Zenon
  <2> QED
    BY <1>2, <2>1, QuietLease, Zenon
<1>3. ASSUME NEW key \in DOMAIN streams, Cleanup(key) PROVE Goal
  BY <1>3, CleanupLease, Zenon
<1>4. ASSUME NEW key \in DOMAIN streams, NEW r \in 0..FrameLen, WriteTakes(streams[key].stream),
             Send(streams[key].stream, r)
      PROVE  /\ r - Taken(streams[key].stream, r) \in 0..FrameLen
             /\ \A s \in Socks : sock'[s].state = sock[s].state
  <2>1. streams[key].stream \in Socks
    BY <1>4, HolderOf, Zenon
  <2>2. /\ Taken(streams[key].stream, r) \in 0..r
        /\ \A s \in Socks : sock'[s].state = sock[s].state
    BY <1>4, <2>1, SendQuiet, Zenon
  <2> QED
    BY <1>4, <2>2, TcpAssumption
<1> HIDE DEF Goal
<1>5. pc \in HandlerPcs => cur.key \in DOMAIN streams
  BY Zenon DEF ThreadOK
<1>6. CASE Poll \/ DispatchListener \/ DispatchTun \/ AcceptFails \/ TunEmpty \/ Restart \/ TunReady \/ UNCHANGED vars
  BY <1>1, <1>6, Zenon DEF Poll, DispatchListener, DispatchTun, AcceptFails, TunEmpty, Restart, TunReady, vars
<1>7. CASE \E e \in Socks : DispatchStream(e)
  BY <1>1, <1>3, <1>7, Zenon DEF DispatchStream
<1>8. CASE \E s \in Socks : \E key \in VacantKeys : Accept(s, key)
  BY <1>8, AcceptLease, Zenon DEF Goal
<1>9. CASE \E receiver \in Receivers : TunRecv(receiver)
  <2>1. PICK key \in DOMAIN streams : TunWrites(key) \/ Cleanup(key)
    BY <1>9, TunRecvCases, Zenon
  <2>2. FrameLen \in 0..FrameLen
    BY TcpAssumption
  <2>3. TunWrites(key) => Goal
    BY <1>2, <1>4, <2>2, Zenon DEF TunWrites
  <2> QED
    BY <1>3, <2>1, <2>3, Zenon
<1>10. CASE Flush
  <2>1. cur.key \in DOMAIN streams /\ streams[cur.key].partial \in 0..FrameLen
    BY <1>5, <1>10, Zenon DEF Flush, HandlerPcs, SlabOK, Conn
  <2> QED
    BY <1>1, <1>2, <1>3, <1>4, <1>10, <2>1, Zenon DEF Flush
<1>11. CASE Respond
  <2>1. cur.key \in DOMAIN streams /\ cur.rest \in 0..FrameLen
    BY <1>5, <1>11, Zenon DEF Respond, HandlerPcs, ThreadOK
  <2>2. CASE Cleanup(cur.key)
    BY <1>3, <2>1, <2>2, Zenon
  <2>3. CASE WriteTakes(streams[cur.key].stream) /\ Send(streams[cur.key].stream, cur.rest) /\ UNCHANGED streams
    BY <1>1, <1>4, <2>1, <2>3, Zenon
  <2>4. CASE streams' = WithPartial(cur.key, cur.rest) /\ sock' = [sock EXCEPT ![streams[cur.key].stream].responses = "blocked"]
    <3>1. streams[cur.key].stream \in Socks
      BY <2>1, HolderOf, Zenon
    <3>2. \A s \in Socks : sock'[s].state = sock[s].state
      BY <2>4, <3>1, StateKept, Zenon
    <3> QED
      BY <1>2, <2>1, <2>4, <3>2, Zenon
  <2> QED
    BY <1>11, <2>2, <2>3, <2>4, Zenon DEF Respond
<1>12. CASE Peek \/ ReadShort
  BY <1>1, <1>3, <1>5, <1>12, Zenon DEF Peek, ReadShort, HandlerPcs
<1>13. CASE \E m \in Messages \cap {"request", "indication"} : Read(m)
  <2>1. streams' = streams /\ sock' = [sock EXCEPT ![streams[cur.key].stream].inq = @ - 1] /\ pc = "got"
    BY <1>13, Zenon DEF Read
  <2>2. streams[cur.key].stream \in Socks
    BY <1>5, <2>1, HolderOf, Zenon DEF HandlerPcs
  <2>3. \A s \in Socks : sock'[s].state = sock[s].state
    BY <2>1, <2>2, StateKept, Zenon
  <2> QED
    BY <1>1, <2>1, <2>3, Zenon
<1>14. CASE Failure
  BY <1>14, ExitLease, Zenon DEF Failure, PollFails, SetupFails, ReadFails, Goal
<1>15. CASE \E s \in Socks : Client(s)
  <2>1. PICK s \in Socks : Client(s)
    BY <1>15, Zenon
  <2>2. streams' = streams
    BY <2>1, Zenon DEF Client, Connect, ArriveHalf, ArriveRest, Hangup, Drain
  <2>3. CASE Connect(s)
    <3>1. sock[s].state = "new" /\ sock'[s].state = "backlog" /\ \A x \in Socks \ {s} : sock'[x] = sock[x]
      BY <2>3 DEF Connect, SlabOK, Sock
    <3> QED
      BY <1>1, <2>2, <3>1, Zenon
  <2>4. CASE ArriveHalf(s) \/ ArriveRest(s) \/ Hangup(s) \/ Drain(s)
    <3>1. \A x \in Socks : sock'[x].state = sock[x].state
      BY <2>4 DEF ArriveHalf, ArriveRest, Hangup, Drain, SlabOK, Sock
    <3> QED
      BY <1>1, <2>2, <3>1, Zenon
  <2> QED
    BY <2>1, <2>3, <2>4, Zenon DEF Client
<1> QED
  BY <1>6, <1>7, <1>8, <1>9, <1>10, <1>11, <1>12, <1>13, <1>14, <1>15, Zenon DEF Next, ServerStep

\* With a subnet whose lowest network bit is 0, the server does with relayed
\* addresses what Leases says, for every subnet and any number of clients: nobody
\* is lent an address that another client holds, and nobody's address changes,
\* however the slab reuses its keys.
THEOREM LendsAddressesHolds == Prefix % 2 = 0 => (Spec => LendsAddresses)
<1> SUFFICES ASSUME Prefix % 2 = 0 PROVE Spec => LendsAddresses
  BY Zenon
<1>1. Init => Lessor!Init
  <2> SUFFICES ASSUME Init PROVE Lessor!Init
    BY Zenon
  <2>1. \A s \in Socks : sock[s].state = "new"
    BY DEF Init, NewSock
  <2>2. DOMAIN Held = {} /\ Held = [s \in DOMAIN Held |-> Held[s]] /\ Gone = {}
    BY <2>1 DEF Held, Gone
  <2>3. Held = Lessor!Nothing
    BY <2>2 DEF Lessor!Nothing
  <2> QED
    BY <2>2, <2>3, Zenon DEF Lessor!Init
<1>2. Init => RoutesInv
  BY MappingNew DEF Init, RoutesInv, Capacity
<1>3. SlabOK /\ ThreadOK /\ RoutesInv /\ [Next]_vars /\ SlabOK' /\ ThreadOK' /\ RoutesInv' => [Lessor!Next]_<<Held, Gone>>
  BY LeaseStep, Zenon
<1> QED
  BY <1>1, <1>2, <1>3, RoutesInductive, SlabThreadInvariant, PTL DEF Spec, LendsAddresses, Lessor!Spec

-----------------------------------------------------------------------------
(* Framing *)

\* A response is being written, and nothing else is queued in front of it.
RespondInv ==
  pc = "respond" =>
    /\ cur.rest > 0
    /\ streams[cur.key].partial = 0 \/ cur.rest <= streams[cur.key].partial

\* What the client of k waits for is what the server has yet to send it: the
\* rest of the response being written, if it has begun, otherwise partial.
Outstanding(k) ==
  IF pc = "respond" /\ cur.key = k
  THEN IF cur.rest = FrameLen THEN 0 ELSE cur.rest
  ELSE streams[k].partial

FrameInv ==
  /\ \A s \in Socks : sock[s].state \in {"new", "backlog"} => sock[s].due = 0
  /\ \A s \in Socks : sock[s].frames = "torn" => sock[s].responses = "blocked"
  /\ \A k \in DOMAIN streams :
       sock[streams[k].stream].responses = "flowing" =>
         /\ sock[streams[k].stream].due = Outstanding(k)
         /\ pc = "respond" /\ cur.key = k => streams[k].partial = 0

Inv == SlabOK /\ ThreadOK /\ RespondInv /\ FrameInv

\* The client of key is sent the next chunks of the frame it waits for, or the
\* first ones of a frame when it waits for nothing.
LEMMA FrameSend ==
  ASSUME Inv, NEW key \in DOMAIN streams, NEW r \in 0..FrameLen,
         WriteTakes(streams[key].stream), Send(streams[key].stream, r)
  PROVE  LET s == streams[key].stream
         IN  /\ s \in Socks
             /\ \A x \in Socks : /\ sock'[x].state = sock[x].state
                                 /\ sock'[x].responses = sock[x].responses
             /\ \A x \in Socks \ {s} : sock'[x] = sock[x]
             /\ \A k \in DOMAIN streams \ {key} : streams[k].stream \in Socks \ {s}
             /\ Taken(s, r) \in 0..r /\ (r > 0 => Taken(s, r) > 0)
             /\ sock'[s].due = r - Taken(s, r)
             /\ sock[s].due = r \/ (sock[s].due = 0 /\ r = FrameLen) => sock'[s].frames = sock[s].frames
             /\ sock[s].responses \in {"flowing", "blocked"}
             /\ sock[s].state = "open"
<1>1. streams[key].stream \in Socks /\ \A k \in DOMAIN streams \ {key} : streams[k].stream \in Socks \ {streams[key].stream}
  BY Zenon DEF Inv, SlabOK, Conn
<1>2. sock[streams[key].stream].responses \in {"flowing", "blocked"} /\ sock[streams[key].stream].state = "open"
  BY <1>1, SMTT(60) DEF Inv, SlabOK, Sock
<1> QED
  BY <1>1, <1>2, SendQuiet, Zenon DEF Inv

\* The framing invariant is inductive.
LEMMA FrameInductive ==
  ASSUME Inv, [Next]_vars
  PROVE  Inv'
\* Steps that send nothing, open nothing and close nothing.
<1>FrameQuiet.
      ASSUME Inv, streams' = streams,
             \A s \in Socks : /\ sock'[s].due = sock[s].due
                              /\ sock'[s].frames = sock[s].frames
                              /\ sock'[s].responses = sock[s].responses
                              /\ sock'[s].state \in {"new", "backlog"} => sock[s].state \in {"new", "backlog"},
             (pc # "respond" /\ pc' # "respond") \/ UNCHANGED <<pc, cur>>
      PROVE  RespondInv' /\ FrameInv'
  BY <1>FrameQuiet, SMTT(60) DEF Inv, RespondInv, FrameInv, Outstanding, SlabOK, Conn
\* A stream that is removed has no framing to keep.
<1>FrameCleanup.
      ASSUME Inv, NEW key \in DOMAIN streams, Cleanup(key),
             pc' # "respond", pc # "respond" \/ cur.key = key
      PROVE  RespondInv' /\ FrameInv'
  <2> USE <1>FrameCleanup
  <2> DEFINE s0 == streams[key].stream
  <2>1. /\ s0 \in Socks
        /\ DOMAIN streams' = DOMAIN streams \ {key}
        /\ \A k \in DOMAIN streams' : streams'[k] = streams[k] /\ streams[k].stream \in Socks \ {s0}
    BY Zenon DEF Inv, SlabOK, Conn, Cleanup, Removed
  <2>2. /\ \A s \in Socks \ {s0} : sock'[s] = sock[s]
        /\ sock'[s0].state = "closed" /\ sock'[s0].frames = "whole"
    BY <2>1, SMTT(60) DEF Inv, SlabOK, Cleanup, ClosedSock
  <2> QED
    BY <2>1, <2>2, SMTT(60) DEF Inv, RespondInv, FrameInv, Outstanding
\* Neither has any when the process ends.
<1>FrameExit.
      ASSUME Inv, Exit
      PROVE  RespondInv' /\ FrameInv'
  BY <1>FrameExit, SMTT(60) DEF Inv, Exit, RespondInv, FrameInv, NewSock, ClosedSock
\* A frame begins only on a stream without a partial one.
<1>FrameTunRecv.
      ASSUME Inv, NEW receiver, TunRecv(receiver)
      PROVE  RespondInv' /\ FrameInv'
  <2> USE <1>FrameTunRecv
  <2> DEFINE key == to_index(receiver)
             s == streams[key].stream
  <2>1. key \in DOMAIN streams /\ streams[key].partial = 0 /\ pc = "tun" /\ pc' = "tun"
        /\ FrameLen \in 0..FrameLen /\ FrameLen > 0
    BY TcpAssumption, SMTT(60) DEF TunRecv
  <2>2. CASE /\ WriteTakes(s) /\ Send(s, FrameLen)
             /\ streams' = WithPartial(key, FrameLen - Taken(s, FrameLen))
    <3>1. /\ s \in Socks
          /\ \A x \in Socks : sock'[x].state = sock[x].state /\ sock'[x].responses = sock[x].responses
          /\ \A x \in Socks \ {s} : sock'[x] = sock[x]
          /\ \A k \in DOMAIN streams \ {key} : streams[k].stream \in Socks \ {s}
          /\ FrameLen - Taken(s, FrameLen) \in 0..FrameLen
          /\ sock'[s].due = FrameLen - Taken(s, FrameLen)
          /\ sock[s].due = 0 => sock'[s].frames = sock[s].frames
          /\ sock[s].responses \in {"flowing", "blocked"}
          /\ sock[s].state = "open"
      BY <2>1, <2>2, FrameSend, SMTT(60)
    <3>2. /\ DOMAIN streams' = DOMAIN streams
          /\ \A k \in DOMAIN streams : streams'[k].stream = streams[k].stream
          /\ streams'[key].partial = FrameLen - Taken(s, FrameLen)
          /\ \A k \in DOMAIN streams \ {key} : streams'[k] = streams[k]
      BY <2>1, <2>2, <3>1, PartialQuiet, Zenon DEF Inv
    <3>3. sock[s].responses = "flowing" => sock[s].due = 0
      BY <2>1, Zenon DEF Inv, FrameInv, Outstanding
    <3> HIDE DEF key, s
    <3> QED
      BY <2>1, <3>1, <3>2, <3>3, SMTT(60) DEF Inv, RespondInv, FrameInv, Outstanding, s
  <2>3. CASE Cleanup(key)
    BY <2>1, <2>3, <1>FrameCleanup, Zenon
  <2> QED
    BY <2>2, <2>3, Zenon DEF TunRecv
\* The rest of a frame is what the client waits for.
<1>FrameFlush.
      ASSUME Inv, Flush
      PROVE  RespondInv' /\ FrameInv'
  <2> USE <1>FrameFlush
  <2> DEFINE key == cur.key
             s == streams[key].stream
             r == streams[key].partial
  <2>1. key \in DOMAIN streams /\ r \in 0..FrameLen /\ pc = "write"
    BY Zenon DEF Flush, Inv, ThreadOK, HandlerPcs, SlabOK, Conn
  <2>2. CASE ThenRead /\ UNCHANGED <<streams, sock, edge>>
    <3>1. pc' # "respond"
      BY <2>2, Zenon DEF ThenRead, EndEvent
    <3> QED
      BY <2>1, <2>2, <3>1, <1>FrameQuiet, Zenon
  <2>3. CASE /\ r > 0 /\ WriteTakes(s) /\ Send(s, r)
             /\ streams' = WithPartial(key, r - Taken(s, r))
             /\ IF Taken(s, r) = r THEN ThenRead ELSE UNCHANGED <<pc, cur>>
    <3>0. pc' # "respond"
      BY <2>1, <2>3, Zenon DEF ThenRead, EndEvent
    <3>1. /\ s \in Socks
          /\ \A x \in Socks : sock'[x].state = sock[x].state /\ sock'[x].responses = sock[x].responses
          /\ \A x \in Socks \ {s} : sock'[x] = sock[x]
          /\ \A k \in DOMAIN streams \ {key} : streams[k].stream \in Socks \ {s}
          /\ r - Taken(s, r) \in 0..FrameLen
          /\ sock'[s].due = r - Taken(s, r)
          /\ sock[s].due = r => sock'[s].frames = sock[s].frames
          /\ sock[s].responses \in {"flowing", "blocked"}
          /\ sock[s].state = "open"
      <4>1. Taken(s, r) \in 0..r
        BY <2>1, <2>3, FrameSend, Zenon
      <4>2. FrameLen \in Nat
        BY TcpAssumption, Zenon
      <4>3. r - Taken(s, r) \in 0..FrameLen
        BY <2>1, <4>1, <4>2
      <4>4. s \in Socks /\ sock[s].responses \in {"flowing", "blocked"} /\ sock[s].state = "open"
        BY <2>1, <2>3, FrameSend, Zenon
      <4>5. /\ \A x \in Socks : sock'[x].state = sock[x].state /\ sock'[x].responses = sock[x].responses
            /\ \A x \in Socks \ {s} : sock'[x] = sock[x]
        BY <2>1, <2>3, FrameSend, Zenon
      <4>6. \A k \in DOMAIN streams \ {key} : streams[k].stream \in Socks \ {s}
        BY <2>1, <2>3, FrameSend, Zenon
      <4>7. sock'[s].due = r - Taken(s, r)
        BY <2>1, <2>3, FrameSend, SMTT(60)
      <4>8. sock[s].due = r => sock'[s].frames = sock[s].frames
        BY <2>1, <2>3, FrameSend, ZenonT(60)
      <4> QED
        BY <4>3, <4>4, <4>5, <4>6, <4>7, <4>8, Zenon
    <3>2. /\ DOMAIN streams' = DOMAIN streams
          /\ \A k \in DOMAIN streams : streams'[k].stream = streams[k].stream
          /\ streams'[key].partial = r - Taken(s, r)
          /\ \A k \in DOMAIN streams \ {key} : streams'[k] = streams[k]
      BY <2>1, <2>3, <3>1, PartialQuiet, Zenon DEF Inv
    <3>3. sock[s].responses = "flowing" => sock[s].due = r
      BY <2>1, Zenon DEF Inv, FrameInv, Outstanding
    <3> HIDE DEF key, s, r
    <3> QED
      BY <2>1, <3>0, <3>1, <3>2, <3>3, SMTT(60) DEF Inv, RespondInv, FrameInv, Outstanding, s
  <2>4. CASE Cleanup(key) /\ EndEvent
    BY <2>1, <2>4, <1>FrameCleanup, Zenon DEF EndEvent
  <2> QED
    BY <2>2, <2>3, <2>4, Zenon DEF Flush
\* A response begins only on a stream without a partial frame.
<1>FrameRead.
      ASSUME Inv, NEW m, Read(m)
      PROVE  RespondInv' /\ FrameInv'
  <2> USE <1>FrameRead
  <2> DEFINE s == streams[cur.key].stream
  <2>1. cur.key \in DOMAIN streams /\ s \in Socks /\ pc = "got" /\ streams' = streams /\ FrameLen > 0
    BY TcpAssumption DEF Read, Inv, ThreadOK, HandlerPcs, SlabOK, Conn
  <2>2. \A x \in Socks : /\ sock'[x].due = sock[x].due
                         /\ sock'[x].frames = sock[x].frames
                         /\ sock'[x].responses = sock[x].responses
                         /\ sock'[x].state = sock[x].state
    BY SMTT(60) DEF Read, Inv, SlabOK, Sock
  <2>3. CASE pc' = "read"
    BY <2>1, <2>2, <2>3, <1>FrameQuiet, Zenon
  <2>4. CASE streams[cur.key].partial = 0 /\ pc' = "respond" /\ cur' = [cur EXCEPT !.rest = FrameLen]
    <3>1. cur'.key = cur.key /\ cur'.rest = FrameLen
      BY <2>4, Zenon DEF Inv, ThreadOK
    <3> QED
      BY <2>1, <2>2, <2>4, <3>1 DEF Inv, RespondInv, FrameInv, Outstanding, SlabOK, Conn
  <2> QED
    BY <2>3, <2>4, Zenon DEF Read
\* A response is continued, or blocked once and for all.
<1>FrameRespond.
      ASSUME Inv, Respond
      PROVE  RespondInv' /\ FrameInv'
  <2> USE <1>FrameRespond
  <2> DEFINE key == cur.key
             s == streams[key].stream
             r == cur.rest
  <2>1. key \in DOMAIN streams /\ r \in 0..FrameLen /\ r > 0 /\ pc = "respond"
    BY Zenon DEF Respond, Inv, RespondInv, ThreadOK, HandlerPcs, SlabOK, Conn
  <2>2. CASE /\ WriteTakes(s) /\ Send(s, r)
             /\ cur' = [cur EXCEPT !.rest = r - Taken(s, r)]
             /\ pc' = IF r - Taken(s, r) = 0 THEN "read" ELSE "respond"
             /\ streams' = streams
    <3>1. /\ s \in Socks
          /\ \A x \in Socks : sock'[x].state = sock[x].state /\ sock'[x].responses = sock[x].responses
          /\ \A x \in Socks \ {s} : sock'[x] = sock[x]
          /\ \A k \in DOMAIN streams \ {key} : streams[k].stream \in Socks \ {s}
          /\ r - Taken(s, r) \in 0..FrameLen /\ r - Taken(s, r) < r
          /\ sock'[s].due = r - Taken(s, r)
          /\ sock[s].due = r \/ (sock[s].due = 0 /\ r = FrameLen) => sock'[s].frames = sock[s].frames
          /\ sock[s].responses \in {"flowing", "blocked"}
          /\ sock[s].state = "open"
      BY <2>1, <2>2, FrameSend, TcpAssumption, SMTT(60)
    <3>2. sock[s].responses = "flowing" =>
            /\ sock[s].due = r \/ (sock[s].due = 0 /\ r = FrameLen)
            /\ streams[key].partial = 0
      BY <2>1, Zenon DEF Inv, FrameInv, Outstanding
    <3>3. cur'.key = key /\ cur'.rest = r - Taken(s, r)
      BY <2>2, Zenon DEF Inv, ThreadOK
    <3>4. streams[key].partial \in 0..FrameLen /\ FrameLen \in Nat
      BY <2>1, TcpAssumption, Zenon DEF Inv, SlabOK, Conn
    <3>5. RespondInv'
      BY <2>1, <2>2, <3>1, <3>3, <3>4 DEF Inv, RespondInv
    <3>6. pc' = "respond" <=> r - Taken(s, r) # 0
      BY <2>2, Zenon
    <3> HIDE DEF key, s, r
    <3>7. FrameInv'
      <4>1. \A x \in Socks : sock'[x].state \in {"new", "backlog"} => sock'[x].due = 0
        BY <3>1, SMTT(60) DEF Inv, FrameInv
      <4>2. \A x \in Socks : sock'[x].frames = "torn" => sock'[x].responses = "blocked"
        BY <3>1, <3>2, Zenon DEF Inv, FrameInv
      <4>3. ASSUME NEW k \in DOMAIN streams \ {key}, sock'[streams[k].stream].responses = "flowing"
            PROVE  sock'[streams[k].stream].due = streams[k].partial
        BY <2>1, <3>1, <4>3, Zenon DEF Inv, FrameInv, Outstanding, key
      <4>4. ASSUME sock'[s].responses = "flowing"
            PROVE  /\ streams[key].partial = 0
                   /\ sock'[s].due = IF pc' = "respond" THEN cur'.rest ELSE 0
                   /\ cur'.rest # FrameLen
        BY <2>1, <2>2, <3>1, <3>2, <3>3, <3>4, <3>6, <4>4
      <4>5. ASSUME NEW k \in DOMAIN streams', sock'[streams'[k].stream].responses = "flowing"
            PROVE  /\ sock'[streams'[k].stream].due = Outstanding(k)'
                   /\ pc' = "respond" /\ cur'.key = k => streams'[k].partial = 0
        <5>1. CASE k = key
          BY <2>2, <3>3, <4>4, <4>5, <5>1, Zenon DEF Outstanding, s
        <5>2. CASE k # key
          BY <2>2, <3>3, <4>3, <4>5, <5>2, Zenon DEF Outstanding
        <5> QED
          BY <5>1, <5>2, Zenon
      <4> QED
        BY <4>1, <4>2, <4>5, Zenon DEF FrameInv
    <3> QED
      BY <3>5, <3>7, Zenon
  <2>3. CASE /\ streams' = WithPartial(key, r)
             /\ sock' = [sock EXCEPT ![s].responses = "blocked"]
             /\ UNCHANGED <<pc, cur>>
    <3>1. /\ DOMAIN streams' = DOMAIN streams
          /\ \A k \in DOMAIN streams : streams'[k].stream = streams[k].stream
          /\ streams'[key].partial = r
          /\ \A k \in DOMAIN streams \ {key} : streams'[k] = streams[k]
      BY <2>1, <2>3, PartialQuiet, Zenon DEF Inv
    <3>2. /\ s \in Socks /\ \A k \in DOMAIN streams \ {key} : streams[k].stream \in Socks \ {s}
          /\ sock'[s].responses = "blocked"
          /\ \A x \in Socks : sock'[x].due = sock[x].due /\ sock'[x].state = sock[x].state
          /\ \A x \in Socks \ {s} : sock'[x] = sock[x]
      BY <2>1, <2>3 DEF Inv, SlabOK, Conn, Sock
    <3>3. RespondInv'
      BY <2>1, <2>3, <3>1 DEF RespondInv
    <3> HIDE DEF key, s, r
    <3>4. FrameInv'
      BY <2>1, <2>3, <3>1, <3>2 DEF Inv, FrameInv, Outstanding, s
    <3> QED
      BY <3>3, <3>4, Zenon
  <2>4. CASE Cleanup(key) /\ EndEvent
    BY <2>1, <2>4, <1>FrameCleanup, Zenon DEF EndEvent
  <2> QED
    BY <2>2, <2>3, <2>4, Zenon DEF Respond
\* A new connection waits for nothing.
<1>FrameAccept.
      ASSUME Inv, NEW s \in Socks, NEW key \in VacantKeys, Accept(s, key)
      PROVE  RespondInv' /\ FrameInv'
  <2> USE <1>FrameAccept
  <2>1. pc' = "accept" /\ pc = "accept" /\ sock[s].state = "backlog"
    BY Zenon DEF Accept
  <2>2. \A k \in DOMAIN streams : streams[k].stream \in Socks \ {s}
    BY <2>1, Zenon DEF Inv, SlabOK, Conn
  <2>3. CASE sock' = [sock EXCEPT ![s] = ClosedSock] /\ streams' = streams
    BY <2>1, <2>2, <2>3, SMTT(60) DEF Inv, SlabOK, RespondInv, FrameInv, Outstanding, ClosedSock
  <2>4. CASE /\ streams' = Inserted(key, [relayed |-> from_index(key), partial |-> 0, stream |-> s])
             /\ sock' = [sock EXCEPT ![s].state = "open"]
    <3>1. /\ DOMAIN streams' = DOMAIN streams \cup {key} /\ key \notin DOMAIN streams
          /\ streams'[key].stream = s /\ streams'[key].partial = 0
          /\ \A k \in DOMAIN streams : streams'[k] = streams[k]
      BY <2>4, VacantFresh, Zenon DEF Inserted, Inv
    <3>2. /\ \A x \in Socks \ {s} : sock'[x] = sock[x]
          /\ sock'[s].state = "open" /\ sock'[s].due = sock[s].due
          /\ sock'[s].frames = sock[s].frames /\ sock'[s].responses = sock[s].responses
      BY <2>4 DEF Inv, SlabOK, Sock
    <3> QED
      <4>1. RespondInv'
        BY <2>1, Zenon DEF RespondInv
      <4>2. \A x \in Socks : /\ sock'[x].state \in {"new", "backlog"} => sock'[x].due = 0
                             /\ sock'[x].frames = "torn" => sock'[x].responses = "blocked"
        BY <3>2, SMTT(60) DEF Inv, FrameInv
      <4>3. ASSUME NEW k \in DOMAIN streams
            PROVE  sock'[streams'[k].stream].responses = "flowing" =>
                     sock'[streams'[k].stream].due = streams'[k].partial
        BY <2>1, <2>2, <3>1, <3>2, SMTT(60) DEF Inv, FrameInv, Outstanding
      <4>4. sock'[s].due = 0
        BY <2>1, <3>2, Zenon DEF Inv, FrameInv
      <4> QED
        BY <2>1, <3>1, <4>1, <4>2, <4>3, <4>4, Zenon DEF FrameInv, Outstanding
  <2> QED
    BY <2>3, <2>4, Zenon DEF Accept
\* Dispatching sends nothing.
<1>FrameDispatch.
      ASSUME Inv, NEW e, DispatchStream(e)
      PROVE  RespondInv' /\ FrameInv'
  <2> USE <1>FrameDispatch
  <2>1. pc = "next" /\ pc' # "respond"
    BY Zenon DEF DispatchStream
  <2>2. CASE UNCHANGED <<streams, sock>>
    BY <2>1, <2>2, <1>FrameQuiet, Zenon
  <2>3. CASE events[e].token \in DOMAIN streams /\ Cleanup(events[e].token)
    BY <2>1, <2>3, <1>FrameCleanup, Zenon
  <2> QED
    BY <2>2, <2>3, Zenon DEF DispatchStream
\* Peeking sends nothing.
<1>FramePeek.
      ASSUME Inv, Peek
      PROVE  RespondInv' /\ FrameInv'
  <2> USE <1>FramePeek
  <2>1. pc = "read" /\ pc' # "respond" /\ cur.key \in DOMAIN streams
    BY Zenon DEF Peek, EndEvent, Inv, ThreadOK, HandlerPcs
  <2>2. CASE UNCHANGED <<streams, sock>>
    BY <2>1, <2>2, <1>FrameQuiet, Zenon
  <2>3. CASE Cleanup(cur.key)
    BY <2>1, <2>3, <1>FrameCleanup, Zenon
  <2> QED
    BY <2>2, <2>3, Zenon DEF Peek
\* Clients do not change what they wait for.
<1>FrameClient.
      ASSUME Inv, NEW s \in Socks, Client(s)
      PROVE  RespondInv' /\ FrameInv'
  <2> USE <1>FrameClient
  <2>1. UNCHANGED <<pc, cur, streams>>
    BY Zenon DEF Client, Connect, ArriveHalf, ArriveRest, Hangup, Drain
  <2>2. sock \in [Socks -> Sock]
    BY Zenon DEF Inv, SlabOK
  <2>3. \A x \in Socks : /\ sock'[x].due = sock[x].due
                         /\ sock'[x].frames = sock[x].frames
                         /\ sock'[x].responses = sock[x].responses
                         /\ sock'[x].state \in {"new", "backlog"} => sock[x].state \in {"new", "backlog"}
    BY <2>2 DEF Client, Connect, ArriveHalf, ArriveRest, Hangup, Drain, Sock
  <2> QED
    BY <2>1, <2>3, <1>FrameQuiet, Zenon
<1> SUFFICES RespondInv' /\ FrameInv'
  BY SlabThreadInductive, Zenon DEF Inv
<1>1. CASE UNCHANGED <<pc, cur, streams, sock>>
  BY <1>1, <1>FrameQuiet, Zenon
<1>2. CASE DispatchListener \/ DispatchTun \/ AcceptFails \/ TunEmpty \/ Restart \/ Poll \/ TunReady
  <2>1. UNCHANGED <<streams, sock>>
    BY <1>2, Zenon DEF DispatchListener, DispatchTun, AcceptFails, TunEmpty, Restart, Poll, TunReady
  <2>2. (pc # "respond" /\ pc' # "respond") \/ UNCHANGED <<pc, cur>>
    BY <1>2, Zenon DEF DispatchListener, DispatchTun, AcceptFails, TunEmpty, Restart, Poll, TunReady
  <2> QED
    BY <2>1, <2>2, <1>FrameQuiet, Zenon
<1>3. CASE Failure
  BY <1>3, <1>FrameExit, Zenon DEF Failure, PollFails, SetupFails, ReadFails
<1>4. CASE ReadShort
  BY <1>4, <1>FrameCleanup, Zenon DEF ReadShort, EndEvent, Inv, ThreadOK, HandlerPcs
<1> QED
  BY Zenon, <1>1, <1>2, <1>3, <1>4, <1>FrameAccept, <1>FrameDispatch, <1>FramePeek, <1>FrameClient,
     <1>FrameTunRecv, <1>FrameFlush, <1>FrameRead, <1>FrameRespond
  DEF Next, ServerStep, vars

\* The framing invariant holds.
LEMMA FrameInvariant == Spec => []Inv
<1>1. ASSUME Init PROVE Inv
  <2>1. SlabOK /\ ThreadOK
    BY <1>1, SlabThreadInit, Zenon
  <2>2. pc # "respond" /\ streams = <<>> /\ sock = [s \in Socks |-> NewSock(s)]
    BY <1>1 DEF Init
  <2>3. \A s \in Socks : sock[s].due = 0 /\ sock[s].frames = "whole"
    BY <2>2 DEF NewSock
  <2> QED
    BY <2>1, <2>2, <2>3 DEF Inv, RespondInv, FrameInv
<1> QED
  BY <1>1, FrameInductive, PTL DEF Spec

\* A client gets a torn frame only if a response once met a full send buffer:
\* whatever mixture of relayed packets, responses and short writes came before.
THEOREM TornOnlyIfBlockedHolds == Spec => []TornOnlyIfBlocked
<1>1. Inv => TornOnlyIfBlocked
  BY Zenon DEF Inv, FrameInv, TornOnlyIfBlocked
<1> QED
  BY <1>1, FrameInvariant, PTL

\* Step by step, a partial frame only becomes shorter.
LEMMA QueuedFrameStep ==
  ASSUME Inv, [Next]_vars
  PROVE  \A k \in DOMAIN streams :
           (streams[k].partial > 0 /\ k \in DOMAIN streams' /\ streams'[k].stream = streams[k].stream)
             => streams'[k].partial <= streams[k].partial
<1>0. \A k \in DOMAIN streams : streams[k].partial \in 0..FrameLen /\ streams[k].stream \in Socks
  BY Zenon DEF Inv, SlabOK, Conn
<1>t. FrameLen \in Nat
  BY TcpAssumption, Zenon
<1>1. CASE streams' = streams
  BY <1>0, <1>1, <1>t
<1>2. CASE \E key \in DOMAIN streams : streams' = Removed(key)
  BY <1>0, <1>2, <1>t DEF Removed
<1>3. CASE \E s \in Socks : \E key \in VacantKeys : Accept(s, key)
  BY <1>0, <1>3, <1>t, VacantFresh DEF Accept, Inserted, Inv
<1>4. CASE \E receiver \in Receivers : TunRecv(receiver)
  <2> PICK receiver \in Receivers : TunRecv(receiver)
    BY <1>4, Zenon
  <2>1. CASE Cleanup(to_index(receiver))
    BY <1>2, <2>1, Zenon DEF Cleanup, TunRecv
  <2>2. CASE streams' = WithPartial(to_index(receiver), FrameLen - Taken(streams[to_index(receiver)].stream, FrameLen))
    BY <1>0, <1>t, <2>2 DEF TunRecv, WithPartial
  <2> QED
    BY <2>1, <2>2, Zenon DEF TunRecv
<1>5. CASE Flush
  <2>0. cur.key \in DOMAIN streams
    BY <1>5, Zenon DEF Flush, Inv, ThreadOK, HandlerPcs
  <2> DEFINE s == streams[cur.key].stream
             r == streams[cur.key].partial
  <2>1. CASE Cleanup(cur.key)
    BY <1>2, <2>0, <2>1, Zenon DEF Cleanup
  <2>2. CASE WriteTakes(s) /\ Send(s, r) /\ streams' = WithPartial(cur.key, r - Taken(s, r))
    <3>1. Taken(s, r) \in 0..r /\ r \in 0..FrameLen
      BY <1>0, <2>0, <2>2, FrameSend, Zenon
    <3> QED
      BY <1>0, <1>t, <2>0, <2>2, <3>1 DEF WithPartial
  <2> QED
    BY <1>1, <1>5, <2>1, <2>2, Zenon DEF Flush
<1>6. CASE Respond
  <2>0. cur.key \in DOMAIN streams /\ RespondInv /\ pc = "respond" /\ cur.rest \in 0..FrameLen
    BY <1>6, Zenon DEF Respond, Inv, ThreadOK, HandlerPcs
  <2>1. CASE Cleanup(cur.key)
    BY <1>2, <2>0, <2>1, Zenon DEF Cleanup
  <2>2. CASE streams' = WithPartial(cur.key, cur.rest)
    BY <1>0, <1>t, <2>0, <2>2 DEF WithPartial, RespondInv
  <2> QED
    BY <1>1, <1>6, <2>1, <2>2, Zenon DEF Respond
<1>7. CASE Peek \/ ReadShort \/ \E e \in Socks : DispatchStream(e)
  BY <1>1, <1>2, <1>7, Zenon DEF Peek, ReadShort, DispatchStream, Cleanup, Inv, ThreadOK, HandlerPcs
<1>8. CASE Failure
  <2>1. Exit
    BY <1>8, Zenon DEF Failure, PollFails, SetupFails, ReadFails
  <2>2. streams' = <<>>
    BY <2>1, Zenon DEF Exit
  <2>3. DOMAIN <<>> = {}
    OBVIOUS
  <2> QED
    BY <2>2, <2>3, Zenon
<1> QED
  BY <1>1, <1>3, <1>4, <1>5, <1>6, <1>7, <1>8, Zenon
  DEF Next, ServerStep, vars, Client, Poll, DispatchListener, DispatchTun, AcceptFails, TunEmpty,
      Read, Restart, TunReady, Connect, ArriveHalf, ArriveRest, Hangup, Drain

\* No step puts another frame in place of an unfinished one.
THEOREM QueuedFrameKeptHolds == Spec => QueuedFrameKept
  BY QueuedFrameStep, FrameInvariant, PTL DEF Spec, QueuedFrameKept

-----------------------------------------------------------------------------
(* Wakeups *)

\* An event of the batch is of a stream that was accepted; if that still is open,
\* the event leads to it, and says that it is finished only if it is.
EventsOK ==
  \A e \in DOMAIN events \cap Socks :
    /\ sock[e].state \in {"open", "closed"}
    /\ sock[e].state = "open" =>
         /\ events[e].token \in DOMAIN streams
         /\ streams[events[e].token].stream = e
         /\ events[e].closed => sock[e].peer # "up"

WakeInv == SlabOK /\ ThreadOK /\ EventsOK /\ \A k \in DOMAIN streams : Awake(k)

\* A step that gives the stream with key k nothing new to do and takes away no
\* edge and no event of it.
Kept(k) ==
  LET s == streams[k].stream
  IN  /\ streams'[k].stream = s
      /\ sock'[s].inq > 0 => sock[s].inq > 0
      /\ streams'[k].partial > 0 /\ sock'[s].room > 0 => streams[k].partial > 0 /\ sock[s].room > 0
      /\ sock'[s].peer = sock[s].peer
      /\ s \in edge => s \in edge'
      /\ s \in DOMAIN events => s \in DOMAIN events' /\ events'[s] = events[s]

\* The streams that stay when one is closed.
LEMMA CleanupOthers ==
  ASSUME SlabOK, NEW key \in DOMAIN streams, Cleanup(key)
  PROVE  /\ \A k \in DOMAIN streams' :
              /\ k \in DOMAIN streams /\ k # key /\ streams'[k] = streams[k]
              /\ streams[k].stream \in Socks /\ streams[k].stream # streams[key].stream
              /\ sock'[streams[k].stream] = sock[streams[k].stream]
              /\ streams[k].stream \in edge => streams[k].stream \in edge'
         /\ \A s \in Socks : sock'[s] = sock[s] \/ (s = streams[key].stream /\ sock'[s].state = "closed")
         /\ \A k \in DOMAIN streams : sock'[streams[k].stream].state = "open" =>
              k \in DOMAIN streams' /\ streams'[k].stream = streams[k].stream
<1> DEFINE s0 == streams[key].stream
<1>1. s0 \in Socks /\ \A k \in DOMAIN streams : streams[k].stream \in Socks
  BY Zenon DEF SlabOK, Conn
<1>2. /\ DOMAIN streams' = DOMAIN streams \ {key}
      /\ \A k \in DOMAIN streams' : streams'[k] = streams[k]
  BY Zenon DEF Cleanup, Removed
<1>3. /\ sock'[s0].state = "closed"
      /\ \A s \in Socks \ {s0} : sock'[s] = sock[s]
  BY <1>1, Zenon DEF Cleanup, SlabOK, ClosedSock
<1>4. edge' = edge \ {s0}
  BY Zenon DEF Cleanup
<1>5. \A k \in DOMAIN streams \ {key} : streams[k].stream # s0
  BY Zenon DEF SlabOK
<1> HIDE DEF s0
<1> QED
  BY <1>1, <1>2, <1>3, <1>4, <1>5, Zenon DEF s0

\* A write that leaves something over has filled the send buffer.
LEMMA SendRoom ==
  ASSUME SlabOK, NEW s \in Socks, NEW r \in 0..FrameLen, WriteTakes(s), Send(s, r)
  PROVE  /\ r - Taken(s, r) > 0 => sock'[s].room = 0
         /\ sock'[s].room > 0 => sock[s].room > 0
         /\ \A x \in Socks : sock'[x].state = sock[x].state /\ sock'[x].inq = sock[x].inq /\ sock'[x].peer = sock[x].peer
         /\ \A x \in Socks \ {s} : sock'[x] = sock[x]
<1>1. sock[s] \in Sock /\ sock[s].room \in Nat /\ r \in Nat
  BY TcpAssumption DEF SlabOK, Sock
<1>2. sock'[s].room = sock[s].room - Taken(s, r)
  BY DEF Send, SlabOK
<1>3. r - Taken(s, r) > 0 => Taken(s, r) = sock[s].room
  BY <1>1 DEF Taken
<1>4. sock[s].room > 0
  BY Zenon DEF WriteTakes
<1>5. /\ \A x \in Socks : sock'[x].state = sock[x].state /\ sock'[x].inq = sock[x].inq /\ sock'[x].peer = sock[x].peer
      /\ \A x \in Socks \ {s} : sock'[x] = sock[x]
  BY DEF Send, SlabOK
<1> QED
  BY <1>1, <1>2, <1>3, <1>4, <1>5

\* No step, of the server, of a client or of the network, loses a wakeup.
LEMMA WakeInductive ==
  ASSUME WakeInv, [Next]_vars
  PROVE  WakeInv'
\* Such a step leaves the stream awake if it does not end its handler.
<1>AwakeKept.
      ASSUME NEW k \in DOMAIN streams, Awake(k), Kept(k),
             Reading(k) => Reading(k)', Writing(k) => Writing(k)'
      PROVE  Awake(k)'
  BY <1>AwakeKept, Zenon DEF Awake, Kept, ReadDue, WriteDue, CloseDue
\* No event is added, and no stream is opened or moved to another key.
<1>EventsKept.
      ASSUME SlabOK, EventsOK,
             DOMAIN events' \subseteq DOMAIN events,
             \A e \in DOMAIN events' : events'[e] = events[e],
             \A s \in Socks : sock[s].state \in {"open", "closed"} =>
                /\ sock'[s].state \in {"closed", sock[s].state}
                /\ sock'[s].state = "open" /\ sock[s].peer # "up" => sock'[s].peer # "up",
             \A k \in DOMAIN streams : sock'[streams[k].stream].state = "open" =>
                k \in DOMAIN streams' /\ streams'[k].stream = streams[k].stream
      PROVE  EventsOK'
  <2> USE <1>EventsKept
  <2> SUFFICES ASSUME NEW e \in DOMAIN events' \cap Socks
               PROVE  /\ sock'[e].state \in {"open", "closed"}
                      /\ sock'[e].state = "open" =>
                           /\ events'[e].token \in DOMAIN streams'
                           /\ streams'[events'[e].token].stream = e
                           /\ events'[e].closed => sock'[e].peer # "up"
    BY Zenon DEF EventsOK
  <2>1. /\ e \in DOMAIN events \cap Socks /\ events'[e] = events[e]
        /\ sock[e].state \in {"open", "closed"}
        /\ sock'[e].state \in {"closed", sock[e].state}
    BY Zenon DEF EventsOK
  <2>2. ASSUME sock'[e].state = "open"
        PROVE  /\ events'[e].token \in DOMAIN streams'
               /\ streams'[events'[e].token].stream = e
               /\ events'[e].closed => sock'[e].peer # "up"
    BY <2>1, <2>2 DEF EventsOK
  <2> QED
    BY <2>1, <2>2, Zenon
\* Closing a stream outside of the dispatch takes no other's wakeup.
<1>WakeCleanup.
      ASSUME WakeInv, NEW key \in DOMAIN streams, Cleanup(key), UNCHANGED events,
             (UNCHANGED <<pc, cur>> /\ pc \notin HandlerPcs) \/ (EndEvent /\ cur.key = key)
      PROVE  EventsOK' /\ \A k \in DOMAIN streams' : Awake(k)'
  <2> USE <1>WakeCleanup
  <2>1. EventsOK'
    BY CleanupOthers, <1>EventsKept, Zenon DEF WakeInv
  <2>2. ASSUME NEW k \in DOMAIN streams'
        PROVE  Awake(k)'
    <3>1. k \in DOMAIN streams /\ k # key /\ Awake(k)
      BY CleanupOthers, Zenon DEF WakeInv
    <3>2. Kept(k)
      BY CleanupOthers, Zenon DEF WakeInv, Kept
    <3>3. ~Reading(k) /\ ~Writing(k)
      BY <3>1, Zenon DEF Reading, Writing, HandlerPcs
    <3> QED
      BY <3>1, <3>2, <3>3, <1>AwakeKept, Zenon
  <2> QED
    BY <2>1, <2>2, Zenon
\* poll turns edges into events that say what there is to do.
<1>WakePoll.
      ASSUME WakeInv, Poll
      PROVE  EventsOK' /\ \A k \in DOMAIN streams' : Awake(k)'
  <2> USE <1>WakePoll
  <2>1. /\ events = <<>> /\ DOMAIN events = {} /\ pc = "next"
        /\ DOMAIN events' = edge /\ UNCHANGED <<pc, cur, streams, sock>>
        /\ \A s \in edge \cap Socks : events'[s] = Readiness(s)
    BY DEF Poll
  <2>2. ASSUME NEW s \in edge \cap Socks
        PROVE  /\ sock[s].state = "open"
               /\ events'[s].token \in DOMAIN streams /\ streams[events'[s].token].stream = s
               /\ events'[s].closed = (sock[s].peer # "up")
               /\ events'[s].writable = (sock[s].room > 0)
               /\ events'[s].readable = (sock[s].inq + sock[s].half > 0)
    <3>1. sock[s].state = "open" /\ \E k \in DOMAIN streams : streams[k].stream = s
      BY Zenon DEF WakeInv, SlabOK
    <3> QED
      BY <2>1, <3>1 DEF Readiness
  <2>3. EventsOK'
    BY <2>1, <2>2, Zenon DEF EventsOK
  <2>4. ASSUME NEW k \in DOMAIN streams'
        PROVE  Awake(k)'
    <3> DEFINE s == streams[k].stream
    <3>1. k \in DOMAIN streams /\ s \in Socks /\ Awake(k)
      BY <2>1, Zenon DEF WakeInv, SlabOK, Conn
    <3>2. sock[s].inq \in Nat /\ sock[s].half \in Nat
      BY <3>1 DEF WakeInv, SlabOK, Sock
    <3>3. ~Reading(k) /\ ~Writing(k)
      BY <2>1, Zenon DEF Reading, Writing
    <3>4. ASSUME sock[s].inq > 0
          PROVE  s \in edge /\ events'[s].readable
      <4>1. s \in edge
        BY <2>1, <3>1, <3>3, <3>4, Zenon DEF Awake, ReadDue
      <4>2. sock[s].inq + sock[s].half > 0
        BY <3>2, <3>4
      <4> QED
        BY <2>2, <3>1, <4>1, <4>2, Zenon
    <3>5. ASSUME streams[k].partial > 0, sock[s].room > 0
          PROVE  s \in edge /\ events'[s].writable
      <4>1. s \in edge
        BY <2>1, <3>1, <3>3, <3>5, Zenon DEF Awake, WriteDue
      <4> QED
        BY <2>2, <3>1, <3>5, <4>1, Zenon
    <3>6. ASSUME sock[s].peer # "up"
          PROVE  s \in edge /\ events'[s].closed
      <4>1. s \in edge
        BY <2>1, <3>1, <3>6, Zenon DEF Awake, CloseDue
      <4> QED
        BY <2>2, <3>1, <3>6, <4>1, Zenon
    <3> QED
      BY <2>1, <3>4, <3>5, <3>6, Zenon DEF Awake, ReadDue, WriteDue, CloseDue
  <2> QED
    BY <2>3, <2>4, Zenon
\* Events of other streams, and of this one's if it is open, lead elsewhere.
<1>OwnEvent.
      ASSUME WakeInv, NEW k \in DOMAIN streams, NEW e \in DOMAIN events,
             streams[k].stream = e
      PROVE  events[e].token = k /\ (events[e].closed => sock[e].peer # "up")
  <2> USE <1>OwnEvent
  <2>1. e \in Socks /\ sock[e].state = "open"
    BY Zenon DEF WakeInv, SlabOK, Conn
  <2>2. events[e].token \in DOMAIN streams /\ streams[events[e].token].stream = e
    BY <2>1, Zenon DEF WakeInv, EventsOK
  <2> QED
    BY <2>1, <2>2, Zenon DEF WakeInv, SlabOK, EventsOK
\* An event is handled: what it says is done, or begun, for its stream.
<1>WakeDispatch.
      ASSUME WakeInv, NEW e \in Socks, DispatchStream(e)
      PROVE  EventsOK' /\ \A k \in DOMAIN streams' : Awake(k)'
  <2> USE <1>WakeDispatch
  <2> DEFINE ev == events[e]
  <2>1. /\ e \in DOMAIN events /\ pc = "next"
        /\ DOMAIN events' = DOMAIN events \ {e}
        /\ \A x \in DOMAIN events' : events'[x] = events[x]
    BY Zenon DEF DispatchStream, Handled
  <2>2. \A k : ~Reading(k) /\ ~Writing(k)
    BY <2>1, Zenon DEF Reading, Writing
  <2>3. \A k \in DOMAIN streams : streams[k].stream = e => ev.token = k /\ (ev.closed => sock[e].peer # "up")
    BY <2>1, <1>OwnEvent, Zenon
  <2>4. CASE ev.token \in DOMAIN streams /\ Cleanup(ev.token)
    <3>1. EventsOK'
      BY <2>1, <2>4, CleanupOthers, <1>EventsKept, Zenon DEF WakeInv
    <3>2. ASSUME NEW k \in DOMAIN streams'
          PROVE  Awake(k)'
      <4>1. k \in DOMAIN streams /\ k # ev.token /\ Awake(k)
        BY <2>4, CleanupOthers DEF WakeInv
      <4>2. streams[k].stream # e
        BY <2>3, <4>1, Zenon
      <4>3. Kept(k)
        BY <2>1, <2>4, <4>2, CleanupOthers DEF WakeInv, Kept
      <4> QED
        BY <2>2, <4>1, <4>3, <1>AwakeKept, Zenon
    <3> QED
      BY <3>1, <3>2, Zenon
  <2>5. CASE UNCHANGED <<streams, sock, edge>>
    <3>1. EventsOK'
      BY <2>1, <2>5, <1>EventsKept, Zenon DEF WakeInv
    <3>2. ASSUME NEW k \in DOMAIN streams', streams[k].stream # e
          PROVE  Awake(k)'
      <4>1. k \in DOMAIN streams /\ Awake(k)
        BY <2>5, <3>2, Zenon DEF WakeInv
      <4>2. Kept(k)
        BY <2>1, <2>5, <3>2, Zenon DEF Kept
      <4> QED
        BY <2>2, <4>1, <4>2, <1>AwakeKept, Zenon
    <3>3. ASSUME NEW k \in DOMAIN streams', streams[k].stream = e
          PROVE  Awake(k)'
      <4>1. k \in DOMAIN streams /\ Awake(k) /\ ev.token = k
        BY <2>3, <2>5, <3>3, Zenon DEF WakeInv
      <4>2. ev.token \in DOMAIN streams' /\ ~Cleanup(ev.token)
        BY <3>3, <4>1, RemovedDomain, Zenon
      <4>3. /\ ~ev.closed
            /\ \/ /\ ev.writable \/ ev.readable
                  /\ pc' = IF ev.writable THEN "write" ELSE "read"
                  /\ cur' = [key |-> ev.token, readable |-> ev.readable, rest |-> 0]
               \/ ~ev.writable /\ ~ev.readable
        BY <4>1, <4>2, Zenon DEF DispatchStream
      <4>4. sock[e].inq > 0 => e \in edge \/ ev.readable
        BY <2>2, <3>3, <4>1, <4>3, Zenon DEF Awake, ReadDue
      <4>5. streams[k].partial > 0 /\ sock[e].room > 0 => e \in edge \/ ev.writable
        BY <2>2, <3>3, <4>1, <4>3, Zenon DEF Awake, WriteDue
      <4>6. sock[e].peer # "up" => e \in edge
        BY <3>3, <4>1, <4>3, Zenon DEF Awake, CloseDue
      <4>7. (ev.readable => Reading(k)') /\ (ev.writable => Writing(k)')
        BY <4>1, <4>3 DEF Reading, Writing
      <4> QED
        BY <2>5, <3>3, <4>4, <4>5, <4>6, <4>7, Zenon DEF Awake, ReadDue, WriteDue, CloseDue
    <3> QED
      BY <3>1, <3>2, <3>3, Zenon
  <2> QED
    BY <2>4, <2>5, Zenon DEF DispatchStream
\* A connection is accepted with an edge; a dropped one never had an event.
<1>WakeAccept.
      ASSUME WakeInv, NEW s \in Socks, NEW key \in VacantKeys, Accept(s, key)
      PROVE  EventsOK' /\ \A k \in DOMAIN streams' : Awake(k)'
  <2> USE <1>WakeAccept
  <2>1. key \notin DOMAIN streams /\ sock[s].state = "backlog" /\ pc = "accept" /\ UNCHANGED <<pc, cur, events>>
    BY VacantFresh, Zenon DEF WakeInv, Accept
  <2>2. \A k : ~Reading(k) /\ ~Writing(k)
    BY <2>1, Zenon DEF Reading, Writing
  <2>3. \A k \in DOMAIN streams : streams[k].stream \in Socks \ {s}
    BY <2>1, Zenon DEF WakeInv, SlabOK, Conn
  <2>4. /\ \A x \in Socks \ {s} : sock'[x] = sock[x]
        /\ \A x \in edge : x \in edge'
        /\ \A k \in DOMAIN streams : k \in DOMAIN streams' /\ streams'[k] = streams[k]
        /\ \A k \in DOMAIN streams' \ DOMAIN streams : k = key /\ streams'[k].stream = s /\ s \in edge'
    BY <2>1 DEF Accept, WakeInv, SlabOK, Inserted
  <2>5. EventsOK'
    BY <2>1, <2>3, <2>4, <1>EventsKept, Zenon DEF WakeInv
  <2>6. ASSUME NEW k \in DOMAIN streams
        PROVE  Awake(k)'
    <3>1. Kept(k)
      BY <2>1, <2>3, <2>4, Zenon DEF Kept
    <3> QED
      BY <2>2, <3>1, <1>AwakeKept, Zenon DEF WakeInv
  <2>7. ASSUME NEW k \in DOMAIN streams' \ DOMAIN streams
        PROVE  Awake(k)'
    BY <2>4, Zenon DEF Awake, ReadDue, WriteDue, CloseDue
  <2> QED
    BY <2>5, <2>6, <2>7, Zenon
\* A step of the thread that neither opens nor closes a stream, takes no edge and
\* no event, and changes at most what is to be done for the stream with key key.
<1>WakeQuiet.
      ASSUME WakeInv, NEW key,
             UNCHANGED <<events, edge>>,
             DOMAIN streams' = DOMAIN streams,
             \A k \in DOMAIN streams : streams'[k].stream = streams[k].stream,
             \A k \in DOMAIN streams \ {key} : streams'[k] = streams[k] /\ sock'[streams[k].stream] = sock[streams[k].stream],
             \A s \in Socks : sock'[s].state = sock[s].state /\ sock'[s].peer = sock[s].peer,
             \A k \in DOMAIN streams \ {key} : ~Reading(k) /\ ~Writing(k),
             key \in DOMAIN streams => Awake(key)'
      PROVE  EventsOK' /\ \A k \in DOMAIN streams' : Awake(k)'
  <2> USE <1>WakeQuiet
  <2>1. EventsOK'
    BY <1>EventsKept, Zenon DEF WakeInv
  <2>2. ASSUME NEW k \in DOMAIN streams', k # key
        PROVE  Awake(k)'
    <3>1. k \in DOMAIN streams /\ Awake(k)
      BY Zenon DEF WakeInv
    <3>2. Kept(k)
      BY <2>2, <3>1, Zenon DEF Kept
    <3> QED
      BY <2>2, <3>1, <3>2, <1>AwakeKept, Zenon
  <2> QED
    BY <2>1, <2>2, Zenon
\* Only the stream being handled is read from or written to.
<1>OnlyHandled.
      ASSUME NEW k, k # cur.key
      PROVE  ~Reading(k) /\ ~Writing(k)
  BY <1>OnlyHandled, Zenon DEF Reading, Writing
\* A stream with nothing more to write, and as much to read as before, is as awake
\* as before if the reading goes on.
<1>AwakeWritten.
      ASSUME NEW key, Awake(key), UNCHANGED <<events, edge>>,
             streams'[key].stream = streams[key].stream,
             sock'[streams[key].stream].inq = sock[streams[key].stream].inq,
             sock'[streams[key].stream].peer = sock[streams[key].stream].peer,
             Reading(key) => Reading(key)',
             ~(streams'[key].partial > 0 /\ sock'[streams[key].stream].room > 0)
      PROVE  Awake(key)'
  BY <1>AwakeWritten, Zenon DEF Awake, ReadDue, CloseDue
\* A frame that is cut short leaves its stream with a full send buffer.
<1>WakeTunRecv.
      ASSUME WakeInv, NEW receiver, TunRecv(receiver)
      PROVE  EventsOK' /\ \A k \in DOMAIN streams' : Awake(k)'
  <2> USE <1>WakeTunRecv
  <2>1. SlabOK /\ FrameLen \in 0..FrameLen
    BY TcpAssumption DEF WakeInv
  <2>2. PICK key \in DOMAIN streams :
          /\ streams[key].stream \in Socks
          /\ TunWrites(key) \/ Cleanup(key)
          /\ pc = "tun" /\ UNCHANGED <<pc, cur, events, slabLen>>
    BY <2>1, TunRecvCases, Zenon
  <2> DEFINE s == streams[key].stream
             rest == FrameLen - Taken(s, FrameLen)
  <2>3. Awake(key) /\ \A k : ~Reading(k) /\ ~Writing(k)
    BY <2>2, Zenon DEF Reading, Writing, WakeInv
  <2>4. CASE TunWrites(key)
    <3>1. WriteTakes(s) /\ Send(s, FrameLen) /\ streams' = WithPartial(key, rest) /\ UNCHANGED edge
      BY <2>4, Zenon DEF TunWrites
    <3>2. rest \in 0..FrameLen
      BY <2>1, <2>2, <3>1, SendQuiet, TcpAssumption
    <3>3. /\ rest > 0 => sock'[s].room = 0
          /\ \A x \in Socks : sock'[x].state = sock[x].state /\ sock'[x].inq = sock[x].inq /\ sock'[x].peer = sock[x].peer
          /\ \A x \in Socks \ {s} : sock'[x] = sock[x]
      BY <2>1, <2>2, <3>1, SendRoom, Zenon
    <3> HIDE DEF rest
    <3>4. /\ DOMAIN streams' = DOMAIN streams
          /\ \A k \in DOMAIN streams : streams'[k].stream = streams[k].stream
          /\ streams'[key].partial = rest
          /\ \A k \in DOMAIN streams \ {key} : streams'[k] = streams[k]
      BY <2>1, <3>1, <3>2, PartialQuiet, Zenon
    <3>5. \A k \in DOMAIN streams \ {key} : sock'[streams[k].stream] = sock[streams[k].stream]
      BY <2>1, <3>3, Zenon DEF SlabOK, Conn
    <3>6. ~(streams'[key].partial > 0 /\ sock'[s].room > 0)
      BY <3>3, <3>4
    <3>7. Awake(key)'
      BY <2>2, <2>3, <3>1, <3>3, <3>4, <3>6, <1>AwakeWritten, Zenon
    <3> QED
      BY <2>2, <2>3, <3>1, <3>3, <3>4, <3>5, <3>7, <1>WakeQuiet, Zenon
  <2>5. CASE Cleanup(key)
    BY <2>2, <2>5, <1>WakeCleanup, Zenon DEF HandlerPcs
  <2> QED
    BY <2>2, <2>4, <2>5, Zenon
\* The writing part of the handler goes on until nothing is left or the send
\* buffer is full.
<1>WakeFlush.
      ASSUME WakeInv, Flush
      PROVE  EventsOK' /\ \A k \in DOMAIN streams' : Awake(k)'
  <2> USE <1>WakeFlush
  <2>0. PICK key : key = cur.key
    BY Zenon
  <2> DEFINE s == streams[key].stream
             r == streams[key].partial
             rest == r - Taken(s, r)
  <2>1. key \in DOMAIN streams /\ s \in Socks /\ r \in 0..FrameLen /\ SlabOK /\ Awake(key)
    BY <2>0, Zenon DEF Flush, WakeInv, ThreadOK, HandlerPcs, SlabOK, Conn
  <2>2. pc = "write" /\ UNCHANGED events
    BY Zenon DEF Flush
  <2>3. \A k : k # key => ~Reading(k) /\ ~Writing(k)
    BY <2>0, <1>OnlyHandled, Zenon
  <2>4. ThenRead => (Reading(key) => Reading(key)')
    BY <2>2, Zenon DEF ThenRead, Reading
  <2>5. CASE ThenRead /\ UNCHANGED <<streams, sock, edge>> /\ (r = 0 \/ WriteBlocks(s))
    <3>1. ~(r > 0 /\ sock[s].room > 0)
      BY <2>1, <2>5 DEF WriteBlocks
    <3>2. Awake(key)'
      BY <2>1, <2>2, <2>4, <2>5, <3>1, <1>AwakeWritten, Zenon
    <3> QED
      BY <2>2, <2>3, <2>5, <3>2, <1>WakeQuiet, Zenon
  <2>6. CASE /\ WriteTakes(s) /\ Send(s, r) /\ streams' = WithPartial(key, rest) /\ UNCHANGED edge
             /\ IF Taken(s, r) = r THEN ThenRead ELSE UNCHANGED <<pc, cur>>
    <3>1. rest \in 0..FrameLen /\ (rest = 0 <=> Taken(s, r) = r)
      BY <2>1, <2>6, SendQuiet, TcpAssumption
    <3>2. /\ rest > 0 => sock'[s].room = 0
          /\ \A x \in Socks : sock'[x].state = sock[x].state /\ sock'[x].inq = sock[x].inq /\ sock'[x].peer = sock[x].peer
          /\ \A x \in Socks \ {s} : sock'[x] = sock[x]
      BY <2>1, <2>6, SendRoom, Zenon
    <3>3. Reading(key) => Reading(key)'
      BY <2>4, <2>6, Zenon DEF Reading
    <3> HIDE DEF rest
    <3>4. /\ DOMAIN streams' = DOMAIN streams
          /\ \A k \in DOMAIN streams : streams'[k].stream = streams[k].stream
          /\ streams'[key].partial = rest
          /\ \A k \in DOMAIN streams \ {key} : streams'[k] = streams[k]
      BY <2>1, <2>6, <3>1, PartialQuiet, Zenon
    <3>5. \A k \in DOMAIN streams \ {key} : sock'[streams[k].stream] = sock[streams[k].stream]
      BY <2>1, <3>2, Zenon DEF SlabOK, Conn
    <3>6. ~(streams'[key].partial > 0 /\ sock'[s].room > 0)
      BY <3>2, <3>4
    <3>7. Awake(key)'
      BY <2>1, <2>2, <2>6, <3>2, <3>3, <3>4, <3>6, <1>AwakeWritten, Zenon
    <3> QED
      BY <2>2, <2>3, <2>6, <3>2, <3>4, <3>5, <3>7, <1>WakeQuiet, Zenon
  <2>7. CASE Cleanup(key) /\ EndEvent
    BY <2>0, <2>1, <2>2, <2>7, <1>WakeCleanup, Zenon
  <2> QED
    BY <2>0, <2>5, <2>6, <2>7, Zenon DEF Flush
\* The reading part of the handler ends when no message is left.
<1>WakePeek.
      ASSUME WakeInv, Peek
      PROVE  EventsOK' /\ \A k \in DOMAIN streams' : Awake(k)'
  <2> USE <1>WakePeek
  <2>0. PICK key : key = cur.key
    BY Zenon
  <2> DEFINE s == streams[key].stream
  <2>1. key \in DOMAIN streams /\ s \in Socks /\ Awake(key) /\ pc = "read" /\ UNCHANGED events
    BY <2>0, Zenon DEF Peek, WakeInv, ThreadOK, HandlerPcs, SlabOK, Conn
  <2>2. \A k : k # key => ~Reading(k) /\ ~Writing(k)
    BY <2>0, <1>OnlyHandled, Zenon
  <2>3. ~Writing(key)
    BY <2>1, Zenon DEF Writing
  <2>4. CASE UNCHANGED <<streams, sock, edge>> /\ sock[s].inq = 0
    <3>1. Awake(key)'
      BY <2>1, <2>3, <2>4 DEF Awake, WriteDue, CloseDue
    <3> QED
      BY <2>1, <2>2, <2>4, <3>1, <1>WakeQuiet, Zenon
  <2>5. CASE UNCHANGED <<cur, streams, sock, edge>> /\ pc' = "got"
    <3>1. Kept(key) /\ Reading(key)'
      BY <2>0, <2>1, <2>5, Zenon DEF Kept, Reading
    <3>2. Awake(key)'
      BY <2>1, <2>3, <3>1, <1>AwakeKept, Zenon
    <3> QED
      BY <2>1, <2>2, <2>5, <3>2, <1>WakeQuiet, Zenon
  <2>6. CASE Cleanup(key) /\ EndEvent
    BY <2>0, <2>1, <2>6, <1>WakeCleanup, Zenon
  <2> QED
    BY <2>0, <2>4, <2>5, <2>6, Zenon DEF Peek
\* A message is taken and the reading goes on.
<1>WakeRead.
      ASSUME WakeInv, NEW m, Read(m)
      PROVE  EventsOK' /\ \A k \in DOMAIN streams' : Awake(k)'
  <2> USE <1>WakeRead
  <2>0. PICK key : key = cur.key
    BY Zenon
  <2> DEFINE s == streams[key].stream
  <2>1. /\ key \in DOMAIN streams /\ s \in Socks /\ Awake(key) /\ pc = "got"
        /\ sock[s].inq \in Nat /\ sock[s].inq > 0
    BY <2>0, Zenon DEF Read, WakeInv, ThreadOK, HandlerPcs, SlabOK, Conn, Sock
  <2>2. \A k : k # key => ~Reading(k) /\ ~Writing(k)
    BY <2>0, <1>OnlyHandled, Zenon
  <2>3. /\ \A x \in Socks \ {s} : sock'[x] = sock[x]
        /\ \A x \in Socks : sock'[x].state = sock[x].state /\ sock'[x].peer = sock[x].peer
        /\ sock'[s].room = sock[s].room
        /\ UNCHANGED <<events, streams, edge>>
    BY <2>0, <2>1, SMTT(60) DEF Read, WakeInv, SlabOK, Sock
  <2>4. pc' \in {"read", "respond"} /\ cur'.key = key
    BY <2>0, Zenon DEF Read, WakeInv, ThreadOK
  <2>5. Kept(key) /\ Reading(key)' /\ ~Writing(key)
    BY <2>1, <2>3, <2>4, Zenon DEF Kept, Reading, Writing
  <2>6. Awake(key)'
    BY <2>1, <2>5, <1>AwakeKept, Zenon
  <2>7. \A k \in DOMAIN streams \ {key} : sock'[streams[k].stream] = sock[streams[k].stream]
    BY <2>1, <2>3, Zenon DEF WakeInv, SlabOK, Conn
  <2> QED
    BY <2>2, <2>3, <2>6, <2>7, <1>WakeQuiet, Zenon
\* A response, whole or cut short, changes nothing about what is to be done:
\* the reading goes on, and what is cut short has filled the send buffer.
<1>WakeRespond.
      ASSUME WakeInv, Respond
      PROVE  EventsOK' /\ \A k \in DOMAIN streams' : Awake(k)'
  <2> USE <1>WakeRespond
  <2>0. PICK key : key = cur.key
    BY Zenon
  <2> DEFINE s == streams[key].stream
             left == cur.rest - Taken(s, cur.rest)
  <2>1. /\ key \in DOMAIN streams /\ s \in Socks /\ Awake(key) /\ SlabOK
        /\ cur.rest \in 0..FrameLen /\ pc = "respond" /\ UNCHANGED events
    BY <2>0, Zenon DEF Respond, WakeInv, ThreadOK, HandlerPcs, SlabOK, Conn
  <2>2. \A k : k # key => ~Reading(k) /\ ~Writing(k)
    BY <2>0, <1>OnlyHandled, Zenon
  <2>3. ~Writing(key)
    BY <2>1, Zenon DEF Writing
  <2>4. CASE /\ WriteTakes(s) /\ Send(s, cur.rest)
             /\ cur' = [cur EXCEPT !.rest = left]
             /\ pc' = IF left = 0 THEN "read" ELSE "respond"
             /\ UNCHANGED <<streams, edge>>
    <3>1. /\ sock'[s].room > 0 => sock[s].room > 0
          /\ \A x \in Socks : sock'[x].state = sock[x].state /\ sock'[x].inq = sock[x].inq /\ sock'[x].peer = sock[x].peer
          /\ \A x \in Socks \ {s} : sock'[x] = sock[x]
      BY <2>1, <2>4, SendRoom, Zenon
    <3>2. pc' \in {"read", "respond"} /\ cur'.key = key
      BY <2>0, <2>4, Zenon DEF WakeInv, ThreadOK
    <3>3. Kept(key) /\ Reading(key)'
      BY <2>1, <2>4, <3>1, <3>2, Zenon DEF Kept, Reading
    <3>4. Awake(key)'
      BY <2>1, <2>3, <3>3, <1>AwakeKept, Zenon
    <3>5. \A k \in DOMAIN streams \ {key} : sock'[streams[k].stream] = sock[streams[k].stream]
      BY <2>1, <3>1, Zenon DEF SlabOK, Conn
    <3> QED
      BY <2>1, <2>2, <2>4, <3>1, <3>4, <3>5, <1>WakeQuiet, Zenon
  <2>5. CASE /\ WriteBlocks(s)
             /\ streams' = WithPartial(key, cur.rest)
             /\ sock' = [sock EXCEPT ![s].responses = "blocked"]
             /\ UNCHANGED <<pc, cur, edge>>
    <3>1. /\ \A x \in Socks : sock'[x].state = sock[x].state /\ sock'[x].inq = sock[x].inq /\ sock'[x].peer = sock[x].peer
          /\ \A x \in Socks \ {s} : sock'[x] = sock[x]
          /\ sock'[s].room = 0
      BY <2>1, <2>5 DEF SlabOK, Sock, WriteBlocks
    <3>2. /\ DOMAIN streams' = DOMAIN streams
          /\ \A k \in DOMAIN streams : streams'[k].stream = streams[k].stream
          /\ \A k \in DOMAIN streams \ {key} : streams'[k] = streams[k]
      BY <2>1, <2>5, PartialQuiet, Zenon
    <3>3. Reading(key)' /\ ~(sock'[s].room > 0)
      BY <2>0, <2>1, <2>5, <3>1, SMTT(60) DEF Reading
    <3>4. Awake(key)'
      BY <2>1, <2>5, <3>1, <3>2, <3>3, <1>AwakeWritten, Zenon
    <3>5. \A k \in DOMAIN streams \ {key} : sock'[streams[k].stream] = sock[streams[k].stream]
      BY <2>1, <3>1, Zenon DEF SlabOK, Conn
    <3> QED
      BY <2>1, <2>2, <2>5, <3>1, <3>2, <3>4, <3>5, <1>WakeQuiet, Zenon
  <2>6. CASE Cleanup(key) /\ EndEvent
    BY <2>0, <2>1, <2>6, <1>WakeCleanup, Zenon
  <2> QED
    BY <2>0, <2>4, <2>5, <2>6, Zenon DEF Respond
\* A step of the outside: it changes one socket, with an edge if that is registered
\* and there is something new to do.
<1>WakeOutside.
      ASSUME WakeInv, NEW s \in Socks,
             UNCHANGED <<pc, cur, events, streams>>,
             \A x \in Socks \ {s} : sock'[x] = sock[x],
             sock'[s].state = sock[s].state \/ sock[s].state = "new",
             sock[s].peer # "up" => sock'[s].peer # "up",
             \A x \in edge : x \in edge',
             sock[s].state = "open" =>
                \/ s \in edge'
                \/ /\ sock'[s].inq = sock[s].inq /\ sock'[s].peer = sock[s].peer
                   /\ sock'[s].room > 0 => sock[s].room > 0
      PROVE  EventsOK' /\ \A k \in DOMAIN streams' : Awake(k)'
  <2> USE <1>WakeOutside
  <2>1. \A k \in DOMAIN streams : streams[k].stream \in Socks /\ sock[streams[k].stream].state = "open" /\ Awake(k)
    BY Zenon DEF WakeInv, SlabOK, Conn
  <2>2. EventsOK'
    BY <2>1, <1>EventsKept, Zenon DEF WakeInv
  <2>3. ASSUME NEW k \in DOMAIN streams, Kept(k)
        PROVE  Awake(k)'
    <3>1. (Reading(k) => Reading(k)') /\ (Writing(k) => Writing(k)')
      BY Zenon DEF Reading, Writing
    <3> QED
      BY <2>1, <2>3, <3>1, <1>AwakeKept, Zenon
  <2>4. ASSUME NEW k \in DOMAIN streams, ~(streams[k].stream = s /\ s \in edge')
        PROVE  Kept(k)
    BY <2>1, <2>4, Zenon DEF Kept
  <2>5. ASSUME NEW k \in DOMAIN streams, streams[k].stream = s, s \in edge'
        PROVE  Awake(k)'
    BY <2>5, Zenon DEF Awake, ReadDue, WriteDue, CloseDue
  <2> QED
    BY <2>2, <2>3, <2>4, <2>5, Zenon
\* What arrives, a hangup and space in the send buffer come with an edge.
<1>WakeClient.
      ASSUME WakeInv, NEW s \in Socks, Client(s)
      PROVE  EventsOK' /\ \A k \in DOMAIN streams' : Awake(k)'
  <2> USE <1>WakeClient
  <2>1. sock \in [Socks -> Sock] /\ sock[s] \in Sock
    BY Zenon DEF WakeInv, SlabOK
  <2>2. CASE Connect(s)
    <3>1. /\ \A x \in Socks \ {s} : sock'[x] = sock[x]
          /\ sock[s].state = "new" /\ sock'[s].peer = sock[s].peer
      BY <2>1, <2>2, Zenon DEF Connect, Sock
    <3> QED
      BY <2>2, <3>1, <1>WakeOutside, Zenon DEF Connect
  <2>3. CASE ArriveHalf(s)
    <3>1. /\ \A x \in Socks \ {s} : sock'[x] = sock[x]
          /\ sock'[s].state = sock[s].state /\ sock'[s].peer = sock[s].peer
      BY <2>1, <2>3 DEF ArriveHalf, Sock
    <3> QED
      BY <2>3, <3>1, <1>WakeOutside, Zenon DEF ArriveHalf, Notice
  <2>4. CASE ArriveRest(s)
    <3>1. /\ \A x \in Socks \ {s} : sock'[x] = sock[x]
          /\ sock'[s].state = sock[s].state /\ sock'[s].peer = sock[s].peer
      BY <2>1, <2>4, Zenon DEF ArriveRest, Sock
    <3> QED
      BY <2>4, <3>1, <1>WakeOutside, Zenon DEF ArriveRest, Notice
  <2>5. CASE Hangup(s)
    <3>1. /\ \A x \in Socks \ {s} : sock'[x] = sock[x]
          /\ sock'[s].state = sock[s].state /\ sock'[s].peer # "up"
      BY <2>1, <2>5 DEF Hangup, Sock
    <3> QED
      BY <2>5, <3>1, <1>WakeOutside, Zenon DEF Hangup, Notice
  <2>6. CASE Drain(s)
    <3>1. /\ \A x \in Socks \ {s} : sock'[x] = sock[x]
          /\ sock'[s].state = sock[s].state /\ sock'[s].peer = sock[s].peer
          /\ sock'[s].inq = sock[s].inq /\ sock[s].room \in Nat
      BY <2>1, <2>6, TcpAssumption DEF Drain, Sock
    <3>2. s \in edge' \/ sock[s].room > 0
      BY <2>6, <3>1 DEF Drain, Notice
    <3> QED
      BY <2>6, <3>1, <3>2, <1>WakeOutside, Zenon DEF Drain, Notice
  <2> QED
    BY <2>2, <2>3, <2>4, <2>5, <2>6, Zenon DEF Client
\* A step that leaves the streams, the sockets and their edges and events alone.
<1>WakeAside.
      ASSUME WakeInv, UNCHANGED <<cur, streams, sock>>,
             pc \notin HandlerPcs \/ pc' = pc,
             \A s \in Socks : s \in edge => s \in edge',
             \A s \in Socks : s \in DOMAIN events <=> s \in DOMAIN events',
             \A s \in DOMAIN events' : events'[s] = events[s]
      PROVE  EventsOK' /\ \A k \in DOMAIN streams' : Awake(k)'
  <2> USE <1>WakeAside
  <2>1. EventsOK'
    BY Zenon DEF WakeInv, EventsOK
  <2>2. ASSUME NEW k \in DOMAIN streams'
        PROVE  Awake(k)'
    <3>1. k \in DOMAIN streams /\ streams[k].stream \in Socks /\ Awake(k)
      BY Zenon DEF WakeInv, SlabOK, Conn
    <3>2. Kept(k)
      BY <3>1, Zenon DEF Kept
    <3>3. (Reading(k) => Reading(k)') /\ (Writing(k) => Writing(k)')
      BY Zenon DEF Reading, Writing, HandlerPcs
    <3> QED
      BY <3>1, <3>2, <3>3, <1>AwakeKept, Zenon
  <2> QED
    BY <2>1, <2>2, Zenon
\* Nothing is left when the process has ended.
<1>WakeExit.
      ASSUME Exit
      PROVE  EventsOK' /\ \A k \in DOMAIN streams' : Awake(k)'
  <2> USE <1>WakeExit
  <2>1. events' = <<>> /\ streams' = <<>>
    BY Zenon DEF Exit
  <2>2. DOMAIN <<>> = {}
    OBVIOUS
  <2> QED
    BY <2>1, <2>2, Zenon DEF EventsOK
<1>1. SlabOK' /\ ThreadOK'
  BY SlabThreadInductive, Zenon DEF WakeInv
<1>2. ASSUME DispatchListener \/ DispatchTun
      PROVE  EventsOK' /\ \A k \in DOMAIN streams' : Awake(k)'
  <2>1. /\ UNCHANGED <<cur, streams, sock, edge>> /\ pc \notin HandlerPcs
        /\ \A s \in Socks : s \in DOMAIN events <=> s \in DOMAIN events'
        /\ \A s \in DOMAIN events' : events'[s] = events[s]
    BY <1>2, TcpAssumption, Zenon DEF DispatchListener, DispatchTun, Handled, HandlerPcs
  <2> QED
    BY <2>1, <1>WakeAside, Zenon
<1>3. ASSUME AcceptFails \/ TunEmpty \/ Restart \/ TunReady \/ UNCHANGED vars
      PROVE  EventsOK' /\ \A k \in DOMAIN streams' : Awake(k)'
  <2>1. /\ UNCHANGED <<cur, streams, sock, events>>
        /\ pc \notin HandlerPcs \/ pc' = pc
        /\ \A s \in Socks : s \in edge => s \in edge'
    BY <1>3, Zenon DEF AcceptFails, TunEmpty, Restart, TunReady, vars, HandlerPcs
  <2> QED
    BY <2>1, <1>WakeAside, Zenon
<1>4. CASE ReadShort
  <2>1. cur.key \in DOMAIN streams
    BY <1>4, Zenon DEF ReadShort, WakeInv, ThreadOK, HandlerPcs
  <2>2. PICK key : key = cur.key
    BY Zenon
  <2> QED
    BY <1>1, <1>4, <2>1, <2>2, <1>WakeCleanup, Zenon DEF ReadShort, WakeInv
<1>5. CASE Failure
  <2>1. Exit
    BY <1>5, Zenon DEF Failure, PollFails, SetupFails, ReadFails
  <2> QED
    BY <1>1, <2>1, <1>WakeExit, Zenon DEF WakeInv
<1> QED
  BY Zenon, <1>1, <1>2, <1>3, <1>4, <1>5,
     <1>WakePoll, <1>WakeDispatch, <1>WakeAccept, <1>WakeTunRecv, <1>WakeFlush, <1>WakePeek, <1>WakeRead, <1>WakeRespond, <1>WakeClient
  DEF Next, ServerStep, WakeInv

\* WakeInv is an invariant of the server.
LEMMA WakeInvariant == Spec => []WakeInv
<1>1. Init => WakeInv
  <2> SUFFICES ASSUME Init PROVE WakeInv
    BY Zenon
  <2>1. events = <<>> /\ streams = <<>>
    BY Zenon DEF Init
  <2>2. DOMAIN <<>> = {}
    OBVIOUS
  <2> QED
    BY <2>1, <2>2, SlabThreadInit, Zenon DEF WakeInv, EventsOK
<1> QED
  BY <1>1, WakeInductive, PTL DEF Spec

\* A stream that an event closes although its client is up was given the key of
\* the one that the event is left over from.
LEMMA LeftoverDispatch ==
  ASSUME WakeInv, NEW e \in Socks, DispatchStream(e),
         NEW k \in DOMAIN streams, k \notin DOMAIN streams', sock[streams[k].stream].peer = "up"
  PROVE  e \in DOMAIN events /\ events[e].token = k /\ sock[e].state = "closed"
<1>1. e \in DOMAIN events /\ sock[e].state \in {"open", "closed"}
  BY Zenon DEF DispatchStream, WakeInv, EventsOK
<1>2. events[e].token \in DOMAIN streams /\ events[e].closed /\ Cleanup(events[e].token)
  BY Zenon DEF DispatchStream
<1>3. events[e].token = k
  BY <1>2, RemovedDomain, Zenon
<1>4. sock[e].state # "open"
  BY <1>1, <1>2, <1>3, Zenon DEF WakeInv, EventsOK
<1> QED
  BY <1>1, <1>3, <1>4, Zenon

\* No other step closes a stream whose client is up.
LEMMA ClosedStep ==
  ASSUME WakeInv, [Next]_vars,
         NEW k \in DOMAIN streams, k \notin DOMAIN streams', sock[streams[k].stream].peer = "up",
         pc # "read", pc' # "exited"
  PROVE  \E e \in DOMAIN events \cap Socks : events[e].token = k /\ sock[e].state = "closed"
<1>1. SlabOK /\ ThreadOK
  BY Zenon DEF WakeInv
<1>2. ASSUME NEW key \in DOMAIN streams, WriteFails(streams[key].stream), Cleanup(key)
      PROVE  FALSE
  <2>1. key = k
    BY <1>2, RemovedDomain, Zenon
  <2> QED
    BY <1>2, <2>1, Zenon DEF WriteFails
<1>3. ASSUME NEW key \in DOMAIN streams, NEW r, streams' = WithPartial(key, r)
      PROVE  FALSE
  BY <1>3, Zenon DEF WithPartial
<1>4. CASE \E e \in Socks : DispatchStream(e)
  BY <1>4, LeftoverDispatch, Zenon
<1>5. CASE \E s \in Socks : \E key \in VacantKeys : Accept(s, key)
  BY <1>5, Zenon DEF Accept, Inserted
<1>6. CASE \E receiver \in Receivers : TunRecv(receiver)
  BY <1>2, <1>3, <1>6, Zenon DEF TunRecv
<1>7. pc \in HandlerPcs => cur.key \in DOMAIN streams
  BY <1>1, Zenon DEF ThreadOK
<1>8. CASE Flush
  <2>1. cur.key \in DOMAIN streams
    BY <1>7, <1>8, Zenon DEF Flush, HandlerPcs
  <2> QED
    BY <1>2, <1>3, <1>8, <2>1, Zenon DEF Flush
<1>9. CASE ReadShort
  <2>1. cur.key \in DOMAIN streams /\ WriteFails(streams[cur.key].stream)
    BY <1>7, <1>9, Zenon DEF ReadShort, HandlerPcs, WriteFails
  <2> QED
    BY <1>2, <1>9, <2>1, Zenon DEF ReadShort
<1>10. CASE Respond
  <2>1. cur.key \in DOMAIN streams
    BY <1>7, <1>10, Zenon DEF Respond, HandlerPcs
  <2> QED
    BY <1>2, <1>3, <1>10, <2>1, Zenon DEF Respond
<1>11. ~Peek /\ ~Failure
  BY Zenon DEF Peek, Failure, PollFails, SetupFails, ReadFails, Exit
<1>12. UNCHANGED streams => FALSE
  BY Zenon
<1> QED
  BY <1>4, <1>5, <1>6, <1>8, <1>9, <1>10, <1>11, <1>12, Zenon
  DEF Next, ServerStep, vars, Client, Poll, DispatchListener, DispatchTun, AcceptFails, TunEmpty,
      Read, Restart, TunReady, Connect, ArriveHalf, ArriveRest, Hangup, Drain

\* However keys are reused and events are left over, a stream whose client is up is
\* closed only by an event of the stream that had its key before, or by a message
\* that decode refuses.
THEOREM ClosedByLeftoverHolds == Spec => ClosedByLeftover
<1>1. WakeInv /\ [Next]_vars =>
        [\A k \in DOMAIN streams :
           (/\ k \notin DOMAIN streams' /\ sock[streams[k].stream].peer = "up"
            /\ pc # "read" /\ pc' # "exited")
             => \E e \in DOMAIN events \cap Socks :
                  events[e].token = k /\ sock[e].state = "closed"]_vars
  BY ClosedStep, Zenon
<1> QED
  BY <1>1, WakeInvariant, PTL DEF Spec, ClosedByLeftover

\* A connection waits in the listen queue only if the listener is to be looked at.
Listening ==
  (\E s \in Socks : sock[s].state = "backlog") => TCP \in edge \cup DOMAIN events \/ pc = "accept"

\* A step that puts nothing into the listen queue and ends no accept loop.
LEMMA ListeningKept ==
  ASSUME Listening,
         \A s \in Socks : sock'[s].state = "backlog" => sock[s].state = "backlog",
         TCP \in edge => TCP \in edge' \cup DOMAIN events',
         TCP \in DOMAIN events => TCP \in DOMAIN events' \/ pc' = "accept",
         pc = "accept" => pc' = "accept"
  PROVE  Listening'
  BY Zenon DEF Listening

\* No step leaves a connection in the listen queue with the listener forgotten.
LEMMA ListeningInductive ==
  ASSUME SlabOK, ThreadOK, Listening, [Next]_vars,
         \A s \in Socks : sock[s].state = "backlog" => ~NoFds
  PROVE  Listening'
<1>1. TCP \notin Socks /\ TCP # TUN
  BY TcpAssumption, Zenon
<1>2. ASSUME NEW key \in DOMAIN streams, Cleanup(key)
      PROVE  /\ \A s \in Socks : sock'[s].state = "backlog" => sock[s].state = "backlog"
             /\ TCP \in edge => TCP \in edge'
  <2>1. streams[key].stream \in Socks
    BY Zenon DEF SlabOK, Conn
  <2>2. edge' = edge \ {streams[key].stream}
    BY <1>2, Zenon DEF Cleanup
  <2> QED
    BY <1>1, <1>2, <2>1, <2>2, CleanupOthers, Zenon
<1>3. ASSUME NEW s \in Socks, NEW r \in 0..FrameLen, WriteTakes(s), Send(s, r)
      PROVE  \A x \in Socks : sock'[x].state = sock[x].state
  BY <1>3, SendRoom, Zenon
<1>4. CASE Poll
  BY <1>4, ListeningKept DEF Poll
<1>5. CASE DispatchListener
  BY <1>5, Zenon DEF DispatchListener, Listening
<1>6. CASE DispatchTun
  BY <1>1, <1>6, ListeningKept, Zenon DEF DispatchTun, Handled
<1>7. CASE \E e \in Socks : DispatchStream(e)
  <2>1. PICK e \in Socks : DispatchStream(e)
    BY <1>7, Zenon
  <2>2. pc = "next" /\ DOMAIN events' = DOMAIN events \ {e}
    BY <2>1, Zenon DEF DispatchStream, Handled
  <2>3. /\ \A s \in Socks : sock'[s].state = "backlog" => sock[s].state = "backlog"
        /\ TCP \in edge => TCP \in edge'
    BY <1>2, <2>1, Zenon DEF DispatchStream
  <2> QED
    BY <1>1, <2>2, <2>3, ListeningKept, Zenon
<1>8. CASE AcceptFails
  <2>1. \A s \in Socks : sock[s].state # "backlog"
    BY <1>8, Zenon DEF AcceptFails
  <2> QED
    BY <1>8, <2>1, Zenon DEF AcceptFails, Listening
<1>9. CASE \E s \in Socks : \E key \in VacantKeys : Accept(s, key)
  BY <1>9, Zenon DEF Accept, Listening
<1>10. CASE \E receiver \in Receivers : TunRecv(receiver)
  <2>1. PICK receiver \in Receivers : TunRecv(receiver)
    BY <1>10, Zenon
  <2>2. PICK key \in DOMAIN streams :
          /\ streams[key].stream \in Socks
          /\ TunWrites(key) \/ Cleanup(key)
          /\ pc = "tun" /\ UNCHANGED <<pc, cur, events, slabLen>>
    BY <2>1, TunRecvCases, Zenon
  <2>3. FrameLen \in 0..FrameLen
    BY TcpAssumption
  <2>4. /\ \A s \in Socks : sock'[s].state = "backlog" => sock[s].state = "backlog"
        /\ TCP \in edge => TCP \in edge'
    BY <1>2, <1>3, <2>2, <2>3, Zenon DEF TunWrites
  <2> QED
    BY <2>2, <2>4, ListeningKept, Zenon
<1>11. ASSUME pc \in HandlerPcs, UNCHANGED events,
              \/ Cleanup(cur.key)
              \/ UNCHANGED edge /\ \A s \in Socks : sock'[s].state = sock[s].state
       PROVE  Listening'
  <2>1. cur.key \in DOMAIN streams /\ pc # "accept"
    BY <1>11, Zenon DEF ThreadOK, HandlerPcs
  <2>2. PICK key \in DOMAIN streams : key = cur.key
    BY <2>1, Zenon
  <2>3. /\ \A s \in Socks : sock'[s].state = "backlog" => sock[s].state = "backlog"
        /\ TCP \in edge => TCP \in edge'
    BY <1>2, <1>11, <2>2, Zenon
  <2> QED
    BY <1>11, <2>1, <2>3, ListeningKept, Zenon
<1>12. CASE Flush
  <2> DEFINE s == streams[cur.key].stream
             r == streams[cur.key].partial
  <2>1. s \in Socks /\ r \in 0..FrameLen /\ pc \in HandlerPcs /\ UNCHANGED events
    BY <1>12, Zenon DEF Flush, ThreadOK, HandlerPcs, SlabOK, Conn
  <2>2. \/ Cleanup(cur.key)
        \/ UNCHANGED edge /\ \A x \in Socks : sock'[x].state = sock[x].state
    BY <1>3, <1>12, <2>1, Zenon DEF Flush
  <2> QED
    BY <1>11, <2>1, <2>2, Zenon
<1>13. CASE Peek
  <2>1. /\ pc \in HandlerPcs /\ UNCHANGED events
        /\ Cleanup(cur.key) \/ UNCHANGED <<edge, sock>>
    BY <1>13, Zenon DEF Peek, HandlerPcs
  <2> QED
    BY <1>11, <2>1, Zenon
<1>14. CASE \E m \in Messages \cap {"request", "indication"} : Read(m)
  <2>1. UNCHANGED <<edge, events>> /\ pc \in HandlerPcs
    BY <1>14, Zenon DEF Read, HandlerPcs
  <2>2. \A s \in Socks : sock'[s].state = sock[s].state
    BY <1>14, SMTT(60) DEF Read, SlabOK, Sock
  <2> QED
    BY <1>11, <2>1, <2>2, Zenon
<1>15. CASE ReadShort
  BY <1>11, <1>15, Zenon DEF ReadShort, HandlerPcs
<1>16. CASE Respond
  <2> DEFINE s == streams[cur.key].stream
  <2>1. s \in Socks /\ cur.rest \in 0..FrameLen /\ pc \in HandlerPcs /\ UNCHANGED events
    BY <1>16, Zenon DEF Respond, ThreadOK, HandlerPcs, SlabOK, Conn
  <2>2. sock' = [sock EXCEPT ![s].responses = "blocked"] => \A x \in Socks : sock'[x].state = sock[x].state
    BY <2>1 DEF SlabOK, Sock
  <2>3. \/ Cleanup(cur.key)
        \/ UNCHANGED edge /\ \A x \in Socks : sock'[x].state = sock[x].state
    BY <1>3, <1>16, <2>1, <2>2, Zenon DEF Respond
  <2> QED
    BY <1>11, <2>1, <2>3, Zenon
<1>17. CASE Failure
  <2>1. Exit
    BY <1>17, Zenon DEF Failure, PollFails, SetupFails, ReadFails
  <2> QED
    BY <2>1, ListeningKept, Zenon DEF Exit, NewSock, ClosedSock, Listening
<1>18. CASE \E s \in Socks : Client(s)
  <2>1. PICK s \in Socks : Client(s)
    BY <1>18, Zenon
  <2>2. CASE Connect(s)
    BY <2>2, Zenon DEF Connect, Listening
  <2>3. ASSUME \A x \in Socks : sock'[x].state = sock[x].state,
               Notice(s) \/ UNCHANGED edge, UNCHANGED <<pc, events>>
        PROVE  Listening'
    BY <2>3, ListeningKept, Zenon DEF Notice
  <2>4. CASE ArriveHalf(s) \/ ArriveRest(s) \/ Hangup(s) \/ Drain(s)
    <3>1. \A x \in Socks : sock'[x].state = sock[x].state
      BY <2>4 DEF ArriveHalf, ArriveRest, Hangup, Drain, SlabOK, Sock
    <3>2. (Notice(s) \/ UNCHANGED edge) /\ UNCHANGED <<pc, events>>
      BY <2>4, Zenon DEF ArriveHalf, ArriveRest, Hangup, Drain
    <3> QED
      BY <2>3, <3>1, <3>2, Zenon
  <2> QED
    BY <2>1, <2>2, <2>4, Zenon DEF Client
<1>19. CASE TunEmpty \/ Restart \/ TunReady \/ UNCHANGED vars
  <2>1. /\ UNCHANGED <<sock, events>> /\ (TCP \in edge => TCP \in edge') /\ (pc = "accept" => pc' = "accept")
    BY <1>19, Zenon DEF TunEmpty, Restart, TunReady, vars
  <2> QED
    BY <2>1, ListeningKept, Zenon
<1> QED
  BY <1>4, <1>5, <1>6, <1>7, <1>8, <1>9, <1>10, <1>12, <1>13, <1>14, <1>15, <1>16, <1>17, <1>18, <1>19, Zenon
  DEF Next, ServerStep

FST == INSTANCE FiniteSetTheorems

\* The finite sets and the cardinality the library's facts are about are those of
\* the model: both are the definitions of FiniteSets.
LEMMA SameSize ==
  /\ \A S : IsFiniteSet(S) <=> FST!IsFiniteSet(S)
  /\ \A S : Cardinality(S) = FST!Cardinality(S)
<1>1. \A S : IsFiniteSet(S) <=> FST!IsFiniteSet(S)
  BY Zenon DEF IsFiniteSet, FST!IsFiniteSet
<1>2. \A S : Cardinality(S) = FST!Cardinality(S)
  BY Zenon DEF Cardinality, FST!Cardinality
<1> QED
  BY <1>1, <1>2, Zenon

\* A set that maps one to one into a finite set less one of its members is smaller.
LEMMA OneLess ==
  ASSUME NEW S, NEW T, IsFiniteSet(T), NEW x \in T, NEW f \in [S -> T \ {x}],
         \A j, k \in S : f[j] = f[k] => j = k
  PROVE  /\ Cardinality(S) \in Nat /\ Cardinality(T) \in Nat
         /\ Cardinality(S) < Cardinality(T)
<1>1. FST!IsFiniteSet(T)
  BY SameSize, Zenon
<1>2. f \in FST!Injection(S, T \ {x})
  BY Zenon DEF FST!Injection, FST!IsInjective
<1>3. /\ FST!IsFiniteSet(T \ {x})
      /\ FST!Cardinality(T \ {x}) = FST!Cardinality(T) - 1
  BY <1>1, FST!FS_RemoveElement, Zenon
<1>4. FST!IsFiniteSet(S) /\ FST!Cardinality(S) <= FST!Cardinality(T \ {x})
  BY <1>2, <1>3, FST!FS_Injection, Zenon
<1>5. FST!Cardinality(S) \in Nat /\ FST!Cardinality(T) \in Nat
  BY <1>1, <1>4, FST!FS_CardinalityType, Zenon
<1>6. FST!Cardinality(S) < FST!Cardinality(T)
  BY <1>3, <1>4, <1>5
<1> QED
  BY <1>5, <1>6, SameSize, Zenon

\* While a connection waits, a server with a descriptor for every client has one
\* left: the slab maps into the other clients, one to one.
LEMMA DescriptorLeft ==
  ASSUME SlabOK, IsFiniteSet(Socks), Cardinality(Socks) <= MaxFds,
         NEW s \in Socks, sock[s].state = "backlog"
  PROVE  ~NoFds
<1> DEFINE f == [k \in DOMAIN streams |-> streams[k].stream]
<1>1. f \in [DOMAIN streams -> Socks \ {s}]
  BY Zenon DEF SlabOK, Conn
<1>2. \A j, k \in DOMAIN streams : f[j] = f[k] => j = k
  BY Zenon DEF SlabOK
<1> HIDE DEF f
<1>3. /\ Cardinality(DOMAIN streams) \in Nat /\ Cardinality(Socks) \in Nat
      /\ Cardinality(DOMAIN streams) < Cardinality(Socks)
  BY <1>1, <1>2, OneLess, Zenon
<1> QED
  BY <1>3, TcpAssumption DEF NoFds

\* No message, no unfinished frame, no hangup and no connection is forgotten, for
\* any number of clients, any frames and buffers and whatever arrives while the
\* handlers run: edge-triggered readiness never strands the work it announced.
THEOREM NoLostWakeupHolds == IsFiniteSet(Socks) => (Spec => []NoLostWakeup)
<1> SUFFICES ASSUME IsFiniteSet(Socks) PROVE Spec => []NoLostWakeup
  BY Zenon
<1>1. CASE Cardinality(Socks) <= MaxFds
  <2>1. Init => Listening
    BY DEF Init, Listening, NewSock, ClosedSock
  <2>2. SlabOK /\ ThreadOK /\ Listening /\ [Next]_vars => Listening'
    BY <1>1, ListeningInductive, DescriptorLeft, Zenon
  <2>3. WakeInv /\ Listening => NoLostWakeup
    BY Zenon DEF WakeInv, Listening, NoLostWakeup
  <2> QED
    BY <2>1, <2>2, <2>3, SlabThreadInvariant, WakeInvariant, PTL DEF Spec
<1>2. CASE ~(Cardinality(Socks) <= MaxFds)
  <2>1. WakeInv => NoLostWakeup
    BY <1>2, Zenon DEF WakeInv, NoLostWakeup
  <2> QED
    BY <2>1, WakeInvariant, PTL
<1> QED
  BY <1>1, <1>2, Zenon

=============================================================================
