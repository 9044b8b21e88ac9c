-------------------------- MODULE DtlsProxyProofs --------------------------
(***************************************************************************)
(* The DTLS proxy keeps its types and its table within the threshold, ends *)
(* no stream that is in use, and sends cipher text only to addresses that  *)
(* the stream's client has used its session from: for any number of        *)
(* clients, addresses, destinations and streams.                           *)
(***************************************************************************)
EXTENDS DtlsProxy, FiniteSetTheorems, TLAPS

\* The bounds are numbers, and there are finitely many destinations.
LEMMA Bounds ==
  /\ MaxAge \in Nat /\ Slack \in Nat /\ SessionMax \in Nat /\ MoveMax \in Nat
  /\ IsFiniteSet(Dsts) /\ Nobody \notin Clients
  BY ProxyAssumption, Zenon

-----------------------------------------------------------------------------
(* What an iteration does to the table *)

\* What is known of a packet that the loop reads.
Read(p) == p \in Packet /\ (p.kind = "hello" => p.by \in Clients)

\* The table after an iteration for p: at most the entry s of its destination
\* is new or changed.
Settled(p, s) ==
  /\ DOMAIN streams' \subseteq Live \cup {p.dst}
  /\ streams' = [d \in DOMAIN streams' |-> IF d = p.dst THEN s ELSE streams[d]]

\* The entry that an iteration leaves: it keeps phase and send_to; or its
\* handshake finishes; or send_to follows data that authenticates.
Change(p, s) ==
  LET e == Entry(p)
  IN  /\ s \in Stream /\ s.sess = e.sess
      /\ \/ s.phase = e.phase /\ s.sendTo = e.sendTo
         \/ e.phase = "handshake" /\ s.sendTo = e.sendTo /\ p.kind = "finish" /\ p.sess = e.sess
         \/ e.phase = "established" /\ s.phase = "established" /\ s.sendTo = p.src /\ p.sess = e.sess

\* The flight that an iteration may write.
Flight(p) ==
  {[to |-> Entry(p).sendTo, by |-> c, dst |-> p.dst, sess |-> Entry(p).sess] : c \in Clients}

\* All that an iteration does, unless it drops the packet.
Effect(p) ==
  /\ p.dst \in Live \/ opened < SessionMax
  /\ opened' = IF p.dst \in Live THEN opened ELSE opened + 1
  /\ \E s : Settled(p, s) /\ Change(p, s)
  /\ \E fs \in SUBSET Flight(p) : flights' = flights \cup fs
  /\ out' \subseteq [to : Sources, form : {"cipher", "plain"}]
  /\ nextCleanup' \in Nat /\ Cardinality(DOMAIN streams') <= nextCleanup'
  /\ \A d \in Live \ DOMAIN streams' :
       streams[d].age < MaxAge => p.dst \in Live /\ streams' = Restrict(streams, Live \ {d})

\* The entry of a packet has the type of a stream.
LEMMA EntryType ==
  ASSUME TypeOK, NEW p, Read(p), p.dst \in Live \/ opened < SessionMax
  PROVE  /\ Entry(p) \in Stream
         /\ Entry(p).sess \in 1..SessionMax /\ Entry(p).sendTo \in Sources
         /\ Entry(p).age \in 0..MaxAge /\ Entry(p).peer \in Clients \cup {Nobody}
         /\ Entry(p).phase \in {"handshake", "established"} /\ Entry(p).srtp \in {"none", "pair"}
<1>1. Entry(p) \in Stream
  <2>1. CASE p.dst \in Live
    BY <2>1, Zenon DEF Entry, TypeOK
  <2>2. CASE p.dst \notin Live
    BY <2>2, Bounds DEF Entry, TypeOK, Read, Packet, Stream
  <2> QED
    BY <2>1, <2>2, Zenon
<1> QED
  BY <1>1, Zenon DEF Stream

\* An entry with other values in some of its fields.
LEMMA StreamWith ==
  ASSUME NEW e \in Stream, NEW phase \in {"handshake", "established"}, NEW peer \in Clients \cup {Nobody},
         NEW srtp \in {"none", "pair"}
  PROVE  /\ [e EXCEPT !.peer = peer, !.age = 0] \in Stream
         /\ [e EXCEPT !.phase = phase, !.age = 0, !.srtp = srtp] \in Stream
<1>1. 0 \in 0..MaxAge
  BY Bounds
<1> QED
  BY <1>1, Zenon DEF Stream

\* A packet that a client puts together.
LEMMA PacketType ==
  ASSUME NEW c \in Clients, NEW src \in Addrs, NEW dst \in Dsts, NEW kind \in Kinds, NEW n \in 0..SessionMax
  PROVE  [src |-> src, dst |-> dst, kind |-> kind, by |-> c, sess |-> n] \in Packet
<1>1. src \in Sources
  BY Zenon DEF Sources
<1> QED
  BY <1>1, Zenon DEF Packet

\* A session that is new is none of those before.
LEMMA Larger == \A n \in Int : ~ n + 1 <= n
  OBVIOUS

\* One more pair.
LEMMA Paired ==
  ASSUME NEW A, NEW B, NEW S \in SUBSET (A \X B), NEW a \in A, NEW b \in B
  PROVE  S \subseteq S \cup {<<a, b>>} /\ S \cup {<<a, b>>} \subseteq A \X B /\ <<a, b>> \in S \cup {<<a, b>>}
  OBVIOUS

\* The size of the table.
LEMMA TableSize ==
  ASSUME NEW S \in SUBSET Dsts
  PROVE  IsFiniteSet(S) /\ Cardinality(S) \in Nat
  BY Bounds, FS_Subset, FS_CardinalityType, Zenon

\* What cleanup makes of the table in which the packet's entry is s.
LEMMA CleanupStep ==
  ASSUME TypeOK, NEW p, Read(p), NEW s, Cleanup(WithEntry(p, s))
  PROVE  /\ Settled(p, s)
         /\ nextCleanup' \in Nat /\ Cardinality(DOMAIN streams') <= nextCleanup'
         /\ \A d \in Live : d \notin DOMAIN streams' =>
              ~(IF d = p.dst THEN s ELSE streams[d]).age < MaxAge
<1> DEFINE table == WithEntry(p, s)
           kept == {d \in DOMAIN table : table[d].age < MaxAge}
<1>1. DOMAIN table = Live \cup {p.dst} /\ table = [d \in Live \cup {p.dst} |-> IF d = p.dst THEN s ELSE streams[d]]
  BY Zenon DEF WithEntry
<1>2. DOMAIN table \subseteq Dsts /\ kept \subseteq Dsts
  BY <1>1, Zenon DEF TypeOK, Read, Packet
<1>3. Cardinality(DOMAIN table) \in Nat /\ Cardinality(kept) \in Nat
  BY <1>2, TableSize, Zenon
<1>4. nextCleanup \in Nat /\ Slack \in Nat
  BY Bounds, Zenon DEF TypeOK
<1>5. CASE Cardinality(DOMAIN table) > nextCleanup
  <2>1. streams' = [d \in kept |-> table[d]] /\ nextCleanup' = Cardinality(kept) + Slack
    BY <1>5, Zenon DEF Cleanup, Restrict
  <2> HIDE DEF table
  <2>2. DOMAIN streams' = kept
    BY <2>1, Zenon
  <2>3. Settled(p, s)
    BY <1>1, <2>1, <2>2, Zenon DEF Settled
  <2>4. \A d \in Live : d \notin kept => ~(IF d = p.dst THEN s ELSE streams[d]).age < MaxAge
    BY <1>1, Zenon
  <2> HIDE DEF kept
  <2> QED
    BY <1>3, <1>4, <2>1, <2>2, <2>3, <2>4
<1>6. CASE ~(Cardinality(DOMAIN table) > nextCleanup)
  <2>1. streams' = table /\ nextCleanup' = nextCleanup
    BY <1>6, Zenon DEF Cleanup
  <2> HIDE DEF table
  <2> QED
    BY <1>1, <1>3, <1>4, <1>6, <2>1 DEF Settled
<1> QED
  BY <1>5, <1>6, Zenon

\* An iteration that comes to the cleanup has the effect described above.
LEMMA CleanedEffect ==
  ASSUME TypeOK, NEW p, Read(p), NEW phase, Enters(p, phase), NEW s, Cleanup(WithEntry(p, s)), Change(p, s),
         s.age = 0 \/ s.age = Entry(p).age,
         NEW fs \in SUBSET Flight(p), flights' = flights \cup fs,
         out' \subseteq [to : Sources, form : {"cipher", "plain"}]
  PROVE  Effect(p)
<1>1. (p.dst \in Live \/ opened < SessionMax) /\ opened' = IF p.dst \in Live THEN opened ELSE opened + 1
  BY Zenon DEF Enters
<1>2. /\ Settled(p, s)
      /\ nextCleanup' \in Nat /\ Cardinality(DOMAIN streams') <= nextCleanup'
      /\ \A d \in Live : d \notin DOMAIN streams' => ~(IF d = p.dst THEN s ELSE streams[d]).age < MaxAge
  BY CleanupStep, Zenon
<1>3. ASSUME NEW d \in Live \ DOMAIN streams', streams[d].age < MaxAge
      PROVE  FALSE
  <2>1. d = p.dst /\ ~(s.age < MaxAge)
    BY <1>2, <1>3, Zenon
  <2>2. Entry(p) = streams[d]
    BY <2>1, Zenon DEF Entry
  <2>3. streams[d].age \in Nat
    BY <1>3 DEF TypeOK, Stream
  <2> QED
    BY <1>3, <2>1, <2>2, <2>3, Bounds
<1> QED
  BY <1>1, <1>2, <1>3, Zenon DEF Effect

\* The same, for an iteration that removes the entry.
LEMMA RemovedEffect ==
  ASSUME TypeOK, TableBounded, NEW p, Read(p), NEW phase, Enters(p, phase), Remove(p),
         flights' = flights, out' = {}
  PROVE  Effect(p)
<1>1. (p.dst \in Live \/ opened < SessionMax) /\ opened' = IF p.dst \in Live THEN opened ELSE opened + 1
  BY Zenon DEF Enters
<1>2. streams' = [d \in Live \ {p.dst} |-> streams[d]] /\ nextCleanup' = nextCleanup
  BY Zenon DEF Remove, Restrict
<1>3. DOMAIN streams' = Live \ {p.dst}
  BY <1>2, Zenon
<1>4. Settled(p, Entry(p))
  BY <1>2, <1>3, Zenon DEF Settled
<1>5. Change(p, Entry(p))
  BY <1>1, EntryType, Zenon DEF Change
<1>6. nextCleanup' \in Nat /\ Cardinality(DOMAIN streams') <= nextCleanup'
  <2>1. IsFiniteSet(Live) /\ Cardinality(Live) \in Nat /\ Cardinality(Live \ {p.dst}) \in Nat
    BY TableSize, Zenon DEF TypeOK
  <2>2. Cardinality(Live \ {p.dst}) <= Cardinality(Live)
    BY <2>1, FS_Subset, Zenon
  <2>3. nextCleanup \in Nat /\ Cardinality(Live) <= nextCleanup
    BY Zenon DEF TypeOK, TableBounded
  <2> QED
    BY <1>2, <1>3, <2>1, <2>2, <2>3
<1>7. \A d \in Live \ DOMAIN streams' : p.dst \in Live /\ streams' = Restrict(streams, Live \ {d})
  BY <1>2, <1>3, Zenon DEF Restrict
<1> QED
  BY <1>1, <1>4, <1>5, <1>6, <1>7 DEF Effect

\* What is emitted has its type.
LEMMA EmitType ==
  ASSUME NEW to \in Sources, NEW form \in {"cipher", "plain"}, Emit(to, form)
  PROVE  out' \subseteq [to : Sources, form : {"cipher", "plain"}]
  BY DEF Emit

\* The steps of a handshake.
LEMMA HandshakeEffect ==
  ASSUME TypeOK, TableBounded, NEW p, Read(p),
         \/ HandshakeFlight(p) \/ HandshakeWaits(p) \/ HandshakeFails(p)
         \/ \E srtp \in {"none", "pair"} : HandshakeDone(p, srtp)
  PROVE  Effect(p)
<1> DEFINE e == Entry(p)
<1>1. Enters(p, "handshake")
  BY Zenon DEF HandshakeFlight, HandshakeWaits, HandshakeFails, HandshakeDone
<1>2. /\ e \in Stream /\ e.sess \in 1..SessionMax /\ e.sendTo \in Sources
      /\ e.age \in 0..MaxAge /\ e.peer \in Clients \cup {Nobody}
      /\ e.phase = "handshake" /\ e.srtp \in {"none", "pair"}
  BY <1>1, EntryType, Zenon DEF Enters
<1>3. CASE HandshakeFlight(p)
  <2> DEFINE peer == IF e.peer = Nobody THEN p.by ELSE e.peer
             s == [e EXCEPT !.peer = peer, !.age = 0]
             fs == {[to |-> e.sendTo, by |-> peer, dst |-> p.dst, sess |-> e.sess]}
  <2>1. peer \in Clients
    BY <1>2, <1>3, Zenon DEF HandshakeFlight, Read
  <2>2. Cleanup(WithEntry(p, s)) /\ flights' = flights \cup fs /\ Emit(e.sendTo, "cipher")
    BY <1>3, Zenon DEF HandshakeFlight
  <2>3. fs \subseteq Flight(p)
    BY <2>1, Zenon DEF Flight
  <2>4. s \in Stream /\ s.sess = e.sess /\ s.phase = e.phase /\ s.sendTo = e.sendTo /\ s.age = 0
    <3> HIDE DEF e, peer
    <3>1. s \in Stream
      BY <1>2, <2>1, StreamWith, Zenon
    <3>2. s.sess = e.sess /\ s.phase = e.phase /\ s.sendTo = e.sendTo /\ s.age = 0
      BY <1>2, Zenon DEF Stream
    <3> QED
      BY <3>1, <3>2, Zenon
  <2>5. Change(p, s)
    <3> HIDE DEF s
    <3> QED
      BY <2>4, Zenon DEF Change
  <2>6. out' \subseteq [to : Sources, form : {"cipher", "plain"}]
    BY <1>2, <2>2, EmitType, Zenon
  <2> HIDE DEF s, fs
  <2> QED
    BY <1>1, <2>2, <2>3, <2>4, <2>5, <2>6, CleanedEffect, Zenon
<1>4. CASE HandshakeWaits(p)
  <2>1. Cleanup(WithEntry(p, e)) /\ flights' = flights \cup {} /\ out' = {}
    BY <1>4, Zenon DEF HandshakeWaits
  <2>2. Change(p, e)
    BY <1>2, Zenon DEF Change
  <2> QED
    BY <1>1, <2>1, <2>2, CleanedEffect, Zenon
<1>5. CASE HandshakeFails(p)
  BY <1>1, <1>5, RemovedEffect, Zenon DEF HandshakeFails
<1>6. ASSUME NEW srtp \in {"none", "pair"}, HandshakeDone(p, srtp)
      PROVE  Effect(p)
  <2> DEFINE s == [e EXCEPT !.phase = "established", !.age = 0, !.srtp = srtp]
  <2>1. /\ Cleanup(WithEntry(p, s)) /\ flights' = flights \cup {} /\ Emit(e.sendTo, "cipher")
        /\ p.kind = "finish" /\ p.sess = e.sess
    BY <1>6, Zenon DEF HandshakeDone
  <2>2. s \in Stream /\ s.sess = e.sess /\ s.sendTo = e.sendTo /\ s.age = 0
    <3> HIDE DEF e
    <3>1. s \in Stream
      BY <1>2, StreamWith, Zenon
    <3>2. s.sess = e.sess /\ s.sendTo = e.sendTo /\ s.age = 0
      BY <1>2, Zenon DEF Stream
    <3> QED
      BY <3>1, <3>2, Zenon
  <2>3. Change(p, s)
    <3> HIDE DEF s
    <3> QED
      BY <1>2, <2>1, <2>2, Zenon DEF Change
  <2>4. out' \subseteq [to : Sources, form : {"cipher", "plain"}]
    BY <1>2, <2>1, EmitType, Zenon
  <2> HIDE DEF s
  <2> QED
    BY <1>1, <2>1, <2>2, <2>3, <2>4, CleanedEffect, Zenon
<1> QED
  BY <1>3, <1>4, <1>5, <1>6, Zenon

\* The steps of an established stream.
LEMMA EstablishedEffect ==
  ASSUME TypeOK, TableBounded, NEW p, Read(p), Media(p) \/ Write(p) \/ Peek(p)
  PROVE  Effect(p)
<1> DEFINE e == Entry(p)
<1>1. Enters(p, "established")
  BY Zenon DEF Media, Write, Peek
<1>2. /\ e \in Stream /\ e.sess \in 1..SessionMax /\ e.sendTo \in Sources
      /\ e.age \in 0..MaxAge /\ e.peer \in Clients \cup {Nobody}
      /\ e.phase = "established" /\ e.srtp \in {"none", "pair"}
  BY <1>1, EntryType, Zenon DEF Enters
<1>3. p.dst \in Live /\ e = streams[p.dst]
  BY <1>2, Zenon DEF Entry
<1>4. Change(p, e)
  BY <1>2, Zenon DEF Change
<1>5. p.src \in Sources /\ Endpoint \in Sources /\ RtpEndpoint \in Sources
  BY Zenon DEF Read, Packet, Sources
<1>6. CASE Media(p)
  <2>1. streams' = streams /\ nextCleanup' = nextCleanup /\ flights' = flights \cup {} /\ opened' = opened
    BY <1>3, <1>6, Zenon DEF Media, Enters
  <2>2. Settled(p, e)
    BY <1>3, <2>1, Zenon DEF Settled, TypeOK
  <2>3. out' \subseteq [to : Sources, form : {"cipher", "plain"}]
    BY <1>2, <1>5, <1>6 DEF Media
  <2>4. nextCleanup' \in Nat /\ Cardinality(DOMAIN streams') <= nextCleanup'
    BY <2>1, Zenon DEF TypeOK, TableBounded
  <2>5. Live \ DOMAIN streams' = {}
    BY <2>1, Zenon DEF Live
  <2> HIDE DEF e
  <2> QED
    BY <1>3, <1>4, <2>1, <2>2, <2>3, <2>4, <2>5, Zenon DEF Effect
<1>7. CASE Write(p)
  <2>1. CASE p.kind = "big"
    BY <1>1, <1>7, <2>1, RemovedEffect, Zenon DEF Write
  <2>2. CASE p.kind # "big"
    <3> DEFINE s == [e EXCEPT !.age = 0]
    <3>1. Cleanup(WithEntry(p, s)) /\ flights' = flights \cup {} /\ Emit(e.sendTo, "cipher")
      BY <1>7, <2>2, Zenon DEF Write
    <3>2. s \in Stream /\ s.sess = e.sess /\ s.phase = e.phase /\ s.sendTo = e.sendTo /\ s.age = 0
      <4> HIDE DEF e
      <4> QED
        BY <1>2, Bounds DEF Stream
    <3>3. Change(p, s)
      <4> HIDE DEF s
      <4> QED
        BY <3>2, Zenon DEF Change
    <3>4. out' \subseteq [to : Sources, form : {"cipher", "plain"}]
      BY <1>2, <3>1, EmitType, Zenon
    <3> HIDE DEF s
    <3> QED
      BY <1>1, <3>1, <3>2, <3>3, <3>4, CleanedEffect, Zenon
  <2> QED
    BY <2>1, <2>2, Zenon
<1>8. CASE Peek(p)
  <2>1. CASE p.kind = "close" /\ p.sess = e.sess
    BY <1>1, <1>8, <2>1, RemovedEffect, Zenon DEF Peek
  <2>2. CASE p.kind = "data" /\ p.sess = e.sess
    <3> DEFINE s == [e EXCEPT !.sendTo = p.src]
    <3>1. Cleanup(WithEntry(p, s)) /\ flights' = flights \cup {} /\ Emit(Endpoint, "plain")
      BY <1>8, <2>2, Zenon DEF Peek
    <3>2. s \in Stream /\ s.sess = e.sess /\ s.phase = e.phase /\ s.sendTo = p.src /\ s.age = e.age
      <4> HIDE DEF e
      <4> QED
        BY <1>2, <1>5, Zenon DEF Stream
    <3>3. Change(p, s)
      <4> HIDE DEF s
      <4> QED
        BY <1>2, <2>2, <3>2, Zenon DEF Change
    <3>4. out' \subseteq [to : Sources, form : {"cipher", "plain"}]
      BY <1>5, <3>1, EmitType, Zenon
    <3> HIDE DEF s
    <3> QED
      BY <1>1, <3>1, <3>2, <3>3, <3>4, CleanedEffect, Zenon
  <2>3. CASE ~(p.kind = "close" /\ p.sess = e.sess) /\ ~(p.kind = "data" /\ p.sess = e.sess)
    <3>1. Cleanup(WithEntry(p, e)) /\ flights' = flights \cup {} /\ out' = {}
      BY <1>8, <2>3, Zenon DEF Peek
    <3> QED
      BY <1>1, <1>4, <3>1, CleanedEffect, Zenon
  <2> QED
    BY <2>1, <2>2, <2>3, Zenon
<1> QED
  BY <1>6, <1>7, <1>8, Zenon

\* An iteration drops its packet or has the effect described above.
LEMMA IterationEffect ==
  ASSUME TypeOK, TableBounded, NEW p, Read(p), Iteration(p)
  PROVE  Drop(p) \/ Effect(p)
  BY HandshakeEffect, EstablishedEffect, Zenon DEF Iteration

-----------------------------------------------------------------------------
(* The inductive invariant *)

\* Sessions are numbered in the order of their streams, and no two streams
\* have the same.
Numbered ==
  /\ \A d \in Live : streams[d].sess <= opened
  /\ \A d, d2 \in Live : streams[d].sess = streams[d2].sess => d = d2
  /\ \A f \in flights : f.sess <= opened
  /\ \A p \in wire : p.sess <= opened
  /\ \A c \in Clients : session[c] <= opened

\* Packets come from clients, and those that are protected were recorded.
Recorded == \A p \in wire : p.by \in Clients /\ (p.sess # 0 => <<p.sess, p.src>> \in spoke)

\* The flights of a handshake go where its stream sends to, and only from there
\* is it answered.
Answered ==
  \A d \in Live : streams[d].phase = "handshake" =>
    /\ \A f \in flights : f.sess = streams[d].sess => f.to = streams[d].sendTo
    /\ \A p \in wire : p.kind = "finish" /\ p.sess = streams[d].sess => p.src = streams[d].sendTo

Inv == TypeOK /\ TableBounded /\ Numbered /\ Recorded /\ Answered /\ AuthenticRoaming

\* The invariant holds at the start.
LEMMA InitInv == Init => Inv
<1> SUFFICES ASSUME Init PROVE Inv
  BY Zenon
<1>1. Live = {}
  BY Zenon DEF Init, Live
<1>2. TypeOK
  BY <1>1, Bounds DEF Init, TypeOK
<1>3. TableBounded
  BY <1>1, FS_EmptySet, Bounds DEF Init, TableBounded
<1>4. Numbered /\ Recorded /\ Answered /\ AuthenticRoaming
  BY <1>1 DEF Init, Numbered, Recorded, Answered, AuthenticRoaming
<1> QED
  BY <1>2, <1>3, <1>4, Zenon DEF Inv

\* A packet that is handled was sent with a session that exists, and from where
\* it was recorded and answered.
Genuine(p) ==
  /\ Read(p) /\ p.sess <= opened /\ (p.sess # 0 => <<p.sess, p.src>> \in spoke)
  /\ \A d \in Live : streams[d].phase = "handshake" /\ p.kind = "finish" /\ p.sess = streams[d].sess
       => p.src = streams[d].sendTo

\* Both kinds of packets that are handled are such.
LEMMA PacketsGenuine ==
  ASSUME Inv, NEW p, p \in wire \/ p \in EndpointPackets
  PROVE  Genuine(p)
<1>1. CASE p \in wire
  <2>1. Read(p) /\ p.sess <= opened /\ (p.sess # 0 => <<p.sess, p.src>> \in spoke)
    BY <1>1, Zenon DEF Inv, TypeOK, Numbered, Recorded, Read
  <2>2. \A d \in Live : streams[d].phase = "handshake" /\ p.kind = "finish" /\ p.sess = streams[d].sess
          => p.src = streams[d].sendTo
    BY <1>1, Zenon DEF Inv, Answered
  <2> QED
    BY <2>1, <2>2, Zenon DEF Genuine
<1>2. CASE p \in EndpointPackets
  <2>1. p \in Packet /\ p.kind \notin {"hello", "finish"} /\ p.sess = 0
    BY <1>2, Bounds DEF EndpointPackets, Packet, Sources, Kinds
  <2> QED
    BY <2>1 DEF Genuine, Read, Inv, TypeOK
<1> QED
  BY <1>1, <1>2, Zenon

\* The session of a packet's entry, if it is new, is new as well.
LEMMA EntryFresh ==
  ASSUME Inv, NEW p, p.dst \notin Live
  PROVE  Entry(p).sess = opened + 1 /\ Entry(p).phase = "handshake"
  BY Zenon DEF Entry

\* An iteration keeps the invariant, if the wire loses at most packets.
LEMMA EffectInv ==
  ASSUME Inv, NEW p, Genuine(p), Effect(p), wire' \subseteq wire, UNCHANGED clientVars
  PROVE  Inv'
<1> DEFINE e == Entry(p)
<1>1. PICK s : Settled(p, s) /\ Change(p, s)
  BY Zenon DEF Effect
<1>2. PICK fs \in SUBSET Flight(p) : flights' = flights \cup fs
  BY Zenon DEF Effect
<1>3. p \in Packet /\ Read(p) /\ p.dst \in Dsts
  BY Zenon DEF Genuine, Read, Packet
<1>4. e \in Stream /\ e.sess \in 1..SessionMax /\ e.sendTo \in Sources
  BY <1>3, EntryType, Zenon DEF Inv, Effect
<1>5. s \in Stream /\ s.sess = e.sess
  BY <1>1, Zenon DEF Change
<1>6. opened \in 0..SessionMax /\ opened' \in 0..SessionMax /\ opened <= opened' /\ e.sess <= opened'
  <2>1. CASE p.dst \in Live
    <3>1. opened' = opened /\ e = streams[p.dst]
      BY <2>1, Zenon DEF Entry, Effect
    <3>2. opened \in 0..SessionMax /\ streams[p.dst].sess <= opened
      BY <2>1, Zenon DEF Inv, TypeOK, Numbered
    <3> QED
      BY <3>1, <3>2
  <2>2. CASE p.dst \notin Live
    <3>1. opened' = opened + 1 /\ opened < SessionMax
      BY <2>2, Zenon DEF Effect
    <3>2. opened \in 0..SessionMax /\ SessionMax \in Nat
      BY Bounds, Zenon DEF Inv, TypeOK
    <3>3. e.sess = opened + 1
      BY <2>2, EntryFresh, Zenon
    <3> HIDE DEF e
    <3> QED
      BY <3>1, <3>2, <3>3
  <2> QED
    BY <2>1, <2>2, Zenon
<1>7. UNCHANGED <<where, moves, session, spoke>>
  BY Zenon DEF clientVars
<1>8. DOMAIN streams' \subseteq Live \cup {p.dst}
  BY <1>1, Zenon DEF Settled
<1>9. \A d \in DOMAIN streams' : streams'[d] = IF d = p.dst THEN s ELSE streams[d]
  BY <1>1, Zenon DEF Settled
<1>10. \A f \in fs : f \in Flight(p)
  BY <1>2, Zenon
<1>11. TypeOK'
  <2>1. Live' \subseteq Dsts /\ streams' \in [Live' -> Stream]
    BY <1>1, <1>3, <1>5, <1>8, <1>9, ZenonT(60) DEF Inv, TypeOK, Settled, Live
  <2>2. flights' \subseteq [to : Sources, by : Clients, dst : Dsts, sess : 1..SessionMax]
    <3>1. Flight(p) \subseteq [to : Sources, by : Clients, dst : Dsts, sess : 1..SessionMax]
      BY <1>3, <1>4, SMTT(60) DEF Flight
    <3> QED
      BY <1>2, <3>1, Zenon DEF Inv, TypeOK
  <2> QED
    BY <1>6, <1>7, <2>1, <2>2, Zenon DEF Inv, TypeOK, Effect
<1>12. TableBounded'
  BY Zenon DEF Effect, TableBounded, Live
<1>13. ASSUME NEW d \in Live', d # p.dst
       PROVE  d \in Live /\ streams'[d] = streams[d] /\ streams[d].sess # e.sess
  <2>1. d \in Live /\ streams'[d] = streams[d]
    BY <1>8, <1>9, <1>13, Zenon DEF Live
  <2>2. CASE p.dst \in Live
    BY <1>13, <2>1, <2>2, Zenon DEF Inv, Numbered, Entry
  <2>3. CASE p.dst \notin Live
    <3>1. streams[d].sess <= opened
      BY <2>1, Zenon DEF Inv, Numbered
    <3>2. streams[d].sess \in Nat
      BY <2>1, Bounds, SMTT(60) DEF Inv, TypeOK, Stream
    <3>3. e.sess = opened + 1
      BY <2>3, EntryFresh, Zenon
    <3> HIDE DEF e
    <3> QED
      BY <1>6, <2>1, <3>1, <3>2, <3>3
  <2> QED
    BY <2>1, <2>2, <2>3, Zenon
<1>14. Numbered'
  <2>1. \A d \in Live' : streams'[d].sess <= opened'
    BY <1>5, <1>6, <1>8, <1>9 DEF Inv, TypeOK, Numbered, Live, Stream
  <2>3. \A d, d2 \in Live' : streams'[d].sess = streams'[d2].sess => d = d2
    <3>1. p.dst \in Live' => streams'[p.dst] = s
      BY <1>9, Zenon DEF Live
    <3> QED
      BY <1>5, <1>13, <3>1, SMTT(60) DEF Inv, Numbered
  <2>4. \A f \in flights' : f.sess <= opened'
    <3>1. \A f \in fs : f.sess = e.sess
      BY <1>10 DEF Flight
    <3>2. \A f \in flights : f.sess <= opened /\ f.sess \in Nat
      BY DEF Inv, TypeOK, Numbered
    <3> QED
      BY <1>2, <1>6, <3>1, <3>2
  <2>5. \A q \in wire' : q.sess <= opened'
    <3>1. \A q \in wire : q.sess <= opened /\ q.sess \in Nat
      BY DEF Inv, TypeOK, Numbered, Packet
    <3> QED
      BY <1>6, <3>1
  <2>6. \A c \in Clients : session'[c] <= opened'
    <3>1. \A c \in Clients : session[c] <= opened /\ session[c] \in Nat
      BY DEF Inv, TypeOK, Numbered
    <3> QED
      BY <1>6, <1>7, <3>1
  <2> QED
    BY <2>1, <2>3, <2>4, <2>5, <2>6, Zenon DEF Numbered
<1>15. Recorded'
  BY <1>7, Zenon DEF Inv, Recorded
<1>16. Answered'
  <2> SUFFICES ASSUME NEW d \in Live', streams'[d].phase = "handshake"
               PROVE  /\ \A f \in flights' : f.sess = streams'[d].sess => f.to = streams'[d].sendTo
                      /\ \A q \in wire' : q.kind = "finish" /\ q.sess = streams'[d].sess => q.src = streams'[d].sendTo
    BY Zenon DEF Answered
  <2>1. \A f \in fs : f.sess = e.sess /\ f.to = e.sendTo
    BY <1>10 DEF Flight
  <2>2. CASE d # p.dst
    BY <1>2, <1>13, <2>1, <2>2, SMTT(60) DEF Inv, Answered
  <2>3. CASE d = p.dst
    <3>1. streams'[d] = s
      BY <1>9, <2>3, Zenon DEF Live
    <3>2. e.phase = "handshake" /\ s.sendTo = e.sendTo
      BY <1>1, <3>1, Zenon DEF Change
    <3>3. CASE p.dst \in Live
      <4>1. e = streams[d]
        BY <2>3, <3>3, Zenon DEF Entry
      <4>2. \A f \in flights : f.sess = e.sess => f.to = e.sendTo
        BY <2>3, <3>2, <3>3, <4>1, Zenon DEF Inv, Answered
      <4>3. \A q \in wire : q.kind = "finish" /\ q.sess = e.sess => q.src = e.sendTo
        BY <2>3, <3>2, <3>3, <4>1, Zenon DEF Inv, Answered
      <4> QED
        BY <1>2, <1>5, <2>1, <3>1, <3>2, <4>2, <4>3, Zenon
    <3>4. CASE p.dst \notin Live
      <4>1. e.sess = opened + 1
        BY <3>4, EntryFresh, Zenon
      <4>2. \A f \in flights : f.sess <= opened /\ f.sess \in Nat
        BY DEF Inv, TypeOK, Numbered
      <4>3. \A q \in wire : q.sess <= opened /\ q.sess \in Nat
        BY DEF Inv, TypeOK, Numbered, Packet
      <4>4. \A f \in flights : f.sess # e.sess
        BY <1>6, <4>1, <4>2
      <4>5. \A q \in wire : q.sess # e.sess
        BY <1>6, <4>1, <4>3
      <4> QED
        BY <1>2, <1>5, <2>1, <3>1, <3>2, <4>4, <4>5, Zenon
    <3> QED
      BY <3>3, <3>4, Zenon
  <2> QED
    BY <2>2, <2>3, Zenon
<1>17. AuthenticRoaming'
  <2> SUFFICES ASSUME NEW d \in Live', streams'[d].phase = "established"
               PROVE  <<streams'[d].sess, streams'[d].sendTo>> \in spoke
    BY <1>7, Zenon DEF AuthenticRoaming
  <2>1. CASE d # p.dst
    BY <1>8, <1>9, <2>1, Zenon DEF Inv, AuthenticRoaming, Live
  <2>2. CASE d = p.dst
    <3>1. streams'[d] = s
      BY <1>9, <2>2, Zenon DEF Live
    <3>2. CASE s.phase = e.phase /\ s.sendTo = e.sendTo
      <4>1. p.dst \in Live /\ e = streams[d]
        BY <2>2, <3>1, <3>2, EntryFresh, Zenon DEF Entry
      <4> QED
        BY <1>5, <2>2, <3>1, <3>2, <4>1, Zenon DEF Inv, AuthenticRoaming
    <3>3. CASE e.phase = "handshake" /\ s.sendTo = e.sendTo /\ p.kind = "finish" /\ p.sess = e.sess
      <4>1. p.dst \in Live
        <5> SUFFICES ASSUME p.dst \notin Live PROVE FALSE
          BY Zenon
        <5>1. p.sess <= opened
          BY Zenon DEF Genuine
        <5>2. e.sess = opened + 1
          BY EntryFresh, Zenon
        <5> HIDE DEF e
        <5>3. p.sess = opened + 1 /\ opened \in Int
          BY <1>6, <3>3, <5>2
        <5>4. opened + 1 <= opened
          BY <5>1, <5>3, Zenon
        <5>5. opened \in Int
          BY <5>3, Zenon
        <5> QED
          BY <5>4, <5>5, Larger, Zenon
      <4>2. e = streams[d]
        BY <2>2, <4>1, Zenon DEF Entry
      <4>3. p.src = e.sendTo
        BY <2>2, <3>3, <4>1, <4>2, Zenon DEF Genuine
      <4>4. p.sess # 0
        <5> HIDE DEF e
        <5>1. p.sess = e.sess
          BY <3>3, Zenon
        <5>2. e.sess # 0
          BY <1>4
        <5> QED
          BY <5>1, <5>2, Zenon
      <4> QED
        BY <1>5, <3>1, <3>3, <4>3, <4>4, Zenon DEF Genuine
    <3>4. CASE e.phase = "established" /\ s.sendTo = p.src /\ p.sess = e.sess
      <4>1. p.sess # 0
        BY <1>4, <3>4
      <4> QED
        BY <1>5, <3>1, <3>4, <4>1, Zenon DEF Genuine
    <3> QED
      BY <1>1, <3>2, <3>3, <3>4, Zenon DEF Change
  <2> QED
    BY <2>1, <2>2, Zenon
<1> QED
  BY <1>11, <1>12, <1>14, <1>15, <1>16, <1>17, Zenon DEF Inv

\* A packet is put on the wire: it is the only thing that is new there.
LEMMA TransmitInv ==
  ASSUME Inv, NEW p \in Packet, Transmit(p), p.by \in Clients, p.sess <= opened,
         UNCHANGED <<streams, nextCleanup, opened, out, where, moves>>,
         flights' \subseteq flights, session' \in [Clients -> 0..SessionMax],
         \A c \in Clients : session'[c] <= opened,
         spoke \subseteq spoke', spoke' \subseteq (1..SessionMax) \X Addrs,
         p.sess # 0 => <<p.sess, p.src>> \in spoke',
         \A d \in Live : streams[d].phase = "handshake" /\ p.kind = "finish" /\ p.sess = streams[d].sess
           => p.src = streams[d].sendTo
  PROVE  Inv'
<1>1. wire' = wire \cup {p} /\ Live' = Live
  BY Zenon DEF Transmit, Live
<1>2. TypeOK'
  BY <1>1, Zenon DEF Inv, TypeOK
<1>3. TableBounded' /\ AuthenticRoaming'
  BY <1>1, Zenon DEF Inv, TableBounded, AuthenticRoaming
<1>4. Numbered'
  BY <1>1, Zenon DEF Inv, Numbered
<1>5. Recorded'
  BY <1>1, Zenon DEF Inv, Recorded
<1>6. Answered'
  BY <1>1, ZenonT(60) DEF Inv, Answered
<1> QED
  BY <1>2, <1>3, <1>4, <1>5, <1>6, Zenon DEF Inv

\* The steps of a client keep the invariant.
LEMMA ClientInv ==
  ASSUME Inv, ClientStep
  PROVE  Inv'
<1>1. ASSUME NEW c \in Clients, NEW d \in Dsts, NEW kind \in {"hello", "junk"}, Begin(c, d, kind)
      PROVE  Inv'
  <2> DEFINE p == [src |-> where[c], dst |-> d, kind |-> kind, by |-> c, sess |-> 0]
  <2>1. p \in Packet /\ p.by \in Clients /\ p.sess = 0 /\ p.kind # "finish"
    <3>1. where[c] \in Addrs /\ 0 \in 0..SessionMax
      BY Bounds DEF Inv, TypeOK
    <3>2. kind \in Kinds
      BY Zenon DEF Kinds
    <3>3. p \in Packet
      BY <3>1, <3>2, PacketType, Zenon
    <3> QED
      BY <3>3, Zenon
  <2>2. Transmit(p) /\ UNCHANGED <<streams, nextCleanup, opened, out, where, moves, flights, session, spoke>>
    BY <1>1, Zenon DEF Begin, proxyVars, clientVars
  <2>3. /\ opened \in Nat /\ session' \in [Clients -> 0..SessionMax] /\ spoke' \subseteq (1..SessionMax) \X Addrs
        /\ \A c2 \in Clients : session'[c2] <= opened
    <3>1. opened \in Nat
      BY DEF Inv, TypeOK
    <3>2. session' = session /\ spoke' = spoke
      BY <2>2, Zenon
    <3>3. session \in [Clients -> 0..SessionMax] /\ spoke \subseteq (1..SessionMax) \X Addrs
      BY Zenon DEF Inv, TypeOK
    <3>4. \A c2 \in Clients : session[c2] <= opened
      BY Zenon DEF Inv, Numbered
    <3> QED
      BY <3>1, <3>2, <3>3, <3>4, Zenon
  <2> HIDE DEF p
  <2>4. p.sess <= opened
    BY <2>1, <2>3
  <2>5. flights' \subseteq flights /\ spoke \subseteq spoke'
    BY <2>2, Zenon
  <2> QED
    BY <2>1, <2>2, <2>3, <2>4, <2>5, TransmitInv, Zenon
<1>2. ASSUME NEW c \in Clients, NEW f \in flights, Answer(c, f)
      PROVE  Inv'
  <2> DEFINE p == [src |-> where[c], dst |-> f.dst, kind |-> "finish", by |-> c, sess |-> f.sess]
  <2>1. f.dst \in Dsts /\ f.sess \in 1..SessionMax /\ f.sess <= opened /\ where[c] \in Addrs
    BY Zenon DEF Inv, TypeOK, Numbered
  <2>2. p \in Packet /\ p.by \in Clients /\ p.sess = f.sess /\ p.src = where[c]
    <3>1. f.sess \in 0..SessionMax
      BY <2>1, Bounds
    <3>2. "finish" \in Kinds
      BY Zenon DEF Kinds
    <3>3. p \in Packet
      BY <2>1, <3>1, <3>2, PacketType, Zenon
    <3> QED
      BY <3>3, Zenon
  <2>3. /\ Transmit(p) /\ UNCHANGED <<streams, nextCleanup, opened, out, where, moves>>
        /\ f.to = where[c] /\ flights' \subseteq flights
        /\ session' = [session EXCEPT ![c] = f.sess] /\ spoke' = spoke \cup {<<f.sess, where[c]>>}
    BY <1>2, Zenon DEF Answer
  <2>4. session' \in [Clients -> 0..SessionMax] /\ \A c2 \in Clients : session'[c2] <= opened
    BY <2>1, <2>3 DEF Inv, TypeOK, Numbered
  <2>5. spoke \subseteq spoke' /\ spoke' \subseteq (1..SessionMax) \X Addrs /\ <<p.sess, p.src>> \in spoke'
    <3>1. spoke \in SUBSET ((1..SessionMax) \X Addrs)
      BY Zenon DEF Inv, TypeOK
    <3>2. /\ spoke \subseteq spoke \cup {<<f.sess, where[c]>>}
          /\ spoke \cup {<<f.sess, where[c]>>} \subseteq (1..SessionMax) \X Addrs
          /\ <<f.sess, where[c]>> \in spoke \cup {<<f.sess, where[c]>>}
      BY <2>1, <3>1, Paired
    <3> HIDE DEF p
    <3> QED
      BY <2>2, <2>3, <3>2, Zenon
  <2>6. \A d \in Live : streams[d].phase = "handshake" /\ p.sess = streams[d].sess => p.src = streams[d].sendTo
    BY <2>2, <2>3, Zenon DEF Inv, Answered
  <2> HIDE DEF p
  <2> QED
    BY <2>1, <2>2, <2>3, <2>4, <2>5, <2>6, TransmitInv, Zenon
<1>3. ASSUME NEW c \in Clients, NEW d \in Dsts, NEW kind \in {"data", "media", "close"}, Use(c, d, kind)
      PROVE  Inv'
  <2> DEFINE p == [src |-> where[c], dst |-> d, kind |-> kind, by |-> c, sess |-> session[c]]
  <2>1. session[c] \in 1..SessionMax /\ session[c] <= opened /\ where[c] \in Addrs
    BY <1>3 DEF Inv, TypeOK, Numbered, Use
  <2>2. p \in Packet /\ p.by \in Clients /\ p.sess = session[c] /\ p.src = where[c] /\ p.kind # "finish"
    <3>1. session[c] \in 0..SessionMax
      BY <2>1, Bounds
    <3>2. kind \in Kinds
      BY Zenon DEF Kinds
    <3>3. p \in Packet
      BY <2>1, <3>1, <3>2, PacketType, Zenon
    <3> QED
      BY <3>3, Zenon
  <2>3. /\ Transmit(p) /\ UNCHANGED <<streams, nextCleanup, opened, out, where, moves, flights, session>>
        /\ spoke' = spoke \cup {<<session[c], where[c]>>}
    BY <1>3, Zenon DEF Use, proxyVars
  <2>4. session' \in [Clients -> 0..SessionMax] /\ \A c2 \in Clients : session'[c2] <= opened
    BY <2>3, Zenon DEF Inv, TypeOK, Numbered
  <2>5. spoke \subseteq spoke' /\ spoke' \subseteq (1..SessionMax) \X Addrs /\ <<p.sess, p.src>> \in spoke'
    <3>1. spoke \in SUBSET ((1..SessionMax) \X Addrs)
      BY Zenon DEF Inv, TypeOK
    <3>2. /\ spoke \subseteq spoke \cup {<<session[c], where[c]>>}
          /\ spoke \cup {<<session[c], where[c]>>} \subseteq (1..SessionMax) \X Addrs
          /\ <<session[c], where[c]>> \in spoke \cup {<<session[c], where[c]>>}
      BY <2>1, <3>1, Paired
    <3> HIDE DEF p
    <3> QED
      BY <2>2, <2>3, <3>2, Zenon
  <2> HIDE DEF p
  <2> QED
    BY <2>1, <2>2, <2>3, <2>4, <2>5, TransmitInv, Zenon
<1>4. ASSUME NEW c \in Clients, NEW a \in Addrs, Move(c, a)
      PROVE  Inv'
  <2>1. where' \in [Clients -> Addrs] /\ moves' \in 0..MoveMax
    BY <1>4, Bounds DEF Move, Inv, TypeOK
  <2>2. UNCHANGED <<streams, nextCleanup, opened, out, flights, wire, session, spoke>>
    BY <1>4, Zenon DEF Move, proxyVars
  <2>3. TypeOK'
    BY <2>1, <2>2, Zenon DEF Inv, TypeOK, Live
  <2>4. TableBounded' /\ Numbered' /\ Recorded' /\ Answered' /\ AuthenticRoaming'
    BY <2>2, Zenon DEF Inv, TableBounded, Numbered, Recorded, Answered, AuthenticRoaming, Live
  <2> QED
    BY <2>3, <2>4, Zenon DEF Inv
<1> QED
  BY <1>1, <1>2, <1>3, <1>4, Zenon DEF ClientStep

\* Nothing but the wire changes, and it loses packets.
LEMMA WireInv ==
  ASSUME Inv, wire' \subseteq wire, UNCHANGED <<streams, nextCleanup, opened, flights, clientVars>>,
         out' \subseteq [to : Sources, form : {"cipher", "plain"}]
  PROVE  Inv'
<1>1. TypeOK'
  BY Zenon DEF Inv, TypeOK, Live, clientVars
<1>2. TableBounded' /\ Numbered' /\ Recorded' /\ Answered' /\ AuthenticRoaming'
  BY Zenon DEF Inv, TableBounded, Numbered, Recorded, Answered, AuthenticRoaming, Live, clientVars
<1> QED
  BY <1>1, <1>2, Zenon DEF Inv

\* Streams grow older.
LEMMA TickInv ==
  ASSUME Inv, Tick
  PROVE  Inv'
<1>1. Live' = Live /\ UNCHANGED <<nextCleanup, opened, out, flights, wire, where, moves, session, spoke>>
  BY Zenon DEF Tick, Live, clientVars
<1>2. \A d \in Live : /\ streams'[d] = [streams[d] EXCEPT !.age = IF @ < MaxAge THEN @ + 1 ELSE @]
                      /\ streams[d] \in Stream
  BY Zenon DEF Inv, TypeOK, Tick
<1>3. ASSUME NEW d \in Live
      PROVE  /\ streams'[d] \in Stream /\ streams'[d].sess = streams[d].sess
             /\ streams'[d].phase = streams[d].phase /\ streams'[d].sendTo = streams[d].sendTo
  <2>1. ASSUME NEW e \in Stream
        PROVE  /\ [e EXCEPT !.age = IF @ < MaxAge THEN @ + 1 ELSE @] \in Stream
               /\ [e EXCEPT !.age = IF @ < MaxAge THEN @ + 1 ELSE @].sess = e.sess
               /\ [e EXCEPT !.age = IF @ < MaxAge THEN @ + 1 ELSE @].phase = e.phase
               /\ [e EXCEPT !.age = IF @ < MaxAge THEN @ + 1 ELSE @].sendTo = e.sendTo
    <3>1. e.age \in 0..MaxAge /\ (IF e.age < MaxAge THEN e.age + 1 ELSE e.age) \in 0..MaxAge
      BY Bounds DEF Stream
    <3> QED
      BY <3>1, Zenon DEF Stream
  <2> QED
    BY <1>2, <2>1, ZenonT(60)
<1>4. TypeOK'
  BY <1>1, <1>3, Zenon DEF Inv, TypeOK, Tick
<1>5. TableBounded' /\ Recorded'
  BY <1>1, Zenon DEF Inv, TableBounded, Recorded
<1>6. Numbered'
  BY <1>1, <1>3 DEF Inv, Numbered
<1>7. Answered'
  BY <1>1, <1>3 DEF Inv, Answered
<1>8. AuthenticRoaming'
  BY <1>1, <1>3, Zenon DEF Inv, AuthenticRoaming
<1> QED
  BY <1>4, <1>5, <1>6, <1>7, <1>8, Zenon DEF Inv

\* An iteration of the loop keeps the invariant.
LEMMA IterationInv ==
  ASSUME Inv, NEW p, p \in wire \/ p \in EndpointPackets, Iteration(p),
         wire' \subseteq wire, UNCHANGED clientVars
  PROVE  Inv'
<1>1. Genuine(p) /\ Read(p)
  BY PacketsGenuine, Zenon DEF Genuine
<1>2. Drop(p) \/ Effect(p)
  BY <1>1, IterationEffect, Zenon DEF Inv
<1>3. CASE Drop(p)
  BY <1>3, WireInv, Zenon DEF Drop
<1> QED
  BY <1>1, <1>2, <1>3, EffectInv, Zenon

\* Every step keeps the invariant.
LEMMA NextInv == Inv /\ [Next]_vars => Inv'
<1> SUFFICES ASSUME Inv, [Next]_vars PROVE Inv'
  BY Zenon
<1>1. ASSUME NEW p \in wire, Arrive(p)
      PROVE  Inv'
  BY <1>1, IterationInv, Zenon DEF Arrive
<1>2. ASSUME NEW p \in EndpointPackets, FromEndpoint(p)
      PROVE  Inv'
  BY <1>2, IterationInv, Zenon DEF FromEndpoint
<1>3. ASSUME NEW p \in wire, Lose(p)
      PROVE  Inv'
  BY <1>3, WireInv, Zenon DEF Lose, proxyVars, Inv, TypeOK
<1>4. CASE UNCHANGED vars
  BY <1>4, WireInv, Zenon DEF vars, proxyVars, Inv, TypeOK
<1> QED
  BY <1>1, <1>2, <1>3, <1>4, ClientInv, TickInv, Zenon DEF Next, ProxyStep

\* The invariant holds always.
LEMMA InvHolds == Spec => []Inv
<1> QED
  BY InitInv, NextInv, PTL DEF Spec

-----------------------------------------------------------------------------
(* Theorems *)

\* The table of streams, the packets and the sessions keep their types.
THEOREM TypeCorrect == Spec => []TypeOK
<1>1. Inv => TypeOK
  BY Zenon DEF Inv
<1> QED
  BY <1>1, InvHolds, PTL

\* The table is never larger than the threshold of the next cleanup, for any
\* number of destinations and any slack.
THEOREM TableBoundedHolds == Spec => []TableBounded
<1>1. Inv => TableBounded
  BY Zenon DEF Inv
<1> QED
  BY <1>1, InvHolds, PTL

\* Cipher text of an established stream goes only where its own client has used
\* its session from, however many clients and streams there are.
THEOREM AuthenticRoamingHolds == Spec => []AuthenticRoaming
<1>1. Inv => AuthenticRoaming
  BY Zenon DEF Inv
<1> QED
  BY <1>1, InvHolds, PTL

\* Cleanup ends no stream that was written to within max_age.
THEOREM FreshKeptHolds == Spec => FreshKept
<1> DEFINE Kept == \A d \in Live \ DOMAIN streams' :
                     streams[d].age < MaxAge => opened' = opened /\ streams' = Restrict(streams, Live \ {d})
<1>1. Inv /\ [Next]_vars => [Kept]_vars
  <2> SUFFICES ASSUME Inv, Next PROVE Kept
    BY Zenon
  <2>1. ASSUME NEW p, p \in wire \/ p \in EndpointPackets, Iteration(p)
        PROVE  Kept
    <3>1. Read(p)
      BY <2>1, PacketsGenuine, Zenon DEF Genuine
    <3>2. Drop(p) \/ Effect(p)
      BY <2>1, <3>1, IterationEffect, Zenon DEF Inv
    <3>3. CASE Drop(p)
      BY <3>3, Zenon DEF Drop, Live
    <3>4. CASE Effect(p)
      BY <3>4, Zenon DEF Effect
    <3> QED
      BY <3>2, <3>3, <3>4, Zenon
  <2>2. ASSUME DOMAIN streams' = Live
        PROVE  Kept
    BY <2>2, Zenon
  <2>3. ClientStep => DOMAIN streams' = Live
    BY Zenon DEF ClientStep, Begin, Answer, Use, Move, proxyVars, Live
  <2>4. Tick => DOMAIN streams' = Live
    BY Zenon DEF Tick
  <2>5. \A p : Lose(p) => DOMAIN streams' = Live
    BY Zenon DEF Lose, proxyVars, Live
  <2> HIDE DEF Kept
  <2> QED
    BY <2>1, <2>2, <2>3, <2>4, <2>5, Zenon DEF Next, ProxyStep, Arrive, FromEndpoint
<1> QED
  BY <1>1, InvHolds, PTL DEF Spec, FreshKept
=============================================================================
