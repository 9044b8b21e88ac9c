--------------------------- MODULE SnowFellProofs ---------------------------
(***************************************************************************)
(* The bridge keeps its types, sends a reply to the association that the   *)
(* frame came from, hears its peers under the labels they were told and    *)
(* forgets nothing that waits: for every set of association ids, every     *)
(* sequence of drawn OUIs and every frame that a host may send.            *)
(***************************************************************************)
EXTENDS SnowFell, TLAPS

-----------------------------------------------------------------------------
(* Sequences and MAC addresses *)

\* What a queue over a set holds, and what is left of it.
LEMMA QueueFacts ==
  ASSUME NEW S, NEW q \in Seq(S), q # <<>>
  PROVE  Head(q) \in S /\ Tail(q) \in Seq(S)
  OBVIOUS

\* A queue over a set is one over every larger set.
LEMMA QueueWidens ==
  ASSUME NEW S, NEW T, S \subseteq T, NEW q \in Seq(S)
  PROVE  q \in Seq(T)
<1>1. Len(q) \in Nat /\ q = [i \in 1..Len(q) |-> q[i]] /\ \A i \in 1..Len(q) : q[i] \in T
  OBVIOUS
<1> QED
  BY <1>1

\* Local OUIs are numbers with a clear multicast bit.
LEMMA LocalFacts == \A o \in LocalOui : o \in Nat /\ o % 2 = 0
  BY DEF LocalOui

\* The OUI that is made of a drawn number is a local one.
LEMMA DrawnLocal ==
  ASSUME NEW r \in Nat
  PROVE  Drawn(r) \in LocalOui
<1>1. PICK quarter \in Nat, bits \in 0..3 : r = 4 * quarter + bits
  BY r = 4 * (r \div 4) + (r % 4) /\ r \div 4 \in Nat /\ r % 4 \in 0..3
<1>2. CASE bits \in {0, 1}
  <2>1. r - (r % 2) = 4 * quarter /\ ((4 * quarter) \div 2) % 2 = 0
    BY <1>1, <1>2
  <2>2. Drawn(r) = 4 * quarter + 2
    BY <2>1 DEF Drawn
  <2> QED
    BY <2>2 DEF LocalOui
<1>3. CASE bits \in {2, 3}
  <2>1. r - (r % 2) = 4 * quarter + 2 /\ ((4 * quarter + 2) \div 2) % 2 = 1
    BY <1>1, <1>3
  <2>2. Drawn(r) = 4 * quarter + 2
    BY <2>1 DEF Drawn
  <2> QED
    BY <2>2 DEF LocalOui
<1> QED
  BY <1>1, <1>2, <1>3

\* The OUIs that the process can have.
LEMMA DrawsLocal ==
  ASSUME NEW i \in 1..Len(Draws)
  PROVE  Drawn(Draws[i]) \in LocalOui
<1>1. Draws[i] \in Nat
  BY MacsAssumption
<1> QED
  BY <1>1, DrawnLocal, ZenonT(60)

\* The address of an association is an address.
LEMMA MacOfType ==
  ASSUME NEW o \in LocalOui, NEW id \in Ids
  PROVE  MacOf(o, id) \in Mac /\ MacOf(o, id) # None
<1>1. o \in Nat /\ id \in Nat /\ id % IdSpan \in 0..(IdSpan - 1)
  BY LocalFacts, IdsAssumption
<1> QED
  BY <1>1, MacsAssumption DEF MacOf, Mac

-----------------------------------------------------------------------------
(* The inductive invariant *)

\* What waits at the SCTP socket: what is not ignored names its association,
\* and a frame its source.
Received == {i \in Item : (i.what # "quiet" => i.id \in Ids) /\ (i.what = "frame" => i.src \in Mac)}

\* A frame on the TAP side has the address of its association, with a unicast
\* OUI; a frame to a unicast address goes to the association that it names.
Addressed ==
  /\ oui % 2 = 0
  /\ \A f \in seen : f.src.low = f.id % IdSpan /\ ~multicast(f.src)
  /\ \A r \in out : multicast(r.dst) \/ r.id = r.dst.low

\* There is no association while the process is down, and no label before there
\* was an association.
Ended ==
  /\ server = "down" => Live = {}
  /\ \A id \in Ids : chan[id] = "none" => label[id] = None

Inv == TypeOK /\ rcv \in Seq(Received) /\ Addressed /\ Ended /\ LabelHeard

\* The invariant holds at the start.
LEMMA InitInv == Init => Inv
<1> SUFFICES ASSUME Init PROVE Inv
  OBVIOUS
<1>0. oui \in LocalOui
  BY DrawsLocal, MacsAssumption, BoundsAssumption DEF Init
<1>1. oui \in Nat /\ oui % 2 = 0
  BY <1>0, LocalFacts, Zenon
<1>2. TypeOK /\ rcv \in Seq(Received)
  BY <1>0, <1>1 DEF Init, TypeOK, Chan
<1>3. Addressed /\ Ended /\ LabelHeard
  BY <1>1 DEF Init, Addressed, Ended, LabelHeard, Live
<1> QED
  BY <1>2, <1>3 DEF Inv

\* Steps that change neither associations nor what was sent keep the invariant.
LEMMA QuietStep ==
  ASSUME Inv, UNCHANGED <<server, oui, chan, label, seen>>, out' = {},
         ready' \subseteq {"TAP", "SCTP"}, events' \in Seq({"TAP", "SCTP"}),
         tapIn' \in Seq(HostMacs), rcv' \in Seq(Received), starts' \in Nat
  PROVE  Inv'
<1>1. rcv' \in Seq(Item)
  BY QueueWidens DEF Received
<1>2. TypeOK'
  BY <1>1 DEF Inv, TypeOK
<1>3. Addressed' /\ Ended' /\ LabelHeard'
  BY DEF Inv, Addressed, Ended, LabelHeard, Live
<1> QED
  BY <1>2, <1>3 DEF Inv

\* What the loop of SCTP finds.
LEMMA TakenFacts ==
  ASSUME Inv, NEW what, Taken(what)
  PROVE  Head(rcv) \in Received /\ Head(rcv).what = what /\ rcv' \in Seq(Received)
  BY QueueFacts DEF Inv, Taken

\* The end of the process.
LEMMA ExitStep ==
  ASSUME Inv, Exit
  PROVE  Inv'
<1>1. TypeOK' /\ rcv' \in Seq(Received)
  BY DEF Inv, TypeOK, Exit, Live, Chan
<1>2. Live' = {}
  BY DEF Inv, TypeOK, Exit, Live, Chan
<1>3. Addressed'
  BY DEF Inv, Addressed, Exit
<1>4. Ended' /\ LabelHeard'
  BY <1>2 DEF Inv, TypeOK, Ended, LabelHeard, Exit, Live, Chan
<1> QED
  BY <1>1, <1>3, <1>4 DEF Inv

\* The loop of TAP sends to the association that the address names.
LEMMA TapRecvStep ==
  ASSUME Inv, NEW reached, TapRecv(reached)
  PROVE  Inv'
<1>1. Head(tapIn) \in HostMacs /\ tapIn' \in Seq(HostMacs)
  BY QueueFacts DEF Inv, TypeOK, TapRecv
<1>2. reached \subseteq Ids /\ \A id \in reached : multicast(Head(tapIn)) \/ id = Head(tapIn).low
  BY DEF TapRecv, Receivers, Live
<1>3. TypeOK'
  BY <1>1, <1>2 DEF Inv, TypeOK, TapRecv, loopVars
<1>4. Addressed'
  BY <1>2 DEF Inv, Addressed, TapRecv, loopVars
<1>5. Ended' /\ LabelHeard' /\ rcv' \in Seq(Received)
  BY DEF Inv, Ended, LabelHeard, Live, TapRecv, loopVars
<1> QED
  BY <1>3, <1>4, <1>5 DEF Inv

\* The label that a peer is told is the address that the bridge lets through.
LEMMA OpensStep ==
  ASSUME Inv, NEW sent \in BOOLEAN, Opens(sent)
  PROVE  Inv'
<1> DEFINE id == Head(rcv).id
<1>1. id \in Ids /\ rcv' \in Seq(Received) /\ rcv' \in Seq(Item)
  BY TakenFacts, QueueWidens, ZenonT(60) DEF Opens, Received
<1>2. MacOf(oui, id) \in Mac /\ MacOf(oui, id) # None
  BY <1>1, MacOfType DEF Inv, TypeOK
<1>3. Addressed'
  BY DEF Inv, Addressed, Opens, loopVars
<1>4. server = "running" /\ UNCHANGED <<server, oui, ready, events, tapIn, seen, starts>> /\ out' = {}
  BY DEF Opens, Taken, Handling, loopVars
<1>5. CASE sent /\ id \in Live
  <2>1. chan' = [chan EXCEPT ![id] = "open"] /\ label' = [label EXCEPT ![id] = MacOf(oui, id)]
    BY <1>5 DEF Opens
  <2> HIDE DEF id
  <2>2. TypeOK'
    BY <1>1, <1>2, <1>4, <2>1 DEF Inv, TypeOK, Chan
  <2>3. Live' = Live
    BY <1>1, <1>5, <2>1 DEF Inv, TypeOK, Live
  <2>4. Ended' /\ LabelHeard'
    BY <1>1, <1>4, <2>1, <2>3 DEF Inv, TypeOK, Ended, LabelHeard
  <2> QED
    BY <1>1, <1>3, <2>2, <2>4 DEF Inv
<1>6. CASE ~(sent /\ id \in Live)
  <2>1. chan' = [chan EXCEPT ![id] = IF @ = "up" THEN "refused" ELSE @] /\ UNCHANGED label
    BY <1>6 DEF Opens
  <2> HIDE DEF id
  <2>2. TypeOK'
    BY <1>1, <1>4, <2>1 DEF Inv, TypeOK, Chan
  <2>3. Live' = Live
    BY <1>1, <2>1 DEF Inv, TypeOK, Live
  <2>4. Ended' /\ LabelHeard'
    BY <1>1, <1>4, <2>1, <2>3 DEF Inv, TypeOK, Ended, LabelHeard
  <2> QED
    BY <1>1, <1>3, <2>2, <2>4 DEF Inv
<1> QED
  BY <1>5, <1>6

\* A frame that is let through has the address of its association.
LEMMA BridgesStep ==
  ASSUME Inv, Bridges
  PROVE  Inv'
<1> DEFINE f == Head(rcv)
<1>1. f.id \in Ids /\ f.src \in Mac /\ rcv' \in Seq(Received) /\ rcv' \in Seq(Item)
  <2>1. f \in Received /\ f.what = "frame" /\ rcv' \in Seq(Received)
    BY TakenFacts DEF Bridges
  <2>2. rcv' \in Seq(Item)
    BY <2>1, QueueWidens DEF Received
  <2> HIDE DEF f
  <2> QED
    BY <2>1, <2>2 DEF Received
<1>2. UNCHANGED <<server, oui, ready, events, tapIn, chan, label, starts>> /\ out' = {}
  BY DEF Bridges, loopVars
<1>3. seen' = seen \/ (f.src = MacOf(oui, f.id) /\ seen' = seen \cup {[id |-> f.id, src |-> f.src]})
  BY DEF Bridges
<1> HIDE DEF f
<1>4. TypeOK'
  BY <1>1, <1>2, <1>3 DEF Inv, TypeOK
<1>5. Addressed'
  BY <1>1, <1>2, <1>3 DEF Inv, Addressed, MacOf, multicast
<1>6. Ended' /\ LabelHeard'
  BY <1>2 DEF Inv, Ended, LabelHeard, Live
<1> QED
  BY <1>1, <1>4, <1>5, <1>6 DEF Inv

\* Another OUI is drawn only while there is no association.
LEMMA RestartStep ==
  ASSUME Inv, Restart
  PROVE  Inv'
<1>0. oui' \in LocalOui
  <2>1. starts + 1 \in 1..Len(Draws)
    BY MacsAssumption DEF Inv, TypeOK, Restart
  <2> QED
    BY <2>1, DrawsLocal DEF Restart
<1>1. oui' \in Nat /\ oui' % 2 = 0
  BY <1>0, LocalFacts, Zenon
<1>2. TypeOK' /\ rcv' \in Seq(Received)
  BY <1>0, <1>1 DEF Inv, TypeOK, Restart
<1>3. Addressed'
  BY <1>1 DEF Inv, Addressed, Restart, multicast
<1>4. Live' = {}
  BY DEF Inv, Ended, Restart, Live
<1>5. Ended' /\ LabelHeard'
  BY <1>4 DEF Inv, Ended, LabelHeard, Restart
<1> QED
  BY <1>2, <1>3, <1>5 DEF Inv

\* What is queued at the SCTP socket.
LEMMA QueuedFacts ==
  ASSUME Inv, NEW what, NEW id, NEW src, Queued(what, id, src),
         [what |-> what, id |-> id, src |-> src] \in Received
  PROVE  /\ rcv' \in Seq(Received) /\ rcv' \in Seq(Item) /\ server = "running" /\ out' = {}
         /\ UNCHANGED <<server, oui, events, tapIn, seen, starts>>
         /\ ready' \subseteq {"TAP", "SCTP"}
<1>1. rcv' \in Seq(Received)
  BY DEF Inv, Queued
<1> QED
  BY <1>1, QueueWidens DEF Inv, TypeOK, Queued, Received

\* The kernel's and the peers' steps that change an association.
LEMMA AssociationStep ==
  ASSUME Inv, NEW id \in Ids, Associate(id) \/ PeerRestarts(id) \/ End(id)
  PROVE  Inv'
<1>1. /\ rcv' \in Seq(Received) /\ rcv' \in Seq(Item) /\ server = "running" /\ out' = {}
      /\ UNCHANGED <<server, oui, events, tapIn, seen, starts>>
      /\ ready' \subseteq {"TAP", "SCTP"}
  <2>1. /\ [what |-> "up", id |-> id, src |-> None] \in Received
        /\ [what |-> "quiet", id |-> None, src |-> None] \in Received
    BY DEF Received, Item
  <2> QED
    BY <2>1, QueuedFacts DEF Associate, PeerRestarts, End
<1>2. Addressed'
  BY <1>1 DEF Inv, Addressed
<1>3. CASE Associate(id)
  <2>1. chan[id] = "none" /\ chan' = [chan EXCEPT ![id] = "up"] /\ label' = label
    BY <1>3, IdsAssumption DEF Associate
  <2>2. TypeOK'
    BY <1>1, <2>1 DEF Inv, TypeOK, Chan
  <2>3. Ended' /\ LabelHeard'
    BY <1>1, <2>1 DEF Inv, TypeOK, Ended, LabelHeard, Live
  <2> QED
    BY <1>1, <1>2, <2>2, <2>3 DEF Inv
<1>4. CASE PeerRestarts(id)
  <2>1. id \in Live /\ chan' = [chan EXCEPT ![id] = "forgotten"] /\ label' = [label EXCEPT ![id] = None]
    BY <1>4 DEF PeerRestarts
  <2>2. TypeOK'
    BY <1>1, <2>1 DEF Inv, TypeOK, Chan
  <2>3. Ended' /\ LabelHeard'
    BY <1>1, <2>1 DEF Inv, TypeOK, Ended, LabelHeard, Live
  <2> QED
    BY <1>1, <1>2, <2>2, <2>3 DEF Inv
<1>5. CASE End(id)
  <2>1. id \in Live /\ chan' = [chan EXCEPT ![id] = "gone"] /\ label' = label
    BY <1>5 DEF End
  <2>2. TypeOK'
    BY <1>1, <2>1 DEF Inv, TypeOK, Chan
  <2>3. Ended' /\ LabelHeard'
    BY <1>1, <2>1 DEF Inv, TypeOK, Ended, LabelHeard, Live
  <2> QED
    BY <1>1, <1>2, <2>2, <2>3 DEF Inv
<1> QED
  BY <1>3, <1>4, <1>5

\* What peers and hosts send.
LEMMA SendsStep ==
  ASSUME Inv,
         \/ \E id \in Ids : PeerSends(id, "string", None)
         \/ \E id \in Ids, src \in {MacOf(oui, i) : i \in Ids} : PeerSends(id, "frame", src)
         \/ \E dst \in HostMacs : HostSends(dst)
  PROVE  Inv'
<1>1. ASSUME NEW id \in Ids, PeerSends(id, "string", None)
      PROVE  Inv'
  <2>1. [what |-> "string", id |-> id, src |-> None] \in Received
    BY DEF Received, Item
  <2>2. Queued("string", id, None) /\ UNCHANGED <<chan, label>>
    BY <1>1 DEF PeerSends
  <2> QED
    BY <2>1, <2>2, QueuedFacts, QuietStep, SMTT(60) DEF Inv, TypeOK
<1>2. ASSUME NEW id \in Ids, NEW i \in Ids, PeerSends(id, "frame", MacOf(oui, i))
      PROVE  Inv'
  <2>1. [what |-> "frame", id |-> id, src |-> MacOf(oui, i)] \in Received
    BY MacOfType DEF Received, Item, Inv, TypeOK
  <2>2. Queued("frame", id, MacOf(oui, i)) /\ UNCHANGED <<chan, label>>
    BY <1>2 DEF PeerSends
  <2> QED
    BY <2>1, <2>2, QueuedFacts, QuietStep, SMTT(60) DEF Inv, TypeOK
<1>3. ASSUME NEW dst \in HostMacs, HostSends(dst)
      PROVE  Inv'
  <2>1. tapIn' \in Seq(HostMacs)
    BY <1>3 DEF HostSends, Inv, TypeOK
  <2> QED
    BY <1>3, <2>1, QuietStep DEF HostSends, Inv, TypeOK
<1> QED
  BY <1>1, <1>2, <1>3

\* Every step keeps the invariant.
LEMMA NextInv == Inv /\ [Next]_vars => Inv'
<1> SUFFICES ASSUME Inv, [Next]_vars PROVE Inv'
  OBVIOUS
<1>1. CASE Poll
  <2>1. events' \in Seq({"TAP", "SCTP"})
    BY <1>1, SMTT(60) DEF Poll
  <2> QED
    BY <1>1, <2>1, QuietStep, SMTT(60) DEF Poll, Inv, TypeOK
<1>2. ASSUME NEW token, NEW queue, LoopEnds(token, queue)
      PROVE  Inv'
  <2>1. events' \in Seq({"TAP", "SCTP"})
    BY <1>2, QueueFacts DEF LoopEnds, Handling, Inv, TypeOK
  <2> QED
    BY <1>2, <2>1, QuietStep DEF LoopEnds, Inv, TypeOK
<1>3. CASE Text \/ Ignores
  <2>1. rcv' \in Seq(Received)
    BY <1>3, TakenFacts DEF Text, Ignores
  <2> QED
    BY <1>3, <2>1, QuietStep, ZenonT(60) DEF Text, Ignores, Inv, TypeOK, loopVars
<1>4. CASE TextPanics \/ PollFails
  BY <1>4, ExitStep DEF TextPanics, PollFails
<1>5. CASE Environment
  BY <1>5, AssociationStep, SendsStep DEF Environment
<1>6. CASE UNCHANGED vars
  <2>1. TypeOK' /\ rcv' \in Seq(Received)
    BY <1>6 DEF Inv, TypeOK, vars, loopVars
  <2>2. Addressed' /\ Ended' /\ LabelHeard'
    BY <1>6 DEF Inv, Addressed, Ended, LabelHeard, Live, vars, loopVars
  <2> QED
    BY <2>1, <2>2 DEF Inv
<1> QED
  BY <1>1, <1>2, <1>3, <1>4, <1>5, <1>6, TapRecvStep, OpensStep, BridgesStep, RestartStep
  DEF Next, ServerStep

\* The invariant holds always.
LEMMA InvHolds == Spec => []Inv
<1> QED
  BY InitInv, NextInv, PTL DEF Spec

-----------------------------------------------------------------------------
(* Theorems *)

\* The queues, tokens, associations and histories of the bridge keep their types.
THEOREM TypeCorrect == Spec => []TypeOK
<1>1. Inv => TypeOK
  BY DEF Inv
<1> QED
  BY <1>1, InvHolds, PTL

\* What a host sends to the source of a frame goes to the association that the
\* frame came from: the id is read back from the address it was written into.
THEOREM RepliesReturnHolds == Spec => []RepliesReturn
<1>1. Inv => RepliesReturn
  <2> SUFFICES ASSUME Inv, NEW f \in seen, NEW r \in out, f.id < IdSpan, f.src = r.dst
               PROVE  r.id = f.id
    BY DEF RepliesReturn
  <2>1. f.src.low = f.id % IdSpan /\ ~multicast(f.src)
    BY DEF Inv, Addressed
  <2>2. r.id = r.dst.low
    BY <2>1 DEF Inv, Addressed
  <2>3. f.id \in Nat
    BY IdsAssumption, ZenonT(60) DEF Inv, TypeOK
  <2>4. f.id % IdSpan = f.id
    BY <2>3, IdsAssumption
  <2> QED
    BY <2>1, <2>2, <2>4
<1> QED
  BY <1>1, InvHolds, PTL

\* A peer is heard under the label that it was told, across exits and restarts
\* of the process.
THEOREM LabelHeardHolds == Spec => []LabelHeard
<1>1. Inv => LabelHeard
  BY DEF Inv
<1> QED
  BY <1>1, InvHolds, PTL

-----------------------------------------------------------------------------
(* Nothing that waits is forgotten *)

\* What is in a queue behind its head is in its tail.
LEMMA TailHas ==
  ASSUME NEW S, NEW q \in Seq(S), NEW i \in 1..Len(q), q[i] # Head(q)
  PROVE  \E j \in 1..Len(Tail(q)) : Tail(q)[j] = q[i]
<1>1. Len(q) \in Nat /\ q # <<>> /\ Head(q) = q[1] /\ Len(Tail(q)) = Len(q) - 1
  OBVIOUS
<1>2. i # 1 /\ i - 1 \in 1..Len(Tail(q))
  BY <1>1
<1>3. Tail(q)[i - 1] = q[i]
  BY <1>1, <1>2
<1> QED
  BY <1>2, <1>3, SMTT(60)

\* What is in a queue stays in it when something is appended.
LEMMA AppendHas ==
  ASSUME NEW S, NEW q \in Seq(S), NEW x \in S, NEW i \in 1..Len(q)
  PROVE  i \in 1..Len(Append(q, x)) /\ Append(q, x)[i] = q[i]
  OBVIOUS

\* What is appended to a queue is in it.
LEMMA AppendedHas ==
  ASSUME NEW S, NEW q \in Seq(S), NEW x \in S
  PROVE  \E i \in 1..Len(Append(q, x)) : Append(q, x)[i] = x
<1>1. Len(q) \in Nat /\ Len(Append(q, x)) = Len(q) + 1 /\ Append(q, x)[Len(q) + 1] = x
  OBVIOUS
<1> QED
  BY <1>1

\* The notification that association id came up.
Announced(id) == \E i \in 1..Len(rcv) : rcv[i].what = "up" /\ rcv[i].id = id

\* poll reports every edge.
LEMMA PollForgets ==
  ASSUME Inv, NoneForgotten, Poll
  PROVE  NoneForgotten'
<1>1. ASSUME NEW token, Pending(token)
      PROVE  Pending(token)'
  <2>1. token \in ready
    BY <1>1 DEF Poll, Pending
  <2>2. {events'[i] : i \in 1..Len(events')} = ready
    BY DEF Poll
  <2> QED
    BY <2>1, <2>2 DEF Pending
<1> QED
  BY <1>1 DEF NoneForgotten, Poll

\* A loop ends with an empty queue, and the other token stays.
LEMMA LoopEndsForgets ==
  ASSUME Inv, NoneForgotten,
         LoopEnds("TAP", tapIn) \/ LoopEnds("SCTP", rcv)
  PROVE  NoneForgotten'
<1>1. ASSUME NEW token, Pending(token), Head(events) # token
      PROVE  Pending(token)'
  <2>1. events \in Seq({"TAP", "SCTP"}) /\ events' = Tail(events) /\ ready' = ready
    BY DEF Inv, TypeOK, LoopEnds
  <2> QED
    BY <1>1, <2>1, TailHas DEF Pending
<1>2. UNCHANGED <<tapIn, rcv, chan>>
  BY DEF LoopEnds
<1>3. /\ tapIn # <<>> => Head(events) = "SCTP"
      /\ rcv # <<>> => Head(events) = "TAP"
  BY DEF LoopEnds, Handling
<1> QED
  BY <1>1, <1>2, <1>3 DEF NoneForgotten

\* A step that takes no token away and no association's notification.
LEMMA NoneForgottenKept ==
  ASSUME NoneForgotten, ready \subseteq ready', UNCHANGED events,
         tapIn' # <<>> => tapIn # <<>> \/ "TAP" \in ready',
         rcv' # <<>> => rcv # <<>> \/ "SCTP" \in ready',
         \A id \in Ids : chan'[id] = "up" => Announced(id)'
  PROVE  NoneForgotten'
<1>1. \A token : Pending(token) => Pending(token)'
  BY DEF Pending
<1>2. \A token : token \in ready' => Pending(token)'
  BY DEF Pending
<1> QED
  BY <1>1, <1>2 DEF NoneForgotten, Announced

\* What the loop of SCTP takes is the notification of one association at most,
\* and that is then not waiting for it any more.
LEMMA TakenForgets ==
  ASSUME Inv, NoneForgotten, NEW what, Taken(what),
         UNCHANGED <<ready, events, tapIn>>,
         \A id \in Ids : chan'[id] = "up" => chan[id] = "up" /\ ~(what = "up" /\ Head(rcv).id = id)
  PROVE  NoneForgotten'
<1>1. rcv \in Seq(Received) /\ rcv # <<>> /\ rcv' = Tail(rcv) /\ Head(rcv).what = what
  BY DEF Inv, Taken
<1>2. ASSUME NEW id \in Ids, chan'[id] = "up"
      PROVE  Announced(id)'
  <2>1. PICK i \in 1..Len(rcv) : rcv[i].what = "up" /\ rcv[i].id = id
    BY <1>2 DEF NoneForgotten
  <2>2. rcv[i] # Head(rcv)
    BY <1>1, <1>2, <2>1
  <2>3. PICK j \in 1..Len(Tail(rcv)) : Tail(rcv)[j] = rcv[i]
    BY <1>1, <2>2, TailHas
  <2> QED
    BY <1>1, <2>1, <2>3, ZenonT(60) DEF Announced
<1> QED
  BY <1>1, <1>2, NoneForgottenKept

\* What is queued comes with an edge and takes no notification away.
LEMMA QueuedForgets ==
  ASSUME Inv, NoneForgotten, NEW what, NEW id, NEW src, Queued(what, id, src),
         [what |-> what, id |-> id, src |-> src] \in Received,
         \A i \in Ids : chan'[i] = "up" => chan[i] = "up" \/ (what = "up" /\ i = id)
  PROVE  NoneForgotten'
<1> DEFINE item == [what |-> what, id |-> id, src |-> src]
<1>1. rcv \in Seq(Received) /\ rcv' = Append(rcv, item) /\ ready' = ready \cup {"SCTP"} /\ UNCHANGED <<events, tapIn>>
  BY DEF Inv, Queued
<1>2. item.what = what /\ item.id = id /\ item \in Received
  OBVIOUS
<1> HIDE DEF item
<1>3. ASSUME NEW i \in Ids, chan'[i] = "up"
      PROVE  Announced(i)'
  <2>1. CASE chan[i] = "up"
    <3>1. PICK j \in 1..Len(rcv) : rcv[j].what = "up" /\ rcv[j].id = i
      BY <2>1 DEF NoneForgotten
    <3>2. j \in 1..Len(rcv') /\ rcv'[j] = rcv[j]
      BY <1>1, <1>2, AppendHas
    <3> QED
      BY <3>1, <3>2 DEF Announced
  <2>2. CASE what = "up" /\ i = id
    <3>1. PICK j \in 1..Len(rcv') : rcv'[j] = item
      BY <1>1, <1>2, AppendedHas
    <3> QED
      BY <1>2, <2>2, <3>1 DEF Announced
  <2> QED
    BY <1>3, <2>1, <2>2
<1> QED
  BY <1>1, <1>3, NoneForgottenKept

\* No step forgets what waits.
LEMMA NextForgets ==
  ASSUME Inv, NoneForgotten, [Next]_vars
  PROVE  NoneForgotten'
<1>1. ASSUME NEW id \in Ids, chan[id] = "up"
      PROVE  Announced(id)
  BY <1>1 DEF NoneForgotten, Announced
<1>2. ASSUME NEW reached, TapRecv(reached)
      PROVE  NoneForgotten'
  <2>1. UNCHANGED <<ready, events, rcv, chan>> /\ tapIn # <<>>
    BY <1>2 DEF TapRecv, loopVars
  <2> QED
    BY <1>1, <2>1, NoneForgottenKept DEF Announced
<1>3. ASSUME NEW sent \in BOOLEAN, Opens(sent)
      PROVE  NoneForgotten'
  <2> DEFINE id == Head(rcv).id
  <2>1. Taken("up") /\ UNCHANGED <<ready, events, tapIn>>
    BY <1>3 DEF Opens, loopVars
  <2>2. id \in Ids /\ chan \in [Ids -> Chan]
    BY <2>1, TakenFacts DEF Received, Inv, TypeOK
  <2>3. \/ chan' = [chan EXCEPT ![id] = "open"]
        \/ chan' = [chan EXCEPT ![id] = IF @ = "up" THEN "refused" ELSE @]
    BY <1>3 DEF Opens
  <2>4. \A i \in Ids : chan'[i] = "up" => chan[i] = "up" /\ i # id
    <3> HIDE DEF id
    <3> QED
      BY <2>2, <2>3
  <2> QED
    BY <2>1, <2>4, TakenForgets
<1>4. CASE Bridges
  <2>1. Taken("frame") /\ UNCHANGED <<ready, events, tapIn, chan>>
    BY <1>4 DEF Bridges, loopVars
  <2> QED
    BY <2>1, TakenForgets
<1>5. CASE Text
  <2>1. Taken("string") /\ UNCHANGED <<ready, events, tapIn, chan>>
    BY <1>5 DEF Text, loopVars
  <2> QED
    BY <2>1, TakenForgets
<1>6. CASE Ignores
  <2>1. Taken("quiet") /\ UNCHANGED <<ready, events, tapIn, chan>>
    BY <1>6 DEF Ignores, loopVars
  <2> QED
    BY <2>1, TakenForgets
<1>7. CASE TextPanics \/ PollFails
  <2>1. tapIn' = <<>> /\ rcv' = <<>> /\ \A id \in Ids : chan'[id] # "up"
    BY <1>7 DEF TextPanics, PollFails, Exit, Live
  <2> QED
    BY <2>1 DEF NoneForgotten
<1>8. CASE Restart \/ UNCHANGED vars
  <2>1. UNCHANGED <<ready, events, tapIn, rcv, chan>>
    BY <1>8 DEF Restart, vars, loopVars
  <2> QED
    BY <1>1, <2>1, NoneForgottenKept DEF Announced
<1>9. ASSUME NEW id \in Ids, Associate(id) \/ PeerRestarts(id) \/ End(id) \/ PeerSends(id, "string", None)
      PROVE  NoneForgotten'
  <2>1. chan \in [Ids -> Chan]
    BY DEF Inv, TypeOK
  <2>2. /\ [what |-> "up", id |-> id, src |-> None] \in Received
        /\ [what |-> "string", id |-> id, src |-> None] \in Received
        /\ [what |-> "quiet", id |-> None, src |-> None] \in Received
    BY DEF Received, Item
  <2>3. CASE Associate(id)
    <3>1. Queued("up", id, None) /\ \A i \in Ids : chan'[i] = "up" => chan[i] = "up" \/ i = id
      BY <2>1, <2>3 DEF Associate
    <3> QED
      BY <2>2, <3>1, QueuedForgets
  <2>4. CASE PeerRestarts(id) \/ End(id)
    <3>1. Queued("quiet", None, None) /\ \A i \in Ids : chan'[i] = "up" => chan[i] = "up"
      BY <2>1, <2>4 DEF PeerRestarts, End
    <3> QED
      BY <2>2, <3>1, QueuedForgets
  <2>5. CASE PeerSends(id, "string", None)
    <3>1. Queued("string", id, None) /\ UNCHANGED chan
      BY <2>5 DEF PeerSends
    <3> QED
      BY <2>2, <3>1, QueuedForgets
  <2> QED
    BY <1>9, <2>3, <2>4, <2>5
<1>10. ASSUME NEW id \in Ids, NEW i \in Ids, PeerSends(id, "frame", MacOf(oui, i))
       PROVE  NoneForgotten'
  <2>1. [what |-> "frame", id |-> id, src |-> MacOf(oui, i)] \in Received
    BY MacOfType DEF Received, Item, Inv, TypeOK
  <2>2. Queued("frame", id, MacOf(oui, i)) /\ UNCHANGED chan
    BY <1>10 DEF PeerSends
  <2> QED
    BY <2>1, <2>2, QueuedForgets
<1>11. ASSUME NEW dst, HostSends(dst)
       PROVE  NoneForgotten'
  <2>1. ready' = ready \cup {"TAP"} /\ UNCHANGED <<events, rcv, chan>>
    BY <1>11 DEF HostSends
  <2> QED
    BY <1>1, <2>1, NoneForgottenKept DEF Announced
<1> QED
  BY <1>2, <1>3, <1>4, <1>5, <1>6, <1>7, <1>8, <1>9, <1>10, <1>11, PollForgets, LoopEndsForgets
  DEF Next, ServerStep, Environment

\* Frames, notifications and messages that wait are never forgotten, and no
\* association waits for a data channel without its notification in the queue:
\* for queues of any length and whatever arrives while a loop runs.
THEOREM NoneForgottenHolds == Spec => []NoneForgotten
<1>1. Init => NoneForgotten
  BY DEF Init, NoneForgotten
<1> QED
  BY <1>1, NextForgets, InvHolds, PTL DEF Spec
=============================================================================
