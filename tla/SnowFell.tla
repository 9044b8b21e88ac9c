------------------------------ MODULE SnowFell ------------------------------
(***************************************************************************)
(* The SCTP to Ethernet bridge (bin/snow-fell.rs): a loop that tunnels     *)
(* frames between a TAP interface and the associations of one SCTP socket. *)
(* The peer of an association is told a MAC address in the label of the    *)
(* data channel that is opened for it: the OUI that the process drew when  *)
(* it started, and the low 24 bits of the association's id.  No table is   *)
(* kept: frames are routed by the id in their destination address.         *)
(*                                                                         *)
(* The kernel's side of SCTP is external.  It gives an association an id   *)
(* that no association had before (other sockets draw from the same ids),  *)
(* and keeps one queue of notifications and messages for the socket.       *)
(***************************************************************************)
EXTENDS Integers, Sequences, FiniteSets

CONSTANTS
  Ids,       \* association ids that the kernel gives to this socket
  IdSpan,    \* 2^24: what of an id fits into a MAC address
  Draws,     \* what rand_bytes draws, each time the process is started
  HostMacs,  \* destinations of the frames that hosts behind the TAP send
  None,      \* no MAC address, no association
  RcvMax,    \* bound on what waits at the SCTP socket
  TapMax     \* bound on the frames that wait at the TAP interface

\* Ids up to SCTP_ALL_ASSOC are reserved.
ASSUME IdsAssumption == Ids \subseteq Nat \ 0..2 /\ IdSpan \in Nat \ {0}

\* MAC addresses: the OUI, a number whose lowest bit is the multicast bit and
\* whose next one the locally administered bit, and the low three bytes.
Mac == [oui : Nat, low : 0..(IdSpan - 1)]

ASSUME MacsAssumption == Draws \in Seq(Nat) /\ HostMacs \subseteq Mac /\ None \notin Mac \cup Ids

ASSUME BoundsAssumption == RcvMax \in Nat /\ TapMax \in Nat /\ Draws # <<>>

VARIABLES
  server,  \* "running", or "down"
  oui,     \* the OUI of the process
  ready,   \* tokens with an edge that poll has not reported yet
  events,  \* tokens of the current batch, the one being handled first
  tapIn,   \* destinations of the frames that wait at the TAP interface
  rcv,     \* what waits at the SCTP socket
  chan,    \* what became of each association and of its data channel
  label,   \* the MAC address that the peer of each association was told
  out,     \* what the last step sent to peers: [id, dst]
  seen,    \* history: frames that were written to the TAP interface: [id, src]
  starts   \* how often the process was started

loopVars == <<server, oui, ready, events>>
vars == <<loopVars, tapIn, rcv, chan, label, out, seen, starts>>

\* An association: does not exist yet; was established and waits for its data
\* channel; has it; did not get it, because sendmsg failed; lost it, because the
\* peer restarted; is gone.
Chan == {"none", "up", "open", "refused", "forgotten", "gone"}

Live == {id \in Ids : chan[id] \in {"up", "open", "refused", "forgotten"}}

\* What recvmsg returns.  "up" is the notification SCTP_COMM_UP; "string" a
\* message of text; "frame" an Ethernet frame on stream 1, with its source
\* address; "quiet" everything the loop ignores: other notifications, DCEP and
\* other messages, text that is not UTF-8, frames without a header, the first
\* piece of a message that is longer than the buffer.
Item == [what : {"up", "string", "frame", "quiet"}, id : Ids \cup {None}, src : Mac \cup {None}]

-----------------------------------------------------------------------------
(* MAC addresses *)

multicast(m) == m.oui % 2 = 1

\* OUIs that no manufacturer has, of addresses of one station.
LocalOui == {o \in Nat : o % 4 = 2}

\* Mutant of Drawn: the locally administered bit is not set.
Drawn_Global(r) == r - (r % 2)

\* The OUI: the multicast bit is cleared, the locally administered bit is set.
Drawn(r) == LET unicast == r - (r % 2) IN IF (unicast \div 2) % 2 = 1 THEN unicast ELSE unicast + 2

\* assoc_id.to_be_bytes()[1..], behind the OUI.
MacOf(o, id) == [oui |-> o, low |-> id % IdSpan]

-----------------------------------------------------------------------------
(* The loop *)

\* The process ends, which closes the socket and aborts the associations, and
\* removes the interface.
Exit ==
  /\ server' = "down" /\ ready' = {} /\ events' = <<>>
  /\ tapIn' = <<>> /\ rcv' = <<>> /\ out' = {}
  /\ chan' = [id \in Ids |-> IF id \in Live THEN "gone" ELSE chan[id]]
  /\ UNCHANGED <<oui, label, seen, starts>>

\* Mutant of Poll: only one token of a batch is handled.
Poll_One ==
  /\ server = "running" /\ events = <<>> /\ ready # {}
  /\ events' \in {<<t>> : t \in ready}
  /\ ready' = {} /\ out' = {}
  /\ UNCHANGED <<server, oui, tapIn, rcv, chan, label, seen, starts>>

\* poll returns with the tokens of all edges, in some order.
Poll ==
  /\ server = "running" /\ events = <<>> /\ ready # {}
  /\ events' \in {e \in {<<"TAP">>, <<"SCTP">>, <<"TAP", "SCTP">>, <<"SCTP", "TAP">>} :
                   {e[i] : i \in 1..Len(e)} = ready}
  /\ ready' = {} /\ out' = {}
  /\ UNCHANGED <<server, oui, tapIn, rcv, chan, label, seen, starts>>

\* poll fails: a signal interrupts it.
PollFails == server = "running" /\ events = <<>> /\ Exit

Handling(token) == server = "running" /\ events # <<>> /\ Head(events) = token

\* recv or recvmsg would block: the loop of the token ends.
LoopEnds(token, queue) ==
  /\ Handling(token) /\ queue = <<>>
  /\ events' = Tail(events) /\ out' = {}
  /\ UNCHANGED <<server, oui, ready, tapIn, rcv, chan, label, seen, starts>>

\* The associations that a frame for dst is sent to: all (SCTP_SENDALL); the one
\* whose id is in the address; none.
Receivers(dst) ==
  IF multicast(dst) THEN Live
  ELSE IF dst.oui = oui THEN {dst.low} \cap Live
  ELSE {}

\* The loop of TAP: recv, and sendmsg to the receivers.  A frame is lost to those
\* whose send buffer is full, and to the ones after them.
TapRecv(reached) ==
  /\ Handling("TAP") /\ tapIn # <<>>
  /\ reached \subseteq Receivers(Head(tapIn))
  /\ out' = {[id |-> id, dst |-> Head(tapIn)] : id \in reached}
  /\ tapIn' = Tail(tapIn)
  /\ UNCHANGED <<loopVars, rcv, chan, label, seen, starts>>

\* The loop of SCTP takes what waits at its socket.
Taken(what) == Handling("SCTP") /\ rcv # <<>> /\ Head(rcv).what = what /\ rcv' = Tail(rcv)

\* Mutant of Opens: the loop ends after a notification.
Opens_Once(sent) ==
  /\ Taken("up") /\ out' = {} /\ events' = Tail(events)
  /\ LET id == Head(rcv).id
     IN  IF sent /\ id \in Live
         THEN chan' = [chan EXCEPT ![id] = "open"] /\ label' = [label EXCEPT ![id] = MacOf(oui, id)]
         ELSE chan' = [chan EXCEPT ![id] = IF @ = "up" THEN "refused" ELSE @] /\ UNCHANGED label
  /\ UNCHANGED <<server, oui, ready, tapIn, seen, starts>>

\* Mutant of Opens: the label is made of the first three bytes of the id.
Opens_HighBytes(sent) ==
  /\ Taken("up") /\ out' = {}
  /\ LET id == Head(rcv).id
     IN  IF sent /\ id \in Live
         THEN chan' = [chan EXCEPT ![id] = "open"] /\ label' = [label EXCEPT ![id] = MacOf(oui, 0)]
         ELSE chan' = [chan EXCEPT ![id] = IF @ = "up" THEN "refused" ELSE @] /\ UNCHANGED label
  /\ UNCHANGED <<loopVars, tapIn, seen, starts>>

\* An association came up: its data channel is opened, with the MAC address as
\* label.  Nothing is done about a sendmsg that fails.
Opens(sent) ==
  /\ Taken("up") /\ out' = {}
  /\ LET id == Head(rcv).id
     IN  IF sent /\ id \in Live
         THEN chan' = [chan EXCEPT ![id] = "open"] /\ label' = [label EXCEPT ![id] = MacOf(oui, id)]
         ELSE chan' = [chan EXCEPT ![id] = IF @ = "up" THEN "refused" ELSE @] /\ UNCHANGED label
  /\ UNCHANGED <<loopVars, tapIn, seen, starts>>

\* Mutant of Bridges: any source address is let through.
Bridges_AnySource ==
  /\ Taken("frame") /\ out' = {}
  /\ seen' = seen \cup {[id |-> Head(rcv).id, src |-> Head(rcv).src]}
  /\ UNCHANGED <<loopVars, tapIn, chan, label, starts>>

\* A frame with the source address that belongs to its association is written
\* to the TAP interface.
Bridges ==
  LET f == Head(rcv)
  IN  /\ Taken("frame") /\ out' = {}
      /\ seen' = IF f.src = MacOf(oui, f.id) THEN seen \cup {[id |-> f.id, src |-> f.src]} ELSE seen
      /\ UNCHANGED <<loopVars, tapIn, chan, label, starts>>

\* Text: getsockopt finds the UDP port of the association.
Text ==
  /\ Taken("string") /\ Head(rcv).id \in Live /\ out' = {}
  /\ UNCHANGED <<loopVars, tapIn, chan, label, seen, starts>>

\* getsockopt fails, as the association is gone, and so does the assertion.
TextPanics ==
  /\ Handling("SCTP") /\ rcv # <<>> /\ Head(rcv).what = "string" /\ Head(rcv).id \notin Live
  /\ Exit

Ignores ==
  /\ Taken("quiet") /\ out' = {}
  /\ UNCHANGED <<loopVars, tapIn, chan, label, seen, starts>>

\* systemd starts the process again; it draws another OUI.
Restart ==
  /\ server = "down" /\ starts < Len(Draws)
  /\ server' = "running" /\ oui' = Drawn(Draws[starts + 1]) /\ starts' = starts + 1
  /\ UNCHANGED <<ready, events, tapIn, rcv, chan, label, out, seen>>

-----------------------------------------------------------------------------
(* The kernel, the peers and the hosts behind the TAP interface *)

\* Something is queued at the SCTP socket.
Queued(what, id, src) ==
  /\ server = "running" /\ Len(rcv) < RcvMax
  /\ rcv' = Append(rcv, [what |-> what, id |-> id, src |-> src])
  /\ ready' = ready \cup {"SCTP"} /\ out' = {}
  /\ UNCHANGED <<server, oui, events, tapIn, seen, starts>>

Associate(id) ==
  /\ \A i \in Ids : i >= id => chan[i] = "none"
  /\ Queued("up", id, None)
  /\ chan' = [chan EXCEPT ![id] = "up"] /\ UNCHANGED label

\* A peer sends text or, once it was told an address, a frame: from that address
\* or from another one of the bridge's.
PeerSends(id, what, src) ==
  /\ id \in Live /\ (what = "frame" => label[id] # None)
  /\ Queued(what, id, src) /\ UNCHANGED <<chan, label>>

\* The peer has lost its state and associates again: SCTP_RESTART.
PeerRestarts(id) ==
  /\ id \in Live
  /\ Queued("quiet", None, None)
  /\ chan' = [chan EXCEPT ![id] = "forgotten"] /\ label' = [label EXCEPT ![id] = None]

\* The association ends: it is shut down, aborted or lost.
End(id) ==
  /\ id \in Live
  /\ Queued("quiet", None, None)
  /\ chan' = [chan EXCEPT ![id] = "gone"] /\ UNCHANGED label

\* A host sends a frame.
HostSends(dst) ==
  /\ server = "running" /\ Len(tapIn) < TapMax
  /\ tapIn' = Append(tapIn, dst) /\ ready' = ready \cup {"TAP"} /\ out' = {}
  /\ UNCHANGED <<server, oui, events, rcv, chan, label, seen, starts>>

-----------------------------------------------------------------------------
Init ==
  /\ server = "running" /\ oui = Drawn(Draws[1]) /\ starts = 1
  /\ ready = {} /\ events = <<>> /\ tapIn = <<>> /\ rcv = <<>>
  /\ chan = [id \in Ids |-> "none"] /\ label = [id \in Ids |-> None]
  /\ out = {} /\ seen = {}

ServerStep ==
  \/ Poll
  \/ LoopEnds("TAP", tapIn) \/ LoopEnds("SCTP", rcv)
  \/ \E reached \in SUBSET Live : TapRecv(reached)
  \/ \E sent \in BOOLEAN : Opens(sent)
  \/ Bridges \/ Text \/ TextPanics \/ Ignores

Environment ==
  \/ \E id \in Ids :
       \/ Associate(id) \/ PeerRestarts(id) \/ End(id)
       \/ PeerSends(id, "string", None)
       \/ \E src \in {MacOf(oui, i) : i \in Ids} : PeerSends(id, "frame", src)
  \/ \E dst \in HostMacs : HostSends(dst)

Next == ServerStep \/ PollFails \/ Restart \/ Environment

Spec == Init /\ [][Next]_vars

\* The thread runs.
FairSpec == Spec /\ WF_vars(ServerStep)

-----------------------------------------------------------------------------
(* Properties *)

\* The variables have the types their declarations describe; the OUI is a locally
\* administered one, not of groups, whatever the random bytes are.
TypeOK ==
  /\ server \in {"running", "down"} /\ oui \in LocalOui /\ starts \in Nat
  /\ ready \subseteq {"TAP", "SCTP"} /\ events \in Seq({"TAP", "SCTP"})
  /\ tapIn \in Seq(HostMacs) /\ rcv \in Seq(Item)
  /\ chan \in [Ids -> Chan] /\ label \in [Ids -> Mac \cup {None}]
  /\ out \subseteq [id : Ids, dst : HostMacs] /\ seen \subseteq [id : Ids, src : Mac]

\* What a host sends to an address that it saw as the source of a frame goes to
\* the association that the frame came from and to no other, however many
\* associations came and went since, and if the process was started again in
\* between.  (Of ids of more than 24 bits this is not true: their addresses are
\* those of smaller ids.)
RepliesReturn ==
  \A f \in seen, r \in out : f.id < IdSpan /\ f.src = r.dst => r.id = f.id

\* A peer that was told an address is heard under it as long as its association
\* lives: it is the address that the bridge lets through now.
LabelHeard == \A id \in Live : label[id] # None => label[id] = MacOf(oui, id)

\* A token that the thread still gets to.
Pending(token) == token \in ready \/ \E i \in 1..Len(events) : events[i] = token

\* Nothing that waits is forgotten, although an edge is reported once: the loop
\* of the TAP interface and the one of the SCTP socket are still to be entered or
\* gone on with as long as their queues are not empty, whatever arrives while the
\* other one runs; and an association that has no data channel yet is announced in
\* the queue.
NoneForgotten ==
  /\ tapIn # <<>> => Pending("TAP")
  /\ rcv # <<>> => Pending("SCTP")
  /\ \A id \in Ids :
       chan[id] = "up" => \E i \in 1..Len(rcv) : rcv[i].what = "up" /\ rcv[i].id = id

\* Every association that comes up is sent its label, unless that fails, the
\* association ends or the process does; provided that the TAP interface is
\* found empty again and again.
ChannelOpens ==
  []<>~Handling("TAP") => \A id \in Ids : chan[id] = "up" ~> chan[id] # "up"

\* The thread gets around to the frames that wait at the TAP interface, provided
\* that the SCTP socket is found empty again and again.
TapServed ==
  []<>~Handling("SCTP") => (tapIn # <<>> ~> (tapIn = <<>> \/ Handling("TAP")))
=============================================================================
