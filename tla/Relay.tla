------------------------------- MODULE Relay -------------------------------
(***************************************************************************)
(* What a TURN server of this repository promises, whatever its transport. *)
(*                                                                         *)
(* Every client owns one relayed address.  Datagrams that clients hand to  *)
(* the server, and datagrams that hosts address to clients, are on their   *)
(* way (sent); each may be delivered, any number of times and in any       *)
(* order, to the client that owns the destination; the client that owns    *)
(* the source may be told that one could not be delivered; and a client    *)
(* that asks is told its own relayed address.  Nothing else is received.   *)
(***************************************************************************)
CONSTANTS
  Clients,  \* transport addresses of clients
  Hosts,    \* addresses that no client owns
  Lens,     \* datagrams, told apart by their length
  Relayed   \* the relayed address of each client

VARIABLES
  sent,  \* datagrams that were sent: [src, dst, data]
  got    \* messages that clients received: [kind, to, peer, data]

Send(src, dst, n) == sent' = sent \cup {[src |-> src, dst |-> dst, data |-> n]} /\ got' = got

Receive(kind, c, peer, n) ==
  got' = got \cup {[kind |-> kind, to |-> c, peer |-> peer, data |-> n]} /\ sent' = sent

Tell(c) == Receive("allocated", c, Relayed[c], 0)

Deliver(c) == \E s \in sent : s.dst = Relayed[c] /\ Receive("data", c, s.src, s.data)

Report(c) == \E s \in sent : s.src = Relayed[c] /\ Receive("icmp", c, s.dst, 0)

Init == sent = {} /\ got = {}

Addresses == Hosts \cup {Relayed[c] : c \in Clients}

Next ==
  \/ \E src, dst \in Addresses, n \in Lens : Send(src, dst, n)
  \/ \E c \in Clients : Tell(c) \/ Deliver(c) \/ Report(c)

Spec == Init /\ [][Next]_<<sent, got>>
=============================================================================
