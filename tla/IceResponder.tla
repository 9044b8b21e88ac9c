---------------------------- MODULE IceResponder ----------------------------
(***************************************************************************)
(* What the ICE responder promises ("Stateless ICE interception",          *)
(* cfg/lib/systemd/system/ice-dissolve.service): what it sends for a       *)
(* packet is a function of that packet.  Connectivity checks for the user  *)
(* "dissolve" are answered in place of their destination; every other      *)
(* packet goes back to the network as it came.                             *)
(*                                                                         *)
(* A packet has a length and, as far as it is long enough for them, an     *)
(* IPv6 header, a UDP header, a STUN header and attributes; the parts that *)
(* it does not have in full are None.                                      *)
(***************************************************************************)
EXTENDS StunType, AttrChain

CONSTANTS
  None,
  Late   \* types that count behind MESSAGE_INTEGRITY too, although they must precede it

VARIABLES
  packet,  \* the packet that waits for its answer, or None
  answer   \* what was sent last, or None

\* A whole STUN message in a whole UDP packet, of type Binding request.
BindingRequest(p) ==
  /\ None \notin {p.ip, p.udp, p.stun, p.body}
  /\ p.ip.version = 6 /\ p.ip.next_header = 17
  /\ 40 + p.ip.payload = p.len /\ p.udp.length = p.ip.payload
  /\ p.stun.typ = 1 /\ p.stun.magic
  /\ p.stun.length % 4 = 0 /\ 68 + p.stun.length <= p.len

\* Attribute i is the first one of its type, decodes, and none of the types in
\* blockers comes before it.
First(attrs, i, blockers) ==
  /\ attrs[i].good
  /\ \A j \in 1..(i - 1) : attrs[j].typ \notin blockers \cup {attrs[i].typ}

\* What an attribute has to come before: what it must precede, but for the
\* exceptions of Late.
BlockersOf(t) ==
  {u \in {"MESSAGE_INTEGRITY", "MESSAGE_INTEGRITY_SHA256", "FINGERPRINT"} :
     must_precede(t, u) /\ ~(u = "MESSAGE_INTEGRITY" /\ t \in Late)}

Has(p, t) == \E i \in 1..Len(p.body) : p.body[i].typ = t /\ First(p.body, i, BlockersOf(t))

HasValue(p, t, v) ==
  \E i \in 1..Len(p.body) : p.body[i].typ = t /\ p.body[i].val = v /\ First(p.body, i, BlockersOf(t))

Understood ==
  {"USERNAME", "MESSAGE_INTEGRITY", "ICE_CONTROLLED", "ICE_CONTROLLING", "PRIORITY",
   "USE_CANDIDATE", "FINGERPRINT", "ZERO"}

\* A connectivity check for the user "dissolve".
Check(p) ==
  /\ BindingRequest(p)
  /\ \A i \in 1..Len(p.body) : comprehension_required(p.body[i].typ) => p.body[i].typ \in Understood
  /\ HasValue(p, "USERNAME", "dissolve") /\ Has(p, "MESSAGE_INTEGRITY")
  /\ Has(p, "ICE_CONTROLLED") # Has(p, "ICE_CONTROLLING")
  /\ Has(p, "PRIORITY") /\ Has(p, "FINGERPRINT")

\* A check goes back to its sender, from its destination: with the error 441 if
\* it was not signed with the password, with 487 if the sender is not in control,
\* and with the address of the sender otherwise.
Answer(p) ==
  IF Check(p)
  THEN [src |-> [ip |-> p.ip.dst, port |-> p.udp.dport],
        dst |-> [ip |-> p.ip.src, port |-> p.udp.sport],
        txid |-> p.stun.txid,
        says |-> IF ~HasValue(p, "MESSAGE_INTEGRITY", "match") THEN [error |-> 441]
                 ELSE IF Has(p, "ICE_CONTROLLED") THEN [error |-> 487]
                 ELSE [mapped |-> [ip |-> p.ip.src, port |-> p.udp.sport]]]
  ELSE p

Receive == packet = None /\ packet' # None /\ answer' = None

Respond == packet # None /\ answer' = Answer(packet) /\ packet' = None

Init == packet = None /\ answer = None

Next == Receive \/ Respond

Spec == Init /\ [][Next]_<<packet, answer>>
=============================================================================
