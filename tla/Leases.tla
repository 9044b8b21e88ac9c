------------------------------- MODULE Leases -------------------------------
(***************************************************************************)
(* What turnserver-tcp promises its clients about relayed addresses.       *)
(*                                                                         *)
(* A connection is lent one address of the subnet and holds it, unchanged, *)
(* for as long as it lasts; meanwhile the address is lent to nobody else.  *)
(* One connection ends without the others noticing, or, with the process,  *)
(* all do; one that has ended, or was refused, is lent nothing any more.   *)
(***************************************************************************)
CONSTANTS
  Conns,     \* connections
  Addresses  \* relayed addresses

VARIABLES
  held,  \* the addresses that are lent, by the connections that hold them
  ended  \* connections that have ended

Nothing == [c \in {} |-> c]

Lend(c, a) ==
  /\ c \notin DOMAIN held \cup ended
  /\ \A d \in DOMAIN held : held[d] # a
  /\ held' = [d \in DOMAIN held \cup {c} |-> IF d = c THEN a ELSE held[d]]
  /\ ended' = ended

End(c) ==
  /\ held' = [d \in DOMAIN held \ {c} |-> held[d]]
  /\ ended' = ended \cup {c}

EndAll ==
  /\ held' = Nothing
  /\ \E cs \in SUBSET Conns : DOMAIN held \subseteq cs /\ ended' = ended \cup cs

Init == held = Nothing /\ ended = {}

Next ==
  \/ \E c \in Conns : End(c) \/ \E a \in Addresses : Lend(c, a)
  \/ EndAll

Spec == Init /\ [][Next]_<<held, ended>>
=============================================================================
