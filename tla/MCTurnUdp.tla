----------------------------- MODULE MCTurnUdp -----------------------------
(***************************************************************************)
(* Values of the constants of TurnUdp for TLC.  The mappings are laid out  *)
(* as in turn-udp.service: the first maps the IPv4-mapped addresses to a   *)
(* subnet of what the second maps, 2000::/3 to A000::/3.                   *)
(***************************************************************************)
EXTENDS TurnUdp

MCMappings == <<[udp |-> 0, tun |-> 20, size |-> 4], [udp |-> 16, tun |-> 32, size |-> 16]>>

\* The longest data that the interface carries, and one byte more.
MCLens == {Mtu - 48, Mtu - 47}
=============================================================================
