--------------------------- MODULE TurnTcpMapping ---------------------------
(***************************************************************************)
(* struct Mapping of turnserver-tcp: the stateless correspondence between  *)
(* the slab key of a TCP connection and the relayed transport address the  *)
(* client is told to use.                                                  *)
(*                                                                         *)
(* An IPv6 address is written as its two parts, split at the subnet's      *)
(* prefix length, because the bitwise operations the code applies (| of a  *)
(* network and a host, & with the hostmask) act on each part separately.   *)
(* The widths are parameters: 2^15, 2^(128-prefix_len) and 2^64 in the     *)
(* program, a handful in the model checker.                                *)
(***************************************************************************)
EXTENDS Integers

CONSTANTS
  PortSpan,    \* 0x8000: the ports 0x8000..0xffff an address is shared by
  HostSpan,    \* number of addresses in the subnet
  Prefix,      \* the subnet's network bits, as a number
  PrefixBits,  \* prefix_len
  UsizeSpan,   \* 2^usize::BITS
  None         \* Option::None

\* Mapping::new returns an error unless 15 bits of port and the host bits of
\* the subnet fit in a usize together, so only such subnets are ever served.
ASSUME MappingNew ==
  /\ PortSpan \in Nat \ {0}
  /\ HostSpan \in Nat \ {0}
  /\ UsizeSpan \in Nat
  /\ PortSpan * HostSpan <= UsizeSpan
  /\ Prefix \in Nat
  /\ PrefixBits \in Nat
  /\ Prefix < 2^PrefixBits

\* Transport addresses: SocketAddrV6 with its IP split at the prefix.
Address == [prefix : Nat, host : 0..(HostSpan - 1), port : 0..(2 * PortSpan - 1)]

ASSUME NoneIsNoAddress == None \notin Address /\ None \notin Nat

Bit(n, b) == (n \div 2^b) % 2

\* prefix | high = prefix: or-ing the bits of high into the prefix changes
\* nothing.
Absorbed(prefix, high) ==
  /\ high < 2^PrefixBits
  /\ high % 2 = 1 => prefix % 2 = 1
  /\ \A b \in 1..(PrefixBits - 1) : Bit(high, b) = 1 => Bit(prefix, b) = 1

\* Mutant of from_index: the subnet is not checked.
from_index_Unchecked(index) ==
  [prefix |-> Prefix,
   host   |-> (index \div PortSpan) % HostSpan,
   port   |-> (index % PortSpan) + PortSpan]

\* Mutant of from_index: the top bit of the port is left clear.
from_index_LowPort(index) ==
  LET host == index \div PortSpan
  IN  IF Absorbed(Prefix, host \div HostSpan)
      THEN [prefix |-> Prefix, host |-> host % HostSpan, port |-> index % PortSpan]
      ELSE None

\* The low bits of the key become the port, with the top bit set; the rest is
\* or-ed into the network address, and the key is refused when the result has
\* left the subnet.
from_index(index) ==
  LET host == index \div PortSpan
  IN  IF Absorbed(Prefix, host \div HostSpan)
      THEN [prefix |-> Prefix,
            host   |-> host % HostSpan,
            port   |-> (index % PortSpan) + PortSpan]
      ELSE None

\* The key whose connection owns addr: the top bit of the port is ignored, and
\* the result is truncated to a usize.
to_index(addr) ==
  IF addr.prefix = Prefix
  THEN (addr.host * PortSpan + (addr.port % PortSpan)) % UsizeSpan
  ELSE None

\* Number of keys whose host bits stay below the prefix.
Capacity == PortSpan * HostSpan
=============================================================================
