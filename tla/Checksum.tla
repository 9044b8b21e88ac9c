------------------------------ MODULE Checksum ------------------------------
(***************************************************************************)
(* The checksum of UDP packets (wire/mod.rs, common/mod.rs).  What is      *)
(* summed up is represented by the sum of its 16-bit words, a u32.         *)
(***************************************************************************)
EXTENDS Integers

\* One round of the loop of ip_checksum.
Fold(accum) == (accum \div 65536) + (accum % 65536)

\* The loop of ip_checksum: a sum of less than 2^32 is folded twice at most.
Folded(accum) ==
  IF accum <= 65535 THEN accum
  ELSE IF Fold(accum) <= 65535 THEN Fold(accum)
  ELSE Fold(Fold(accum))

\* ip_checksum: the complement of the folded sum.
ip_checksum(accum) == 65535 - Folded(accum)

\* Mutant of udp_checksum: a checksum of zero stays.
udp_checksum_Zero(accum) == ip_checksum(accum)

\* udp_checksum_fill: zero would mean that there is no checksum.
udp_checksum(accum) == IF ip_checksum(accum) = 0 THEN 65535 ELSE ip_checksum(accum)

\* How the receiver of a packet verifies it: with the checksum, all words add up
\* to all ones.
Verifies(accum, checksum) == checksum # 0 /\ Folded(accum + checksum) = 65535
=============================================================================
