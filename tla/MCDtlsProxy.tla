---------------------------- MODULE MCDtlsProxy ----------------------------
(***************************************************************************)
(* Symmetry of DtlsProxy for TLC: clients, their addresses and             *)
(* destinations are interchangeable.                                       *)
(***************************************************************************)
EXTENDS DtlsProxy, TLC

Symmetry == Permutations(Clients) \cup Permutations(Addrs) \cup Permutations(Dsts)
=============================================================================
