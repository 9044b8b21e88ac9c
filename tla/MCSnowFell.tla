----------------------------- MODULE MCSnowFell -----------------------------
(***************************************************************************)
(* Values of the constants of SnowFell for TLC.                            *)
(***************************************************************************)
EXTENDS SnowFell

\* The process is started twice, and draws the OUIs 2 and 6.
MCDraws == <<3, 4>>

\* Destinations: everybody, and an address of the first OUI.
MCHostMacs == {[oui |-> 3, low |-> 3], [oui |-> 2, low |-> 3]}
=============================================================================
