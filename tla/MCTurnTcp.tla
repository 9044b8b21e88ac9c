----------------------------- MODULE MCTurnTcp -----------------------------
(***************************************************************************)
(* Values of the constants of TurnTcp for TLC.                             *)
(***************************************************************************)
EXTENDS TurnTcp

Silent == [s \in Socks |-> 0]

OneEach == [s \in Socks |-> 1]

\* One client sends a message, the others none.
OneSpeaks == [s \in Socks |-> IF s = CHOOSE t \in Socks : TRUE THEN 1 ELSE 0]
=============================================================================
