----------------------------- MODULE MCStunAttrs -----------------------------
(***************************************************************************)
(* Values of the constants of StunAttrs for TLC.                           *)
(***************************************************************************)
EXTENDS StunAttrs

\* Lengths without, with one and with three bytes of padding; one
\* that fills the buffer, and one that no message can hold.
MCLens == {0, 3, 5, 8, U16Max}
=============================================================================
