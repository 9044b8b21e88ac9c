------------------------------ MODULE AttrChain ------------------------------
(***************************************************************************)
(* The chain of parsers that a STUN message is read with                   *)
(* (stun/attr/parse.rs, stun/attr.rs, stun/attr/integrity.rs).             *)
(*                                                                         *)
(* The attributes of a message are pulled one by one through the chain.  A *)
(* parser keeps an attribute of its own type, and decodes the first one;   *)
(* it gives up waiting when it sees an attribute that its own must         *)
(* precede; everything else it passes on to the next parser, and what no   *)
(* parser keeps is collected as unknown.                                   *)
(*                                                                         *)
(* chain is the sequence of the types of the parsers; armed the parsers    *)
(* whose decode is still Some; dest has where each parsed attribute was    *)
(* found, 0 for None; unknown is the array of collect_unknown, without the *)
(* zeroes at its end.                                                      *)
(***************************************************************************)
EXTENDS Integers, Sequences

\* An attribute: its type, whether its value decodes, and what the value is.
Attribute == [typ : STRING, good : BOOLEAN, val : STRING]

Types(chain) == {chain[i] : i \in 1..Len(chain)}

\* Attr::must_precede: an attribute of type t has to come before one of type u.
must_precede(t, u) ==
  IF t = "MESSAGE_INTEGRITY"
  THEN u = "FINGERPRINT"
  ELSE /\ t # "FINGERPRINT"
       /\ u \in {"MESSAGE_INTEGRITY", "MESSAGE_INTEGRITY_SHA256", "FINGERPRINT"}

\* Types below 0x8000.
comprehension_required(u) ==
  u \notin {"FINGERPRINT", "SOFTWARE", "ICE_CONTROLLED", "ICE_CONTROLLING"}

\* An attribute of type u gets past the parsers in front of parser t.
Reaches(chain, u, t) ==
  ~ \E i, j \in 1..Len(chain) : i < j /\ chain[i] = u /\ chain[j] = t

\* Mutant of Collected: types are repeated.
Collected_Repeats(unknown, max, u) ==
  IF comprehension_required(u) /\ u # "ZERO" /\ Len(unknown) < max
  THEN Append(unknown, u)
  ELSE unknown

\* Mutant of Collected: one more type than the array holds.
Collected_OneMore(unknown, max, u) ==
  IF /\ comprehension_required(u)
     /\ u # "ZERO"
     /\ \A k \in 1..Len(unknown) : unknown[k] # u
     /\ Len(unknown) <= max
  THEN Append(unknown, u)
  ELSE unknown

\* The body of the loop of collect_unknown, with an array of max types: a type
\* that is there already is not repeated, and what finds the array full is lost.
\* The array is scanned for its first zero, so an attribute of type zero is
\* taken to be there.
Collected(unknown, max, u) ==
  IF /\ comprehension_required(u)
     /\ u # "ZERO"
     /\ \A k \in 1..Len(unknown) : unknown[k] # u
     /\ Len(unknown) < max
  THEN Append(unknown, u)
  ELSE unknown

\* Mutant of Disarmed: must_precede is consulted for attributes that no parser
\* keeps only.
Disarmed_Unkept(chain, armed, u) ==
  {t \in armed : t = u \/ (u \notin Types(chain) /\ must_precede(t, u))}

\* The parsers that an attribute of type u, going down the chain, disarms.
Disarmed(chain, armed, u) ==
  {t \in armed : t = u \/ (Reaches(chain, u, t) /\ must_precede(t, u))}

\* What the parsers have found when attribute a, at position pos, is through.
Kept(dest, armed, a, pos) ==
  IF a.typ \in armed THEN [dest EXCEPT ![a.typ] = IF a.good THEN pos ELSE 0] ELSE dest
=============================================================================
