--------------------------- MODULE MCTurnHandlers ---------------------------
(***************************************************************************)
(* Values of the constants of TurnHandlers for TLC.                        *)
(***************************************************************************)
EXTENDS TurnHandlers

Good(t) == [typ |-> t, good |-> TRUE, val |-> "any"]

Bad(t) == [typ |-> t, good |-> FALSE, val |-> "any"]

Valued(t, v) == [typ |-> t, good |-> TRUE, val |-> v]

\* What makes the parsers stop, fail and pass attributes on, and what tells the
\* arms of the match apart.
AllAttributes ==
  {Good("USERNAME"), Bad("USERNAME"), Good("REALM"), Valued("MESSAGE_INTEGRITY", "match"),
   Valued("MESSAGE_INTEGRITY", "mismatch"), Valued("REQUESTED_TRANSPORT", "udp"),
   Valued("LIFETIME", "zero"), Valued("XOR_PEER_ADDRESS", "v6"), Good("DATA"),
   Good("MESSAGE_INTEGRITY_SHA256"), Good("FINGERPRINT"), Good("ZERO"),
   Good("EVEN_PORT"), Good("DONT_FRAGMENT")}

\* What authenticated requests have.
KeyAttributes ==
  {Good("USERNAME"), Good("REALM"), Valued("MESSAGE_INTEGRITY", "match"),
   Valued("REQUESTED_TRANSPORT", "udp")}

UpTo(n, S) == UNION {[1..k -> S] : k \in 0..n}

\* Up to three attributes of any kind, and up to five of those that an
\* authenticated request has, some of them unusable or misplaced.
MCBodies == UpTo(3, AllAttributes) \cup UpTo(5, KeyAttributes \cup {Bad("USERNAME"), Good("FINGERPRINT")})

KeyBodies == UpTo(4, KeyAttributes)

TypOf(c, m) == set_class(set_raw_method(0, m), c)

\* Requests of every method, an unknown one included, and one message of each
\* other class that its arm of the match could mistake.
AllTyps ==
  {TypOf(Request, m) : m \in {Method[n] : n \in DOMAIN Method} \cup {4095}}
    \cup {TypOf(Indication, Method.Send), TypOf(Indication, Method.Data),
          TypOf(Success, Method.Binding), TypOf(Error, Method.Allocate)}

AllocateTyps == {TypOf(Request, Method.Allocate)}

\* Whatever is in the field: class and method read back as they are set, and
\* setting one keeps the other.
ASSUME TypeFieldReadsBack ==
  \A typ \in 0..(2^16 - 1) :
    /\ \A c \in 0..3 : class(set_class(typ, c)) = c /\ raw_method(set_class(typ, c)) = raw_method(typ)
    /\ LET t == set_raw_method(typ, typ % 2^12)
       IN  raw_method(t) = typ % 2^12 /\ class(t) = class(typ) /\ ~NotStun(t)
=============================================================================
