---------------------------- MODULE TurnHandlers ----------------------------
(***************************************************************************)
(* handle_turn (common/mod.rs), which answers the TURN messages of both    *)
(* servers, with the chain of parsers it reads a message with.             *)
(***************************************************************************)
EXTENDS StunType, AttrChain, FiniteSets

CONSTANTS
  Bodies,     \* sequences of attributes that messages have
  Typs,       \* type fields that messages have
  UnknownMax  \* N of collect_unknown::<N>

ASSUME BodiesAssumption == Bodies \subseteq Seq(Attribute)

\* The two highest bits of a type field are zero.
ASSUME TypsAssumption == \A t \in Typs : t \in Nat /\ t < 16384

ASSUME UnknownAssumption == UnknownMax \in Nat

VARIABLES
  msg,      \* the message: its type field, whether the txid is all zeroes, its attributes
  pos,      \* the attribute that is pulled next
  armed,    \* parsers whose decode is still Some
  dest,     \* where each parsed attribute was found, 0 for None
  unknown,  \* the array of collect_unknown, without the zeroes at its end
  out,      \* what handle_turn did: "pending", "nothing", "relayed", or a response
  hops      \* responses that became messages for another server

vars == <<msg, pos, armed, dest, unknown, out, hops>>

-----------------------------------------------------------------------------
(* The chain of parsers *)

\* The parsers of handle_turn, in the order they are chained in.
Chain ==
  <<"USERNAME", "REALM", "MESSAGE_INTEGRITY", "NONCE", "LIFETIME",
    "REQUESTED_TRANSPORT", "CHANNEL_NUMBER", "XOR_PEER_ADDRESS", "DATA">>

Parsers == Types(Chain)

\* AttrParser::next, through the whole chain, down to collect_unknown.
Pull ==
  LET a == msg.attrs[pos]
  IN  /\ out = "pending" /\ ~msg.zero /\ pos <= Len(msg.attrs)
      /\ dest' = Kept(dest, armed, a, pos)
      /\ armed' = armed \ Disarmed(Chain, armed, a.typ)
      /\ unknown' = IF a.typ \in Parsers THEN unknown ELSE Collected(unknown, UnknownMax, a.typ)
      /\ pos' = pos + 1
      /\ UNCHANGED <<msg, out, hops>>

-----------------------------------------------------------------------------
(* The answer *)

Given(t) == dest[t] # 0

Is(t, v) == Given(t) /\ msg.attrs[dest[t]].val = v

KnownMethods == {Method[m] : m \in DOMAIN Method \ {"Data"}}

\* The long-term key was computed from what the client sent, and the integrity
\* value verifies with it.
Verified == Is("MESSAGE_INTEGRITY", "match")

\* The arms of the match for a request, in order.
OnRequest(m) ==
  CASE m = Method.Binding -> "mapped"
    [] m \notin KnownMethods -> "404"
    [] m \in KnownMethods \ {Method.Binding} ->
         IF unknown # <<>> THEN "420"
         ELSE IF ~Given("USERNAME") \/ ~Given("REALM") THEN "401"
         ELSE IF ~Given("MESSAGE_INTEGRITY") THEN "nothing"
         ELSE IF ~Verified THEN "403"
         ELSE CASE m = Method.Allocate ->
                     IF Is("REQUESTED_TRANSPORT", "udp") THEN "allocated" ELSE "442"
                [] m = Method.Refresh -> IF Is("LIFETIME", "zero") THEN "nothing" ELSE "refreshed"
                [] m = Method.CreatePermission -> "permitted"
                [] m = Method.ChannelBind -> "438"
                [] m = Method.Send -> "nothing"

\* The arms for an indication: a Send indication to an IPv6 peer leaves as a
\* UDP packet, if every attribute is understood.
OnIndication(m) ==
  IF unknown = <<>> /\ m = Method.Send /\ Is("XOR_PEER_ADDRESS", "v6") /\ Given("DATA")
  THEN "relayed"
  ELSE "nothing"

\* Mutant of Verdict: responses are not ignored.
Verdict_Responses ==
  IF class(msg.typ) = Indication THEN OnIndication(raw_method(msg.typ)) ELSE OnRequest(raw_method(msg.typ))

\* The match on class and method.
Verdict ==
  CASE class(msg.typ) \in {Success, Error} -> "nothing"
    [] class(msg.typ) = Request -> OnRequest(raw_method(msg.typ))
    [] class(msg.typ) = Indication -> OnIndication(raw_method(msg.typ))

\* The attributes appended to each response, in order.
Content(v) ==
  CASE v = "mapped"    -> <<"XOR_MAPPED_ADDRESS">>
    [] v = "404"       -> <<"ERROR_CODE">>
    [] v = "420"       -> <<"ERROR_CODE", "UNKNOWN_ATTRIBUTES">>
    [] v = "401"       -> <<"ERROR_CODE", "REALM", "NONCE">>
    [] v = "403"       -> <<"ERROR_CODE">>
    [] v \in {"442", "438"} -> <<"ERROR_CODE", "MESSAGE_INTEGRITY">>
    [] v = "allocated" -> <<"XOR_MAPPED_ADDRESS", "XOR_RELAYED_ADDRESS", "LIFETIME", "MESSAGE_INTEGRITY">>
    [] v = "refreshed" -> <<"LIFETIME", "MESSAGE_INTEGRITY">>
    [] v = "permitted" -> <<"MESSAGE_INTEGRITY">>

Positive == {"mapped", "allocated", "refreshed", "permitted"}

Negative == {"401", "403", "404", "420", "438", "442"}

\* handle_turn, from the end of the parsing on; or at once for an all-zero
\* transaction id.
Answer ==
  /\ out = "pending"
  /\ msg.zero \/ pos > Len(msg.attrs)
  /\ out' = IF msg.zero THEN "nothing" ELSE Verdict
  /\ UNCHANGED <<msg, pos, armed, dest, unknown, hops>>

-----------------------------------------------------------------------------
\* The response in the buffer: the request with another class and other
\* attributes.
Response ==
  [typ   |-> set_class(msg.typ, IF out \in Positive THEN Success ELSE Error),
   zero  |-> msg.zero,
   attrs |-> [i \in 1..Len(Content(out)) |-> [typ |-> Content(out)[i], good |-> TRUE, val |-> "any"]]]

\* The response arrives at the socket of a TURN server as a message of its own:
\* the request had the address of that socket as its source.  (A response to a
\* relayed address is data of the client, and reaches it in an indication.)
Forward ==
  /\ out \in Positive \cup Negative
  /\ msg' = Response /\ hops' = hops + 1
  /\ pos' = 1 /\ armed' = Parsers /\ dest' = [t \in Parsers |-> 0]
  /\ unknown' = <<>> /\ out' = "pending"

Init ==
  /\ msg \in [typ : Typs, zero : BOOLEAN, attrs : Bodies]
  /\ pos = 1 /\ armed = Parsers /\ dest = [t \in Parsers |-> 0]
  /\ unknown = <<>> /\ out = "pending" /\ hops = 0

Next == Pull \/ Answer \/ Forward

Spec == Init /\ [][Next]_vars

-----------------------------------------------------------------------------
(* Properties *)

\* The variables have the types their declarations describe.
TypeOK ==
  /\ pos \in 1..(Len(msg.attrs) + 1)
  /\ armed \subseteq Parsers
  /\ dest \in [Parsers -> 0..Len(msg.attrs)]
  /\ Len(unknown) <= UnknownMax
  /\ out \in {"pending", "nothing", "relayed"} \cup Positive \cup Negative

Ended == out # "pending" /\ ~msg.zero

\* The first attribute of type t, among the first n.
FirstOf(t, n) ==
  {i \in 1..n : msg.attrs[i].typ = t /\ \A j \in 1..(i - 1) : msg.attrs[j].typ # t}

\* The attributes after which parser t finds nothing any more.
Blockers(t) ==
  CASE t = "MESSAGE_INTEGRITY" -> {"FINGERPRINT"}
    [] t \in {"USERNAME", "REALM"} -> {"MESSAGE_INTEGRITY", "MESSAGE_INTEGRITY_SHA256", "FINGERPRINT"}
    [] t \in Parsers \ {"USERNAME", "REALM", "MESSAGE_INTEGRITY"} -> {"MESSAGE_INTEGRITY_SHA256", "FINGERPRINT"}

\* What the chain of iterators of AttrIter::parse computes, said without it: a
\* parser yields the first attribute of its type, and None if that one does not
\* decode, even if a later one would, or comes after a blocker.
ParsedAsSpecified ==
  Ended => \A t \in Parsers, i \in 1..Len(msg.attrs) :
    dest[t] = i <=> /\ i \in FirstOf(t, i)
                    /\ msg.attrs[i].good
                    /\ \A j \in 1..(i - 1) : msg.attrs[j].typ \notin Blockers(t)

\* The unknown attributes that a 420 response lists are the first distinct ones
\* of the message that need to be understood, in the order they appear in.
UnknownListed ==
  Ended =>
    LET firsts == {i \in 1..Len(msg.attrs) :
                     LET u == msg.attrs[i].typ
                     IN  u \notin Parsers /\ comprehension_required(u) /\ u # "ZERO" /\ i \in FirstOf(u, i)}
        rank(i) == Cardinality({j \in firsts : j <= i})
    IN  /\ Len(unknown) = IF Cardinality(firsts) < UnknownMax THEN Cardinality(firsts) ELSE UnknownMax
        /\ \A i \in firsts : rank(i) <= UnknownMax => unknown[rank(i)] = msg.attrs[i].typ

\* A response that is signed, and every success but that of Binding, answers a
\* request whose integrity value verified, and the user name and the realm that
\* the key was made from come before that value: it covers them.
KeyCovered ==
  out \in {"allocated", "refreshed", "permitted", "438", "442"} =>
    /\ Given("USERNAME") /\ dest["USERNAME"] < dest["MESSAGE_INTEGRITY"]
    /\ Given("REALM") /\ dest["REALM"] < dest["MESSAGE_INTEGRITY"]
    /\ msg.attrs[dest["MESSAGE_INTEGRITY"]].val = "match"

\* "Some attributes must preced other attributes" (stun/attr.rs): the
\* attributes that a signed answer acts on come before the integrity value,
\* which covers only what comes before it.
UsedAttributesCovered ==
  out \in {"allocated", "refreshed"} =>
    \A t \in {"LIFETIME", "REQUESTED_TRANSPORT"} : dest[t] <= dest["MESSAGE_INTEGRITY"]

\* A response is never answered: two servers do not keep each other busy after
\* a request that had the address of one of them as its source.
NoEcho == hops > 0 => out \in {"pending", "nothing"}
=============================================================================
