------------------------- MODULE TurnHandlersProofs -------------------------
(***************************************************************************)
(* The chain of parsers computes what its specification says, signed       *)
(* answers rest on what the integrity value covers, and responses are not  *)
(* answered, for messages of any length and type.                          *)
(***************************************************************************)
EXTENDS TurnHandlers, StunProofs, FiniteSetTheorems, TLAPS

-----------------------------------------------------------------------------
(* The chain *)

\* The parsers, one by one.
LEMMA ParsersAre ==
  Parsers = {"USERNAME", "REALM", "MESSAGE_INTEGRITY", "NONCE", "LIFETIME",
             "REQUESTED_TRANSPORT", "CHANNEL_NUMBER", "XOR_PEER_ADDRESS", "DATA"}
<1>1. Len(Chain) = 9
  BY Zenon DEF Chain
<1>2. /\ Chain[1] = "USERNAME" /\ Chain[2] = "REALM" /\ Chain[3] = "MESSAGE_INTEGRITY"
      /\ Chain[4] = "NONCE" /\ Chain[5] = "LIFETIME" /\ Chain[6] = "REQUESTED_TRANSPORT"
      /\ Chain[7] = "CHANNEL_NUMBER" /\ Chain[8] = "XOR_PEER_ADDRESS" /\ Chain[9] = "DATA"
  BY Zenon DEF Chain
<1>3. 1..9 = {1, 2, 3, 4, 5, 6, 7, 8, 9}
  OBVIOUS
<1> QED
  BY <1>1, <1>2, <1>3 DEF Parsers, Types

\* Where in the chain each parser is.
LEMMA Positions ==
  \A i \in 1..Len(Chain) :
    /\ Chain[i] = "MESSAGE_INTEGRITY" <=> i = 3
    /\ Chain[i] \in {"USERNAME", "REALM"} <=> i < 3
    /\ Chain[i] \notin {"MESSAGE_INTEGRITY_SHA256", "FINGERPRINT"}
<1>1. Len(Chain) = 9
  BY Zenon DEF Chain
<1>2. /\ Chain[1] = "USERNAME" /\ Chain[2] = "REALM" /\ Chain[3] = "MESSAGE_INTEGRITY"
      /\ Chain[4] = "NONCE" /\ Chain[5] = "LIFETIME" /\ Chain[6] = "REQUESTED_TRANSPORT"
      /\ Chain[7] = "CHANNEL_NUMBER" /\ Chain[8] = "XOR_PEER_ADDRESS" /\ Chain[9] = "DATA"
  BY Zenon DEF Chain
<1> QED
  BY <1>1, <1>2

\* The attributes that make a parser give up waiting are the ones that its own
\* must precede and that no parser in front of it keeps.
LEMMA BlockersAre ==
  \A t \in Parsers : \A u : (Reaches(Chain, u, t) /\ must_precede(t, u)) <=> u \in Blockers(t)
<1> SUFFICES ASSUME NEW t \in Parsers, NEW u
             PROVE  (Reaches(Chain, u, t) /\ must_precede(t, u)) <=> u \in Blockers(t)
  BY Zenon
<1>1. PICK k \in 1..Len(Chain) : Chain[k] = t
  BY Zenon DEF Parsers, Types
<1>2. 3 \in 1..Len(Chain) /\ Chain[3] = "MESSAGE_INTEGRITY"
  BY DEF Chain
<1>3. u \in {"MESSAGE_INTEGRITY_SHA256", "FINGERPRINT"} => Reaches(Chain, u, t)
  BY Positions, Zenon DEF Reaches
<1>4. CASE t = "MESSAGE_INTEGRITY"
  BY <1>3, <1>4, Zenon DEF must_precede, Blockers
<1>5. CASE t \in {"USERNAME", "REALM"}
  <2>1. Reaches(Chain, "MESSAGE_INTEGRITY", t)
    BY <1>5, Positions DEF Reaches
  <2> QED
    BY <1>3, <1>5, <2>1, Zenon DEF must_precede, Blockers
<1>6. CASE t \notin {"USERNAME", "REALM", "MESSAGE_INTEGRITY"}
  <2>1. 3 < k
    BY <1>1, <1>6, Positions
  <2>2. ~Reaches(Chain, "MESSAGE_INTEGRITY", t)
    BY <1>1, <1>2, <2>1, Zenon DEF Reaches
  <2>3. t # "FINGERPRINT"
    BY ParsersAre, Zenon
  <2> QED
    BY <1>3, <1>6, <2>2, <2>3, Zenon DEF must_precede, Blockers
<1> QED
  BY <1>4, <1>5, <1>6, Zenon

Blocking == [t \in Parsers |-> Blockers(t)]

\* What the parsers have found in the part of the message that went through.
ChainOK == Traced(Parsers, Blocking, msg.attrs, pos, armed, dest)

\* One attribute goes through the chain.
LEMMA PullChain ==
  ASSUME ChainOK, Pull
  PROVE  ChainOK'
<1>1. msg' = msg /\ pos' = pos + 1
  BY Zenon DEF Pull
<1>2. /\ armed' = armed \ Disarmed(Chain, armed, msg.attrs[pos].typ)
      /\ dest' = Kept(dest, armed, msg.attrs[pos], pos)
  BY Zenon DEF Pull
<1>3. \A t \in Types(Chain) : \A u : (Reaches(Chain, u, t) /\ must_precede(t, u)) <=> u \in Blocking[t]
  BY BlockersAre, Zenon DEF Blocking, Parsers
<1>4. Traced(Types(Chain), Blocking, msg.attrs, pos, armed, dest)
  BY Zenon DEF ChainOK, Parsers
<1>5. Traced(Types(Chain), Blocking, msg.attrs, pos + 1, armed \ Disarmed(Chain, armed, msg.attrs[pos].typ),
             Kept(dest, armed, msg.attrs[pos], pos))
  BY <1>3, <1>4, PulledTrace, Zenon
<1>6. Traced(Types(Chain), Blocking, msg'.attrs, pos', armed', dest')
  BY <1>1, <1>2, <1>5, Zenon
<1> QED
  BY <1>6, Zenon DEF ChainOK, Parsers, Blocking, Blockers

\* When the answer is due, everything went through the chain.
EndOK ==
  /\ pos <= Len(msg.attrs) + 1 /\ Len(msg.attrs) \in Nat
  /\ out # "pending" /\ ~msg.zero => pos > Len(msg.attrs)

Signed == {"allocated", "refreshed", "permitted", "438", "442"}

\* A signed answer is given to a request whose parsers found all it needs.
AnswerOK == out \in Signed => ~msg.zero /\ Given("USERNAME") /\ Given("REALM") /\ Verified

\* A message that a server sent is a response, and is not answered.
EchoOK ==
  /\ msg.typ \in Nat /\ hops \in Nat
  /\ hops > 0 => class(msg.typ) \in {Success, Error} /\ out \in {"pending", "nothing"}

\* What collect_unknown has seen is listed.
ListOK ==
  DOMAIN msg.attrs = 1..Len(msg.attrs) /\ Listed(Parsers, UnknownMax, msg.attrs, pos - 1, unknown)

Outs == {"pending", "nothing", "relayed"} \cup Positive \cup Negative

IInv == ChainOK /\ EndOK /\ AnswerOK /\ EchoOK /\ ListOK /\ out \in Outs

\* Signed answers come from one arm of the match.
LEMMA VerdictSigned ==
  ASSUME msg.typ \in Nat, Verdict \in Signed
  PROVE  Given("USERNAME") /\ Given("REALM") /\ Verified
<1>1. \A m : OnIndication(m) \notin Signed
  BY Zenon DEF OnIndication, Signed
<1>2. \A m : OnRequest(m) \in Signed => Given("USERNAME") /\ Given("REALM") /\ Verified
  BY Zenon DEF OnRequest, Signed
<1>3. class(msg.typ) \in {Success, Error, Request, Indication}
  BY DEF class, Field, Success, Error, Request, Indication
<1> QED
  BY <1>1, <1>2, <1>3 DEF Verdict, Signed, Success, Error, Request, Indication

\* The methods that handle_turn knows.
LEMMA MethodsAre ==
  KnownMethods = {Method.Binding, Method.Allocate, Method.Refresh, Method.Send,
                  Method.CreatePermission, Method.ChannelBind}
<1>1. DOMAIN Method \ {"Data"} = {"Binding", "Allocate", "Refresh", "Send", "CreatePermission", "ChannelBind"}
  BY Zenon DEF Method
<1> QED
  BY <1>1, Zenon DEF KnownMethods

\* Every arm of the match is an answer or none.
LEMMA VerdictType ==
  ASSUME msg.typ \in Nat
  PROVE  Verdict \in Outs
<1>1. \A m : OnIndication(m) \in Outs
  BY Zenon DEF OnIndication, Outs
<1>2. \A m : OnRequest(m) \in Outs
  <2> SUFFICES ASSUME NEW m PROVE OnRequest(m) \in Outs
    BY Zenon
  <2>1. {"mapped", "404", "420", "401", "nothing", "403", "allocated", "442", "refreshed", "permitted", "438"}
          \subseteq Outs
    BY Zenon DEF Outs, Positive, Negative
  <2>2. m \in KnownMethods \ {Method.Binding} =>
          m \in {Method.Allocate, Method.Refresh, Method.Send, Method.CreatePermission, Method.ChannelBind}
    BY MethodsAre, Zenon
  <2>3. OnRequest(m) \in
          {"mapped", "404", "420", "401", "nothing", "403", "allocated", "442", "refreshed", "permitted", "438"}
    BY <2>2, Zenon DEF OnRequest
  <2> QED
    BY <2>1, <2>3, Zenon
<1>3. class(msg.typ) \in {Success, Error, Request, Indication}
  BY DEF class, Field, Success, Error, Request, Indication
<1>4. "nothing" \in Outs
  BY Zenon DEF Outs
<1> QED
  BY <1>1, <1>2, <1>3, <1>4, Zenon DEF Verdict, Success, Error, Request, Indication

\* What the assumption says of a message that arrives.
LEMMA InputTypes ==
  ASSUME NEW t \in Typs, NEW b \in Bodies
  PROVE  t \in Nat /\ Len(b) \in Nat /\ DOMAIN b = 1..Len(b)
<1>2. b \in Seq(Attribute)
  BY BodiesAssumption, Zenon
<1>3. Len(b) \in Nat /\ DOMAIN b = 1..Len(b)
  BY <1>2
<1>4. t \in Nat
  BY TypsAssumption
<1> QED
  BY <1>2, <1>3, <1>4, Zenon

\* The invariant holds of every message that arrives.
LEMMA InitInv == Init => IInv
<1> SUFFICES ASSUME Init PROVE IInv
  BY Zenon
<1>1. ChainOK
  BY FreshTrace, Zenon DEF Init, ChainOK
<1>2. msg.typ \in Typs /\ msg.attrs \in Bodies
  BY Zenon DEF Init
<1>3. msg.typ \in Nat /\ Len(msg.attrs) \in Nat /\ DOMAIN msg.attrs = 1..Len(msg.attrs)
  BY <1>2, InputTypes, Zenon
<1>4. pos = 1 /\ unknown = <<>> /\ out = "pending" /\ hops = 0
  BY Zenon DEF Init
<1>5. ListOK
  BY <1>3, <1>4, FreshListed, UnknownAssumption DEF ListOK
<1>6. EndOK /\ AnswerOK /\ EchoOK /\ out \in Outs
  BY <1>3, <1>4 DEF EndOK, AnswerOK, EchoOK, Signed, Outs
<1> QED
  BY <1>1, <1>5, <1>6, Zenon DEF IInv

\* An attribute is pulled.
LEMMA PullInv ==
  ASSUME IInv, Pull
  PROVE  IInv'
<1>1. ChainOK'
  BY PullChain, Zenon DEF IInv
<1>2. msg' = msg /\ hops' = hops /\ out' = out /\ out = "pending" /\ pos' = pos + 1 /\ pos <= Len(msg.attrs)
  BY Zenon DEF Pull
<1>3. EndOK'
  BY <1>2 DEF IInv, EndOK, ChainOK, Traced
<1>4. AnswerOK'
  BY <1>2, Zenon DEF AnswerOK, Signed
<1>5. EchoOK'
  BY <1>2 DEF IInv, EchoOK, class, Field
<1>6. ListOK'
  <2>1. pos \in Nat \ {0} /\ pos - 1 \in Nat /\ (pos - 1) + 1 = pos /\ pos' - 1 = (pos - 1) + 1
    BY <1>2 DEF IInv, ChainOK, Traced
  <2>2. DOMAIN msg.attrs = 1..Len(msg.attrs) /\ Listed(Parsers, UnknownMax, msg.attrs, pos - 1, unknown)
    BY Zenon DEF IInv, ListOK
  <2>3. pos \in DOMAIN msg.attrs
    BY <1>2, <2>1, <2>2 DEF IInv, EndOK
  <2>4. unknown' = IF msg.attrs[pos].typ \in Parsers THEN unknown ELSE Collected(unknown, UnknownMax, msg.attrs[pos].typ)
    BY Zenon DEF Pull
  <2> DEFINE n == pos - 1
  <2>5. n \in Nat /\ pos = n + 1 /\ pos' - 1 = n + 1
    BY <2>1, Zenon
  <2> HIDE DEF n
  <2>6. Listed(Parsers, UnknownMax, msg.attrs, n, unknown) /\ n + 1 \in DOMAIN msg.attrs
    BY <2>2, <2>3, <2>5, Zenon DEF n
  <2>7. Listed(Parsers, UnknownMax, msg.attrs, n + 1,
               IF msg.attrs[n + 1].typ \in Parsers THEN unknown ELSE Collected(unknown, UnknownMax, msg.attrs[n + 1].typ))
    BY <2>5, <2>6, CollectedListed, UnknownAssumption, Zenon
  <2> QED
    BY <1>2, <2>2, <2>4, <2>5, <2>7, Zenon DEF ListOK, Parsers
<1>7. out' \in Outs
  BY <1>2, Zenon DEF IInv
<1> QED
  BY <1>1, <1>3, <1>4, <1>5, <1>6, <1>7, Zenon DEF IInv, Outs

\* The message is answered.
LEMMA AnswerInv ==
  ASSUME IInv, Answer
  PROVE  IInv'
<1>1. msg' = msg /\ hops' = hops /\ pos' = pos /\ armed' = armed /\ dest' = dest
  BY Zenon DEF Answer
<1>2. ChainOK'
  BY <1>1, Zenon DEF IInv, ChainOK, Blocking, Blockers
<1>3. EndOK'
  BY <1>1, Zenon DEF Answer, IInv, EndOK
<1>4. AnswerOK'
  <2>1. out' \in Signed => ~msg.zero /\ out' = Verdict
    BY Zenon DEF Answer, Signed
  <2>2. msg.typ \in Nat
    BY Zenon DEF IInv, EchoOK
  <2>3. out' \in Signed => ~msg.zero /\ Given("USERNAME") /\ Given("REALM") /\ Verified
    BY <2>1, <2>2, VerdictSigned, Zenon
  <2> QED
    BY <1>1, <2>3, Zenon DEF AnswerOK, Given, Verified, Is
<1>5. EchoOK'
  <2>1. hops > 0 => out' \in {"pending", "nothing"}
    BY DEF Answer, IInv, EchoOK, Verdict, Success, Error, Request, Indication
  <2> QED
    BY <1>1, <2>1, Zenon DEF IInv, EchoOK, class, Field
<1>6. ListOK'
  BY <1>1, Zenon DEF Answer, IInv, ListOK
<1>7. out' \in Outs
  <2>1. "nothing" \in Outs
    BY Zenon DEF Outs
  <2> QED
    BY <2>1, VerdictType, Zenon DEF Answer, IInv, EchoOK
<1> QED
  BY <1>2, <1>3, <1>4, <1>5, <1>6, <1>7, Zenon DEF IInv, Outs

\* The response becomes a message of another server.
LEMMA ForwardInv ==
  ASSUME IInv, Forward
  PROVE  IInv'
<1>1. ChainOK'
  <2>1. pos' = 1 /\ armed' = Parsers /\ dest' = [t \in Parsers |-> 0]
    BY Zenon DEF Forward
  <2>2. Traced(Parsers, Blocking, msg'.attrs, pos', armed', dest')
    BY <2>1, FreshTrace, Zenon
  <2> QED
    BY <2>2, Zenon DEF ChainOK, Blocking, Blockers
<1>2. out' = "pending" /\ hops' = hops + 1 /\ msg' = Response /\ pos' = 1
  BY Zenon DEF Forward
<1>3. Len(msg'.attrs) \in Nat /\ DOMAIN msg'.attrs = 1..Len(msg'.attrs)
  <2> DEFINE n == Len(Content(out))
             a(i) == [typ |-> Content(out)[i], good |-> TRUE, val |-> "any"]
  <2>1. out \in Positive \cup Negative
    BY Zenon DEF Forward
  <2>2. n \in Nat
    BY <2>1, Zenon DEF Positive, Negative, Content
  <2>3. msg'.attrs = [i \in 1..n |-> a(i)]
    BY <1>2, Zenon DEF Response
  <2> HIDE DEF n, a
  <2> QED
    BY <2>2, <2>3
<1>4. msg'.typ \in Nat /\ class(msg'.typ) \in {Success, Error}
  <2>1. msg.typ \in Nat
    BY Zenon DEF IInv, EchoOK
  <2>2. msg'.typ = set_class(msg.typ, Success) \/ msg'.typ = set_class(msg.typ, Error)
    BY <1>2, Zenon DEF Response
  <2>3. Success \in 0..3 /\ Error \in 0..3
    BY DEF Success, Error
  <2>4. set_class(msg.typ, Success) \in Nat /\ class(set_class(msg.typ, Success)) = Success
    BY <2>1, <2>3, SetClass, Zenon
  <2>5. set_class(msg.typ, Error) \in Nat /\ class(set_class(msg.typ, Error)) = Error
    BY <2>1, <2>3, SetClass, Zenon
  <2> QED
    BY <2>2, <2>4, <2>5, Zenon
<1>5. EndOK' /\ AnswerOK'
  BY <1>2, <1>3 DEF EndOK, AnswerOK, Signed
<1>6. EchoOK'
  BY <1>2, <1>4 DEF IInv, EchoOK, class, Field
<1>7. ListOK'
  <2>1. unknown' = <<>> /\ pos' - 1 = 0
    BY <1>2 DEF Forward
  <2>2. Listed(Parsers, UnknownMax, msg'.attrs, 0, <<>>)
    BY FreshListed, UnknownAssumption, Zenon
  <2> QED
    BY <1>3, <2>1, <2>2, Zenon DEF ListOK
<1>8. out' \in Outs
  BY <1>2, Zenon DEF Outs
<1> QED
  BY <1>1, <1>5, <1>6, <1>7, <1>8, Zenon DEF IInv, Outs

\* The invariant is inductive.
LEMMA Invariant == Spec => []IInv
<1>1. IInv /\ [Next]_vars => IInv'
  <2> SUFFICES ASSUME IInv, [Next]_vars PROVE IInv'
    BY Zenon
  <2>1. CASE UNCHANGED vars
    <3>1. UNCHANGED <<msg, pos, armed, dest, unknown, out, hops>>
      BY <2>1, Zenon DEF vars
    <3>2. ChainOK' /\ ListOK'
      BY <3>1, Zenon DEF IInv, ChainOK, ListOK, Blocking, Blockers
    <3>3. EndOK' /\ AnswerOK'
      BY <3>1, Zenon DEF IInv, EndOK, AnswerOK, Given, Verified, Is
    <3>4. EchoOK' /\ out' \in Outs
      BY <3>1, Zenon DEF IInv, EchoOK, class, Field
    <3> QED
      BY <3>2, <3>3, <3>4, Zenon DEF IInv, Outs
  <2> QED
    BY <2>1, PullInv, AnswerInv, ForwardInv, Zenon DEF Next
<1> QED
  BY <1>1, InitInv, PTL DEF Spec

\* The variables have their types: the cursor stays within the message, what
\* is found lies in it, and the array of collect_unknown is never overrun.
THEOREM TypeCorrect == Spec => []TypeOK
<1>1. IInv => TypeOK
  <2> SUFFICES ASSUME IInv PROVE TypeOK
    BY Zenon
  <2>1. pos \in Nat \ {0} /\ pos <= Len(msg.attrs) + 1 /\ Len(msg.attrs) \in Nat
    BY Zenon DEF IInv, EndOK, ChainOK, Traced
  <2>2. armed \subseteq Parsers /\ dest \in [Parsers -> Nat] /\ \A t \in Parsers : dest[t] < pos
    BY Zenon DEF IInv, ChainOK, Traced
  <2>3. dest \in [Parsers -> 0..Len(msg.attrs)]
    BY <2>1, <2>2
  <2>4. Len(unknown) <= UnknownMax
    <3> DEFINE F == Firsts(Parsers, msg.attrs, pos - 1)
    <3>1. Len(unknown) = IF Cardinality(F) < UnknownMax THEN Cardinality(F) ELSE UnknownMax
      BY Zenon DEF IInv, ListOK, Listed
    <3>2. Cardinality(F) \in Nat
      BY <2>1, FirstsFinite
    <3> HIDE DEF F
    <3> QED
      BY <3>1, <3>2, UnknownAssumption
  <2>5. out \in {"pending", "nothing", "relayed"} \cup Positive \cup Negative
    BY Zenon DEF IInv, Outs
  <2> QED
    BY <2>1, <2>2, <2>3, <2>4, <2>5 DEF TypeOK
<1> QED
  BY <1>1, Invariant, PTL

\* A 420 response lists the first distinct types that are missed, in their
\* order, for messages of any length and arrays of any size.
THEOREM UnknownListedHolds == Spec => []UnknownListed
<1>1. IInv => UnknownListed
  <2> SUFFICES ASSUME IInv, Ended PROVE UnknownListed
    BY Zenon DEF UnknownListed
  <2> DEFINE F == Firsts(Parsers, msg.attrs, Len(msg.attrs))
             G == {i \in 1..Len(msg.attrs) :
                     LET u == msg.attrs[i].typ
                     IN  u \notin Parsers /\ comprehension_required(u) /\ u # "ZERO" /\ i \in FirstOf(u, i)}
  <2>1. pos - 1 = Len(msg.attrs)
    BY DEF IInv, EndOK, ChainOK, Ended, Traced
  <2>2. Listed(Parsers, UnknownMax, msg.attrs, Len(msg.attrs), unknown)
    BY <2>1, Zenon DEF IInv, ListOK
  <2>3. G = F
    BY DEF Firsts, Missed, FirstOf
  <2>4. Len(unknown) = IF Cardinality(F) < UnknownMax THEN Cardinality(F) ELSE UnknownMax
    BY <2>2, Zenon DEF Listed
  <2>5. \A i \in F : Cardinality({j \in F : j <= i}) <= UnknownMax =>
                     unknown[Cardinality({j \in F : j <= i})] = msg.attrs[i].typ
    BY <2>2, Zenon DEF Listed, Rank
  <2> HIDE DEF F, G
  <2>6. /\ Len(unknown) = IF Cardinality(G) < UnknownMax THEN Cardinality(G) ELSE UnknownMax
        /\ \A i \in G : Cardinality({j \in G : j <= i}) <= UnknownMax =>
                        unknown[Cardinality({j \in G : j <= i})] = msg.attrs[i].typ
    BY <2>3, <2>4, <2>5, Zenon
  <2> QED
    BY <2>6, Zenon DEF UnknownListed, G
<1> QED
  BY <1>1, Invariant, PTL

\* The chain of iterators yields, for every parser, the first attribute of its
\* type, unless that does not decode or comes after a blocker: for messages of
\* any length.
THEOREM ParsedAsSpecifiedHolds == Spec => []ParsedAsSpecified
<1>1. IInv => ParsedAsSpecified
  <2> SUFFICES ASSUME IInv, Ended PROVE
        \A t \in Parsers, i \in 1..Len(msg.attrs) :
          dest[t] = i <=> /\ i \in FirstOf(t, i)
                          /\ msg.attrs[i].good
                          /\ \A j \in 1..(i - 1) : msg.attrs[j].typ \notin Blockers(t)
    BY Zenon DEF ParsedAsSpecified
  <2> DEFINE found(t, i) == Found(msg.attrs, Blocking, t, i)
  <2>1. pos - 1 = Len(msg.attrs)
    BY DEF IInv, EndOK, ChainOK, Ended, Traced
  <2>2. \A t \in Parsers, i \in 1..Len(msg.attrs) : dest[t] = i <=> found(t, i)
    BY <2>1, Zenon DEF IInv, ChainOK, Traced
  <2>3. \A t \in Parsers, i \in 1..Len(msg.attrs) :
          found(t, i) <=> /\ i \in FirstOf(t, i)
                          /\ msg.attrs[i].good
                          /\ \A j \in 1..(i - 1) : msg.attrs[j].typ \notin Blockers(t)
    BY DEF Found, Open, FirstOf, Blocking
  <2> QED
    BY <2>2, <2>3, Zenon
<1> QED
  BY <1>1, Invariant, PTL

\* Every signed answer rests on a verified integrity value that covers the user
\* name and the realm, for messages of any length.
THEOREM KeyCoveredHolds == Spec => []KeyCovered
<1>1. IInv => KeyCovered
  <2> SUFFICES ASSUME IInv, out \in Signed
               PROVE  /\ Given("USERNAME") /\ dest["USERNAME"] < dest["MESSAGE_INTEGRITY"]
                      /\ Given("REALM") /\ dest["REALM"] < dest["MESSAGE_INTEGRITY"]
                      /\ msg.attrs[dest["MESSAGE_INTEGRITY"]].val = "match"
    BY Zenon DEF KeyCovered, Signed
  <2>1. Given("USERNAME") /\ Given("REALM") /\ Verified
    BY Zenon DEF IInv, AnswerOK
  <2>2. \A t \in {"USERNAME", "REALM", "MESSAGE_INTEGRITY"} :
          t \in Parsers /\ dest[t] \in 1..(pos - 1) /\ Found(msg.attrs, Blocking, t, dest[t])
    <3>1. \A t \in {"USERNAME", "REALM", "MESSAGE_INTEGRITY"} : t \in Parsers /\ dest[t] # 0
      BY <2>1, ParsersAre, Zenon DEF Given, Verified, Is
    <3>2. \A t \in Parsers : dest[t] \in Nat /\ dest[t] < pos /\ pos \in Nat
      BY Zenon DEF IInv, ChainOK, Traced
    <3>3. \A t \in {"USERNAME", "REALM", "MESSAGE_INTEGRITY"} : dest[t] \in 1..(pos - 1)
      BY <3>1, <3>2
    <3> QED
      BY <3>1, <3>3, Zenon DEF IInv, ChainOK, Traced
  <2>3. ASSUME NEW t \in {"USERNAME", "REALM"}
        PROVE  dest[t] < dest["MESSAGE_INTEGRITY"]
    <3>1. msg.attrs[dest["MESSAGE_INTEGRITY"]].typ = "MESSAGE_INTEGRITY" /\ msg.attrs[dest[t]].typ = t
      BY <2>2, Zenon DEF Found
    <3>2. "MESSAGE_INTEGRITY" \in Blocking[t]
      BY <2>2, Zenon DEF Blocking, Blockers
    <3>3. dest["MESSAGE_INTEGRITY"] \notin 1..(dest[t] - 1)
      BY <2>2, <3>1, <3>2, ZenonT(60) DEF Found, Open
    <3>4. dest["MESSAGE_INTEGRITY"] # dest[t]
      BY <3>1, Zenon
    <3>5. dest[t] \in Nat /\ dest["MESSAGE_INTEGRITY"] \in Nat \ {0} /\ pos \in Nat
      BY <2>2 DEF IInv, ChainOK, Traced
    <3> QED
      BY <3>3, <3>4, <3>5
  <2> QED
    BY <2>1, <2>3, Zenon DEF Verified, Is
<1> QED
  BY <1>1, Invariant, PTL

\* Servers never answer each other's responses.
THEOREM NoEchoHolds == Spec => []NoEcho
<1>1. IInv => NoEcho
  BY Zenon DEF IInv, EchoOK, NoEcho
<1> QED
  BY <1>1, Invariant, PTL
=============================================================================
