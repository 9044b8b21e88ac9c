----------------------------- MODULE StunProofs -----------------------------
(***************************************************************************)
(* Facts about the operators that the models of STUN servers share: the    *)
(* class bits of the type field, the chain of parsers, checksums, and the  *)
(* values of attributes.                                                   *)
(***************************************************************************)
EXTENDS StunType, StunValues, AttrChain, Checksum, FiniteSetTheorems, TLAPS

-----------------------------------------------------------------------------
(* The type field, split at its class bits *)

\* The parts of a type field between which its class bits b and e are.
TypeParts == [l : 0..15, b : 0..1, m : 0..7, e : 0..1, h : Nat]

PartsOf(typ) ==
  [l |-> Field(typ, 1, 16), b |-> Field(typ, 16, 2), m |-> Field(typ, 32, 8),
   e |-> Field(typ, 256, 2), h |-> typ \div 512]

Whole(p) == p.l + 16 * p.b + 32 * p.m + 256 * p.e + 512 * p.h

\* A type field is put together of its parts.
LEMMA Parts ==
  ASSUME NEW typ \in Nat
  PROVE  PartsOf(typ) \in TypeParts /\ typ = Whole(PartsOf(typ))
<1> DEFINE l == Field(typ, 1, 16)
           b == Field(typ, 16, 2)
           m == Field(typ, 32, 8)
           e == Field(typ, 256, 2)
           h == typ \div 512
<1>1. l \in 0..15 /\ b \in 0..1 /\ m \in 0..7 /\ e \in 0..1 /\ h \in Nat
  BY DEF Field
<1>2. typ = 16 * (typ \div 16) + l
  BY SMTT(60) DEF Field
<1>3. typ \div 16 = 2 * (typ \div 32) + b
  BY SMTT(60) DEF Field
<1>4. typ \div 32 = 8 * (typ \div 256) + m
  BY SMTT(60) DEF Field
<1>5. typ \div 256 = 2 * h + e
  BY SMTT(60) DEF Field
<1>6. typ \div 16 \in Nat /\ typ \div 32 \in Nat /\ typ \div 256 \in Nat
  OBVIOUS
<1>7. PartsOf(typ) = [l |-> l, b |-> b, m |-> m, e |-> e, h |-> h]
  BY DEF PartsOf
<1> HIDE DEF l, b, m, e, h
<1>8. typ = l + 16 * b + 32 * m + 256 * e + 512 * h
  BY <1>1, <1>2, <1>3, <1>4, <1>5, <1>6, SMTT(60)
<1> QED
  BY <1>1, <1>7, <1>8 DEF TypeParts, Whole

\* Its parts are read from a field that is put together of them.
LEMMA FieldsOf ==
  ASSUME NEW p \in TypeParts
  PROVE  /\ Whole(p) \in Nat
         /\ Whole(p) \div 256 = p.e + 2 * p.h
         /\ class(Whole(p)) = p.b + 2 * p.e
         /\ raw_method(Whole(p)) = p.l + 16 * p.m + 128 * (p.h % 32)
<1> DEFINE l == p.l  b == p.b  m == p.m  e == p.e  h == p.h  typ == Whole(p)
<1>1. l \in 0..15 /\ b \in 0..1 /\ m \in 0..7 /\ e \in 0..1 /\ h \in Nat
  BY DEF TypeParts
<1>2. typ = l + 16 * b + 32 * m + 256 * e + 512 * h
  BY DEF Whole
<1> HIDE DEF l, b, m, e, h, typ
<1>3. typ \in Nat
  BY <1>1, <1>2
<1>4. typ \div 1 = l + 16 * (b + 2 * m + 16 * e + 32 * h)
  BY <1>1, <1>2, SMTT(60)
<1>5. typ \div 16 = b + 2 * (m + 8 * e + 16 * h)
  BY <1>1, <1>2, SMTT(60)
<1>6. typ \div 32 = m + 8 * (e + 2 * h)
  BY <1>1, <1>2, SMTT(60)
<1>7. typ \div 256 = e + 2 * h
  BY <1>1, <1>2, SMTT(60)
<1>8. typ \div 512 = h
  BY <1>1, <1>2, SMTT(60)
<1>9. Field(typ, 1, 16) = l
  BY <1>1, <1>4, SMTT(60) DEF Field
<1>10. Field(typ, 16, 2) = b
  BY <1>1, <1>5, SMTT(60) DEF Field
<1>11. Field(typ, 32, 8) = m
  BY <1>1, <1>6, SMTT(60) DEF Field
<1>12. Field(typ, 256, 2) = e
  BY <1>1, <1>7, SMTT(60) DEF Field
<1>13. Field(typ, 512, 32) = h % 32
  BY <1>8 DEF Field
<1>14. class(typ) = b + 2 * e
  BY <1>10, <1>12 DEF class
<1>15. raw_method(typ) = l + 16 * m + 128 * (h % 32)
  BY <1>9, <1>11, <1>13 DEF raw_method
<1> QED
  BY <1>3, <1>7, <1>14, <1>15, ZenonT(60) DEF l, b, m, e, h, typ

\* set_class (stun/stun.rs): the class that is read back is the one that was set,
\* whatever was in the field before, and the method is the same as before.
THEOREM SetClass ==
  ASSUME NEW typ \in Nat, NEW c \in 0..3
  PROVE  /\ set_class(typ, c) \in Nat
         /\ class(set_class(typ, c)) = c
         /\ raw_method(set_class(typ, c)) = raw_method(typ)
<1> DEFINE p == PartsOf(typ)
           l == p.l  b == p.b  m == p.m  e == p.e  h == p.h
           d == c % 2  f == c \div 2
           q == [l |-> l, b |-> d, m |-> m, e |-> f, h |-> h]
<1>1. p \in TypeParts /\ typ = Whole(p)
  BY Parts
<1>2. d \in 0..1 /\ f \in 0..1 /\ d + 2 * f = c
  OBVIOUS
<1>3. set_class(typ, c) = (typ - 16 * b - 256 * e) + 16 * d + 256 * f
  BY DEF set_class, PartsOf
<1> HIDE DEF p, d, f
<1>4. l \in 0..15 /\ b \in 0..1 /\ m \in 0..7 /\ e \in 0..1 /\ h \in Nat
  BY <1>1 DEF TypeParts
<1>5. typ = l + 16 * b + 32 * m + 256 * e + 512 * h
  BY <1>1 DEF Whole
<1>6. raw_method(typ) = l + 16 * m + 128 * (h % 32)
  BY <1>1, FieldsOf, ZenonT(60)
<1> HIDE DEF l, b, m, e, h
<1>7. q \in TypeParts
  BY <1>2, <1>4 DEF TypeParts
<1>8. q.l = l /\ q.b = d /\ q.m = m /\ q.e = f /\ q.h = h
  OBVIOUS
<1> HIDE DEF q
<1>9. Whole(q) = l + 16 * d + 32 * m + 256 * f + 512 * h
  BY <1>8, SMT DEF Whole
<1>10. set_class(typ, c) = Whole(q)
  BY <1>2, <1>3, <1>4, <1>5, <1>9, SMT
<1>11. /\ Whole(q) \in Nat
       /\ class(Whole(q)) = d + 2 * f
       /\ raw_method(Whole(q)) = l + 16 * m + 128 * (h % 32)
  BY <1>7, <1>8, FieldsOf, ZenonT(60)
<1> QED
  BY <1>2, <1>6, <1>10, <1>11, ZenonT(60)

\* The methods that fit into the type field.
TwelveBits == 0..4095

\* set_method (stun/stun.rs): the method that is read back is the one that was set,
\* if it has at most twelve bits, and the class is the same as before.
THEOREM SetMethod ==
  ASSUME NEW typ \in Nat, NEW n \in TwelveBits
  PROVE  /\ set_raw_method(typ, n) \in Nat
         /\ raw_method(set_raw_method(typ, n)) = n
         /\ class(set_raw_method(typ, n)) = class(typ)
<1> DEFINE l == Field(n, 1, 16)
           m == Field(n, 16, 8)
           h == Field(n, 128, 64)
           p == PartsOf(typ)
           b == p.b  e == p.e
           q == [l |-> l, b |-> b, m |-> m, e |-> e, h |-> h]
<1>1. p \in TypeParts /\ typ = Whole(p)
  BY Parts
<1>2. l \in 0..15 /\ m \in 0..7
  BY DEF Field, TwelveBits
<1>3. n = 16 * (n \div 16) + l
  BY SMTT(60) DEF Field, TwelveBits
<1>4. n \div 16 = 8 * (n \div 128) + m
  BY SMTT(60) DEF Field, TwelveBits
<1>5. n \in Nat /\ n \div 128 \in 0..31
  BY SMTT(60) DEF TwelveBits
<1>6. h = n \div 128
  BY <1>5, SMTT(60) DEF Field
<1>7. set_raw_method(typ, n) = 16 * b + 256 * e + l + 32 * m + 512 * h
  BY DEF set_raw_method, PartsOf
<1> HIDE DEF l, m, h, p
<1>8. h \in 0..31 /\ h % 32 = h
  BY <1>5, <1>6, SMT
<1>9. n = l + 16 * m + 128 * h
  BY <1>2, <1>3, <1>4, <1>5, <1>6, <1>8, SMT
<1>10. b \in 0..1 /\ e \in 0..1
  BY <1>1 DEF TypeParts
<1>11. class(typ) = b + 2 * e
  BY <1>1, FieldsOf, ZenonT(60)
<1> HIDE DEF b, e
<1>12. q \in TypeParts
  BY <1>2, <1>8, <1>10 DEF TypeParts
<1>13. q.l = l /\ q.b = b /\ q.m = m /\ q.e = e /\ q.h = h
  OBVIOUS
<1> HIDE DEF q
<1>14. Whole(q) = l + 16 * b + 32 * m + 256 * e + 512 * h
  BY <1>13, SMT DEF Whole
<1>15. set_raw_method(typ, n) = Whole(q)
  BY <1>2, <1>7, <1>8, <1>10, <1>14, SMT
<1>16. /\ Whole(q) \in Nat
       /\ class(Whole(q)) = b + 2 * e
       /\ raw_method(Whole(q)) = l + 16 * m + 128 * (h % 32)
  BY <1>12, <1>13, FieldsOf, ZenonT(60)
<1> QED
  BY <1>8, <1>9, <1>11, <1>15, <1>16, ZenonT(60)

\* The only type field that the responder takes for a Binding request.
LEMMA BindingType ==
  ASSUME NEW typ \in Nat
  PROVE  (typ \div 256 \in 0..2 /\ class(typ) = Request /\ raw_method(typ) = Method.Binding) <=> typ = 1
<1> DEFINE p == PartsOf(typ)
           l == p.l  b == p.b  m == p.m  e == p.e  h == p.h
<1>1. p \in TypeParts /\ typ = Whole(p)
  BY Parts
<1> HIDE DEF p
<1>2. l \in 0..15 /\ b \in 0..1 /\ m \in 0..7 /\ e \in 0..1 /\ h \in Nat
  BY <1>1 DEF TypeParts
<1>3. typ = l + 16 * b + 32 * m + 256 * e + 512 * h
  BY <1>1 DEF Whole
<1>4. /\ typ \div 256 = e + 2 * h
      /\ class(typ) = b + 2 * e
      /\ raw_method(typ) = l + 16 * m + 128 * (h % 32)
  BY <1>1, FieldsOf, ZenonT(60)
<1>5. Method.Binding = 1 /\ Request = 0
  BY DEF Method, Request
<1> HIDE DEF l, b, m, e, h
<1>6. ASSUME typ \div 256 \in 0..2, class(typ) = Request, raw_method(typ) = Method.Binding
      PROVE  typ = 1
  <2>1. b = 0 /\ e = 0
    BY <1>2, <1>4, <1>5, <1>6
  <2>2. h \in 0..1 /\ h % 32 = h
    BY <1>2, <1>4, <1>6, <2>1
  <2>3. h = 0 /\ m = 0 /\ l = 1
    BY <1>2, <1>4, <1>5, <1>6, <2>2
  <2> QED
    BY <1>2, <1>3, <2>1, <2>3
<1>7. ASSUME typ = 1
      PROVE  typ \div 256 \in 0..2 /\ class(typ) = Request /\ raw_method(typ) = Method.Binding
  <2>1. h = 0 /\ e = 0 /\ m = 0 /\ b = 0 /\ l = 1
    BY <1>2, <1>3, <1>7
  <2> QED
    BY <1>4, <1>5, <2>1
<1> QED
  BY <1>6, <1>7

-----------------------------------------------------------------------------
(* The chain of parsers *)

\* No attribute up to position n is of type t or one of its blockers.
Open(attrs, blockers, t, n) == \A j \in 1..n : attrs[j].typ # t /\ attrs[j].typ \notin blockers[t]

\* Parser t finds its attribute at position i.
Found(attrs, blockers, t, i) == attrs[i].typ = t /\ attrs[i].good /\ Open(attrs, blockers, t, i - 1)

\* Of the attributes in front of position pos: a parser is armed as long as it
\* met neither its attribute nor a blocker, and has what it found.
Traced(parsers, blockers, attrs, pos, armed, dest) ==
  /\ pos \in Nat \ {0}
  /\ armed \subseteq parsers
  /\ dest \in [parsers -> Nat]
  /\ \A t \in parsers : t \in armed <=> Open(attrs, blockers, t, pos - 1)
  /\ \A t \in parsers : dest[t] < pos
  /\ \A t \in parsers, i \in 1..(pos - 1) : dest[t] = i <=> Found(attrs, blockers, t, i)

\* Nothing went through the chain yet.
LEMMA FreshTrace ==
  ASSUME NEW parsers, NEW blockers, NEW attrs
  PROVE  Traced(parsers, blockers, attrs, 1, parsers, [t \in parsers |-> 0])
<1>1. \A t \in parsers : Open(attrs, blockers, t, 1 - 1)
  BY DEF Open
<1>2. \A i \in 1..(1 - 1) : FALSE
  OBVIOUS
<1>3. [t \in parsers |-> 0] \in [parsers -> Nat]
  OBVIOUS
<1> QED
  BY <1>1, <1>2, <1>3 DEF Traced

\* One attribute goes through the chain.  What makes a parser give up waiting is
\* what its own attribute must precede and what no parser in front of it keeps.
LEMMA PulledTrace ==
  ASSUME NEW chain, NEW blockers, NEW attrs, NEW pos, NEW armed, NEW dest,
         Traced(Types(chain), blockers, attrs, pos, armed, dest),
         \A t \in Types(chain) : \A u : (Reaches(chain, u, t) /\ must_precede(t, u)) <=> u \in blockers[t]
  PROVE  Traced(Types(chain), blockers, attrs, pos + 1, armed \ Disarmed(chain, armed, attrs[pos].typ),
                Kept(dest, armed, attrs[pos], pos))
<1> DEFINE parsers == Types(chain)
           a == attrs[pos]
           armed2 == armed \ Disarmed(chain, armed, a.typ)
           dest2 == Kept(dest, armed, a, pos)
           open(t, n) == Open(attrs, blockers, t, n)
           found(t, i) == Found(attrs, blockers, t, i)
<1>2. pos \in Nat \ {0} /\ dest \in [parsers -> Nat] /\ armed \subseteq parsers
  BY DEF Traced
<1>3. armed2 = {t \in armed : t # a.typ /\ a.typ \notin blockers[t]}
  BY <1>2 DEF Disarmed
<1>4. dest2 = IF a.typ \in armed THEN [dest EXCEPT ![a.typ] = IF a.good THEN pos ELSE 0] ELSE dest
  BY DEF Kept
<1>7. \A t : open(t, pos) <=> (open(t, pos - 1) /\ a.typ # t /\ a.typ \notin blockers[t])
  <2>1. \A j : j \in 1..pos <=> (j \in 1..(pos - 1) \/ j = pos)
    BY <1>2
  <2> QED
    BY <2>1 DEF Open
<1>8. \A t : found(t, pos) <=> (a.typ = t /\ a.good /\ open(t, pos - 1))
  BY DEF Found
<1>81. \A t \in parsers : t \in armed <=> open(t, pos - 1)
  BY DEF Traced
<1>82. \A t \in parsers, i \in 1..(pos - 1) : dest[t] = i <=> found(t, i)
  BY DEF Traced
<1>83. \A t, i : found(t, i) => attrs[i].typ = t
  BY DEF Found
<1>84. \A t, i : open(t, pos - 1) /\ i \in 1..(pos - 1) => attrs[i].typ # t
  BY DEF Open
<1>85. \A t \in parsers : dest[t] < pos
  BY DEF Traced
<1>86. /\ pos + 1 \in Nat \ {0} /\ pos + 1 - 1 = pos
  BY <1>2
<1> HIDE DEF a, dest2, armed2, open, found, parsers
<1>9. dest2 \in [parsers -> Nat]
  BY <1>2, <1>4
<1>10. \A t \in parsers : /\ t = a.typ /\ t \in armed => dest2[t] = IF a.good THEN pos ELSE 0
                          /\ ~(t = a.typ /\ t \in armed) => dest2[t] = dest[t]
  BY <1>2, <1>4
<1>11. \A t \in parsers : t \in armed2 <=> open(t, pos)
  BY <1>3, <1>7, <1>81
<1>12. \A t \in parsers : dest[t] \in Nat /\ dest[t] < pos /\ dest2[t] < pos + 1
  BY <1>2, <1>10, <1>85
<1>13. ASSUME NEW t \in parsers, NEW i \in 1..pos
       PROVE  dest2[t] = i <=> found(t, i)
  <2>1. CASE t = a.typ /\ t \in armed
    <3>1. open(t, pos - 1)
      BY <1>81, <2>1
    <3>2. CASE i = pos
      BY <1>2, <1>8, <1>10, <2>1, <3>1, <3>2
    <3>3. CASE i # pos
      <4>1. i \in 1..(pos - 1)
        BY <1>2, <3>3
      <4>2. ~found(t, i)
        BY <1>83, <1>84, <3>1, <4>1
      <4>3. dest2[t] # i
        BY <1>2, <1>10, <2>1, <4>1
      <4> QED
        BY <4>2, <4>3
    <3> QED
      BY <3>2, <3>3
  <2>2. CASE ~(t = a.typ /\ t \in armed)
    <3>1. dest2[t] = dest[t]
      BY <1>10, <2>2
    <3>2. CASE i = pos
      <4>1. dest[t] # i
        BY <1>2, <1>12, <3>2
      <4>2. ~found(t, pos)
        BY <1>8, <1>81, <2>2
      <4> QED
        BY <3>1, <3>2, <4>1, <4>2
    <3>3. CASE i # pos
      <4>1. i \in 1..(pos - 1)
        BY <1>2, <3>3
      <4> QED
        BY <1>82, <3>1, <4>1
    <3> QED
      BY <3>2, <3>3
  <2> QED
    BY <2>1, <2>2
<1>14. armed2 \subseteq parsers
  BY <1>2, <1>3
<1>15. Traced(parsers, blockers, attrs, pos + 1, armed2, dest2)
  BY <1>86, <1>9, <1>11, <1>12, <1>13, <1>14 DEF Traced, open, found
<1> QED
  BY <1>15 DEF parsers, armed2, dest2, a

-----------------------------------------------------------------------------
(* The attributes that are not understood *)

\* The attribute at position i has to be understood, and is not.
Missed(parsers, attrs, i) ==
  attrs[i].typ \notin parsers /\ comprehension_required(attrs[i].typ) /\ attrs[i].typ # "ZERO"

\* Of the first n attributes: the first ones of the types that are missed.
Firsts(parsers, attrs, n) ==
  {i \in 1..n : Missed(parsers, attrs, i) /\ \A j \in 1..(i - 1) : attrs[j].typ # attrs[i].typ}

Present(attrs) == {attrs[i].typ : i \in DOMAIN attrs}

Rank(parsers, attrs, n, i) == Cardinality({j \in Firsts(parsers, attrs, n) : j <= i})

\* The array of collect_unknown, of length max, has the missed types of the
\* first n attributes in their order, as far as they fit.
Listed(parsers, max, attrs, n, un) ==
  LET F == Firsts(parsers, attrs, n)
  IN  /\ un \in Seq(Present(attrs))
      /\ Len(un) = IF Cardinality(F) < max THEN Cardinality(F) ELSE max
      /\ \A i \in F : Rank(parsers, attrs, n, i) <= max => un[Rank(parsers, attrs, n, i)] = attrs[i].typ
      /\ \A k \in 1..Len(un) : \E i \in F : un[k] = attrs[i].typ
      /\ \A j \in 1..n : Missed(parsers, attrs, j) => \E i \in F : attrs[i].typ = attrs[j].typ

\* There are finitely many.
LEMMA FirstsFinite ==
  ASSUME NEW parsers, NEW attrs, NEW n \in Nat
  PROVE  IsFiniteSet(Firsts(parsers, attrs, n)) /\ Cardinality(Firsts(parsers, attrs, n)) \in Nat
<1>1. Firsts(parsers, attrs, n) \in SUBSET (1..n)
  BY DEF Firsts
<1>2. IsFiniteSet(1..n)
  BY FS_Interval
<1> QED
  BY <1>1, <1>2, FS_Subset, FS_CardinalityType

\* A rank counts some of them, and at least the one it is the rank of.
LEMMA RankBounds ==
  ASSUME NEW parsers, NEW attrs, NEW n \in Nat, NEW i \in Firsts(parsers, attrs, n)
  PROVE  Rank(parsers, attrs, n, i) \in 1..Cardinality(Firsts(parsers, attrs, n))
<1> DEFINE F == Firsts(parsers, attrs, n)
           R == {j \in F : j <= i}
<1>1. R \in SUBSET F /\ i \in R
  BY DEF Firsts
<1>2. IsFiniteSet(F) /\ Cardinality(F) \in Nat
  BY FirstsFinite
<1> HIDE DEF F, R
<1>3. IsFiniteSet(R) /\ Cardinality(R) <= Cardinality(F)
  BY <1>1, <1>2, FS_Subset
<1>4. Cardinality(R) \in Nat /\ Cardinality(R) # 0
  BY <1>1, <1>3, FS_EmptySet, FS_CardinalityType
<1>5. Cardinality(R) \in 1..Cardinality(F)
  BY <1>2, <1>3, <1>4
<1> QED
  BY <1>5 DEF F, R, Rank

\* Nothing is listed yet.
LEMMA FreshListed ==
  ASSUME NEW parsers, NEW max \in Nat, NEW attrs
  PROVE  Listed(parsers, max, attrs, 0, <<>>)
<1>1. Firsts(parsers, attrs, 0) = {}
  BY DEF Firsts
<1>2. Cardinality({}) = 0
  BY FS_EmptySet
<1>3. <<>> \in Seq(Present(attrs)) /\ Len(<<>>) = 0
  OBVIOUS
<1>4. \A k \in 1..0 : FALSE
  OBVIOUS
<1>5. Len(<<>>) = IF Cardinality({}) < max THEN Cardinality({}) ELSE max
  BY <1>2, <1>3
<1>6. \A k \in 1..Len(<<>>) : FALSE
  BY <1>3, <1>4
<1> QED
  BY <1>1, <1>3, <1>4, <1>5, <1>6, Zenon DEF Listed

\* What collect_unknown makes of one more attribute.
LEMMA CollectedListed ==
  ASSUME NEW parsers, NEW max \in Nat, NEW attrs, NEW n \in Nat, NEW un,
         Listed(parsers, max, attrs, n, un), n + 1 \in DOMAIN attrs
  PROVE  Listed(parsers, max, attrs, n + 1,
                IF attrs[n + 1].typ \in parsers THEN un ELSE Collected(un, max, attrs[n + 1].typ))
<1> DEFINE u == attrs[n + 1].typ
           un2 == IF u \in parsers THEN un ELSE Collected(un, max, u)
           F == Firsts(parsers, attrs, n)
           G == Firsts(parsers, attrs, n + 1)
           rank(i) == Rank(parsers, attrs, n, i)
           rank2(i) == Rank(parsers, attrs, n + 1, i)
           missed(i) == Missed(parsers, attrs, i)
           typ(i) == attrs[i].typ
<1>1. \A j : j \in 1..(n + 1) <=> (j \in 1..n \/ j = n + 1)
  OBVIOUS
<1>2. G = IF n + 1 \in G THEN F \cup {n + 1} ELSE F
  BY <1>1 DEF Firsts
<1>3. F \subseteq 1..n /\ n + 1 \notin F
  BY DEF Firsts
<1>4. IsFiniteSet(F) /\ Cardinality(F) \in Nat
  BY FirstsFinite
<1>5. \A i \in F : rank(i) \in 1..Cardinality(F)
  BY RankBounds
<1>6. n + 1 \in G <=> missed(n + 1) /\ \A j \in 1..n : typ(j) # u
  BY DEF Firsts
<1>7. \A i \in F : rank2(i) = rank(i)
  <2> SUFFICES ASSUME NEW i \in F PROVE {j \in G : j <= i} = {j \in F : j <= i}
    BY DEF Rank
  <2>1. i \in 1..n /\ ~ n + 1 <= i
    BY <1>3
  <2> QED
    BY <1>2, <2>1
<1>8. un2 = IF missed(n + 1) /\ (\A k \in 1..Len(un) : un[k] # u) /\ Len(un) < max THEN Append(un, u) ELSE un
  BY DEF Collected, Missed
<1>9. un \in Seq(Present(attrs)) /\ Len(un) \in Nat
  BY DEF Listed
<1>10. Len(un) = IF Cardinality(F) < max THEN Cardinality(F) ELSE max
  BY DEF Listed
<1>11. \A i \in F : rank(i) <= max => un[rank(i)] = typ(i)
  BY DEF Listed
<1>12. \A k \in 1..Len(un) : \E i \in F : un[k] = typ(i)
  BY DEF Listed
<1>13. \A j \in 1..n : missed(j) => \E i \in F : typ(i) = typ(j)
  BY DEF Listed
<1>14. \A j : typ(j) = u => (missed(j) <=> missed(n + 1))
  BY DEF Missed
<1>15. \A i \in F : typ(i) = u => missed(n + 1)
  BY <1>14 DEF Firsts
<1>16. SUFFICES /\ un2 \in Seq(Present(attrs))
                /\ Len(un2) = IF Cardinality(G) < max THEN Cardinality(G) ELSE max
                /\ \A i \in G : rank2(i) <= max => un2[rank2(i)] = typ(i)
                /\ \A k \in 1..Len(un2) : \E i \in G : un2[k] = typ(i)
                /\ \A j \in 1..(n + 1) : missed(j) => \E i \in G : typ(i) = typ(j)
  BY DEF Listed
<1>17. rank2(n + 1) = Cardinality({j \in G : j <= n + 1}) /\ u = typ(n + 1) /\ u \in Present(attrs)
  BY DEF Rank, Present
<1> HIDE DEF u, un2, F, G, rank, rank2, missed, typ
<1>18. CASE n + 1 \notin G
  <2>1. G = F
    BY <1>2, <1>18
  <2>2. un2 = un
    <3>1. CASE ~missed(n + 1)
      BY <1>8, <3>1
    <3>2. CASE missed(n + 1)
      <4>1. PICK j \in 1..n : typ(j) = u
        BY <1>6, <1>18, <3>2
      <4>2. PICK i \in F : typ(i) = u
        BY <1>13, <1>14, <3>2, <4>1
      <4>3. CASE rank(i) <= max
        <5>1. rank(i) \in 1..Len(un)
          BY <1>4, <1>5, <1>10, <4>3
        <5> QED
          BY <1>8, <1>11, <4>2, <4>3, <5>1
      <4>4. CASE ~ rank(i) <= max
        <5>1. Len(un) = max
          BY <1>4, <1>5, <1>10, <4>4
        <5> QED
          BY <1>8, <5>1
      <4> QED
        BY <4>3, <4>4
    <3> QED
      BY <3>1, <3>2
  <2>3. \A j \in 1..(n + 1) : missed(j) => \E i \in F : typ(i) = typ(j)
    <3>1. missed(n + 1) => \E j \in 1..n : typ(j) = u
      BY <1>6, <1>18
    <3> QED
      BY <1>1, <1>13, <1>14, <1>17, <3>1
  <2> QED
    BY <1>7, <1>9, <1>10, <1>11, <1>12, <2>1, <2>2, <2>3
<1>19. CASE n + 1 \in G
  <2>1. G = F \cup {n + 1}
    BY <1>2, <1>19
  <2>2. Cardinality(G) = Cardinality(F) + 1
    BY <1>3, <1>4, <2>1, FS_AddElement, SMTT(60)
  <2>3. rank2(n + 1) = Cardinality(G)
    <3>1. {j \in G : j <= n + 1} = G
      <4>1. \A j \in G : j <= n + 1
        BY <1>3, <2>1
      <4> QED
        BY <4>1
    <3> QED
      BY <1>17, <3>1
  <2>4. \A k \in 1..Len(un) : un[k] # u
    BY <1>3, <1>6, <1>12, <1>19
  <2>5. missed(n + 1)
    BY <1>6, <1>19
  <2>6. \A j \in 1..(n + 1) : missed(j) => \E i \in G : typ(i) = typ(j)
    BY <1>1, <1>13, <2>1
  <2>7. CASE Len(un) < max
    <3>1. un2 = Append(un, u)
      BY <1>8, <2>4, <2>5, <2>7
    <3>2. un2 \in Seq(Present(attrs)) /\ Len(un2) = Len(un) + 1 /\ un2[Len(un) + 1] = u
      BY <1>9, <1>17, <3>1
    <3>3. \A k \in 1..Len(un) : un2[k] = un[k]
      BY <1>9, <1>17, <3>1
    <3>4. Len(un) = Cardinality(F) /\ Cardinality(F) < max
      BY <1>4, <1>10, <2>7
    <3>5. Len(un2) = IF Cardinality(G) < max THEN Cardinality(G) ELSE max
      BY <1>4, <2>2, <3>2, <3>4
    <3>6. \A i \in G : rank2(i) <= max => un2[rank2(i)] = typ(i)
      <4> SUFFICES ASSUME NEW i \in G, rank2(i) <= max PROVE un2[rank2(i)] = typ(i)
        OBVIOUS
      <4>1. CASE i = n + 1
        BY <1>17, <2>2, <2>3, <3>2, <3>4, <4>1
      <4>2. CASE i \in F
        <5>1. rank2(i) = rank(i) /\ rank(i) \in 1..Len(un)
          BY <1>5, <1>7, <3>4, <4>2
        <5> QED
          BY <1>11, <3>3, <4>2, <5>1
      <4> QED
        BY <2>1, <4>1, <4>2
    <3>7. \A k \in 1..Len(un2) : \E i \in G : un2[k] = typ(i)
      <4> SUFFICES ASSUME NEW k \in 1..Len(un2) PROVE \E i \in G : un2[k] = typ(i)
        OBVIOUS
      <4>1. k \in 1..Len(un) \/ k = Len(un) + 1
        BY <1>9, <3>2
      <4> QED
        BY <1>12, <1>17, <2>1, <3>2, <3>3, <4>1
    <3> QED
      BY <2>6, <3>2, <3>5, <3>6, <3>7
  <2>8. CASE ~ Len(un) < max
    <3>1. un2 = un
      BY <1>8, <2>8
    <3>2. Len(un) = max /\ ~ Cardinality(F) < max
      BY <1>4, <1>10, <2>8
    <3>3. ~ Cardinality(G) < max /\ ~ rank2(n + 1) <= max
      BY <1>4, <2>2, <2>3, <3>2
    <3>4. \A i \in G : rank2(i) <= max => un2[rank2(i)] = typ(i)
      BY <1>7, <1>11, <2>1, <3>1, <3>3
    <3>5. \A k \in 1..Len(un2) : \E i \in G : un2[k] = typ(i)
      BY <1>12, <2>1, <3>1
    <3> QED
      BY <1>9, <2>6, <3>1, <3>2, <3>3, <3>4, <3>5
  <2> QED
    BY <2>7, <2>8
<1> QED
  BY <1>18, <1>19

\* The array is empty when nothing is missed, if there is room for a type at all.
LEMMA NothingListed ==
  ASSUME NEW parsers, NEW max \in Nat \ {0}, NEW attrs, NEW n \in Nat, NEW un,
         Listed(parsers, max, attrs, n, un)
  PROVE  un = <<>> <=> \A j \in 1..n : ~Missed(parsers, attrs, j)
<1> DEFINE F == Firsts(parsers, attrs, n)
<1>1. IsFiniteSet(F) /\ Cardinality(F) \in Nat
  BY FirstsFinite
<1>2. un \in Seq(Present(attrs)) /\ Len(un) = IF Cardinality(F) < max THEN Cardinality(F) ELSE max
  BY DEF Listed
<1>3. un = <<>> <=> Len(un) = 0
  BY <1>2
<1>4. Len(un) = 0 <=> Cardinality(F) = 0
  BY <1>1, <1>2
<1>5. Cardinality(F) = 0 <=> F = {}
  BY <1>1, FS_EmptySet
<1>6. \A j \in 1..n : Missed(parsers, attrs, j) => F # {}
  BY DEF Listed
<1>7. \A i \in F : i \in 1..n /\ Missed(parsers, attrs, i)
  BY DEF Firsts
<1> HIDE DEF F
<1> QED
  BY <1>3, <1>4, <1>5, <1>6, <1>7

-----------------------------------------------------------------------------
(* Checksums *)

\* The two halves of a sum, and what a fold makes of them.
Halves(x, q, r) == r < 65536 /\ x = 65536 * q + r /\ Fold(x) = q + r

\* y is x without a multiple of 65535.
Reduced(x, y) == \E k \in Nat : x = y + 65535 * k

\* Every sum has two halves.
LEMMA FoldMod ==
  ASSUME NEW x \in Nat
  PROVE  \E q \in Nat, r \in Nat : Halves(x, q, r)
<1>1. PICK q \in Nat, r \in Nat : q = x \div 65536 /\ r = x % 65536 /\ x = 65536 * q + r /\ r < 65536
  BY SMTT(60)
<1> QED
  BY <1>1, SMTT(60) DEF Fold, Halves

\* The loop ends after two folds, for every u32; what is left fits u16, is zero
\* only for zero, and differs from the sum by a multiple of 65535.
LEMMA FoldedMod ==
  ASSUME NEW x \in Nat, x < 65536 * 65536
  PROVE  /\ Folded(x) \in Nat /\ Folded(x) < 65536 /\ (x > 0 => Folded(x) > 0)
         /\ Reduced(x, Folded(x))
<1>1. CASE x <= 65535
  <2>1. Folded(x) = x
    BY <1>1, SMTT(60) DEF Folded
  <2>2. Reduced(x, Folded(x))
    <3>1. x = Folded(x) + 65535 * 0
      BY <2>1, SMTT(60)
    <3> QED
      BY <3>1, SMTT(60) DEF Reduced
  <2> QED
    BY <1>1, <2>1, <2>2, SMTT(60)
<1>2. CASE x > 65535
  <2>0. PICK q \in Nat, r \in Nat : Halves(x, q, r)
    BY FoldMod, SMTT(60)
  <2>1. r < 65536 /\ x = 65536 * q + r /\ Fold(x) = q + r
    BY <2>0, SMTT(60) DEF Halves
  <2>2. q > 0 /\ q < 65536
    BY <1>2, <2>1, SMTT(60)
  <2>3. CASE Fold(x) <= 65535
    <3>1. Folded(x) = q + r
      BY <1>2, <2>1, <2>3, SMTT(60) DEF Folded
    <3>2. Reduced(x, Folded(x))
      <4>1. x = Folded(x) + 65535 * q
        BY <2>1, <2>2, <3>1, SMTT(60)
      <4> QED
        BY <4>1, SMTT(60) DEF Reduced
    <3> QED
      BY <2>1, <2>2, <2>3, <3>1, <3>2, SMTT(60)
  <2>4. CASE Fold(x) > 65535
    <3>1. Fold(x) \in Nat
      BY <2>1, <2>2, SMTT(60)
    <3>11. PICK p \in Nat, s \in Nat : Halves(Fold(x), p, s)
      BY <3>1, FoldMod, SMTT(60)
    <3>2. s < 65536 /\ Fold(x) = 65536 * p + s /\ Fold(Fold(x)) = p + s
      BY <3>11, SMTT(60) DEF Halves
    <3>3. p = 1 /\ s < 65535
      BY <2>1, <2>2, <2>4, <3>2, SMTT(60)
    <3>4. Folded(x) = 1 + s
      BY <1>2, <2>4, <3>1, <3>2, <3>3, SMTT(60) DEF Folded
    <3>5. Reduced(x, Folded(x))
      <4>1. PICK k \in Nat : k = q + 1
        BY SMTT(60)
      <4>2. x = Folded(x) + 65535 * k
        BY <2>1, <2>2, <3>2, <3>3, <3>4, <4>1, SMTT(60)
      <4> QED
        BY <4>2, SMTT(60) DEF Reduced
    <3> QED
      BY <2>2, <3>2, <3>3, <3>4, <3>5, SMTT(60)
  <2> QED
    BY <2>1, <2>2, <2>3, <2>4, SMTT(60)
<1> QED
  BY <1>1, <1>2, SMTT(60)

\* Folded is what the loop of ip_checksum computes for every u32: a sum that fits
\* u16 is left as it is, every other one is what it is after one more round; a
\* round makes the sum smaller and keeps it a u32, so that the loop ends.
THEOREM FoldLoop ==
  ASSUME NEW x \in Nat, x < 65536 * 65536
  PROVE  /\ x <= 65535 => Folded(x) = x
         /\ x > 65535 => Folded(x) = Folded(Fold(x)) /\ Fold(x) \in Nat /\ Fold(x) < x
<1>1. CASE x <= 65535
  BY <1>1, SMTT(60) DEF Folded
<1>2. CASE x > 65535
  <2>1. PICK q \in Nat, r \in Nat : Halves(x, q, r)
    BY FoldMod, SMTT(60)
  <2>2. r < 65536 /\ x = 65536 * q + r /\ Fold(x) = q + r
    BY <2>1, SMTT(60) DEF Halves
  <2>3. q > 0 /\ q < 65536
    BY <1>2, <2>2, SMTT(60)
  <2>4. Fold(x) \in Nat /\ Fold(x) < x /\ Fold(x) < 65536 + 65536
    BY <2>2, <2>3, SMTT(60)
  <2>5. PICK p \in Nat, s \in Nat : Halves(Fold(x), p, s)
    BY <2>4, FoldMod, SMTT(60)
  <2>6. s < 65536 /\ Fold(x) = 65536 * p + s /\ Fold(Fold(x)) = p + s
    BY <2>5, SMTT(60) DEF Halves
  <2>7. Fold(x) > 65535 => p = 1 /\ s < 65535
    BY <2>2, <2>3, <2>6, SMTT(60)
  <2>8. Fold(x) > 65535 => Fold(Fold(x)) <= 65535
    BY <2>6, <2>7, SMTT(60)
  <2>9. Folded(x) = IF Fold(x) <= 65535 THEN Fold(x) ELSE Fold(Fold(x))
    BY <1>2, SMTT(60) DEF Folded
  <2>10. Folded(Fold(x)) = IF Fold(x) <= 65535 THEN Fold(x) ELSE Fold(Fold(x))
    BY <2>4, <2>8, SMTT(60) DEF Folded
  <2> QED
    BY <1>2, <2>4, <2>9, <2>10, SMTT(60)
<1> QED
  BY <1>1, <1>2, SMTT(60)

\* A packet that udp_checksum_fill filled in the checksum of verifies at its
\* receiver, for every sum of words that leaves a u32 room for the checksum.
THEOREM ChecksumVerifies ==
  ASSUME NEW x \in Nat, x > 0, x + 65535 < 65536 * 65536
  PROVE  udp_checksum(x) \in Nat /\ udp_checksum(x) < 65536 /\ Verifies(x, udp_checksum(x))
<1> DEFINE f == Folded(x)
           c == udp_checksum(x)
<1>1. x < 65536 * 65536
  BY SMTT(60)
<1>2. f \in Nat /\ f > 0 /\ f < 65536
  BY <1>1, FoldedMod, SMTT(60)
<1>21. Reduced(x, f)
  BY <1>1, FoldedMod, SMTT(60)
<1>3. PICK k \in Nat : x = f + 65535 * k
  BY <1>21, SMTT(60) DEF Reduced
<1>4. c = IF f = 65535 THEN 65535 ELSE 65535 - f
  BY <1>2, SMTT(60) DEF udp_checksum, ip_checksum
<1> HIDE DEF f, c
<1>5. c \in Nat /\ c > 0 /\ c < 65536
  BY <1>2, <1>4, SMTT(60)
<1>6. x + c = 65535 * (k + 1) \/ x + c = 65535 * (k + 2)
  BY <1>2, <1>3, <1>4, SMTT(60)
<1>7. x + c \in Nat /\ x + c < 65536 * 65536 /\ x + c > 0
  BY <1>5, SMTT(60)
<1>8. Folded(x + c) \in Nat /\ Folded(x + c) > 0 /\ Folded(x + c) < 65536
  BY <1>7, FoldedMod, SMTT(60)
<1>81. Reduced(x + c, Folded(x + c))
  BY <1>7, FoldedMod, SMTT(60)
<1>9. PICK n \in Nat : x + c = Folded(x + c) + 65535 * n
  BY <1>81, SMTT(60) DEF Reduced
<1>10. Folded(x + c) = 65535 * (k + 1 - n) \/ Folded(x + c) = 65535 * (k + 2 - n)
  BY <1>6, <1>8, <1>9, SMTT(60)
<1>11. Folded(x + c) = 65535
  BY <1>8, <1>10, SMTT(60)
<1> QED
  BY <1>5, <1>11, SMTT(60) DEF Verifies, c

-----------------------------------------------------------------------------
(* Values of attributes *)

\* A byte has 8 bits.
LEMMA FromByte ==
  ASSUME NEW x \in Byte
  PROVE  x \in Nat /\ x < 256
  BY SMTT(60) DEF Byte

\* A function on 1..n is a sequence.
LEMMA Sequence ==
  ASSUME NEW S, NEW n \in Nat, NEW f \in [1..n -> S]
  PROVE  f \in Seq(S) /\ Len(f) = n
  OBVIOUS

\* Octets are a sequence of bytes.
LEMMA OctetsSequence ==
  ASSUME NEW n \in Nat, NEW b \in Octets(n)
  PROVE  b \in Seq(Byte) /\ Len(b) = n
  BY Sequence, Zenon DEF Octets

\* q is the m elements of s, and then those of t.
Joined(q, s, t, m) ==
  /\ Len(q) = m + Len(t)
  /\ \A i \in 1..m : q[i] = s[i]
  /\ \A i \in 1..Len(t) : q[m + i] = t[i]

\* Two sequences are put together.
LEMMA Concat ==
  ASSUME NEW S, NEW s \in Seq(S), NEW t \in Seq(S), NEW m \in Nat, Len(s) = m
  PROVE  s \o t \in Seq(S) /\ Joined(s \o t, s, t, m)
  BY DEF Joined

\* The first sixteen bytes of what addresses are xored with.
LEMMA PrefixBytes ==
  ASSUME NEW txid \in Octets(12), NEW i \in 1..16
  PROVE  Prefix(txid)[i] \in Byte
<1>1. txid \in Seq(Byte) /\ Len(txid) = 12
  <2>1. 12 \in Nat
    BY Zenon
  <2> QED
    BY <2>1, OctetsSequence, Zenon
<1>2. 33 \in Byte /\ 18 \in Byte /\ 164 \in Byte /\ 66 \in Byte
  BY DEF Byte
<1>3. \A j \in 1..12 : txid[j] \in Byte
  BY Zenon DEF Octets
<1> DEFINE cookie == <<33, 18, 164, 66>>
<1>31. cookie \in Seq(Byte) /\ Len(cookie) = 4 /\ \A j \in 1..4 : cookie[j] \in Byte
  BY <1>2
<1>32. Prefix(txid) = cookie \o txid
  BY Zenon DEF Prefix
<1> HIDE DEF Byte, cookie
<1>33. /\ \A j \in 1..4 : (cookie \o txid)[j] = cookie[j]
       /\ \A j \in 1..12 : (cookie \o txid)[4 + j] = txid[j]
  <2>1. 4 \in Nat
    BY Zenon
  <2>2. Joined(cookie \o txid, cookie, txid, 4)
    BY <1>1, <1>31, <2>1, Concat, Zenon
  <2> QED
    BY <1>1, <2>2, Zenon DEF Joined
<1>4. CASE i <= 4
  <2>1. i \in 1..4
    BY <1>4
  <2> QED
    BY <1>31, <1>32, <1>33, <2>1, Zenon
<1>5. CASE i > 4
  <2>1. PICK j \in 1..12 : i = 4 + j
    BY <1>5
  <2> QED
    BY <1>3, <1>32, <1>33, <2>1, Zenon
<1> QED
  BY <1>4, <1>5

\* What is xored is a sequence of as many bytes.
LEMMA XorBytes ==
  ASSUME NEW txid \in Octets(12), NEW n \in 1..16, NEW b \in Octets(n)
  PROVE  /\ xor_bytes(txid, b) = [i \in 1..n |-> BitXor(b[i], Prefix(txid)[i])]
         /\ xor_bytes(txid, b) \in Octets(n) /\ xor_bytes(txid, b) \in Seq(Byte) /\ Len(xor_bytes(txid, b)) = n
<1>1. Len(b) = n
  BY Sequence DEF Octets
<1>2. xor_bytes(txid, b) = [i \in 1..n |-> BitXor(b[i], Prefix(txid)[i])]
  BY <1>1, Zenon DEF xor_bytes
<1>3. \A i \in 1..n : b[i] \in Byte /\ Prefix(txid)[i] \in Byte
  <2>1. \A i \in 1..n : b[i] \in Byte /\ i \in 1..16
    BY SMTT(60) DEF Octets
  <2> QED
    BY <2>1, PrefixBytes, Zenon
<1>4. \A i \in 1..n : BitXor(b[i], Prefix(txid)[i]) \in Byte
  BY <1>3, XorAssumption, Zenon
<1>5. xor_bytes(txid, b) \in Octets(n)
  BY <1>2, <1>4, Zenon DEF Octets
<1> QED
  BY <1>2, <1>5, Sequence DEF Octets

\* What is xored twice is what it was.
LEMMA XorTwice ==
  ASSUME NEW txid \in Octets(12), NEW n \in 1..16, NEW b \in Octets(n)
  PROVE  xor_bytes(txid, xor_bytes(txid, b)) = b
<1> DEFINE x == xor_bytes(txid, b)
<1>1. x = [i \in 1..n |-> BitXor(b[i], Prefix(txid)[i])] /\ x \in Octets(n)
  BY XorBytes, Zenon
<1>2. xor_bytes(txid, x) = [i \in 1..n |-> BitXor(x[i], Prefix(txid)[i])]
  BY <1>1, XorBytes, Zenon
<1>3. \A i \in 1..n : b[i] \in Byte /\ Prefix(txid)[i] \in Byte
  <2>1. \A i \in 1..n : b[i] \in Byte /\ i \in 1..16
    BY SMTT(60) DEF Octets
  <2> QED
    BY <2>1, PrefixBytes, Zenon
<1>4. \A i \in 1..n : BitXor(x[i], Prefix(txid)[i]) = b[i]
  BY <1>1, <1>3, XorAssumption, Zenon
<1>5. b = [i \in 1..n |-> b[i]]
  BY Zenon DEF Octets
<1> QED
  BY <1>2, <1>4, <1>5, Zenon

\* The same for addresses of n bytes, of family f.
LEMMA FamilyRoundTrip ==
  ASSUME NEW txid \in Octets(12), NEW n \in {4, 16}, NEW f, f = IF n = 4 THEN 1 ELSE 2,
         NEW ip \in Octets(n), NEW port \in Octets(2)
  PROVE  SocketAddr_decode(txid, SocketAddr_encode(txid, [ip |-> ip, port |-> port])) = [ip |-> ip, port |-> port]
<1> DEFINE x == xor_bytes(txid, ip)
           y == xor_bytes(txid, port)
           v == SocketAddr_encode(txid, [ip |-> ip, port |-> port])
           part(l, m) == [i \in 1..(m - l + 1) |-> v[l + i - 1]]
<1>1. x \in Octets(n) /\ x \in Seq(Byte) /\ Len(x) = n
  <2>1. n \in 1..16
    OBVIOUS
  <2> QED
    BY <2>1, XorBytes, Zenon
<1>2. y \in Octets(2) /\ y \in Seq(Byte) /\ Len(y) = 2
  BY XorBytes, SMTT(60)
<1>3. Len(ip) = n
  BY Sequence DEF Octets
<1>4. v = <<0, f>> \o y \o x
  <2>1. [ip |-> ip, port |-> port].ip = ip /\ [ip |-> ip, port |-> port].port = port
    BY Zenon
  <2>2. v = <<0, IF Len(ip) = 4 THEN 1 ELSE 2>> \o y \o x
    BY <2>1, Zenon DEF SocketAddr_encode
  <2>3. (IF Len(ip) = 4 THEN 1 ELSE 2) = f
    BY <1>3
  <2> QED
    BY <2>2, <2>3, Zenon
<1>41. xor_bytes(txid, x) = ip /\ xor_bytes(txid, y) = port
  <2>1. n \in 1..16 /\ 2 \in 1..16
    OBVIOUS
  <2> QED
    BY <2>1, XorTwice, Zenon
<1>42. SocketAddr_decode(txid, v) =
         CASE Len(v) >= 8 /\ v[2] = 1 -> [ip |-> xor_bytes(txid, part(5, 4 + 4)), port |-> xor_bytes(txid, part(3, 4))]
           [] Len(v) >= 20 /\ v[2] = 2 -> [ip |-> xor_bytes(txid, part(5, 4 + 16)), port |-> xor_bytes(txid, part(3, 4))]
           [] OTHER -> [error |-> "SocketAddrError"]
  BY Zenon DEF SocketAddr_decode
<1> HIDE DEF v, x, y
<1> DEFINE h == <<0, f>>
           w == h \o y
<1>43. h \in Seq(Byte) /\ Len(h) = 2 /\ h[2] = f
  BY DEF Byte
<1> HIDE DEF h
<1>44. w \in Seq(Byte) /\ Len(w) = 4 /\ w[2] = h[2] /\ \A i \in 1..2 : w[2 + i] = y[i]
  <2>1. /\ w \in Seq(Byte) /\ Len(w) = 2 + Len(y)
        /\ \A i \in 1..2 : w[i] = h[i]
        /\ \A i \in 1..Len(y) : w[2 + i] = y[i]
    <3>1. 2 \in Nat
      BY Zenon
    <3>2. w \in Seq(Byte) /\ Joined(w, h, y, 2)
      BY <1>2, <1>43, <3>1, Concat, Zenon
    <3> HIDE DEF w
    <3> QED
      BY <3>2, Zenon DEF Joined
  <2> QED
    BY <1>2, <2>1
<1>45. v = w \o x
  BY <1>4, Zenon DEF h
<1> HIDE DEF w
<1>46. /\ Len(v) = 4 + Len(x)
       /\ \A i \in 1..4 : v[i] = w[i]
       /\ \A i \in 1..Len(x) : v[4 + i] = x[i]
  <2>1. 4 \in Nat
    BY Zenon
  <2>2. Joined(w \o x, w, x, 4)
    BY <1>1, <1>44, <2>1, Concat, Zenon
  <2>3. Joined(v, w, x, 4)
    BY <1>45, <2>2, Zenon
  <2> QED
    BY <2>3, Zenon DEF Joined
<1>5. Len(v) = 4 + n /\ v[2] = f
  BY <1>1, <1>43, <1>44, <1>46
<1>6. \A i \in 1..n : v[4 + i] = x[i]
  BY <1>1, <1>46, Zenon
<1>7. \A i \in 1..2 : v[2 + i] = y[i]
  BY <1>44, <1>46
<1>8. part(5, 4 + n) = x
  <2>1. part(5, 4 + n) = [i \in 1..n |-> v[5 + i - 1]]
    OBVIOUS
  <2>2. \A i \in 1..n : v[5 + i - 1] = x[i]
    BY <1>6
  <2>3. x = [i \in 1..n |-> x[i]]
    BY <1>1, Zenon DEF Octets
  <2> QED
    BY <2>1, <2>2, <2>3, Zenon
<1>9. part(3, 4) = y
  <2>1. part(3, 4) = [i \in 1..2 |-> v[3 + i - 1]]
    OBVIOUS
  <2>2. \A i \in 1..2 : v[3 + i - 1] = y[i]
    BY <1>7
  <2>3. y = [i \in 1..2 |-> y[i]]
    BY <1>2, Zenon DEF Octets
  <2> QED
    BY <2>1, <2>2, <2>3, Zenon
<1> HIDE DEF part
<1>10. SocketAddr_decode(txid, v) = [ip |-> xor_bytes(txid, part(5, 4 + n)), port |-> xor_bytes(txid, part(3, 4))]
  BY <1>5, <1>42
<1> QED
  BY <1>8, <1>9, <1>10, <1>41, Zenon DEF v

\* sockaddr_attr!(_, true): every socket address, IPv4 or IPv6, is read as it was
\* written, by whoever has the same transaction id.
THEOREM AddressRoundTrip ==
  ASSUME NEW txid \in Octets(12), NEW a \in SocketAddr
  PROVE  SocketAddr_decode(txid, SocketAddr_encode(txid, a)) = a
<1>1. a = [ip |-> a.ip, port |-> a.port] /\ a.ip \in Octets(4) \cup Octets(16) /\ a.port \in Octets(2)
  BY DEF SocketAddr
<1>2. PICK n \in {4, 16} : a.ip \in Octets(n)
  BY <1>1
<1> DEFINE f == IF n = 4 THEN 1 ELSE 2
<1>3. SocketAddr_decode(txid, SocketAddr_encode(txid, [ip |-> a.ip, port |-> a.port])) = [ip |-> a.ip, port |-> a.port]
  BY <1>1, <1>2, FamilyRoundTrip, Zenon
<1> QED
  BY <1>1, <1>3, Zenon

\* ERROR_CODE and ADDRESS_ERROR_CODE: every code that passes the assertion of
\* encode is read as it was written, and with its address family.
THEOREM ErrorRoundTrip ==
  ASSUME NEW code \in 0..799
  PROVE  /\ ERROR_CODE_decode(ERROR_CODE_encode(code)) = code
         /\ \A family \in Byte :
              ADDRESS_ERROR_CODE_decode(ADDRESS_ERROR_CODE_encode(family, code)) = [family |-> family, code |-> code]
<1> DEFINE h == code \div 100
           r == code % 100
<1>1. h \in 0..7 /\ r \in 0..99 /\ code = 100 * h + r
  BY SMTT(60)
<1>2. h % 8 = h /\ r % 100 = r
  BY <1>1, SMTT(60)
<1>3. ERROR_CODE_encode(code) = <<0, 0, h, r>>
  BY Zenon DEF ERROR_CODE_encode
<1> HIDE DEF h, r
<1>4. \A family : ERROR_CODE_decode(<<family, 0, h, r>>) = code
  BY <1>1, <1>2 DEF ERROR_CODE_decode
<1>5. ASSUME NEW family \in Byte
      PROVE  ADDRESS_ERROR_CODE_decode(ADDRESS_ERROR_CODE_encode(family, code)) = [family |-> family, code |-> code]
  <2>1. ADDRESS_ERROR_CODE_encode(family, code) = [<<0, 0, h, r>> EXCEPT ![1] = family]
    BY <1>3, Zenon DEF ADDRESS_ERROR_CODE_encode
  <2>2. [<<0, 0, h, r>> EXCEPT ![1] = family] = <<family, 0, h, r>>
    BY <1>1
  <2>3. Len(<<family, 0, h, r>>) = 4 /\ <<family, 0, h, r>>[1] = family
    OBVIOUS
  <2>4. ADDRESS_ERROR_CODE_decode(<<family, 0, h, r>>) = [family |-> family, code |-> ERROR_CODE_decode(<<family, 0, h, r>>)]
    BY <2>3 DEF ADDRESS_ERROR_CODE_decode
  <2> QED
    BY <1>4, <2>1, <2>2, <2>4, Zenon
<1> QED
  BY <1>3, <1>4, <1>5, Zenon

\* What three bits and a number below 100 give.
LEMMA CodeBound ==
  ASSUME NEW a \in Nat, NEW b \in Nat
  PROVE  100 * (a % 8) + (b % 100) \in 0..799
<1>1. a % 8 \in 0..7 /\ b % 100 \in 0..99
  OBVIOUS
<1> QED
  BY <1>1

\* Whatever bytes a value has, the reader of ERROR_CODE gives a code that may be
\* encoded again, or an error; and the reader of addresses an address or an error.
THEOREM Decoded ==
  ASSUME NEW txid \in Octets(12), NEW value \in Seq(Byte)
  PROVE  /\ ERROR_CODE_decode(value) \in (0..799) \cup {UnexpectedLength}
         /\ SocketAddr_decode(txid, value) \in SocketAddr \cup {[error |-> "SocketAddrError"]}
<1> DEFINE part(l, m) == [i \in 1..(m - l + 1) |-> value[l + i - 1]]
           addr(n) == [ip |-> xor_bytes(txid, part(5, 4 + n)), port |-> xor_bytes(txid, part(3, 4))]
<1>1. \A i \in 1..Len(value) : value[i] \in Byte
  OBVIOUS
<1>2. ERROR_CODE_decode(value) \in (0..799) \cup {UnexpectedLength}
  <2>1. CASE Len(value) < 4
    BY <2>1, Zenon DEF ERROR_CODE_decode
  <2>2. CASE ~ Len(value) < 4
    <3>1. 3 \in 1..Len(value) /\ 4 \in 1..Len(value)
      BY <2>2
    <3>2. value[3] \in Nat /\ value[4] \in Nat
      BY <1>1, <3>1, FromByte, Zenon
    <3> DEFINE code == 100 * (value[3] % 8) + (value[4] % 100)
               codes == 0..799
    <3>3. code \in codes
      BY <3>2, CodeBound, ZenonT(60)
    <3>4. ERROR_CODE_decode(value) = code
      BY <2>2 DEF ERROR_CODE_decode
    <3> HIDE DEF code
    <3>5. ERROR_CODE_decode(value) \in codes
      BY <3>3, <3>4, Zenon
    <3> QED
      BY <3>5, Zenon
  <2> QED
    BY <2>1, <2>2, Zenon
<1>3. ASSUME NEW n \in {4, 16}, Len(value) >= 4 + n PROVE addr(n) \in SocketAddr
  <2>1. \A i \in 1..n : value[5 + i - 1] \in Byte
    BY <1>1, <1>3
  <2>2. \A i \in 1..2 : value[3 + i - 1] \in Byte
    BY <1>1, <1>3
  <2>3. part(5, 4 + n) = [i \in 1..n |-> value[5 + i - 1]] /\ part(3, 4) = [i \in 1..2 |-> value[3 + i - 1]]
    OBVIOUS
  <2> HIDE DEF part
  <2>4. part(5, 4 + n) \in Octets(n) /\ part(3, 4) \in Octets(2)
    <3>1. [i \in 1..n |-> value[5 + i - 1]] \in [1..n -> Byte]
      BY <2>1, Zenon
    <3>2. [i \in 1..2 |-> value[3 + i - 1]] \in [1..2 -> Byte]
      BY <2>2, Zenon
    <3> QED
      BY <2>3, <3>1, <3>2, Zenon DEF Octets
  <2>5. n \in 1..16 /\ 2 \in 1..16
    OBVIOUS
  <2>6. xor_bytes(txid, part(5, 4 + n)) \in Octets(n) /\ xor_bytes(txid, part(3, 4)) \in Octets(2)
    <3>1. \A b \in Octets(n) : xor_bytes(txid, b) \in Octets(n)
      BY <2>5, XorBytes, Zenon
    <3>2. \A b \in Octets(2) : xor_bytes(txid, b) \in Octets(2)
      BY <2>5, XorBytes, Zenon
    <3> QED
      BY <2>4, <3>1, <3>2, Zenon
  <2>7. Octets(n) \subseteq Octets(4) \cup Octets(16)
    BY Zenon
  <2> QED
    BY <2>6, <2>7, Zenon DEF SocketAddr
<1>4. SocketAddr_decode(txid, value) =
        CASE Len(value) >= 8 /\ value[2] = 1 -> addr(4)
          [] Len(value) >= 20 /\ value[2] = 2 -> addr(16)
          [] OTHER -> [error |-> "SocketAddrError"]
  BY Zenon DEF SocketAddr_decode
<1>5. (Len(value) >= 8 => addr(4) \in SocketAddr) /\ (Len(value) >= 20 => addr(16) \in SocketAddr)
  <2>1. 4 + 4 = 8 /\ 4 + 16 = 20
    OBVIOUS
  <2> HIDE DEF addr
  <2> QED
    BY <1>3, <2>1
<1> HIDE DEF addr
<1>6. SocketAddr_decode(txid, value) \in SocketAddr \cup {[error |-> "SocketAddrError"]}
  BY <1>4, <1>5
<1> QED
  BY <1>2, <1>6, Zenon

\* A word has 16 bits.
LEMMA WordBound ==
  ASSUME NEW b, NEW i \in Nat, b[i] \in Byte, b[i + 1] \in Byte
  PROVE  Word(b, i) \in Nat /\ Word(b, i) < 65536
<1>1. b[i] \in Nat /\ b[i] < 256 /\ b[i + 1] \in Nat /\ b[i + 1] < 256
  BY FromByte
<1> QED
  BY <1>1, SMTT(60) DEF Word

\* The two bytes of a number of 16 bits.
LEMMA Bytes16 ==
  ASSUME NEW n \in Nat, n < 65536
  PROVE  /\ n \div 256 \in Byte /\ n % 256 \in Byte
         /\ be16(n) \in Seq(Byte) /\ Len(be16(n)) = 2
         /\ be16(n)[1] = n \div 256 /\ be16(n)[2] = n % 256 /\ Word(be16(n), 1) = n
<1> DEFINE a == n \div 256
           b == n % 256
<1>1. a \in 0..255 /\ b \in 0..255 /\ 256 * a + b = n
  BY SMTT(60)
<1>2. be16(n) = <<a, b>>
  BY DEF be16
<1> HIDE DEF a, b
<1>3. a \in Byte /\ b \in Byte
  BY <1>1 DEF Byte
<1>4. <<a, b>> \in Seq(Byte) /\ Len(<<a, b>>) = 2 /\ <<a, b>>[1] = a /\ <<a, b>>[2] = b
  BY <1>3
<1>5. Word(<<a, b>>, 1) = n
  BY <1>1 DEF Word
<1>6. n \div 256 = a /\ n % 256 = b
  BY DEF a, b
<1> QED
  BY <1>2, <1>3, <1>4, <1>5, <1>6

\* A word of a sequence that is put together of two.
LEMMA JoinedWord ==
  ASSUME NEW s \in Seq(Byte), NEW t \in Seq(Byte), NEW m \in Nat, Len(s) = m
  PROVE  /\ s \o t \in Seq(Byte) /\ Len(s \o t) = m + Len(t)
         /\ \A i \in 1..(m - 1) : Word(s \o t, i) = Word(s, i)
         /\ \A i \in 1..(Len(t) - 1) : Word(s \o t, m + i) = Word(t, i)
<1>1. s \o t \in Seq(Byte) /\ Joined(s \o t, s, t, m)
  BY Concat, Zenon
<1>2. Len(t) \in Nat
  OBVIOUS
<1> DEFINE q == s \o t
<1> HIDE DEF q
<1>3. /\ Len(q) = m + Len(t)
      /\ \A i \in 1..m : q[i] = s[i]
      /\ \A i \in 1..Len(t) : q[m + i] = t[i]
  BY <1>1, Zenon DEF Joined, q
<1>4. \A i \in 1..(m - 1) : Word(q, i) = Word(s, i)
  <2> SUFFICES ASSUME NEW i \in 1..(m - 1) PROVE Word(q, i) = Word(s, i)
    OBVIOUS
  <2>1. i \in 1..m /\ i + 1 \in 1..m
    OBVIOUS
  <2> QED
    BY <1>3, <2>1, Zenon DEF Word
<1>5. \A i \in 1..(Len(t) - 1) : Word(q, m + i) = Word(t, i)
  <2> SUFFICES ASSUME NEW i \in 1..(Len(t) - 1) PROVE Word(q, m + i) = Word(t, i)
    OBVIOUS
  <2>1. i \in 1..Len(t) /\ i + 1 \in 1..Len(t) /\ (m + i) + 1 = m + (i + 1)
    BY <1>2
  <2>2. q[m + i] = t[i] /\ q[(m + i) + 1] = t[i + 1]
    <3>1. q[m + i] = t[i] /\ q[m + (i + 1)] = t[i + 1]
      BY <1>3, <2>1, Zenon
    <3> QED
      BY <2>1, <3>1
  <2>3. Word(q, m + i) = 256 * q[m + i] + q[(m + i) + 1] /\ Word(t, i) = 256 * t[i] + t[i + 1]
    BY Zenon DEF Word
  <2> QED
    BY <2>2, <2>3
<1> QED
  BY <1>1, <1>3, <1>4, <1>5, Zenon DEF q

\* A word is added to a sequence.
LEMMA AddWord ==
  ASSUME NEW s \in Seq(Byte), NEW t \in Seq(Byte), NEW m \in Nat, Len(s) = m, Len(t) = 2
  PROVE  /\ s \o t \in Seq(Byte) /\ Len(s \o t) = m + 2
         /\ \A i \in 1..(m - 1) : Word(s \o t, i) = Word(s, i)
         /\ Word(s \o t, m + 1) = Word(t, 1)
<1> DEFINE q == s \o t
<1>1. /\ q \in Seq(Byte) /\ Len(q) = m + Len(t)
      /\ \A i \in 1..(m - 1) : Word(q, i) = Word(s, i)
      /\ \A i \in 1..(Len(t) - 1) : Word(q, m + i) = Word(t, i)
  BY JoinedWord, Zenon
<1> HIDE DEF q
<1>2. 1 \in 1..(Len(t) - 1)
  OBVIOUS
<1>3. Word(q, m + 1) = Word(t, 1)
  BY <1>1, <1>2, Zenon
<1> QED
  BY <1>1, <1>3, Zenon DEF q

\* The words of two words.
LEMMA TwoWords ==
  ASSUME NEW s \in Seq(Byte), NEW t \in Seq(Byte), Len(s) = 2, Len(t) = 2
  PROVE  /\ s \o t \in Seq(Byte) /\ Len(s \o t) = 4
         /\ Word(s \o t, 1) = Word(s, 1) /\ Word(s \o t, 3) = Word(t, 1)
<1> DEFINE q == s \o t
<1>1. 2 \in Nat
  OBVIOUS
<1>2. /\ q \in Seq(Byte) /\ Len(q) = 2 + 2
      /\ \A i \in 1..(2 - 1) : Word(q, i) = Word(s, i)
      /\ Word(q, 2 + 1) = Word(t, 1)
  BY <1>1, AddWord, Zenon
<1> HIDE DEF q
<1>3. Len(q) = 4 /\ Word(q, 1) = Word(s, 1) /\ Word(q, 3) = Word(t, 1)
  BY <1>2
<1> QED
  BY <1>2, <1>3, Zenon DEF q

\* The words of two words and two more.
LEMMA FourWords ==
  ASSUME NEW s \in Seq(Byte), NEW t \in Seq(Byte), NEW u \in Seq(Byte), Len(s) = 4, Len(t) = 2, Len(u) = 2
  PROVE  LET q == s \o t \o u
         IN  /\ q \in Seq(Byte) /\ Len(q) = 8
             /\ Word(q, 1) = Word(s, 1) /\ Word(q, 3) = Word(s, 3)
             /\ Word(q, 5) = Word(t, 1) /\ Word(q, 7) = Word(u, 1)
<1> DEFINE p == s \o t
           q == p \o u
<1>1. 4 \in Nat /\ 6 \in Nat
  OBVIOUS
<1>2. /\ p \in Seq(Byte) /\ Len(p) = 4 + 2
      /\ \A i \in 1..(4 - 1) : Word(p, i) = Word(s, i)
      /\ Word(p, 4 + 1) = Word(t, 1)
  BY <1>1, AddWord, ZenonT(60)
<1> HIDE DEF p
<1>3. Len(p) = 6 /\ Word(p, 1) = Word(s, 1) /\ Word(p, 3) = Word(s, 3) /\ Word(p, 5) = Word(t, 1)
  BY <1>2
<1>4. /\ q \in Seq(Byte) /\ Len(q) = 6 + 2
      /\ \A i \in 1..(6 - 1) : Word(q, i) = Word(p, i)
      /\ Word(q, 6 + 1) = Word(u, 1)
  BY <1>1, <1>2, <1>3, AddWord, ZenonT(60)
<1> HIDE DEF q
<1>5. Len(q) = 8 /\ Word(q, 1) = Word(p, 1) /\ Word(q, 3) = Word(p, 3) /\ Word(q, 5) = Word(p, 5) /\ Word(q, 7) = Word(u, 1)
  BY <1>4
<1> QED
  BY <1>3, <1>4, <1>5, Zenon DEF p, q

\* The four bytes of a number of 32 bits.
LEMMA Bytes32 ==
  ASSUME NEW n \in Nat, n < 65536 * 65536
  PROVE  /\ be32(n) \in Seq(Byte) /\ Len(be32(n)) = 4
         /\ 65536 * Word(be32(n), 1) + Word(be32(n), 3) = n
<1> DEFINE a == n \div 65536
           b == n % 65536
           w == be32(n)
<1>1. a \in Nat /\ a < 65536 /\ b \in Nat /\ b < 65536 /\ 65536 * a + b = n
  BY SMTT(60)
<1>2. w = be16(a) \o be16(b)
  BY DEF be32
<1> HIDE DEF a, b, w
<1>3. be16(a) \in Seq(Byte) /\ Len(be16(a)) = 2 /\ Word(be16(a), 1) = a
  BY <1>1, Bytes16
<1>4. be16(b) \in Seq(Byte) /\ Len(be16(b)) = 2 /\ Word(be16(b), 1) = b
  BY <1>1, Bytes16
<1>5. w \in Seq(Byte) /\ Len(w) = 4 /\ Word(w, 1) = a /\ Word(w, 3) = b
  BY <1>2, <1>3, <1>4, TwoWords
<1>6. 65536 * Word(w, 1) + Word(w, 3) = n
  BY <1>1, <1>5
<1> QED
  BY <1>5, <1>6 DEF w

\* The eight bytes of a number of 64 bits.
LEMMA Bytes64 ==
  ASSUME NEW n \in Nat, (n \div 65536) \div 65536 < 65536 * 65536
  PROVE  /\ be64(n) \in Seq(Byte) /\ Len(be64(n)) = 8
         /\ 65536 * (65536 * (65536 * Word(be64(n), 1) + Word(be64(n), 3)) + Word(be64(n), 5)) + Word(be64(n), 7) = n
<1> DEFINE h == n \div 65536
           d == n % 65536
           u == h \div 65536
           c == h % 65536
           w == be64(n)
<1>1. h \in Nat /\ d \in Nat /\ d < 65536 /\ 65536 * h + d = n
  BY SMTT(60)
<1>2. u < 65536 * 65536
  OBVIOUS
<1>3. w = be32(u) \o be16(c) \o be16(d)
  BY DEF be64
<1> HIDE DEF h, d, w
<1>4. u \in Nat /\ c \in Nat /\ c < 65536 /\ 65536 * u + c = h
  BY <1>1, SMTT(60)
<1> HIDE DEF u, c
<1>6. be32(u) \in Seq(Byte) /\ Len(be32(u)) = 4 /\ 65536 * Word(be32(u), 1) + Word(be32(u), 3) = u
  BY <1>2, <1>4, Bytes32
<1>7. be16(c) \in Seq(Byte) /\ Len(be16(c)) = 2 /\ Word(be16(c), 1) = c
  BY <1>4, Bytes16
<1>8. be16(d) \in Seq(Byte) /\ Len(be16(d)) = 2 /\ Word(be16(d), 1) = d
  BY <1>1, Bytes16
<1>9. /\ w \in Seq(Byte) /\ Len(w) = 8 /\ Word(w, 1) = Word(be32(u), 1) /\ Word(w, 3) = Word(be32(u), 3)
      /\ Word(w, 5) = c /\ Word(w, 7) = d
  BY <1>3, <1>6, <1>7, <1>8, FourWords
<1>10. 65536 * Word(w, 1) + Word(w, 3) = u
  BY <1>6, <1>9
<1>11. 65536 * (65536 * (65536 * Word(w, 1) + Word(w, 3)) + Word(w, 5)) + Word(w, 7) = n
  BY <1>1, <1>4, <1>9, <1>10
<1> QED
  BY <1>9, <1>11 DEF w

\* numeric_attr! (LIFETIME, PRIORITY and the tie breakers of ICE) and
\* CHANNEL_NUMBER: every number that its type has is read as it was written.
THEOREM NumbersRoundTrip ==
  ASSUME NEW n \in Nat
  PROVE  /\ n < 65536 => CHANNEL_NUMBER_decode(CHANNEL_NUMBER_encode(n)) = n
         /\ n < 65536 * 65536 => u32_decode(be32(n)) = n
         /\ (n \div 65536) \div 65536 < 65536 * 65536 => u64_decode(be64(n)) = n
<1>1. ASSUME n < 65536 PROVE CHANNEL_NUMBER_decode(CHANNEL_NUMBER_encode(n)) = n
  <2> DEFINE z == <<0, 0>>
             w == CHANNEL_NUMBER_encode(n)
  <2>1. be16(n) \in Seq(Byte) /\ Len(be16(n)) = 2 /\ Word(be16(n), 1) = n
    BY <1>1, Bytes16
  <2>2. z \in Seq(Byte) /\ Len(z) = 2
    BY DEF Byte
  <2>3. w = be16(n) \o z
    BY DEF CHANNEL_NUMBER_encode
  <2> HIDE DEF z, w
  <2>4. Len(w) = 4 /\ Word(w, 1) = n
    BY <2>1, <2>2, <2>3, TwoWords
  <2>5. CHANNEL_NUMBER_decode(w) = n
    BY <2>4 DEF CHANNEL_NUMBER_decode
  <2> QED
    BY <2>5 DEF w
<1>2. ASSUME n < 65536 * 65536 PROVE u32_decode(be32(n)) = n
  BY <1>2, Bytes32 DEF u32_decode
<1>3. ASSUME (n \div 65536) \div 65536 < 65536 * 65536 PROVE u64_decode(be64(n)) = n
  BY <1>3, Bytes64 DEF u64_decode
<1> QED
  BY <1>1, <1>2, <1>3

\* EVEN_PORT and weird_byte_attr!: flags and bytes are read as they were written.
LEMMA BytesRoundTrip ==
  /\ \A even \in BOOLEAN : EVEN_PORT_decode(EVEN_PORT_encode(even)) = even
  /\ \A b \in Byte : byte_decode(byte_encode(b)) = b
<1>1. EVEN_PORT_decode(<<128>>) = TRUE /\ EVEN_PORT_decode(<<0>>) = FALSE
  BY DEF EVEN_PORT_decode
<1>2. EVEN_PORT_encode(TRUE) = <<128>> /\ EVEN_PORT_encode(FALSE) = <<0>>
  BY DEF EVEN_PORT_encode
<1>3. \A even \in BOOLEAN : EVEN_PORT_decode(EVEN_PORT_encode(even)) = even
  BY <1>1, <1>2, Zenon
<1>4. \A b \in Byte : byte_decode(byte_encode(b)) = b
  BY DEF byte_decode, byte_encode
<1> QED
  BY <1>3, <1>4, Zenon

\* The types of a packed array are at its first Count places.
LEMMA CountedTypes ==
  ASSUME NEW n \in Nat, NEW types \in [1..n -> Nat], Packed(types)
  PROVE  /\ Count(types) \in 0..n
         /\ \A i \in 1..n : types[i] # 0 <=> i <= Count(types)
<1> DEFINE S == {i \in 1..n : types[i] # 0}
           k == Cardinality(S)
<1>1. DOMAIN types = 1..n /\ Count(types) = k
  BY DEF Count
<1>2. \A i, j \in 1..n : i < j /\ types[i] = 0 => types[j] = 0
  BY <1>1, Zenon DEF Packed
<1>3. \A a \in Nat : IsFiniteSet(1..a) /\ Cardinality(1..a) = a
  <2> SUFFICES ASSUME NEW a \in Nat PROVE IsFiniteSet(1..a) /\ Cardinality(1..a) = a
    OBVIOUS
  <2>1. 1 \in Int /\ a \in Int
    OBVIOUS
  <2>2. IsFiniteSet(1..a) /\ Cardinality(1..a) = IF 1 > a THEN 0 ELSE a - 1 + 1
    BY <2>1, FS_Interval, Zenon
  <2> QED
    BY <2>2
<1>4. S \in SUBSET (1..n) /\ \A i \in S : i \in 1..n /\ types[i] # 0
  OBVIOUS
<1>5. \A i \in 1..n : i \notin S => types[i] = 0
  OBVIOUS
<1> HIDE DEF S
<1>6. IsFiniteSet(S) /\ k <= n
  <2>1. IsFiniteSet(1..n) /\ Cardinality(1..n) = n
    BY <1>3, Zenon
  <2>2. IsFiniteSet(S) /\ k <= Cardinality(1..n)
    BY <1>4, <2>1, FS_Subset, Zenon
  <2> QED
    BY <2>1, <2>2
<1>7. k \in 0..n
  BY <1>6, FS_CardinalityType
<1>8. ASSUME NEW i \in 1..n, i \in S PROVE i <= k
  <2>1. 1..i \in SUBSET S
    BY <1>2, <1>4, <1>5, <1>8
  <2>2. Cardinality(1..i) <= k
    BY <1>6, <2>1, FS_Subset, Zenon
  <2> QED
    BY <1>3, <2>2
<1>9. ASSUME NEW i \in 1..n, i \notin S PROVE ~ i <= k
  <2>1. i - 1 \in Nat
    OBVIOUS
  <2>2. S \in SUBSET (1..(i - 1))
    BY <1>2, <1>4, <1>5, <1>9
  <2>3. IsFiniteSet(1..(i - 1)) /\ Cardinality(1..(i - 1)) = i - 1
    BY <1>3, <2>1, Zenon
  <2>4. k <= Cardinality(1..(i - 1))
    BY <2>2, <2>3, FS_Subset, Zenon
  <2> QED
    BY <1>7, <2>3, <2>4
<1>10. \A i \in 1..n : types[i] # 0 <=> i \in S
  BY <1>4, <1>5, Zenon
<1> QED
  BY <1>1, <1>7, <1>8, <1>9, <1>10, Zenon

\* UNKNOWN_ATTRIBUTES: a packed array is read as it was written, whatever the
\* buffer had been used for; none of that is left in the value.
THEOREM UnknownRoundTrip ==
  ASSUME NEW n \in Nat, NEW types \in [1..n -> Nat], \A i \in 1..n : types[i] < 65536, Packed(types), NEW buffer
  PROVE  UNKNOWN_ATTRIBUTES_decode(n, UNKNOWN_ATTRIBUTES_encode(types, buffer)) = types
<1> DEFINE k == Count(types)
           place(b) == (b + 1) \div 2
           v == UNKNOWN_ATTRIBUTES_encode(types, buffer)
<1>2. k \in 0..n /\ \A i \in 1..n : types[i] # 0 <=> i <= k
  BY CountedTypes
<1>3. v = [b \in 1..(2 * k) |->
             IF \E j \in 1..place(b) : types[j] = 0 THEN buffer[b] ELSE be16(types[place(b)])[2 - (b % 2)]]
  BY DEF UNKNOWN_ATTRIBUTES_encode
<1> HIDE DEF k, v
<1>4. 2 * k \in Nat /\ Len(v) = 2 * k
  BY <1>2, <1>3
<1>5. ASSUME NEW i \in 1..n, i <= k PROVE Word(v, 2 * i - 1) = types[i]
  <2> DEFINE b == 2 * i - 1
  <2>1. b \in 1..(2 * k) /\ b + 1 \in 1..(2 * k) /\ b % 2 = 1 /\ (b + 1) % 2 = 0
    BY <1>2, <1>5
  <2>2. place(b) = i /\ place(b + 1) = i
    OBVIOUS
  <2>3. ~ \E j \in 1..i : types[j] = 0
    BY <1>2, <1>5
  <2>4. types[i] \in Nat /\ types[i] < 65536
    OBVIOUS
  <2> HIDE DEF place, b
  <2>5. v[b] = be16(types[i])[2 - (b % 2)] /\ v[b + 1] = be16(types[i])[2 - ((b + 1) % 2)]
    BY <1>3, <2>1, <2>2, <2>3
  <2>6. v[b] = be16(types[i])[1] /\ v[b + 1] = be16(types[i])[2]
    BY <2>1, <2>5
  <2>7. Word(v, b) = Word(be16(types[i]), 1)
    BY <2>6 DEF Word
  <2>8. Word(be16(types[i]), 1) = types[i]
    BY <2>4, Bytes16
  <2> QED
    BY <2>7, <2>8 DEF b
<1>6. \A i \in 1..n : 2 * i <= Len(v) <=> i <= k
  BY <1>2, <1>4
<1>7. \A i \in 1..n : ~ i <= k => types[i] = 0
  BY <1>2
<1>8. \A i \in 1..n : (IF 2 * i <= Len(v) THEN Word(v, 2 * i - 1) ELSE 0) = types[i]
  BY <1>5, <1>6, <1>7
<1>9. types = [i \in 1..n |-> types[i]]
  OBVIOUS
<1>10. UNKNOWN_ATTRIBUTES_decode(n, v) = types
  BY <1>8, <1>9 DEF UNKNOWN_ATTRIBUTES_decode
<1> QED
  BY <1>10 DEF v

\* collect_unknown: an array stays packed, and a type is added behind the others
\* if there is room, and it is not zero and not there yet.
THEOREM CollectPacked ==
  ASSUME NEW n \in Nat, NEW types \in [1..n -> Nat], Packed(types), NEW typ \in Nat
  PROVE  /\ Packed(collect(types, typ))
         /\ collect(types, typ) =
              IF Count(types) < n /\ typ # 0 /\ \A i \in 1..Count(types) : types[i] # typ
              THEN [types EXCEPT ![Count(types) + 1] = typ]
              ELSE types
<1> DEFINE k == Count(types)
           new == k < n /\ typ # 0 /\ \A i \in 1..k : types[i] # typ
           c == collect(types, typ)
           hit(i) == types[i] = 0 /\ \A j \in 1..(i - 1) : types[j] \notin {0, typ}
<1>1. k \in 0..n /\ \A i \in 1..n : types[i] # 0 <=> i <= k
  BY CountedTypes
<1>2. c = [i \in 1..n |-> IF hit(i) THEN typ ELSE types[i]]
  BY DEF collect
<1> HIDE DEF k, c
<1>3. \A i \in 1..n : hit(i) => i = k + 1 /\ \A j \in 1..k : types[j] # typ
  <2> SUFFICES ASSUME NEW i \in 1..n, hit(i) PROVE i = k + 1 /\ \A j \in 1..k : types[j] # typ
    OBVIOUS
  <2>1. i > k
    BY <1>1
  <2>2. ~ k + 1 < i
    <3> SUFFICES ASSUME k + 1 < i PROVE FALSE
      OBVIOUS
    <3>1. k + 1 \in 1..n /\ k + 1 \in 1..(i - 1) /\ ~ k + 1 <= k
      BY <1>1
    <3> QED
      BY <1>1, <3>1
  <2> QED
    BY <1>1, <2>1, <2>2
<1>4. CASE new
  <2>1. k + 1 \in 1..n /\ types[k + 1] = 0
    BY <1>1, <1>4
  <2>2. hit(k + 1)
    BY <1>1, <1>4, <2>1
  <2>3. \A i \in 1..n : c[i] = IF i = k + 1 THEN typ ELSE types[i]
    BY <1>2, <1>3, <2>2
  <2>4. c = [types EXCEPT ![k + 1] = typ]
    BY <1>2, <2>3, Zenon
  <2>5. DOMAIN c = 1..n
    BY <1>2
  <2>6. \A i, j \in 1..n : i < j /\ c[i] = 0 => c[j] = 0
    BY <1>1, <1>4, <2>3
  <2>7. Packed(c)
    BY <2>5, <2>6 DEF Packed
  <2> QED
    BY <1>4, <2>4, <2>7 DEF c, k
<1>5. CASE ~ new
  <2>1. \A i \in 1..n : c[i] = types[i]
    <3> SUFFICES ASSUME NEW i \in 1..n, hit(i) PROVE typ = types[i]
      BY <1>2
    <3>1. i = k + 1 /\ k < n /\ \A j \in 1..k : types[j] # typ
      BY <1>1, <1>3
    <3> QED
      BY <1>5, <3>1
  <2>2. c = types
    BY <1>2, <2>1
  <2> QED
    BY <1>5, <2>2 DEF c, k
<1> QED
  BY <1>4, <1>5
=============================================================================
