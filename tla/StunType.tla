------------------------------ MODULE StunType ------------------------------
(***************************************************************************)
(* The type field of a STUN header (stun/stun.rs, stun/mod.rs): two bits   *)
(* that are zero, and the bits of the method (M) and of the class (C)      *)
(* interleaved:                                                            *)
(*                                                                         *)
(*      15 14  13 12 11 10  9   8   7  6  5   4   3  2  1  0               *)
(*       0  0   M  M  M  M  M   C   M  M  M   C   M  M  M  M               *)
(***************************************************************************)
EXTENDS Integers

\* The n-valued field of x whose lowest bit has weight w.
Field(x, w, n) == (x \div w) % n

\* enum Class, by the value of its two bits.
Request    == 0
Indication == 1
Success    == 2
Error      == 3

\* enum Method; every other value converts to Unknown.
Method ==
  [Binding |-> 1, Allocate |-> 3, Refresh |-> 4, Send |-> 6, Data |-> 7,
   CreatePermission |-> 8, ChannelBind |-> 9]

class(typ) == Field(typ, 16, 2) + 2 * Field(typ, 256, 2)

raw_method(typ) ==
  Field(typ, 1, 16) + 16 * Field(typ, 32, 8) + 128 * Field(typ, 512, 32)

set_class(typ, c) ==
  (typ - 16 * Field(typ, 16, 2) - 256 * Field(typ, 256, 2))
    + 16 * (c % 2) + 256 * (c \div 2)

\* The class bits are kept; everything else of the old type is overwritten.
set_raw_method(typ, m) ==
  16 * Field(typ, 16, 2) + 256 * Field(typ, 256, 2)
    + Field(m, 1, 16) + 32 * Field(m, 16, 8) + 512 * Field(m, 128, 64)

\* The first check of Stun::decode.
NotStun(typ) == typ \div 16384 # 0
=============================================================================
