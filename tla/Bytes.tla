--------------------------------- MODULE Bytes ---------------------------------
(***************************************************************************)
(* Bytes and the 16-bit fields of packets, as src/packet.rs writes and     *)
(* reads them: to_be_bytes and from_be_bytes of u16.                       *)
(***************************************************************************)
EXTENDS Integers

CONSTANT Base  \* the values of a byte (256)

ASSUME BytesAssumption == Base \in Nat \ {0, 1}

Byte == 0 .. Base - 1

Word == 0 .. Base * Base - 1

\* A 16-bit field, as its first and second byte.
Big(x) == <<x \div Base, x % Base>>

FromBig(f) == f[1] * Base + f[2]
===============================================================================
