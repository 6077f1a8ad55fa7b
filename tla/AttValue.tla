------------------------------ MODULE AttValue ------------------------------
(***************************************************************************)
(* The value of a characteristic or descriptor, AttValue of                *)
(* src/gatt/mod.rs, as the byte sequence its users see: how a read at an   *)
(* offset, a write at an offset and a resize change it, and when the code  *)
(* panics instead.  AttBuffer shows that the 512 byte buffer and its       *)
(* length implement these operators.                                       *)
(***************************************************************************)
EXTENDS Naturals, Sequences

CONSTANTS Byte,    \* the bytes a value is made of
          MaxLen   \* the size of the buffer, 512 in the code

ASSUME MaxLenIsNat == MaxLen \in Nat

\* The values an AttValue can hold.
AttVal == {v \in Seq(Byte) : Len(v) <= MaxLen}

\* AttValue::update does not panic: the assertion on the offset and the bound
\* of the slice self.buf[offset..end].
CanUpdate(v, slice, offset) ==
  offset <= Len(v) /\ offset + Len(slice) <= MaxLen

\* AttValue::update: the slice replaces everything from the offset on.
Updated(v, slice, offset) == SubSeq(v, 1, offset) \o slice

\* AttValue::resize: shorten, or pad with copies of a byte.
Resized(v, len, b) ==
  [i \in 1 .. len |-> IF i <= Len(v) THEN v[i] ELSE b]

\* att_val.get(offset..).unwrap_or(&[]), what ReadValue answers.
ReadFrom(v, offset) == SubSeq(v, offset + 1, Len(v))
==============================================================================
