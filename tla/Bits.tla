-------------------------------- MODULE Bits --------------------------------
(***************************************************************************)
(* The fixed-width integers of lib/base/bitstream.cpp as bit vectors.      *)
(*                                                                         *)
(* A value of width w is a function on 0 .. w-1 whose index 0 is the most  *)
(* significant bit: the order in which the stream stores and returns bits. *)
(* The shifts, masks and the "|" of the C++ code are the operators below.  *)
(* A shift drops what leaves the w bits and fills with zeros, so storing   *)
(* the result back into a w-bit variable needs no further truncation.      *)
(***************************************************************************)
EXTENDS Integers, Sequences

Bit  == {0, 1}
Byte == [0 .. 7 -> Bit]    \* uint8_t
Word == [0 .. 31 -> Bit]   \* uint32_t

(* v << k and v >> k for a value v of width w.                             *)
ShiftLeft(v, w, k)  == [i \in 0 .. (w - 1) |-> IF i + k < w THEN v[i + k] ELSE 0]
ShiftRight(v, w, k) == [i \in 0 .. (w - 1) |-> IF i >= k THEN v[i - k] ELSE 0]

(* v & ((1 << k) - 1): only the k low bits of v stay.                      *)
LowBits(v, w, k) == [i \in 0 .. (w - 1) |-> IF i >= w - k THEN v[i] ELSE 0]

(* u | v.                                                                  *)
BitOr(u, v, w) == [i \in 0 .. (w - 1) |-> IF u[i] = 1 \/ v[i] = 1 THEN 1 ELSE 0]

(* The low n bits of a byte, in stream order: what "adding n bits" of it   *)
(* means, and whether the byte holds nothing else.                         *)
Field(v, n) == [i \in 1 .. n |-> v[(8 - n) + (i - 1)]]
Fits(v, n)  == \A i \in 0 .. 7 : i < 8 - n => v[i] = 0
=============================================================================
