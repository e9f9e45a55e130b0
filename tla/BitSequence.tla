----------------------------- MODULE BitSequence -----------------------------
(***************************************************************************)
(* What a BitStream promises its callers, without bytes, words and masks:  *)
(* a sequence of bits that a writer only ever extends at its end, and that *)
(* a reader consumes from the front, each bit once and in order.           *)
(*                                                                         *)
(* The header (lib/base/bitstream.h) declares the operations; what they    *)
(* promise is what lib/type_conversion/base_types.cpp and the generated    *)
(* code rely on and what test/base/bitstream_test.cpp checks by example.   *)
(***************************************************************************)
EXTENDS Bits

CONSTANTS
  Values,   \* the bytes a writer passes one at a time
  Payloads, \* the byte arrays it passes
  Widths    \* the numbers of bits a reader asks for

VARIABLES
  bits,     \* the bits written so far, or the message being read
  pos,      \* how many of them a reader has consumed
  sealed,   \* TRUE for a stream constructed from a message: it is read only
  last      \* the last completed call, its arguments and its result

vars == <<bits, pos, sealed, last>>

NoCall == [op |-> "none", n |-> 0, status |-> "ok", value |-> <<>>]

Init == /\ \/ ~sealed /\ bits = <<>>
           \/ sealed /\ bits \in Seq(Bit) /\ bits # <<>>
        /\ pos = 0
        /\ last = NoCall

(* The next n bits as a number: right-aligned in a word, rest zero.        *)
NumberAt(n) == [i \in 0 .. 31 |-> IF i >= 32 - n THEN bits[pos + (i - (32 - n)) + 1] ELSE 0]

(* The next n bits in the caller's byte array: whole 32-bit groups byte by *)
(* byte, then the remaining bits right-aligned in the bytes they need.     *)
BytesAt(n) ==
  LET whole == 32 * (n \div 32)
      pad   == (8 - (n % 8)) % 8
      bitAt(q) == IF q < whole THEN bits[pos + q + 1]
                  ELSE IF q - pad < whole THEN 0 ELSE bits[pos + (q - pad) + 1]
  IN  [j \in 0 .. ((n + 7) \div 8 - 1) |-> [i \in 0 .. 7 |-> bitAt(8 * j + i)]]

Put(v, n) == /\ ~sealed
             /\ bits' = bits \o Field(v, n)
             /\ last' = [op |-> "add_max_8bits", n |-> n, status |-> "ok", value |-> v]
             /\ UNCHANGED <<pos, sealed>>

PutBytes(data) ==
  /\ ~sealed
  /\ bits' = bits \o [k \in 1 .. 8 * Len(data) |-> data[((k - 1) \div 8) + 1][(k - 1) % 8]]
  /\ last' = [op |-> "add_bytes", n |-> 8 * Len(data), status |-> "ok", value |-> data]
  /\ UNCHANGED <<pos, sealed>>

Get(n) == /\ sealed
          /\ pos' = pos + n
          /\ pos' <= Len(bits)
          /\ last' \in {[op |-> "get_max_4bytes", n |-> n, status |-> "ok", value |-> NumberAt(n)],
                        [op |-> "get_next_n_bits", n |-> n, status |-> "ok", value |-> BytesAt(n)]}
          /\ UNCHANGED <<bits, sealed>>

(* Reading past the end is not answered with bits of the message, and the  *)
(* position still advances by what was asked for.                          *)
Overrun(n) == /\ sealed
              /\ pos' = pos + n
              /\ pos' > Len(bits)
              /\ last'.n = n
              /\ last'.status = "ok"
              /\ UNCHANGED <<bits, sealed>>

(* A call with unusable arguments throws and leaves the stream as it was.  *)
Reject == /\ last'.status \in {"invalid_argument", "range_error"}
          /\ UNCHANGED <<bits, pos, sealed>>

Next == \/ \E v \in Values, n \in 1 .. 8 : Put(v, n)
        \/ \E data \in Payloads : PutBytes(data)
        \/ \E n \in Widths : Get(n) \/ Overrun(n)
        \/ Reject

Spec == Init /\ [][Next]_vars
=============================================================================
