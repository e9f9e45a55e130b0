-------------------------- MODULE BitStream_proofs --------------------------
(***************************************************************************)
(* For streams of any length: the vector holds exactly the bytes of the    *)
(* written bits, the bits behind them are zero, and no bit changes once it *)
(* is written if every call passes a value that fits its field.            *)
(*                                                                         *)
(* The second part is about BitSequence: bytes, shifts, masks and 32-bit   *)
(* words are invisible to the callers of a BitStream.  What is written is  *)
(* appended bit by bit, and what is read are the next bits of the message, *)
(* whatever lies behind its end.                                           *)
(*                                                                         *)
(* Everything about one call is in AddedBytes: what adding n bits does to a *)
(* vector, in each branch of add_max_8bits. AddKeepsWriterState lifts it to *)
(* the state of a writer, and the theorems follow from one invariant.      *)
(***************************************************************************)
EXTENDS BitStream, SequenceTheorems, TLAPS

(* A bit position is a byte address and a position in that byte (addr and   *)
(* pos of add_max_8bits).                                                   *)
LEMMA DivMod == ASSUME NEW c \in Nat
  PROVE /\ c \div 8 \in Nat /\ c % 8 \in 0 .. 7 /\ c = 8 * (c \div 8) + (c % 8)
  BY SMT

(* And back.                                                                *)
LEMMA ByteAddress == ASSUME NEW q \in Nat, NEW r \in 0 .. 7
  PROVE /\ (8 * q + r) \div 8 = q /\ (8 * q + r) % 8 = r
  BY SMT

(* The bits of v << k, v >> k and v & ((1 << k) - 1) for a byte v.          *)
LEMMA ShiftLeftBits ==
  ASSUME NEW v \in Byte, NEW k \in Nat
  PROVE  /\ ShiftLeft(v, 8, k) \in Byte
         /\ \A j \in 0 .. 7 : ShiftLeft(v, 8, k)[j] = IF j + k < 8 THEN v[j + k] ELSE 0
  BY DEF ShiftLeft, Byte, Bit

(* The same for v >> k.                                                     *)
LEMMA ShiftRightBits ==
  ASSUME NEW v \in Byte, NEW k \in Nat
  PROVE  /\ ShiftRight(v, 8, k) \in Byte
         /\ \A j \in 0 .. 7 : ShiftRight(v, 8, k)[j] = IF j >= k THEN v[j - k] ELSE 0
  BY DEF ShiftRight, Byte, Bit

(* And for the mask.                                                        *)
LEMMA LowBitsBits ==
  ASSUME NEW v \in Byte, NEW k \in Nat
  PROVE  /\ LowBits(v, 8, k) \in Byte
         /\ \A j \in 0 .. 7 : LowBits(v, 8, k)[j] = IF j >= 8 - k THEN v[j] ELSE 0
  BY DEF LowBits, Byte, Bit

(* Or-ing into bits that are zero stores the operand; or-ing zeros changes  *)
(* nothing.                                                                 *)
LEMMA BitOrBits ==
  ASSUME NEW u \in Byte, NEW v \in Byte
  PROVE  /\ BitOr(u, v, 8) \in Byte
         /\ \A j \in 0 .. 7 : u[j] = 0 => BitOr(u, v, 8)[j] = v[j]
         /\ \A j \in 0 .. 7 : v[j] = 0 => BitOr(u, v, 8)[j] = u[j]
  BY DEF BitOr, Byte, Bit

(* The bits of a byte from position r on are zero.                          *)
ZeroFrom(b, r) == \A j \in 0 .. 7 : j >= r => b[j] = 0

(* The byte it then appends.                                                *)
LEMMA SpilledByte ==
  ASSUME NEW data \in Byte, NEW spill \in Nat, NEW shift \in Nat,
         spill + shift <= 8, spill + shift >= 8,
         NEW low, low = ShiftLeft(LowBits(data, 8, spill), 8, shift)
  PROVE  /\ low \in Byte
         /\ \A j \in 0 .. 7 : low[j] = IF j < spill THEN data[j + shift] ELSE 0
<1>1. PICK kept : kept = LowBits(data, 8, spill)
  OBVIOUS
<1>2. kept \in Byte /\ \A j \in 0 .. 7 : kept[j] = IF j >= 8 - spill THEN data[j] ELSE 0
  BY <1>1, LowBitsBits
<1>3. low \in Byte /\ \A j \in 0 .. 7 : low[j] = IF j + shift < 8 THEN kept[j + shift] ELSE 0
  BY <1>1, <1>2, ShiftLeftBits
<1> QED
  BY <1>2, <1>3

(* exi_data[i] = b leaves the other bytes alone.                            *)
LEMMA ReplacedByte ==
  ASSUME NEW bytes \in Seq(Byte), NEW i \in 1 .. Len(bytes), NEW b \in Byte,
         NEW result, result = [bytes EXCEPT ![i] = b]
  PROVE  /\ result \in Seq(Byte) /\ Len(result) = Len(bytes) /\ result[i] = b
         /\ \A k \in 1 .. Len(bytes) : k # i => result[k] = bytes[k]
  OBVIOUS

(* push_back(b) leaves all earlier bytes alone.                             *)
LEMMA AppendedByte ==
  ASSUME NEW bytes \in Seq(Byte), NEW b \in Byte,
         NEW result, result = Append(bytes, b)
  PROVE  /\ result \in Seq(Byte) /\ Len(result) = Len(bytes) + 1 /\ result[Len(bytes) + 1] = b
         /\ \A k \in 1 .. Len(bytes) : result[k] = bytes[k]
  OBVIOUS

(* result is bytes with n bits of data added at bit r of byte q (counted    *)
(* from 0).                                                                 *)
IsAdded(result, bytes, q, r, data, n) == result = Added(bytes, 8 * q + r, data, n)

(* The shape of such a vector: the bytes the bits need, the earlier bytes   *)
(* unchanged, and zeros behind the new bits.                                *)
Extends(result, bytes, q, r, data, n) ==
  /\ result \in Seq(Byte)
  /\ Len(result) = IF r + n <= 8 THEN q + 1 ELSE q + 2
  /\ \A i \in 1 .. q : result[i] = bytes[i]
  /\ \A j \in 0 .. 7 : j >= r + n => result[q + 1][j] = 0
  /\ \A j \in 0 .. 7 : r + n > 8 /\ j >= r + n - 8 => result[q + 2][j] = 0

(* Its contents: the bits before bit r stay, the n low bits of data follow. *)
Holds(result, bytes, q, r, data, n) ==
  /\ \A j \in 0 .. 7 : Fits(data, n) /\ j < r => result[q + 1][j] = bytes[q + 1][j]
  /\ \A j \in 0 .. 7 : Fits(data, n) /\ j >= r /\ j < r + n =>
        result[q + 1][j] = data[(j - r) + (8 - n)]
  /\ \A j \in 0 .. 7 : j < r + n - 8 => result[q + 2][j] = data[(j + 8 - r) + (8 - n)]

(* add_max_8bits on a vector whose last byte is filled up to bit r and      *)
(* zero behind it does what it should, in each of its three branches.       *)
LEMMA AddedBytes ==
  ASSUME NEW bytes \in Seq(Byte), NEW q \in Nat, NEW r \in 0 .. 7,
         NEW data \in Byte, NEW n \in 1 .. 8, NEW result,
         Len(bytes) = IF r = 0 THEN q ELSE q + 1,
         ZeroFrom(bytes[q + 1], r) \/ r = 0,
         IsAdded(result, bytes, q, r, data, n)
  PROVE  /\ Extends(result, bytes, q, r, data, n)
         /\ Holds(result, bytes, q, r, data, n)
<1>1. (8 * q + r) \div 8 = q /\ (8 * q + r) % 8 = r
  BY ByteAddress
<1>2. PICK left \in Nat : left = 8 - r
  OBVIOUS
<1>3. PICK addr \in Nat : addr = q + 1
  OBVIOUS
<1>4. r \in Nat /\ n \in Nat
  OBVIOUS
<1>5. CASE left < n
  <2>1. PICK spill \in Nat : spill = n - left
    BY <1>2, <1>4, <1>5
  <2>2. PICK shift \in Nat : shift = 8 - spill
    BY <1>2, <2>1
  <2>3. spill \in 1 .. 7 /\ left \in 1 .. 7 /\ r \in 1 .. 7 /\ left + spill = n /\ addr \in 1 .. Len(bytes)
    BY <1>2, <1>3, <1>5, <2>1
  <2>4. PICK old : old = bytes[addr]
    OBVIOUS
  <2>5. old \in Byte /\ ZeroFrom(old, r)
    BY <1>3, <2>3, <2>4, ElementOfSeq
  <2>6. PICK low : low = ShiftLeft(LowBits(data, 8, spill), 8, shift)
    OBVIOUS
  <2>7. PICK merged : merged = BitOr(old, LowBits(ShiftRight(data, 8, spill), 8, left), 8)
    OBVIOUS
  <2>8. PICK middle : middle = [bytes EXCEPT ![addr] = merged]
    OBVIOUS
  <2>9. result = Append(middle, low)
    BY <1>1, <1>2, <1>3, <1>5, <2>1, <2>2, <2>4, <2>6, <2>7, <2>8 DEF IsAdded, Added, Spills, NextByte, Merged
  <2>10. /\ merged \in Byte
         /\ \A j \in 0 .. 7 : merged[j] = IF j >= r THEN data[j - spill] ELSE old[j]
    <3>1. PICK right : right = ShiftRight(data, 8, spill)
      OBVIOUS
    <3>2. right \in Byte /\ \A j \in 0 .. 7 : right[j] = IF j >= spill THEN data[j - spill] ELSE 0
      BY <3>1, ShiftRightBits
    <3>3. PICK high : high = LowBits(right, 8, left)
      OBVIOUS
    <3>4. high \in Byte /\ \A j \in 0 .. 7 : high[j] = IF j >= 8 - left THEN right[j] ELSE 0
      BY <3>2, <3>3, LowBitsBits
    <3>5. /\ merged \in Byte
          /\ \A j \in 0 .. 7 : old[j] = 0 => merged[j] = high[j]
          /\ \A j \in 0 .. 7 : high[j] = 0 => merged[j] = old[j]
      BY <2>5, <2>7, <3>1, <3>3, <3>4, BitOrBits
    <3>6. ASSUME NEW j \in 0 .. 7
          PROVE  merged[j] = IF j >= r THEN data[j - spill] ELSE old[j]
      <4>1. CASE j >= r
        <5>1. j >= spill /\ j >= 8 - left
          BY <1>2, <1>4, <2>3, <4>1
        <5>2. old[j] = 0 /\ right[j] = data[j - spill] /\ high[j] = right[j]
          BY <2>5, <3>2, <3>4, <4>1, <5>1 DEF ZeroFrom
        <5> QED BY <3>5, <4>1, <5>2
      <4>2. CASE ~(j >= r)
        BY <1>2, <1>4, <3>4, <3>5, <4>2
      <4> QED BY <4>1, <4>2
    <3> QED
      BY <3>5, <3>6
  <2>11. low \in Byte /\ \A j \in 0 .. 7 : low[j] = IF j < spill THEN data[j + shift] ELSE 0
    <3>1. spill + shift <= 8 /\ spill + shift >= 8
      BY <2>2
    <3> QED
      BY <2>6, <3>1, SpilledByte
  <2>12. /\ merged \in Byte /\ low \in Byte
         /\ \A j \in 0 .. 7 : merged[j] = IF j >= r THEN data[j - spill] ELSE old[j]
         /\ \A j \in 0 .. 7 : low[j] = IF j < spill THEN data[j + 8 - spill] ELSE 0
    BY <1>2, <1>4, <2>2, <2>10, <2>11
  <2>13. /\ middle \in Seq(Byte) /\ Len(middle) = addr /\ middle[addr] = merged
         /\ \A i \in 1 .. q : middle[i] = bytes[i]
    BY <1>3, <2>3, <2>8, <2>12, ReplacedByte
  <2>14. /\ result \in Seq(Byte) /\ Len(result) = addr + 1
         /\ result[addr + 1] = low /\ result[addr] = merged
         /\ \A i \in 1 .. q : result[i] = bytes[i]
    <3>1. /\ result \in Seq(Byte) /\ Len(result) = Len(middle) + 1 /\ result[Len(middle) + 1] = low
          /\ \A k \in 1 .. Len(middle) : result[k] = middle[k]
      <4>1. middle \in Seq(Byte) /\ low \in Byte
        BY <2>12, <2>13
      <4> QED
        BY <2>9, <4>1, AppendedByte
    <3>2. result[addr] = middle[addr] /\ \A i \in 1 .. q : result[i] = middle[i]
      BY <1>3, <2>13, <3>1
    <3> QED
      BY <2>13, <3>1, <3>2
  <2>15. r + n > 8 /\ r + n - 8 = spill /\ addr + 1 = q + 2
    BY <1>2, <1>3, <2>1, <2>3
  <2>16. ASSUME NEW j \in 0 .. 7, j >= r
         PROVE  merged[j] = data[(j - r) + (8 - n)]
    <3>1. j - spill = (j - r) + (8 - n)
      BY <1>2, <2>1
    <3> QED
      BY <2>12, <2>16, <3>1
  <2>17. ASSUME NEW j \in 0 .. 7, j < spill
         PROVE  low[j] = data[(j + 8 - r) + (8 - n)]
    <3>1. j + 8 - spill = (j + 8 - r) + (8 - n)
      BY <1>2, <2>1
    <3> QED
      BY <2>12, <2>17, <3>1
  <2> QED
    <3>1. ASSUME NEW j \in 0 .. 7, j < r
          PROVE  merged[j] = bytes[q + 1][j]
      <4>1. ~(j >= r)
        BY <1>4, <3>1
      <4>2. merged[j] = old[j]
        BY <2>12, <4>1
      <4> QED BY <1>3, <2>4, <4>2
    <3>2. ASSUME NEW j \in 0 .. 7, j >= r + n - 8
          PROVE  low[j] = 0
      <4>1. ~(j < spill)
        BY <2>3, <2>15, <3>2
      <4> QED BY <2>12, <4>1
    <3>3. ~(r + n <= 8) /\ \A j \in 0 .. 7 : j < r + n
      BY <1>4, <2>15
    <3>4. result \in Seq(Byte) /\ Len(result) = q + 2 /\ \A i \in 1 .. q : result[i] = bytes[i]
      BY <1>3, <2>14, <2>15
    <3>5. result[q + 1] = merged /\ result[q + 2] = low
      BY <1>3, <2>14, <2>15
    <3>6. \A j \in 0 .. 7 : j < r + n - 8 => low[j] = data[(j + 8 - r) + (8 - n)]
      BY <2>15, <2>17
    <3>7. \A j \in 0 .. 7 : r + n > 8 /\ j >= r + n - 8 => result[q + 2][j] = 0
      BY <3>2, <3>5
    <3>8. \A j \in 0 .. 7 : j < r + n - 8 => result[q + 2][j] = data[(j + 8 - r) + (8 - n)]
      BY <3>5, <3>6
    <3>9. /\ \A j \in 0 .. 7 : j >= r + n => result[q + 1][j] = 0
          /\ \A j \in 0 .. 7 : j < r => result[q + 1][j] = bytes[q + 1][j]
          /\ \A j \in 0 .. 7 : j >= r => result[q + 1][j] = data[(j - r) + (8 - n)]
      <4>1. \A j \in 0 .. 7 : j >= r => result[q + 1][j] = data[(j - r) + (8 - n)]
        BY <2>16, <3>5
      <4>2. \A j \in 0 .. 7 : j < r => result[q + 1][j] = bytes[q + 1][j]
        BY <3>1, <3>5
      <4>3. \A j \in 0 .. 7 : j >= r + n => result[q + 1][j] = 0
        <5> SUFFICES ASSUME NEW j \in 0 .. 7, j >= r + n
                     PROVE  FALSE
          OBVIOUS
        <5>1. j < r + n
          BY <3>3
        <5> QED
          BY <5>1
      <4> QED
        BY <4>1, <4>2, <4>3
    <3> QED
      <4>1. Extends(result, bytes, q, r, data, n)
        BY <3>3, <3>4, <3>7, <3>9 DEF Extends
      <4>2. \A j \in 0 .. 7 : j < r => result[q + 1][j] = bytes[q + 1][j]
        BY <3>9
      <4>3. \A j \in 0 .. 7 : j >= r => result[q + 1][j] = data[(j - r) + (8 - n)]
        BY <3>9
      <4>4. Holds(result, bytes, q, r, data, n)
        BY <3>8, <4>2, <4>3 DEF Holds
      <4> QED BY <4>1, <4>4
<1>6. CASE ~(left < n)
  <2>1. PICK shift \in Nat : shift = left - n
    BY <1>2, <1>4, <1>6
  <2>2. left \in 1 .. 8 /\ r + n <= 8 /\ shift = 8 - r - n
    BY <1>2, <1>6, <2>1
  <2>3. PICK shifted : shifted = ShiftLeft(data, 8, shift)
    OBVIOUS
  <2>4. /\ shifted \in Byte
        /\ \A j \in 0 .. 7 : shifted[j] = IF j + shift < 8 THEN data[j + shift] ELSE 0
    BY <2>3, ShiftLeftBits
  <2>5. shifted \in Byte
    BY <2>4
  <2>6. /\ \A j \in 0 .. 7 : j >= r + n => shifted[j] = 0
        /\ \A j \in 0 .. 7 : j < r + n => shifted[j] = data[(j - r) + (8 - n)]
    BY <1>4, <2>2, <2>4
  <2>7. CASE r = 0
    <3>1. result = Append(bytes, shifted)
      BY <1>1, <1>2, <1>6, <2>1, <2>3, <2>7 DEF IsAdded, Added, Spills, NextByte, Merged
    <3>2. /\ result \in Seq(Byte) /\ Len(result) = q + 1 /\ result[q + 1] = shifted
          /\ \A i \in 1 .. q : result[i] = bytes[i]
      <4>1. /\ result \in Seq(Byte) /\ Len(result) = Len(bytes) + 1 /\ result[Len(bytes) + 1] = shifted
            /\ \A k \in 1 .. Len(bytes) : result[k] = bytes[k]
        BY <2>5, <3>1, AppendedByte
      <4> QED
        BY <2>7, <4>1
    <3>3. ~(r + n > 8) /\ \A j \in 0 .. 7 : ~(j < r) /\ ~(j < r + n - 8)
      BY <2>2, <2>7
    <3>4. Extends(result, bytes, q, r, data, n)
      BY <2>2, <2>6, <3>2, <3>3 DEF Extends
    <3>5. Holds(result, bytes, q, r, data, n)
      BY <2>6, <3>2, <3>3 DEF Holds
    <3> QED
      BY <3>4, <3>5
  <2>8. CASE r # 0
    <3>1. PICK old : old = bytes[addr]
      OBVIOUS
    <3>2. addr \in 1 .. Len(bytes) /\ old \in Byte /\ \A j \in r .. 7 : old[j] = 0
      BY <1>3, <2>8, <3>1, ElementOfSeq DEF ZeroFrom
    <3>3. PICK merged : merged = BitOr(old, shifted, 8)
      OBVIOUS
    <3>4. result = [bytes EXCEPT ![addr] = merged]
      BY <1>1, <1>2, <1>3, <1>6, <2>1, <2>3, <2>8, <3>1, <3>3 DEF IsAdded, Added, Spills, NextByte, Merged
    <3>5. /\ merged \in Byte
          /\ \A j \in 0 .. 7 : old[j] = 0 => merged[j] = shifted[j]
          /\ \A j \in 0 .. 7 : shifted[j] = 0 => merged[j] = old[j]
      BY <2>4, <3>2, <3>3, BitOrBits
    <3>6. /\ result \in Seq(Byte) /\ Len(result) = addr /\ result[addr] = merged
          /\ \A i \in 1 .. q : result[i] = bytes[i]
      <4>1. /\ result \in Seq(Byte) /\ Len(result) = Len(bytes) /\ result[addr] = merged
            /\ \A k \in 1 .. Len(bytes) : k # addr => result[k] = bytes[k]
        <5>1. addr \in 1 .. Len(bytes) /\ merged \in Byte
          BY <3>2, <3>5
        <5> QED
          BY <3>4, <5>1, ReplacedByte
      <4> QED
        BY <1>3, <2>8, <4>1
    <3>7. \A j \in 0 .. 7 : j >= r => merged[j] = shifted[j]
      BY <1>4, <3>2, <3>5
    <3>8. ASSUME Fits(data, n), NEW j \in 0 .. 7, j < r
          PROVE  merged[j] = old[j]
      <4>1. j + shift \in 0 .. 7 /\ j + shift < 8 - n
        BY <1>4, <2>2, <3>8
      <4>2. data[j + shift] = 0
        BY <3>8, <4>1 DEF Fits
      <4> QED
        BY <2>4, <3>5, <4>1, <4>2
    <3>9. result[q + 1] = merged /\ bytes[q + 1] = old
      BY <1>3, <3>1, <3>6
    <3>10. \A j \in 0 .. 7 : j >= r => result[q + 1][j] = shifted[j]
      BY <3>7, <3>9
    <3>11. \A j \in 0 .. 7 : Fits(data, n) /\ j < r => result[q + 1][j] = bytes[q + 1][j]
      BY <3>8, <3>9
    <3>12. /\ \A j \in 0 .. 7 : j >= r + n => result[q + 1][j] = 0
           /\ \A j \in 0 .. 7 : j >= r /\ j < r + n => result[q + 1][j] = data[(j - r) + (8 - n)]
      <4>1. ASSUME NEW j \in 0 .. 7, j >= r + n
            PROVE  result[q + 1][j] = 0
        <5>1. j >= r
          BY <1>4, <4>1
        <5> QED BY <2>6, <3>10, <4>1, <5>1
      <4>2. ASSUME NEW j \in 0 .. 7, j >= r, j < r + n
            PROVE  result[q + 1][j] = data[(j - r) + (8 - n)]
        BY <2>6, <3>10, <4>2
      <4> QED BY <4>1, <4>2
    <3>13. ~(r + n > 8) /\ \A j \in 0 .. 7 : ~(j < r + n - 8)
      BY <1>4, <2>2
    <3>14. result \in Seq(Byte) /\ Len(result) = q + 1 /\ \A i \in 1 .. q : result[i] = bytes[i]
      BY <1>3, <3>6
    <3>15. Extends(result, bytes, q, r, data, n)
      BY <2>2, <3>12, <3>13, <3>14 DEF Extends
    <3>16. Holds(result, bytes, q, r, data, n)
      BY <3>11, <3>12, <3>13 DEF Holds
    <3> QED
      BY <3>15, <3>16
  <2> QED
    BY <2>7, <2>8
<1> QED
  BY <1>5, <1>6
-----------------------------------------------------------------------------
(* The invariant that makes the properties of the writer inductive: the     *)
(* reader's and the writer's calls never meet on one object, and a request  *)
(* in progress has bits left to take.                                       *)
CallsInProgress ==
  /\ pending # NoBytes => num_bits = 0
  /\ fetch # NoFetch => num_bits # 0 /\ fetch.taken < fetch.n

IInv == TypeOK /\ BytesMatchBits /\ PaddingIsZero /\ CallsInProgress

(* A writer's stream ends in the byte of its bit_counter, whose bits from   *)
(* bit_counter on are zero: what add_max_8bits may assume when it is called. *)
LEMMA WriterState ==
  ASSUME TypeOK, BytesMatchBits, PaddingIsZero, num_bits = 0,
         NEW q \in Nat, NEW r \in 0 .. 7, bit_counter = 8 * q + r
  PROVE  /\ exi_data \in Seq(Byte)
         /\ Len(exi_data) = IF r = 0 THEN q ELSE q + 1
         /\ ZeroFrom(exi_data[q + 1], r) \/ r = 0
<1>1. exi_data \in Seq(Byte) /\ Len(exi_data) \in Nat
  BY DEF TypeOK
<1>2. Len(exi_data) = (8 * q + r + 7) \div 8
  BY DEF BytesMatchBits
<1>3. Len(exi_data) = IF r = 0 THEN q ELSE q + 1
  BY <1>2
<1>4. ASSUME r # 0, NEW j \in 0 .. 7, j >= r
      PROVE  exi_data[q + 1][j] = 0
  <2>1. (8 * q + j) \div 8 = q /\ (8 * q + j) % 8 = j
    BY ByteAddress
  <2>2. 8 * q + j \in bit_counter .. (8 * Len(exi_data) - 1)
    BY <1>3, <1>4
  <2>3. BitAt(8 * q + j) = 0
    BY <2>2 DEF PaddingIsZero
  <2> QED
    BY <2>1, <2>3 DEF BitAt
<1> QED
  BY <1>1, <1>3, <1>4 DEF ZeroFrom

(* One call of add_max_8bits with accepted arguments keeps the bytes in     *)
(* step with the bits and the padding zero, whatever it is asked to add.    *)
LEMMA AddKeepsWriterState ==
  ASSUME TypeOK, BytesMatchBits, PaddingIsZero, num_bits = 0, num_bits' = num_bits,
         NEW data \in Byte, NEW n \in 1 .. 8, Add(data, n)
  PROVE  exi_data' \in Seq(Byte) /\ bit_counter' \in Nat /\ BytesMatchBits' /\ PaddingIsZero'
<1>1. bit_counter \in Nat
  BY DEF TypeOK
<1>2. PICK q \in Nat, r \in 0 .. 7 : bit_counter = 8 * q + r
  BY <1>1, DivMod
<1>3. exi_data' = Added(exi_data, 8 * q + r, data, n) /\ bit_counter' = 8 * q + r + n
  BY <1>2 DEF Add
<1>4. PICK result : IsAdded(result, exi_data, q, r, data, n)
  BY DEF IsAdded
<1>5. /\ result \in Seq(Byte)
      /\ Len(result) = IF r + n <= 8 THEN q + 1 ELSE q + 2
      /\ \A j \in 0 .. 7 : j >= r + n => result[q + 1][j] = 0
      /\ \A j \in 0 .. 7 : r + n > 8 /\ j >= r + n - 8 => result[q + 2][j] = 0
  <2>1. /\ exi_data \in Seq(Byte)
        /\ Len(exi_data) = IF r = 0 THEN q ELSE q + 1
        /\ ZeroFrom(exi_data[q + 1], r) \/ r = 0
    BY <1>2, WriterState
  <2>2. Extends(result, exi_data, q, r, data, n)
    BY <1>4, <2>1, AddedBytes
  <2> QED
    BY <2>2 DEF Extends
<1>6. exi_data' = result
  BY <1>3, <1>4 DEF IsAdded
<1>7. BytesMatchBits'
  <2>1. (8 * q + r + n + 7) \div 8 = IF r + n <= 8 THEN q + 1 ELSE q + 2
    OBVIOUS
  <2> QED
    BY <1>3, <1>5, <1>6, <2>1 DEF BytesMatchBits
<1>8. ASSUME NEW k \in Nat, k >= 8 * q + r + n, k < 8 * Len(result)
      PROVE  result[(k \div 8) + 1][k % 8] = 0
  <2>1. PICK a \in Nat, j \in 0 .. 7 : a = k \div 8 /\ j = k % 8 /\ k = 8 * a + j
    BY DivMod
  <2>2. CASE r + n <= 8
    <3>1. a = q /\ j >= r + n
      BY <1>5, <1>8, <2>1, <2>2
    <3> QED
      BY <1>5, <2>1, <3>1
  <2>3. CASE r + n > 8
    <3>1. a + 1 = q + 2 /\ j >= r + n - 8
      BY <1>5, <1>8, <2>1, <2>3
    <3> QED
      BY <1>5, <2>1, <2>3, <3>1
  <2> QED
    BY <2>2, <2>3
<1>9. PaddingIsZero'
  <2>1. ASSUME NEW k \in (bit_counter') .. (8 * Len(exi_data') - 1)
        PROVE  BitAt(k)' = 0
    <3>1. k \in Nat /\ k >= 8 * q + r + n /\ k < 8 * Len(result)
      <4>1. bit_counter' \in Nat /\ Len(exi_data') \in Nat
        <5>1. bit_counter' = 8 * q + r + n
          BY <1>3
        <5>2. Len(result) \in Nat
          BY <1>5
        <5> QED
          BY <1>6, <5>1, <5>2
      <4>2. k \in Nat /\ k >= bit_counter' /\ k < 8 * Len(exi_data')
        BY <2>1, <4>1
      <4> QED
        BY <1>3, <1>6, <4>2
    <3>2. result[(k \div 8) + 1][k % 8] = 0
      BY <1>8, <3>1
    <3> QED
      BY <1>6, <3>2 DEF BitAt
  <2> QED
    BY <2>1 DEF PaddingIsZero
<1>10. exi_data' \in Seq(Byte) /\ bit_counter' \in Nat
  BY <1>3, <1>5, <1>6
<1> QED
  BY <1>7, <1>9, <1>10

(* ... and changes no bit written before, if the byte holds no more than    *)
(* the n bits to add: or-ing a wider value would set bits of the fields     *)
(* before it.                                                               *)
LEMMA AddKeepsWrittenBits ==
  ASSUME TypeOK, BytesMatchBits, PaddingIsZero, num_bits = 0,
         NEW data \in Byte, NEW n \in 1 .. 8, Fits(data, n), Add(data, n)
  PROVE  \A k \in 0 .. (bit_counter - 1) : BitAt(k)' = BitAt(k)
<1>1. bit_counter \in Nat
  BY DEF TypeOK
<1>2. PICK q \in Nat, r \in 0 .. 7 : bit_counter = 8 * q + r
  BY <1>1, DivMod
<1>3. PICK result : IsAdded(result, exi_data, q, r, data, n)
  BY DEF IsAdded
<1>4. exi_data' = result
  BY <1>2, <1>3 DEF Add, IsAdded
<1>5. /\ \A i \in 1 .. q : result[i] = exi_data[i]
      /\ \A j \in 0 .. 7 : j < r => result[q + 1][j] = exi_data[q + 1][j]
  <2>1. /\ exi_data \in Seq(Byte)
        /\ Len(exi_data) = IF r = 0 THEN q ELSE q + 1
        /\ ZeroFrom(exi_data[q + 1], r) \/ r = 0
    BY <1>2, WriterState
  <2>2. Extends(result, exi_data, q, r, data, n) /\ Holds(result, exi_data, q, r, data, n)
    BY <1>3, <2>1, AddedBytes
  <2> QED
    BY <2>2 DEF Extends, Holds
<1>6. ASSUME NEW k \in 0 .. (bit_counter - 1)
      PROVE  BitAt(k)' = BitAt(k)
  <2>1. k \in Nat
    OBVIOUS
  <2>2. PICK a \in Nat, j \in 0 .. 7 : a = k \div 8 /\ j = k % 8 /\ k = 8 * a + j
    BY <2>1, DivMod
  <2>3. CASE a < q
    <3>1. a + 1 \in 1 .. q
      BY <2>3
    <3>2. result[a + 1] = exi_data[a + 1]
      BY <1>5, <3>1
    <3> QED
      BY <1>4, <2>2, <3>2 DEF BitAt
  <2>4. CASE a >= q
    <3>1. a = q /\ j < r
      BY <1>2, <2>2, <2>4
    <3>2. result[a + 1][j] = exi_data[a + 1][j]
      BY <1>5, <3>1
    <3> QED
      BY <1>4, <2>2, <3>2 DEF BitAt
  <2> QED
    BY <2>3, <2>4
<1> QED
  BY <1>6

-----------------------------------------------------------------------------
(* The invariant holds of a constructed object.                             *)
LEMMA InitEstablishesIInv == Init => IInv
<1> SUFFICES ASSUME Init PROVE IInv
  OBVIOUS
<1>1. exi_data \in Seq(Byte) /\ Len(exi_data) \in Nat
  <2>1. CASE exi_data = <<>>
    BY <2>1
  <2>2. CASE exi_data \in Messages
    BY <2>2, MessagesAssumption, LenProperties
  <2> QED
    BY <2>1, <2>2 DEF Init
<1>2. TypeOK
  BY <1>1 DEF Init, TypeOK, NoBytes, NoFetch
<1>3. num_bits = 0 => Len(exi_data) = 0 /\ bit_counter = 0
  BY <1>1 DEF Init
<1>4. BytesMatchBits /\ PaddingIsZero
  BY <1>3 DEF BytesMatchBits, PaddingIsZero
<1>5. CallsInProgress
  BY DEF Init, CallsInProgress
<1> QED
  BY <1>2, <1>4, <1>5 DEF IInv

(* Every step keeps it: the writer's by AddKeepsWriterState, the reader's   *)
(* because they leave exi_data and num_bits alone.                          *)
LEMMA NextKeepsIInv == IInv /\ [Next]_vars => IInv'
<1> SUFFICES ASSUME IInv, [Next]_vars PROVE IInv'
  OBVIOUS
<1> USE DEF IInv
<1>a. ASSUME num_bits # 0, UNCHANGED <<exi_data, num_bits>>
      PROVE  BytesMatchBits' /\ PaddingIsZero'
  BY <1>a DEF BytesMatchBits, PaddingIsZero
<1>b. ASSUME UNCHANGED stream
      PROVE  BytesMatchBits' /\ PaddingIsZero'
  BY <1>b DEF stream, BytesMatchBits, PaddingIsZero, BitAt
<1>1. ASSUME NEW call \in Calls, add_max_8bits(call[1], call[2]) PROVE IInv'
  <2>1. CASE UNCHANGED stream
    <3>1. TypeOK' /\ CallsInProgress'
      BY <1>1, <2>1 DEF add_max_8bits, stream, TypeOK, CallsInProgress
    <3> QED BY <1>b, <2>1, <3>1
  <2>2. CASE call[2] \in 1 .. 8 /\ Add(call[1], call[2]) /\ UNCHANGED num_bits
    <3>1. call[1] \in Byte /\ num_bits = 0 /\ num_bits' = num_bits
      BY <1>1, <2>2, CallsAssumption DEF add_max_8bits
    <3>2. exi_data' \in Seq(Byte) /\ bit_counter' \in Nat /\ BytesMatchBits' /\ PaddingIsZero'
      BY <2>2, <3>1, AddKeepsWriterState
    <3>3. UNCHANGED <<pending, fetch>>
      BY <1>1 DEF add_max_8bits
    <3>4. TypeOK' /\ CallsInProgress'
      BY <3>1, <3>2, <3>3 DEF TypeOK, CallsInProgress
    <3> QED BY <3>2, <3>4
  <2> QED
    BY <1>1, <2>1, <2>2 DEF add_max_8bits
<1>2. ASSUME NEW data \in Payloads, add_bytes(data) PROVE IInv'
  <2>1. UNCHANGED stream /\ UNCHANGED fetch /\ num_bits = 0
    BY <1>2 DEF add_bytes, stream
  <2>2. pending' = pending \/ (pending' = [data |-> data, added |-> 0] /\ data # <<>>)
    BY <1>2 DEF add_bytes
  <2>3. data \in Seq(Byte)
    BY PayloadsAssumption
  <2>4. TypeOK'
    <3>1. pending' \in [data : Seq(Byte), added : Nat]
      BY <2>2, <2>3 DEF TypeOK
    <3>2. (pending # NoBytes => pending.added < Len(pending.data))'
      BY <2>2, <2>3 DEF TypeOK, NoBytes
    <3> QED
      BY <2>1, <3>1, <3>2 DEF TypeOK, stream
  <2>5. CallsInProgress'
    BY <2>1 DEF CallsInProgress, stream
  <2> QED
    BY <1>b, <2>1, <2>4, <2>5
<1>3. ASSUME add_bytes_iteration PROVE IInv'
  <2>1. num_bits = 0 /\ num_bits' = num_bits /\ fetch' = fetch /\ pending # NoBytes
    BY <1>3 DEF add_bytes_iteration, CallsInProgress
  <2>2. ByteToAdd \in Byte
    <3>1. pending.data \in Seq(Byte) /\ pending.added + 1 \in 1 .. Len(pending.data)
      BY <2>1 DEF TypeOK
    <3> QED
      BY <3>1, ElementOfSeq DEF ByteToAdd
  <2>3. exi_data' \in Seq(Byte) /\ bit_counter' \in Nat /\ BytesMatchBits' /\ PaddingIsZero'
    BY <1>3, <2>1, <2>2, AddKeepsWriterState DEF add_bytes_iteration
  <2>4. \/ pending' = NoBytes
        \/ /\ pending.added + 1 < Len(pending.data)
           /\ pending' = [data |-> pending.data, added |-> pending.added + 1]
    BY <1>3 DEF add_bytes_iteration, MoreToAdd, TypeOK
  <2>5. /\ pending' \in [data : Seq(Byte), added : Nat]
        /\ pending' # NoBytes => pending'.added < Len(pending'.data)
    <3>1. pending.data \in Seq(Byte) /\ pending.added \in Nat
      BY DEF TypeOK
    <3>2. CASE pending' = NoBytes
      BY <3>2 DEF NoBytes
    <3>3. CASE /\ pending.added + 1 < Len(pending.data)
               /\ pending' = [data |-> pending.data, added |-> pending.added + 1]
      BY <3>1, <3>3
    <3> QED
      BY <2>4, <3>2, <3>3
  <2>6. TypeOK' /\ CallsInProgress'
    BY <2>1, <2>3, <2>5 DEF TypeOK, CallsInProgress
  <2> QED
    BY <2>3, <2>6
<1>4. ASSUME NEW n \in Requests, get_max_4bytes(n) PROVE IInv'
  <2>1. num_bits # 0 /\ UNCHANGED <<exi_data, num_bits, pending, fetch>> /\ bit_counter' = bit_counter + n
    BY <1>4 DEF get_max_4bytes
  <2>2. n \in Nat
    BY RequestsAssumption
  <2>3. TypeOK' /\ CallsInProgress'
    BY <2>1, <2>2 DEF TypeOK, CallsInProgress
  <2> QED
    BY <1>a, <2>1, <2>3
<1>5. ASSUME NEW n \in Fetches, NEW data_is_null \in BOOLEAN, get_next_n_bits(n, data_is_null)
      PROVE  IInv'
  <2>1. num_bits # 0 /\ UNCHANGED <<exi_data, bit_counter, num_bits, pending>>
    BY <1>5 DEF get_next_n_bits
  <2>2. n \in Nat
    BY FetchesAssumption
  <2>3. \/ fetch' = fetch
        \/ \E junk \in Junk : n # 0 /\ fetch' = [n |-> n, taken |-> 0,
             buffer |-> [k \in 0 .. (BufferSize(n) - 1) |-> junk[0]]]
    BY <1>5 DEF get_next_n_bits
  <2>4. TypeOK' /\ CallsInProgress'
    BY <2>1, <2>2, <2>3 DEF TypeOK, CallsInProgress
  <2> QED
    BY <1>a, <2>1, <2>4
<1>6. ASSUME get_next_n_bits_iteration PROVE IInv'
  <2>1. num_bits # 0 /\ UNCHANGED <<exi_data, num_bits, pending>> /\ bit_counter' = bit_counter + BitsToTake
    BY <1>6 DEF get_next_n_bits_iteration, CallsInProgress
  <2>2. fetch.n \in Nat /\ fetch.taken \in Nat /\ fetch.taken < fetch.n
    BY <1>6 DEF get_next_n_bits_iteration, TypeOK, CallsInProgress
  <2>3. BitsToTake \in Nat
    BY <2>2 DEF BitsToTake
  <2>4. \/ fetch' = NoFetch
        \/ \E buffer : /\ fetch.taken + BitsToTake < fetch.n
                       /\ fetch' = [n |-> fetch.n, taken |-> fetch.taken + BitsToTake, buffer |-> buffer]
    BY <1>6 DEF get_next_n_bits_iteration
  <2>5. /\ DOMAIN fetch' = {"n", "taken", "buffer"} /\ fetch'.n \in Nat /\ fetch'.taken \in Nat
        /\ fetch' # NoFetch => fetch'.taken < fetch'.n
    BY <2>2, <2>3, <2>4 DEF NoFetch
  <2>6. TypeOK' /\ CallsInProgress'
    BY <2>1, <2>3, <2>5 DEF TypeOK, CallsInProgress
  <2> QED
    BY <1>a, <2>1, <2>6
<1>7. CASE UNCHANGED vars
  <2>1. UNCHANGED stream /\ UNCHANGED pending /\ UNCHANGED fetch
    BY <1>7 DEF vars, stream
  <2>2. TypeOK' /\ CallsInProgress'
    BY <2>1 DEF TypeOK, CallsInProgress, stream
  <2> QED
    BY <1>b, <2>1, <2>2
<1> QED
  BY <1>1, <1>2, <1>3, <1>4, <1>5, <1>6, <1>7 DEF Next

(* The invariant holds in every reachable state.                            *)
LEMMA InvariantHolds == Spec => []IInv
<1> QED
  BY InitEstablishesIInv, NextKeepsIInv, PTL DEF Spec

(* The variables of a BitStream keep their types whatever is called.        *)
THEOREM TypeCorrect == Spec => []TypeOK
<1>1. IInv => TypeOK
  BY DEF IInv
<1> QED
  BY <1>1, InvariantHolds, PTL

(* get_exi_data never returns a byte too many or too few: the vector holds  *)
(* exactly the bytes of the bits written, for all fields of 1 to 8 bits in  *)
(* any order, too wide ones included.                                       *)
THEOREM BytesAlwaysMatchBits == Spec => []BytesMatchBits
<1>1. IInv => BytesMatchBits
  BY DEF IInv
<1> QED
  BY <1>1, InvariantHolds, PTL

(* The bits behind the last field are zero, so that the next "|=" stores    *)
(* its field unchanged and a finished message is padded with zeros.         *)
THEOREM PaddingAlwaysZero == Spec => []PaddingIsZero
<1>1. IInv => PaddingIsZero
  BY DEF IInv
<1> QED
  BY <1>1, InvariantHolds, PTL

(* Callers pass no byte with bits outside the field they add.               *)
CallsFit == \A call \in Calls : Fits(call[1], call[2])

(* A whole byte fits its field.                                             *)
LEMMA ByteFits == ASSUME NEW data \in Byte PROVE Fits(data, 8)
  BY DEF Fits

(* A field once written is never changed by a later call, provided callers  *)
(* pass fields that fit: base_types.cpp and the generated code do.          *)
THEOREM WrittenBitsAlwaysStay ==
  ASSUME CallsFit PROVE Spec => WrittenBitsStay
<1>1. IInv /\ [Next]_vars => [num_bits = 0 => \A k \in 0 .. (bit_counter - 1) : BitAt(k)' = BitAt(k)]_vars
  <2> SUFFICES ASSUME IInv, Next, num_bits = 0
               PROVE  \A k \in 0 .. (bit_counter - 1) : BitAt(k)' = BitAt(k)
    OBVIOUS
  <2> USE DEF IInv
  <2>1. ASSUME exi_data' = exi_data
        PROVE  \A k \in 0 .. (bit_counter - 1) : BitAt(k)' = BitAt(k)
    BY <2>1 DEF BitAt
  <2>2. ASSUME NEW call \in Calls, add_max_8bits(call[1], call[2])
        PROVE  \A k \in 0 .. (bit_counter - 1) : BitAt(k)' = BitAt(k)
    <3>1. exi_data' = exi_data \/ (call[2] \in 1 .. 8 /\ Add(call[1], call[2]))
      BY <2>2 DEF add_max_8bits, stream
    <3>2. call[1] \in Byte /\ Fits(call[1], call[2])
      BY CallsFit, CallsAssumption DEF CallsFit
    <3> QED
      BY <2>1, <3>1, <3>2, AddKeepsWrittenBits
  <2>3. ASSUME add_bytes_iteration
        PROVE  \A k \in 0 .. (bit_counter - 1) : BitAt(k)' = BitAt(k)
    <3>1. pending # NoBytes /\ Add(ByteToAdd, 8)
      BY <2>3 DEF add_bytes_iteration
    <3>2. ByteToAdd \in Byte
      <4>1. pending.data \in Seq(Byte) /\ pending.added + 1 \in 1 .. Len(pending.data)
        BY <3>1 DEF TypeOK
      <4> QED
        BY <4>1, ElementOfSeq DEF ByteToAdd
    <3>3. PICK data \in Byte, n \in 1 .. 8 : data = ByteToAdd /\ n = 8
      BY <3>2
    <3>4. Fits(data, n) /\ Add(data, n)
      BY <3>1, <3>3, ByteFits
    <3>5. TypeOK /\ BytesMatchBits /\ PaddingIsZero /\ num_bits = 0
      OBVIOUS
    <3> QED
      BY <3>4, <3>5, AddKeepsWrittenBits
  <2>4. ASSUME NEW data \in Payloads, add_bytes(data) PROVE exi_data' = exi_data
    BY <2>4 DEF add_bytes
  <2>5. ASSUME NEW n \in Requests, get_max_4bytes(n) PROVE exi_data' = exi_data
    BY <2>5 DEF get_max_4bytes
  <2>6. ASSUME NEW n \in Fetches, NEW data_is_null \in BOOLEAN, get_next_n_bits(n, data_is_null)
        PROVE  exi_data' = exi_data
    BY <2>6 DEF get_next_n_bits
  <2>7. ASSUME get_next_n_bits_iteration PROVE exi_data' = exi_data
    BY <2>7 DEF get_next_n_bits_iteration
  <2> QED
    BY <2>1, <2>2, <2>3, <2>4, <2>5, <2>6, <2>7 DEF Next
<1> QED
  BY <1>1, InvariantHolds, PTL DEF Spec, WrittenBitsStay

(***************************************************************************)
(* The callers' view: BitStream implements BitSequence.                    *)
(***************************************************************************)
(* The bits of a vector of bytes.                                           *)
BitOf(bytes, k) == bytes[(k \div 8) + 1][k % 8]

(* They are bits, as far as the vector reaches.                            *)
LEMMA BitsOfBytes ==
  ASSUME NEW bytes \in Seq(Byte), NEW k \in Nat, k < 8 * Len(bytes)
  PROVE  BitOf(bytes, k) \in Bit
<1>1. PICK q \in Nat, j \in 0 .. 7 : q = k \div 8 /\ j = k % 8 /\ k = 8 * q + j
  BY DivMod
<1>2. Len(bytes) \in Nat
  BY LenProperties
<1>3. q + 1 \in 1 .. Len(bytes)
  BY <1>1, <1>2
<1>4. bytes[q + 1] \in Byte
  BY <1>3, ElementOfSeq
<1> QED
  BY <1>1, <1>4 DEF BitOf, Byte

(* Bits behind bits.                                                        *)
LEMMA BitsBehind ==
  ASSUME NEW c \in Nat, NEW n \in Nat, NEW old \in [1 .. c -> Bit], NEW more \in [1 .. n -> Bit],
         NEW result \in [1 .. c + n -> Bit],
         \A k \in 1 .. c : result[k] = old[k],
         \A k \in 1 .. n : result[c + k] = more[k]
  PROVE  result = old \o more
<1>1. /\ old \in Seq(Bit) /\ Len(old) = c
      /\ more \in Seq(Bit) /\ Len(more) = n
      /\ result \in Seq(Bit) /\ Len(result) = c + n
  OBVIOUS
<1>2. PICK both \in Seq(Bit) : both = old \o more
  BY <1>1, ConcatProperties
<1>3. /\ Len(both) = c + n
      /\ \A k \in 1 .. c + n : both[k] = IF k <= c THEN old[k] ELSE more[k - c]
  BY <1>1, <1>2, ConcatProperties
<1>4. ASSUME NEW k \in 1 .. c + n PROVE result[k] = both[k]
  <2>1. CASE k <= c
    BY <1>3, <2>1
  <2>2. CASE ~(k <= c)
    <3>1. PICK j \in 1 .. n : k = c + j /\ k - c = j
      <4>1. k - c \in 1 .. n /\ k = c + (k - c)
        BY <2>2
      <4> QED
        BY <4>1
    <3>2. both[k] = more[k - c]
      BY <1>3, <2>2
    <3> QED
      BY <3>1, <3>2
  <2> QED
    BY <2>1, <2>2
<1>5. result = both
  BY <1>1, <1>3, <1>4, SeqEqual
<1> QED
  BY <1>2, <1>5

(* A call of add_max_8bits puts the field behind the bits already written.  *)
LEMMA FieldWritten ==
  ASSUME TypeOK, BytesMatchBits, PaddingIsZero, num_bits = 0,
         NEW data \in Byte, NEW n \in 1 .. 8, Fits(data, n), Add(data, n)
  PROVE  /\ exi_data' \in Seq(Byte)
         /\ 8 * Len(exi_data') >= bit_counter + n
         /\ \A k \in 0 .. (bit_counter - 1) : BitOf(exi_data', k) = BitOf(exi_data, k)
         /\ \A k \in 0 .. (n - 1) : BitOf(exi_data', bit_counter + k) = data[(8 - n) + k]
<1>1. bit_counter \in Nat
  BY DEF TypeOK
<1>2. PICK q \in Nat, r \in 0 .. 7 : bit_counter = 8 * q + r
  BY <1>1, DivMod
<1>3. PICK result : IsAdded(result, exi_data, q, r, data, n)
  BY DEF IsAdded
<1>4. exi_data' = result
  BY <1>2, <1>3 DEF Add, IsAdded
<1>5. Extends(result, exi_data, q, r, data, n) /\ Holds(result, exi_data, q, r, data, n)
  <2>1. /\ exi_data \in Seq(Byte)
        /\ Len(exi_data) = IF r = 0 THEN q ELSE q + 1
        /\ ZeroFrom(exi_data[q + 1], r) \/ r = 0
    BY <1>2, WriterState
  <2> QED
    BY <1>3, <2>1, AddedBytes
<1>6. result \in Seq(Byte) /\ 8 * Len(result) >= bit_counter + n
  <2>1. result \in Seq(Byte) /\ Len(result) = IF r + n <= 8 THEN q + 1 ELSE q + 2
    BY <1>5 DEF Extends
  <2>2. r \in Nat /\ r <= 7 /\ n \in Nat /\ n <= 8
    OBVIOUS
  <2>3. CASE r + n <= 8
    BY <1>2, <2>1, <2>2, <2>3
  <2>4. CASE ~(r + n <= 8)
    BY <1>2, <2>1, <2>2, <2>4
  <2> QED
    BY <2>3, <2>4
<1>7. \A k \in 0 .. (bit_counter - 1) : BitOf(result, k) = BitOf(exi_data, k)
  BY <1>4, AddKeepsWrittenBits DEF BitOf, BitAt
<1>8. ASSUME NEW k \in 0 .. (n - 1) PROVE BitOf(result, bit_counter + k) = data[(8 - n) + k]
  <2>1. CASE r + k < 8
    <3>1. (bit_counter + k) \div 8 = q /\ (bit_counter + k) % 8 = r + k
      BY <1>2, <2>1, SMT
    <3>2. r + k \in 0 .. 7 /\ r + k >= r /\ r + k < r + n
      BY <2>1
    <3>3. result[q + 1][r + k] = data[((r + k) - r) + (8 - n)]
      BY <1>5, <3>2 DEF Holds
    <3>4. ((r + k) - r) + (8 - n) = (8 - n) + k
      BY <1>2
    <3> QED
      BY <3>1, <3>3, <3>4 DEF BitOf
  <2>2. CASE r + k >= 8
    <3>1. (bit_counter + k) \div 8 = q + 1 /\ (bit_counter + k) % 8 = r + k - 8
      BY <1>2, <2>2, SMT
    <3>2. r + k - 8 \in 0 .. 7 /\ r + k - 8 < r + n - 8
      BY <2>2
    <3>3. result[q + 2][r + k - 8] = data[((r + k - 8) + 8 - r) + (8 - n)]
      BY <1>5, <3>2 DEF Holds
    <3>4. ((r + k - 8) + 8 - r) + (8 - n) = (8 - n) + k /\ (q + 1) + 1 = q + 2
      BY <1>2
    <3> QED
      BY <3>1, <3>3, <3>4 DEF BitOf
  <2> QED
    BY <2>1, <2>2
<1> QED
  BY <1>4, <1>6, <1>7, <1>8

(* The word at an address holds the bits of its four bytes.                 *)
LEMMA WordBits ==
  ASSUME exi_data \in Seq(Byte), NEW a \in Nat, NEW junk, NEW i \in 0 .. 31, 32 * a + i < 8 * Len(exi_data)
  PROVE  WordAt(a, junk)[i] = BitAt(32 * a + i)
<1>1. (32 * a + i) \div 8 = 4 * a + (i \div 8) /\ (32 * a + i) % 8 = i % 8
  BY SMT
<1>2. 4 * a + (i \div 8) < Len(exi_data)
  <2>1. Len(exi_data) \in Nat
    BY LenProperties
  <2> QED
    BY <2>1, SMT
<1> QED
  BY <1>1, <1>2 DEF WordAt, BitAt

(* The bits of shifted and masked words.                                    *)
LEMMA WordShifts ==
  ASSUME NEW v, NEW k \in Nat, NEW i \in 0 .. 31
  PROVE  /\ ShiftLeft(v, 32, k)[i] = IF i + k < 32 THEN v[i + k] ELSE 0
         /\ ShiftRight(v, 32, k)[i] = IF i >= k THEN v[i - k] ELSE 0
         /\ LowBits(v, 32, k)[i] = IF i >= 32 - k THEN v[i] ELSE 0
  BY DEF ShiftLeft, ShiftRight, LowBits

(* get_max_4bytes: the next n bits of the message, from one word or from    *)
(* two, whatever the memory behind the message holds.                       *)
LEMMA ExtractedBits ==
  ASSUME exi_data \in Seq(Byte), bit_counter \in Nat, NEW n \in 0 .. 32, NEW junk,
         bit_counter + n <= 8 * Len(exi_data)
  PROVE  Extracted(n, junk)
           = [i \in 0 .. 31 |-> IF i >= 32 - n THEN BitAt(bit_counter + (i - (32 - n))) ELSE 0]
<1>1. PICK a \in Nat, o \in 0 .. 31 : a = bit_counter \div 32 /\ bit_counter = 32 * a + o
  <2>1. bit_counter \div 32 \in Nat /\ bit_counter - 32 * (bit_counter \div 32) \in 0 .. 31
    BY SMT
  <2> QED
    BY <2>1
<1>2. PICK available \in Nat : available = 32 - (bit_counter - 32 * a)
  BY <1>1
<1>3. available = 32 - o /\ available \in 1 .. 32
  BY <1>1, <1>2
<1>4. PICK v1 : v1 = WordAt(a, junk)
  OBVIOUS
<1>5. PICK v2 : v2 = WordAt(a + 1, junk)
  OBVIOUS
<1>6. Len(exi_data) \in Nat
  BY LenProperties
<1>7. CASE n <= available
  <2>1. Extracted(n, junk) = LowBits(ShiftRight(v1, 32, available - n), 32, n)
    BY <1>1, <1>2, <1>4, <1>7 DEF Extracted
  <2>2. ASSUME NEW i \in 0 .. 31, i >= 32 - n
        PROVE  v1[i - (available - n)] = BitAt(bit_counter + (i - (32 - n)))
    <3>1. i - (available - n) \in 0 .. 31 /\ 32 * a + (i - (available - n)) = bit_counter + (i - (32 - n))
      BY <1>1, <1>3, <1>7, <2>2
    <3>2. 32 * a + (i - (available - n)) < 8 * Len(exi_data)
      BY <1>1, <1>6, <2>2, <3>1
    <3> QED
      BY <1>4, <3>1, <3>2, WordBits
  <2>3. ASSUME NEW i \in 0 .. 31, i >= 32 - n PROVE i >= available - n
    BY <1>3, <1>7, <2>3
  <2>4. PICK right : right = ShiftRight(v1, 32, available - n)
    OBVIOUS
  <2>5. ASSUME NEW i \in 0 .. 31
        PROVE  (IF i >= 32 - n THEN right[i] ELSE 0)
                 = IF i >= 32 - n THEN BitAt(bit_counter + (i - (32 - n))) ELSE 0
    <3>1. available - n \in Nat
      BY <1>3, <1>7
    <3>2. right[i] = IF i >= available - n THEN v1[i - (available - n)] ELSE 0
      BY <2>4, <3>1, WordShifts
    <3> QED
      BY <2>2, <2>3, <3>2
  <2>6. LowBits(right, 32, n) = [i \in 0 .. 31 |-> IF i >= 32 - n THEN right[i] ELSE 0]
    BY DEF LowBits
  <2> QED
    BY <2>1, <2>4, <2>5, <2>6
<1>8. CASE n > available
  <2>1. PICK remaining \in 1 .. 31 : remaining = n - available
    BY <1>3, <1>8
  <2>2. Extracted(n, junk)
          = BitOr(ShiftLeft(LowBits(v1, 32, available), 32, remaining),
                  LowBits(ShiftRight(v2, 32, 32 - remaining), 32, remaining), 32)
    BY <1>1, <1>2, <1>4, <1>5, <1>8, <2>1 DEF Extracted, Front
  <2>3. PICK high : high = ShiftLeft(LowBits(v1, 32, available), 32, remaining)
    OBVIOUS
  <2>4. PICK low : low = LowBits(ShiftRight(v2, 32, 32 - remaining), 32, remaining)
    OBVIOUS
  <2>5. ASSUME NEW i \in 0 .. 31
        PROVE  /\ i < 32 - n => high[i] = 0 /\ low[i] = 0
               /\ i >= 32 - n /\ i < 32 - remaining => high[i] = v1[i + remaining] /\ low[i] = 0
               /\ i >= 32 - remaining => high[i] = 0 /\ low[i] = v2[i - (32 - remaining)]
    <3>1. PICK front, below : front = LowBits(v1, 32, available) /\ below = ShiftRight(v2, 32, 32 - remaining)
      OBVIOUS
    <3>2. high[i] = IF i + remaining < 32 THEN front[i + remaining] ELSE 0
      <4>1. remaining \in Nat
        OBVIOUS
      <4> QED
        BY <2>3, <3>1, <4>1, WordShifts
    <3>3. i + remaining < 32 => front[i + remaining] = IF i + remaining >= 32 - available THEN v1[i + remaining] ELSE 0
      <4>1. PICK m \in Nat : m = i + remaining
        OBVIOUS
      <4>2. m < 32 => m \in 0 .. 31
        OBVIOUS
      <4>3. m < 32 => front[m] = IF m >= 32 - available THEN v1[m] ELSE 0
        BY <3>1, <4>2, WordShifts
      <4> QED
        BY <4>1, <4>3
    <3>4. low[i] = IF i >= 32 - remaining THEN below[i] ELSE 0
      <4>1. remaining \in Nat
        OBVIOUS
      <4> QED
        BY <2>4, <3>1, <4>1, WordShifts
    <3>5. below[i] = IF i >= 32 - remaining THEN v2[i - (32 - remaining)] ELSE 0
      <4>1. 32 - remaining \in Nat
        OBVIOUS
      <4> QED
        BY <3>1, <4>1, WordShifts
    <3>6. i + remaining < 32 <=> i < 32 - remaining
      OBVIOUS
    <3>7. i + remaining >= 32 - available <=> i >= 32 - n
      BY <1>3, <2>1
    <3>8. i < 32 - n => i < 32 - remaining
      BY <1>3, <2>1
    <3>9. i < 32 - remaining <=> ~(i >= 32 - remaining)
      OBVIOUS
    <3>10. i < 32 - n <=> ~(i >= 32 - n)
      OBVIOUS
    <3> QED
      BY <3>2, <3>3, <3>4, <3>5, <3>6, <3>7, <3>8, <3>9, <3>10
  <2>6. ASSUME NEW i \in 0 .. 31, i >= 32 - n, i < 32 - remaining
        PROVE  v1[i + remaining] = BitAt(bit_counter + (i - (32 - n)))
    <3>1. i + remaining \in 0 .. 31 /\ 32 * a + (i + remaining) = bit_counter + (i - (32 - n))
      BY <1>1, <1>3, <2>1, <2>6
    <3>2. 32 * a + (i + remaining) < 8 * Len(exi_data)
      BY <1>1, <1>6, <2>6, <3>1
    <3> QED
      BY <1>4, <3>1, <3>2, WordBits
  <2>7. ASSUME NEW i \in 0 .. 31, i >= 32 - remaining
        PROVE  v2[i - (32 - remaining)] = BitAt(bit_counter + (i - (32 - n)))
    <3>1. i - (32 - remaining) \in 0 .. 31
      BY <2>1, <2>7
    <3>2. 32 * (a + 1) + (i - (32 - remaining)) = bit_counter + (i - (32 - n)) /\ a + 1 \in Nat
      BY <1>1, <1>3, <2>1
    <3>3. 32 * (a + 1) + (i - (32 - remaining)) < 8 * Len(exi_data)
      BY <1>1, <1>6, <3>2
    <3>4. PICK b \in Nat, j \in 0 .. 31 : b = a + 1 /\ j = i - (32 - remaining)
      BY <3>1
    <3>5. 32 * b + j < 8 * Len(exi_data)
      BY <3>3, <3>4
    <3>6. v2[j] = BitAt(32 * b + j)
      BY <1>5, <3>4, <3>5, WordBits
    <3> QED
      BY <3>2, <3>4, <3>6
  <2>8. \A k \in Nat : k < 8 * Len(exi_data) => BitAt(k) \in Bit
    BY BitsOfBytes DEF BitOf, BitAt
  <2>9. ASSUME NEW i \in 0 .. 31
        PROVE  (IF high[i] = 1 \/ low[i] = 1 THEN 1 ELSE 0)
                 = IF i >= 32 - n THEN BitAt(bit_counter + (i - (32 - n))) ELSE 0
    <3>1. i >= 32 - n => BitAt(bit_counter + (i - (32 - n))) \in Bit
      <4>1. i >= 32 - n => bit_counter + (i - (32 - n)) \in Nat /\ bit_counter + (i - (32 - n)) < 8 * Len(exi_data)
        BY <1>6
      <4> QED
        BY <2>8, <4>1
    <3>2. CASE i < 32 - n
      <4>1. high[i] = 0 /\ low[i] = 0
        BY <2>5, <3>2
      <4> QED
        BY <3>2, <4>1
    <3>3. CASE i >= 32 - n /\ i < 32 - remaining
      <4>1. high[i] = BitAt(bit_counter + (i - (32 - n))) /\ low[i] = 0
        BY <2>5, <2>6, <3>3
      <4> QED
        BY <3>1, <3>3, <4>1 DEF Bit
    <3>4. CASE i >= 32 - remaining
      <4>1. high[i] = 0 /\ low[i] = BitAt(bit_counter + (i - (32 - n))) /\ i >= 32 - n
        <5>1. i >= 32 - n
          BY <1>3, <2>1, <3>4
        <5>2. v2[i - (32 - remaining)] = BitAt(bit_counter + (i - (32 - n)))
          BY <2>7, <3>4
        <5> QED
          BY <2>5, <3>4, <5>1, <5>2
      <4> QED
        BY <3>1, <4>1 DEF Bit
    <3> QED
      BY <2>1, <3>2, <3>3, <3>4
  <2> QED
    BY <2>2, <2>3, <2>4, <2>9 DEF BitOr
<1> QED
  BY <1>3, <1>7, <1>8

(* The eight bits of the message from position p on.                        *)
MessageByte(p) == [i \in 0 .. 7 |-> BitAt(p + i)]

(* The bytes of the message that a number of bits fills, and its padding.   *)
Filled(take)  == ((take - 1) \div 8) + 1
Padding(take) == 8 * Filled(take) - take

(* A chunk of more than 24 bits fills four bytes, whatever its size.        *)
LEMMA FilledBytes ==
  ASSUME NEW take \in 1 .. 32
  PROVE  /\ Filled(take) \in 1 .. 4 /\ Padding(take) \in 0 .. 7
         /\ take \in 1 .. 24 => Filled(take) <= 3
         /\ take \notin 1 .. 24 => Filled(take) = 4
         /\ Filled(take) = 3 <=> take \in 17 .. 24
  BY SMT DEF Filled, Padding

(* What is read, and where the call in progress began to read.              *)
MessageIs(bits, length) == /\ BitsOfStream = bits
                           /\ \A k \in Nat : k < length => bits[k + 1] = BitAt(k)
Position == IF num_bits = 0 THEN 0 ELSE bit_counter - fetch.taken

(* A buffer of get_next_n_bits: its size, the m whole words read into it    *)
(* from position pos of the message on, and the chunk behind them, read     *)
(* from position p on.                                                      *)
OfSize(buffer, size)            == buffer = [k \in 0 .. (size - 1) |-> buffer[k]]
WordsRead(buffer, size, pos, m) == \A k \in 0 .. (size - 1) : k < 4 * m => buffer[k] = MessageByte(pos + 8 * k)
ChunkRead(buffer, filled, p, m, padding) ==
  \A d \in 0 .. (filled - 1) :
    buffer[4 * m + d] = [i \in 0 .. 7 |-> IF 8 * d + i >= padding THEN BitAt(p + (8 * d + i - padding)) ELSE 0]

(* One turn of the loop of get_next_n_bits: the bits of the message from    *)
(* position p on are stored behind the words, but for a chunk of three      *)
(* bytes that is not the first.                                             *)
StoresChunk(result, buffer, size, m, take, p) ==
  /\ m \in Nat /\ take \in 1 .. 32 /\ p \in Nat /\ (take \in 17 .. 24 => m = 0)
  /\ size \in Nat /\ size >= 4 * m + Filled(take) /\ OfSize(buffer, size)
  /\ result = Stored(buffer, 32 * m, take,
                     [i \in 0 .. 31 |-> IF i >= 32 - take THEN BitAt(p + (i - (32 - take))) ELSE 0])

(* The bytes before stay, and the chunk follows them, right-aligned.        *)
LEMMA StoredBytes ==
  ASSUME NEW result, NEW buffer, NEW size, NEW m, NEW take, NEW p, StoresChunk(result, buffer, size, m, take, p)
  PROVE  /\ \A k \in 0 .. (size - 1) : k < 4 * m => result[k] = buffer[k]
         /\ ChunkRead(result, Filled(take), p, m, Padding(take))
<1>0. PICK value :
        /\ value = [i \in 0 .. 31 |-> IF i >= 32 - take THEN BitAt(p + (i - (32 - take))) ELSE 0]
        /\ result = Stored(buffer, 32 * m, take, value)
  BY DEF StoresChunk
<1>d. /\ m \in Nat /\ take \in 1 .. 32 /\ p \in Nat /\ (take \in 17 .. 24 => m = 0)
      /\ size \in Nat /\ size >= 4 * m + Filled(take) /\ DOMAIN buffer = 0 .. (size - 1)
  BY DEF StoresChunk, OfSize
<1> USE <1>0, <1>d
<1>1. PICK filled \in 1 .. 4 : filled = Filled(take)
  BY FilledBytes
<1>2. PICK pad \in 0 .. 7 : pad = Padding(take) /\ pad = 8 * filled - take
  BY <1>1, FilledBytes DEF Padding
<1>3. PICK first \in Nat : first = 4 * m
  OBVIOUS
<1>4. /\ (IF take \in 1 .. 24 THEN ((take - 1) \div 8) + 1 ELSE 4) = filled
  BY <1>1, FilledBytes DEF Filled
<1>5. (CASE filled = 1 -> (32 * m) \div 8
         [] filled = 2 -> 2 * ((32 * m) \div 16)
         [] filled = 3 -> (32 * m) \div 32
         [] filled = 4 -> 4 * ((32 * m) \div 32)) = first
  <2>1. (32 * m) \div 8 = first /\ 2 * ((32 * m) \div 16) = first /\ 4 * ((32 * m) \div 32) = first
    BY <1>3, SMT
  <2>2. filled = 3 => (32 * m) \div 32 = first
    <3>1. filled = 3 => m = 0
      BY <1>1, FilledBytes
    <3> QED
      BY <1>3, <3>1, SMT
  <2>3. filled = 1 \/ filled = 2 \/ filled = 3 \/ filled = 4
    OBVIOUS
  <2> QED
    BY <2>1, <2>2, <2>3
<1>6. result = [k \in 0 .. (size - 1) |->
                 IF k \in first .. (first + filled - 1)
                 THEN [i \in 0 .. 7 |-> value[32 - 8 * filled + 8 * (k - first) + i]]
                 ELSE buffer[k]]
  <2> DEFINE s == IF take \in 1 .. 24 THEN ((take - 1) \div 8) + 1 ELSE 4
             f == CASE s = 1 -> (32 * m) \div 8
                    [] s = 2 -> 2 * ((32 * m) \div 16)
                    [] s = 3 -> (32 * m) \div 32
                    [] s = 4 -> 4 * ((32 * m) \div 32)
             Shape(S, F) == [k \in DOMAIN buffer |->
                               IF k \in F .. (F + S - 1) THEN [i \in 0 .. 7 |-> value[32 - 8 * S + 8 * (k - F) + i]]
                               ELSE buffer[k]]
  <2>1. result = Shape(s, f)
    BY Zenon DEF Stored
  <2> HIDE DEF Shape
  <2>2. s = filled
    BY <1>4
  <2> HIDE DEF s
  <2>3. f = first
    BY <1>5, <2>2
  <2> HIDE DEF f
  <2>4. result = Shape(filled, first)
    BY <2>1, <2>2, <2>3
  <2> QED
    BY <2>4 DEF Shape
<1>8. ASSUME NEW k \in 0 .. (size - 1), k < 4 * m PROVE result[k] = buffer[k]
  <2>1. k \notin first .. (first + filled - 1)
    BY <1>3, <1>8
  <2> QED
    BY <1>6, <2>1
<1>9. ASSUME NEW d \in 0 .. (Filled(take) - 1)
      PROVE  result[4 * m + d] = [i \in 0 .. 7 |-> IF 8 * d + i >= Padding(take)
                                                   THEN BitAt(p + (8 * d + i - Padding(take))) ELSE 0]
  <2>0. PICK k \in Nat : k = 4 * m + d /\ 4 * m + d = k
    OBVIOUS
  <2>1. k \in 0 .. (size - 1) /\ k \in first .. (first + filled - 1)
    BY <1>1, <1>3, <2>0
  <2>2. d \in 0 .. 3 /\ d = k - first /\ d < filled
    <3>1. d \in 0 .. (filled - 1)
      BY <1>1
    <3>2. d \in 0 .. 3 /\ d < filled
      BY <3>1
    <3>3. d = k - first
      BY <1>3, <2>0, <3>1
    <3> QED
      BY <3>2, <3>3
  <2>3. result[k] = [i \in 0 .. 7 |-> value[32 - 8 * filled + 8 * (k - first) + i]]
    BY <1>6, <2>1
  <2>4. ASSUME NEW i \in 0 .. 7
        PROVE  value[32 - 8 * filled + 8 * (k - first) + i]
                 = IF 8 * d + i >= pad THEN BitAt(p + (8 * d + i - pad)) ELSE 0
    <3>1. PICK j \in 0 .. 31 : j = 32 - 8 * filled + 8 * (k - first) + i
      <4>1. 32 - 8 * filled + 8 * d + i \in 0 .. 31
        BY <2>2
      <4>2. 32 - 8 * filled + 8 * (k - first) + i = 32 - 8 * filled + 8 * d + i
        BY <2>2
      <4> QED
        BY <4>1, <4>2
    <3>2. value[j] = IF j >= 32 - take THEN BitAt(p + (j - (32 - take))) ELSE 0
      OBVIOUS
    <3>3. j - (32 - take) = 8 * d + i - pad
      BY <1>2, <2>2, <3>1
    <3>4. j >= 32 - take <=> 8 * d + i >= pad
      BY <1>2, <2>2, <3>1
    <3> QED
      BY <3>1, <3>2, <3>3, <3>4
  <2>5. result[k] = [i \in 0 .. 7 |-> IF 8 * d + i >= pad THEN BitAt(p + (8 * d + i - pad)) ELSE 0]
    <3> DEFINE A(i) == value[32 - 8 * filled + 8 * (k - first) + i]
               B(i) == IF 8 * d + i >= pad THEN BitAt(p + (8 * d + i - pad)) ELSE 0
    <3>1. \A i \in 0 .. 7 : A(i) = B(i)
      BY <2>4
    <3>2. result[k] = [i \in 0 .. 7 |-> A(i)]
      BY <2>3
    <3> HIDE DEF A, B
    <3>3. result[k] = [i \in 0 .. 7 |-> B(i)]
      BY <3>1, <3>2
    <3> QED
      BY <3>3 DEF B
  <2> QED
    BY <1>2, <2>0, <2>5
<1> QED
  BY <1>8, <1>9 DEF ChunkRead

(* Where a chunk lies among the bytes of a request of which it is the last. *)
IsLast(n, m, take) == n \in Nat /\ m \in Nat /\ take \in 1 .. 32 /\ n = 32 * m + take

(* Its place, its padding and the number of bytes.                          *)
LEMMA LastChunk ==
  ASSUME NEW n, NEW m, NEW take, IsLast(n, m, take)
  PROVE  /\ 32 * (n \div 32) = IF take = 32 THEN 32 * m + take ELSE 32 * m
         /\ (8 - (n % 8)) % 8 = Padding(take)
         /\ (n + 7) \div 8 = 4 * m + Filled(take)
         /\ BufferSize(n) = 4 * m + Filled(take)
  BY SMT DEF IsLast, Padding, Filled, BufferSize

(* The bits of the message in the stream's sequence of bits.                *)
LEMMA MessageBits ==
  ASSUME exi_data \in Seq(Byte), num_bits = 8 * Len(exi_data), num_bits # 0
  PROVE  /\ num_bits \in Nat
         /\ BitsOfStream = [k \in 1 .. num_bits |-> BitAt(k - 1)]
         /\ \A k \in Nat : k < num_bits => BitsOfStream[k + 1] = BitAt(k)
         /\ BitsOfStream \in Seq(Bit)
         /\ Len(BitsOfStream) = num_bits
<1>1. num_bits \in Nat
  <2>1. Len(exi_data) \in Nat
    BY LenProperties
  <2> QED
    BY <2>1
<1>2. BitsOfStream = [k \in 1 .. num_bits |-> BitAt(k - 1)]
  BY DEF BitsOfStream
<1>3. ASSUME NEW k \in Nat, k < num_bits PROVE BitsOfStream[k + 1] = BitAt(k)
  <2>1. k + 1 \in 1 .. num_bits /\ (k + 1) - 1 = k
    BY <1>1, <1>3
  <2> QED
    BY <1>2, <2>1
<1>4. ASSUME NEW k \in 1 .. num_bits PROVE BitAt(k - 1) \in Bit
  <2>1. k - 1 \in Nat /\ k - 1 < 8 * Len(exi_data)
    BY <1>1
  <2> QED
    BY <2>1, BitsOfBytes DEF BitOf, BitAt
<1>5. BitsOfStream \in [1 .. num_bits -> Bit]
  BY <1>2, <1>4
<1> QED
  BY <1>1, <1>2, <1>3, <1>5

(* Whole words and a last chunk, put together.                              *)
IsJoined(byte, k, d, bits, pos, m, take, filled, padding, whole) ==
  /\ pos \in Nat /\ m \in Nat /\ take \in 1 .. 32 /\ filled \in 1 .. 4 /\ padding \in 0 .. 7
  /\ 8 * filled = take + padding /\ whole = IF take = 32 THEN 32 * m + take ELSE 32 * m
  /\ k \in Nat /\ d \in Int /\ d = k - 4 * m /\ d < filled
  /\ k < 4 * m => byte = [i \in 0 .. 7 |-> bits[pos + (8 * k + i) + 1]]
  /\ d >= 0 => byte = [i \in 0 .. 7 |-> IF 8 * d + i >= padding
                                        THEN bits[pos + 32 * m + (8 * d + i - padding) + 1] ELSE 0]

(* It is the byte that BitSequence returns there.                           *)
LEMMA BytesJoined ==
  ASSUME NEW byte, NEW k, NEW d, NEW bits, NEW pos, NEW m, NEW take, NEW filled, NEW padding, NEW whole,
         IsJoined(byte, k, d, bits, pos, m, take, filled, padding, whole)
  PROVE  byte = [i \in 0 .. 7 |-> IF 8 * k + i < whole THEN bits[pos + (8 * k + i) + 1]
                                  ELSE IF 8 * k + i - padding < whole THEN 0
                                  ELSE bits[pos + (8 * k + i - padding) + 1]]
<1> USE DEF IsJoined
<1>1. CASE k < 4 * m
  <2>1. \A i \in 0 .. 7 : 8 * k + i < whole
    BY <1>1
  <2> QED
    BY <1>1, <2>1
<1>2. CASE d >= 0 /\ take = 32
  <2>1. padding = 0
    BY <1>2
  <2>2. \A i \in 0 .. 7 : /\ 8 * k + i < whole /\ 8 * d + i >= padding
                          /\ pos + 32 * m + (8 * d + i - padding) + 1 = pos + (8 * k + i) + 1
    BY <1>2, <2>1
  <2> QED
    BY <1>2, <2>2
<1>3. CASE d >= 0 /\ take # 32
  <2>1. \A i \in 0 .. 7 : /\ ~(8 * k + i < whole)
                          /\ 8 * k + i - padding < whole <=> ~(8 * d + i >= padding)
                          /\ pos + 32 * m + (8 * d + i - padding) + 1 = pos + (8 * k + i - padding) + 1
    BY <1>3
  <2> QED
    BY <1>3, <2>1
<1> QED
  BY <1>1, <1>2, <1>3

(* The bytes that get_next_n_bits returns when its last chunk is stored     *)
(* behind the whole words it has read before.                               *)
LEMMA BytesRead ==
  ASSUME NEW length \in Nat, NEW bits, MessageIs(bits, length), NEW n, NEW m, NEW take, IsLast(n, m, take),
         NEW pos \in Nat, Position = pos, pos + n <= length,
         NEW result, OfSize(result, BufferSize(n)), WordsRead(result, BufferSize(n), pos, m),
         ChunkRead(result, Filled(take), pos + 32 * m, m, Padding(take))
  PROVE  result = Sequence!BytesAt(n)
<1>n. n \in Nat /\ m \in Nat /\ take \in 1 .. 32
  BY DEF IsLast
<1>1. PICK size \in Nat, filled \in 1 .. 4, padding \in 0 .. 7 :
        /\ filled = Filled(take) /\ padding = Padding(take) /\ size = BufferSize(n) /\ size = 4 * m + filled
        /\ 8 * filled = take + padding /\ (n + 7) \div 8 = size /\ (8 - (n % 8)) % 8 = padding
  <2>1. /\ (8 - (n % 8)) % 8 = Padding(take) /\ (n + 7) \div 8 = 4 * m + Filled(take)
        /\ BufferSize(n) = 4 * m + Filled(take)
    BY LastChunk
  <2>2. PICK filled \in 1 .. 4, padding \in 0 .. 7 : filled = Filled(take) /\ padding = Padding(take)
    BY <1>n, FilledBytes
  <2>3. 8 * filled = take + padding
    BY <1>n, <2>2 DEF Padding
  <2>4. 4 * m + filled \in Nat
    BY <1>n
  <2> QED
    BY <2>1, <2>2, <2>3, <2>4, Zenon
<1>s. /\ OfSize(result, size) /\ WordsRead(result, size, pos, m)
      /\ ChunkRead(result, filled, pos + 32 * m, m, padding)
  BY <1>1, Zenon
<1> USE <1>n, <1>s
<1>2. PICK whole : whole = 32 * (n \div 32) /\ whole = IF take = 32 THEN 32 * m + take ELSE 32 * m
  BY LastChunk
<1>5. ASSUME NEW k \in Nat, k < length PROVE bits[k + 1] = BitAt(k)
  BY <1>5, Zenon DEF MessageIs
<1>6. Sequence!BytesAt(n)
        = [k \in 0 .. (size - 1) |-> [i \in 0 .. 7 |-> IF 8 * k + i < whole THEN bits[pos + (8 * k + i) + 1]
                                                       ELSE IF 8 * k + i - padding < whole THEN 0
                                                       ELSE bits[pos + (8 * k + i - padding) + 1]]]
  <2> DEFINE Shape(b, at, w, p, s) ==
               [j \in 0 .. (s - 1) |-> [i \in 0 .. 7 |-> IF 8 * j + i < w THEN b[at + (8 * j + i) + 1]
                                                         ELSE IF 8 * j + i - p < w THEN 0
                                                         ELSE b[at + (8 * j + i - p) + 1]]]
  <2> DEFINE start == IF num_bits = 0 THEN 0 ELSE bit_counter - fetch.taken
  <2>0. Sequence!BytesAt(n) = Shape(BitsOfStream, start, 32 * (n \div 32), (8 - (n % 8)) % 8, (n + 7) \div 8)
    BY DEF Sequence!BytesAt
  <2>1. start = pos
    BY DEF Position
  <2> HIDE DEF start
  <2>2. BitsOfStream = bits
    BY Zenon DEF MessageIs
  <2> HIDE DEF Shape
  <2>3. Sequence!BytesAt(n) = Shape(bits, pos, whole, padding, size)
    BY <1>1, <1>2, <2>0, <2>1, <2>2, Zenon
  <2> QED
    BY <2>3, Zenon DEF Shape
<1>7. ASSUME NEW k \in 0 .. (size - 1)
      PROVE  result[k] = [i \in 0 .. 7 |-> IF 8 * k + i < whole THEN bits[pos + (8 * k + i) + 1]
                                           ELSE IF 8 * k + i - padding < whole THEN 0
                                           ELSE bits[pos + (8 * k + i - padding) + 1]]
  <2>1. PICK d \in Int : d = k - 4 * m /\ d < filled
    <3>1. k - 4 * m \in Int /\ k - 4 * m < filled
      BY <1>1
    <3> QED
      BY <3>1, Zenon
  <2>2. pos + (32 * m + take) <= length
    BY DEF IsLast
  <2>3. ASSUME k < 4 * m PROVE result[k] = [i \in 0 .. 7 |-> bits[pos + (8 * k + i) + 1]]
    <3>1. result[k] = [i \in 0 .. 7 |-> BitAt(pos + 8 * k + i)]
      BY <2>3, Zenon DEF MessageByte, WordsRead
    <3>2. ASSUME NEW i \in 0 .. 7 PROVE BitAt(pos + 8 * k + i) = bits[pos + (8 * k + i) + 1]
      <4>1. pos + (8 * k + i) \in Nat /\ pos + (8 * k + i) < length /\ pos + 8 * k + i = pos + (8 * k + i)
        BY <2>2, <2>3, SMT
      <4> QED
        BY <1>5, <4>1, Zenon
    <3> QED
      BY <3>1, <3>2, Zenon
  <2>4. ASSUME d >= 0
        PROVE  result[k] = [i \in 0 .. 7 |-> IF 8 * d + i >= padding
                                             THEN bits[pos + 32 * m + (8 * d + i - padding) + 1] ELSE 0]
    <3>1. result[k] = [i \in 0 .. 7 |-> IF 8 * d + i >= padding
                                        THEN BitAt(pos + 32 * m + (8 * d + i - padding)) ELSE 0]
      <4>1. d \in 0 .. (filled - 1) /\ k = 4 * m + d
        BY <2>1, <2>4
      <4> QED
        BY <4>1, Zenon DEF ChunkRead
    <3>2. ASSUME NEW i \in 0 .. 7, 8 * d + i >= padding
          PROVE  BitAt(pos + 32 * m + (8 * d + i - padding)) = bits[pos + 32 * m + (8 * d + i - padding) + 1]
      <4>1. PICK at \in Nat : at = pos + 32 * m + (8 * d + i - padding) /\ at < length
        <5>1. pos + 32 * m + (8 * d + i - padding) \in Nat
          BY <3>2
        <5>2. 8 * d + i - padding < take
          BY <1>1, <2>1
        <5>3. pos + 32 * m + (8 * d + i - padding) < length
          BY <2>2, <5>2
        <5> QED
          BY <5>1, <5>3, Zenon
      <4> QED
        BY <1>5, <4>1, Zenon
    <3> QED
      BY <3>1, <3>2, Zenon
  <2>5. k \in Nat
    BY SMT
  <2> QED
    <3>1. PICK byte : byte = result[k]
      OBVIOUS
    <3>2. /\ k < 4 * m => byte = [i \in 0 .. 7 |-> bits[pos + (8 * k + i) + 1]]
          /\ d >= 0 => byte = [i \in 0 .. 7 |-> IF 8 * d + i >= padding
                                                THEN bits[pos + 32 * m + (8 * d + i - padding) + 1] ELSE 0]
      BY <2>3, <2>4, <3>1, Zenon
    <3>3. byte = [i \in 0 .. 7 |-> IF 8 * k + i < whole THEN bits[pos + (8 * k + i) + 1]
                                   ELSE IF 8 * k + i - padding < whole THEN 0
                                   ELSE bits[pos + (8 * k + i - padding) + 1]]
      <4>1. IsJoined(byte, k, d, bits, pos, m, take, filled, padding, whole)
        BY <1>1, <1>2, <2>1, <2>5, <3>2, Zenon DEF IsJoined
      <4> QED
        BY <4>1, BytesJoined
    <3> QED
      BY <3>1, <3>3, Zenon
<1> QED
  BY <1>6, <1>7, Zenon DEF OfSize

(***************************************************************************)
(* The states.                                                             *)
(***************************************************************************)

(* The first bits of a vector of bytes.                                     *)
SeqOf(bytes, count) == [k \in 1 .. count |-> BitOf(bytes, k - 1)]

(* The bytes that add_bytes has added are the last ones of the stream.      *)
PendingAdded ==
  pending # NoBytes =>
    /\ pending.data \in Payloads
    /\ 8 * pending.added <= bit_counter
    /\ \A k \in 0 .. (8 * pending.added - 1) :
         BitOf(exi_data, (bit_counter - 8 * pending.added) + k) = BitOf(pending.data, k)

(* get_next_n_bits has read whole words, and they are the message's unless  *)
(* the request goes beyond its end.                                         *)
WordsOf(m) ==
  /\ fetch.taken = 32 * m /\ 32 * m <= bit_counter
  /\ OfSize(fetch.buffer, BufferSize(fetch.n))
  /\ (bit_counter - 32 * m) + fetch.n <= num_bits =>
       WordsRead(fetch.buffer, BufferSize(fetch.n), bit_counter - 32 * m, m)
FetchStored == fetch # NoFetch => fetch.n \in Fetches /\ \E m \in Nat : WordsOf(m)

(* What the refinement needs to know of the states it is about.             *)
RInv == IInv /\ PendingAdded /\ FetchStored

(* No request ends in a chunk of three bytes behind a whole word: the index *)
(* of their store is wrong (bitstream.cpp:47).                              *)
FetchesStored == \A n \in Fetches : n <= 24 \/ n % 32 \notin 17 .. 24

(* A stream that grows by bits at its end.                                  *)
GrowsBy(new, old, c, n, more) ==
  /\ old \in Seq(Byte) /\ new \in Seq(Byte) /\ c \in Nat /\ n \in Nat /\ more \in [1 .. n -> Bit]
  /\ 8 * Len(old) >= c /\ 8 * Len(new) >= c + n
  /\ \A k \in 0 .. (c - 1) : BitOf(new, k) = BitOf(old, k)
  /\ \A k \in 0 .. (n - 1) : BitOf(new, c + k) = more[k + 1]

(* It is the sequence before and the new bits behind it.                    *)
LEMMA Grown ==
  ASSUME NEW old, NEW new, NEW c, NEW n, NEW more, GrowsBy(new, old, c, n, more)
  PROVE  SeqOf(new, c + n) = SeqOf(old, c) \o more
<1> USE DEF GrowsBy
<1>1. Len(old) \in Nat /\ Len(new) \in Nat
  BY LenProperties
<1>2. ASSUME NEW k \in 1 .. c PROVE SeqOf(old, c)[k] = BitOf(old, k - 1) /\ BitOf(old, k - 1) \in Bit
  <2>1. k - 1 \in Nat /\ k - 1 < 8 * Len(old)
    BY <1>1
  <2> QED
    BY <2>1, BitsOfBytes DEF SeqOf
<1>3. ASSUME NEW k \in 1 .. c + n PROVE SeqOf(new, c + n)[k] = BitOf(new, k - 1) /\ BitOf(new, k - 1) \in Bit
  <2>1. k - 1 \in Nat /\ k - 1 < 8 * Len(new)
    BY <1>1
  <2> QED
    BY <2>1, BitsOfBytes DEF SeqOf
<1>4. PICK a, b : a = SeqOf(old, c) /\ b = SeqOf(new, c + n)
  OBVIOUS
<1>5. a \in [1 .. c -> Bit] /\ b \in [1 .. c + n -> Bit]
  BY <1>2, <1>3, <1>4 DEF SeqOf
<1>6. ASSUME NEW k \in 1 .. c PROVE b[k] = a[k]
  <2>1. k - 1 \in 0 .. (c - 1) /\ k \in 1 .. c + n
    OBVIOUS
  <2> QED
    BY <1>2, <1>3, <1>4, <2>1
<1>7. ASSUME NEW k \in 1 .. n PROVE b[c + k] = more[k]
  <2>1. k - 1 \in 0 .. (n - 1) /\ c + k \in 1 .. c + n /\ (c + k) - 1 = c + (k - 1) /\ (k - 1) + 1 = k
    OBVIOUS
  <2>2. b[c + k] = BitOf(new, c + (k - 1))
    BY <1>3, <1>4, <2>1
  <2>3. BitOf(new, c + (k - 1)) = more[(k - 1) + 1]
    BY <2>1
  <2> QED
    BY <2>1, <2>2, <2>3
<1>8. b = a \o more
  BY <1>5, <1>6, <1>7, BitsBehind
<1> QED
  BY <1>4, <1>8

(* What a writer's caller sees, and a reader's.                             *)
LEMMA Seen ==
  /\ num_bits = 0 => BitsOfStream = SeqOf(exi_data, bit_counter - 8 * pending.added)
  /\ num_bits' = 0 => BitsOfStream' = SeqOf(exi_data', bit_counter' - 8 * pending'.added)
  /\ num_bits # 0 /\ UNCHANGED <<exi_data, num_bits>> => BitsOfStream' = BitsOfStream
  /\ UNCHANGED <<stream, pending>> => BitsOfStream' = BitsOfStream
  BY DEF BitsOfStream, SeqOf, BitOf, BitAt, stream

(* add_max_8bits: refused, or the field is put behind the others.           *)
LEMMA AddRefines ==
  ASSUME RInv, CallsFit, NEW call \in Calls, add_max_8bits(call[1], call[2])
  PROVE  [Sequence!Next]_(Sequence!vars) /\ PendingAdded' /\ FetchStored'
<1>1. num_bits = 0 /\ pending = NoBytes /\ fetch = NoFetch /\ UNCHANGED <<pending, fetch>>
  BY DEF add_max_8bits, Idle
<1>2. PendingAdded' /\ FetchStored'
  BY <1>1 DEF PendingAdded, FetchStored
<1>3. CASE UNCHANGED stream /\ last'.status \in {"invalid_argument", "range_error"}
  <2>1. BitsOfStream' = BitsOfStream /\ num_bits' = num_bits
    BY <1>1, <1>3, Seen DEF stream
  <2>2. Sequence!Reject
    BY <1>1, <1>3, <2>1 DEF Sequence!Reject
  <2> QED
    BY <1>2, <2>2 DEF Sequence!Next
<1>4. CASE call[2] \in 1 .. 8 /\ Add(call[1], call[2]) /\ Returns("add_max_8bits", call[2], "ok", call[1]) /\ UNCHANGED num_bits
  <2>1. PICK data \in Byte, n \in 1 .. 8 : data = call[1] /\ n = call[2]
    BY <1>4, CallsAssumption
  <2>2. Add(data, n) /\ Fits(data, n)
    BY <1>4, <2>1 DEF CallsFit
  <2>3. /\ exi_data' \in Seq(Byte)
        /\ 8 * Len(exi_data') >= bit_counter + n
        /\ \A k \in 0 .. (bit_counter - 1) : BitOf(exi_data', k) = BitOf(exi_data, k)
        /\ \A k \in 0 .. (n - 1) : BitOf(exi_data', bit_counter + k) = data[(8 - n) + k]
    BY <1>1, <2>2, FieldWritten DEF RInv, IInv
  <2>4. PICK field \in [1 .. n -> Bit] : field = Field(data, n)
    <3>1. \A i \in 1 .. n : (8 - n) + (i - 1) \in 0 .. 7
      OBVIOUS
    <3> QED
      BY <3>1 DEF Field, Byte
  <2>5. ASSUME NEW k \in 0 .. (n - 1) PROVE BitOf(exi_data', bit_counter + k) = field[k + 1]
    <3>1. k + 1 \in 1 .. n /\ (8 - n) + ((k + 1) - 1) = (8 - n) + k
      OBVIOUS
    <3>2. field[k + 1] = data[(8 - n) + k]
      BY <2>4, <3>1 DEF Field
    <3> QED
      BY <2>3, <3>2
  <2>6. PICK c \in Nat : c = bit_counter /\ exi_data \in Seq(Byte) /\ 8 * Len(exi_data) >= c
    <3>1. bit_counter \in Nat /\ exi_data \in Seq(Byte) /\ Len(exi_data) \in Nat
      BY LenProperties DEF RInv, IInv, TypeOK
    <3>2. Len(exi_data) = (bit_counter + 7) \div 8
      BY <1>1 DEF RInv, IInv, BytesMatchBits
    <3> QED
      BY <3>1, <3>2
  <2>7. SeqOf(exi_data', c + n) = SeqOf(exi_data, c) \o field
    <3>1. PICK before \in Seq(Byte), after \in Seq(Byte) : before = exi_data /\ after = exi_data'
      BY <2>3, <2>6
    <3>2. SeqOf(after, c + n) = SeqOf(before, c) \o field
      <4>1. 8 * Len(before) >= c /\ 8 * Len(after) >= c + n
        BY <2>3, <2>6, <3>1
      <4>2. n \in Nat
        OBVIOUS
      <4>3. GrowsBy(after, before, c, n, field)
        BY <2>3, <2>5, <2>6, <3>1, <4>1, <4>2 DEF GrowsBy
      <4> QED
        BY <4>3, Grown
    <3> QED
      BY <3>1, <3>2
  <2>8. BitsOfStream = SeqOf(exi_data, c) /\ BitsOfStream' = SeqOf(exi_data', c + n)
    <3>1. pending.added = 0 /\ pending'.added = 0 /\ num_bits' = 0
      BY <1>1, <1>4 DEF NoBytes
    <3>2. bit_counter' = c + n /\ c + n - 8 * 0 = c + n /\ c - 8 * 0 = c
      BY <2>2, <2>6 DEF Add
    <3> QED
      BY <1>1, <2>6, <3>1, <3>2, Seen
  <2>9. Sequence!Put(data, n)
    <3>1. BitsOfStream' = BitsOfStream \o Field(data, n)
      BY <2>4, <2>7, <2>8
    <3>2. num_bits' = 0
      BY <1>1, <1>4
    <3>3. last' = [op |-> "add_max_8bits", n |-> n, status |-> "ok", value |-> data]
      BY <1>4, <2>1 DEF Returns
    <3> QED
      BY <1>1, <3>1, <3>2, <3>3 DEF Sequence!Put, Sequence!Field, Field
  <2>10. data \in {other[1] : other \in Calls}
    BY <2>1
  <2> QED
    BY <1>2, <2>9, <2>10 DEF Sequence!Next
<1> QED
  BY <1>2, <1>3, <1>4 DEF add_max_8bits, Returns

(* add_bytes: nothing is seen before the last byte is added.                *)
LEMMA AddBytesRefines ==
  ASSUME RInv, NEW data \in Payloads, add_bytes(data)
  PROVE  [Sequence!Next]_(Sequence!vars) /\ PendingAdded' /\ FetchStored'
<1>1. num_bits = 0 /\ pending = NoBytes /\ fetch = NoFetch /\ UNCHANGED <<exi_data, bit_counter, num_bits, fetch>>
  BY DEF add_bytes, Idle
<1>2. FetchStored'
  BY <1>1 DEF FetchStored
<1>3. pending.added = 0
  BY <1>1 DEF NoBytes
<1>4. CASE data = <<>>
  <2>1. pending' = pending /\ Returns("add_bytes", 0, "ok", data)
    BY <1>4 DEF add_bytes
  <2>2. PendingAdded'
    BY <1>1, <2>1 DEF PendingAdded
  <2>3. BitsOfStream' = BitsOfStream
    BY <1>1, <2>1, Seen DEF stream
  <2>4. PICK bits : bits = BitsOfStream
    OBVIOUS
  <2>5. bits \o [k \in 1 .. 8 * Len(data) |-> data[((k - 1) \div 8) + 1][(k - 1) % 8]] = bits /\ 8 * Len(data) = 0
    <3>1. bits \in Seq(Bit)
      <4>1. PICK c \in Nat : c = bit_counter /\ exi_data \in Seq(Byte) /\ 8 * Len(exi_data) >= c
        <5>1. bit_counter \in Nat /\ exi_data \in Seq(Byte) /\ Len(exi_data) \in Nat
          BY LenProperties DEF RInv, IInv, TypeOK
        <5>2. Len(exi_data) = (bit_counter + 7) \div 8
          BY <1>1 DEF RInv, IInv, BytesMatchBits
        <5> QED
          BY <5>1, <5>2
      <4>2. bits = SeqOf(exi_data, c)
        <5>1. c - 8 * 0 = c
          OBVIOUS
        <5> QED
          BY <1>1, <1>3, <2>4, <4>1, <5>1, Seen
      <4>3. ASSUME NEW k \in 1 .. c PROVE BitOf(exi_data, k - 1) \in Bit
        <5>1. Len(exi_data) \in Nat
          BY <4>1, LenProperties
        <5>2. k - 1 \in Nat /\ k - 1 < 8 * Len(exi_data)
          BY <4>1, <5>1
        <5> QED
          BY <4>1, <5>2, BitsOfBytes
      <4> QED
        BY <4>2, <4>3 DEF SeqOf
    <3>2. 8 * Len(data) = 0
      BY <1>4
    <3>3. [k \in 1 .. 8 * Len(data) |-> data[((k - 1) \div 8) + 1][(k - 1) % 8]] = <<>>
      BY <3>2
    <3>4. bits \o <<>> = bits
      BY <3>1
    <3> QED
      BY <3>2, <3>3, <3>4
  <2>6. Sequence!PutBytes(data)
    BY <1>1, <2>1, <2>3, <2>4, <2>5 DEF Sequence!PutBytes, Returns
  <2> QED
    BY <1>2, <2>2, <2>6 DEF Sequence!Next
<1>5. CASE data # <<>>
  <2>1. pending' = [data |-> data, added |-> 0] /\ UNCHANGED last
    BY <1>5 DEF add_bytes
  <2>2. PendingAdded'
    <3>1. bit_counter \in Nat
      BY DEF RInv, IInv, TypeOK
    <3> QED
      BY <1>1, <2>1, <3>1 DEF PendingAdded
  <2>3. BitsOfStream' = BitsOfStream
    <3>1. pending'.added = pending.added
      BY <1>3, <2>1
    <3> QED
      BY <1>1, <3>1, Seen
  <2>4. UNCHANGED Sequence!vars
    BY <1>1, <2>1, <2>3 DEF Sequence!vars
  <2> QED
    BY <1>2, <2>2, <2>4
<1> QED
  BY <1>4, <1>5

(* One turn of the loop of add_bytes: invisible, or all bytes are there.    *)
LEMMA AddBytesGoesOn ==
  ASSUME RInv, add_bytes_iteration
  PROVE  [Sequence!Next]_(Sequence!vars) /\ PendingAdded' /\ FetchStored'
<1>1. pending # NoBytes /\ num_bits = 0 /\ num_bits' = 0 /\ fetch = NoFetch /\ fetch' = fetch
  BY DEF add_bytes_iteration, RInv, IInv, CallsInProgress
<1>2. FetchStored'
  BY <1>1 DEF FetchStored
<1>3. PICK data \in Seq(Byte), added \in Nat, start \in Nat, before \in Seq(Byte) :
        /\ data = pending.data /\ data \in Payloads /\ added = pending.added /\ added < Len(data)
        /\ start + 8 * added = bit_counter /\ before = exi_data
        /\ \A k \in 0 .. (8 * added - 1) : BitOf(before, start + k) = BitOf(data, k)
  <2>1. /\ pending.data \in Seq(Byte) /\ pending.added \in Nat /\ pending.added < Len(pending.data)
        /\ bit_counter \in Nat /\ exi_data \in Seq(Byte)
    BY <1>1 DEF RInv, IInv, TypeOK
  <2>2. PICK start \in Nat : start = bit_counter - 8 * pending.added
    BY <1>1, <2>1 DEF RInv, PendingAdded
  <2>3. start + 8 * pending.added = bit_counter
    BY <2>1, <2>2
  <2> QED
    BY <1>1, <2>1, <2>2, <2>3 DEF RInv, PendingAdded
<1>4. PICK byte \in Byte, width \in 1 .. 8 : byte = data[added + 1] /\ byte = ByteToAdd /\ width = 8
  <2>1. Len(data) \in Nat
    BY LenProperties
  <2>2. added + 1 \in 1 .. Len(data)
    BY <1>3, <2>1
  <2>3. data[added + 1] \in Byte
    BY <2>2, ElementOfSeq
  <2> QED
    BY <1>3, <2>3 DEF ByteToAdd
<1>5. PICK after \in Seq(Byte) :
        /\ after = exi_data'
        /\ 8 * Len(after) >= bit_counter + 8
        /\ \A k \in 0 .. (bit_counter - 1) : BitOf(after, k) = BitOf(before, k)
        /\ \A k \in 0 .. 7 : BitOf(after, bit_counter + k) = byte[k]
  <2>1. Add(byte, width) /\ Fits(byte, width)
    BY <1>4, ByteFits DEF add_bytes_iteration
  <2>2. /\ exi_data' \in Seq(Byte)
        /\ 8 * Len(exi_data') >= bit_counter + width
        /\ \A k \in 0 .. (bit_counter - 1) : BitOf(exi_data', k) = BitOf(exi_data, k)
        /\ \A k \in 0 .. (width - 1) : BitOf(exi_data', bit_counter + k) = byte[(8 - width) + k]
    BY <1>1, <2>1, FieldWritten DEF RInv, IInv
  <2>3. \A k \in 0 .. 7 : BitOf(exi_data', bit_counter + k) = byte[k]
    <3>1. \A k \in 0 .. 7 : k \in 0 .. (width - 1) /\ (8 - width) + k = k
      BY <1>4
    <3> QED
      BY <2>2, <3>1
  <2> QED
    BY <1>3, <1>4, <2>2, <2>3
<1>6. PICK counter \in Nat : counter = bit_counter /\ counter = start + 8 * added /\ bit_counter' = counter + 8
  <2>1. bit_counter' = bit_counter + 8
    BY DEF add_bytes_iteration, Add
  <2> QED
    BY <1>3, <2>1
<1>7. ASSUME NEW k \in 0 .. (8 * (added + 1) - 1) PROVE BitOf(after, start + k) = BitOf(data, k)
  <2>1. CASE k < 8 * added
    <3>1. start + k \in 0 .. (counter - 1) /\ k \in 0 .. (8 * added - 1)
      BY <1>6, <2>1
    <3> QED
      BY <1>3, <1>5, <1>6, <3>1
  <2>2. CASE k >= 8 * added
    <3>1. PICK j \in 0 .. 7 : k = 8 * added + j
      <4>1. k - 8 * added \in 0 .. 7 /\ k = 8 * added + (k - 8 * added)
        BY <2>2
      <4> QED
        BY <4>1
    <3>2. start + k = counter + j
      BY <1>6, <3>1
    <3>3. BitOf(after, counter + j) = byte[j]
      BY <1>5, <1>6
    <3>4. k \div 8 = added /\ k % 8 = j
      BY <3>1, ByteAddress
    <3> QED
      BY <1>4, <3>2, <3>3, <3>4 DEF BitOf
  <2> QED
    BY <2>1, <2>2
<1>8. /\ Len(before) \in Nat /\ Len(after) \in Nat /\ Len(data) \in Nat
      /\ 8 * Len(before) >= counter /\ 8 * Len(after) >= counter + 8
  <2>1. Len(before) \in Nat /\ Len(after) \in Nat /\ Len(data) \in Nat
    BY LenProperties
  <2>2. Len(before) = (counter + 7) \div 8
    BY <1>1, <1>3, <1>6 DEF RInv, IInv, BytesMatchBits
  <2> QED
    BY <1>5, <1>6, <2>1, <2>2
<1>9. \A k \in 0 .. (start - 1) : BitOf(after, k) = BitOf(before, k)
  <2>1. \A k \in 0 .. (start - 1) : k \in 0 .. (counter - 1)
    BY <1>6
  <2> QED
    BY <1>5, <1>6, <2>1
<1>10. BitsOfStream = SeqOf(before, start)
  <2>1. bit_counter - 8 * pending.added = start
    BY <1>3, <1>6
  <2> QED
    BY <1>1, <1>3, <2>1, Seen
<1>11. CASE MoreToAdd
  <2>1. /\ pending' = [data |-> data, added |-> added + 1] /\ UNCHANGED last
        /\ pending'.data = data /\ pending'.added = added + 1
    BY <1>3, <1>11 DEF add_bytes_iteration, RInv, IInv, TypeOK
  <2>2. bit_counter' - 8 * pending'.added = start /\ 8 * pending'.added <= bit_counter'
    BY <1>6, <2>1
  <2>3. PendingAdded'
    BY <1>3, <1>5, <1>7, <2>1, <2>2 DEF PendingAdded
  <2>4. BitsOfStream' = SeqOf(after, start)
    BY <1>1, <1>5, <2>2, Seen
  <2>5. SeqOf(after, start) = SeqOf(before, start)
    BY <1>9 DEF SeqOf
  <2>6. UNCHANGED Sequence!vars
    BY <1>1, <1>10, <2>1, <2>4, <2>5 DEF Sequence!vars
  <2> QED
    BY <1>2, <2>3, <2>6
<1>12. CASE ~MoreToAdd
  <2>1. pending' = NoBytes /\ Returns("add_bytes", 8 * Len(data), "ok", data)
    BY <1>3, <1>12 DEF add_bytes_iteration
  <2>2. Len(data) = added + 1
    BY <1>3, <1>8, <1>12 DEF MoreToAdd
  <2>3. PICK n \in Nat : n = 8 * Len(data) /\ counter + 8 = start + n /\ n = 8 * (added + 1)
    BY <1>6, <2>2
  <2>4. PICK more \in [1 .. n -> Bit] : more = [k \in 1 .. n |-> data[((k - 1) \div 8) + 1][(k - 1) % 8]]
    <3>1. ASSUME NEW k \in 1 .. n PROVE BitOf(data, k - 1) \in Bit
      <4>1. k - 1 \in Nat /\ k - 1 < 8 * Len(data)
        BY <1>8, <2>3
      <4> QED
        BY <4>1, BitsOfBytes
    <3> QED
      BY <3>1 DEF BitOf
  <2>5. ASSUME NEW k \in 0 .. (n - 1) PROVE BitOf(after, start + k) = more[k + 1]
    <3>1. k + 1 \in 1 .. n /\ (k + 1) - 1 = k /\ k \in 0 .. (8 * (added + 1) - 1)
      BY <2>3
    <3>2. more[k + 1] = BitOf(data, k)
      BY <2>4, <3>1 DEF BitOf
    <3> QED
      BY <1>7, <3>1, <3>2
  <2>6. 8 * Len(before) >= start /\ 8 * Len(after) >= start + n
    BY <1>6, <1>8, <2>3
  <2>7. SeqOf(after, start + n) = SeqOf(before, start) \o more
    <3>1. GrowsBy(after, before, start, n, more)
      BY <1>9, <2>5, <2>6 DEF GrowsBy
    <3> QED
      BY <3>1, Grown
  <2>8. BitsOfStream' = SeqOf(after, start + n)
    <3>1. pending'.added = 0
      BY <2>1 DEF NoBytes
    <3>2. bit_counter' - 8 * pending'.added = start + n
      BY <1>6, <2>3, <3>1
    <3> QED
      BY <1>1, <1>5, <3>2, Seen
  <2>9. PendingAdded'
    BY <2>1 DEF PendingAdded
  <2>10. Sequence!PutBytes(data)
    BY <1>1, <1>10, <2>1, <2>3, <2>4, <2>7, <2>8 DEF Sequence!PutBytes, Returns
  <2> QED
    BY <1>2, <1>3, <2>9, <2>10 DEF Sequence!Next
<1> QED
  BY <1>11, <1>12

(* get_max_4bytes: the next bits, or beyond the end of the message.         *)
LEMMA GetRefines ==
  ASSUME RInv, NEW n \in Requests, get_max_4bytes(n)
  PROVE  [Sequence!Next]_(Sequence!vars) /\ PendingAdded' /\ FetchStored'
<1>1. /\ num_bits # 0 /\ pending = NoBytes /\ fetch = NoFetch /\ bit_counter' = bit_counter + n
      /\ UNCHANGED <<exi_data, num_bits, pending, fetch>>
  BY DEF get_max_4bytes, Idle
<1>2. PendingAdded' /\ FetchStored'
  BY <1>1 DEF PendingAdded, FetchStored
<1>3. n \in 0 .. 32 /\ n \in Requests \cup Fetches
  BY RequestsAssumption
<1>4. PICK junk : last' = [op |-> "get_max_4bytes", n |-> n, status |-> "ok", value |-> Extracted(n, junk)]
  BY DEF get_max_4bytes, Returns
<1>5. exi_data \in Seq(Byte) /\ bit_counter \in Nat /\ num_bits = 8 * Len(exi_data)
  BY <1>1 DEF RInv, IInv, TypeOK
<1>6. BitsOfStream' = BitsOfStream
  BY <1>1, Seen
<1>7. Len(BitsOfStream) = num_bits /\ num_bits \in Nat
  BY <1>1, <1>5, MessageBits
<1>8. fetch.taken = 0 /\ fetch'.taken = 0
  BY <1>1 DEF NoFetch
<1>9. PICK pos \in Nat, pos2 \in Nat :
        /\ pos = bit_counter /\ pos = IF num_bits = 0 THEN 0 ELSE bit_counter - fetch.taken
        /\ pos2 = pos + n /\ pos2 = IF num_bits' = 0 THEN 0 ELSE bit_counter' - fetch'.taken
  BY <1>1, <1>3, <1>5, <1>8
<1>10. CASE pos2 <= num_bits
  <2>1. Extracted(n, junk) = Sequence!NumberAt(n)
    <3>1. Extracted(n, junk) = [i \in 0 .. 31 |-> IF i >= 32 - n THEN BitAt(pos + (i - (32 - n))) ELSE 0]
      BY <1>3, <1>5, <1>9, <1>10, ExtractedBits
    <3>2. Sequence!NumberAt(n) = [i \in 0 .. 31 |-> IF i >= 32 - n THEN BitsOfStream[pos + (i - (32 - n)) + 1] ELSE 0]
      BY <1>9 DEF Sequence!NumberAt
    <3>3. ASSUME NEW i \in 0 .. 31, i >= 32 - n
          PROVE  BitsOfStream[pos + (i - (32 - n)) + 1] = BitAt(pos + (i - (32 - n)))
      <4>1. pos + (i - (32 - n)) \in Nat /\ pos + (i - (32 - n)) < num_bits
        BY <1>3, <1>7, <1>9, <1>10, <3>3
      <4> QED
        BY <1>1, <1>5, <4>1, MessageBits
    <3> QED
      BY <3>1, <3>2, <3>3
  <2>2. Sequence!Get(n)
    BY <1>1, <1>4, <1>6, <1>7, <1>9, <1>10, <2>1 DEF Sequence!Get
  <2> QED
    BY <1>2, <1>3, <2>2 DEF Sequence!Next
<1>11. CASE ~(pos2 <= num_bits)
  <2>1. last'.n = n /\ last'.status = "ok"
    BY <1>4
  <2>2. Sequence!Overrun(n)
    BY <1>1, <1>6, <1>7, <1>9, <1>11, <2>1 DEF Sequence!Overrun
  <2> QED
    BY <1>2, <1>3, <2>2 DEF Sequence!Next
<1> QED
  BY <1>10, <1>11

(* get_next_n_bits: refused, or the loop is entered.                        *)
LEMMA FetchRefines ==
  ASSUME RInv, NEW n \in Fetches, NEW data_is_null \in BOOLEAN, get_next_n_bits(n, data_is_null)
  PROVE  [Sequence!Next]_(Sequence!vars) /\ PendingAdded' /\ FetchStored'
<1>1. /\ num_bits # 0 /\ pending = NoBytes /\ fetch = NoFetch
      /\ UNCHANGED <<exi_data, bit_counter, num_bits, pending>>
  BY DEF get_next_n_bits, Idle
<1>2. BitsOfStream' = BitsOfStream
  BY <1>1, Seen
<1>3. PendingAdded'
  BY <1>1 DEF PendingAdded
<1>4. CASE UNCHANGED fetch /\ last'.status \in {"invalid_argument", "range_error"}
  <2>1. FetchStored'
    BY <1>1, <1>4 DEF FetchStored
  <2>2. Sequence!Reject
    BY <1>1, <1>2, <1>4 DEF Sequence!Reject
  <2> QED
    BY <1>3, <2>1, <2>2 DEF Sequence!Next
<1>5. ASSUME NEW junk, UNCHANGED last,
             fetch' = [n |-> n, taken |-> 0, buffer |-> [k \in 0 .. (BufferSize(n) - 1) |-> junk[0]]]
      PROVE  UNCHANGED Sequence!vars /\ FetchStored'
  <2>1. fetch'.n = n /\ fetch'.taken = 0 /\ fetch.taken = 0
    BY <1>1, <1>5 DEF NoFetch
  <2>2. UNCHANGED Sequence!vars
    BY <1>1, <1>2, <1>5, <2>1 DEF Sequence!vars
  <2>3. OfSize(fetch'.buffer, BufferSize(n))
    <3>1. PICK buffer, size : buffer = fetch'.buffer /\ size = BufferSize(n)
      OBVIOUS
    <3>2. buffer = [k \in 0 .. (size - 1) |-> junk[0]]
      BY <1>5, <3>1
    <3>3. buffer = [k \in 0 .. (size - 1) |-> buffer[k]]
      BY <3>2
    <3> QED
      BY <3>1, <3>3 DEF OfSize
  <2>4. bit_counter' \in Nat /\ 32 * 0 = 0 /\ 0 <= bit_counter'
    BY <1>1 DEF RInv, IInv, TypeOK
  <2>5. \A k \in 0 .. (BufferSize(fetch'.n) - 1) : ~(k < 4 * 0)
    OBVIOUS
  <2>6. WordsOf(0)'
    BY <2>1, <2>3, <2>4, <2>5, Zenon DEF WordsOf, WordsRead
  <2>7. FetchStored'
    BY <2>1, <2>6 DEF FetchStored
  <2> QED
    BY <2>2, <2>7
<1> QED
  BY <1>3, <1>4, <1>5 DEF get_next_n_bits, Returns

(* Storing a chunk keeps the size of the buffer.                            *)
LEMMA StoredSize ==
  ASSUME NEW size, NEW buffer, OfSize(buffer, size), NEW taken, NEW take, NEW value
  PROVE  OfSize(Stored(buffer, taken, take, value), size) /\ DOMAIN buffer = 0 .. (size - 1)
<1>1. DOMAIN buffer = 0 .. (size - 1)
  BY DEF OfSize
<1>2. DOMAIN Stored(buffer, taken, take, value) = 0 .. (size - 1)
  BY <1>1 DEF Stored
<1>3. PICK stored : stored = Stored(buffer, taken, take, value)
  OBVIOUS
<1>4. stored = [k \in DOMAIN stored |-> stored[k]]
  BY <1>3 DEF Stored
<1> QED
  BY <1>1, <1>2, <1>3, <1>4 DEF OfSize

(* A turn of the loop on a request within the message is such a store.      *)
LEMMA ChunkStored ==
  ASSUME exi_data \in Seq(Byte), NEW counter \in Nat, counter = bit_counter,
         NEW m \in Nat, NEW take \in 1 .. 32, take \in 17 .. 24 => m = 0, counter + take <= 8 * Len(exi_data),
         NEW size \in Nat, size >= 4 * m + Filled(take), NEW buffer, OfSize(buffer, size), NEW junk
  PROVE  StoresChunk(Stored(buffer, 32 * m, take, Extracted(take, junk)), buffer, size, m, take, counter)
<1>1. Extracted(take, junk) = [i \in 0 .. 31 |-> IF i >= 32 - take THEN BitAt(counter + (i - (32 - take))) ELSE 0]
  <2>1. PICK n \in 0 .. 32 : n = take
    OBVIOUS
  <2>0. bit_counter + n <= 8 * Len(exi_data)
    BY <2>1, Zenon
  <2>2. Extracted(n, junk) = [i \in 0 .. 31 |-> IF i >= 32 - n THEN BitAt(bit_counter + (i - (32 - n))) ELSE 0]
    BY <2>0, ExtractedBits
  <2> QED
    BY <2>1, <2>2
<1> QED
  BY <1>1 DEF StoresChunk

(* A chunk of 32 bits is a word more.                                       *)
LEMMA WordStored ==
  ASSUME NEW pos \in Nat, NEW m \in Nat, NEW size \in Nat, NEW buffer, WordsRead(buffer, size, pos, m),
         NEW result, StoresChunk(result, buffer, size, m, 32, pos + 32 * m)
  PROVE  WordsRead(result, size, pos, m + 1)
<1>1. Filled(32) = 4 /\ Padding(32) = 0
  BY SMT DEF Filled, Padding
<1>2. /\ \A k \in 0 .. (size - 1) : k < 4 * m => result[k] = buffer[k]
      /\ ChunkRead(result, 4, pos + 32 * m, m, 0)
  BY <1>1, StoredBytes
<1>3. ASSUME NEW k \in 0 .. (size - 1), k < 4 * (m + 1) PROVE result[k] = MessageByte(pos + 8 * k)
  <2>1. CASE k < 4 * m
    BY <1>2, <2>1 DEF WordsRead
  <2>2. CASE k >= 4 * m
    <3>1. PICK d \in 0 .. (4 - 1) : k = 4 * m + d
      <4>1. k - 4 * m \in 0 .. (4 - 1) /\ k = 4 * m + (k - 4 * m)
        BY <1>3, <2>2
      <4> QED
        BY <4>1
    <3>3. result[k] = [i \in 0 .. 7 |-> IF 8 * d + i >= 0 THEN BitAt(pos + 32 * m + (8 * d + i - 0)) ELSE 0]
      BY <1>2, <3>1, Zenon DEF ChunkRead
    <3>4. \A i \in 0 .. 7 : 8 * d + i >= 0 /\ pos + 32 * m + (8 * d + i - 0) = (pos + 8 * k) + i
      BY <3>1
    <3> QED
      BY <3>3, <3>4 DEF MessageByte
  <2> QED
    BY <2>1, <2>2
<1> QED
  BY <1>3 DEF WordsRead

(* The last chunk completes the bytes.                                      *)
LEMMA LastChunkStored ==
  ASSUME NEW length \in Nat, NEW bits, MessageIs(bits, length), NEW n, NEW m, NEW take, IsLast(n, m, take),
         NEW pos \in Nat, Position = pos, pos + n <= length,
         NEW buffer, WordsRead(buffer, BufferSize(n), pos, m),
         NEW result, StoresChunk(result, buffer, BufferSize(n), m, take, pos + 32 * m)
  PROVE  result = Sequence!BytesAt(n)
<1>1. n \in Nat /\ m \in Nat /\ take \in 1 .. 32
  BY DEF IsLast
<1>2. PICK size : size = BufferSize(n) /\ size = 4 * m + Filled(take)
  BY LastChunk
<1>3. /\ \A k \in 0 .. (size - 1) : k < 4 * m => result[k] = buffer[k]
      /\ ChunkRead(result, Filled(take), pos + 32 * m, m, Padding(take))
  BY <1>2, StoredBytes
<1>4. WordsRead(result, size, pos, m)
  BY <1>2, <1>3 DEF WordsRead
<1>5. OfSize(result, size)
  BY <1>2, StoredSize DEF StoresChunk
<1> QED
  BY <1>2, <1>3, <1>4, <1>5, BytesRead

(* What remains to be read after m words.                                   *)
LEMMA Remaining ==
  ASSUME NEW n \in Nat, NEW m \in Nat, 32 * m < n,
         NEW take, take = IF n - 32 * m < 32 THEN n - 32 * m ELSE 32
  PROVE  /\ take \in 1 .. 32
         /\ 32 * m + take < n => take = 32 /\ 4 * m + 4 <= BufferSize(n)
         /\ ~(32 * m + take < n) => IsLast(n, m, take)
         /\ ~(32 * m + take < n) /\ (n <= 24 \/ n % 32 \notin 17 .. 24) => (take \in 17 .. 24 => m = 0)
         /\ BufferSize(n) \in Nat
<1>1. /\ take \in 1 .. 32
      /\ 32 * m + take < n => take = 32 /\ n > 32 * m + 32
      /\ ~(32 * m + take < n) => n = 32 * m + take
  OBVIOUS
<1>2. n > 32 * m + 32 => 4 * m + 4 <= (n + 7) \div 8
  BY SMT
<1>3. (n + 7) \div 8 \in Nat
  BY SMT
<1>4. ASSUME n = 32 * m + take, take \in 17 .. 24 PROVE n % 32 \in 17 .. 24 /\ (n <= 24 => m = 0)
  BY <1>1, <1>4, SMT
<1> QED
  BY <1>1, <1>2, <1>3, <1>4 DEF IsLast, BufferSize

(* One turn of the loop of get_next_n_bits: invisible, or the answer.       *)
LEMMA FetchGoesOn ==
  ASSUME RInv, FetchesStored, get_next_n_bits_iteration
  PROVE  [Sequence!Next]_(Sequence!vars) /\ PendingAdded' /\ FetchStored'
<1>1. /\ num_bits # 0 /\ fetch # NoFetch /\ pending = NoBytes
      /\ UNCHANGED <<exi_data, num_bits, pending>> /\ bit_counter' = bit_counter + BitsToTake
  BY DEF get_next_n_bits_iteration, RInv, IInv, CallsInProgress
<1>2. PendingAdded'
  BY <1>1 DEF PendingAdded
<1>3. /\ exi_data \in Seq(Byte) /\ bit_counter \in Nat /\ num_bits = 8 * Len(exi_data)
      /\ fetch.n \in Fetches /\ fetch.n \in Nat /\ fetch.taken < fetch.n
  BY <1>1 DEF RInv, IInv, TypeOK, CallsInProgress, FetchStored
<1>4. PICK n \in Fetches, m \in Nat : n = fetch.n /\ WordsOf(m)
  BY <1>1 DEF RInv, FetchStored
<1>5. PICK pos \in Nat, counter \in Nat, length \in Nat :
        /\ counter = bit_counter /\ length = num_bits /\ pos = counter - 32 * m /\ counter = pos + 32 * m
  <2>1. num_bits \in Nat
    BY <1>1, <1>3, MessageBits
  <2>2. bit_counter - 32 * m \in Nat /\ bit_counter = (bit_counter - 32 * m) + 32 * m
    BY <1>3, <1>4 DEF WordsOf
  <2> QED
    BY <1>3, <2>1, <2>2
<1>6. fetch.taken = 32 * m /\ n \in Nat /\ 32 * m < n
  BY <1>3, <1>4 DEF WordsOf
<1>7. PICK take \in 1 .. 32 : take = BitsToTake /\ take = IF n - 32 * m < 32 THEN n - 32 * m ELSE 32
  <2>1. BitsToTake = IF n - 32 * m < 32 THEN n - 32 * m ELSE 32
    BY <1>4, <1>6 DEF BitsToTake
  <2> QED
    BY <1>6, <2>1, Remaining
<1>8. PICK size \in Nat : size = BufferSize(n)
  BY <1>6, <1>7, Remaining
<1>9. PICK buffer : buffer = fetch.buffer /\ OfSize(buffer, size)
                    /\ (pos + n <= length => WordsRead(buffer, size, pos, m))
  BY <1>4, <1>5, <1>8 DEF WordsOf
<1>10. PICK junk, result :
         /\ result = Stored(buffer, 32 * m, take, Extracted(take, junk))
         /\ IF 32 * m + take < n
            THEN fetch' = [n |-> n, taken |-> 32 * m + take, buffer |-> result] /\ UNCHANGED last
            ELSE fetch' = NoFetch /\ Returns("get_next_n_bits", n, "ok", result)
  BY <1>4, <1>6, <1>7, <1>9 DEF get_next_n_bits_iteration
<1>11. BitsOfStream' = BitsOfStream /\ Len(BitsOfStream) = length
  BY <1>1, <1>3, <1>5, MessageBits, Seen
<1>12. Position = pos
  BY <1>1, <1>5, <1>6 DEF Position
<1>13. OfSize(result, size)
  BY <1>9, <1>10, StoredSize
<1>14. CASE 32 * m + take < n
  <2>1. take = 32 /\ 4 * m + 4 <= size
    BY <1>6, <1>7, <1>8, <1>14, Remaining
  <2>2. /\ fetch' = [n |-> n, taken |-> 32 * m + 32, buffer |-> result] /\ UNCHANGED last
        /\ fetch'.n = n /\ fetch'.taken = 32 * m + 32 /\ fetch'.buffer = result
    BY <1>10, <1>14, <2>1
  <2>3. bit_counter' = counter + 32
    BY <1>1, <1>5, <1>7, <2>1
  <2>4. Position' = pos
    BY <1>1, <1>5, <2>2, <2>3 DEF Position
  <2>5. UNCHANGED Sequence!vars
    <3>1. (IF num_bits = 0 THEN 0 ELSE bit_counter - fetch.taken)' = IF num_bits = 0 THEN 0 ELSE bit_counter - fetch.taken
      BY <1>12, <2>4 DEF Position
    <3> QED
      BY <1>1, <1>11, <2>2, <3>1 DEF Sequence!vars
  <2>6. ASSUME pos + n <= length PROVE WordsRead(result, size, pos, m + 1)
    <3>1. counter + 32 <= 8 * Len(exi_data)
      BY <1>3, <1>5, <1>6, <1>14, <2>1, <2>6
    <3>2. size >= 4 * m + Filled(take)
      BY <2>1, SMT DEF Filled
    <3>3. StoresChunk(result, buffer, size, m, take, counter)
      BY <1>3, <1>5, <1>9, <1>10, <2>1, <3>1, <3>2, ChunkStored
    <3> QED
      BY <1>5, <1>9, <2>1, <2>6, <3>3, WordStored
  <2>7. WordsRead(fetch.buffer, size, pos, m + 1)' <=> WordsRead(result, size, pos, m + 1)
    BY <1>1, <2>2 DEF WordsRead, MessageByte, BitAt
  <2>8. WordsOf(m + 1)'
    <3>1. 32 * (m + 1) = 32 * m + 32 /\ 32 * (m + 1) <= bit_counter' /\ bit_counter' - 32 * (m + 1) = pos
      BY <1>5, <2>3
    <3>2. num_bits' = length /\ BufferSize(n) = size
      BY <1>1, <1>5, <1>8
    <3> QED
      BY <1>13, <2>2, <2>6, <2>7, <3>1, <3>2 DEF WordsOf
  <2>9. FetchStored'
    <3>1. m + 1 \in Nat
      OBVIOUS
    <3> QED
      BY <2>2, <2>8, <3>1 DEF FetchStored
  <2> QED
    BY <1>2, <2>5, <2>9
<1>15. CASE ~(32 * m + take < n)
  <2>1. IsLast(n, m, take) /\ (take \in 17 .. 24 => m = 0)
    BY <1>6, <1>7, <1>15, Remaining DEF FetchesStored
  <2>2. n = 32 * m + take
    BY <2>1 DEF IsLast
  <2>3. fetch' = NoFetch /\ last' = [op |-> "get_next_n_bits", n |-> n, status |-> "ok", value |-> result]
    BY <1>10, <1>15 DEF Returns
  <2>4. FetchStored'
    BY <2>3 DEF FetchStored
  <2>5. Position' = pos + n
    <3>1. fetch'.taken = 0
      BY <2>3 DEF NoFetch
    <3>2. bit_counter' = pos + n
      BY <1>1, <1>5, <1>7, <2>2
    <3> QED
      BY <1>1, <3>1, <3>2 DEF Position
  <2>6. CASE pos + n <= length
    <3>1. size >= 4 * m + Filled(take)
      BY <1>8, <2>1, LastChunk
    <3>2. counter + take <= 8 * Len(exi_data)
      BY <1>3, <1>5, <2>2, <2>6
    <3>3. StoresChunk(result, buffer, size, m, take, counter)
      BY <1>3, <1>5, <1>9, <1>10, <2>1, <3>1, <3>2, ChunkStored
    <3>4. MessageIs(BitsOfStream, length)
      BY <1>1, <1>3, <1>5, MessageBits DEF MessageIs
    <3>5. result = Sequence!BytesAt(n)
      BY <1>5, <1>8, <1>9, <1>12, <2>1, <2>6, <3>3, <3>4, LastChunkStored
    <3>6. Sequence!Get(n)
      BY <1>1, <1>11, <1>12, <2>3, <2>5, <2>6, <3>5 DEF Sequence!Get, Position
    <3> QED
      BY <1>2, <2>4, <3>6 DEF Sequence!Next
  <2>7. CASE ~(pos + n <= length)
    <3>1. last'.n = n /\ last'.status = "ok"
      BY <2>3
    <3>2. pos + n > Len(BitsOfStream)
      BY <1>6, <1>11, <2>7
    <3>3. Sequence!Overrun(n)
      BY <1>1, <1>11, <1>12, <2>5, <3>1, <3>2 DEF Sequence!Overrun, Position
    <3> QED
      BY <1>2, <2>4, <3>3 DEF Sequence!Next
  <2> QED
    BY <2>6, <2>7
<1> QED
  BY <1>14, <1>15

(* A new stream is empty or the message that it was constructed from.       *)
LEMMA InitRefines == Init => Sequence!Init /\ PendingAdded /\ FetchStored
<1> SUFFICES ASSUME Init PROVE Sequence!Init /\ PendingAdded /\ FetchStored
  OBVIOUS
<1>1. pending = NoBytes /\ fetch = NoFetch /\ pending.added = 0 /\ fetch.taken = 0 /\ bit_counter = 0
  BY DEF Init, NoBytes, NoFetch
<1>2. PendingAdded /\ FetchStored
  BY <1>1 DEF PendingAdded, FetchStored
<1>3. exi_data \in Seq(Byte) /\ num_bits = 8 * Len(exi_data) /\ last = Sequence!NoCall
  BY InitEstablishesIInv, MessagesAssumption DEF Init, IInv, TypeOK, NoCall, Sequence!NoCall
<1>4. (IF num_bits = 0 THEN 0 ELSE bit_counter - fetch.taken) = 0
  BY <1>1
<1>5. CASE num_bits = 0
  <2>1. BitsOfStream = SeqOf(exi_data, 0)
    BY <1>1, <1>5, Seen
  <2>2. SeqOf(exi_data, 0) = <<>>
    BY DEF SeqOf
  <2> QED
    BY <1>2, <1>3, <1>4, <1>5, <2>1, <2>2 DEF Sequence!Init
<1>6. CASE num_bits # 0
  <2>1. BitsOfStream \in Seq(Bit) /\ Len(BitsOfStream) = num_bits
    BY <1>3, <1>6, MessageBits
  <2>2. BitsOfStream # <<>>
    BY <1>6, <2>1
  <2> QED
    BY <1>2, <1>3, <1>4, <1>6, <2>1, <2>2 DEF Sequence!Init, Sequence!Bit, Bit
<1> QED
  BY <1>5, <1>6

(* Every step is one of BitSequence or invisible.                           *)
LEMMA StepRefines ==
  ASSUME CallsFit, FetchesStored, RInv, [Next]_vars
  PROVE  [Sequence!Next]_(Sequence!vars) /\ PendingAdded' /\ FetchStored'
<1>1. CASE \E call \in Calls : add_max_8bits(call[1], call[2])
  BY <1>1, AddRefines
<1>2. CASE \E data \in Payloads : add_bytes(data)
  BY <1>2, AddBytesRefines
<1>3. CASE add_bytes_iteration
  BY <1>3, AddBytesGoesOn
<1>4. CASE \E n \in Requests : get_max_4bytes(n)
  BY <1>4, GetRefines
<1>5. CASE \E n \in Fetches, data_is_null \in BOOLEAN : get_next_n_bits(n, data_is_null)
  BY <1>5, FetchRefines
<1>6. CASE get_next_n_bits_iteration
  BY <1>6, FetchGoesOn
<1>7. CASE UNCHANGED vars
  <2>1. BitsOfStream' = BitsOfStream
    BY <1>7, Seen DEF vars, stream
  <2>2. PendingAdded' /\ FetchStored'
    <3>1. PendingAdded'
      BY <1>7 DEF vars, RInv, PendingAdded
    <3>2. ASSUME NEW m \in Nat, WordsOf(m) PROVE WordsOf(m)'
      <4>1. \A size, pos : WordsRead(fetch.buffer, size, pos, m)' <=> WordsRead(fetch.buffer, size, pos, m)
        BY <1>7 DEF vars, WordsRead, MessageByte, BitAt
      <4>2. UNCHANGED <<fetch, bit_counter, num_bits>>
        BY <1>7 DEF vars
      <4> QED
        BY <3>2, <4>1, <4>2 DEF WordsOf
    <3>3. UNCHANGED fetch
      BY <1>7 DEF vars
    <3>4. FetchStored'
      BY <3>2, <3>3 DEF RInv, FetchStored
    <3> QED
      BY <3>1, <3>4
  <2>3. UNCHANGED Sequence!vars
    BY <1>7, <2>1 DEF vars, Sequence!vars
  <2> QED
    BY <2>2, <2>3
<1> QED
  BY <1>1, <1>2, <1>3, <1>4, <1>5, <1>6, <1>7 DEF Next

(* Bytes, shifts, masks and reads of words beyond the end of the vector are *)
(* invisible to the callers of a BitStream: what they write is appended bit *)
(* by bit, and what they read are the next bits of the message, if every    *)
(* value fits its field (base_types.cpp sees to it) and no request ends in  *)
(* a chunk of three bytes behind a word (bitstream.cpp:47).                 *)
THEOREM CallersSeeBits ==
  ASSUME CallsFit, FetchesStored
  PROVE  Spec => ImplementsBitSequence
<1>1. Init => RInv /\ Sequence!Init
  BY InitEstablishesIInv, InitRefines DEF RInv
<1>2. RInv /\ [Next]_vars => RInv' /\ [Sequence!Next]_(Sequence!vars)
  BY NextKeepsIInv, StepRefines DEF RInv
<1> QED
  BY <1>1, <1>2, PTL DEF Spec, ImplementsBitSequence, Sequence!Spec
=============================================================================
