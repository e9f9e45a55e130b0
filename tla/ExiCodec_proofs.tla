---------------------------- MODULE ExiCodec_proofs ----------------------------
(***************************************************************************)
(* Proofs about ExiCodec: what encode has returned is decoded, under its   *)
(* own namespace, to the text it says, up to the two codes that end it,    *)
(* and refused under every other.                                          *)
(*                                                                         *)
(* The first part is about the bits of a message, the second about the     *)
(* statements of the two programs and what a request says, the third about *)
(* the encoder, the fourth about the decoder.  The invariant OnItsWay, at  *)
(* the end, is the list of the places where a request may be: what is      *)
(* written or read, the statements left, and the text so far.              *)
(***************************************************************************)
EXTENDS ExiCodec, Induction, SequenceTheorems, TLAPS

(***************************************************************************)
(* The bit stream, by the proofs about it.                                 *)
(***************************************************************************)
Bytes == INSTANCE BitStream_proofs
  WITH pending <- [data |-> <<>>, added |-> 0],
       Calls <- {}, Payloads <- {}, Messages <- {}, Requests <- {}, Fetches <- {},
       MaxWritten <- MaxBits, MaxRead <- MaxBits

(* The stream is one whose calls are made by the codec.                    *)
LEMMA StreamAssumptions ==
  /\ {} \subseteq Bytes!Byte \X Nat
  /\ {} \subseteq Seq(Bytes!Byte)
  /\ {} \subseteq 0 .. 32
  /\ {} \subseteq Nat
  /\ Junk \subseteq [0 .. 7 -> Bytes!Byte]
  BY JunkAssumption DEF Stream!Byte, Stream!Bit, Bytes!Byte, Bytes!Bit

(* The bits of a number, as many as a field has.                           *)
BitOf(v, w) == (v \div 2 ^ w) % 2

(* The field of n bits behind the first p holds the number v.              *)
FieldAt(bytes, p, v, n) ==
  \A k \in 0 .. n - 1 : Bytes!BitOf(bytes, p + k) = BitOf(v, n - 1 - k)

(* Powers of two, and that a number below one has no bits from it on.      *)
LEMMA Powers ==
  /\ 2 ^ 0 = 1 /\ 2 ^ 1 = 2 /\ 2 ^ 2 = 4 /\ 2 ^ 3 = 8 /\ 2 ^ 4 = 16
  /\ 2 ^ 5 = 32 /\ 2 ^ 6 = 64 /\ 2 ^ 7 = 128 /\ 2 ^ 8 = 256
  BY SMT

(* A number of at most eight bits, a bit at a time.                        *)
LEMMA NextBit ==
  ASSUME NEW v \in Nat, NEW w \in 0 .. 7
  PROVE  v \div 2 ^ w = 2 * (v \div 2 ^ (w + 1)) + BitOf(v, w) /\ BitOf(v, w) \in {0, 1}
<1>1. CASE w = 0  BY <1>1, Powers, SMT DEF BitOf
<1>2. CASE w = 1  BY <1>2, Powers, SMT DEF BitOf
<1>3. CASE w = 2  BY <1>3, Powers, SMT DEF BitOf
<1>4. CASE w = 3  BY <1>4, Powers, SMT DEF BitOf
<1>5. CASE w = 4  BY <1>5, Powers, SMT DEF BitOf
<1>6. CASE w = 5  BY <1>6, Powers, SMT DEF BitOf
<1>7. CASE w = 6  BY <1>7, Powers, SMT DEF BitOf
<1>8. CASE w = 7  BY <1>8, Powers, SMT DEF BitOf
<1> QED BY <1>1, <1>2, <1>3, <1>4, <1>5, <1>6, <1>7, <1>8

(* A power of two of a field.                                              *)
LEMMA PowerOfField ==
  ASSUME NEW n \in 0 .. 8
  PROVE  2 ^ n \in 1 .. 256
<1>1. CASE n = 0  BY <1>1, Powers
<1>2. CASE n = 1  BY <1>2, Powers
<1>3. CASE n = 2  BY <1>3, Powers
<1>4. CASE n = 3  BY <1>4, Powers
<1>5. CASE n = 4  BY <1>5, Powers
<1>6. CASE n = 5  BY <1>6, Powers
<1>7. CASE n = 6  BY <1>7, Powers
<1>8. CASE n = 7  BY <1>8, Powers
<1>9. CASE n = 8  BY <1>9, Powers
<1> QED BY <1>1, <1>2, <1>3, <1>4, <1>5, <1>6, <1>7, <1>8, <1>9

(* A larger power of two is larger.                                        *)
LEMMA PowersGrow ==
  ASSUME NEW n \in 0 .. 8, NEW m \in n .. 8
  PROVE  2 ^ n <= 2 ^ m
<1>1. ASSUME NEW k \in 0 .. 7 PROVE 2 ^ (k + 1) = 2 * 2 ^ k /\ 2 ^ k \in Nat
  <2>1. CASE k = 0  BY <2>1, Powers
  <2>2. CASE k = 1  BY <2>2, Powers
  <2>3. CASE k = 2  BY <2>3, Powers
  <2>4. CASE k = 3  BY <2>4, Powers
  <2>5. CASE k = 4  BY <2>5, Powers
  <2>6. CASE k = 5  BY <2>6, Powers
  <2>7. CASE k = 6  BY <2>7, Powers
  <2>8. CASE k = 7  BY <2>8, Powers
  <2> QED BY <2>1, <2>2, <2>3, <2>4, <2>5, <2>6, <2>7, <2>8
<1> DEFINE T == {d \in Nat : n + d <= 8 => 2 ^ n <= 2 ^ (n + d)}
<1>2. 0 \in T
  <2>1. n + 0 = n
    OBVIOUS
  <2>2. 2 ^ n \in 1 .. 256
    BY PowerOfField
  <2>3. 2 ^ n <= 2 ^ n
    BY <2>2
  <2> QED BY <2>1, <2>3
<1>3. ASSUME NEW d \in Nat, d \in T PROVE d + 1 \in T
  <2>1. SUFFICES ASSUME n + (d + 1) <= 8 PROVE 2 ^ n <= 2 ^ (n + (d + 1))
    OBVIOUS
  <2>2. n + d \in 0 .. 7 /\ (n + d) + 1 = n + (d + 1) /\ 2 ^ n <= 2 ^ (n + d)
    BY <1>3, <2>1
  <2>3. 2 ^ (n + (d + 1)) = 2 * 2 ^ (n + d) /\ 2 ^ (n + d) \in Nat
    BY <1>1, <2>2
  <2>4. 2 ^ n \in 1 .. 256
    BY PowerOfField
  <2> QED BY <2>2, <2>3, <2>4
<1>4. m - n \in Nat /\ n + (m - n) = m
  OBVIOUS
<1>5. m - n \in T
  <2> HIDE DEF T
  <2> QED BY <1>2, <1>3, <1>4, Induction
<1> QED BY <1>4, <1>5

(* No bit of a number lies above all of its own.                           *)
LEMMA NothingAbove ==
  ASSUME NEW n \in 0 .. 8, NEW v \in 0 .. 2 ^ n - 1, NEW w \in n .. 8
  PROVE  v \div 2 ^ w = 0 /\ BitOf(v, w) = 0
<1>1. 2 ^ n \in Nat /\ 2 ^ w \in Nat /\ 2 ^ n <= 2 ^ w /\ w \in 0 .. 8
  <2>1. w \in 0 .. 8
    OBVIOUS
  <2>2. 2 ^ n \in 1 .. 256
    BY PowerOfField
  <2>3. 2 ^ w \in 1 .. 256
    BY <2>1, PowerOfField
  <2>4. 2 ^ n <= 2 ^ w
    BY PowersGrow
  <2> QED BY <2>1, <2>2, <2>3, <2>4
<1>2. \A p \in Nat : v < p => v \div p = 0
  OBVIOUS
<1>3. v < 2 ^ w /\ v \in Nat
  BY <1>1
<1>4. v \div 2 ^ w = 0
  BY <1>1, <1>2, <1>3, Zenon
<1>5. 0 % 2 = 0
  OBVIOUS
<1> QED BY <1>4, <1>5, Zenon DEF BitOf

(* The byte that a field is given in.                                      *)
LEMMA ByteOfField ==
  ASSUME NEW n \in 1 .. 8, NEW v \in 0 .. 2 ^ n - 1
  PROVE  /\ ByteOf(v) \in Bytes!Byte
         /\ Bytes!Fits(ByteOf(v), n)
         /\ \A k \in 0 .. n - 1 : ByteOf(v)[(8 - n) + k] = BitOf(v, n - 1 - k)
<1>0. v \in Nat
  BY PowerOfField
<1>1. \A i \in 0 .. 7 : ByteOf(v)[i] = BitOf(v, 7 - i) /\ 7 - i \in 0 .. 7
  BY DEF ByteOf, BitOf
<1>2. ByteOf(v) \in Bytes!Byte
  <2>1. \A i \in 0 .. 7 : ByteOf(v)[i] \in {0, 1}
    BY <1>0, <1>1, NextBit
  <2>2. ByteOf(v) = [i \in 0 .. 7 |-> ByteOf(v)[i]]
    BY DEF ByteOf
  <2> QED BY <2>1, <2>2 DEF Bytes!Byte, Bytes!Bit
<1>3. ASSUME NEW i \in 0 .. 7, i < 8 - n PROVE ByteOf(v)[i] = 0
  <2>1. n \in 0 .. 8 /\ 7 - i \in n .. 8
    BY <1>3
  <2>2. BitOf(v, 7 - i) = 0
    BY <2>1, NothingAbove
  <2> QED BY <1>1, <2>2
<1>4. ASSUME NEW k \in 0 .. n - 1 PROVE ByteOf(v)[(8 - n) + k] = BitOf(v, n - 1 - k)
  <2>1. (8 - n) + k \in 0 .. 7 /\ 7 - ((8 - n) + k) = n - 1 - k
    OBVIOUS
  <2> QED BY <1>1, <2>1
<1> QED BY <1>2, <1>3, <1>4 DEF Bytes!Fits

(***************************************************************************)
(* Reading a number.                                                       *)
(***************************************************************************)
(* NumberOf, one bit after the other.                                      *)
LEMMA NumberSteps ==
  ASSUME NEW width \in Nat, NEW bits, \A i \in 0 .. width - 1 : bits[i] \in {0, 1}
  PROVE  \E f \in [0 .. width -> Nat] :
           /\ f[0] = 0
           /\ \A k \in 1 .. width : f[k] = 2 * f[k - 1] + bits[k - 1]
           /\ NumberOf(bits, width) = f[width]
<1> DEFINE step == [a \in (1 .. width) \X Nat |-> 2 * a[2] + bits[a[1] - 1]]
           Body(f) == [i \in 0 .. width |-> IF i = 0 THEN 0 ELSE 2 * f[i - 1] + bits[i - 1]]
           Is(f) == f = Body(f)
<1>1. step \in [(1 .. width) \X Nat -> Nat]
  <2>1. ASSUME NEW a \in (1 .. width) \X Nat PROVE 2 * a[2] + bits[a[1] - 1] \in Nat
    <3>1. a[2] \in Nat /\ a[1] - 1 \in 0 .. width - 1
      OBVIOUS
    <3>2. bits[a[1] - 1] \in {0, 1}
      BY <3>1
    <3> QED BY <3>1, <3>2
  <2> QED BY <2>1
<1>2. PICK f \in [0 .. width -> Nat] : IsRecursive(f, width, 0, step)
  <2> HIDE DEF step
  <2> QED BY <1>1, Recursion
<1>3. ASSUME NEW k \in 0 .. width PROVE f[k] = IF k = 0 THEN 0 ELSE 2 * f[k - 1] + bits[k - 1]
  <2>1. f[k] = IF k = 0 THEN 0 ELSE step[<<k, f[k - 1]>>]
    <3> HIDE DEF step
    <3> QED BY <1>2 DEF IsRecursive
  <2>2. CASE k = 0
    BY <2>1, <2>2
  <2>3. CASE k # 0
    <3>1. k - 1 \in 0 .. width /\ k \in 1 .. width
      BY <2>3
    <3>2. f[k - 1] \in Nat
      BY <3>1
    <3>3. <<k, f[k - 1]>> \in (1 .. width) \X Nat
      BY <3>1, <3>2
    <3>4. step[<<k, f[k - 1]>>] = 2 * f[k - 1] + bits[k - 1]
      BY <3>3
    <3> HIDE DEF step
    <3> QED BY <2>1, <2>3, <3>4
  <2> QED BY <2>2, <2>3
<1>4. Is(f)
  BY <1>3
<1>5. Is(CHOOSE g : Is(g))
  <2> HIDE DEF Is
  <2> QED BY <1>4
<1> DEFINE h == CHOOSE g : Is(g)
<1>6. NumberOf(bits, width) = h[width]
  BY DEF NumberOf
<1>7. h = Body(h)
  BY <1>5
<1> HIDE DEF h
<1>8. \A k \in 0 .. width : h[k] = IF k = 0 THEN 0 ELSE 2 * h[k - 1] + bits[k - 1]
  <2>1. \A k \in 0 .. width : Body(h)[k] = IF k = 0 THEN 0 ELSE 2 * h[k - 1] + bits[k - 1]
    OBVIOUS
  <2> HIDE DEF Body
  <2> QED BY <1>7, <2>1
<1> DEFINE T == {k \in Nat : k <= width => h[k] = f[k]}
<1>9. \A k \in Nat : k \in T
  <2>1. 0 \in T
    BY <1>3, <1>8
  <2>2. ASSUME NEW k \in Nat, k \in T PROVE k + 1 \in T
    <3>1. SUFFICES ASSUME k + 1 <= width PROVE h[k + 1] = f[k + 1]
      OBVIOUS
    <3>2. k + 1 \in 0 .. width /\ k + 1 # 0 /\ (k + 1) - 1 = k /\ h[k] = f[k]
      BY <2>2, <3>1
    <3>3. h[k + 1] = 2 * h[k] + bits[k]
      BY <1>8, <3>2
    <3>4. f[k + 1] = 2 * f[k] + bits[k]
      BY <1>3, <3>2
    <3> QED BY <3>2, <3>3, <3>4
  <2> HIDE DEF T
  <2> QED BY <2>1, <2>2, Induction
<1>10. h[width] = f[width]
  BY <1>9
<1>11. f[0] = 0 /\ \A k \in 1 .. width : f[k] = 2 * f[k - 1] + bits[k - 1]
  BY <1>3
<1> QED BY <1>6, <1>10, <1>11

(* The bits of the word or byte are those of the number, behind zeros.     *)
HoldsNumber(bits, width, v, n) ==
  \A i \in 0 .. width - 1 : bits[i] = IF i < width - n THEN 0 ELSE BitOf(v, width - 1 - i)

(* Then it is the number.                                                  *)
LEMMA NumberRead ==
  ASSUME NEW width \in {8, 32}, NEW n \in 1 .. 8, NEW v \in 0 .. 2 ^ n - 1, NEW bits,
         HoldsNumber(bits, width, v, n)
  PROVE  NumberOf(bits, width) = v
<1>0. v \in Nat /\ n \in 0 .. 8
  BY PowerOfField
<1>1. ASSUME NEW i \in 0 .. width - 1 PROVE bits[i] \in {0, 1}
  <2>1. CASE i < width - n
    BY <2>1 DEF HoldsNumber
  <2>2. CASE ~(i < width - n)
    <3>1. width - 1 - i \in 0 .. 7
      BY <2>2
    <3>2. bits[i] = BitOf(v, width - 1 - i)
      BY <2>2 DEF HoldsNumber
    <3> QED BY <1>0, <3>1, <3>2, NextBit
  <2> QED BY <2>1, <2>2
<1>2. width \in Nat
  OBVIOUS
<1>3. PICK f \in [0 .. width -> Nat] :
        /\ f[0] = 0
        /\ \A k \in 1 .. width : f[k] = 2 * f[k - 1] + bits[k - 1]
        /\ NumberOf(bits, width) = f[width]
  BY <1>1, <1>2, NumberSteps, Zenon
<1> DEFINE T == {m \in Nat : m <= width => f[m] = IF m <= width - n THEN 0 ELSE v \div 2 ^ (width - m)}
<1>4. 0 \in T
  <2>1. 0 <= width - n
    OBVIOUS
  <2> QED BY <1>3, <2>1
<1>5. ASSUME NEW m \in Nat, m \in T PROVE m + 1 \in T
  <2>1. SUFFICES ASSUME m + 1 <= width
                 PROVE f[m + 1] = IF m + 1 <= width - n THEN 0 ELSE v \div 2 ^ (width - (m + 1))
    OBVIOUS
  <2>2. m + 1 \in 1 .. width /\ (m + 1) - 1 = m /\ m \in 0 .. width - 1
    BY <2>1
  <2>3. f[m + 1] = 2 * f[m] + bits[m]
    BY <1>3, <2>2
  <2>4. f[m] = IF m <= width - n THEN 0 ELSE v \div 2 ^ (width - m)
    BY <1>5, <2>1
  <2>5. CASE m + 1 <= width - n
    <3>1. bits[m] = 0 /\ f[m] = 0
      BY <2>2, <2>4, <2>5 DEF HoldsNumber
    <3> QED BY <2>3, <2>5, <3>1
  <2>6. CASE ~(m + 1 <= width - n)
    <3>1. bits[m] = BitOf(v, width - 1 - m)
      BY <2>2, <2>6 DEF HoldsNumber
    <3>2. width - 1 - m \in 0 .. 7 /\ (width - 1 - m) + 1 = width - m /\ width - (m + 1) = width - 1 - m
      BY <2>2, <2>6
    <3>3. f[m] = v \div 2 ^ (width - m)
      <4>1. CASE m = width - n
        <5>1. width - m = n /\ n \in n .. 8
          BY <4>1
        <5>2. v \div 2 ^ n = 0
          BY <1>0, <5>1, NothingAbove
        <5> QED BY <2>4, <4>1, <5>1, <5>2
      <4>2. CASE ~(m <= width - n)
        BY <2>4, <4>2
      <4> QED BY <2>2, <2>6, <4>1, <4>2
    <3>4. v \div 2 ^ (width - 1 - m) = 2 * (v \div 2 ^ ((width - 1 - m) + 1)) + BitOf(v, width - 1 - m)
      BY <1>0, <3>2, NextBit
    <3>5. v \div 2 ^ (width - (m + 1)) = 2 * f[m] + bits[m]
      BY <3>1, <3>2, <3>3, <3>4
    <3> QED BY <2>3, <2>6, <3>5, Zenon
  <2> QED BY <2>5, <2>6
<1>6. width \in T
  <2>1. \A m \in Nat : m \in T
    <3> HIDE DEF T
    <3> QED BY <1>4, <1>5, Induction
  <2> QED BY <1>2, <2>1
<1>7. f[width] = v \div 2 ^ 0
  <2>1. ~(width <= width - n) /\ width - width = 0 /\ width <= width
    BY <1>2
  <2> QED BY <1>6, <2>1
<1>8. v \div 1 = v
  BY <1>0
<1> QED BY <1>3, <1>7, <1>8, Powers, Zenon

(***************************************************************************)
(* Fields of a message, one behind the other.                              *)
(***************************************************************************)
(* A field: a number, and as many bits as it fits.                         *)
Numbers == {f \in [v : Nat, n : 1 .. 8] : f.v \in 0 .. 2 ^ f.n - 1}

(* o[k] is the position behind the first k of the fields.                  *)
Positions(o, W) ==
  /\ o \in [0 .. Len(W) -> Nat] /\ o[0] = 0
  /\ \A k \in 1 .. Len(W) : o[k] = o[k - 1] + W[k].n

(* The bytes begin with the fields.                                        *)
Laid(o, W, bytes) ==
  /\ Positions(o, W)
  /\ \A k \in 1 .. Len(W) : FieldAt(bytes, o[k - 1], W[k].v, W[k].n)

(* Behind them is nothing but the padding of the last byte.                *)
Ends(end, bytes) ==
  /\ 8 * Len(bytes) - end \in 0 .. 7
  /\ \A k \in end .. 8 * Len(bytes) - 1 : Bytes!BitOf(bytes, k) = 0

(* The encoder has written these fields.                                   *)
Wrote(W) ==
  /\ W \in Seq(Numbers) /\ num_bits = 0 /\ fetch = Stream!NoFetch
  /\ exi_data \in Seq(Bytes!Byte) /\ bit_counter \in Nat
  /\ Bytes!BytesMatchBits /\ Bytes!PaddingIsZero
  /\ \E o : Laid(o, W, exi_data) /\ o[Len(W)] = bit_counter

(* The decoder is in a message that begins with these fields, behind the   *)
(* first m of them.                                                        *)
Stands(W, m, whole) ==
  /\ W \in Seq(Numbers) /\ m \in 0 .. Len(W)
  /\ exi_data \in Seq(Bytes!Byte) /\ num_bits = 8 * Len(exi_data) /\ num_bits # 0
  /\ \E o : /\ Laid(o, W, exi_data) /\ o[Len(W)] <= num_bits /\ bit_counter = o[m]
            /\ whole => Ends(o[Len(W)], exi_data)

Reads(W, m, whole) == Stands(W, m, whole) /\ fetch = Stream!NoFetch

(* Every field has a bit.                                                  *)
LEMMA PositionsRise ==
  ASSUME NEW W \in Seq(Numbers), NEW o, Positions(o, W), NEW m \in 0 .. Len(W)
  PROVE  o[m] \in Nat /\ m <= o[m] /\ o[m] <= o[Len(W)]
<1> DEFINE N == Len(W)
<1>0. N \in Nat /\ \A k \in 1 .. N : W[k].n \in 1 .. 8
  BY ElementOfSeq, LenProperties DEF Numbers
<1>1. /\ o[0] = 0 /\ \A k \in 0 .. N : o[k] \in Nat
      /\ \A k \in 1 .. N : o[k] = o[k - 1] + W[k].n
  BY <1>0 DEF Positions
<1> DEFINE T == {d \in Nat : d <= N => d <= o[d]}
           U == {d \in Nat : m + d <= N => o[m] <= o[m + d]}
<1>2. 0 \in T
  BY <1>1
<1>3. ASSUME NEW d \in Nat, d \in T PROVE d + 1 \in T
  <2>1. SUFFICES ASSUME d + 1 <= N PROVE d + 1 <= o[d + 1]
    OBVIOUS
  <2>2. d + 1 \in 1 .. N /\ (d + 1) - 1 = d /\ d \in 0 .. N /\ d <= o[d]
    BY <1>0, <1>3, <2>1
  <2>3. o[d + 1] = o[d] + W[d + 1].n /\ W[d + 1].n \in 1 .. 8 /\ o[d] \in Nat
    BY <1>0, <1>1, <2>2
  <2> QED BY <2>2, <2>3
<1>4. 0 \in U
  <2>1. m + 0 = m /\ o[m] \in Nat
    BY <1>0, <1>1
  <2> QED BY <2>1
<1>5. ASSUME NEW d \in Nat, d \in U PROVE d + 1 \in U
  <2>1. SUFFICES ASSUME m + (d + 1) <= N PROVE o[m] <= o[m + (d + 1)]
    OBVIOUS
  <2>2. m + (d + 1) \in 1 .. N /\ (m + (d + 1)) - 1 = m + d /\ m + d \in 0 .. N /\ o[m] <= o[m + d]
    BY <1>0, <1>5, <2>1
  <2>3. o[m + (d + 1)] = o[m + d] + W[m + (d + 1)].n /\ W[m + (d + 1)].n \in 1 .. 8 /\ o[m + d] \in Nat /\ o[m] \in Nat
    BY <1>0, <1>1, <2>2
  <2> QED BY <2>2, <2>3, SMTT(30)
<1>6. \A d \in Nat : d \in T /\ d \in U
  <2> HIDE DEF T, U
  <2> QED BY <1>2, <1>3, <1>4, <1>5, Induction
<1>7. o[m] \in Nat /\ m <= o[m]
  BY <1>0, <1>1, <1>6
<1>8. o[m] <= o[N]
  <2>1. N - m \in Nat /\ m + (N - m) = N
    BY <1>0
  <2>2. N - m \in U
    BY <1>6, <2>1
  <2> QED BY <2>1, <2>2
<1> QED BY <1>7, <1>8

(* The next field lies behind.                                             *)
LEMMA PositionsGrow ==
  ASSUME NEW W \in Seq(Numbers), NEW o, Positions(o, W), NEW m \in 0 .. Len(W) - 1
  PROVE  /\ W[m + 1] \in Numbers /\ W[m + 1].n \in 1 .. 8
         /\ o[m + 1] = o[m] + W[m + 1].n /\ o[m + 1] <= o[Len(W)]
<1>1. m + 1 \in 0 .. Len(W) /\ m + 1 \in 1 .. Len(W) /\ (m + 1) - 1 = m
  BY LenProperties
<1>2. W[m + 1] \in Numbers
  BY <1>1, ElementOfSeq
<1>3. o[m + 1] <= o[Len(W)]
  BY <1>1, PositionsRise
<1> QED BY <1>1, <1>2, <1>3 DEF Positions, Numbers

(* The stream's instance of the two modules.                               *)
LEMMA SameBits ==
  /\ Stream!Byte = Bytes!Byte
  /\ \A k \in Nat : Stream!BitAt(k) = Bytes!BitOf(exi_data, k)
  /\ Bytes!NoFetch = Stream!NoFetch
  BY DEF Stream!Byte, Stream!Bit, Bytes!Byte, Bytes!Bit, Stream!BitAt, Bytes!BitOf, Bytes!NoFetch, Stream!NoFetch

(* Fields and a number added behind them.                                  *)
LEMMA FieldAdded ==
  ASSUME NEW W, Wrote(W), NEW f \in Numbers, Stream!add_max_8bits(ByteOf(f.v), f.n)
  PROVE  Wrote(Append(W, f))'
<1> DEFINE data == ByteOf(f.v)
           n    == f.n
           M    == Len(W)
           X    == Append(W, f)
<1>0. f.v \in 0 .. 2 ^ n - 1 /\ n \in 1 .. 8 /\ f.v \in Nat
  BY DEF Numbers
<1>1. /\ data \in Bytes!Byte /\ Bytes!Fits(data, n)
      /\ \A k \in 0 .. n - 1 : data[(8 - n) + k] = BitOf(f.v, n - 1 - k)
  BY <1>0, ByteOfField
<1>2. Stream!Add(data, n) /\ num_bits' = num_bits /\ fetch' = fetch
  <2>1. ~(f.n = 0) /\ ~(f.n > 8)
    BY <1>0
  <2> QED BY <2>1, Zenon DEF Stream!add_max_8bits
<1>3. Bytes!Add(data, n)
  BY <1>2 DEF Stream!Add, Bytes!Add, Stream!Added, Bytes!Added, Stream!Spills, Bytes!Spills, Stream!NextByte,
     Bytes!NextByte, Stream!Merged, Bytes!Merged, Stream!ShiftLeft, Bytes!ShiftLeft, Stream!ShiftRight,
     Bytes!ShiftRight, Stream!LowBits, Bytes!LowBits, Stream!BitOr, Bytes!BitOr
<1>4. Bytes!TypeOK /\ Bytes!BytesMatchBits /\ Bytes!PaddingIsZero /\ num_bits = 0
  BY DEF Wrote, Bytes!TypeOK, Stream!NoFetch, Bytes!NoBytes
<1> HIDE DEF data, n
<1>5. /\ exi_data' \in Seq(Bytes!Byte)
      /\ \A k \in 0 .. (bit_counter - 1) : Bytes!BitOf(exi_data', k) = Bytes!BitOf(exi_data, k)
      /\ \A k \in 0 .. (n - 1) : Bytes!BitOf(exi_data', bit_counter + k) = data[(8 - n) + k]
  BY <1>0, <1>1, <1>3, <1>4, Bytes!FieldWritten, StreamAssumptions DEF n
<1>6. bit_counter' \in Nat /\ Bytes!BytesMatchBits' /\ Bytes!PaddingIsZero'
  BY <1>0, <1>1, <1>2, <1>3, <1>4, Bytes!AddKeepsWriterState, StreamAssumptions DEF n
<1>7. bit_counter' = bit_counter + n
  BY <1>2 DEF Stream!Add
<1>8. PICK o : Laid(o, W, exi_data) /\ o[M] = bit_counter
  BY DEF Wrote
<1>9. /\ W \in Seq(Numbers) /\ M \in Nat /\ X \in Seq(Numbers) /\ Len(X) = M + 1 /\ X[M + 1] = f
      /\ \A k \in 1 .. M : X[k] = W[k]
  BY AppendProperties, LenProperties DEF Wrote
<1>10. Positions(o, W) /\ \A k \in 0 .. M : o[k] \in Nat /\ o[k] <= o[M]
  <2>1. Positions(o, W)
    BY <1>8 DEF Laid
  <2> QED BY <1>9, <2>1, PositionsRise
<1> DEFINE p == [k \in 0 .. M + 1 |-> IF k <= M THEN o[k] ELSE o[M] + n]
<1>11. (\A k \in 0 .. M : p[k] = o[k]) /\ p[M + 1] = bit_counter + n
  BY <1>8, <1>9
<1>12. Positions(p, X)
  <2>1. p \in [0 .. M + 1 -> Nat] /\ p[0] = 0
    <3>1. n \in Nat /\ o[0] = 0
      BY <1>0, <1>10 DEF Positions, n
    <3> QED BY <1>9, <1>10, <3>1
  <2>2. ASSUME NEW k \in 1 .. M + 1 PROVE p[k] = p[k - 1] + X[k].n
    <3>1. CASE k <= M
      <4>1. k \in 1 .. M /\ k - 1 \in 0 .. M /\ k \in 0 .. M
        BY <1>9, <3>1
      <4>2. o[k] = o[k - 1] + W[k].n
        BY <1>10, <4>1 DEF Positions
      <4> HIDE DEF X, p
      <4> QED BY <1>9, <1>11, <4>1, <4>2
    <3>2. CASE k = M + 1
      <4>1. k - 1 = M /\ M \in 0 .. M
        BY <1>9, <3>2
      <4> HIDE DEF X, p
      <4> QED BY <1>8, <1>9, <1>11, <3>2, <4>1 DEF n
    <3> QED BY <1>9, <3>1, <3>2
  <2> HIDE DEF X, p
  <2> QED BY <1>9, <2>1, <2>2 DEF Positions
<1>13. ASSUME NEW k \in 1 .. M + 1 PROVE FieldAt(exi_data', p[k - 1], X[k].v, X[k].n)
  <2>1. CASE k <= M
    <3>1. k \in 1 .. M /\ k - 1 \in 0 .. M /\ k \in 0 .. M
      BY <1>9, <2>1
    <3>2. o[k] = o[k - 1] + W[k].n /\ FieldAt(exi_data, o[k - 1], W[k].v, W[k].n) /\ W[k].n \in 1 .. 8
      BY <1>8, <1>9, <1>10, <3>1, ElementOfSeq DEF Positions, Laid, Numbers
    <3>3. o[k - 1] \in Nat /\ o[k] <= bit_counter /\ bit_counter \in Nat
      BY <1>8, <1>9, <1>10, <3>1 DEF Wrote
    <3>4. ASSUME NEW i \in 0 .. W[k].n - 1
          PROVE  Bytes!BitOf(exi_data', o[k - 1] + i) = BitOf(W[k].v, W[k].n - 1 - i)
      <4>1. o[k - 1] + i \in 0 .. bit_counter - 1
        <5>1. \A a, b, c \in Nat : \A w \in 1 .. 8 : \A j \in 0 .. w - 1 : b = a + w /\ b <= c => a + j \in 0 .. c - 1
          OBVIOUS
        <5>2. o[k] \in Nat
          BY <1>10, <3>1
        <5> QED BY <3>2, <3>3, <5>1, <5>2
      <4>2. Bytes!BitOf(exi_data, o[k - 1] + i) = BitOf(W[k].v, W[k].n - 1 - i)
        BY <3>2 DEF FieldAt
      <4> QED BY <1>5, <4>1, <4>2
    <3> HIDE DEF X, p
    <3> QED BY <1>9, <1>11, <3>1, <3>4 DEF FieldAt
  <2>2. CASE k = M + 1
    <3>1. k - 1 = M /\ M \in 0 .. M
      BY <1>9, <2>2
    <3>2. p[k - 1] = bit_counter /\ X[k].v = f.v /\ X[k].n = n
      <4> HIDE DEF X, p
      <4> QED BY <1>8, <1>9, <1>11, <2>2, <3>1 DEF n
    <3> HIDE DEF X, p
    <3>3. \A i \in 0 .. n - 1 : Bytes!BitOf(exi_data', bit_counter + i) = BitOf(f.v, n - 1 - i)
      BY <1>1, <1>5
    <3> QED BY <3>2, <3>3 DEF FieldAt
  <2> QED BY <1>9, <2>1, <2>2
<1>14. Laid(p, X, exi_data') /\ p[Len(X)] = bit_counter'
  <2> HIDE DEF X, p
  <2> QED BY <1>7, <1>9, <1>11, <1>12, <1>13 DEF Laid
<1>15. num_bits' = 0 /\ fetch' = Stream!NoFetch
  BY <1>2 DEF Wrote
<1> HIDE DEF p, X
<1>16. \E q : Laid(q, X, exi_data') /\ q[Len(X)] = bit_counter'
  BY <1>14
<1> QED BY <1>5, <1>6, <1>9, <1>15, <1>16 DEF Wrote, X, Stream!NoFetch

(* Nothing is written yet.                                                 *)
LEMMA NothingWritten ==
  ASSUME exi_data = <<>>, num_bits = 0, bit_counter = 0, fetch = Stream!NoFetch
  PROVE  Wrote(<<>>)
<1> DEFINE o == [k \in 0 .. 0 |-> 0]
<1>1. Laid(o, <<>>, exi_data) /\ o[Len(<<>>)] = bit_counter
  BY DEF Laid, Positions
<1>2. Bytes!BytesMatchBits /\ Bytes!PaddingIsZero
  BY DEF Bytes!BytesMatchBits, Bytes!PaddingIsZero
<1>3. <<>> \in Seq(Numbers) /\ exi_data \in Seq(Bytes!Byte)
  OBVIOUS
<1> QED BY <1>1, <1>2, <1>3 DEF Wrote

(* What encode has returned is what the decoder stands before.             *)
LEMMA MessageReturned ==
  ASSUME NEW W, Wrote(W), W # <<>>, exi_data' = exi_data, num_bits' = 8 * Len(exi_data), bit_counter' = 0,
         fetch' = Stream!NoFetch
  PROVE  Reads(W, 0, TRUE)'
<1>0. /\ W \in Seq(Numbers) /\ Len(W) \in Nat /\ Len(W) # 0 /\ exi_data \in Seq(Bytes!Byte) /\ Len(exi_data) \in Nat
      /\ bit_counter \in Nat /\ num_bits = 0
  BY LenProperties, EmptySeq DEF Wrote
<1>1. PICK o : Laid(o, W, exi_data) /\ o[Len(W)] = bit_counter
  BY DEF Wrote
<1>2. Positions(o, W)
  BY <1>1 DEF Laid
<1>3. Len(W) <= bit_counter
  <2>1. Len(W) \in 0 .. Len(W)
    BY <1>0
  <2>2. Len(W) <= o[Len(W)]
    BY <1>0, <1>2, <2>1, PositionsRise
  <2> QED BY <1>1, <2>2
<1>4. Len(exi_data) = (bit_counter + 7) \div 8
  BY <1>0 DEF Wrote, Bytes!BytesMatchBits
<1>5. 8 * Len(exi_data) - bit_counter \in 0 .. 7 /\ 8 * Len(exi_data) # 0
  BY <1>0, <1>3, <1>4
<1>6. ASSUME NEW k \in bit_counter .. 8 * Len(exi_data) - 1 PROVE Bytes!BitOf(exi_data, k) = 0
  BY <1>0 DEF Wrote, Bytes!PaddingIsZero, Bytes!BitAt, Bytes!BitOf
<1>7. Ends(o[Len(W)], exi_data)
  BY <1>1, <1>5, <1>6 DEF Ends
<1>8. o[Len(W)] <= num_bits' /\ bit_counter' = o[0]
  BY <1>0, <1>1, <1>2, <1>5 DEF Positions
<1>9. Laid(o, W, exi_data') /\ Ends(o[Len(W)], exi_data') /\ exi_data' \in Seq(Bytes!Byte)
      /\ num_bits' = 8 * Len(exi_data') /\ num_bits' # 0 /\ 0 \in 0 .. Len(W)
  BY <1>0, <1>1, <1>5, <1>7
<1>10. Stands(W, 0, TRUE)'
  BY <1>0, <1>8, <1>9 DEF Stands
<1> QED BY <1>10 DEF Reads, Stream!NoFetch

(* The field the decoder stands before, as get_max_4bytes takes it.        *)
LEMMA FieldExtracted ==
  ASSUME NEW W, NEW m, NEW whole, Stands(W, m, whole), m < Len(W), NEW junk
  PROVE  /\ HoldsNumber(Stream!Extracted(W[m + 1].n, junk), 32, W[m + 1].v, W[m + 1].n)
         /\ W[m + 1].n \in 1 .. 8 /\ W[m + 1].v \in 0 .. 2 ^ W[m + 1].n - 1
         /\ bit_counter \in Nat /\ bit_counter + W[m + 1].n <= num_bits
<1> DEFINE n == W[m + 1].n
           v == W[m + 1].v
<1>0. /\ W \in Seq(Numbers) /\ Len(W) \in Nat /\ exi_data \in Seq(Bytes!Byte) /\ Len(exi_data) \in Nat
      /\ num_bits = 8 * Len(exi_data) /\ m \in 0 .. Len(W) - 1 /\ m \in 0 .. Len(W) /\ m + 1 \in 1 .. Len(W)
      /\ (m + 1) - 1 = m
  BY LenProperties DEF Stands
<1>1. PICK o : Laid(o, W, exi_data) /\ o[Len(W)] <= num_bits /\ bit_counter = o[m]
  BY DEF Stands
<1>2. Positions(o, W)
  BY <1>1 DEF Laid
<1>3. W[m + 1] \in Numbers /\ n \in 1 .. 8 /\ o[m + 1] = o[m] + n /\ o[m + 1] <= o[Len(W)]
  BY <1>0, <1>2, PositionsGrow
<1>4. o[m] \in Nat /\ o[Len(W)] \in Nat
  <2>1. Len(W) \in 0 .. Len(W)
    BY <1>0
  <2> QED BY <1>0, <1>2, <2>1, PositionsRise
<1>5. v \in 0 .. 2 ^ n - 1
  BY <1>3 DEF Numbers
<1>6. FieldAt(exi_data, bit_counter, v, n)
  BY <1>0, <1>1 DEF Laid
<1> HIDE DEF n, v
<1>7. bit_counter \in Nat /\ bit_counter + n <= num_bits
  BY <1>0, <1>1, <1>3, <1>4
<1>8. Stream!Extracted(n, junk) = Bytes!Extracted(n, junk)
  BY DEF Stream!Extracted, Bytes!Extracted, Stream!WordAt, Bytes!WordAt, Stream!Front, Bytes!Front, Stream!LowBits,
     Bytes!LowBits, Stream!ShiftLeft, Bytes!ShiftLeft, Stream!ShiftRight, Bytes!ShiftRight, Stream!BitOr, Bytes!BitOr
<1>9. n \in 0 .. 32
  BY <1>3
<1>10. Bytes!Extracted(n, junk)
        = [i \in 0 .. 31 |-> IF i >= 32 - n THEN Bytes!BitAt(bit_counter + (i - (32 - n))) ELSE 0]
  BY <1>0, <1>7, <1>9, Bytes!ExtractedBits, StreamAssumptions
<1>11. ASSUME NEW i \in 0 .. 31
       PROVE  Stream!Extracted(n, junk)[i] = IF i < 32 - n THEN 0 ELSE BitOf(v, 31 - i)
  <2>1. CASE i < 32 - n
    BY <1>3, <1>8, <1>10, <2>1
  <2>2. CASE ~(i < 32 - n)
    <3>1. i - (32 - n) \in 0 .. n - 1 /\ n - 1 - (i - (32 - n)) = 31 - i /\ i >= 32 - n
      BY <1>3, <2>2
    <3>2. Stream!Extracted(n, junk)[i] = Bytes!BitOf(exi_data, bit_counter + (i - (32 - n)))
      BY <1>8, <1>10, <3>1 DEF Bytes!BitAt, Bytes!BitOf
    <3>3. Bytes!BitOf(exi_data, bit_counter + (i - (32 - n))) = BitOf(v, 31 - i)
      BY <1>6, <3>1 DEF FieldAt
    <3> QED BY <2>2, <3>2, <3>3
  <2> QED BY <2>1, <2>2
<1>12. HoldsNumber(Stream!Extracted(n, junk), 32, v, n)
  <2>1. 32 - 1 = 31
    OBVIOUS
  <2> QED BY <1>11, <2>1 DEF HoldsNumber
<1> QED BY <1>3, <1>5, <1>7, <1>12 DEF n, v

(* And the position behind it.                                             *)
LEMMA FieldPassed ==
  ASSUME NEW W, NEW m, NEW whole, Stands(W, m, whole), m < Len(W), UNCHANGED <<exi_data, num_bits>>,
         bit_counter' = bit_counter + W[m + 1].n
  PROVE  Stands(W, m + 1, whole)'
<1>0. /\ W \in Seq(Numbers) /\ Len(W) \in Nat /\ m \in 0 .. Len(W) - 1 /\ m + 1 \in 0 .. Len(W)
  BY LenProperties DEF Stands
<1>1. PICK o : /\ Laid(o, W, exi_data) /\ o[Len(W)] <= num_bits /\ bit_counter = o[m]
               /\ whole => Ends(o[Len(W)], exi_data)
  BY DEF Stands
<1>2. Positions(o, W)
  BY <1>1 DEF Laid
<1>3. o[m + 1] = o[m] + W[m + 1].n
  BY <1>0, <1>2, PositionsGrow
<1>4. /\ Laid(o, W, exi_data') /\ o[Len(W)] <= num_bits' /\ bit_counter' = o[m + 1]
      /\ whole => Ends(o[Len(W)], exi_data')
  BY <1>1, <1>3
<1> QED BY <1>0, <1>4 DEF Stands

(* get_max_4bytes returns the field.                                       *)
LEMMA FieldRead ==
  ASSUME NEW W, NEW m, NEW whole, Reads(W, m, whole), m < Len(W), Stream!get_max_4bytes(W[m + 1].n)
  PROVE  Reads(W, m + 1, whole)' /\ Value' = W[m + 1].v
<1>1. Stands(W, m, whole) /\ fetch = Stream!NoFetch
  BY DEF Reads
<1>2. PICK junk \in Junk : Stream!Returns("get_max_4bytes", W[m + 1].n, "ok", Stream!Extracted(W[m + 1].n, junk))
  BY DEF Stream!get_max_4bytes
<1>3. bit_counter' = bit_counter + W[m + 1].n /\ UNCHANGED <<exi_data, num_bits, fetch>>
  BY DEF Stream!get_max_4bytes
<1>4. Stands(W, m + 1, whole)'
  BY <1>1, <1>3, FieldPassed
<1>5. last'.value = Stream!Extracted(W[m + 1].n, junk)
  BY <1>2 DEF Stream!Returns
<1>6. /\ HoldsNumber(Stream!Extracted(W[m + 1].n, junk), 32, W[m + 1].v, W[m + 1].n)
      /\ W[m + 1].n \in 1 .. 8 /\ W[m + 1].v \in 0 .. 2 ^ W[m + 1].n - 1
  BY <1>1, FieldExtracted
<1>7. NumberOf(last'.value, 32) = W[m + 1].v
  BY <1>5, <1>6, NumberRead
<1> QED BY <1>1, <1>3, <1>4, <1>7 DEF Reads, Value, Stream!NoFetch

(* get_next_n_bits has been called for the number of a message.            *)
Fetches6(W, m, whole) ==
  /\ Stands(W, m, whole) /\ m < Len(W) /\ W[m + 1].n = 6
  /\ fetch # Stream!NoFetch /\ fetch.n = 6 /\ fetch.taken = 0 /\ DOMAIN fetch.buffer = 0 .. 0

(* The loop of get_next_n_bits begins where the field of six bits does.    *)
LEMMA FetchStarts ==
  ASSUME NEW W, NEW m, NEW whole, Reads(W, m, whole), m < Len(W), W[m + 1].n = 6, Stream!get_next_n_bits(6, FALSE)
  PROVE  Fetches6(W, m, whole)' /\ DOMAIN fetch' = {"n", "taken", "buffer"}
<1>1. bit_counter + 6 <= num_bits /\ bit_counter \in Nat /\ num_bits \in Nat
  <2>1. Stands(W, m, whole)
    BY DEF Reads
  <2>2. bit_counter \in Nat /\ bit_counter + W[m + 1].n <= num_bits
    BY <2>1, FieldExtracted
  <2>3. Len(exi_data) \in Nat /\ num_bits = 8 * Len(exi_data)
    BY <2>1, LenProperties DEF Stands
  <2> QED BY <2>2, <2>3
<1>2. 6 # 0 /\ ~(6 > num_bits) /\ Stream!BufferSize(6) - 1 = 0
  BY <1>1 DEF Stream!BufferSize
<1>3. PICK junk \in Junk :
        fetch' = [n |-> 6, taken |-> 0, buffer |-> [k \in 0 .. (Stream!BufferSize(6) - 1) |-> junk[0]]]
  <2>1. ~FALSE
    OBVIOUS
  <2> QED BY <1>2, <2>1, Zenon DEF Stream!get_next_n_bits
<1>4. UNCHANGED <<exi_data, bit_counter, num_bits>>
  BY DEF Stream!get_next_n_bits
<1>5. /\ fetch'.n = 6 /\ fetch'.taken = 0 /\ DOMAIN fetch'.buffer = 0 .. 0 /\ DOMAIN fetch' = {"n", "taken", "buffer"}
      /\ fetch' # [n |-> 0, taken |-> 0, buffer |-> <<>>]
  BY <1>2, <1>3
<1>6. Stands(W, m, whole)'
  BY <1>4 DEF Reads, Stands
<1> QED BY <1>5, <1>6 DEF Fetches6, Stream!NoFetch

(* Its one turn of the loop stores the number in a byte.                   *)
LEMMA FetchReturns ==
  ASSUME NEW W, NEW m, NEW whole, Fetches6(W, m, whole), Stream!get_next_n_bits_iteration
  PROVE  Reads(W, m + 1, whole)' /\ message_type' = W[m + 1].v
<1>0. /\ Stands(W, m, whole) /\ m < Len(W) /\ W[m + 1].n = 6 /\ fetch.n = 6 /\ fetch.taken = 0
      /\ DOMAIN fetch.buffer = 0 .. 0
  BY DEF Fetches6
<1>1. Stream!BitsToTake = 6
  BY <1>0 DEF Stream!BitsToTake
<1>2. ~(fetch.taken + 6 < fetch.n)
  BY <1>0
<1>3. PICK junk \in Junk :
        /\ fetch' = Stream!NoFetch
        /\ last' = [op |-> "get_next_n_bits", n |-> fetch.n, status |-> "ok",
                    value |-> Stream!Stored(fetch.buffer, fetch.taken, 6, Stream!Extracted(6, junk))]
  BY <1>1, <1>2, Zenon DEF Stream!get_next_n_bits_iteration, Stream!Returns
<1>4. bit_counter' = bit_counter + W[m + 1].n /\ UNCHANGED <<exi_data, num_bits>>
  BY <1>0, <1>1 DEF Stream!get_next_n_bits_iteration
<1>5. Stands(W, m + 1, whole)'
  BY <1>0, <1>4, FieldPassed
<1>6. /\ HoldsNumber(Stream!Extracted(6, junk), 32, W[m + 1].v, 6)
      /\ W[m + 1].v \in 0 .. 2 ^ 6 - 1
  <2>1. /\ HoldsNumber(Stream!Extracted(W[m + 1].n, junk), 32, W[m + 1].v, W[m + 1].n)
        /\ W[m + 1].v \in 0 .. 2 ^ W[m + 1].n - 1
    BY <1>0, FieldExtracted
  <2> QED BY <1>0, <2>1
<1> DEFINE value == Stream!Extracted(6, junk)
           byte  == last'.value[0]
<1> HIDE DEF value
<1>7. byte = [i \in 0 .. 7 |-> value[24 + i]]
  <2>1. /\ 6 \in 1 .. 24 /\ ((6 - 1) \div 8) + 1 = 1 /\ 0 \div 8 = 0 /\ 0 \in 0 .. (0 + 1 - 1) /\ 0 \in 0 .. 0
        /\ \A i \in 0 .. 7 : 32 - 8 * 1 + 8 * (0 - 0) + i = 24 + i
    OBVIOUS
  <2>2. last'.value = Stream!Stored(fetch.buffer, 0, 6, value)
    BY <1>0, <1>3 DEF value
  <2>3. Stream!Stored(fetch.buffer, 0, 6, value)[0] = [i \in 0 .. 7 |-> value[24 + i]]
    BY <1>0, <2>1 DEF Stream!Stored
  <2> QED BY <2>2, <2>3
<1>8. HoldsNumber(byte, 8, W[m + 1].v, 6)
  <2>1. ASSUME NEW i \in 0 .. 8 - 1
        PROVE  byte[i] = IF i < 8 - 6 THEN 0 ELSE BitOf(W[m + 1].v, 8 - 1 - i)
    <3>1. /\ 24 + i \in 0 .. 32 - 1 /\ (24 + i < 32 - 6 <=> i < 8 - 6) /\ 32 - 1 - (24 + i) = 8 - 1 - i
          /\ i \in 0 .. 7
      OBVIOUS
    <3>2. value[24 + i] = IF 24 + i < 32 - 6 THEN 0 ELSE BitOf(W[m + 1].v, 32 - 1 - (24 + i))
      BY <1>6, <3>1 DEF HoldsNumber, value
    <3> HIDE DEF byte
    <3> QED BY <1>7, <3>1, <3>2
  <2> HIDE DEF byte
  <2> QED BY <2>1 DEF HoldsNumber
<1>9. NumberOf(byte, 8) = W[m + 1].v
  <2> HIDE DEF byte
  <2>1. 6 \in 1 .. 8 /\ 8 \in {8, 32}
    OBVIOUS
  <2> QED BY <1>6, <1>8, <2>1, NumberRead
<1> QED BY <1>3, <1>5, <1>9 DEF Reads, message_type, Stream!NoFetch

(***************************************************************************)
(* The end of a message, and its beginning under another namespace.        *)
(***************************************************************************)
Number(v, n) == [v |-> v, n |-> n]

(* A field of n bits holds the numbers below 2 ^ n.                        *)
LEMMA NumberIn ==
  ASSUME NEW n \in 1 .. 8, NEW v \in Nat, v <= 2 ^ n - 1
  PROVE  Number(v, n) \in Numbers /\ Number(v, n).v = v /\ Number(v, n).n = n
<1>1. n \in 0 .. 8
  OBVIOUS
<1>2. 2 ^ n \in 1 .. 256
  BY <1>1, PowerOfField
<1>3. v \in 0 .. 2 ^ n - 1
  BY <1>2
<1>4. Number(v, n) \in [v : Nat, n : 1 .. 8] /\ Number(v, n).v = v /\ Number(v, n).n = n
  BY DEF Number
<1> HIDE DEF Number
<1> QED BY <1>3, <1>4 DEF Numbers

(* Six bits make a number below 64, whose bits they are.                   *)
IsSixBits(v, a, b, c, d, e, f) ==
  /\ a \in Bytes!Bit /\ b \in Bytes!Bit /\ c \in Bytes!Bit /\ d \in Bytes!Bit /\ e \in Bytes!Bit /\ f \in Bytes!Bit
  /\ v = 32 * a + 16 * b + 8 * c + 4 * d + 2 * e + f

HasSixBits(v, a, b, c, d, e, f) ==
  /\ v \in 0 .. 63 /\ BitOf(v, 6) = 0 /\ BitOf(v, 5) = a /\ BitOf(v, 4) = b /\ BitOf(v, 3) = c
  /\ BitOf(v, 2) = d /\ BitOf(v, 1) = e /\ BitOf(v, 0) = f

(* A number of six bits, by its bits.                                      *)
LEMMA SixBits ==
  ASSUME NEW v, NEW a, NEW b, NEW c, NEW d, NEW e, NEW f, IsSixBits(v, a, b, c, d, e, f)
  PROVE  HasSixBits(v, a, b, c, d, e, f)
<1> USE DEF Bytes!Bit
<1>0. /\ v = 32 * a + 16 * b + 8 * c + 4 * d + 2 * e + f
      /\ a \in {0, 1} /\ b \in {0, 1} /\ c \in {0, 1} /\ d \in {0, 1} /\ e \in {0, 1} /\ f \in {0, 1}
  BY DEF IsSixBits
<1>1. v \in 0 .. 63
  BY <1>0
<1>2. v \div 64 = 0 /\ v \div 32 = a /\ v \div 1 = v
  BY <1>0, <1>1
<1>3. v \div 16 = 2 * a + b
  BY <1>0
<1>4. v \div 8 = 2 * (2 * a + b) + c
  BY <1>0
<1>5. v \div 4 = 2 * (2 * (2 * a + b) + c) + d
  BY <1>0
<1>6. v \div 2 = 2 * (2 * (2 * (2 * a + b) + c) + d) + e
  BY <1>0
<1>7. v = 2 * (2 * (2 * (2 * (2 * a + b) + c) + d) + e) + f
  BY <1>0
<1>8. \A q \in Nat : \A r \in {0, 1} : (2 * q + r) % 2 = r
  OBVIOUS
<1>9. a % 2 = a /\ 0 % 2 = 0
  BY <1>0
<1>10. BitOf(v, 6) = 0 /\ BitOf(v, 5) = a
  BY <1>0, <1>2, <1>9, Powers DEF BitOf
<1>11. BitOf(v, 4) = b
  BY <1>0, <1>3, <1>8, Powers DEF BitOf
<1>12. BitOf(v, 3) = c
  <2>1. 2 * a + b \in Nat
    BY <1>0
  <2> QED BY <1>0, <1>4, <1>8, <2>1, Powers DEF BitOf
<1>13. BitOf(v, 2) = d
  <2>1. 2 * (2 * a + b) + c \in Nat
    BY <1>0
  <2> QED BY <1>0, <1>5, <1>8, <2>1, Powers DEF BitOf
<1>14. BitOf(v, 1) = e
  <2>1. 2 * (2 * (2 * a + b) + c) + d \in Nat
    BY <1>0
  <2> QED BY <1>0, <1>6, <1>8, <2>1, Powers DEF BitOf
<1>15. BitOf(v, 0) = f
  <2>1. 2 * (2 * (2 * (2 * a + b) + c) + d) + e \in Nat
    BY <1>0
  <2>2. v % 2 = f
    BY <1>0, <1>7, <1>8, <2>1
  <2> QED BY <1>2, <2>2, Powers DEF BitOf
<1> QED BY <1>1, <1>10, <1>11, <1>12, <1>13, <1>14, <1>15 DEF HasSixBits

(* What is left behind field m, when the fields behind it are single zeros. *)
LEMMA WhatIsLeft ==
  ASSUME NEW W, NEW m, Reads(W, m, TRUE), NEW c \in {0, 2}, Len(W) = m + c,
         \A k \in m + 1 .. m + c : W[k] = Number(0, 1)
  PROVE  /\ num_bits - bit_counter \in c .. c + 7
         /\ \A k \in bit_counter .. num_bits - 1 : Stream!BitAt(k) = 0
<1>0. /\ W \in Seq(Numbers) /\ m \in Nat /\ m \in 0 .. Len(W) /\ exi_data \in Seq(Bytes!Byte) /\ Len(exi_data) \in Nat
      /\ num_bits = 8 * Len(exi_data)
  BY LenProperties DEF Reads, Stands
<1>1. PICK o : Laid(o, W, exi_data) /\ bit_counter = o[m] /\ Ends(o[Len(W)], exi_data)
  BY DEF Reads, Stands
<1>2. Positions(o, W)
  BY <1>1 DEF Laid
<1>3. o[m] \in Nat
  BY <1>0, <1>2, PositionsRise
<1>4. o[Len(W)] = o[m] + c
  <2>1. CASE c = 0
    BY <1>0, <1>3, <2>1
  <2>2. CASE c = 2
    <3>1. /\ m + 1 \in m + 1 .. m + c /\ m + 2 \in m + 1 .. m + c /\ m + 1 \in 1 .. Len(W) /\ m + 2 \in 1 .. Len(W)
          /\ (m + 1) - 1 = m /\ (m + 2) - 1 = m + 1
      BY <1>0, <2>2
    <3>2. W[m + 1].n = 1 /\ W[m + 2].n = 1
      BY <3>1 DEF Number
    <3>3. o[m + 1] = o[m] + 1 /\ o[m + 2] = o[m + 1] + 1
      BY <1>2, <3>1, <3>2 DEF Positions
    <3> QED BY <1>3, <2>2, <3>3
  <2> QED BY <2>1, <2>2
<1>5. num_bits - (o[m] + c) \in 0 .. 7 /\ num_bits \in Nat
  BY <1>0, <1>1, <1>4 DEF Ends
<1>6. num_bits - bit_counter \in c .. c + 7
  <2>1. c \in Nat
    OBVIOUS
  <2> QED BY <1>1, <1>3, <1>5, <2>1
<1>7. ASSUME NEW k \in bit_counter .. num_bits - 1 PROVE Bytes!BitOf(exi_data, k) = 0
  <2>1. CASE k >= o[m] + c
    <3>1. k \in o[Len(W)] .. 8 * Len(exi_data) - 1
      BY <1>0, <1>1, <1>3, <1>4, <2>1
    <3> QED BY <1>1, <3>1 DEF Ends
  <2>2. CASE ~(k >= o[m] + c)
    <3>1. c = 2 /\ (k = o[m] \/ k = o[m] + 1)
      BY <1>1, <1>3, <2>2
    <3>2. PICK j \in 1 .. 2 : k = o[m] + (j - 1)
      BY <1>3, <3>1
    <3>3. m + j \in m + 1 .. m + c /\ m + j \in 1 .. Len(W) /\ (m + j) - 1 = m + (j - 1)
      BY <1>0, <3>1
    <3>4. W[m + j] = Number(0, 1)
      BY <3>3
    <3>5. FieldAt(exi_data, o[m + (j - 1)], 0, 1)
      BY <1>1, <3>3, <3>4 DEF Laid, Number
    <3>6. o[m + (j - 1)] = k
      <4>1. CASE j = 1
        BY <1>0, <1>3, <3>2, <4>1
      <4>2. CASE j = 2
        <5>1. m + 1 \in m + 1 .. m + c /\ m + 1 \in 1 .. Len(W) /\ (m + 1) - 1 = m
          BY <1>0, <3>1
        <5>2. W[m + 1].n = 1
          BY <5>1 DEF Number
        <5>3. o[m + 1] = o[m] + 1
          BY <1>2, <5>1, <5>2 DEF Positions
        <5> QED BY <3>2, <4>2, <5>3
      <4> QED BY <4>1, <4>2
    <3>7. 0 \in 0 .. 1 - 1 /\ k + 0 = k /\ 1 - 1 - 0 = 0
      BY <1>1, <1>3
    <3>8. Bytes!BitOf(exi_data, k) = BitOf(0, 0)
      BY <3>5, <3>6, <3>7 DEF FieldAt
    <3>9. 0 \div 1 = 0 /\ 0 % 2 = 0
      OBVIOUS
    <3> QED BY <3>8, <3>9, Powers DEF BitOf
  <2> QED BY <2>1, <2>2
<1>8. \A k \in bit_counter .. num_bits - 1 : k \in Nat
  BY <1>1, <1>3, <1>5
<1> QED BY <1>6, <1>7, <1>8, SameBits

(* Two fields at the beginning of the bytes.                               *)
LEMMA TwoFields ==
  ASSUME NEW f \in Numbers, NEW g \in Numbers, exi_data \in Seq(Bytes!Byte), num_bits = 8 * Len(exi_data),
         bit_counter = 0, fetch = Stream!NoFetch, f.n + g.n <= num_bits,
         FieldAt(exi_data, 0, f.v, f.n), FieldAt(exi_data, f.n, g.v, g.n)
  PROVE  Reads(<<f, g>>, 0, FALSE)
<1> DEFINE W == <<f, g>>
           o == [k \in 0 .. 2 |-> IF k = 0 THEN 0 ELSE IF k = 1 THEN f.n ELSE f.n + g.n]
<1>0. f.n \in 1 .. 8 /\ g.n \in 1 .. 8 /\ Len(exi_data) \in Nat
  BY LenProperties DEF Numbers
<1>1. W \in Seq(Numbers) /\ Len(W) = 2 /\ W[1] = f /\ W[2] = g
  OBVIOUS
<1> HIDE DEF W
<1>2. o[0] = 0 /\ o[1] = f.n /\ o[2] = f.n + g.n /\ o \in [0 .. 2 -> Nat]
  BY <1>0, SMTT(30)
<1> HIDE DEF o
<1>3. \A k \in 1 .. 2 : k = 1 \/ k = 2
  OBVIOUS
<1>4. 1 - 1 = 0 /\ 2 - 1 = 1
  OBVIOUS
<1>5. \A k \in 1 .. 2 : o[k] = o[k - 1] + W[k].n
  <2>1. o[1] = o[1 - 1] + W[1].n
    BY <1>0, <1>1, <1>2
  <2>2. o[2] = o[2 - 1] + W[2].n
    BY <1>0, <1>1, <1>2
  <2> QED BY <1>3, <2>1, <2>2
<1>6. \A k \in 1 .. 2 : FieldAt(exi_data, o[k - 1], W[k].v, W[k].n)
  <2>1. FieldAt(exi_data, o[1 - 1], W[1].v, W[1].n)
    BY <1>1, <1>2, <1>4
  <2>2. FieldAt(exi_data, o[2 - 1], W[2].v, W[2].n)
    BY <1>1, <1>2, <1>4
  <2> QED BY <1>3, <2>1, <2>2
<1>7. Laid(o, W, exi_data)
  BY <1>1, <1>2, <1>5, <1>6 DEF Laid, Positions
<1>8. num_bits # 0 /\ o[Len(W)] <= num_bits /\ bit_counter = o[0] /\ 0 \in 0 .. Len(W)
  BY <1>0, <1>1, <1>2
<1> QED BY <1>1, <1>7, <1>8 DEF Reads, Stands, W

(* The first two fields of a message.                                      *)
LEMMA FirstFields ==
  ASSUME NEW W, Reads(W, 0, TRUE), Len(W) >= 2
  PROVE  /\ W[1] \in Numbers /\ W[2] \in Numbers /\ bit_counter = 0
         /\ exi_data \in Seq(Bytes!Byte) /\ num_bits = 8 * Len(exi_data) /\ fetch = Stream!NoFetch
         /\ W[1].n + W[2].n <= num_bits
         /\ FieldAt(exi_data, 0, W[1].v, W[1].n) /\ FieldAt(exi_data, W[1].n, W[2].v, W[2].n)
<1>0. /\ W \in Seq(Numbers) /\ Len(W) \in Nat /\ exi_data \in Seq(Bytes!Byte) /\ Len(exi_data) \in Nat
      /\ num_bits = 8 * Len(exi_data) /\ fetch = Stream!NoFetch
  BY LenProperties DEF Reads, Stands
<1>1. PICK o : Laid(o, W, exi_data) /\ bit_counter = o[0] /\ o[Len(W)] <= num_bits
  BY DEF Reads, Stands
<1>2. Positions(o, W)
  BY <1>1 DEF Laid
<1>3. W[1] \in Numbers /\ W[2] \in Numbers /\ W[1].n \in 1 .. 8 /\ W[2].n \in 1 .. 8
  <2>1. 1 \in 1 .. Len(W) /\ 2 \in 1 .. Len(W)
    BY <1>0
  <2> QED BY <1>0, <2>1, ElementOfSeq DEF Numbers
<1>4. o[0] = 0 /\ o[1] = W[1].n /\ o[2] = W[1].n + W[2].n
  <2>1. 1 \in 1 .. Len(W) /\ 2 \in 1 .. Len(W) /\ 1 - 1 = 0 /\ 2 - 1 = 1
    BY <1>0
  <2>2. o[0] = 0 /\ o[1] = o[0] + W[1].n /\ o[2] = o[1] + W[2].n
    BY <1>2, <2>1 DEF Positions
  <2> QED BY <1>3, <2>2
<1>5. o[2] <= o[Len(W)] /\ o[Len(W)] \in Nat
  <2>1. 1 \in 0 .. Len(W) - 1 /\ 1 + 1 = 2 /\ Len(W) \in 0 .. Len(W)
    BY <1>0
  <2> QED BY <1>0, <1>2, <2>1, PositionsGrow, PositionsRise
<1>6. W[1].n + W[2].n <= num_bits
  <2>1. num_bits \in Nat /\ o[2] \in Nat
    BY <1>0, <1>3, <1>4
  <2>2. o[2] <= num_bits
    BY <1>1, <1>5, <2>1
  <2> QED BY <1>4, <2>2
<1>7. FieldAt(exi_data, 0, W[1].v, W[1].n) /\ FieldAt(exi_data, W[1].n, W[2].v, W[2].n)
  <2>1. 1 \in 1 .. Len(W) /\ 2 \in 1 .. Len(W) /\ 1 - 1 = 0 /\ 2 - 1 = 1
    BY <1>0
  <2> QED BY <1>1, <1>4, <2>1 DEF Laid
<1> QED BY <1>0, <1>1, <1>3, <1>4, <1>6, <1>7

(* The number of a V2G namespace begins with the bits 1 and 0, which is no *)
(* message of the app protocol.                                            *)
LEMMA V2GAsApp ==
  ASSUME NEW W, Reads(W, 0, TRUE), Len(W) >= 2, W[1] = Number(128, 8), NEW id \in {76, 77}, W[2] = Number(id, 7)
  PROVE  Reads(<<Number(128, 8), Number(2, 2)>>, 0, FALSE)
<1>1. /\ bit_counter = 0 /\ exi_data \in Seq(Bytes!Byte) /\ num_bits = 8 * Len(exi_data) /\ fetch = Stream!NoFetch
      /\ 8 + 7 <= num_bits /\ FieldAt(exi_data, 0, 128, 8) /\ FieldAt(exi_data, 8, id, 7)
      /\ Number(128, 8) \in Numbers
  <2>1. W[1].v = 128 /\ W[1].n = 8 /\ W[2].v = id /\ W[2].n = 7
    BY DEF Number
  <2> HIDE DEF Number
  <2> QED BY <2>1, FirstFields, ZenonT(60)
<1>2. Number(2, 2) \in Numbers
  <2>1. 2 <= 2 ^ 2 - 1 /\ 2 \in 1 .. 8
    BY Powers
  <2> QED BY <2>1, NumberIn
<1>3. FieldAt(exi_data, 8, 2, 2)
  <2>1. Bytes!BitOf(exi_data, 8 + 0) = BitOf(id, 6) /\ Bytes!BitOf(exi_data, 8 + 1) = BitOf(id, 5)
    <3>1. 0 \in 0 .. 7 - 1 /\ 1 \in 0 .. 7 - 1 /\ 7 - 1 - 0 = 6 /\ 7 - 1 - 1 = 5
      OBVIOUS
    <3> QED BY <1>1, <3>1 DEF FieldAt
  <2>2. BitOf(id, 6) = 1 /\ BitOf(id, 5) = 0
    <3>1. (76 \div 64) % 2 = 1 /\ (77 \div 64) % 2 = 1 /\ (76 \div 32) % 2 = 0 /\ (77 \div 32) % 2 = 0
      OBVIOUS
    <3>2. CASE id = 76
      BY <3>1, <3>2, Powers DEF BitOf
    <3>3. CASE id = 77
      BY <3>1, <3>3, Powers DEF BitOf
    <3> QED BY <3>2, <3>3
  <2>3. BitOf(2, 1) = 1 /\ BitOf(2, 0) = 0
    <3>1. (2 \div 2) % 2 = 1 /\ (2 \div 1) % 2 = 0
      OBVIOUS
    <3> QED BY <3>1, Powers DEF BitOf
  <2>4. 2 - 1 - 0 = 1 /\ 2 - 1 - 1 = 0 /\ \A k \in 0 .. 2 - 1 : k = 0 \/ k = 1
    OBVIOUS
  <2>5. Bytes!BitOf(exi_data, 8 + 0) = BitOf(2, 2 - 1 - 0) /\ Bytes!BitOf(exi_data, 8 + 1) = BitOf(2, 2 - 1 - 1)
    BY <2>1, <2>2, <2>3, <2>4
  <2> QED BY <2>4, <2>5 DEF FieldAt
<1>4. Number(128, 8).v = 128 /\ Number(128, 8).n = 8 /\ Number(2, 2).v = 2 /\ Number(2, 2).n = 2 /\ 8 + 2 <= num_bits
  BY <1>1, LenProperties DEF Number
<1> HIDE DEF Number
<1> QED BY <1>1, <1>2, <1>3, <1>4, TwoFields

(* A message of the app protocol begins with the bit 0, which no number of *)
(* a V2G namespace does.                                                   *)
LEMMA AppAsV2G ==
  ASSUME NEW W, Reads(W, 0, TRUE), Len(W) >= 2, W[1] = Number(128, 8), NEW i \in {0, 1}, W[2] = Number(i, 2)
  PROVE  \E v \in 0 .. 63 : Reads(<<Number(128, 8), Number(v, 7)>>, 0, FALSE)
<1>1. /\ bit_counter = 0 /\ exi_data \in Seq(Bytes!Byte) /\ num_bits = 8 * Len(exi_data) /\ fetch = Stream!NoFetch
      /\ 8 + 2 <= num_bits /\ FieldAt(exi_data, 0, 128, 8) /\ FieldAt(exi_data, 8, i, 2)
      /\ Number(128, 8) \in Numbers
  <2>1. W[1].v = 128 /\ W[1].n = 8 /\ W[2].v = i /\ W[2].n = 2
    BY DEF Number
  <2> HIDE DEF Number
  <2> QED BY <2>1, FirstFields, ZenonT(60)
<1>2. Len(exi_data) \in Nat /\ 8 * Len(exi_data) >= 16
  BY <1>1, LenProperties
<1> DEFINE b(k) == Bytes!BitOf(exi_data, 8 + k)
<1>3. b(0) = 0
  <2>1. 0 \in 0 .. 2 - 1 /\ 2 - 1 - 0 = 1
    OBVIOUS
  <2>2. b(0) = BitOf(i, 1)
    BY <1>1, <2>1 DEF FieldAt
  <2>3. (0 \div 2) % 2 = 0 /\ (1 \div 2) % 2 = 0
    OBVIOUS
  <2>4. BitOf(0, 1) = 0 /\ BitOf(1, 1) = 0
    BY <2>3, Powers DEF BitOf
  <2> QED BY <2>2, <2>4
<1>4. ASSUME NEW k \in 0 .. 7 PROVE b(k) \in Bytes!Bit
  <2>1. 8 + k \in Nat /\ 8 + k < 8 * Len(exi_data)
    BY <1>2
  <2> QED BY <1>1, <2>1, Bytes!BitsOfBytes, StreamAssumptions
<1> HIDE DEF b
<1> DEFINE v == 32 * b(1) + 16 * b(2) + 8 * b(3) + 4 * b(4) + 2 * b(5) + b(6)
<1>5. /\ b(1) \in Bytes!Bit /\ b(2) \in Bytes!Bit /\ b(3) \in Bytes!Bit /\ b(4) \in Bytes!Bit /\ b(5) \in Bytes!Bit
      /\ b(6) \in Bytes!Bit
  BY <1>4
<1>6. /\ v \in 0 .. 63 /\ BitOf(v, 6) = 0 /\ BitOf(v, 5) = b(1) /\ BitOf(v, 4) = b(2) /\ BitOf(v, 3) = b(3)
      /\ BitOf(v, 2) = b(4) /\ BitOf(v, 1) = b(5) /\ BitOf(v, 0) = b(6)
  <2>1. IsSixBits(v, b(1), b(2), b(3), b(4), b(5), b(6))
    BY <1>5 DEF IsSixBits
  <2> HIDE DEF v
  <2>2. HasSixBits(v, b(1), b(2), b(3), b(4), b(5), b(6))
    BY <2>1, SixBits
  <2> QED BY <2>2 DEF HasSixBits
<1> HIDE DEF v
<1>7. Number(v, 7) \in Numbers
  <2>1. v <= 2 ^ 7 - 1 /\ v \in Nat /\ 7 \in 1 .. 8
    BY <1>6, Powers
  <2> QED BY <2>1, NumberIn
<1>8. ASSUME NEW k \in 0 .. 7 - 1 PROVE Bytes!BitOf(exi_data, 8 + k) = BitOf(v, 7 - 1 - k)
  <2>1. CASE k = 0
    <3>1. 7 - 1 - k = 6
      BY <2>1
    <3> QED BY <1>3, <1>6, <2>1, <3>1 DEF b
  <2>2. CASE k = 1
    <3>1. 7 - 1 - k = 5
      BY <2>2
    <3> QED BY <1>6, <2>2, <3>1 DEF b
  <2>3. CASE k = 2
    <3>1. 7 - 1 - k = 4
      BY <2>3
    <3> QED BY <1>6, <2>3, <3>1 DEF b
  <2>4. CASE k = 3
    <3>1. 7 - 1 - k = 3
      BY <2>4
    <3> QED BY <1>6, <2>4, <3>1 DEF b
  <2>5. CASE k = 4
    <3>1. 7 - 1 - k = 2
      BY <2>5
    <3> QED BY <1>6, <2>5, <3>1 DEF b
  <2>6. CASE k = 5
    <3>1. 7 - 1 - k = 1
      BY <2>6
    <3> QED BY <1>6, <2>6, <3>1 DEF b
  <2>7. CASE k = 6
    <3>1. 7 - 1 - k = 0
      BY <2>7
    <3> QED BY <1>6, <2>7, <3>1 DEF b
  <2> QED BY <2>1, <2>2, <2>3, <2>4, <2>5, <2>6, <2>7
<1>9. FieldAt(exi_data, 8, v, 7)
  BY <1>8 DEF FieldAt
<1>10. Number(128, 8).v = 128 /\ Number(128, 8).n = 8 /\ Number(v, 7).v = v /\ Number(v, 7).n = 7 /\ 8 + 7 <= num_bits
  BY <1>1, <1>2 DEF Number
<1>11. Reads(<<Number(128, 8), Number(v, 7)>>, 0, FALSE)
  <2> HIDE DEF Number
  <2> QED BY <1>1, <1>7, <1>9, <1>10, TwoFields
<1> QED BY <1>6, <1>11

(***************************************************************************)
(* Statements, one before the others.                                      *)
(***************************************************************************)
IsSeq(s)   == \E S : s \in Seq(S)
Then(a, s) == <<a>> \o s

(* The first statement, and those behind it.                               *)
LEMMA Statements ==
  ASSUME NEW a, NEW s, IsSeq(s)
  PROVE  /\ IsSeq(Then(a, s)) /\ Then(a, s) # <<>>
         /\ Head(Then(a, s)) = a /\ Tail(Then(a, s)) = s
<1>1. PICK S : s \in Seq(S)
  BY DEF IsSeq
<1> DEFINE T == S \cup {a}
<1>2. s \in Seq(T) /\ <<a>> \in Seq(T)
  BY <1>1
<1> HIDE DEF T
<1>3. Then(a, s) \in Seq(T) /\ Len(Then(a, s)) = 1 + Len(s) /\ Len(s) \in Nat
  BY <1>2, ConcatProperties, LenProperties DEF Then
<1>4. \A k \in 1 .. 1 + Len(s) : Then(a, s)[k] = IF k <= 1 THEN <<a>>[k] ELSE s[k - 1]
  BY <1>2, ConcatProperties DEF Then
<1>5. Then(a, s) # <<>> /\ Head(Then(a, s)) = a
  <2>1. 1 \in 1 .. 1 + Len(s)
    BY <1>3
  <2> HIDE DEF Then
  <2> QED BY <1>3, <1>4, <2>1
<1>6. Tail(Then(a, s)) = s
  <2>1. Tail(Then(a, s)) \in Seq(T) /\ Len(Tail(Then(a, s))) = Len(s)
        /\ \A k \in 1 .. Len(s) : Tail(Then(a, s))[k] = Then(a, s)[k + 1]
    <3> HIDE DEF Then
    <3> QED BY <1>3, <1>5, HeadTailProperties
  <2>2. ASSUME NEW k \in 1 .. Len(s) PROVE Tail(Then(a, s))[k] = s[k]
    <3>1. k + 1 \in 1 .. 1 + Len(s) /\ ~(k + 1 <= 1) /\ (k + 1) - 1 = k
      BY <1>3
    <3> QED BY <1>4, <2>1, <3>1
  <2> HIDE DEF Then
  <2> QED BY <1>2, <2>1, <2>2, SeqEqual
<1> QED BY <1>3, <1>5, <1>6 DEF IsSeq

(* Two sequences joined are one, and nothing joined to one is it.          *)
LEMMA Joined ==
  ASSUME NEW s, IsSeq(s), NEW t, IsSeq(t)
  PROVE  IsSeq(s \o t) /\ <<>> \o s = s
<1>1. PICK S : s \in Seq(S)
  BY DEF IsSeq
<1>2. PICK T : t \in Seq(T)
  BY DEF IsSeq
<1> DEFINE V == S \cup T
<1>3. s \in Seq(V) /\ t \in Seq(V)
  BY <1>1, <1>2
<1> HIDE DEF V
<1>4. s \o t \in Seq(V)
  BY <1>3, ConcatProperties
<1>5. <<>> \o s = s
  BY <1>3, ConcatEmptySeq
<1> QED BY <1>4, <1>5 DEF IsSeq

Associate(s, t, u) == (s \o t) \o u = s \o (t \o u)

(* Joining is associative.                                                 *)
LEMMA JoinedTwice ==
  ASSUME NEW s, IsSeq(s), NEW t, IsSeq(t), NEW u, IsSeq(u)
  PROVE  Associate(s, t, u)
<1>1. PICK S : s \in Seq(S)
  BY DEF IsSeq
<1>2. PICK T : t \in Seq(T)
  BY DEF IsSeq
<1>3. PICK U : u \in Seq(U)
  BY DEF IsSeq
<1> DEFINE V == S \cup T \cup U
<1>4. s \in Seq(V) /\ t \in Seq(V) /\ u \in Seq(V)
  BY <1>1, <1>2, <1>3
<1> HIDE DEF V
<1> QED BY <1>4, ConcatAssociative DEF Associate

(* The empty sequence, and one element.                                    *)
LEMMA Singles ==
  /\ IsSeq(<<>>) /\ \A a : IsSeq(<<a>>) /\ <<a>> = Then(a, <<>>)
<1>1. IsSeq(<<>>)
  <2>1. <<>> \in Seq({})
    OBVIOUS
  <2> QED BY <2>1 DEF IsSeq
<1>2. ASSUME NEW a PROVE IsSeq(<<a>>) /\ <<a>> = Then(a, <<>>)
  <2>1. <<a>> \in Seq({a})
    OBVIOUS
  <2>2. <<a>> \o <<>> = <<a>>
    BY <2>1, ConcatEmptySeq
  <2> QED BY <2>1, <2>2 DEF IsSeq, Then
<1> QED BY <1>1, <1>2

(* A statement before two others.                                          *)
JoinsBehind(a, s, t) == Then(a, s) \o t = Then(a, s \o t)

(* A statement before two parts is one before the first of them.           *)
LEMMA ThenJoined ==
  ASSUME NEW a, NEW s, IsSeq(s), NEW t, IsSeq(t)
  PROVE  JoinsBehind(a, s, t)
<1>1. IsSeq(<<a>>)
  BY Singles
<1>2. Associate(<<a>>, s, t)
  BY <1>1, JoinedTwice
<1> QED BY <1>2 DEF Then, Associate, JoinsBehind

(* A tuple is its first element before the others.                         *)
LEMMA Tuples ==
  /\ \A a, b : <<a, b>> = Then(a, <<b>>)
  /\ \A a, b, c : <<a, b, c>> = Then(a, <<b, c>>)
  /\ \A a, b, c, d : <<a, b, c, d>> = Then(a, <<b, c, d>>)
  /\ \A a, b, c, d, e : <<a, b, c, d, e>> = Then(a, <<b, c, d, e>>)
  /\ \A a, b, c, d, e, f : <<a, b, c, d, e, f>> = Then(a, <<b, c, d, e, f>>)
  /\ \A a, b, c, d, e, f, g : <<a, b, c, d, e, f, g>> = Then(a, <<b, c, d, e, f, g>>)
  /\ \A a, b, c, d, e, f, g, h : <<a, b, c, d, e, f, g, h>> = Then(a, <<b, c, d, e, f, g, h>>)
  /\ \A a, b, c, d, e, f, g, h, i : <<a, b, c, d, e, f, g, h, i>> = Then(a, <<b, c, d, e, f, g, h, i>>)
<1>1. ASSUME NEW a, NEW b PROVE <<a, b>> = Then(a, <<b>>)
  <2>1. <<a>> \in Seq({a, b}) /\ <<b>> \in Seq({a, b}) /\ <<a, b>> \in Seq({a, b})
    OBVIOUS
  <2>2. Then(a, <<b>>) \in Seq({a, b}) /\ Len(Then(a, <<b>>)) = 2
    BY <2>1, ConcatProperties DEF Then
  <2>3. \A k \in 1 .. 2 : Then(a, <<b>>)[k] = IF k <= 1 THEN <<a>>[k] ELSE <<b>>[k - 1]
    BY <2>1, ConcatProperties DEF Then
  <2>4. \A k \in 1 .. 2 : k = 1 \/ k = 2
    OBVIOUS
  <2>5. Len(<<a, b>>) = 2 /\ \A k \in 1 .. 2 : Then(a, <<b>>)[k] = <<a, b>>[k]
    BY <2>3, <2>4
  <2> QED BY <2>1, <2>2, <2>5, SeqEqual
<1>2. \A a, b, c : <<a, b, c>> = Then(a, <<b, c>>)
  BY DEF Then
<1>3. \A a, b, c, d : <<a, b, c, d>> = Then(a, <<b, c, d>>)
  BY DEF Then
<1>4. \A a, b, c, d, e : <<a, b, c, d, e>> = Then(a, <<b, c, d, e>>)
  BY DEF Then
<1>5. \A a, b, c, d, e, f : <<a, b, c, d, e, f>> = Then(a, <<b, c, d, e, f>>)
  BY DEF Then
<1>6. \A a, b, c, d, e, f, g : <<a, b, c, d, e, f, g>> = Then(a, <<b, c, d, e, f, g>>)
  BY DEF Then
<1>7. \A a, b, c, d, e, f, g, h : <<a, b, c, d, e, f, g, h>> = Then(a, <<b, c, d, e, f, g, h>>)
  BY DEF Then
<1>8. \A a, b, c, d, e, f, g, h, i : <<a, b, c, d, e, f, g, h, i>> = Then(a, <<b, c, d, e, f, g, h, i>>)
  BY DEF Then
<1> QED BY <1>1, <1>2, <1>3, <1>4, <1>5, <1>6, <1>7, <1>8

(* FlattenSeq of one sequence before the others.                           *)
LEMMA FlattenThen ==
  ASSUME NEW S, NEW s \in Seq(S), NEW seqs \in Seq(Seq(S))
  PROVE  FlattenSeq(Then(s, seqs)) = s \o FlattenSeq(seqs)
<1> DEFINE more == Then(s, seqs)
           n    == Len(seqs)
           T    == {k \in Nat : k <= n => Upto(more, k + 1) = s \o Upto(seqs, k)}
<1>1. /\ more \in Seq(Seq(S)) /\ Len(more) = n + 1 /\ n \in Nat /\ more[1] = s
      /\ \A k \in 1 .. n : more[k + 1] = seqs[k]
  <2>1. <<s>> \in Seq(Seq(S))
    OBVIOUS
  <2>2. more \in Seq(Seq(S)) /\ Len(more) = 1 + n /\ n \in Nat
    BY <2>1, ConcatProperties, LenProperties DEF Then
  <2>3. \A k \in 1 .. 1 + n : more[k] = IF k <= 1 THEN <<s>>[k] ELSE seqs[k - 1]
    BY <2>1, ConcatProperties DEF Then
  <2>4. \A k \in 1 .. n : k + 1 \in 1 .. 1 + n /\ ~(k + 1 <= 1) /\ (k + 1) - 1 = k
    BY <2>2
  <2>5. 1 \in 1 .. 1 + n
    BY <2>2
  <2> HIDE DEF more
  <2> QED BY <2>2, <2>3, <2>4, <2>5
<1> HIDE DEF more
<1>2. 0 \in T
  <2>1. Upto(more, 0) = <<>> /\ Upto(seqs, 0) = <<>> /\ Upto(more, 0) \in Seq(S)
    BY <1>1, UptoIn
  <2>2. Upto(more, 0 + 1) = Upto(more, 0) \o more[0 + 1]
    <3>1. 0 < Len(more) /\ 0 \in Nat
      BY <1>1
    <3> QED BY <1>1, <2>1, <3>1, UptoStep
  <2>3. s \o <<>> = s /\ <<>> \o s = s
    BY ConcatEmptySeq
  <2> QED BY <1>1, <2>1, <2>2, <2>3
<1>3. ASSUME NEW k \in Nat, k \in T PROVE k + 1 \in T
  <2>1. SUFFICES ASSUME k + 1 <= n PROVE Upto(more, (k + 1) + 1) = s \o Upto(seqs, k + 1)
    OBVIOUS
  <2>2. /\ k < n /\ k \in 0 .. n /\ k + 1 \in 0 .. Len(more) /\ k + 1 < Len(more) /\ k + 1 \in Nat
        /\ Upto(more, k + 1) = s \o Upto(seqs, k) /\ k + 1 \in 1 .. n
    BY <1>1, <1>3, <2>1, SMTT(30)
  <2>3. Upto(more, k + 1) \in Seq(S) /\ Upto(seqs, k) \in Seq(S)
    BY <1>1, <2>2, UptoIn
  <2>4. Upto(more, (k + 1) + 1) = Upto(more, k + 1) \o more[(k + 1) + 1]
    BY <1>1, <2>2, <2>3, UptoStep
  <2>5. Upto(seqs, k + 1) = Upto(seqs, k) \o seqs[k + 1]
    BY <1>1, <2>2, <2>3, UptoStep
  <2>6. more[(k + 1) + 1] = seqs[k + 1] /\ seqs[k + 1] \in Seq(S)
    BY <1>1, <2>2, ElementOfSeq
  <2>7. (s \o Upto(seqs, k)) \o seqs[k + 1] = s \o (Upto(seqs, k) \o seqs[k + 1])
    <3> DEFINE p == Upto(seqs, k)
               q == seqs[k + 1]
    <3>1. p \in Seq(S) /\ q \in Seq(S)
      BY <2>3, <2>6
    <3> HIDE DEF p, q
    <3>2. (s \o p) \o q = s \o (p \o q)
      BY <3>1, ConcatAssociative
    <3> QED BY <3>2 DEF p, q
  <2> QED BY <2>2, <2>4, <2>5, <2>6, <2>7
<1>4. n \in T
  <2>1. \A k \in Nat : k \in T
    <3> HIDE DEF T
    <3> QED BY <1>2, <1>3, Induction
  <2> QED BY <1>1, <2>1
<1>5. Upto(more, n + 1) = FlattenSeq(more) /\ Upto(seqs, n) = FlattenSeq(seqs)
  BY <1>1, UptoIn
<1> QED BY <1>1, <1>4, <1>5 DEF more

(* What comes behind the first j elements of a sequence.                   *)
Behind(s, j) == SubSeq(s, j + 1, Len(s))

(* What is behind an element is the next one and what is behind that.      *)
LEMMA BehindElements ==
  ASSUME NEW S, NEW s \in Seq(S), NEW j \in 0 .. Len(s)
  PROVE  /\ Behind(s, 0) = s /\ Behind(s, Len(s)) = <<>> /\ Behind(s, j) \in Seq(S)
         /\ j < Len(s) => s[j + 1] \in S /\ Behind(s, j) = Then(s[j + 1], Behind(s, j + 1))
<1> DEFINE n == Len(s)
<1>0. n \in Nat /\ j \in Nat
  BY LenProperties
<1>1. ASSUME NEW i \in 0 .. n
      PROVE  /\ Behind(s, i) \in Seq(S) /\ Len(Behind(s, i)) = n - i
             /\ \A k \in 1 .. n - i : Behind(s, i)[k] = s[i + k]
  <2>1. i + 1 \in 1 .. n + 1 /\ n \in i .. n
    BY <1>0
  <2>2. \A k \in 1 .. n - i : (i + 1) + k - 1 = i + k /\ i + k \in 1 .. n
    BY <1>0
  <2>3. IF i + 1 <= n THEN n - (i + 1) + 1 = n - i ELSE n - i = 0
    BY <1>0
  <2>4. \A k \in i + 1 .. n : s[k] \in S
    BY <1>0, ElementOfSeq
  <2>5. Behind(s, i) = [k \in 1 .. n - i |-> s[i + k]]
    BY <1>0, <2>1, <2>2, <2>3 DEF Behind
  <2>6. \A k \in 1 .. n - i : s[i + k] \in S
    BY <2>2, ElementOfSeq
  <2>7. n - i \in Nat
    BY <1>0, SMTT(30)
  <2> QED BY <2>5, <2>6, <2>7
<1>2. Behind(s, 0) = s
  <2>1. 0 \in 0 .. n /\ n - 0 = n /\ \A k \in 1 .. n : 0 + k = k
    BY <1>0
  <2> QED BY <1>1, <2>1, SeqEqual
<1>3. Behind(s, n) = <<>>
  <2>1. n \in 0 .. n /\ n - n = 0
    BY <1>0
  <2> QED BY <1>1, <2>1, EmptySeq
<1>4. ASSUME j < n PROVE s[j + 1] \in S /\ Behind(s, j) = Then(s[j + 1], Behind(s, j + 1))
  <2> DEFINE t == Then(s[j + 1], Behind(s, j + 1))
  <2>1. j + 1 \in 0 .. n /\ j + 1 \in 1 .. n /\ n - j = 1 + (n - (j + 1)) /\ j \in 0 .. n
    BY <1>0, <1>4
  <2>2. s[j + 1] \in S
    BY <2>1, ElementOfSeq
  <2>3. <<s[j + 1]>> \in Seq(S) /\ Behind(s, j + 1) \in Seq(S) /\ Len(Behind(s, j + 1)) = n - (j + 1)
    <3>1. <<s[j + 1]>> \in Seq(S)
      BY <2>2
    <3> QED BY <1>1, <2>1, <3>1
  <2>4. t \in Seq(S) /\ Len(t) = 1 + (n - (j + 1))
    BY <2>3, ConcatProperties DEF Then
  <2>5. \A k \in 1 .. 1 + (n - (j + 1)) : t[k] = IF k <= 1 THEN <<s[j + 1]>>[k] ELSE Behind(s, j + 1)[k - 1]
    BY <2>3, ConcatProperties DEF Then
  <2> HIDE DEF t
  <2>6. ASSUME NEW k \in 1 .. n - j PROVE Behind(s, j)[k] = t[k]
    <3>1. Behind(s, j)[k] = s[j + k] /\ k \in 1 .. 1 + (n - (j + 1))
      BY <1>1, <2>1
    <3>2. CASE k = 1
      BY <2>5, <3>1, <3>2
    <3>3. CASE k # 1
      <4>1. ~(k <= 1) /\ k - 1 \in 1 .. n - (j + 1) /\ (j + 1) + (k - 1) = j + k
        BY <1>0, <2>1, <3>3
      <4>2. Behind(s, j + 1)[k - 1] = s[(j + 1) + (k - 1)]
        BY <1>1, <2>1, <4>1
      <4> QED BY <2>5, <3>1, <4>1, <4>2
    <3> QED BY <3>2, <3>3, SMTT(30)
  <2>7. Behind(s, j) \in Seq(S) /\ Len(Behind(s, j)) = n - j
    BY <1>1, <2>1
  <2>8. Behind(s, j) = t
    BY <2>1, <2>4, <2>6, <2>7, SeqEqual
  <2> QED BY <2>2, <2>8 DEF t
<1> QED BY <1>1, <1>2, <1>3, <1>4

(* Two, three and four statements before others.                           *)
IsTwo(a, b, s)         == <<a, b>> \o s = Then(a, Then(b, s)) /\ IsSeq(<<a, b>>) /\ IsSeq(Then(a, Then(b, s)))
IsThree(a, b, c, s)    == <<a, b, c>> \o s = Then(a, Then(b, Then(c, s))) /\ IsSeq(<<a, b, c>>)
IsFour(a, b, c, d, s)  == <<a, b, c, d>> \o s = Then(a, Then(b, Then(c, Then(d, s)))) /\ IsSeq(<<a, b, c, d>>)

(* Two statements before others, one after the other.                      *)
LEMMA Two ==
  ASSUME NEW a, NEW b, NEW s, IsSeq(s)
  PROVE  IsTwo(a, b, s)
<1>1. <<a, b>> = Then(a, <<b>>) /\ IsSeq(<<b>>) /\ <<b>> \o s = Then(b, s)
  BY Tuples, Singles DEF Then
<1>2. JoinsBehind(a, <<b>>, s)
  BY <1>1, ThenJoined
<1>3. IsSeq(Then(a, <<b>>)) /\ IsSeq(Then(a, Then(b, s)))
  BY <1>1, Statements
<1> QED BY <1>1, <1>2, <1>3 DEF JoinsBehind, IsTwo

(* Three of them.                                                          *)
LEMMA Three ==
  ASSUME NEW a, NEW b, NEW c, NEW s, IsSeq(s)
  PROVE  IsThree(a, b, c, s)
<1>1. <<a, b, c>> = Then(a, <<b, c>>) /\ IsSeq(<<b, c>>) /\ <<b, c>> \o s = Then(b, Then(c, s))
  <2>1. <<a, b, c>> = Then(a, <<b, c>>)
    BY Tuples
  <2>2. IsTwo(b, c, s)
    BY Two
  <2> QED BY <2>1, <2>2 DEF IsTwo
<1>2. JoinsBehind(a, <<b, c>>, s)
  BY <1>1, ThenJoined
<1>3. IsSeq(Then(a, <<b, c>>))
  BY <1>1, Statements
<1> QED BY <1>1, <1>2, <1>3 DEF JoinsBehind, IsThree

(* Four of them.                                                           *)
LEMMA Four ==
  ASSUME NEW a, NEW b, NEW c, NEW d, NEW s, IsSeq(s)
  PROVE  IsFour(a, b, c, d, s)
<1>1. <<a, b, c, d>> = Then(a, <<b, c, d>>) /\ IsSeq(<<b, c, d>>) /\ <<b, c, d>> \o s = Then(b, Then(c, Then(d, s)))
  <2>1. <<a, b, c, d>> = Then(a, <<b, c, d>>)
    BY Tuples
  <2>2. IsThree(b, c, d, s)
    BY Three
  <2> QED BY <2>1, <2>2 DEF IsThree
<1>2. JoinsBehind(a, <<b, c, d>>, s)
  BY <1>1, ThenJoined
<1>3. IsSeq(Then(a, <<b, c, d>>))
  BY <1>1, Statements
<1> QED BY <1>1, <1>2, <1>3 DEF JoinsBehind, IsFour

(* Five and nine of them, nothing behind.                                 *)
LEMMA Five ==
  ASSUME NEW a, NEW b, NEW c, NEW d, NEW e
  PROVE  <<a, b, c, d, e>> = Then(a, Then(b, Then(c, Then(d, Then(e, <<>>)))))
<1>1. <<a, b, c, d, e>> = Then(a, <<b, c, d, e>>)
  BY Tuples
<1>2. <<b, c, d, e>> \o <<>> = Then(b, Then(c, Then(d, Then(e, <<>>)))) /\ IsSeq(<<b, c, d, e>>)
  <2>1. IsFour(b, c, d, e, <<>>)
    BY Four, Singles
  <2> QED BY <2>1 DEF IsFour
<1>3. <<b, c, d, e>> \o <<>> = <<b, c, d, e>>
  <2>1. PICK S : <<b, c, d, e>> \in Seq(S)
    BY <1>2 DEF IsSeq
  <2> QED BY <2>1, ConcatEmptySeq
<1> QED BY <1>1, <1>2, <1>3

(* A tuple of nine statements, one before the other.                       *)
LEMMA Nine ==
  ASSUME NEW a, NEW b, NEW c, NEW d, NEW e, NEW f, NEW g, NEW h, NEW i
  PROVE  <<a, b, c, d, e, f, g, h, i>>
           = Then(a, Then(b, Then(c, Then(d, Then(e, Then(f, Then(g, Then(h, Then(i, <<>>)))))))))
<1>1. <<a, b, c, d, e, f, g, h, i>> = Then(a, <<b, c, d, e, f, g, h, i>>)
  BY Tuples
<1>2. <<b, c, d, e, f, g, h, i>> = Then(b, <<c, d, e, f, g, h, i>>)
  BY Tuples
<1>3. <<c, d, e, f, g, h, i>> = Then(c, <<d, e, f, g, h, i>>)
  BY Tuples
<1>4. <<d, e, f, g, h, i>> = Then(d, <<e, f, g, h, i>>)
  BY Tuples
<1>5. <<e, f, g, h, i>> = Then(e, Then(f, Then(g, Then(h, Then(i, <<>>)))))
  BY Five
<1> QED BY <1>1, <1>2, <1>3, <1>4, <1>5

(* The calls of encode_field for the fields of a type, those behind the    *)
(* first j, and what comes after them.                                     *)
FieldCall(object, f)            == Call("field", <<object, f.name>>, f.n)
FieldCalls(object, fields)      == [i \in DOMAIN fields |-> FieldCall(object, fields[i])]
Writes(object, fields, j, tail) == Behind(FieldCalls(object, fields), j) \o tail

WritesOne(object, fields, j, tail) ==
  /\ Writes(object, fields, j, tail) = Then(FieldCall(object, fields[j + 1]), Writes(object, fields, j + 1, tail))
  /\ IsSeq(Writes(object, fields, j + 1, tail))

WritesNone(object, fields, tail) ==
  /\ Writes(object, fields, Len(fields), tail) = tail
  /\ Writes(object, fields, 0, tail) = FieldCalls(object, fields) \o tail

WritesSeq(object, fields, j, tail) == IsSeq(Writes(object, fields, j, tail))

(* The statements of encode_<Type> are a sequence.                         *)
LEMMA CallsAreASequence ==
  ASSUME NEW object, NEW fields \in Seq(Fields)
  PROVE  IsSeq(FieldCalls(object, fields))
<1> DEFINE S == {FieldCall(object, fields[i]) : i \in DOMAIN fields}
<1>1. Len(fields) \in Nat /\ DOMAIN fields = 1 .. Len(fields)
  BY LenProperties
<1>2. FieldCalls(object, fields) = [i \in 1 .. Len(fields) |-> FieldCall(object, fields[i])]
  BY <1>1 DEF FieldCalls
<1>3. FieldCalls(object, fields) \in Seq(S)
  <2>1. \A i \in 1 .. Len(fields) : FieldCall(object, fields[i]) \in S
    BY <1>1
  <2> HIDE DEF S
  <2> QED BY <1>1, <1>2, <2>1
<1> QED BY <1>3 DEF IsSeq

(* So are those that are left behind j fields, with what follows them.     *)
LEMMA WritesAreASequence ==
  ASSUME NEW object, NEW fields \in Seq(Fields), NEW tail, IsSeq(tail), NEW j \in 0 .. Len(fields)
  PROVE  WritesSeq(object, fields, j, tail)
<1>1. PICK S : FieldCalls(object, fields) \in Seq(S)
  BY CallsAreASequence DEF IsSeq
<1>2. Len(FieldCalls(object, fields)) = Len(fields)
  <2>1. Len(fields) \in Nat /\ DOMAIN fields = 1 .. Len(fields)
    BY LenProperties
  <2>2. DOMAIN FieldCalls(object, fields) = 1 .. Len(fields)
    BY <2>1 DEF FieldCalls
  <2> QED BY <1>1, <2>1, <2>2, LenProperties
<1>3. Behind(FieldCalls(object, fields), j) \in Seq(S)
  BY <1>1, <1>2, BehindElements
<1>4. IsSeq(Behind(FieldCalls(object, fields), j))
  BY <1>3 DEF IsSeq
<1> QED BY <1>4, Joined DEF WritesSeq, Writes

(* What is left behind j fields is the next field and what is left behind  *)
(* it.                                                                     *)
LEMMA WritesOn ==
  ASSUME NEW object, NEW fields \in Seq(Fields), NEW tail, IsSeq(tail)
  PROVE  WritesNone(object, fields, tail) /\ \A j \in 0 .. Len(fields) - 1 : WritesOne(object, fields, j, tail)
<1> DEFINE calls == FieldCalls(object, fields)
           S == {FieldCall(object, fields[i]) : i \in DOMAIN fields}
<1>1. calls \in Seq(S) /\ Len(calls) = Len(fields) /\ Len(fields) \in Nat /\ DOMAIN fields = 1 .. Len(fields)
      /\ \A i \in 1 .. Len(fields) : calls[i] = FieldCall(object, fields[i])
  <2>1. Len(fields) \in Nat /\ DOMAIN fields = 1 .. Len(fields)
    BY LenProperties
  <2>2. calls = [i \in 1 .. Len(fields) |-> FieldCall(object, fields[i])]
        /\ \A i \in 1 .. Len(fields) : FieldCall(object, fields[i]) \in S
    BY <2>1 DEF FieldCalls
  <2> HIDE DEF calls, S
  <2> QED BY <2>1, <2>2
<1> HIDE DEF calls, S
<1>2. ASSUME NEW k \in 0 .. Len(fields) PROVE IsSeq(Behind(calls, k))
  <2>1. Behind(calls, k) \in Seq(S)
    BY <1>1, BehindElements
  <2> QED BY <2>1 DEF IsSeq
<1>3. ASSUME NEW k \in 0 .. Len(fields) PROVE IsSeq(Writes(object, fields, k, tail))
  BY <1>2, Joined DEF Writes, calls
<1>4. Writes(object, fields, Len(fields), tail) = tail
  <2>1. Behind(calls, Len(fields)) = <<>>
    BY <1>1, BehindElements
  <2>2. <<>> \o tail = tail
    BY Joined
  <2> QED BY <2>1, <2>2 DEF Writes, calls
<1>5. Writes(object, fields, 0, tail) = FieldCalls(object, fields) \o tail
  <2>1. Behind(calls, 0) = calls
    BY <1>1, BehindElements
  <2> QED BY <2>1 DEF Writes, calls
<1>6. ASSUME NEW j \in 0 .. Len(fields) - 1
      PROVE  WritesOne(object, fields, j, tail)
  <2>0. j \in 0 .. Len(fields) /\ j + 1 \in 0 .. Len(fields) /\ j < Len(fields) /\ j + 1 \in 1 .. Len(fields)
    BY <1>1
  <2>1. Behind(calls, j) = Then(calls[j + 1], Behind(calls, j + 1))
    BY <1>1, <2>0, BehindElements
  <2>2. calls[j + 1] = FieldCall(object, fields[j + 1]) /\ IsSeq(Writes(object, fields, j + 1, tail))
    BY <1>1, <1>3, <2>0
  <2>3. JoinsBehind(calls[j + 1], Behind(calls, j + 1), tail)
    BY <1>2, <2>0, ThenJoined
  <2>4. Writes(object, fields, j, tail) = Then(FieldCall(object, fields[j + 1]), Writes(object, fields, j + 1, tail))
    BY <2>1, <2>2, <2>3 DEF Writes, calls, JoinsBehind
  <2> QED BY <2>2, <2>4 DEF WritesOne
<1> QED BY <1>4, <1>5, <1>6 DEF WritesNone

(* The statements of the decoder for the fields of a type.                 *)
Block(f)              == <<start_key(f.name), Get(f.n), Do("add_value"), Do("end_key")>>
Blocks(fields)        == [i \in DOMAIN fields |-> Block(fields[i])]
Shows(fields, j, tail) == FlattenSeq(Behind(Blocks(fields), j)) \o tail

(* The statements of decode_<Type> behind j fields: the four of the next   *)
(* field and those behind them.                                            *)
LEMMA ShowsAhead ==
  ASSUME NEW fields \in Seq(Fields), NEW j \in 0 .. Len(fields), NEW tail, IsSeq(tail)
  PROVE  /\ IsSeq(Shows(fields, j, tail))
         /\ Shows(fields, Len(fields), tail) = tail
         /\ Shows(fields, 0, tail) = FlattenSeq(Blocks(fields)) \o tail /\ IsSeq(FlattenSeq(Blocks(fields)))
         /\ j < Len(fields) =>
              Shows(fields, j, tail)
                = Then(start_key(fields[j + 1].name), Then(Get(fields[j + 1].n),
                    Then(Do("add_value"), Then(Do("end_key"), Shows(fields, j + 1, tail)))))
<1> DEFINE blocks == Blocks(fields)
           S == {start_key(fields[i].name) : i \in DOMAIN fields} \cup {Get(fields[i].n) : i \in DOMAIN fields}
                  \cup {Do("add_value"), Do("end_key")}
<1>1. blocks \in Seq(Seq(S)) /\ Len(blocks) = Len(fields) /\ Len(fields) \in Nat /\ DOMAIN fields = 1 .. Len(fields)
      /\ \A i \in 1 .. Len(fields) : blocks[i] = Block(fields[i])
  <2>1. Len(fields) \in Nat /\ DOMAIN fields = 1 .. Len(fields)
    BY LenProperties
  <2>2. blocks = [i \in 1 .. Len(fields) |-> Block(fields[i])]
    BY <2>1 DEF Blocks
  <2>3. ASSUME NEW i \in 1 .. Len(fields) PROVE Block(fields[i]) \in Seq(S)
    <3>1. start_key(fields[i].name) \in S /\ Get(fields[i].n) \in S /\ Do("add_value") \in S /\ Do("end_key") \in S
      BY <2>1
    <3> HIDE DEF S
    <3> QED BY <3>1 DEF Block
  <2> HIDE DEF blocks, S
  <2> QED BY <2>1, <2>2, <2>3
<1> HIDE DEF blocks, S
<1>2. ASSUME NEW k \in 0 .. Len(fields)
      PROVE  Behind(blocks, k) \in Seq(Seq(S)) /\ FlattenSeq(Behind(blocks, k)) \in Seq(S)
             /\ IsSeq(FlattenSeq(Behind(blocks, k)))
  <2>1. Behind(blocks, k) \in Seq(Seq(S))
    BY <1>1, BehindElements
  <2>2. FlattenSeq(Behind(blocks, k)) \in Seq(S)
    BY <2>1, FlattenIn
  <2> QED BY <2>1, <2>2 DEF IsSeq
<1>3. IsSeq(Shows(fields, j, tail))
  BY <1>2, Joined DEF Shows, blocks
<1>4. Shows(fields, Len(fields), tail) = tail
  <2>1. Behind(blocks, Len(fields)) = <<>>
    BY <1>1, BehindElements
  <2>2. <<>> \o tail = tail
    BY Joined
  <2> QED BY <2>1, <2>2, FlattenNone DEF Shows, blocks
<1>5. Shows(fields, 0, tail) = FlattenSeq(Blocks(fields)) \o tail /\ IsSeq(FlattenSeq(Blocks(fields)))
  <2>1. Behind(blocks, 0) = blocks /\ 0 \in 0 .. Len(fields)
    BY <1>1, BehindElements
  <2>2. IsSeq(FlattenSeq(blocks))
    BY <1>2, <2>1
  <2> QED BY <2>1, <2>2 DEF Shows, blocks
<1>6. ASSUME j < Len(fields)
      PROVE  Shows(fields, j, tail)
               = Then(start_key(fields[j + 1].name), Then(Get(fields[j + 1].n),
                   Then(Do("add_value"), Then(Do("end_key"), Shows(fields, j + 1, tail)))))
  <2> DEFINE more == FlattenSeq(Behind(blocks, j + 1))
             first == blocks[j + 1]
  <2>1. /\ Behind(blocks, j) = Then(first, Behind(blocks, j + 1)) /\ first \in Seq(S)
        /\ j + 1 \in 0 .. Len(fields) /\ j + 1 \in 1 .. Len(fields)
    BY <1>1, <1>6, BehindElements
  <2>2. Behind(blocks, j + 1) \in Seq(Seq(S)) /\ more \in Seq(S) /\ IsSeq(more) /\ IsSeq(first)
    BY <1>2, <2>1 DEF IsSeq
  <2>3. FlattenSeq(Behind(blocks, j)) = first \o more
    BY <2>1, <2>2, FlattenThen
  <2>4. (first \o more) \o tail = first \o (more \o tail) /\ IsSeq(more \o tail)
    <3> HIDE DEF more, first
    <3>1. Associate(first, more, tail)
      BY <2>2, JoinedTwice
    <3> QED BY <2>2, <3>1, Joined DEF Associate
  <2>5. first = Block(fields[j + 1])
    BY <1>1, <2>1
  <2>6. Block(fields[j + 1]) \o (more \o tail)
          = Then(start_key(fields[j + 1].name), Then(Get(fields[j + 1].n),
              Then(Do("add_value"), Then(Do("end_key"), more \o tail))))
    <3> HIDE DEF more, first
    <3> DEFINE a == start_key(fields[j + 1].name)
               b == Get(fields[j + 1].n)
    <3>1. IsFour(a, b, Do("add_value"), Do("end_key"), more \o tail)
      <4> HIDE DEF a, b
      <4> QED BY <2>4, Four
    <3> QED BY <3>1 DEF Block, IsFour
  <2> QED BY <2>3, <2>4, <2>5, <2>6 DEF Shows, blocks
<1> QED BY <1>3, <1>4, <1>5, <1>6

(* One of them, and the end.                                               *)
ShowsOne(fields, j, tail) ==
  /\ Shows(fields, j, tail)
       = Then(start_key(fields[j + 1].name), Then(Get(fields[j + 1].n),
           Then(Do("add_value"), Then(Do("end_key"), Shows(fields, j + 1, tail)))))
  /\ IsSeq(Shows(fields, j + 1, tail))

ShowsNone(fields, tail) ==
  /\ Shows(fields, Len(fields), tail) = tail
  /\ Shows(fields, 0, tail) = FlattenSeq(Blocks(fields)) \o tail /\ IsSeq(FlattenSeq(Blocks(fields)))

(* The same, one statement at a time.                                      *)
LEMMA ShowsOn ==
  ASSUME NEW fields \in Seq(Fields), NEW tail, IsSeq(tail)
  PROVE  ShowsNone(fields, tail) /\ \A j \in 0 .. Len(fields) - 1 : ShowsOne(fields, j, tail)
<1>1. Len(fields) \in Nat /\ 0 \in 0 .. Len(fields)
  BY LenProperties
<1>2. ShowsNone(fields, tail)
  BY <1>1, ShowsAhead DEF ShowsNone
<1>3. ASSUME NEW j \in 0 .. Len(fields) - 1 PROVE ShowsOne(fields, j, tail)
  <2>1. j \in 0 .. Len(fields) /\ j + 1 \in 0 .. Len(fields) /\ j < Len(fields)
    BY <1>1
  <2> DEFINE l == Shows(fields, j, tail)
             m == Shows(fields, j + 1, tail)
  <2>2. IsSeq(m)
    BY <2>1, ShowsAhead
  <2>3. l = Then(start_key(fields[j + 1].name), Then(Get(fields[j + 1].n),
              Then(Do("add_value"), Then(Do("end_key"), m))))
    BY <2>1, ShowsAhead
  <2> QED BY <2>2, <2>3 DEF ShowsOne
<1> QED BY <1>2, <1>3

(* What encode and decode run.                                             *)
V2GNamespaces == {"iso15118_2", "din_spec"}
End           == <<>>

FinalCodesCalls == Then(add_event_code, Then(add_event_code, End))
BodyCalls       == Then(add_event_code, Then(Do("body"), Then(Do("encodeBody"), FinalCodesCalls)))
MessageCalls    == Then(Do("to_object"), Then(add_event_code, Then(Do("header"), BodyCalls)))
EncodeCalls(n)  ==
  Then(Add(128, 8), IF n \in V2GNamespaces THEN Then(Add(message_id(n), 7), MessageCalls)
                    ELSE IF n = "app_protocol" THEN Then(Do("encode_app_protocol"), End)
                    ELSE Then(Do("throw"), End))

BodyEnds         == Then(Do("end_key"), Then(Do("end_key"), Then(Do("end_key"), Then(Do("get_full_stream"), End))))
BodyShown        == Then(Do("end_key"), Then(start_key("Body"), Then(Get(1), Then(Expect(0),
                      Then(Do("decodeBody"), BodyEnds)))))
HeaderFields(n)  == FieldsOf(n, "MessageHeaderType")
MessageShown(n)  == Then(start_key("V2G_Message"), Then(Get(1), Then(Expect(0), Then(start_key("Header"),
                      Shows(HeaderFields(n), 0, BodyShown)))))
DecodeCalls(n)   ==
  Then(Get(8), Then(Expect(128),
    IF n \in V2GNamespaces THEN Then(Get(7), Then(Expect(message_id(n)), MessageShown(n)))
    ELSE IF n = "app_protocol" THEN Then(Get(2), Then(Do("decode_app_protocol"), End))
    ELSE Then(Do("throw"), End)))

(* A header has functions, and a field.                                    *)
LEMMA HeaderIsAType ==
  ASSUME NEW n \in V2GNamespaces PROVE HeaderFields(n) \in Seq(Fields) /\ HeaderFields(n) # <<>>
  BY FieldsAssumption, ElementsAssumption DEF V2GNamespaces, HeaderFields

(* Each part of them is a sequence.                                        *)
LEMMA Parts ==
  /\ IsSeq(End) /\ IsSeq(FinalCodesCalls) /\ IsSeq(BodyCalls) /\ IsSeq(MessageCalls)
  /\ IsSeq(BodyEnds) /\ IsSeq(BodyShown)
  /\ \A n \in V2GNamespaces : IsSeq(MessageShown(n))
<1>1. IsSeq(End)
  BY Singles DEF End
<1>2. IsSeq(FinalCodesCalls)
  BY <1>1, Statements DEF FinalCodesCalls
<1>3. IsSeq(BodyCalls)
  BY <1>2, Statements DEF BodyCalls
<1>4. IsSeq(MessageCalls)
  BY <1>3, Statements DEF MessageCalls
<1>5. IsSeq(BodyEnds)
  BY <1>1, Statements DEF BodyEnds
<1>6. IsSeq(BodyShown)
  BY <1>5, Statements DEF BodyShown
<1>7. ASSUME NEW n \in V2GNamespaces PROVE IsSeq(MessageShown(n))
  <2>1. 0 \in 0 .. Len(HeaderFields(n)) /\ HeaderFields(n) \in Seq(Fields)
    BY HeaderIsAType, LenProperties
  <2>2. IsSeq(Shows(HeaderFields(n), 0, BodyShown))
    BY <1>6, <2>1, ShowsAhead
  <2> QED BY <2>2, Statements DEF MessageShown
<1> QED BY <1>1, <1>2, <1>3, <1>4, <1>5, <1>6, <1>7

(* encode is the statements that EncodeCalls names, one before the others. *)
LEMMA EncodeIs ==
  ASSUME request.ns \in Namespaces PROVE encode = EncodeCalls(request.ns)
<1>1. CASE request.ns \in {"iso15118_2", "din_spec"}
  <2> DEFINE id == Add(message_id(request.ns), 7)
  <2>1. encode_v2g = Then(id, MessageCalls)
    <3> DEFINE a == Do("to_object")
               b == add_event_code
               c == Do("header")
               d == Do("body")
               e == Do("encodeBody")
    <3>1. encode_v2g = <<id, a, b, c, b, d, e, b, b>>
      BY DEF encode_v2g
    <3>2. MessageCalls = Then(a, Then(b, Then(c, Then(b, Then(d, Then(e, Then(b, Then(b, <<>>))))))))
      BY DEF MessageCalls, BodyCalls, FinalCodesCalls, End
    <3> HIDE DEF id, a, b, c, d, e
    <3> QED BY <3>1, <3>2, Nine
  <2>2. encode = <<Add(128, 8)>> \o encode_v2g
    BY <1>1 DEF encode
  <2> QED BY <1>1, <2>1, <2>2 DEF EncodeCalls, V2GNamespaces, Then
<1>2. CASE request.ns = "app_protocol"
  <2>1. encode = <<Add(128, 8)>> \o <<Do("encode_app_protocol")>>
    BY <1>2 DEF encode
  <2>2. <<Do("encode_app_protocol")>> = Then(Do("encode_app_protocol"), End)
    BY Singles DEF End
  <2> QED BY <1>2, <2>1, <2>2 DEF EncodeCalls, V2GNamespaces, Then
<1>3. CASE request.ns = "unknown"
  <2>1. encode = <<Add(128, 8)>> \o <<Do("throw")>>
    BY <1>3 DEF encode
  <2>2. <<Do("throw")>> = Then(Do("throw"), End)
    BY Singles DEF End
  <2> QED BY <1>3, <2>1, <2>2 DEF EncodeCalls, V2GNamespaces, Then
<1> QED BY <1>1, <1>2, <1>3 DEF Namespaces

(* Eight sequences joined from the left.                                   *)
AllJoin(a, b, c, d, e, f, g, h) ==
  ((((((a \o b) \o c) \o d) \o e) \o f) \o g) \o h = a \o (b \o (c \o (d \o (e \o (f \o (g \o h))))))

(* Eight parts joined from the left are the same as joined from the right. *)
LEMMA EightJoined ==
  ASSUME NEW a, NEW b, NEW c, NEW d, NEW e, NEW f, NEW g, NEW h, IsSeq(a), IsSeq(b), IsSeq(c), IsSeq(d), IsSeq(e),
         IsSeq(f), IsSeq(g), IsSeq(h)
  PROVE  AllJoin(a, b, c, d, e, f, g, h)
<1>1. IsSeq(a \o b) /\ IsSeq(g \o h)
  BY Joined
<1>2. IsSeq((a \o b) \o c) /\ IsSeq(f \o (g \o h))
  BY <1>1, Joined
<1>3. IsSeq(((a \o b) \o c) \o d) /\ IsSeq(e \o (f \o (g \o h)))
  BY <1>2, Joined
<1>4. IsSeq((((a \o b) \o c) \o d) \o e) /\ IsSeq(d \o (e \o (f \o (g \o h))))
  BY <1>3, Joined
<1>5. IsSeq(((((a \o b) \o c) \o d) \o e) \o f) /\ IsSeq(c \o (d \o (e \o (f \o (g \o h)))))
  BY <1>4, Joined
<1>6. Associate(((((a \o b) \o c) \o d) \o e) \o f, g, h)
  BY <1>5, JoinedTwice
<1>7. Associate((((a \o b) \o c) \o d) \o e, f, g \o h)
  BY <1>1, <1>4, JoinedTwice
<1>8. Associate(((a \o b) \o c) \o d, e, f \o (g \o h))
  BY <1>2, <1>3, JoinedTwice
<1>9. Associate((a \o b) \o c, d, e \o (f \o (g \o h)))
  BY <1>2, <1>3, JoinedTwice
<1>10. Associate(a \o b, c, d \o (e \o (f \o (g \o h))))
  BY <1>1, <1>4, JoinedTwice
<1>11. Associate(a, b, c \o (d \o (e \o (f \o (g \o h)))))
  BY <1>5, JoinedTwice
<1> QED BY <1>6, <1>7, <1>8, <1>9, <1>10, <1>11 DEF Associate, AllJoin

(* decode is the statements that DecodeCalls names, one before the others. *)
LEMMA DecodeIs ==
  ASSUME ns \in Namespaces PROVE decode = DecodeCalls(ns)
<1>1. CASE ns \in {"iso15118_2", "din_spec"}
  <2> DEFINE id == Expect(message_id(ns))
             v2g_ == start_key("V2G_Message")
             a == <<Get(7), id, v2g_>>
             b == <<Get(1), Expect(0)>>
             c == <<start_key("Header")>>
             d == FlattenSeq(Blocks(HeaderFields(ns)))
             e == <<Do("end_key")>>
             f == <<start_key("Body")>>
             g == <<Do("decodeBody"), Do("end_key"), Do("end_key"), Do("end_key"), Do("get_full_stream")>>
  <2>1. decode_v2g = ((((((a \o b) \o c) \o d) \o e) \o f) \o b) \o g
    BY DEF decode_v2g, check_event_code_is_0, Decode, Blocks, Block, HeaderFields
  <2>2. HeaderFields(ns) \in Seq(Fields) /\ 0 \in 0 .. Len(HeaderFields(ns))
    BY <1>1, HeaderIsAType, LenProperties DEF V2GNamespaces
  <2>3. g = Then(Do("decodeBody"), BodyEnds)
    BY Five DEF BodyEnds, End
  <2>4. IsSeq(b) /\ IsSeq(a) /\ IsSeq(c) /\ IsSeq(e) /\ IsSeq(f) /\ IsSeq(g)
    <3>1. IsTwo(Get(1), Expect(0), <<>>)
      BY Two, Singles
    <3>2. IsThree(Get(7), id, v2g_, <<>>)
      BY Three, Singles
    <3>3. IsSeq(c) /\ IsSeq(e) /\ IsSeq(f)
      BY Singles
    <3>4. IsSeq(g)
      BY <2>3, Parts, Statements
    <3> QED BY <3>1, <3>2, <3>3, <3>4 DEF IsTwo, IsThree
  <2>5. IsSeq(d) /\ Shows(HeaderFields(ns), 0, BodyShown) = d \o BodyShown
    BY <2>2, ShowsAhead, Parts
  <2>6. BodyShown = e \o (f \o (b \o g))
    <3>1. b \o g = Then(Get(1), Then(Expect(0), g))
      <4> HIDE DEF g
      <4>1. IsTwo(Get(1), Expect(0), g)
        BY <2>4, Two
      <4> QED BY <4>1 DEF IsTwo
    <3>2. BodyShown = Then(Do("end_key"), Then(start_key("Body"), b \o g))
      BY <2>3, <3>1 DEF BodyShown
    <3> QED BY <3>2 DEF Then
  <2>7. a \o (b \o (c \o (d \o BodyShown))) = Then(Get(7), Then(id, MessageShown(ns)))
    <3> DEFINE h == Then(start_key("Header"), d \o BodyShown)
    <3>1. IsSeq(d \o BodyShown)
      BY <2>5, Parts, Joined
    <3>2. c \o (d \o BodyShown) = h /\ IsSeq(h)
      <4>1. IsSeq(h)
        BY <3>1, Statements
      <4> QED BY <4>1 DEF Then
    <3>3. b \o h = Then(Get(1), Then(Expect(0), h)) /\ IsSeq(Then(Get(1), Then(Expect(0), h)))
      <4> HIDE DEF h
      <4>1. IsTwo(Get(1), Expect(0), h)
        BY <3>2, Two
      <4> QED BY <4>1 DEF IsTwo
    <3>4. a \o Then(Get(1), Then(Expect(0), h))
            = Then(Get(7), Then(id, Then(v2g_, Then(Get(1), Then(Expect(0), h)))))
      <4> HIDE DEF h, id, v2g_
      <4>1. IsThree(Get(7), id, v2g_, Then(Get(1), Then(Expect(0), h)))
        BY <3>3, Three
      <4> QED BY <4>1 DEF IsThree
    <3> QED BY <2>5, <3>2, <3>3, <3>4 DEF MessageShown
  <2> HIDE DEF a, b, c, d, e, f, g
  <2>8. ((((((a \o b) \o c) \o d) \o e) \o f) \o b) \o g = a \o (b \o (c \o (d \o (e \o (f \o (b \o g))))))
    <3>1. AllJoin(a, b, c, d, e, f, b, g)
      BY <2>4, <2>5, EightJoined
    <3> QED BY <3>1 DEF AllJoin
  <2>9. decode_v2g = Then(Get(7), Then(id, MessageShown(ns)))
    BY <2>1, <2>6, <2>7, <2>8
  <2>10. decode = <<Get(8), Expect(128)>> \o decode_v2g
    BY <1>1 DEF decode
  <2>11. IsSeq(decode_v2g)
    BY <1>1, <2>9, Parts, Statements DEF V2GNamespaces
  <2>12. decode = Then(Get(8), Then(Expect(128), decode_v2g))
    <3>1. IsTwo(Get(8), Expect(128), decode_v2g)
      BY <2>11, Two
    <3> QED BY <2>10, <3>1 DEF IsTwo
  <2> QED BY <1>1, <2>9, <2>12 DEF DecodeCalls, V2GNamespaces
<1>2. CASE ns = "app_protocol"
  <2> DEFINE s == <<Get(2), Do("decode_app_protocol")>>
  <2>1. decode = <<Get(8), Expect(128)>> \o s
    BY <1>2 DEF decode
  <2>2. s \o <<>> = Then(Get(2), Then(Do("decode_app_protocol"), End)) /\ IsSeq(s)
    <3>1. IsTwo(Get(2), Do("decode_app_protocol"), <<>>)
      BY Two, Singles
    <3> QED BY <3>1 DEF IsTwo, End
  <2>3. s \o <<>> = s
    <3> HIDE DEF s
    <3>1. PICK S : s \in Seq(S)
      BY <2>2 DEF IsSeq
    <3> QED BY <3>1, ConcatEmptySeq
  <2>4. decode = Then(Get(8), Then(Expect(128), s))
    <3> HIDE DEF s
    <3>1. IsTwo(Get(8), Expect(128), s)
      BY <2>2, Two
    <3> QED BY <2>1, <3>1 DEF IsTwo
  <2> HIDE DEF s
  <2> QED BY <1>2, <2>2, <2>3, <2>4 DEF DecodeCalls, V2GNamespaces
<1>3. CASE ns = "unknown"
  <2> DEFINE s == <<Do("throw")>>
  <2>1. decode = <<Get(8), Expect(128)>> \o s
    BY <1>3 DEF decode
  <2>2. s = Then(Do("throw"), End) /\ IsSeq(s)
    BY Singles DEF End
  <2>3. decode = Then(Get(8), Then(Expect(128), s))
    <3> HIDE DEF s
    <3>1. IsTwo(Get(8), Expect(128), s)
      BY <2>2, Two
    <3> QED BY <2>1, <3>1 DEF IsTwo
  <2> HIDE DEF s
  <2> QED BY <1>3, <2>2, <2>3 DEF DecodeCalls, V2GNamespaces
<1> QED BY <1>1, <1>2, <1>3 DEF Namespaces

(***************************************************************************)
(* What the next statement makes Next do.                                  *)
(***************************************************************************)
Running(a, rest) ==
  /\ code = Then(a, rest) /\ IsSeq(rest)
  /\ side \in {"encoder", "decoder"} /\ fetch = Stream!NoFetch

Op == Head(code).op

(* Next runs the operation that the next statement names, and no other.    *)
LEMMA Selected ==
  ASSUME code # <<>>, side \in {"encoder", "decoder"}, fetch = Stream!NoFetch, Next
  PROVE  \/ Op = "throw" /\ Throw
         \/ Op = "add_max_8bits" /\ add_max_8bits
         \/ Op = "to_object" /\ to_object
         \/ Op = "header" /\ encode_header
         \/ Op = "body" /\ find_body
         \/ Op = "field" /\ encode_field
         \/ Op = "encodeBody" /\ encodeBody
         \/ Op = "encode_app_protocol" /\ encode_app_protocol
         \/ Op = "get_max_4bytes" /\ get_max_4bytes
         \/ Op = "expect" /\ expect
         \/ Op \in {"start_key", "end_key", "add_value", "get_full_stream"} /\ write
         \/ Op = "decodeBody" /\ decodeBody
         \/ Op = "switch" /\ switch
         \/ Op = "decode_app_protocol" /\ decode_app_protocol
<1>1. Throw => Op = "throw"  BY DEF Throw, Runs, Op
<1>2. add_max_8bits => Op = "add_max_8bits"  BY DEF add_max_8bits, Runs, Op
<1>3. to_object => Op = "to_object"  BY DEF to_object, Runs, Op
<1>4. encode_header => Op = "header"  BY DEF encode_header, Runs, Op
<1>5. find_body => Op = "body"  BY DEF find_body, Runs, Op
<1>6. encode_field => Op = "field"  BY DEF encode_field, Runs, Op
<1>7. encodeBody => Op = "encodeBody"  BY DEF encodeBody, Runs, Op
<1>8. encode_app_protocol => Op = "encode_app_protocol"  BY DEF encode_app_protocol, Runs, Op
<1>9. get_max_4bytes => Op = "get_max_4bytes"  BY DEF get_max_4bytes, Runs, Op
<1>10. expect => Op = "expect"  BY DEF expect, Runs, Op
<1>11. write => Op \in {"start_key", "end_key", "add_value", "get_full_stream"}  BY DEF write, Runs, Op
<1>12. decodeBody => Op = "decodeBody"  BY DEF decodeBody, Runs, Op
<1>13. switch => Op = "switch"  BY DEF switch, Runs, Op
<1>14. decode_app_protocol => Op = "decode_app_protocol"  BY DEF decode_app_protocol, Runs, Op
<1>15. ~Returned /\ ~Decoded  BY DEF Returned, Decoded
<1>16. ~get_next_n_bits  BY DEF get_next_n_bits, Stream!get_next_n_bits_iteration
<1>17. ~Ended  BY DEF Ended
<1> QED BY <1>1, <1>2, <1>3, <1>4, <1>5, <1>6, <1>7, <1>8, <1>9, <1>10, <1>11, <1>12, <1>13, <1>14, <1>15, <1>16,
           <1>17, ZenonT(60) DEF Next

(* The next statement, and what is left of the others.                     *)
LEMMA RunningAt ==
  ASSUME NEW op, NEW arg, NEW n, NEW rest, Running(Call(op, arg, n), rest)
  PROVE  /\ code # <<>> /\ Op = op /\ Arg = arg /\ Head(code).n = n /\ Tail(code) = rest /\ <<>> \o Tail(code) = rest
         /\ side \in {"encoder", "decoder"} /\ fetch = Stream!NoFetch
<1> DEFINE a == Call(op, arg, n)
<1>1. a.op = op /\ a.arg = arg /\ a.n = n
  BY DEF Call
<1>2. code = Then(a, rest) /\ IsSeq(rest)
  BY DEF Running
<1> HIDE DEF a
<1>3. code # <<>> /\ Head(code) = a /\ Tail(code) = rest
  BY <1>2, Statements
<1>4. <<>> \o rest = rest
  BY <1>2, Joined
<1> QED BY <1>1, <1>3, <1>4 DEF Op, Arg, Running

(* Nothing but the stream, or the text, or only the statements change.     *)
Same     == UNCHANGED <<request, ns, side>>
Elsewhere == UNCHANGED <<request, ns, exi_data, bit_counter, num_bits, fetch, last, output_data, last_command, values>>
Fails    == side' = "thrown" /\ code' = <<>> /\ Elsewhere

(* An unknown namespace is refused.                                        *)
LEMMA ThrowRuns ==
  ASSUME NEW rest, Running(Do("throw"), rest), Next
  PROVE  Fails
<1>1. code # <<>> /\ Op = "throw" /\ side \in {"encoder", "decoder"} /\ fetch = Stream!NoFetch
  BY RunningAt DEF Do
<1>2. Throw
  BY <1>1, Selected
<1> QED BY <1>2 DEF Throw, Throws, streams, texts, Fails, Elsewhere

(* A field is added to the stream.                                         *)
LEMMA AddRuns ==
  ASSUME NEW v, NEW n, NEW rest, Running(Add(v, n), rest), Next
  PROVE  /\ Stream!add_max_8bits(ByteOf(v), n) /\ code' = rest /\ Same
         /\ UNCHANGED <<output_data, last_command, values>>
<1>1. /\ code # <<>> /\ Op = "add_max_8bits" /\ Arg = v /\ Head(code).n = n /\ <<>> \o Tail(code) = rest
      /\ side \in {"encoder", "decoder"} /\ fetch = Stream!NoFetch
  BY RunningAt DEF Add
<1>2. add_max_8bits
  BY <1>1, Selected
<1> QED BY <1>1, <1>2, Zenon DEF add_max_8bits, Goes, texts, Same

(* The text has a V2G_Message that is an object, or is refused.            *)
LEMMA ToObjectRuns ==
  ASSUME NEW rest, Running(Do("to_object"), rest), Next
  PROVE  \/ HasObject(request.json, "V2G_Message") /\ code' = rest /\ side' = side /\ Elsewhere
         \/ ~HasObject(request.json, "V2G_Message") /\ Fails
<1>1. /\ code # <<>> /\ Op = "to_object" /\ <<>> \o Tail(code) = rest
      /\ side \in {"encoder", "decoder"} /\ fetch = Stream!NoFetch
  BY RunningAt DEF Do
<1>2. to_object
  BY <1>1, Selected
<1> QED BY <1>1, <1>2, Zenon DEF to_object, Either, Goes, Throws, streams, texts, HasObject, Fails, Elsewhere

(* A Header is encoded, whatever it is; without one the text is refused.   *)
LEMMA HeaderRuns ==
  ASSUME NEW rest, Running(Do("header"), rest), Next
  PROVE  \/ /\ exists(v2g, "Header") /\ side' = side /\ Elsewhere
            /\ code' = FieldCalls(get_object(v2g, "Header"), HeaderFields(request.ns)) \o rest
         \/ ~exists(v2g, "Header") /\ Fails
<1>1. /\ code # <<>> /\ Op = "header" /\ Tail(code) = rest
      /\ side \in {"encoder", "decoder"} /\ fetch = Stream!NoFetch
  BY RunningAt DEF Do
<1>2. encode_header
  BY <1>1, Selected
<1>3. Encode("MessageHeaderType", get_object(v2g, "Header"))
        = FieldCalls(get_object(v2g, "Header"), HeaderFields(request.ns))
  BY DEF Encode, FieldCalls, FieldCall, HeaderFields
<1> QED BY <1>1, <1>2, <1>3, Zenon DEF encode_header, Either, Goes, Throws, streams, texts, Fails, Elsewhere

(* A Body is taken, whatever it is; without one the text is refused.       *)
LEMMA BodyRuns ==
  ASSUME NEW rest, Running(Do("body"), rest), Next
  PROVE  \/ exists(v2g, "Body") /\ code' = rest /\ side' = side /\ Elsewhere
         \/ ~exists(v2g, "Body") /\ Fails
<1>1. /\ code # <<>> /\ Op = "body" /\ <<>> \o Tail(code) = rest
      /\ side \in {"encoder", "decoder"} /\ fetch = Stream!NoFetch
  BY RunningAt DEF Do
<1>2. find_body
  BY <1>1, Selected
<1> QED BY <1>1, <1>2, Zenon DEF find_body, Either, Goes, Throws, streams, texts, Fails, Elsewhere

(* The field is there, with a value, in an object.                         *)
FieldGood(object, f) == object # Nothing /\ exists(object, f.name) /\ object.content[f.name].class = "JValue"

(* A field is added if the object has a value of its name; the text is     *)
(* refused otherwise.                                                      *)
LEMMA FieldRuns ==
  ASSUME NEW object, NEW f, NEW rest, Running(FieldCall(object, f), rest), Next
  PROVE  \/ /\ FieldGood(object, f) /\ side' = side /\ Elsewhere
            /\ code' = Then(Add(object.content[f.name].content, f.n), rest)
         \/ object # Nothing /\ ~FieldGood(object, f) /\ Fails
<1>1. /\ code # <<>> /\ Op = "field" /\ Arg = <<object, f.name>> /\ Head(code).n = f.n /\ Tail(code) = rest
      /\ side \in {"encoder", "decoder"} /\ fetch = Stream!NoFetch
  BY RunningAt DEF FieldCall
<1>2. encode_field
  BY <1>1, Selected
<1>3. Arg[1] = object /\ Arg[2] = f.name
  BY <1>1
<1>4. /\ object # Nothing
      /\ Either(exists(object, f.name) /\ object.content[f.name].class = "JValue",
                <<Add(object.content[f.name].content, Head(code).n)>>)
      /\ UNCHANGED <<streams, texts>>
  BY <1>2, <1>3, Zenon DEF encode_field
<1> QED BY <1>1, <1>4, Zenon DEF Either, Goes, Throws, streams, texts, Fails, Elsewhere, FieldGood, Then

(* The message is found in the table by its name, or the text is refused.  *)
LEMMA EncodeBodyRuns ==
  ASSUME NEW rest, Running(Do("encodeBody"), rest), Next
  PROVE  /\ body # Nothing
         /\ \/ table(request.ns, get_next_key_name(body)) = {} /\ Fails
            \/ \E i \in table(request.ns, get_next_key_name(body)) :
                 /\ side' = side /\ Elsewhere
                 /\ code' = (<<Add(i - 1, 6)>> \o FieldCalls(get_object(body, get_next_key_name(body)),
                                                            FieldsOf(request.ns, elements[request.ns][i].type))) \o rest
<1>1. /\ code # <<>> /\ Op = "encodeBody" /\ Tail(code) = rest
      /\ side \in {"encoder", "decoder"} /\ fetch = Stream!NoFetch
  BY RunningAt DEF Do
<1>2. encodeBody
  BY <1>1, Selected
<1> DEFINE name == get_next_key_name(body)
<1>3. \A i : Encode(elements[request.ns][i].type, get_object(body, name))
               = FieldCalls(get_object(body, name), FieldsOf(request.ns, elements[request.ns][i].type))
  BY DEF Encode, FieldCalls, FieldCall
<1>4. \A i : message_nr(request.ns, i) = i - 1
  BY DEF message_nr
<1> QED BY <1>1, <1>2, <1>3, <1>4, Zenon DEF encodeBody, Goes, Throws, streams, texts, Fails, Elsewhere

(* So is the message of the app protocol.                                  *)
LEMMA EncodeAppRuns ==
  ASSUME NEW rest, Running(Do("encode_app_protocol"), rest), request.ns = "app_protocol", Next
  PROVE  \/ get_next_key_name(request.json) \notin ToSet(AppMessages) /\ Fails
         \/ \E i \in DOMAIN AppMessages :
              /\ get_next_key_name(request.json) = AppMessages[i] /\ side' = side /\ Elsewhere
              /\ code' = (<<Add(i - 1, 2)>> \o FieldCalls(get_object(request.json, AppMessages[i]),
                                                         FieldsOf("app_protocol", AppMessages[i] \o "Type"))) \o rest
<1>1. /\ code # <<>> /\ Op = "encode_app_protocol" /\ Tail(code) = rest
      /\ side \in {"encoder", "decoder"} /\ fetch = Stream!NoFetch
  BY RunningAt DEF Do
<1>2. encode_app_protocol
  BY <1>1, Selected
<1>3. \A object, type : Encode(type, object) = FieldCalls(object, FieldsOf("app_protocol", type))
  BY DEF Encode, FieldCalls, FieldCall
<1> QED BY <1>1, <1>2, <1>3, Zenon DEF encode_app_protocol, Goes, Throws, streams, texts, Fails, Elsewhere

(* Of the decoder.                                                         *)
LEMMA GetRuns ==
  ASSUME NEW n, NEW rest, Running(Get(n), rest), Next
  PROVE  /\ Stream!get_max_4bytes(n) /\ code' = rest /\ Same
         /\ UNCHANGED <<output_data, last_command, values>>
<1>1. /\ code # <<>> /\ Op = "get_max_4bytes" /\ Head(code).n = n /\ <<>> \o Tail(code) = rest
      /\ side \in {"encoder", "decoder"} /\ fetch = Stream!NoFetch
  BY RunningAt DEF Get
<1>2. get_max_4bytes
  BY <1>1, Selected
<1> QED BY <1>1, <1>2, Zenon DEF get_max_4bytes, Goes, texts, Same

(* What was read is what is expected, or the bytes are refused.            *)
LEMMA ExpectRuns ==
  ASSUME NEW v, NEW rest, Running(Expect(v), rest), Next
  PROVE  \/ Value = v /\ code' = rest /\ side' = side /\ Elsewhere
         \/ Value # v /\ Fails
<1>1. /\ code # <<>> /\ Op = "expect" /\ Arg = v /\ <<>> \o Tail(code) = rest
      /\ side \in {"encoder", "decoder"} /\ fetch = Stream!NoFetch
  BY RunningAt DEF Expect
<1>2. expect
  BY <1>1, Selected
<1> QED BY <1>1, <1>2, Zenon DEF expect, Either, Goes, Throws, streams, texts, Fails, Elsewhere

Text2(tokens, command) == output_data' = output_data \o tokens /\ last_command' = command
Untouched              == UNCHANGED <<request, ns, side, exi_data, bit_counter, num_bits, fetch, last>>

(* start_key writes a comma behind an element and a brace before the       *)
(* first.                                                                  *)
LEMMA StartKeyRuns ==
  ASSUME NEW name, NEW rest, Running(start_key(name), rest), Next
  PROVE  /\ code' = rest /\ Untouched /\ UNCHANGED values
         /\ Text2(IF last_command = "endkey" THEN <<",", name>> ELSE <<"{", name>>, "startkey")
<1>1. /\ code # <<>> /\ Op = "start_key" /\ Arg = name /\ <<>> \o Tail(code) = rest
      /\ side \in {"encoder", "decoder"} /\ fetch = Stream!NoFetch
  BY RunningAt DEF start_key
<1>2. write
  BY <1>1, Selected
<1>3. Head(code).op = "start_key"
  BY <1>1 DEF Op
<1>4. Text!start_key(Arg) /\ UNCHANGED values /\ Goes(<<>>) /\ UNCHANGED streams
  BY <1>2, <1>3 DEF write, Runs
<1> QED BY <1>1, <1>4 DEF Text!start_key, Text!Emit, Goes, streams, Text2, Untouched

(* end_key closes an object, and writes the braces of an empty one.        *)
LEMMA EndKeyRuns ==
  ASSUME NEW rest, Running(Do("end_key"), rest), Next
  PROVE  /\ code' = rest /\ Untouched /\ UNCHANGED values
         /\ Text2(IF last_command = "endkey" THEN <<"}">>
                  ELSE IF last_command = "startkey" THEN <<"{", "}">> ELSE <<>>, "endkey")
<1>1. /\ code # <<>> /\ Op = "end_key" /\ <<>> \o Tail(code) = rest
      /\ side \in {"encoder", "decoder"} /\ fetch = Stream!NoFetch
  BY RunningAt DEF Do
<1>2. write
  BY <1>1, Selected
<1>3. Head(code).op = "end_key"
  BY <1>1 DEF Op
<1>4. Text!end_key /\ UNCHANGED values /\ Goes(<<>>) /\ UNCHANGED streams
  BY <1>2, <1>3 DEF write, Runs
<1> QED BY <1>1, <1>4 DEF Text!end_key, Text!Emit, Goes, streams, Text2, Untouched

(* add_value writes what was read.                                         *)
LEMMA AddValueRuns ==
  ASSUME NEW rest, Running(Do("add_value"), rest), Next
  PROVE  /\ code' = rest /\ Untouched /\ values' = Append(values, Value)
         /\ Text2(<<Text!Scalar>>, "addvalue")
<1>1. /\ code # <<>> /\ Op = "add_value" /\ <<>> \o Tail(code) = rest
      /\ side \in {"encoder", "decoder"} /\ fetch = Stream!NoFetch
  BY RunningAt DEF Do
<1>2. write
  BY <1>1, Selected
<1>3. Head(code).op = "add_value"
  BY <1>1 DEF Op
<1>4. Text!add_value /\ values' = Append(values, Value) /\ Goes(<<>>) /\ UNCHANGED streams
  BY <1>2, <1>3 DEF write, Runs
<1> QED BY <1>1, <1>4 DEF Text!add_value, Text!Emit, Goes, streams, Text2, Untouched

(* get_full_stream closes the text.                                        *)
LEMMA FullStreamRuns ==
  ASSUME NEW rest, Running(Do("get_full_stream"), rest), Next
  PROVE  /\ code' = rest /\ Untouched /\ UNCHANGED <<last_command, values>>
         /\ output_data' = Append(output_data, "}")
<1>1. /\ code # <<>> /\ Op = "get_full_stream" /\ <<>> \o Tail(code) = rest
      /\ side \in {"encoder", "decoder"} /\ fetch = Stream!NoFetch
  BY RunningAt DEF Do
<1>2. write
  BY <1>1, Selected
<1>3. Head(code).op = "get_full_stream"
  BY <1>1 DEF Op
<1>4. output_data' = Append(output_data, "}") /\ UNCHANGED <<last_command, values>> /\ Goes(<<>>) /\ UNCHANGED streams
  BY <1>2, <1>3 DEF write, Runs
<1> QED BY <1>1, <1>4 DEF Goes, streams, Untouched

(* decodeBody reads six bits, and then looks at them.                      *)
LEMMA DecodeBodyRuns ==
  ASSUME NEW rest, Running(Do("decodeBody"), rest), Next
  PROVE  /\ Stream!get_next_n_bits(6, FALSE) /\ code' = Then(Do("switch"), rest) /\ Same
         /\ UNCHANGED <<output_data, last_command, values>>
<1>1. /\ code # <<>> /\ Op = "decodeBody" /\ Tail(code) = rest
      /\ side \in {"encoder", "decoder"} /\ fetch = Stream!NoFetch
  BY RunningAt DEF Do
<1>2. decodeBody
  BY <1>1, Selected
<1> QED BY <1>1, <1>2, Zenon DEF decodeBody, Goes, texts, Same, Then

(* The number is of an element that has functions, which are called, or is *)
(* refused.                                                                *)
LEMMA SwitchRuns ==
  ASSUME NEW rest, Running(Do("switch"), rest), Next, NEW i, message_type + 1 = i
  PROVE  \/ /\ i \in DOMAIN elements[ns] /\ HasFunctions(ns, elements[ns][i]) /\ side' = side /\ Elsewhere
            /\ code' = (<<start_key(elements[ns][i].name)>>
                          \o FlattenSeq(Blocks(FieldsOf(ns, elements[ns][i].type)))) \o rest
         \/ ~(i \in DOMAIN elements[ns] /\ HasFunctions(ns, elements[ns][i])) /\ Fails
<1>1. /\ code # <<>> /\ Op = "switch" /\ Tail(code) = rest
      /\ side \in {"encoder", "decoder"} /\ fetch = Stream!NoFetch
  BY RunningAt DEF Do
<1>2. switch
  BY <1>1, Selected
<1>3. Decode(elements[ns][i].type) = FlattenSeq(Blocks(FieldsOf(ns, elements[ns][i].type)))
  BY DEF Decode, Blocks, Block
<1>4. /\ IF i \in DOMAIN elements[ns] /\ HasFunctions(ns, elements[ns][i])
         THEN Goes(<<start_key(elements[ns][i].name)>> \o Decode(elements[ns][i].type))
         ELSE Throws
      /\ UNCHANGED <<streams, texts>>
  BY <1>2, Zenon DEF switch
<1> QED BY <1>1, <1>3, <1>4, Zenon DEF Goes, Throws, streams, texts, Fails, Elsewhere

(* So is the number of a message of the app protocol.                      *)
LEMMA DecodeAppRuns ==
  ASSUME NEW rest, Running(Do("decode_app_protocol"), rest), ns = "app_protocol", Next
  PROVE  \/ Value \notin {0, 1} /\ Fails
         \/ \E i \in DOMAIN AppMessages :
              /\ Value = i - 1 /\ side' = side /\ Elsewhere
              /\ code' = ((<<start_key(AppMessages[i])>>
                            \o FlattenSeq(Blocks(FieldsOf("app_protocol", AppMessages[i] \o "Type"))))
                            \o <<Do("end_key"), Do("get_full_stream")>>) \o rest
<1>1. /\ code # <<>> /\ Op = "decode_app_protocol" /\ Tail(code) = rest
      /\ side \in {"encoder", "decoder"} /\ fetch = Stream!NoFetch
  BY RunningAt DEF Do
<1>2. decode_app_protocol
  BY <1>1, Selected
<1>3. \A type : Decode(type) = FlattenSeq(Blocks(FieldsOf("app_protocol", type)))
  BY DEF Decode, Blocks, Block
<1> QED BY <1>1, <1>2, <1>3, Zenon DEF decode_app_protocol, Goes, Throws, streams, texts, Fails, Elsewhere

(***************************************************************************)
(* The elements of a schema.                                               *)
(***************************************************************************)
Elements == [name : STRING, type : STRING, base : STRING]

(* They are sorted by name, each once, as the names are.                   *)
LEMMA ElementsDiffer ==
  ASSUME NEW n \in V2GNamespaces
  PROVE  /\ elements[n] \in Seq(Elements) /\ Len(elements[n]) \in 0 .. 64
         /\ \A p, q \in DOMAIN elements[n] : elements[n][p].name = elements[n][q].name => p = q
<1> DEFINE found == {e \in ToSet(BodyElements[n]) : IsBodyElement(e)}
           named(i) == {e \in found : e.name = Lexicographic[i]}
           one(i) == IF named(i) = {} THEN <<>> ELSE <<CHOOSE e \in named(i) : TRUE>>
           seqs == [i \in DOMAIN Lexicographic |-> one(i)]
<1>1. n \in DOMAIN BodyElements /\ BodyElements[n] \in Seq(Elements)
  BY ElementsAssumption DEF V2GNamespaces, Elements
<1>2. elements[n] = FlattenSeq(seqs)
  BY <1>1 DEF elements
<1>3. found \subseteq Elements
  BY <1>1 DEF ToSet
<1>4. Lexicographic \in Seq(STRING) /\ DOMAIN Lexicographic = 1 .. Len(Lexicographic) /\ Len(Lexicographic) \in Nat
  BY NamesAssumption, LenProperties
<1> HIDE DEF found
<1>5. ASSUME NEW i \in 1 .. Len(Lexicographic)
      PROVE  /\ one(i) \in Seq(Elements) /\ Len(one(i)) \in {0, 1}
             /\ Len(one(i)) = 1 => one(i)[1].name = Lexicographic[i]
  <2>1. CASE named(i) = {}
    BY <2>1
  <2>2. CASE named(i) # {}
    <3>1. (CHOOSE e \in named(i) : TRUE) \in named(i)
      BY <2>2
    <3> DEFINE first == CHOOSE e \in named(i) : TRUE
    <3>2. first \in Elements /\ first.name = Lexicographic[i]
      BY <1>3, <3>1
    <3>3. one(i) = <<first>>
      BY <2>2
    <3> HIDE DEF first, one
    <3> QED BY <3>2, <3>3
  <2> QED BY <2>1, <2>2
<1> HIDE DEF one
<1>6. seqs \in Seq(Seq(Elements)) /\ Len(seqs) = Len(Lexicographic)
      /\ \A i \in 1 .. Len(seqs) : seqs[i] = one(i)
  <2>1. seqs = [i \in 1 .. Len(Lexicographic) |-> one(i)]
    BY <1>4
  <2> HIDE DEF seqs
  <2> QED BY <1>4, <1>5, <2>1
<1> HIDE DEF seqs
<1>7. elements[n] \in Seq(Elements)
  BY <1>2, <1>6, FlattenIn
<1>8. Len(elements[n]) \in 0 .. 64 /\ DOMAIN elements[n] = 1 .. Len(FlattenSeq(seqs))
  <2>1. Len(elements[n]) \in Nat /\ DOMAIN elements[n] = 1 .. Len(elements[n])
    BY <1>7, LenProperties
  <2>2. Len(elements[n]) <= 64
    BY <1>1, ElementsAssumption
  <2>3. Len(elements[n]) \in 0 .. 64
    <3> DEFINE l == Len(elements[n])
    <3>1. l \in Nat /\ l <= 64
      BY <2>1, <2>2
    <3> HIDE DEF l
    <3>2. l \in 0 .. 64
      BY <3>1
    <3> QED BY <3>2 DEF l
  <2> QED BY <1>2, <2>1, <2>3, Zenon
<1>9. ASSUME NEW p \in 1 .. Len(FlattenSeq(seqs))
      PROVE  \E k \in 1 .. Len(seqs) : /\ elements[n][p].name = Lexicographic[k]
                                       /\ p = Len(Upto(seqs, k - 1)) + 1
  <2>1. PICK k \in 1 .. Len(seqs) : /\ FlattenSeq(seqs)[p] = seqs[k][p - Len(Upto(seqs, k - 1))]
                                    /\ p - Len(Upto(seqs, k - 1)) \in 1 .. Len(seqs[k])
    BY <1>6, FlattenFrom
  <2>2. k - 1 \in 0 .. Len(seqs) /\ Len(seqs) \in Nat /\ p \in Nat
    BY <1>4, <1>6
  <2>3. Upto(seqs, k - 1) \in Seq(Elements)
    BY <1>6, <2>2, UptoIn
  <2>4. Len(Upto(seqs, k - 1)) \in Nat
    BY <2>3, LenProperties
  <2>5. seqs[k] = one(k) /\ Len(one(k)) \in {0, 1} /\ (Len(one(k)) = 1 => one(k)[1].name = Lexicographic[k])
    BY <1>5, <1>6
  <2>6. Len(one(k)) = 1 /\ p - Len(Upto(seqs, k - 1)) = 1
    <3> DEFINE d == p - Len(Upto(seqs, k - 1))
               l == Len(one(k))
    <3>1. d \in 1 .. l /\ l \in {0, 1}
      BY <2>1, <2>5
    <3>2. l = 1 /\ d = 1
      <4> HIDE DEF d, l
      <4> QED BY <3>1
    <3> QED BY <3>2
  <2>7. p = Len(Upto(seqs, k - 1)) + 1
    BY <2>2, <2>4, <2>6
  <2> QED BY <1>2, <2>1, <2>5, <2>6, <2>7
<1>10. ASSUME NEW p \in DOMAIN elements[n], NEW q \in DOMAIN elements[n], elements[n][p].name = elements[n][q].name
       PROVE  p = q
  <2>1. PICK k \in 1 .. Len(seqs) : elements[n][p].name = Lexicographic[k] /\ p = Len(Upto(seqs, k - 1)) + 1
    BY <1>8, <1>9
  <2>2. PICK l \in 1 .. Len(seqs) : elements[n][q].name = Lexicographic[l] /\ q = Len(Upto(seqs, l - 1)) + 1
    BY <1>8, <1>9
  <2>3. k = l
    BY <1>4, <1>6, <1>10, <2>1, <2>2, NamesAssumption DEF IsInjective
  <2> QED BY <2>1, <2>2, <2>3
<1> QED BY <1>7, <1>8, <1>10

(* The name of an element with functions is its place in the table.        *)
LEMMA TableOf ==
  ASSUME NEW n \in V2GNamespaces, NEW name, NEW i \in table(n, name)
  PROVE  /\ i \in DOMAIN elements[n] /\ i \in 1 .. 64 /\ elements[n][i].name = name
         /\ HasFunctions(n, elements[n][i]) /\ table(n, name) = {i}
         /\ FieldsOf(n, elements[n][i].type) \in Seq(Fields)
<1>1. /\ i \in DOMAIN elements[n] /\ elements[n][i].name = name /\ HasFunctions(n, elements[n][i])
  BY DEF table
<1>2. i \in 1 .. 64
  <2>1. elements[n] \in Seq(Elements) /\ Len(elements[n]) \in 0 .. 64
    BY ElementsDiffer
  <2>2. i \in 1 .. Len(elements[n])
    BY <1>1, <2>1, LenProperties
  <2> DEFINE l == Len(elements[n])
  <2>3. l \in 0 .. 64 /\ i \in 1 .. l
    BY <2>1, <2>2
  <2> HIDE DEF l
  <2> QED BY <2>3
<1>3. table(n, name) = {i}
  BY <1>1, ElementsDiffer DEF table
<1>4. elements[n][i] \in ToSet(elements[n]) /\ n \in DOMAIN BodyElements
  BY <1>1, ElementsAssumption DEF ToSet, V2GNamespaces
<1>5. FieldsOf(n, elements[n][i].type) \in Seq(Fields)
  BY <1>1, <1>4, FieldsAssumption
<1> QED BY <1>1, <1>2, <1>3, <1>5

(***************************************************************************)
(* What a request says.                                                    *)
(***************************************************************************)
MessageOf(r) == r.json.content["V2G_Message"]
HeaderOf(r)  == get_object(MessageOf(r), "Header")
BodyOf(r)    == get_object(MessageOf(r), "Body")
KeyOf(r)     == get_next_key_name(BodyOf(r))
PlaceOf(r)   == CHOOSE i \in table(r.ns, KeyOf(r)) : TRUE
ObjectOf(r)  == get_object(BodyOf(r), KeyOf(r))
BodyFields(r) == FieldsOf(r.ns, elements[r.ns][PlaceOf(r)].type)

HeaderText == <<"{", "V2G_Message", "{", "Header">>

(* The header, and the body, as the schema wants them.                     *)
HeaderAllowed(r) == /\ HasObject(r.json, "V2G_Message") /\ HasObject(MessageOf(r), "Header")
                    /\ HasFields(HeaderOf(r), HeaderFields(r.ns))
BodyAllowed(r)   == /\ HasObject(MessageOf(r), "Body") /\ table(r.ns, KeyOf(r)) # {}
                    /\ HasFields(BodyOf(r).content[KeyOf(r)], BodyFields(r))

(* An object that is not Nothing is the member.                            *)
LEMMA ObjectFound ==
  ASSUME NEW o, NEW key
  PROVE  /\ get_object(o, key) # Nothing => o.content[key].class = "JObject"
         /\ o.content[key].class = "JObject" => get_object(o, key) = o.content[key] /\ get_object(o, key) # Nothing
<1>1. Nothing.class = "nullptr"
  BY DEF Nothing
<1>2. "nullptr" # "JObject"
  OBVIOUS
<1> QED BY <1>1, <1>2 DEF get_object

(* A body with one member has that one first.                              *)
LEMMA OnlyKey ==
  ASSUME NEW o, IsSingle(o)
  PROVE  DOMAIN o.content = {get_next_key_name(o)}
<1>1. PICK key \in DOMAIN o.content : DOMAIN o.content = {key}
  BY DEF IsSingle
<1>2. DOMAIN o.content \ {key} = {}
  BY <1>1
<1>3. get_next_key_name(o) = key
  <2> DEFINE P(k) == \A other \in DOMAIN o.content \ {k} : Before(k, other)
  <2>1. P(key)
    BY <1>2
  <2>2. get_next_key_name(o) = CHOOSE k \in DOMAIN o.content : P(k)
    BY DEF get_next_key_name
  <2> HIDE DEF P
  <2>3. (CHOOSE k \in DOMAIN o.content : P(k)) \in DOMAIN o.content
    BY <1>1, <2>1
  <2> QED BY <1>1, <2>2, <2>3
<1> QED BY <1>1, <1>3

(* The message is what encodeBody finds in its table.                      *)
LEMMA KnownIs ==
  ASSUME NEW r, r.ns \in V2GNamespaces, IsSingle(BodyOf(r))
  PROVE  {e \in ToSet(elements[r.ns]) : HasFunctions(r.ns, e) /\ exists(BodyOf(r), e.name)}
           = {elements[r.ns][i] : i \in table(r.ns, KeyOf(r))}
<1>1. DOMAIN BodyOf(r).content = {KeyOf(r)}
  BY OnlyKey DEF KeyOf
<1>2. \A e : exists(BodyOf(r), e.name) <=> e.name = KeyOf(r)
  BY <1>1 DEF exists
<1>3. ToSet(elements[r.ns]) = {elements[r.ns][i] : i \in DOMAIN elements[r.ns]}
  BY DEF ToSet
<1> QED BY <1>2, <1>3 DEF table

(* What a request of a V2G namespace says.                                 *)
LEMMA SaidIs ==
  ASSUME NEW r \in Requests, r.ns \in V2GNamespaces
  PROVE  SaidBy[r] =
           IF HeaderAllowed(r) /\ BodyAllowed(r)
           THEN [text   |-> (((HeaderText \o TypeText(HeaderFields(r.ns))) \o <<",", "Body", "{", KeyOf(r)>>)
                              \o TypeText(BodyFields(r))) \o <<"}", "}", "}">>,
                 values |-> Contents(HeaderOf(r), HeaderFields(r.ns))
                              \o Contents(BodyOf(r).content[KeyOf(r)], BodyFields(r))]
           ELSE SaysNothing
<1> DEFINE n == r.ns
           json == r.json
           v == MessageOf(r)
           header == HeaderFields(n)
           b == v.content["Body"]
           known == {e \in ToSet(elements[n]) : HasFunctions(n, e) /\ exists(b, e.name)}
           fields == FieldsOf(n, TheOnly(known).type)
           name == TheOnly(known).name
           Condition == /\ HasObject(json, "V2G_Message")
                        /\ HasObject(v, "Header") /\ HasFields(v.content["Header"], header)
                        /\ HasObject(v, "Body") /\ known # {} /\ HasFields(b.content[name], fields)
           Result == [text   |-> <<"{", "V2G_Message", "{", "Header">> \o TypeText(header)
                                   \o <<",", "Body", "{", name>> \o TypeText(fields) \o <<"}", "}", "}">>,
                      values |-> Contents(v.content["Header"], header) \o Contents(b.content[name], fields)]
<1>1. SaidBy[r] = IF Condition THEN Result ELSE SaysNothing
  <2>1. r.ns # "app_protocol" /\ r.ns # "unknown"
    BY DEF V2GNamespaces
  <2>2. SaidBy[r] = SaidByV2G(r.ns, r.json)
    BY <2>1 DEF SaidBy
  <2> QED BY <2>2 DEF SaidByV2G, MessageOf, HeaderFields
<1> HIDE DEF Condition, Result
<1>2. HasObject(v, "Header") => HeaderOf(r) = v.content["Header"]
  BY ObjectFound DEF HasObject, HeaderOf
<1>3. HasObject(v, "Body") => BodyOf(r) = b
  BY ObjectFound DEF HasObject, BodyOf
<1>4. HasObject(json, "V2G_Message") /\ HasObject(v, "Body") => IsSingle(b)
  BY RequestsAssumption, ElementsAssumption DEF V2GFits, BodyFits, MessageOf, V2GNamespaces
<1>5. ASSUME HasObject(json, "V2G_Message"), HasObject(v, "Body"), table(n, KeyOf(r)) # {}
      PROVE  known # {} /\ name = KeyOf(r) /\ fields = BodyFields(r)
  <2>1. known = {elements[n][i] : i \in table(n, KeyOf(r))}
    BY <1>3, <1>4, <1>5, KnownIs, ZenonT(60)
  <2>2. PlaceOf(r) \in table(n, KeyOf(r))
    BY <1>5 DEF PlaceOf
  <2>3. table(n, KeyOf(r)) = {PlaceOf(r)} /\ elements[n][PlaceOf(r)].name = KeyOf(r)
    BY <2>2, TableOf
  <2>4. known = {elements[n][PlaceOf(r)]}
    BY <2>1, <2>3
  <2>5. TheOnly(known) = elements[n][PlaceOf(r)]
    <3> HIDE DEF known
    <3> QED BY <2>4 DEF TheOnly
  <2> HIDE DEF known
  <2> QED BY <2>3, <2>4, <2>5 DEF BodyFields
<1>6. ASSUME HasObject(json, "V2G_Message"), HasObject(v, "Body"), table(n, KeyOf(r)) = {}
      PROVE  known = {}
  BY <1>3, <1>4, <1>6, KnownIs
<1> HIDE DEF known, v, header, fields, name
<1>7. CASE HeaderAllowed(r) /\ BodyAllowed(r)
  <2>1. /\ HasObject(json, "V2G_Message") /\ HasObject(v, "Header") /\ HasFields(HeaderOf(r), header)
        /\ HasObject(v, "Body") /\ table(n, KeyOf(r)) # {} /\ HasFields(BodyOf(r).content[KeyOf(r)], BodyFields(r))
    BY <1>7 DEF HeaderAllowed, BodyAllowed, v, header
  <2>2. HeaderOf(r) = v.content["Header"] /\ BodyOf(r) = b /\ known # {} /\ name = KeyOf(r) /\ fields = BodyFields(r)
    BY <1>2, <1>3, <1>5, <2>1
  <2>3. Condition
    BY <2>1, <2>2 DEF Condition
  <2> QED BY <1>1, <1>7, <2>2, <2>3 DEF Result, HeaderText, header
<1>8. CASE ~(HeaderAllowed(r) /\ BodyAllowed(r))
  <2>1. SUFFICES ASSUME Condition PROVE FALSE
    BY <1>1, <1>8
  <2>2. /\ HasObject(json, "V2G_Message") /\ HasObject(v, "Header") /\ HasFields(v.content["Header"], header)
        /\ HasObject(v, "Body") /\ known # {} /\ HasFields(b.content[name], fields)
    BY <2>1 DEF Condition
  <2>3. table(n, KeyOf(r)) # {}
    BY <1>6, <2>2
  <2>4. HeaderOf(r) = v.content["Header"] /\ BodyOf(r) = b /\ name = KeyOf(r) /\ fields = BodyFields(r)
    BY <1>2, <1>3, <1>5, <2>2, <2>3
  <2> QED BY <1>8, <2>2, <2>3, <2>4 DEF HeaderAllowed, BodyAllowed, v, header
<1> QED BY <1>7, <1>8

(* A field that is there is a number that fits.                            *)
Content(object, f)            == Number(object.content[f.name].content, f.n)
FieldsGood(object, fields, j) == \A k \in 1 .. j : FieldGood(object, fields[k])

(* The value of a field is a number that fits it.                          *)
LEMMA ContentFits ==
  ASSUME NEW object, NEW fields \in Seq(Fields), FieldsFit(object, fields), NEW k \in 1 .. Len(fields),
         FieldGood(object, fields[k])
  PROVE  /\ Content(object, fields[k]) \in Numbers
         /\ Content(object, fields[k]).v = object.content[fields[k].name].content
         /\ Content(object, fields[k]).n = fields[k].n /\ fields[k] \in Fields
<1> DEFINE f == fields[k]
           v == object.content[f.name].content
<1>1. f \in Fields /\ f \in ToSet(fields)
  BY ElementOfSeq, LenProperties DEF ToSet
<1>2. v \in 0 .. 2 ^ f.n - 1
  BY <1>1 DEF FieldsFit, FieldGood
<1>3. f.n \in 1 .. 8
  BY <1>1 DEF Fields
<1>4. v \in Nat /\ v <= 2 ^ f.n - 1
  <2> DEFINE p == 2 ^ f.n
  <2>1. f.n \in 0 .. 8
    BY <1>3
  <2> HIDE DEF f, v
  <2>2. p \in 1 .. 256 /\ v \in 0 .. p - 1
    BY <1>2, <2>1, PowerOfField
  <2> HIDE DEF p
  <2>3. v \in Nat /\ v <= p - 1
    BY <2>2
  <2> QED BY <2>3 DEF p
<1> HIDE DEF f, v
<1>5. Number(v, f.n) \in Numbers /\ Number(v, f.n).v = v /\ Number(v, f.n).n = f.n
  BY <1>3, <1>4, NumberIn
<1> QED BY <1>1, <1>5 DEF Content, f, v

(* So are those of the header of a request.                                *)
LEMMA HeaderFits ==
  ASSUME NEW r \in Requests, r.ns \in V2GNamespaces, HasObject(r.json, "V2G_Message"),
         exists(MessageOf(r), "Header"), NEW k \in 1 .. Len(HeaderFields(r.ns)),
         FieldGood(HeaderOf(r), HeaderFields(r.ns)[k])
  PROVE  Content(HeaderOf(r), HeaderFields(r.ns)[k]) \in Numbers
<1>1. HeaderOf(r) # Nothing
  BY DEF FieldGood
<1>2. HasObject(MessageOf(r), "Header") /\ HeaderOf(r) = MessageOf(r).content["Header"]
  BY <1>1, ObjectFound DEF HeaderOf, HasObject
<1>3. V2GFits(r.ns, MessageOf(r))
  BY RequestsAssumption, ElementsAssumption DEF MessageOf, V2GNamespaces
<1>4. FieldsFit(HeaderOf(r), HeaderFields(r.ns))
  BY <1>2, <1>3 DEF V2GFits, HeaderFields
<1>5. HeaderFields(r.ns) \in Seq(Fields)
  BY HeaderIsAType
<1> QED BY <1>4, <1>5, ContentFits

(* A body in which encodeBody finds a message.                             *)
BodyFound(r) == exists(MessageOf(r), "Body") /\ BodyOf(r) # Nothing /\ table(r.ns, KeyOf(r)) # {}

(* The body that was found has one member, a message with a place in the   *)
(* table, whose values fit.                                                *)
LEMMA BodyFoundIs ==
  ASSUME NEW r \in Requests, r.ns \in V2GNamespaces, HasObject(r.json, "V2G_Message"), BodyFound(r)
  PROVE  /\ HasObject(MessageOf(r), "Body") /\ DOMAIN BodyOf(r).content = {KeyOf(r)}
         /\ PlaceOf(r) \in DOMAIN elements[r.ns] /\ PlaceOf(r) \in 1 .. 64 /\ table(r.ns, KeyOf(r)) = {PlaceOf(r)}
         /\ elements[r.ns][PlaceOf(r)].name = KeyOf(r) /\ HasFunctions(r.ns, elements[r.ns][PlaceOf(r)])
         /\ BodyFields(r) \in Seq(Fields)
         /\ ObjectOf(r) # Nothing => ObjectOf(r) = BodyOf(r).content[KeyOf(r)] /\ FieldsFit(ObjectOf(r), BodyFields(r))
<1>1. HasObject(MessageOf(r), "Body") /\ BodyOf(r) = MessageOf(r).content["Body"]
  BY ObjectFound DEF BodyFound, BodyOf, HasObject
<1>2. V2GFits(r.ns, MessageOf(r))
  BY RequestsAssumption, ElementsAssumption DEF MessageOf, V2GNamespaces
<1>3. BodyFits(r.ns, BodyOf(r))
  BY <1>1, <1>2 DEF V2GFits
<1>4. DOMAIN BodyOf(r).content = {KeyOf(r)}
  BY <1>3, OnlyKey DEF BodyFits, KeyOf
<1>5. PlaceOf(r) \in table(r.ns, KeyOf(r))
  BY DEF BodyFound, PlaceOf
<1> DEFINE i == PlaceOf(r)
<1> HIDE DEF i
<1>6. i \in table(r.ns, KeyOf(r))
  BY <1>5 DEF i
<1>7. /\ i \in DOMAIN elements[r.ns] /\ i \in 1 .. 64 /\ elements[r.ns][i].name = KeyOf(r)
      /\ HasFunctions(r.ns, elements[r.ns][i]) /\ table(r.ns, KeyOf(r)) = {i}
      /\ FieldsOf(r.ns, elements[r.ns][i].type) \in Seq(Fields)
  BY <1>6, TableOf
<1>8. ASSUME ObjectOf(r) # Nothing
      PROVE  ObjectOf(r) = BodyOf(r).content[KeyOf(r)] /\ FieldsFit(ObjectOf(r), BodyFields(r))
  <2>1. BodyOf(r).content[KeyOf(r)].class = "JObject" /\ ObjectOf(r) = BodyOf(r).content[KeyOf(r)]
    BY <1>8, ObjectFound DEF ObjectOf
  <2>2. HasObject(BodyOf(r), elements[r.ns][i].name)
    BY <1>4, <1>7, <2>1 DEF HasObject, exists
  <2>3. elements[r.ns][i] \in ToSet(elements[r.ns])
    BY <1>7 DEF ToSet
  <2>4. FieldsFit(BodyOf(r).content[KeyOf(r)], FieldsOf(r.ns, elements[r.ns][i].type))
    BY <1>3, <1>7, <2>2, <2>3 DEF BodyFits
  <2> QED BY <2>1, <2>4 DEF BodyFields, i
<1> QED BY <1>1, <1>4, <1>7, <1>8 DEF BodyFields, i

(* The values of the message fit their fields.                             *)
LEMMA BodyValueFits ==
  ASSUME NEW r \in Requests, r.ns \in V2GNamespaces, HasObject(r.json, "V2G_Message"), BodyFound(r),
         NEW k \in 1 .. Len(BodyFields(r)), FieldGood(ObjectOf(r), BodyFields(r)[k])
  PROVE  Content(ObjectOf(r), BodyFields(r)[k]) \in Numbers
<1>1. FieldsFit(ObjectOf(r), BodyFields(r)) /\ BodyFields(r) \in Seq(Fields)
  BY BodyFoundIs DEF FieldGood
<1> QED BY <1>1, ContentFits

(* When encode_<Type> throws, the object has not the fields of the type.   *)
LEMMA FieldMissing ==
  ASSUME NEW object, object # Nothing, NEW fields \in Seq(Fields), NEW k \in 1 .. Len(fields),
         ~FieldGood(object, fields[k])
  PROVE  ~HasFields(object, fields)
<1>1. fields[k] \in ToSet(fields)
  BY LenProperties DEF ToSet
<1> QED BY <1>1 DEF HasFields, FieldGood

(* When it does not, it has them.                                          *)
LEMMA FieldsThere ==
  ASSUME NEW object, NEW fields \in Seq(Fields), FieldsGood(object, fields, Len(fields))
  PROVE  HasFields(object, fields) /\ (fields # <<>> => object # Nothing)
<1>1. DOMAIN fields = 1 .. Len(fields) /\ Len(fields) \in Nat /\ (fields # <<>> => 1 \in 1 .. Len(fields))
  BY LenProperties, EmptySeq
<1>2. ASSUME fields # <<>> PROVE object # Nothing
  BY <1>1, <1>2 DEF FieldsGood, FieldGood
<1> QED BY <1>1, <1>2 DEF HasFields, FieldsGood, FieldGood, ToSet

(* What the encoder has found of a message.                                *)
HeaderGood(r, j) == /\ HasObject(r.json, "V2G_Message") /\ exists(MessageOf(r), "Header")
                    /\ FieldsGood(HeaderOf(r), HeaderFields(r.ns), j)
HeaderDone(r)    == HeaderGood(r, Len(HeaderFields(r.ns)))
BodyGood(r, j)   == HeaderDone(r) /\ BodyFound(r) /\ FieldsGood(ObjectOf(r), BodyFields(r), j)
BodyDone(r)      == BodyGood(r, Len(BodyFields(r)))

MessageText(r)   == (((HeaderText \o TypeText(HeaderFields(r.ns))) \o <<",", "Body", "{", KeyOf(r)>>)
                      \o TypeText(BodyFields(r))) \o <<"}", "}", "}">>
MessageValues(r) == Contents(HeaderOf(r), HeaderFields(r.ns)) \o Contents(ObjectOf(r), BodyFields(r))

(* A request that encode has written says its message.                     *)
LEMMA EncodedIsSaid ==
  ASSUME NEW r \in Requests, r.ns \in V2GNamespaces, BodyDone(r)
  PROVE  SaidBy[r] = [text |-> MessageText(r), values |-> MessageValues(r)]
<1> DEFINE H == HeaderFields(r.ns)
           B == BodyFields(r)
<1>1. /\ HasObject(r.json, "V2G_Message") /\ exists(MessageOf(r), "Header") /\ BodyFound(r)
      /\ FieldsGood(HeaderOf(r), H, Len(H)) /\ FieldsGood(ObjectOf(r), B, Len(B))
  BY DEF BodyDone, BodyGood, HeaderDone, HeaderGood
<1>2. H \in Seq(Fields) /\ H # <<>> /\ B \in Seq(Fields)
  BY <1>1, HeaderIsAType, BodyFoundIs
<1> HIDE DEF H, B
<1>3. HasFields(HeaderOf(r), H) /\ HeaderOf(r) # Nothing
  BY <1>1, <1>2, FieldsThere
<1>4. HasObject(MessageOf(r), "Header")
  BY <1>1, <1>3, ObjectFound DEF HeaderOf, HasObject
<1>5. HasObject(MessageOf(r), "Body") /\ table(r.ns, KeyOf(r)) # {}
  BY <1>1, BodyFoundIs
<1>6. HasFields(ObjectOf(r), B) /\ (B # <<>> => ObjectOf(r) = BodyOf(r).content[KeyOf(r)])
  BY <1>1, <1>2, FieldsThere, BodyFoundIs
<1>7. /\ HasFields(BodyOf(r).content[KeyOf(r)], B)
      /\ Contents(BodyOf(r).content[KeyOf(r)], B) = Contents(ObjectOf(r), B)
  <2>1. CASE B = <<>>
    BY <2>1 DEF HasFields, Contents, ToSet
  <2>2. CASE B # <<>>
    BY <1>6, <2>2
  <2> QED BY <2>1, <2>2
<1>8. HeaderAllowed(r) /\ BodyAllowed(r)
  BY <1>1, <1>3, <1>4, <1>5, <1>7 DEF HeaderAllowed, BodyAllowed, H, B
<1> QED BY <1>7, <1>8, SaidIs DEF MessageText, MessageValues, B

(* A request that encode refuses says nothing, wherever it is refused.     *)
LEMMA RefusedSaysNothing ==
  ASSUME NEW r \in Requests, r.ns \in V2GNamespaces,
         \/ ~HasObject(r.json, "V2G_Message")
         \/ ~exists(MessageOf(r), "Header")
         \/ HeaderOf(r) # Nothing /\ \E k \in 1 .. Len(HeaderFields(r.ns)) : ~FieldGood(HeaderOf(r), HeaderFields(r.ns)[k])
         \/ ~exists(MessageOf(r), "Body")
         \/ table(r.ns, KeyOf(r)) = {}
         \/ /\ HasObject(r.json, "V2G_Message") /\ BodyFound(r) /\ ObjectOf(r) # Nothing
            /\ \E k \in 1 .. Len(BodyFields(r)) : ~FieldGood(ObjectOf(r), BodyFields(r)[k])
  PROVE  SaidBy[r] = SaysNothing
<1>1. ~(HeaderAllowed(r) /\ BodyAllowed(r))
  <2>1. ASSUME HeaderOf(r) # Nothing,
               \E k \in 1 .. Len(HeaderFields(r.ns)) : ~FieldGood(HeaderOf(r), HeaderFields(r.ns)[k])
        PROVE  ~HeaderAllowed(r)
    <3>1. ~HasFields(HeaderOf(r), HeaderFields(r.ns))
      BY <2>1, HeaderIsAType, FieldMissing
    <3> QED BY <3>1 DEF HeaderAllowed
  <2>2. ASSUME HasObject(r.json, "V2G_Message"), BodyFound(r), ObjectOf(r) # Nothing,
               \E k \in 1 .. Len(BodyFields(r)) : ~FieldGood(ObjectOf(r), BodyFields(r)[k])
        PROVE  ~BodyAllowed(r)
    <3>1. BodyFields(r) \in Seq(Fields) /\ ObjectOf(r) = BodyOf(r).content[KeyOf(r)]
      BY <2>2, BodyFoundIs
    <3>2. ~HasFields(ObjectOf(r), BodyFields(r))
      BY <2>2, <3>1, FieldMissing
    <3> QED BY <3>1, <3>2 DEF BodyAllowed
  <2>3. (~HasObject(r.json, "V2G_Message") \/ ~exists(MessageOf(r), "Header")) => ~HeaderAllowed(r)
    BY DEF HeaderAllowed, HasObject
  <2>4. (~exists(MessageOf(r), "Body") \/ table(r.ns, KeyOf(r)) = {}) => ~BodyAllowed(r)
    BY DEF BodyAllowed, HasObject
  <2> QED BY <2>1, <2>2, <2>3, <2>4
<1> QED BY <1>1, SaidIs

(* The same of a message of the app protocol.                              *)
AppKeyOf(r)    == get_next_key_name(r.json)
AppObjectOf(r) == get_object(r.json, AppKeyOf(r))
AppFields(r)   == FieldsOf("app_protocol", AppKeyOf(r) \o "Type")
AppPlaceOf(r)  == CHOOSE i \in DOMAIN AppMessages : AppMessages[i] = AppKeyOf(r)
AppFound(r)    == AppKeyOf(r) \in ToSet(AppMessages)
AppGood(r, j)  == AppFound(r) /\ FieldsGood(AppObjectOf(r), AppFields(r), j)
AppDone(r)     == AppGood(r, Len(AppFields(r)))
AppText(r)     == (<<"{", AppKeyOf(r)>> \o TypeText(AppFields(r))) \o <<"}">>
AppValues(r)   == Contents(AppObjectOf(r), AppFields(r))

(* The two messages.                                                       *)
LEMMA AppPlaces ==
  ASSUME NEW r, AppFound(r)
  PROVE  /\ AppPlaceOf(r) \in {1, 2} /\ AppPlaceOf(r) \in DOMAIN AppMessages /\ AppMessages[AppPlaceOf(r)] = AppKeyOf(r)
         /\ \A i \in DOMAIN AppMessages : AppMessages[i] = AppKeyOf(r) => i = AppPlaceOf(r)
<1>1. DOMAIN AppMessages = {1, 2} /\ AppMessages[1] = "supportedAppProtocolReq"
      /\ AppMessages[2] = "supportedAppProtocolRes"
  BY DEF AppMessages
<1>2. \E i \in DOMAIN AppMessages : AppMessages[i] = AppKeyOf(r)
  BY DEF AppFound, ToSet
<1>3. AppPlaceOf(r) \in DOMAIN AppMessages /\ AppMessages[AppPlaceOf(r)] = AppKeyOf(r)
  BY <1>2 DEF AppPlaceOf
<1>4. "supportedAppProtocolReq" # "supportedAppProtocolRes"
  OBVIOUS
<1> QED BY <1>1, <1>3, <1>4

(* A message of the app protocol that was found has a type, and values     *)
(* that fit.                                                               *)
LEMMA AppFoundIs ==
  ASSUME NEW r \in Requests, r.ns = "app_protocol", AppFound(r)
  PROVE  /\ AppFields(r) \in Seq(Fields)
         /\ AppObjectOf(r) # Nothing =>
              AppObjectOf(r) = r.json.content[AppKeyOf(r)] /\ FieldsFit(AppObjectOf(r), AppFields(r))
<1>1. AppFits(r.json)
  BY RequestsAssumption
<1>2. DOMAIN r.json.content = {AppKeyOf(r)}
  BY <1>1, OnlyKey DEF AppFits, AppKeyOf
<1>3. AppFields(r) \in Seq(Fields)
  BY FieldsAssumption DEF AppFields, AppFound
<1>4. ASSUME AppObjectOf(r) # Nothing
      PROVE  AppObjectOf(r) = r.json.content[AppKeyOf(r)] /\ FieldsFit(AppObjectOf(r), AppFields(r))
  <2>1. r.json.content[AppKeyOf(r)].class = "JObject" /\ AppObjectOf(r) = r.json.content[AppKeyOf(r)]
    BY <1>4, ObjectFound DEF AppObjectOf
  <2>2. HasObject(r.json, AppKeyOf(r))
    BY <1>2, <2>1 DEF HasObject, exists
  <2> QED BY <1>1, <2>1, <2>2 DEF AppFits, AppFound, AppFields
<1> QED BY <1>3, <1>4

(* They fit their fields.                                                  *)
LEMMA AppValueFits ==
  ASSUME NEW r \in Requests, r.ns = "app_protocol", AppFound(r), NEW k \in 1 .. Len(AppFields(r)),
         FieldGood(AppObjectOf(r), AppFields(r)[k])
  PROVE  Content(AppObjectOf(r), AppFields(r)[k]) \in Numbers
<1>1. FieldsFit(AppObjectOf(r), AppFields(r)) /\ AppFields(r) \in Seq(Fields)
  BY AppFoundIs DEF FieldGood
<1> QED BY <1>1, ContentFits

(* What a request of the app protocol says.                                *)
LEMMA AppSaidIs ==
  ASSUME NEW r \in Requests, r.ns = "app_protocol"
  PROVE  SaidBy[r] = IF AppFound(r) /\ HasFields(r.json.content[AppKeyOf(r)], AppFields(r))
                     THEN [text |-> AppText(r), values |-> Contents(r.json.content[AppKeyOf(r)], AppFields(r))]
                     ELSE SaysNothing
<1>1. AppFits(r.json)
  BY RequestsAssumption
<1>2. DOMAIN r.json.content = {AppKeyOf(r)}
  BY <1>1, OnlyKey DEF AppFits, AppKeyOf
<1>3. TheOnly(DOMAIN r.json.content) = AppKeyOf(r)
  BY <1>2 DEF TheOnly
<1>4. SaidBy[r] = SaidByApp(r.json)
  BY DEF SaidBy
<1> QED BY <1>3, <1>4 DEF SaidByApp, AppFound, AppFields, AppText

(* A request of the app protocol that encode has written says its message. *)
LEMMA AppEncodedIsSaid ==
  ASSUME NEW r \in Requests, r.ns = "app_protocol", AppDone(r)
  PROVE  SaidBy[r] = [text |-> AppText(r), values |-> AppValues(r)]
<1> DEFINE F == AppFields(r)
           o == r.json.content[AppKeyOf(r)]
<1>1. AppFound(r) /\ FieldsGood(AppObjectOf(r), F, Len(F))
  BY DEF AppDone, AppGood
<1>2. F \in Seq(Fields) /\ (AppObjectOf(r) # Nothing => AppObjectOf(r) = o)
  BY <1>1, AppFoundIs
<1> HIDE DEF F
<1>3. HasFields(AppObjectOf(r), F) /\ (F # <<>> => AppObjectOf(r) = o)
  BY <1>1, <1>2, FieldsThere
<1>4. HasFields(o, F) /\ Contents(o, F) = Contents(AppObjectOf(r), F)
  <2>1. CASE F = <<>>
    BY <2>1 DEF HasFields, Contents, ToSet
  <2>2. CASE F # <<>>
    BY <1>3, <2>2
  <2> QED BY <2>1, <2>2
<1> QED BY <1>1, <1>4, AppSaidIs DEF AppValues, F

(* One that encode refuses says nothing.                                   *)
LEMMA AppRefusedSaysNothing ==
  ASSUME NEW r \in Requests, r.ns = "app_protocol",
         \/ ~AppFound(r)
         \/ /\ AppFound(r) /\ AppObjectOf(r) # Nothing
            /\ \E k \in 1 .. Len(AppFields(r)) : ~FieldGood(AppObjectOf(r), AppFields(r)[k])
  PROVE  SaidBy[r] = SaysNothing
<1>1. ASSUME AppFound(r), AppObjectOf(r) # Nothing,
             \E k \in 1 .. Len(AppFields(r)) : ~FieldGood(AppObjectOf(r), AppFields(r)[k])
      PROVE  ~HasFields(r.json.content[AppKeyOf(r)], AppFields(r))
  <2>1. AppFields(r) \in Seq(Fields) /\ AppObjectOf(r) = r.json.content[AppKeyOf(r)]
    BY <1>1, AppFoundIs
  <2>2. ~HasFields(AppObjectOf(r), AppFields(r))
    BY <1>1, <2>1, FieldMissing
  <2> QED BY <2>1, <2>2
<1> QED BY <1>1, AppSaidIs

(* Nothing is said under an unknown namespace.                             *)
LEMMA UnknownSaysNothing ==
  ASSUME NEW r \in Requests, r.ns = "unknown"
  PROVE  SaidBy[r] = SaysNothing
  BY DEF SaidBy

(***************************************************************************)
(* The fields of a request, in the order in which they are written.        *)
(***************************************************************************)
V2GScript(r) ==
  LET L == Len(HeaderFields(r.ns))
      B == Len(BodyFields(r))
  IN  [k \in Nat |->
         IF k = 1 THEN Number(128, 8)
         ELSE IF k = 2 THEN Number(message_id(r.ns), 7)
         ELSE IF k = 3 THEN Number(0, 1)
         ELSE IF k <= 3 + L THEN Content(HeaderOf(r), HeaderFields(r.ns)[k - 3])
         ELSE IF k = 4 + L THEN Number(0, 1)
         ELSE IF k = 5 + L THEN Number(PlaceOf(r) - 1, 6)
         ELSE IF k <= 5 + L + B THEN Content(ObjectOf(r), BodyFields(r)[k - (5 + L)])
         ELSE Number(0, 1)]

AppScript(r) ==
  [k \in Nat |-> IF k = 1 THEN Number(128, 8)
                 ELSE IF k = 2 THEN Number(AppPlaceOf(r) - 1, 2)
                 ELSE Content(AppObjectOf(r), AppFields(r)[k - 2])]

Script(r)   == IF r.ns \in V2GNamespaces THEN V2GScript(r) ELSE AppScript(r)
First(s, m) == [k \in 1 .. m |-> s[k]]

HeaderEnd(r) == 3 + Len(HeaderFields(r.ns))
BodyStart(r) == 5 + Len(HeaderFields(r.ns))
BodyEnd(r)   == BodyStart(r) + Len(BodyFields(r))

(* The fields of a V2G message by their places.                            *)
LEMMA V2GScriptIs ==
  ASSUME NEW r, r.ns \in V2GNamespaces
  PROVE  /\ Len(HeaderFields(r.ns)) \in Nat /\ Len(HeaderFields(r.ns)) > 0
         /\ Script(r)[1] = Number(128, 8) /\ Script(r)[2] = Number(message_id(r.ns), 7)
         /\ Script(r)[3] = Number(0, 1)
         /\ \A k \in 1 .. Len(HeaderFields(r.ns)) : Script(r)[3 + k] = Content(HeaderOf(r), HeaderFields(r.ns)[k])
         /\ Script(r)[HeaderEnd(r) + 1] = Number(0, 1) /\ Script(r)[HeaderEnd(r) + 2] = Number(PlaceOf(r) - 1, 6)
         /\ Len(BodyFields(r)) \in Nat =>
              /\ \A k \in 1 .. Len(BodyFields(r)) :
                   Script(r)[BodyStart(r) + k] = Content(ObjectOf(r), BodyFields(r)[k])
              /\ Script(r)[BodyEnd(r) + 1] = Number(0, 1) /\ Script(r)[BodyEnd(r) + 2] = Number(0, 1)
<1> DEFINE L == Len(HeaderFields(r.ns))
           B == Len(BodyFields(r))
           S == V2GScript(r)
<1>1. L \in Nat /\ L > 0
  BY HeaderIsAType, LenProperties, EmptySeq
<1>2. Script(r) = S
  BY DEF Script
<1>3. ASSUME NEW k \in Nat
      PROVE  S[k] = IF k = 1 THEN Number(128, 8)
                    ELSE IF k = 2 THEN Number(message_id(r.ns), 7)
                    ELSE IF k = 3 THEN Number(0, 1)
                    ELSE IF k <= 3 + L THEN Content(HeaderOf(r), HeaderFields(r.ns)[k - 3])
                    ELSE IF k = 4 + L THEN Number(0, 1)
                    ELSE IF k = 5 + L THEN Number(PlaceOf(r) - 1, 6)
                    ELSE IF k <= 5 + L + B THEN Content(ObjectOf(r), BodyFields(r)[k - (5 + L)])
                    ELSE Number(0, 1)
  BY DEF V2GScript
<1> HIDE DEF L, B, S
<1>4. S[1] = Number(128, 8) /\ S[2] = Number(message_id(r.ns), 7) /\ S[3] = Number(0, 1)
  BY <1>3
<1>5. ASSUME NEW k \in 1 .. L PROVE S[3 + k] = Content(HeaderOf(r), HeaderFields(r.ns)[k])
  <2>1. 3 + k \in Nat /\ 3 + k # 1 /\ 3 + k # 2 /\ 3 + k # 3 /\ 3 + k <= 3 + L /\ (3 + k) - 3 = k
    BY <1>1
  <2> QED BY <1>3, <2>1
<1>6. S[4 + L] = Number(0, 1) /\ S[5 + L] = Number(PlaceOf(r) - 1, 6)
  <2>1. /\ 4 + L \in Nat /\ 4 + L # 1 /\ 4 + L # 2 /\ 4 + L # 3 /\ ~(4 + L <= 3 + L)
        /\ 5 + L \in Nat /\ 5 + L # 1 /\ 5 + L # 2 /\ 5 + L # 3 /\ ~(5 + L <= 3 + L) /\ 5 + L # 4 + L
    BY <1>1
  <2>2. S[4 + L] = Number(0, 1)
    BY <1>3, <2>1
  <2>3. S[5 + L] = Number(PlaceOf(r) - 1, 6)
    BY <1>3, <2>1
  <2> QED BY <2>2, <2>3
<1>7. ASSUME B \in Nat, NEW k \in 1 .. B PROVE S[(5 + L) + k] = Content(ObjectOf(r), BodyFields(r)[k])
  <2> DEFINE i == (5 + L) + k
  <2>1. /\ i \in Nat /\ i # 1 /\ i # 2 /\ i # 3 /\ ~(i <= 3 + L) /\ i # 4 + L /\ i # 5 + L /\ i <= 5 + L + B
        /\ i - (5 + L) = k
    BY <1>1, <1>7
  <2> HIDE DEF i
  <2>2. S[i] = Content(ObjectOf(r), BodyFields(r)[k])
    BY <1>3, <2>1
  <2> QED BY <2>2 DEF i
<1>8. ASSUME B \in Nat, NEW c \in 1 .. 2 PROVE S[((5 + L) + B) + c] = Number(0, 1)
  <2> DEFINE i == ((5 + L) + B) + c
  <2>1. i \in Nat /\ i # 1 /\ i # 2 /\ i # 3 /\ ~(i <= 3 + L) /\ i # 4 + L /\ i # 5 + L /\ ~(i <= 5 + L + B)
    BY <1>1, <1>8
  <2> HIDE DEF i
  <2>2. S[i] = Number(0, 1)
    BY <1>3, <2>1
  <2> QED BY <2>2 DEF i
<1>9. HeaderEnd(r) + 1 = 4 + L /\ HeaderEnd(r) + 2 = 5 + L /\ BodyStart(r) = 5 + L /\ BodyEnd(r) = (5 + L) + B
  BY <1>1 DEF HeaderEnd, BodyStart, BodyEnd, L, B
<1> QED BY <1>1, <1>2, <1>4, <1>5, <1>6, <1>7, <1>8, <1>9 DEF L, B

(* The fields of a message of the app protocol by their places.            *)
LEMMA AppScriptIs ==
  ASSUME NEW r, r.ns \notin V2GNamespaces
  PROVE  /\ Script(r)[1] = Number(128, 8) /\ Script(r)[2] = Number(AppPlaceOf(r) - 1, 2)
         /\ \A k \in Nat : k >= 1 => Script(r)[2 + k] = Content(AppObjectOf(r), AppFields(r)[k])
<1>1. ASSUME NEW k \in Nat
      PROVE  Script(r)[k] = IF k = 1 THEN Number(128, 8)
                            ELSE IF k = 2 THEN Number(AppPlaceOf(r) - 1, 2)
                            ELSE Content(AppObjectOf(r), AppFields(r)[k - 2])
  BY DEF Script, AppScript
<1>2. ASSUME NEW k \in Nat, k >= 1 PROVE Script(r)[2 + k] = Content(AppObjectOf(r), AppFields(r)[k])
  <2>1. 2 + k \in Nat /\ 2 + k # 1 /\ 2 + k # 2 /\ (2 + k) - 2 = k
    BY <1>2
  <2> QED BY <1>1, <2>1
<1> QED BY <1>1, <1>2

(* The first of its fields, one more of them.                              *)
LEMMA FirstGrows ==
  ASSUME NEW S, NEW m \in Nat, NEW T, First(S, m) \in Seq(T), S[m + 1] \in T
  PROVE  Append(First(S, m), S[m + 1]) = First(S, m + 1)
<1> DEFINE a == First(S, m)
           b == First(S, m + 1)
           c == Append(a, S[m + 1])
<1>1. Len(a) = m /\ \A k \in 1 .. m : a[k] = S[k]
  BY DEF First
<1>2. c \in Seq(T) /\ Len(c) = m + 1 /\ c[m + 1] = S[m + 1] /\ \A k \in 1 .. m : c[k] = a[k]
  <2>1. a \in Seq(T)
    OBVIOUS
  <2> HIDE DEF a
  <2> QED BY <1>1, <2>1, AppendProperties
<1>3. b = [k \in 1 .. m + 1 |-> S[k]]
  BY DEF First
<1>4. ASSUME NEW k \in 1 .. m + 1 PROVE c[k] = S[k]
  <2>1. k \in 1 .. m \/ k = m + 1
    OBVIOUS
  <2> HIDE DEF a, c
  <2> QED BY <1>1, <1>2, <2>1
<1>5. c = [k \in 1 .. m + 1 |-> c[k]]
  <2> HIDE DEF c
  <2>1. DOMAIN c = 1 .. m + 1
    BY <1>2, LenProperties
  <2> QED BY <1>2, <2>1
<1> HIDE DEF c
<1>6. c = b
  BY <1>3, <1>4, <1>5
<1> QED BY <1>6 DEF c

(***************************************************************************)
(* The encoder.                                                            *)
(***************************************************************************)
(* What any state of the program leaves to the operations of the streams.  *)
StreamsOK ==
  /\ num_bits # 0 => bit_counter <= num_bits /\ Len(values) <= bit_counter
  /\ last_command \in Text!Commands
  /\ Stream!TypeOK

(* encode has thrown, or decode: what they were called with may say so.     *)
Thrown(r, s) ==
  /\ request = r /\ ns = s /\ side = "thrown" /\ code = <<>>
  /\ StreamsOK /\ fetch = Stream!NoFetch
  /\ SaidBy[r] = SaysNothing \/ s # r.ns

(* encode has written m fields of the request, and has still to run c.      *)
Encodes(r, s, m, c) ==
  /\ request = r /\ ns = s /\ side = "encoder" /\ code = c
  /\ Wrote(First(Script(r), m))
  /\ output_data = <<>> /\ last_command = "nocmd" /\ values = <<>>

(* The encoder leaves the streams as their operations expect them.         *)
LEMMA EncodesOK ==
  ASSUME NEW r, NEW s, NEW m, NEW c, Encodes(r, s, m, c)
  PROVE  StreamsOK
<1>1. /\ num_bits = 0 /\ fetch = Stream!NoFetch /\ exi_data \in Seq(Bytes!Byte) /\ bit_counter \in Nat
      /\ last_command = "nocmd"
  BY DEF Encodes, Wrote
<1>2. exi_data \in Seq(Stream!Byte)
  BY <1>1, SameBits
<1>3. DOMAIN fetch = {"n", "taken", "buffer"} /\ fetch.n \in Nat /\ fetch.taken \in Nat
  BY <1>1 DEF Stream!NoFetch
<1>4. Stream!TypeOK
  BY <1>1, <1>2, <1>3 DEF Stream!TypeOK, Stream!NoBytes
<1> QED BY <1>1, <1>4 DEF StreamsOK, Text!Commands

(* Only the statements change, or encode throws.                           *)
LEMMA StreamsKept ==
  ASSUME StreamsOK, Elsewhere
  PROVE  StreamsOK'
  BY DEF StreamsOK, Elsewhere, Stream!TypeOK

(* encode throws for a request that says nothing.                          *)
LEMMA EncodesFails ==
  ASSUME NEW r, NEW s, NEW m, NEW c, Encodes(r, s, m, c), Fails, SaidBy[r] = SaysNothing
  PROVE  Thrown(r, s)'
<1>1. StreamsOK /\ Elsewhere /\ side' = "thrown" /\ code' = <<>>
  BY EncodesOK DEF Fails
<1>2. StreamsOK'
  BY <1>1, StreamsKept
<1>3. request' = r /\ ns' = s /\ fetch' = Stream!NoFetch
  BY <1>1 DEF Encodes, Wrote, Elsewhere
<1> QED BY <1>1, <1>2, <1>3 DEF Thrown, Stream!NoFetch

(* A step that leaves the stream alone leaves what was written.            *)
LEMMA WroteKept ==
  ASSUME NEW W, Wrote(W), Elsewhere
  PROVE  Wrote(W)'
<1>1. UNCHANGED <<exi_data, bit_counter, num_bits, fetch>>
  BY DEF Elsewhere
<1> QED BY <1>1 DEF Wrote, Bytes!BytesMatchBits, Bytes!PaddingIsZero, Bytes!BitAt, Stream!NoFetch

(* It goes on with other statements at the same field.                     *)
LEMMA EncodesOn ==
  ASSUME NEW r, NEW s, NEW m, NEW c, Encodes(r, s, m, c), NEW d, code' = d, side' = side, Elsewhere
  PROVE  Encodes(r, s, m, d)'
<1>1. Wrote(First(Script(r), m))'
  BY WroteKept DEF Encodes
<1>2. /\ request' = r /\ ns' = s /\ side' = "encoder"
      /\ output_data' = <<>> /\ last_command' = "nocmd" /\ values' = <<>>
  BY DEF Encodes, Elsewhere
<1> QED BY <1>1, <1>2 DEF Encodes

(* The statement the encoder runs is its first.                            *)
LEMMA EncodesRuns ==
  ASSUME NEW r, NEW s, NEW m, NEW a, NEW rest, IsSeq(rest), Encodes(r, s, m, Then(a, rest))
  PROVE  Running(a, rest) /\ request = r
  BY DEF Encodes, Wrote, Running

(* Adding the next field of the request writes one field more.             *)
LEMMA EncodesAdd ==
  ASSUME NEW r, NEW s, NEW m \in Nat, NEW v, NEW n, NEW rest, IsSeq(rest), Encodes(r, s, m, Then(Add(v, n), rest)),
         Script(r)[m + 1] = Number(v, n), Number(v, n) \in Numbers, Next
  PROVE  Encodes(r, s, m + 1, rest)'
<1>1. Running(Add(v, n), rest)
  BY EncodesRuns
<1>2. /\ Stream!add_max_8bits(ByteOf(v), n) /\ code' = rest /\ Same
      /\ UNCHANGED <<output_data, last_command, values>>
  BY <1>1, AddRuns
<1> DEFINE f == Number(v, n)
           W == First(Script(r), m)
<1>3. f \in Numbers /\ f.v = v /\ f.n = n
  BY DEF Number
<1>4. Wrote(W)
  BY DEF Encodes
<1>5. Wrote(Append(W, f))'
  <2> HIDE DEF f, W
  <2>1. Stream!add_max_8bits(ByteOf(f.v), f.n)
    BY <1>2, <1>3
  <2> QED BY <1>3, <1>4, <2>1, FieldAdded
<1>6. Append(W, f) = First(Script(r), m + 1)
  <2>1. W \in Seq(Numbers)
    BY <1>4 DEF Wrote
  <2> QED BY <2>1, FirstGrows
<1>7. Wrote(First(Script(r), m + 1))'
  <2> HIDE DEF f, W
  <2> QED BY <1>5, <1>6
<1>8. /\ request' = r /\ ns' = s /\ side' = "encoder"
      /\ output_data' = <<>> /\ last_command' = "nocmd" /\ values' = <<>>
  BY <1>2 DEF Encodes, Same
<1> QED BY <1>2, <1>7, <1>8 DEF Encodes

(* encode_<Type> before field j + 1, and with its value.                    *)
InFields(r, s, object, fields, b, tail, j) ==
  FieldsGood(object, fields, j) /\ Encodes(r, s, b + j, Writes(object, fields, j, tail))

AtField(r, s, object, fields, b, tail, j) ==
  /\ FieldsGood(object, fields, j + 1)
  /\ Encodes(r, s, b + j, Then(Add(object.content[fields[j + 1].name].content, fields[j + 1].n),
                               Writes(object, fields, j + 1, tail)))

(* The value of the next field is taken from the object, or the request    *)
(* refused.                                                                *)
LEMMA FieldTaken ==
  ASSUME NEW r, NEW s, NEW object, NEW fields \in Seq(Fields), NEW b, NEW tail, IsSeq(tail),
         NEW j \in 0 .. Len(fields) - 1, InFields(r, s, object, fields, b, tail, j), Next
  PROVE  \/ AtField(r, s, object, fields, b, tail, j)'
         \/ object # Nothing /\ ~FieldGood(object, fields[j + 1]) /\ Fails
<1> DEFINE f == fields[j + 1]
           rest == Writes(object, fields, j + 1, tail)
<1>1. j \in 0 .. Len(fields) /\ j + 1 \in 0 .. Len(fields) /\ j < Len(fields)
  BY LenProperties
<1>2. Writes(object, fields, j, tail) = Then(FieldCall(object, f), rest) /\ IsSeq(rest)
  <2>1. WritesOne(object, fields, j, tail)
    BY WritesOn
  <2> QED BY <2>1 DEF WritesOne
<1> HIDE DEF f, rest
<1>3. FieldsGood(object, fields, j) /\ Encodes(r, s, b + j, Then(FieldCall(object, f), rest))
  BY <1>2 DEF InFields
<1>4. Running(FieldCall(object, f), rest)
  BY <1>2, <1>3, EncodesRuns
<1>5. \/ /\ FieldGood(object, f) /\ side' = side /\ Elsewhere
         /\ code' = Then(Add(object.content[f.name].content, f.n), rest)
      \/ object # Nothing /\ ~FieldGood(object, f) /\ Fails
  BY <1>4, FieldRuns
<1>6. CASE object # Nothing /\ ~FieldGood(object, f) /\ Fails
  BY <1>6 DEF f
<1>7. CASE /\ FieldGood(object, f) /\ side' = side /\ Elsewhere
           /\ code' = Then(Add(object.content[f.name].content, f.n), rest)
  <2>1. FieldsGood(object, fields, j + 1)
    <3>1. \A k \in 1 .. j + 1 : k \in 1 .. j \/ k = j + 1
      BY <1>1
    <3> QED BY <1>3, <1>7, <3>1 DEF FieldsGood, f
  <2>2. Encodes(r, s, b + j, Then(Add(object.content[f.name].content, f.n), rest))'
    BY <1>3, <1>7, EncodesOn
  <2> QED BY <2>1, <2>2 DEF AtField, f, rest
<1> QED BY <1>5, <1>6, <1>7

(* It is written behind the others.                                        *)
LEMMA FieldWritten ==
  ASSUME NEW r, NEW s, NEW object, NEW fields \in Seq(Fields), NEW b \in Nat, NEW tail, IsSeq(tail),
         NEW j \in 0 .. Len(fields) - 1, AtField(r, s, object, fields, b, tail, j),
         Script(r)[b + (j + 1)] = Content(object, fields[j + 1]), Content(object, fields[j + 1]) \in Numbers, Next
  PROVE  InFields(r, s, object, fields, b, tail, j + 1)'
<1> DEFINE f == fields[j + 1]
           v == object.content[f.name].content
           rest == Writes(object, fields, j + 1, tail)
<1>1. j + 1 \in 0 .. Len(fields) /\ j \in Nat /\ b + j \in Nat /\ (b + j) + 1 = b + (j + 1)
  BY LenProperties
<1>2. IsSeq(rest)
  <2>1. WritesOne(object, fields, j, tail)
    BY WritesOn
  <2> QED BY <2>1 DEF WritesOne
<1>3. FieldsGood(object, fields, j + 1) /\ Encodes(r, s, b + j, Then(Add(v, f.n), rest))
  BY DEF AtField
<1>4. Script(r)[(b + j) + 1] = Number(v, f.n) /\ Number(v, f.n) \in Numbers
  BY <1>1 DEF Content
<1> HIDE DEF f, v, rest
<1>5. Encodes(r, s, (b + j) + 1, rest)'
  BY <1>1, <1>2, <1>3, <1>4, EncodesAdd
<1> QED BY <1>1, <1>3, <1>5 DEF InFields, rest

(* The numbers that are no field of a type.                                *)
LEMMA CodesFit ==
  /\ Number(128, 8) \in Numbers /\ Number(0, 1) \in Numbers
  /\ \A n : Number(message_id(n), 7) \in Numbers
  /\ \A i \in 1 .. 64 : Number(i - 1, 6) \in Numbers
  /\ \A i \in {1, 2} : Number(i - 1, 2) \in Numbers
<1>1. Number(128, 8) \in Numbers /\ Number(0, 1) \in Numbers
  BY NumberIn, Powers
<1>2. ASSUME NEW n PROVE Number(message_id(n), 7) \in Numbers
  <2>1. message_id(n) \in {76, 77}
    BY DEF message_id
  <2> QED BY <2>1, NumberIn, Powers
<1>3. ASSUME NEW i \in 1 .. 64 PROVE Number(i - 1, 6) \in Numbers
  <2>1. i - 1 \in Nat /\ i - 1 <= 63
    OBVIOUS
  <2> QED BY <2>1, NumberIn, Powers
<1>4. ASSUME NEW i \in {1, 2} PROVE Number(i - 1, 2) \in Numbers
  <2>1. i - 1 \in Nat /\ i - 1 <= 3
    OBVIOUS
  <2> QED BY <2>1, NumberIn, Powers
<1> QED BY <1>1, <1>2, <1>3, <1>4

(* Where the encoder is in a message of a V2G namespace.                   *)
HeaderThere(r) == HasObject(r.json, "V2G_Message") /\ exists(MessageOf(r), "Header")
HeaderAt(r, s, j) == InFields(r, s, HeaderOf(r), HeaderFields(r.ns), 3, BodyCalls, j)
HeaderIn(r, s, j) == AtField(r, s, HeaderOf(r), HeaderFields(r.ns), 3, BodyCalls, j)
BodyAt(r, s, j)   == InFields(r, s, ObjectOf(r), BodyFields(r), BodyStart(r), FinalCodesCalls, j)
BodyIn(r, s, j)   == AtField(r, s, ObjectOf(r), BodyFields(r), BodyStart(r), FinalCodesCalls, j)

Encoded(r, s) == BodyDone(r) /\ Encodes(r, s, BodyEnd(r) + 2, End)

V2GEncodes(r, s) ==
  \/ Encodes(r, s, 1, Then(Add(message_id(r.ns), 7), MessageCalls))
  \/ Encodes(r, s, 2, MessageCalls)
  \/ HasObject(r.json, "V2G_Message") /\ Encodes(r, s, 2, Then(add_event_code, Then(Do("header"), BodyCalls)))
  \/ HasObject(r.json, "V2G_Message") /\ Encodes(r, s, 3, Then(Do("header"), BodyCalls))
  \/ HeaderThere(r) /\ \E j \in 0 .. Len(HeaderFields(r.ns)) : HeaderAt(r, s, j)
  \/ HeaderThere(r) /\ \E j \in 0 .. Len(HeaderFields(r.ns)) - 1 : HeaderIn(r, s, j)
  \/ /\ HeaderDone(r)
     /\ Encodes(r, s, HeaderEnd(r) + 1, Then(Do("body"), Then(Do("encodeBody"), FinalCodesCalls)))
  \/ /\ HeaderDone(r) /\ exists(MessageOf(r), "Body")
     /\ Encodes(r, s, HeaderEnd(r) + 1, Then(Do("encodeBody"), FinalCodesCalls))
  \/ /\ HeaderDone(r) /\ BodyFound(r)
     /\ Encodes(r, s, HeaderEnd(r) + 1,
                Then(Add(PlaceOf(r) - 1, 6), Writes(ObjectOf(r), BodyFields(r), 0, FinalCodesCalls)))
  \/ HeaderDone(r) /\ BodyFound(r) /\ \E j \in 0 .. Len(BodyFields(r)) : BodyAt(r, s, j)
  \/ HeaderDone(r) /\ BodyFound(r) /\ \E j \in 0 .. Len(BodyFields(r)) - 1 : BodyIn(r, s, j)
  \/ BodyDone(r) /\ Encodes(r, s, BodyEnd(r) + 1, Then(add_event_code, End))
  \/ Encoded(r, s)

(* The steps of the message's beginning.                                   *)
LEMMA MessageBegins ==
  ASSUME NEW r \in Requests, r.ns \in V2GNamespaces, NEW s, Next,
         \/ Encodes(r, s, 1, Then(Add(message_id(r.ns), 7), MessageCalls))
         \/ Encodes(r, s, 2, MessageCalls)
         \/ HasObject(r.json, "V2G_Message") /\ Encodes(r, s, 2, Then(add_event_code, Then(Do("header"), BodyCalls)))
         \/ HasObject(r.json, "V2G_Message") /\ Encodes(r, s, 3, Then(Do("header"), BodyCalls))
  PROVE  V2GEncodes(r, s)' \/ Thrown(r, s)'
<1> DEFINE calls == Then(Do("header"), BodyCalls)
           more  == Then(add_event_code, calls)
<1>0. IsSeq(MessageCalls) /\ IsSeq(BodyCalls) /\ IsSeq(calls) /\ IsSeq(more)
  BY Parts, Statements
<1>1. CASE Encodes(r, s, 1, Then(Add(message_id(r.ns), 7), MessageCalls))
  <2>1. Script(r)[2] = Number(message_id(r.ns), 7)
    BY V2GScriptIs
  <2>2. Number(message_id(r.ns), 7) \in Numbers
    BY CodesFit
  <2>3. 1 \in Nat /\ 1 + 1 = 2
    OBVIOUS
  <2>4. Encodes(r, s, 1 + 1, MessageCalls)'
    BY <1>0, <1>1, <2>1, <2>2, <2>3, EncodesAdd
  <2>5. Encodes(r, s, 2, MessageCalls)'
    BY <2>3, <2>4, Zenon
  <2> QED BY <2>5 DEF V2GEncodes
<1>2. CASE Encodes(r, s, 2, MessageCalls)
  <2>1. Encodes(r, s, 2, Then(Do("to_object"), more))
    BY <1>2 DEF MessageCalls
  <2> HIDE DEF more
  <2>2. Running(Do("to_object"), more) /\ request = r
    BY <1>0, <2>1, EncodesRuns
  <2>3. \/ HasObject(r.json, "V2G_Message") /\ code' = more /\ side' = side /\ Elsewhere
        \/ ~HasObject(r.json, "V2G_Message") /\ Fails
    BY <2>2, ToObjectRuns
  <2>4. CASE HasObject(r.json, "V2G_Message") /\ code' = more /\ side' = side /\ Elsewhere
    <3>1. Encodes(r, s, 2, more)'
      BY <2>1, <2>4, EncodesOn
    <3> QED BY <2>4, <3>1 DEF V2GEncodes, more
  <2>5. CASE ~HasObject(r.json, "V2G_Message") /\ Fails
    <3>1. SaidBy[r] = SaysNothing
      BY <2>5, RefusedSaysNothing
    <3> QED BY <2>1, <2>5, <3>1, EncodesFails
  <2> QED BY <2>3, <2>4, <2>5
<1>3. CASE HasObject(r.json, "V2G_Message") /\ Encodes(r, s, 2, more)
  <2> HIDE DEF calls
  <2>1. Script(r)[3] = Number(0, 1)
    BY V2GScriptIs
  <2>2. Number(0, 1) \in Numbers
    BY CodesFit
  <2>3. 2 \in Nat /\ 2 + 1 = 3
    OBVIOUS
  <2>4. Encodes(r, s, 2, Then(Add(0, 1), calls))
    BY <1>3 DEF add_event_code
  <2>5. Encodes(r, s, 2 + 1, calls)'
    BY <1>0, <2>1, <2>2, <2>3, <2>4, EncodesAdd
  <2>6. Encodes(r, s, 3, calls)'
    BY <2>3, <2>5, Zenon
  <2> QED BY <1>3, <2>6 DEF V2GEncodes, calls
<1>4. CASE HasObject(r.json, "V2G_Message") /\ Encodes(r, s, 3, calls)
  <2>1. Running(Do("header"), BodyCalls) /\ request = r
    BY <1>0, <1>4, EncodesRuns
  <2>2. \/ /\ exists(MessageOf(r), "Header") /\ side' = side /\ Elsewhere
           /\ code' = FieldCalls(HeaderOf(r), HeaderFields(r.ns)) \o BodyCalls
        \/ ~exists(MessageOf(r), "Header") /\ Fails
    BY <2>1, HeaderRuns DEF v2g, MessageOf, HeaderOf
  <2>3. CASE /\ exists(MessageOf(r), "Header") /\ side' = side /\ Elsewhere
             /\ code' = FieldCalls(HeaderOf(r), HeaderFields(r.ns)) \o BodyCalls
    <3>1. WritesNone(HeaderOf(r), HeaderFields(r.ns), BodyCalls)
      BY <1>0, HeaderIsAType, WritesOn
    <3>2. code' = Writes(HeaderOf(r), HeaderFields(r.ns), 0, BodyCalls)
      BY <2>3, <3>1 DEF WritesNone
    <3>3. Encodes(r, s, 3, Writes(HeaderOf(r), HeaderFields(r.ns), 0, BodyCalls))'
      BY <1>4, <2>3, <3>2, EncodesOn
    <3>4. HeaderAt(r, s, 0)' /\ 0 \in 0 .. Len(HeaderFields(r.ns))
      <4>1. 3 + 0 = 3 /\ 0 \in 0 .. Len(HeaderFields(r.ns)) /\ FieldsGood(HeaderOf(r), HeaderFields(r.ns), 0)
        BY V2GScriptIs DEF FieldsGood
      <4> QED BY <3>3, <4>1 DEF HeaderAt, InFields
    <3> QED BY <1>4, <2>3, <3>4 DEF V2GEncodes, HeaderThere
  <2>4. CASE ~exists(MessageOf(r), "Header") /\ Fails
    <3>1. SaidBy[r] = SaysNothing
      BY <2>4, RefusedSaysNothing
    <3> QED BY <1>4, <2>4, <3>1, EncodesFails
  <2> QED BY <2>2, <2>3, <2>4
<1> QED BY <1>1, <1>2, <1>3, <1>4

(* Its header.                                                             *)
LEMMA HeaderIsWritten ==
  ASSUME NEW r \in Requests, r.ns \in V2GNamespaces, NEW s, Next, HeaderThere(r),
         \/ \E j \in 0 .. Len(HeaderFields(r.ns)) : HeaderAt(r, s, j)
         \/ \E j \in 0 .. Len(HeaderFields(r.ns)) - 1 : HeaderIn(r, s, j)
  PROVE  V2GEncodes(r, s)' \/ Thrown(r, s)'
<1> DEFINE F == HeaderFields(r.ns)
           o == HeaderOf(r)
           tail == Then(Do("body"), Then(Do("encodeBody"), FinalCodesCalls))
<1>0. F \in Seq(Fields) /\ Len(F) \in Nat /\ IsSeq(BodyCalls) /\ IsSeq(tail) /\ BodyCalls = Then(Add(0, 1), tail)
  BY HeaderIsAType, V2GScriptIs, Parts, Statements DEF BodyCalls, add_event_code
<1>1. ASSUME NEW j \in 0 .. Len(F) - 1, HeaderAt(r, s, j) PROVE V2GEncodes(r, s)' \/ Thrown(r, s)'
  <2>1. InFields(r, s, o, F, 3, BodyCalls, j)
    BY <1>1 DEF HeaderAt
  <2>2. \/ AtField(r, s, o, F, 3, BodyCalls, j)'
        \/ o # Nothing /\ ~FieldGood(o, F[j + 1]) /\ Fails
    <3> HIDE DEF F, o
    <3> QED BY <1>0, <2>1, FieldTaken
  <2>3. CASE AtField(r, s, o, F, 3, BodyCalls, j)'
    BY <2>3 DEF V2GEncodes, HeaderIn
  <2>4. CASE o # Nothing /\ ~FieldGood(o, F[j + 1]) /\ Fails
    <3>1. j + 1 \in 1 .. Len(F)
      BY <1>0
    <3>2. SaidBy[r] = SaysNothing
      BY <2>4, <3>1, RefusedSaysNothing
    <3>3. Encodes(r, s, 3 + j, Writes(o, F, j, BodyCalls))
      BY <2>1 DEF InFields
    <3> HIDE DEF F, o
    <3> QED BY <2>4, <3>2, <3>3, EncodesFails
  <2> QED BY <2>2, <2>3, <2>4
<1>2. ASSUME NEW j \in 0 .. Len(F) - 1, HeaderIn(r, s, j) PROVE V2GEncodes(r, s)'
  <2>1. AtField(r, s, o, F, 3, BodyCalls, j)
    BY <1>2 DEF HeaderIn
  <2>2. j + 1 \in 1 .. Len(F) /\ FieldGood(o, F[j + 1])
    BY <1>0, <2>1 DEF AtField, FieldsGood
  <2>3. Content(o, F[j + 1]) \in Numbers /\ Script(r)[3 + (j + 1)] = Content(o, F[j + 1])
    BY <2>2, HeaderFits, V2GScriptIs DEF HeaderThere
  <2>4. InFields(r, s, o, F, 3, BodyCalls, j + 1)'
    <3> HIDE DEF F, o
    <3> QED BY <1>0, <2>1, <2>3, FieldWritten
  <2>5. HeaderAt(r, s, j + 1)' /\ j + 1 \in 0 .. Len(F)
    BY <1>0, <2>4 DEF HeaderAt
  <2> QED BY <2>5 DEF V2GEncodes
<1>3. ASSUME HeaderAt(r, s, Len(F)) PROVE V2GEncodes(r, s)'
  <2>1. InFields(r, s, o, F, 3, BodyCalls, Len(F))
    BY <1>3 DEF HeaderAt
  <2>2. FieldsGood(o, F, Len(F)) /\ Encodes(r, s, HeaderEnd(r), Then(Add(0, 1), tail))
    <3>1. WritesNone(o, F, BodyCalls)
      <4> HIDE DEF F, o
      <4> QED BY <1>0, WritesOn
    <3> QED BY <1>0, <2>1, <3>1 DEF InFields, WritesNone, HeaderEnd
  <2>3. HeaderDone(r)
    BY <2>2 DEF HeaderDone, HeaderGood, HeaderThere
  <2>4. HeaderEnd(r) \in Nat /\ Script(r)[HeaderEnd(r) + 1] = Number(0, 1) /\ Number(0, 1) \in Numbers
    <3>1. HeaderEnd(r) \in Nat
      BY <1>0 DEF HeaderEnd
    <3>2. Script(r)[HeaderEnd(r) + 1] = Number(0, 1)
      BY V2GScriptIs
    <3> QED BY <3>1, <3>2, CodesFit
  <2>5. Encodes(r, s, HeaderEnd(r) + 1, tail)'
    <3> HIDE DEF tail
    <3> QED BY <1>0, <2>2, <2>4, EncodesAdd
  <2> QED BY <2>3, <2>5 DEF V2GEncodes
<1>4. \A j \in 0 .. Len(F) : j \in 0 .. Len(F) - 1 \/ j = Len(F)
  BY <1>0
<1> QED BY <1>1, <1>2, <1>3, <1>4

(* encodeBody finds the message.                                           *)
LEMMA BodyBegins ==
  ASSUME NEW r \in Requests, r.ns \in V2GNamespaces, NEW s, Next, HeaderDone(r),
         \/ Encodes(r, s, HeaderEnd(r) + 1, Then(Do("body"), Then(Do("encodeBody"), FinalCodesCalls)))
         \/ /\ exists(MessageOf(r), "Body")
            /\ Encodes(r, s, HeaderEnd(r) + 1, Then(Do("encodeBody"), FinalCodesCalls))
         \/ /\ BodyFound(r)
            /\ Encodes(r, s, HeaderEnd(r) + 1,
                       Then(Add(PlaceOf(r) - 1, 6), Writes(ObjectOf(r), BodyFields(r), 0, FinalCodesCalls)))
  PROVE  V2GEncodes(r, s)' \/ Thrown(r, s)'
<1> DEFINE m == HeaderEnd(r) + 1
           tail == Then(Do("encodeBody"), FinalCodesCalls)
           F == BodyFields(r)
           o == ObjectOf(r)
           i == PlaceOf(r)
<1>0. IsSeq(FinalCodesCalls) /\ IsSeq(tail) /\ HasObject(r.json, "V2G_Message") /\ m \in Nat /\ m + 1 = BodyStart(r)
      /\ m + 1 = HeaderEnd(r) + 2
  <2>1. m \in Nat /\ m + 1 = BodyStart(r) /\ m + 1 = HeaderEnd(r) + 2
    BY V2GScriptIs DEF HeaderEnd, BodyStart
  <2>2. HasObject(r.json, "V2G_Message")
    BY DEF HeaderDone, HeaderGood
  <2> QED BY <2>1, <2>2, Parts, Statements
<1>1. CASE Encodes(r, s, m, Then(Do("body"), tail))
  <2>1. Running(Do("body"), tail) /\ request = r
    <3> HIDE DEF m, tail
    <3> QED BY <1>0, <1>1, EncodesRuns
  <2>2. \/ exists(MessageOf(r), "Body") /\ code' = tail /\ side' = side /\ Elsewhere
        \/ ~exists(MessageOf(r), "Body") /\ Fails
    BY <2>1, BodyRuns DEF v2g, MessageOf
  <2>3. CASE exists(MessageOf(r), "Body") /\ code' = tail /\ side' = side /\ Elsewhere
    <3>1. Encodes(r, s, m, tail)'
      <4> HIDE DEF m, tail
      <4> QED BY <1>1, <2>3, EncodesOn
    <3> QED BY <2>3, <3>1 DEF V2GEncodes
  <2>4. CASE ~exists(MessageOf(r), "Body") /\ Fails
    <3>1. SaidBy[r] = SaysNothing
      BY <2>4, RefusedSaysNothing
    <3> HIDE DEF m, tail
    <3> QED BY <1>1, <2>4, <3>1, EncodesFails
  <2> QED BY <2>2, <2>3, <2>4
<1>2. CASE exists(MessageOf(r), "Body") /\ Encodes(r, s, m, tail)
  <2>1. Running(Do("encodeBody"), FinalCodesCalls) /\ request = r
    <3> HIDE DEF m
    <3> QED BY <1>0, <1>2, EncodesRuns
  <2>2. body = BodyOf(r) /\ get_next_key_name(body) = KeyOf(r) /\ get_object(body, get_next_key_name(body)) = o
    BY <2>1 DEF body, v2g, BodyOf, MessageOf, KeyOf, ObjectOf
  <2>3. /\ BodyOf(r) # Nothing
        /\ \/ table(r.ns, KeyOf(r)) = {} /\ Fails
           \/ \E k \in table(r.ns, KeyOf(r)) :
                /\ side' = side /\ Elsewhere
                /\ code' = (<<Add(k - 1, 6)>> \o FieldCalls(o, FieldsOf(r.ns, elements[r.ns][k].type))) \o FinalCodesCalls
    <3> HIDE DEF o
    <3> QED BY <2>1, <2>2, EncodeBodyRuns
  <2>4. CASE table(r.ns, KeyOf(r)) = {} /\ Fails
    <3>1. SaidBy[r] = SaysNothing
      BY <2>4, RefusedSaysNothing
    <3> HIDE DEF m, tail
    <3> QED BY <1>2, <2>4, <3>1, EncodesFails
  <2>5. ASSUME NEW k \in table(r.ns, KeyOf(r)), side' = side, Elsewhere,
               code' = (<<Add(k - 1, 6)>> \o FieldCalls(o, FieldsOf(r.ns, elements[r.ns][k].type))) \o FinalCodesCalls
        PROVE  V2GEncodes(r, s)'
    <3>1. BodyFound(r)
      BY <1>2, <2>3, <2>5 DEF BodyFound
    <3>2. table(r.ns, KeyOf(r)) = {i} /\ F \in Seq(Fields)
      BY <1>0, <3>1, BodyFoundIs
    <3>3. k = i
      BY <3>2
    <3>4. code' = (<<Add(i - 1, 6)>> \o FieldCalls(o, F)) \o FinalCodesCalls
      BY <2>5, <3>3 DEF BodyFields
    <3>5. JoinsBehind(Add(i - 1, 6), FieldCalls(o, F), FinalCodesCalls)
      <4>1. IsSeq(FieldCalls(o, F))
        <5> HIDE DEF o, F
        <5> QED BY <3>2, CallsAreASequence
      <4> HIDE DEF o, F, i
      <4> QED BY <1>0, <4>1, ThenJoined
    <3>6. WritesNone(o, F, FinalCodesCalls)
      <4> HIDE DEF o, F
      <4> QED BY <1>0, <3>2, WritesOn
    <3>7. code' = Then(Add(i - 1, 6), Writes(o, F, 0, FinalCodesCalls))
      <4> HIDE DEF o, F, i
      <4> QED BY <3>4, <3>5, <3>6 DEF JoinsBehind, WritesNone, Then
    <3>8. Encodes(r, s, m, Then(Add(i - 1, 6), Writes(o, F, 0, FinalCodesCalls)))'
      <4> HIDE DEF o, F, i, m, tail
      <4> QED BY <1>2, <2>5, <3>7, EncodesOn
    <3> QED BY <3>1, <3>8 DEF V2GEncodes
  <2> QED BY <2>3, <2>4, <2>5
<1>3. CASE BodyFound(r) /\ Encodes(r, s, m, Then(Add(i - 1, 6), Writes(o, F, 0, FinalCodesCalls)))
  <2>1. F \in Seq(Fields) /\ i \in 1 .. 64
    BY <1>0, <1>3, BodyFoundIs
  <2>2. WritesSeq(o, F, 0, FinalCodesCalls) /\ 0 \in 0 .. Len(F)
    <3>1. 0 \in 0 .. Len(F)
      BY <2>1, LenProperties
    <3> HIDE DEF o, F
    <3> QED BY <1>0, <2>1, <3>1, WritesAreASequence
  <2>3. Script(r)[m + 1] = Number(i - 1, 6)
    BY <1>0, V2GScriptIs
  <2>4. Number(i - 1, 6) \in Numbers
    <3> HIDE DEF i
    <3> QED BY <2>1, CodesFit
  <2>5. Encodes(r, s, m + 1, Writes(o, F, 0, FinalCodesCalls))'
    <3> HIDE DEF o, F, i, m
    <3> QED BY <1>0, <1>3, <2>2, <2>3, <2>4, EncodesAdd DEF WritesSeq
  <2>6. BodyAt(r, s, 0)'
    <3>1. m + 1 = BodyStart(r) + 0 /\ FieldsGood(o, F, 0)
      <4>1. BodyStart(r) = BodyStart(r) + 0
        BY <1>0
      <4> QED BY <1>0, <4>1 DEF FieldsGood
    <3> HIDE DEF m
    <3> QED BY <2>5, <3>1 DEF BodyAt, InFields
  <2> QED BY <1>3, <2>2, <2>6 DEF V2GEncodes
<1> QED BY <1>1, <1>2, <1>3

(* Its fields, and the two codes behind them.                              *)
LEMMA BodyIsWritten ==
  ASSUME NEW r \in Requests, r.ns \in V2GNamespaces, NEW s, Next, HeaderDone(r), BodyFound(r),
         \/ \E j \in 0 .. Len(BodyFields(r)) : BodyAt(r, s, j)
         \/ \E j \in 0 .. Len(BodyFields(r)) - 1 : BodyIn(r, s, j)
  PROVE  V2GEncodes(r, s)' \/ Thrown(r, s)'
<1> DEFINE F == BodyFields(r)
           o == ObjectOf(r)
           b == BodyStart(r)
           tail == Then(add_event_code, End)
<1>0. /\ F \in Seq(Fields) /\ Len(F) \in Nat /\ b \in Nat /\ IsSeq(FinalCodesCalls) /\ IsSeq(tail)
      /\ FinalCodesCalls = Then(Add(0, 1), tail) /\ HasObject(r.json, "V2G_Message")
  <2>1. HasObject(r.json, "V2G_Message")
    BY DEF HeaderDone, HeaderGood
  <2>2. F \in Seq(Fields)
    BY <2>1, BodyFoundIs
  <2>3. b \in Nat
    BY V2GScriptIs DEF BodyStart
  <2>4. IsSeq(FinalCodesCalls) /\ IsSeq(tail) /\ FinalCodesCalls = Then(Add(0, 1), tail)
    BY Parts, Statements DEF FinalCodesCalls, add_event_code
  <2> QED BY <2>1, <2>2, <2>3, <2>4, LenProperties
<1>1. ASSUME NEW j \in 0 .. Len(F) - 1, BodyAt(r, s, j) PROVE V2GEncodes(r, s)' \/ Thrown(r, s)'
  <2>1. InFields(r, s, o, F, b, FinalCodesCalls, j)
    BY <1>1 DEF BodyAt
  <2>2. \/ AtField(r, s, o, F, b, FinalCodesCalls, j)'
        \/ o # Nothing /\ ~FieldGood(o, F[j + 1]) /\ Fails
    <3> HIDE DEF F, o, b
    <3> QED BY <1>0, <2>1, FieldTaken
  <2>3. CASE AtField(r, s, o, F, b, FinalCodesCalls, j)'
    BY <2>3 DEF V2GEncodes, BodyIn
  <2>4. CASE o # Nothing /\ ~FieldGood(o, F[j + 1]) /\ Fails
    <3>1. j + 1 \in 1 .. Len(F)
      BY <1>0
    <3>2. SaidBy[r] = SaysNothing
      BY <1>0, <2>4, <3>1, RefusedSaysNothing
    <3>3. Encodes(r, s, b + j, Writes(o, F, j, FinalCodesCalls))
      BY <2>1 DEF InFields
    <3> HIDE DEF F, o, b
    <3> QED BY <2>4, <3>2, <3>3, EncodesFails
  <2> QED BY <2>2, <2>3, <2>4
<1>2. ASSUME NEW j \in 0 .. Len(F) - 1, BodyIn(r, s, j) PROVE V2GEncodes(r, s)'
  <2>1. AtField(r, s, o, F, b, FinalCodesCalls, j)
    BY <1>2 DEF BodyIn
  <2>2. j + 1 \in 1 .. Len(F) /\ FieldGood(o, F[j + 1])
    BY <1>0, <2>1 DEF AtField, FieldsGood
  <2>3. Content(o, F[j + 1]) \in Numbers
    BY <1>0, <2>2, BodyValueFits
  <2>4. Script(r)[b + (j + 1)] = Content(o, F[j + 1])
    BY <1>0, <2>2, V2GScriptIs
  <2>5. InFields(r, s, o, F, b, FinalCodesCalls, j + 1)'
    <3> HIDE DEF F, o, b
    <3> QED BY <1>0, <2>1, <2>3, <2>4, FieldWritten
  <2>6. BodyAt(r, s, j + 1)' /\ j + 1 \in 0 .. Len(F)
    BY <1>0, <2>5 DEF BodyAt
  <2> QED BY <2>6 DEF V2GEncodes
<1>3. ASSUME BodyAt(r, s, Len(F)) PROVE V2GEncodes(r, s)'
  <2>1. InFields(r, s, o, F, b, FinalCodesCalls, Len(F))
    BY <1>3 DEF BodyAt
  <2>2. FieldsGood(o, F, Len(F)) /\ Encodes(r, s, BodyEnd(r), Then(Add(0, 1), tail))
    <3>1. WritesNone(o, F, FinalCodesCalls)
      <4> HIDE DEF F, o
      <4> QED BY <1>0, WritesOn
    <3> QED BY <1>0, <2>1, <3>1 DEF InFields, WritesNone, BodyEnd
  <2>3. BodyDone(r)
    BY <2>2 DEF BodyDone, BodyGood
  <2>4. BodyEnd(r) \in Nat /\ Script(r)[BodyEnd(r) + 1] = Number(0, 1) /\ Number(0, 1) \in Numbers
    <3>1. BodyEnd(r) \in Nat
      BY <1>0 DEF BodyEnd
    <3>2. Script(r)[BodyEnd(r) + 1] = Number(0, 1)
      BY <1>0, V2GScriptIs
    <3> QED BY <3>1, <3>2, CodesFit
  <2>5. Encodes(r, s, BodyEnd(r) + 1, tail)'
    <3> HIDE DEF tail
    <3> QED BY <1>0, <2>2, <2>4, EncodesAdd
  <2> QED BY <2>3, <2>5 DEF V2GEncodes
<1>4. \A j \in 0 .. Len(F) : j \in 0 .. Len(F) - 1 \/ j = Len(F)
  BY <1>0
<1> QED BY <1>1, <1>2, <1>3, <1>4

(* The last code of the message.                                           *)
LEMMA MessageEnds ==
  ASSUME NEW r \in Requests, r.ns \in V2GNamespaces, NEW s, Next, BodyDone(r),
         Encodes(r, s, BodyEnd(r) + 1, Then(add_event_code, End))
  PROVE  V2GEncodes(r, s)'
<1>1. HasObject(r.json, "V2G_Message") /\ BodyFound(r)
  BY DEF BodyDone, BodyGood, HeaderDone, HeaderGood
<1>2. Len(BodyFields(r)) \in Nat
  BY <1>1, BodyFoundIs, LenProperties
<1> DEFINE m == BodyEnd(r) + 1
<1>3. m \in Nat /\ m + 1 = BodyEnd(r) + 2
  BY <1>2, V2GScriptIs DEF BodyEnd, BodyStart
<1>4. Script(r)[BodyEnd(r) + 2] = Number(0, 1)
  BY <1>2, V2GScriptIs
<1>5. Encodes(r, s, m, Then(Add(0, 1), End)) /\ IsSeq(End)
  BY Parts DEF add_event_code
<1>6. Script(r)[m + 1] = Number(0, 1) /\ Number(0, 1) \in Numbers
  BY <1>3, <1>4, CodesFit
<1> HIDE DEF m
<1>7. Encodes(r, s, m + 1, End)'
  BY <1>3, <1>5, <1>6, EncodesAdd
<1> QED BY <1>3, <1>7 DEF V2GEncodes, Encoded

(* Where the encoder is in a message of the app protocol.                  *)
AppAt(r, s, j) == InFields(r, s, AppObjectOf(r), AppFields(r), 2, End, j)
AppIn(r, s, j) == AtField(r, s, AppObjectOf(r), AppFields(r), 2, End, j)

AppEncoded(r, s) == AppDone(r) /\ Encodes(r, s, 2 + Len(AppFields(r)), End)

AppEncodes(r, s) ==
  \/ Encodes(r, s, 1, Then(Do("encode_app_protocol"), End))
  \/ /\ AppFound(r)
     /\ Encodes(r, s, 1, Then(Add(AppPlaceOf(r) - 1, 2), Writes(AppObjectOf(r), AppFields(r), 0, End)))
  \/ AppFound(r) /\ \E j \in 0 .. Len(AppFields(r)) - 1 : AppAt(r, s, j)
  \/ AppFound(r) /\ \E j \in 0 .. Len(AppFields(r)) - 1 : AppIn(r, s, j)
  \/ AppEncoded(r, s)

(* Before a field, or behind the last.                                     *)
LEMMA AppAtIs ==
  ASSUME NEW r \in Requests, r.ns = "app_protocol", NEW s, AppFound(r),
         NEW j \in 0 .. Len(AppFields(r)), AppAt(r, s, j)'
  PROVE  AppEncodes(r, s)'
<1> DEFINE F == AppFields(r)
           o == AppObjectOf(r)
<1>0. F \in Seq(Fields) /\ Len(F) \in Nat /\ IsSeq(End)
  BY AppFoundIs, LenProperties, Parts
<1>1. CASE j # Len(F)
  <2>1. j \in 0 .. Len(F) - 1
    BY <1>0, <1>1
  <2> QED BY <2>1 DEF AppEncodes
<1>2. CASE j = Len(F)
  <2>1. WritesNone(o, F, End)
    <3> HIDE DEF F, o
    <3> QED BY <1>0, WritesOn
  <2>2. FieldsGood(o, F, Len(F)) /\ Encodes(r, s, 2 + Len(F), End)'
    BY <1>2, <2>1 DEF AppAt, InFields, WritesNone
  <2> QED BY <2>2 DEF AppEncodes, AppEncoded, AppDone, AppGood
<1> QED BY <1>1, <1>2

(* encode_app_protocol finds the message and writes its number.            *)
LEMMA AppBegins ==
  ASSUME NEW r \in Requests, r.ns = "app_protocol", NEW s, Next,
         \/ Encodes(r, s, 1, Then(Do("encode_app_protocol"), End))
         \/ /\ AppFound(r)
            /\ Encodes(r, s, 1, Then(Add(AppPlaceOf(r) - 1, 2), Writes(AppObjectOf(r), AppFields(r), 0, End)))
  PROVE  AppEncodes(r, s)' \/ Thrown(r, s)'
<1> DEFINE F == AppFields(r)
           o == AppObjectOf(r)
           p == AppPlaceOf(r)
<1>0. IsSeq(End)
  BY Parts
<1>1. CASE Encodes(r, s, 1, Then(Do("encode_app_protocol"), End))
  <2>1. Running(Do("encode_app_protocol"), End) /\ request = r
    BY <1>0, <1>1, EncodesRuns
  <2>2. \/ AppKeyOf(r) \notin ToSet(AppMessages) /\ Fails
        \/ \E i \in DOMAIN AppMessages :
             /\ AppKeyOf(r) = AppMessages[i] /\ side' = side /\ Elsewhere
             /\ code' = (<<Add(i - 1, 2)>> \o FieldCalls(get_object(r.json, AppMessages[i]),
                                                        FieldsOf("app_protocol", AppMessages[i] \o "Type"))) \o End
    BY <2>1, EncodeAppRuns DEF AppKeyOf
  <2>3. CASE AppKeyOf(r) \notin ToSet(AppMessages) /\ Fails
    <3>1. SaidBy[r] = SaysNothing
      BY <2>3, AppRefusedSaysNothing DEF AppFound
    <3> QED BY <1>1, <2>3, <3>1, EncodesFails
  <2>4. ASSUME NEW i \in DOMAIN AppMessages, AppKeyOf(r) = AppMessages[i], side' = side, Elsewhere,
               code' = (<<Add(i - 1, 2)>> \o FieldCalls(get_object(r.json, AppMessages[i]),
                                                       FieldsOf("app_protocol", AppMessages[i] \o "Type"))) \o End
        PROVE  AppEncodes(r, s)'
    <3>1. AppFound(r)
      BY <2>4 DEF AppFound, ToSet
    <3>2. i = p /\ F \in Seq(Fields)
      BY <2>4, <3>1, AppPlaces, AppFoundIs
    <3>3. code' = (<<Add(p - 1, 2)>> \o FieldCalls(o, F)) \o End
      BY <2>4, <3>2 DEF AppFields, AppObjectOf
    <3>4. JoinsBehind(Add(p - 1, 2), FieldCalls(o, F), End)
      <4>1. IsSeq(FieldCalls(o, F))
        <5> HIDE DEF o, F
        <5> QED BY <3>2, CallsAreASequence
      <4> HIDE DEF o, F, p
      <4> QED BY <1>0, <4>1, ThenJoined
    <3>5. WritesNone(o, F, End)
      <4> HIDE DEF o, F
      <4> QED BY <1>0, <3>2, WritesOn
    <3>6. code' = Then(Add(p - 1, 2), Writes(o, F, 0, End))
      <4> HIDE DEF o, F, p
      <4> QED BY <3>3, <3>4, <3>5 DEF JoinsBehind, WritesNone, Then
    <3>7. Encodes(r, s, 1, Then(Add(p - 1, 2), Writes(o, F, 0, End)))'
      <4> HIDE DEF o, F, p
      <4> QED BY <1>1, <2>4, <3>6, EncodesOn
    <3> QED BY <3>1, <3>7 DEF AppEncodes
  <2> QED BY <2>2, <2>3, <2>4
<1>2. CASE AppFound(r) /\ Encodes(r, s, 1, Then(Add(p - 1, 2), Writes(o, F, 0, End)))
  <2>1. F \in Seq(Fields) /\ p \in {1, 2} /\ 0 \in 0 .. Len(F)
    BY <1>2, AppFoundIs, AppPlaces, LenProperties
  <2>2. WritesSeq(o, F, 0, End)
    <3> HIDE DEF o, F
    <3> QED BY <1>0, <2>1, WritesAreASequence
  <2>3. Script(r)[2] = Number(p - 1, 2)
    <3>1. r.ns \notin V2GNamespaces
      BY DEF V2GNamespaces
    <3> QED BY <3>1, AppScriptIs
  <2>4. Number(p - 1, 2) \in Numbers
    <3> HIDE DEF p
    <3> QED BY <2>1, CodesFit
  <2>5. 1 \in Nat /\ 1 + 1 = 2 /\ 2 + 0 = 2
    OBVIOUS
  <2>6. Encodes(r, s, 1 + 1, Writes(o, F, 0, End))'
    <3> HIDE DEF o, F, p
    <3> QED BY <1>0, <1>2, <2>2, <2>3, <2>4, <2>5, EncodesAdd DEF WritesSeq
  <2>7. Encodes(r, s, 2 + 0, Writes(o, F, 0, End))' /\ FieldsGood(o, F, 0)
    <3>1. FieldsGood(o, F, 0)
      BY DEF FieldsGood
    <3> QED BY <2>5, <2>6, <3>1
  <2>8. AppAt(r, s, 0)'
    BY <2>7 DEF AppAt, InFields
  <2> QED BY <1>2, <2>1, <2>8, AppAtIs
<1> QED BY <1>1, <1>2

(* Its fields are written until the last.                                  *)
LEMMA AppIsWritten ==
  ASSUME NEW r \in Requests, r.ns = "app_protocol", NEW s, Next, AppFound(r),
         \/ \E j \in 0 .. Len(AppFields(r)) - 1 : AppAt(r, s, j)
         \/ \E j \in 0 .. Len(AppFields(r)) - 1 : AppIn(r, s, j)
  PROVE  AppEncodes(r, s)' \/ Thrown(r, s)'
<1> DEFINE F == AppFields(r)
           o == AppObjectOf(r)
<1>0. F \in Seq(Fields) /\ Len(F) \in Nat /\ IsSeq(End) /\ 2 \in Nat
  BY AppFoundIs, LenProperties, Parts
<1>1. ASSUME NEW j \in 0 .. Len(F) - 1, AppAt(r, s, j) PROVE AppEncodes(r, s)' \/ Thrown(r, s)'
  <2>1. InFields(r, s, o, F, 2, End, j)
    BY <1>1 DEF AppAt
  <2>2. \/ AtField(r, s, o, F, 2, End, j)'
        \/ o # Nothing /\ ~FieldGood(o, F[j + 1]) /\ Fails
    <3> HIDE DEF F, o
    <3> QED BY <1>0, <2>1, FieldTaken
  <2>3. CASE AtField(r, s, o, F, 2, End, j)'
    BY <2>3 DEF AppEncodes, AppIn
  <2>4. CASE o # Nothing /\ ~FieldGood(o, F[j + 1]) /\ Fails
    <3>1. j + 1 \in 1 .. Len(F)
      BY <1>0
    <3>2. SaidBy[r] = SaysNothing
      BY <2>4, <3>1, AppRefusedSaysNothing
    <3>3. Encodes(r, s, 2 + j, Writes(o, F, j, End))
      BY <2>1 DEF InFields
    <3> HIDE DEF F, o
    <3> QED BY <2>4, <3>2, <3>3, EncodesFails
  <2> QED BY <2>2, <2>3, <2>4
<1>2. ASSUME NEW j \in 0 .. Len(F) - 1, AppIn(r, s, j) PROVE AppEncodes(r, s)'
  <2>1. AtField(r, s, o, F, 2, End, j)
    BY <1>2 DEF AppIn
  <2>2. j + 1 \in 1 .. Len(F) /\ FieldGood(o, F[j + 1]) /\ j + 1 \in Nat /\ j + 1 >= 1 /\ j + 1 \in 0 .. Len(F)
    BY <1>0, <2>1 DEF AtField, FieldsGood
  <2>3. Content(o, F[j + 1]) \in Numbers
    BY <2>2, AppValueFits
  <2>4. Script(r)[2 + (j + 1)] = Content(o, F[j + 1])
    <3>1. r.ns \notin V2GNamespaces
      BY DEF V2GNamespaces
    <3> QED BY <2>2, <3>1, AppScriptIs
  <2>5. InFields(r, s, o, F, 2, End, j + 1)'
    <3> HIDE DEF F, o
    <3> QED BY <1>0, <2>1, <2>3, <2>4, FieldWritten
  <2>6. AppAt(r, s, j + 1)'
    BY <2>5 DEF AppAt
  <2> QED BY <2>2, <2>6, AppAtIs
<1> QED BY <1>1, <1>2

(* Where the encoder is.                                                   *)
Encoding(r, s) ==
  \/ Encodes(r, s, 0, EncodeCalls(r.ns))
  \/ r.ns \in V2GNamespaces /\ V2GEncodes(r, s)
  \/ r.ns = "app_protocol" /\ AppEncodes(r, s)
  \/ r.ns = "unknown" /\ Encodes(r, s, 1, Then(Do("throw"), End))

Finished(r, s) == \/ r.ns \in V2GNamespaces /\ Encoded(r, s)
                  \/ r.ns = "app_protocol" /\ AppEncoded(r, s)

(* The prologue, and an unknown namespace.                                 *)
LEMMA PrologueIsWritten ==
  ASSUME NEW r \in Requests, NEW s, Next, Encodes(r, s, 0, EncodeCalls(r.ns))
  PROVE  Encoding(r, s)'
<1> DEFINE v2gRest == Then(Add(message_id(r.ns), 7), MessageCalls)
           appRest == Then(Do("encode_app_protocol"), End)
           noRest  == Then(Do("throw"), End)
           rest == IF r.ns \in V2GNamespaces THEN v2gRest ELSE IF r.ns = "app_protocol" THEN appRest ELSE noRest
<1>1. Encodes(r, s, 0, Then(Add(128, 8), rest))
  BY DEF EncodeCalls
<1>2. IsSeq(rest)
  <2>1. IsSeq(v2gRest)
    BY Parts, Statements
  <2>2. IsSeq(appRest)
    BY Parts, Statements
  <2>3. IsSeq(noRest)
    BY Parts, Statements
  <2> QED BY <2>1, <2>2, <2>3
<1>3. Script(r)[1] = Number(128, 8) /\ Number(128, 8) \in Numbers
  BY V2GScriptIs, AppScriptIs, CodesFit
<1>4. 0 \in Nat /\ 0 + 1 = 1
  OBVIOUS
<1>5. Encodes(r, s, 0 + 1, rest)'
  <2> HIDE DEF rest
  <2> QED BY <1>1, <1>2, <1>3, <1>4, EncodesAdd
<1>6. Encodes(r, s, 1, rest)'
  <2> HIDE DEF rest
  <2> QED BY <1>4, <1>5, Zenon
<1>7. r.ns \in V2GNamespaces \/ r.ns = "app_protocol" \/ r.ns = "unknown"
  BY RequestsAssumption DEF Namespaces, V2GNamespaces
<1>8. CASE r.ns \in V2GNamespaces
  <2>1. Encodes(r, s, 1, v2gRest)'
    BY <1>6, <1>8
  <2> QED BY <1>8, <2>1 DEF Encoding, V2GEncodes
<1>9. CASE r.ns = "app_protocol"
  <2>1. r.ns \notin V2GNamespaces
    BY <1>9 DEF V2GNamespaces
  <2>2. Encodes(r, s, 1, appRest)'
    BY <1>6, <1>9, <2>1
  <2> QED BY <1>9, <2>2 DEF Encoding, AppEncodes
<1>10. CASE r.ns = "unknown"
  <2>1. r.ns \notin V2GNamespaces /\ r.ns # "app_protocol"
    BY <1>10 DEF V2GNamespaces
  <2>2. Encodes(r, s, 1, noRest)'
    BY <1>6, <2>1
  <2> QED BY <1>10, <2>2 DEF Encoding
<1> QED BY <1>7, <1>8, <1>9, <1>10

(* A finished call: encode returns what it has written.                    *)
LEMMA NothingRuns ==
  ASSUME code = <<>>, fetch = Stream!NoFetch, Next
  PROVE  \/ side = "encoder" /\ Returned
         \/ side = "decoder" /\ Decoded
         \/ side \in {"done", "thrown"} /\ UNCHANGED vars
<1>1. \A op : ~Runs(op)
  BY DEF Runs
<1>2. ~get_next_n_bits
  BY DEF get_next_n_bits, Stream!get_next_n_bits_iteration
<1>3. Returned \/ Decoded \/ Ended
  BY <1>1, <1>2, Zenon DEF Next, Throw, add_max_8bits, to_object, encode_header, find_body, encode_field, encodeBody,
     encode_app_protocol, get_max_4bytes, expect, write, decodeBody, switch, decode_app_protocol
<1> QED BY <1>3 DEF Returned, Decoded, Ended

(* Every step of the encoder.                                              *)
LEMMA EncodingSteps ==
  ASSUME NEW r \in Requests, NEW s, Next, Encoding(r, s)
  PROVE  Encoding(r, s)' \/ Thrown(r, s)' \/ (Finished(r, s) /\ Returned)
<1>1. CASE Encodes(r, s, 0, EncodeCalls(r.ns))
  BY <1>1, PrologueIsWritten
<1>2. CASE r.ns \in V2GNamespaces /\ V2GEncodes(r, s)
  <2>1. \/ V2GEncodes(r, s)' \/ Thrown(r, s)'
        \/ Encoded(r, s)
    <3>1. BodyDone(r) => HeaderDone(r) /\ BodyFound(r)
      BY DEF BodyDone, BodyGood
    <3>2. HeaderDone(r) => HeaderThere(r)
      BY DEF HeaderDone, HeaderGood, HeaderThere
    <3> QED BY <1>2, <3>1, <3>2, MessageBegins, HeaderIsWritten, BodyBegins, BodyIsWritten, MessageEnds, Zenon
            DEF V2GEncodes
  <2>2. ASSUME Encoded(r, s) PROVE Returned
    <3>1. code = <<>> /\ fetch = Stream!NoFetch /\ side = "encoder"
      BY <2>2 DEF Encoded, Encodes, Wrote, End
    <3> QED BY <3>1, NothingRuns
  <2> QED BY <1>2, <2>1, <2>2 DEF Encoding, Finished
<1>3. CASE r.ns = "app_protocol" /\ AppEncodes(r, s)
  <2>1. \/ AppEncodes(r, s)' \/ Thrown(r, s)'
        \/ AppEncoded(r, s)
    BY <1>3, AppBegins, AppIsWritten, Zenon DEF AppEncodes
  <2>2. ASSUME AppEncoded(r, s) PROVE Returned
    <3>1. code = <<>> /\ fetch = Stream!NoFetch /\ side = "encoder"
      BY <2>2 DEF AppEncoded, Encodes, Wrote, End
    <3> QED BY <3>1, NothingRuns
  <2> QED BY <1>3, <2>1, <2>2 DEF Encoding, Finished
<1>4. CASE r.ns = "unknown" /\ Encodes(r, s, 1, Then(Do("throw"), End))
  <2>1. Running(Do("throw"), End)
    BY <1>4, Parts, EncodesRuns
  <2>2. Fails
    BY <2>1, ThrowRuns
  <2>3. SaidBy[r] = SaysNothing
    BY <1>4, UnknownSaysNothing
  <2> QED BY <1>4, <2>2, <2>3, EncodesFails
<1> QED BY <1>1, <1>2, <1>3, <1>4 DEF Encoding

(***************************************************************************)
(* The decoder.                                                            *)
(***************************************************************************)
(* decode has read m fields of a message that begins with W, and has still *)
(* to run c; its text, the values in it and the last command.              *)
Decodes(r, s, W, m, c, text, vals, command) ==
  /\ request = r /\ ns = s /\ side = "decoder" /\ code = c
  /\ Reads(W, m, s = r.ns)
  /\ vals \in Seq(Nat) /\ Len(vals) <= m /\ command \in Text!Commands
  /\ output_data = text /\ values = vals /\ last_command = command

(* A stream that stands somewhere is as its operations expect it.          *)
LEMMA ReadsOK ==
  ASSUME NEW W, NEW m, NEW whole, Stands(W, m, whole)
  PROVE  /\ bit_counter \in Nat /\ m \in Nat /\ m <= bit_counter /\ bit_counter <= num_bits
         /\ exi_data \in Seq(Stream!Byte) /\ num_bits = 8 * Len(exi_data)
<1>1. PICK o : Laid(o, W, exi_data) /\ o[Len(W)] <= num_bits /\ bit_counter = o[m]
  BY DEF Stands
<1>2. W \in Seq(Numbers) /\ m \in 0 .. Len(W) /\ exi_data \in Seq(Bytes!Byte) /\ num_bits = 8 * Len(exi_data)
  BY DEF Stands
<1>3. o[m] \in Nat /\ m <= o[m] /\ o[m] <= o[Len(W)]
  BY <1>1, <1>2, PositionsRise DEF Laid
<1>4. Positions(o, W) /\ Len(W) \in Nat
  BY <1>1, <1>2, LenProperties DEF Laid
<1>5. o[Len(W)] \in Nat /\ num_bits \in Nat
  BY <1>2, <1>4, LenProperties DEF Positions
<1>6. exi_data \in Seq(Stream!Byte)
  BY <1>2, SameBits
<1> QED BY <1>1, <1>2, <1>3, <1>5, <1>6

(* The decoder leaves the streams as their operations expect them.         *)
LEMMA DecodesOK ==
  ASSUME NEW r, NEW s, NEW W, NEW m, NEW c, NEW text, NEW vals, NEW command,
         Decodes(r, s, W, m, c, text, vals, command)
  PROVE  StreamsOK
<1>1. /\ Stands(W, m, s = r.ns) /\ fetch = Stream!NoFetch
      /\ vals \in Seq(Nat) /\ Len(vals) <= m /\ command \in Text!Commands
      /\ values = vals /\ last_command = command
  BY DEF Decodes, Reads
<1>2. /\ bit_counter \in Nat /\ m \in Nat /\ m <= bit_counter /\ bit_counter <= num_bits
      /\ exi_data \in Seq(Stream!Byte) /\ num_bits = 8 * Len(exi_data)
  BY <1>1, ReadsOK
<1>3. DOMAIN fetch = {"n", "taken", "buffer"} /\ fetch.n \in Nat /\ fetch.taken \in Nat
  BY <1>1 DEF Stream!NoFetch
<1>4. Stream!TypeOK
  BY <1>2, <1>3 DEF Stream!TypeOK, Stream!NoBytes
<1>5. Len(values) <= bit_counter
  <2>1. Len(vals) \in Nat
    BY <1>1, LenProperties
  <2> QED BY <1>1, <1>2, <2>1
<1> QED BY <1>1, <1>2, <1>4, <1>5 DEF StreamsOK

(* decode throws, and may.                                                 *)
LEMMA DecodesFails ==
  ASSUME NEW r, NEW s, NEW W, NEW m, NEW c, NEW text, NEW vals, NEW command,
         Decodes(r, s, W, m, c, text, vals, command), Fails, SaidBy[r] = SaysNothing \/ s # r.ns
  PROVE  Thrown(r, s)'
<1>1. StreamsOK /\ Elsewhere /\ side' = "thrown" /\ code' = <<>>
  BY DecodesOK DEF Fails
<1>2. StreamsOK'
  BY <1>1, StreamsKept
<1>3. request' = r /\ ns' = s /\ fetch' = Stream!NoFetch
  BY <1>1 DEF Decodes, Reads, Elsewhere
<1> QED BY <1>1, <1>2, <1>3 DEF Thrown, Stream!NoFetch

(* Where the stream stands does not change when nothing of it does.        *)
LEMMA ReadsKept ==
  ASSUME NEW W, NEW m, NEW whole, UNCHANGED <<exi_data, bit_counter, num_bits, fetch>>
  PROVE  Stands(W, m, whole) => Stands(W, m, whole)'
<1>1. SUFFICES ASSUME Stands(W, m, whole) PROVE Stands(W, m, whole)'
  OBVIOUS
<1>2. PICK o : /\ Laid(o, W, exi_data) /\ o[Len(W)] <= num_bits /\ bit_counter = o[m]
               /\ whole => Ends(o[Len(W)], exi_data)
  BY <1>1 DEF Stands
<1>3. Laid(o, W, exi_data') /\ (whole => Ends(o[Len(W)], exi_data'))
  BY <1>2
<1> QED BY <1>1, <1>2, <1>3 DEF Stands

(* Only the statements change.                                             *)
LEMMA DecodesOn ==
  ASSUME NEW r, NEW s, NEW W, NEW m, NEW c, NEW text, NEW vals, NEW command,
         Decodes(r, s, W, m, c, text, vals, command), NEW d, code' = d, side' = side, Elsewhere
  PROVE  Decodes(r, s, W, m, d, text, vals, command)' /\ Value' = Value /\ message_type' = message_type
<1>1. /\ UNCHANGED <<exi_data, bit_counter, num_bits, fetch>> /\ last' = last
      /\ UNCHANGED <<request, ns, output_data, last_command, values>>
  BY DEF Elsewhere
<1>2. Stands(W, m, s = r.ns) /\ fetch = Stream!NoFetch
  BY DEF Decodes, Reads
<1>3. Stands(W, m, s = r.ns)'
  BY <1>1, <1>2, ReadsKept
<1>4. fetch' = Stream!NoFetch
  BY <1>1, <1>2
<1>5. Reads(W, m, s = r.ns)'
  BY <1>3, <1>4 DEF Reads, Stream!NoFetch
<1>6. Value' = Value /\ message_type' = message_type
  BY <1>1 DEF Value, message_type
<1> QED BY <1>1, <1>5, <1>6 DEF Decodes

(* The statement the decoder runs is its first.                            *)
LEMMA DecodesRuns ==
  ASSUME NEW r, NEW s, NEW W, NEW m, NEW a, NEW rest, IsSeq(rest), NEW text, NEW vals, NEW command,
         Decodes(r, s, W, m, Then(a, rest), text, vals, command)
  PROVE  Running(a, rest) /\ request = r /\ ns = s
  BY DEF Decodes, Reads, Running

(* The next field is read.                                                 *)
LEMMA DecodesGet ==
  ASSUME NEW r, NEW s, NEW W, NEW m, NEW n, NEW rest, IsSeq(rest), NEW text, NEW vals, NEW command,
         Decodes(r, s, W, m, Then(Get(n), rest), text, vals, command), m < Len(W), W[m + 1].n = n, Next
  PROVE  Decodes(r, s, W, m + 1, rest, text, vals, command)' /\ Value' = W[m + 1].v
<1>1. Running(Get(n), rest)
  BY DecodesRuns
<1>2. Stream!get_max_4bytes(n) /\ code' = rest /\ Same /\ UNCHANGED <<output_data, last_command, values>>
  BY <1>1, GetRuns
<1>3. Reads(W, m, s = r.ns)
  BY DEF Decodes
<1>4. Stream!get_max_4bytes(W[m + 1].n)
  BY <1>2
<1>5. Reads(W, m + 1, s = r.ns)' /\ Value' = W[m + 1].v
  BY <1>3, <1>4, FieldRead
<1>6. /\ vals \in Seq(Nat) /\ Len(vals) <= m + 1 /\ command \in Text!Commands
  <2>1. Len(vals) \in Nat /\ Len(vals) <= m /\ vals \in Seq(Nat) /\ command \in Text!Commands
    BY LenProperties DEF Decodes
  <2>2. m \in Nat
    BY <1>3, ReadsOK DEF Reads
  <2> QED BY <2>1, <2>2
<1>7. /\ request' = r /\ ns' = s /\ side' = "decoder"
      /\ output_data' = text /\ values' = vals /\ last_command' = command
  BY <1>2 DEF Decodes, Same
<1> QED BY <1>2, <1>5, <1>6, <1>7 DEF Decodes

(* It must be a certain value.                                             *)
LEMMA DecodesExpect ==
  ASSUME NEW r, NEW s, NEW W, NEW m, NEW v, NEW rest, IsSeq(rest), NEW text, NEW vals, NEW command,
         Decodes(r, s, W, m, Then(Expect(v), rest), text, vals, command), Next
  PROVE  \/ Value = v /\ Decodes(r, s, W, m, rest, text, vals, command)'
         \/ Value # v /\ Fails
<1>1. Running(Expect(v), rest)
  BY DecodesRuns
<1>2. \/ Value = v /\ code' = rest /\ side' = side /\ Elsewhere
      \/ Value # v /\ Fails
  BY <1>1, ExpectRuns
<1>3. CASE Value = v /\ code' = rest /\ side' = side /\ Elsewhere
  <2>1. Decodes(r, s, W, m, rest, text, vals, command)'
    BY <1>3, DecodesOn
  <2> QED BY <1>3, <2>1
<1> QED BY <1>2, <1>3

(* The text grows.                                                         *)
LEMMA DecodesText ==
  ASSUME NEW r, NEW s, NEW W, NEW m, NEW c, NEW text, NEW vals, NEW command,
         Decodes(r, s, W, m, c, text, vals, command), NEW rest, code' = rest, Untouched,
         NEW after, NEW grown, NEW then, output_data' = after, values' = grown, last_command' = then,
         grown \in Seq(Nat), Len(grown) <= m, then \in Text!Commands
  PROVE  Decodes(r, s, W, m, rest, after, grown, then)'
<1>1. UNCHANGED <<exi_data, bit_counter, num_bits, fetch>> /\ UNCHANGED <<request, ns, side>>
  BY DEF Untouched
<1>2. Stands(W, m, s = r.ns) /\ fetch = Stream!NoFetch
  BY DEF Decodes, Reads
<1>3. Stands(W, m, s = r.ns)'
  BY <1>1, <1>2, ReadsKept
<1>4. Reads(W, m, s = r.ns)'
  BY <1>1, <1>2, <1>3 DEF Reads, Stream!NoFetch
<1>5. request' = r /\ ns' = s /\ side' = "decoder"
  BY <1>1 DEF Decodes
<1> QED BY <1>4, <1>5 DEF Decodes

(* start_key adds the name to the text.                                    *)
LEMMA DecodesStart ==
  ASSUME NEW r, NEW s, NEW W, NEW m, NEW name, NEW rest, IsSeq(rest), NEW text, NEW vals, NEW command,
         Decodes(r, s, W, m, Then(start_key(name), rest), text, vals, command), Next
  PROVE  Decodes(r, s, W, m, rest, text \o (IF command = "endkey" THEN <<",", name>> ELSE <<"{", name>>),
                 vals, "startkey")'
<1>1. Running(start_key(name), rest)
  BY DecodesRuns
<1>2. /\ code' = rest /\ Untouched /\ UNCHANGED values
      /\ Text2(IF last_command = "endkey" THEN <<",", name>> ELSE <<"{", name>>, "startkey")
  BY <1>1, StartKeyRuns
<1>3. /\ output_data = text /\ values = vals /\ last_command = command
      /\ vals \in Seq(Nat) /\ Len(vals) <= m /\ "startkey" \in Text!Commands
  BY DEF Decodes, Text!Commands
<1> DEFINE after == text \o (IF command = "endkey" THEN <<",", name>> ELSE <<"{", name>>)
<1>4. output_data' = after /\ values' = vals /\ last_command' = "startkey"
  BY <1>2, <1>3 DEF Text2
<1> HIDE DEF after
<1>5. Decodes(r, s, W, m, rest, after, vals, "startkey")'
  BY <1>2, <1>3, <1>4, DecodesText
<1> QED BY <1>5 DEF after

(* end_key closes the object.                                              *)
LEMMA DecodesEnd ==
  ASSUME NEW r, NEW s, NEW W, NEW m, NEW rest, IsSeq(rest), NEW text, NEW vals, NEW command,
         Decodes(r, s, W, m, Then(Do("end_key"), rest), text, vals, command), Next
  PROVE  Decodes(r, s, W, m, rest,
                 text \o (IF command = "endkey" THEN <<"}">>
                          ELSE IF command = "startkey" THEN <<"{", "}">> ELSE <<>>),
                 vals, "endkey")'
<1>1. Running(Do("end_key"), rest)
  BY DecodesRuns
<1>2. /\ code' = rest /\ Untouched /\ UNCHANGED values
      /\ Text2(IF last_command = "endkey" THEN <<"}">>
               ELSE IF last_command = "startkey" THEN <<"{", "}">> ELSE <<>>, "endkey")
  BY <1>1, EndKeyRuns
<1>3. /\ output_data = text /\ values = vals /\ last_command = command
      /\ vals \in Seq(Nat) /\ Len(vals) <= m /\ "endkey" \in Text!Commands
  BY DEF Decodes, Text!Commands
<1> DEFINE after == text \o (IF command = "endkey" THEN <<"}">>
                             ELSE IF command = "startkey" THEN <<"{", "}">> ELSE <<>>)
<1>4. output_data' = after /\ values' = vals /\ last_command' = "endkey"
  BY <1>2, <1>3 DEF Text2
<1> HIDE DEF after
<1>5. Decodes(r, s, W, m, rest, after, vals, "endkey")'
  BY <1>2, <1>3, <1>4, DecodesText
<1> QED BY <1>5 DEF after

(* add_value adds the value, of which there are no more than fields read.  *)
LEMMA DecodesValue ==
  ASSUME NEW r, NEW s, NEW W, NEW m, NEW rest, IsSeq(rest), NEW text, NEW vals, NEW command,
         Decodes(r, s, W, m, Then(Do("add_value"), rest), text, vals, command), Len(vals) < m,
         NEW v \in Nat, Value = v, Next
  PROVE  Decodes(r, s, W, m, rest, text \o <<Text!Scalar>>, Append(vals, v), "addvalue")'
<1>1. Running(Do("add_value"), rest)
  BY DecodesRuns
<1>2. /\ code' = rest /\ Untouched /\ values' = Append(values, Value)
      /\ Text2(<<Text!Scalar>>, "addvalue")
  BY <1>1, AddValueRuns
<1>3. output_data = text /\ values = vals /\ vals \in Seq(Nat) /\ "addvalue" \in Text!Commands
  BY DEF Decodes, Text!Commands
<1> DEFINE after == text \o <<Text!Scalar>>
           grown == Append(vals, v)
<1>4. output_data' = after /\ values' = grown /\ last_command' = "addvalue"
  BY <1>2, <1>3 DEF Text2
<1>5. grown \in Seq(Nat) /\ Len(grown) <= m
  <2>1. grown \in Seq(Nat) /\ Len(grown) = Len(vals) + 1
    BY <1>3, AppendProperties
  <2>2. Len(vals) \in Nat /\ m \in Nat
    BY <1>3, LenProperties, ReadsOK DEF Decodes, Reads
  <2> HIDE DEF grown
  <2> QED BY <2>1, <2>2
<1> HIDE DEF after, grown
<1>6. Decodes(r, s, W, m, rest, after, grown, "addvalue")'
  BY <1>2, <1>3, <1>4, <1>5, DecodesText
<1> QED BY <1>6 DEF after, grown

(* get_full_stream adds the last brace.                                    *)
LEMMA DecodesFull ==
  ASSUME NEW r, NEW s, NEW W, NEW m, NEW rest, IsSeq(rest), NEW text, NEW vals, NEW command,
         Decodes(r, s, W, m, Then(Do("get_full_stream"), rest), text, vals, command), Next
  PROVE  Decodes(r, s, W, m, rest, Append(text, "}"), vals, command)'
<1>1. Running(Do("get_full_stream"), rest)
  BY DecodesRuns
<1>2. /\ code' = rest /\ Untouched /\ UNCHANGED <<last_command, values>>
      /\ output_data' = Append(output_data, "}")
  BY <1>1, FullStreamRuns
<1>3. /\ output_data = text /\ values = vals /\ last_command = command
      /\ vals \in Seq(Nat) /\ Len(vals) <= m /\ command \in Text!Commands
  BY DEF Decodes
<1> DEFINE after == Append(text, "}")
<1>4. output_data' = after /\ values' = vals /\ last_command' = command
  BY <1>2, <1>3
<1> HIDE DEF after
<1>5. Decodes(r, s, W, m, rest, after, vals, command)'
  BY <1>2, <1>3, <1>4, DecodesText
<1> QED BY <1>5 DEF after

(***************************************************************************)
(* A type in the decoder.                                                  *)
(***************************************************************************)
(* One, and two elements more of a sequence.                               *)
FirstOne(S, m) == First(S, m) \o <<S[m + 1]>> = First(S, m + 1)
FirstTwo(S, m) == First(S, m) \o <<S[m + 1], S[m + 2]>> = First(S, m + 2)

(* The first m fields of a script, and with one and two more.              *)
LEMMA FirstIs ==
  ASSUME NEW S, NEW m \in Nat
  PROVE  IsSeq(First(S, m)) /\ Len(First(S, m)) = m /\ FirstOne(S, m) /\ FirstTwo(S, m)
<1> DEFINE T == {S[k] : k \in 1 .. m + 2}
           one == <<S[m + 1]>>
           two == <<S[m + 1], S[m + 2]>>
<1>1. ASSUME NEW k \in 0 .. m + 2
      PROVE  First(S, k) \in Seq(T) /\ Len(First(S, k)) = k /\ \A i \in 1 .. k : First(S, k)[i] = S[i]
  <2>1. \A i \in 1 .. k : S[i] \in T
    OBVIOUS
  <2> HIDE DEF T
  <2> QED BY <2>1 DEF First
<1>2. /\ m \in 0 .. m + 2 /\ m + 1 \in 0 .. m + 2 /\ m + 2 \in 0 .. m + 2
      /\ S[m + 1] \in T /\ S[m + 2] \in T
  OBVIOUS
<1> HIDE DEF T
<1>3. one \in Seq(T) /\ Len(one) = 1 /\ two \in Seq(T) /\ Len(two) = 2
  BY <1>2
<1>4. one[1] = S[m + 1] /\ two[1] = S[m + 1] /\ two[2] = S[m + 2]
  OBVIOUS
<1> HIDE DEF one, two
<1>5. First(S, m) \o one = First(S, m + 1)
  <2> DEFINE a == First(S, m)
             b == First(S, m + 1)
             c == a \o one
  <2>1. /\ a \in Seq(T) /\ Len(a) = m /\ \A i \in 1 .. m : a[i] = S[i]
        /\ b \in Seq(T) /\ Len(b) = m + 1 /\ \A i \in 1 .. m + 1 : b[i] = S[i]
    BY <1>1, <1>2
  <2> HIDE DEF a, b
  <2>2. c \in Seq(T) /\ Len(c) = m + 1 /\ \A i \in 1 .. m + 1 : c[i] = IF i <= m THEN a[i] ELSE one[i - m]
    <3>1. c \in Seq(T) /\ Len(c) = Len(a) + Len(one)
      BY <1>3, <2>1, ConcatProperties
    <3>2. \A i \in 1 .. Len(a) + Len(one) : c[i] = IF i <= Len(a) THEN a[i] ELSE one[i - Len(a)]
      BY <1>3, <2>1, ConcatProperties
    <3> QED BY <1>3, <2>1, <3>1, <3>2
  <2>3. ASSUME NEW i \in 1 .. m + 1 PROVE c[i] = b[i]
    <3>1. \/ i <= m /\ i \in 1 .. m
          \/ i = m + 1 /\ ~(i <= m) /\ i - m = 1
      OBVIOUS
    <3> QED BY <1>4, <2>1, <2>2, <3>1
  <2> HIDE DEF c
  <2>4. b = c
    BY <2>1, <2>2, <2>3, SeqEqual
  <2> QED BY <2>4 DEF a, b, c
<1>6. First(S, m) \o two = First(S, m + 2)
  <2> DEFINE a == First(S, m)
             b == First(S, m + 2)
             c == a \o two
  <2>1. /\ a \in Seq(T) /\ Len(a) = m /\ \A i \in 1 .. m : a[i] = S[i]
        /\ b \in Seq(T) /\ Len(b) = m + 2 /\ \A i \in 1 .. m + 2 : b[i] = S[i]
    BY <1>1, <1>2
  <2> HIDE DEF a, b
  <2>2. c \in Seq(T) /\ Len(c) = m + 2 /\ \A i \in 1 .. m + 2 : c[i] = IF i <= m THEN a[i] ELSE two[i - m]
    <3>1. c \in Seq(T) /\ Len(c) = Len(a) + Len(two)
      BY <1>3, <2>1, ConcatProperties
    <3>2. \A i \in 1 .. Len(a) + Len(two) : c[i] = IF i <= Len(a) THEN a[i] ELSE two[i - Len(a)]
      BY <1>3, <2>1, ConcatProperties
    <3> QED BY <1>3, <2>1, <3>1, <3>2
  <2>3. ASSUME NEW i \in 1 .. m + 2 PROVE c[i] = b[i]
    <3>1. \/ i <= m /\ i \in 1 .. m
          \/ i = m + 1 /\ ~(i <= m) /\ i - m = 1
          \/ i = m + 2 /\ ~(i <= m) /\ i - m = 2
      OBVIOUS
    <3> QED BY <1>4, <2>1, <2>2, <3>1
  <2> HIDE DEF c
  <2>4. b = c
    BY <2>1, <2>2, <2>3, SeqEqual
  <2> QED BY <2>4 DEF a, b, c
<1>7. IsSeq(First(S, m)) /\ Len(First(S, m)) = m
  BY <1>1, <1>2 DEF IsSeq
<1> QED BY <1>5, <1>6, <1>7 DEF FirstOne, FirstTwo, one, two

(* The text of a type, token by token.                                     *)
LEMMA TypeTextIs ==
  ASSUME NEW fields \in Seq(Fields)
  PROVE  /\ Len(fields) \in Nat
         /\ Len(fields) = 0 => /\ TypeText(fields) = First(TypeText(fields), 2)
                               /\ TypeText(fields)[1] = "{" /\ TypeText(fields)[2] = "}"
         /\ Len(fields) > 0 => /\ TypeText(fields) = First(TypeText(fields), 3 * Len(fields) + 1)
                               /\ TypeText(fields)[3 * Len(fields) + 1] = "}"
         /\ \A j \in 0 .. Len(fields) - 1 :
              /\ TypeText(fields)[3 * j + 1] = IF j = 0 THEN "{" ELSE ","
              /\ TypeText(fields)[3 * j + 2] = fields[j + 1].name
              /\ TypeText(fields)[3 * j + 3] = Text!Scalar
<1> DEFINE L == Len(fields)
           end == IF fields = <<>> THEN 2 ELSE 3 * L + 1
           T == TypeText(fields)
<1>1. L \in Nat /\ (L = 0 <=> fields = <<>>)
  BY LenProperties, EmptySeq
<1>2. T = [k \in 1 .. end |->
             IF k = 1 THEN "{" ELSE IF k = end THEN "}"
             ELSE CASE k % 3 = 2 -> fields[(k + 1) \div 3].name
                    [] k % 3 = 0 -> Text!Scalar
                    [] OTHER     -> ","]
  BY DEF TypeText
<1>3. end \in Nat /\ end >= 2
  BY <1>1
<1>4. ASSUME NEW k \in 1 .. end
      PROVE  /\ k = 1 => T[k] = "{"
             /\ k # 1 /\ k = end => T[k] = "}"
             /\ k # 1 /\ k # end =>
                  T[k] = CASE k % 3 = 2 -> fields[(k + 1) \div 3].name
                           [] k % 3 = 0 -> Text!Scalar
                           [] OTHER     -> ","
  <2>1. T[k] = IF k = 1 THEN "{" ELSE IF k = end THEN "}"
               ELSE CASE k % 3 = 2 -> fields[(k + 1) \div 3].name
                      [] k % 3 = 0 -> Text!Scalar
                      [] OTHER     -> ","
    BY <1>2
  <2> QED BY <2>1, Zenon
<1>4a. ASSUME NEW k \in 1 .. end, k # 1, k # end
      PROVE  /\ k % 3 = 1 => T[k] = ","
             /\ k % 3 = 2 => T[k] = fields[(k + 1) \div 3].name
             /\ k % 3 = 0 => T[k] = Text!Scalar
  <2> DEFINE case == k % 3
  <2>1. /\ case = 1 => case # 2 /\ case # 0
        /\ case = 2 => case # 0
        /\ case = 0 => case # 2
    OBVIOUS
  <2>2. T[k] = CASE case = 2 -> fields[(k + 1) \div 3].name
                 [] case = 0 -> Text!Scalar
                 [] OTHER    -> ","
    BY <1>4, <1>4a, Zenon
  <2> HIDE DEF case
  <2>3. case = 1 => T[k] = ","
    BY <2>1, <2>2, Zenon
  <2>4. case = 2 => T[k] = fields[(k + 1) \div 3].name
    BY <2>1, <2>2, Zenon
  <2>5. case = 0 => T[k] = Text!Scalar
    BY <2>1, <2>2, Zenon
  <2> QED BY <2>3, <2>4, <2>5 DEF case
<1>5. DOMAIN T = 1 .. end /\ T = [k \in 1 .. end |-> T[k]]
  BY <1>2
<1> HIDE DEF T
<1>6. T = First(T, end)
  BY <1>5 DEF First
<1>7. T[1] = "{" /\ T[end] = "}"
  <2>1. 1 \in 1 .. end /\ end \in 1 .. end /\ end # 1
    BY <1>3
  <2> HIDE DEF end
  <2> QED BY <1>4, <2>1, Zenon
<1>8. ASSUME NEW j \in 0 .. L - 1
      PROVE  /\ T[3 * j + 1] = IF j = 0 THEN "{" ELSE ","
             /\ T[3 * j + 2] = fields[j + 1].name
             /\ T[3 * j + 3] = Text!Scalar
  <2>0. j \in Nat /\ end = 3 * L + 1 /\ j < L
    BY <1>1
  <2>1. T[3 * j + 1] = IF j = 0 THEN "{" ELSE ","
    <3> DEFINE k == 3 * j + 1
    <3>1. k \in 1 .. end /\ k # end /\ k % 3 = 1 /\ (k = 1 <=> j = 0)
      BY <1>1, <2>0
    <3> HIDE DEF k, end
    <3>2. T[k] = IF j = 0 THEN "{" ELSE ","
      BY <1>4, <1>4a, <3>1, Zenon
    <3> QED BY <3>2 DEF k
  <2>2. T[3 * j + 2] = fields[j + 1].name
    <3> DEFINE k == 3 * j + 2
    <3>1. k \in 1 .. end /\ k # end /\ k % 3 = 2 /\ k # 1 /\ (k + 1) \div 3 = j + 1
      BY <1>1, <2>0
    <3> HIDE DEF k, end
    <3>2. T[k] = fields[(k + 1) \div 3].name
      BY <1>4a, <3>1, Zenon
    <3> QED BY <3>1, <3>2 DEF k
  <2>3. T[3 * j + 3] = Text!Scalar
    <3> DEFINE k == 3 * j + 3
    <3>1. k \in 1 .. end /\ k # end /\ k % 3 = 0 /\ k # 1
      BY <1>1, <2>0
    <3> HIDE DEF k, end
    <3>2. T[k] = Text!Scalar
      BY <1>4a, <3>1, Zenon
    <3> QED BY <3>2 DEF k
  <2> QED BY <2>1, <2>2, <2>3
<1>9. L = 0 => end = 2
  BY <1>1
<1>10. L > 0 => end = 3 * L + 1
  BY <1>1
<1> HIDE DEF end
<1> QED BY <1>1, <1>6, <1>7, <1>8, <1>9, <1>10 DEF T

(* The text and the values behind the first j fields, and all of them.     *)
TextSoFar(before, fields, k)     == before \o First(TypeText(fields), k)
ValuesSoFar(before, contents, j) == before \o First(contents, j)

(* The text of j fields and the next one is that of j + 1 fields.          *)
LEMMA TextGrows ==
  ASSUME NEW before, IsSeq(before), NEW fields \in Seq(Fields), NEW j \in 0 .. Len(fields) - 1
  PROVE  /\ TextSoFar(before, fields, 3 * j) \o (IF j # 0 THEN <<",", fields[j + 1].name>>
                                                 ELSE <<"{", fields[j + 1].name>>)
              = TextSoFar(before, fields, 3 * j + 2)
         /\ TextSoFar(before, fields, 3 * j + 2) \o <<Text!Scalar>> = TextSoFar(before, fields, 3 * (j + 1))
         /\ TextSoFar(before, fields, 3 * (j + 1)) \o <<>> = TextSoFar(before, fields, 3 * (j + 1))
<1> DEFINE T == TypeText(fields)
           i == 3 * j
           two == IF j # 0 THEN <<",", fields[j + 1].name>> ELSE <<"{", fields[j + 1].name>>
           scalar == <<Text!Scalar>>
<1>1. Len(fields) \in Nat /\ i \in Nat /\ i + 2 \in Nat /\ (i + 2) + 1 = 3 * (j + 1) /\ (i + 2) + 1 = i + 3
      /\ 3 * (j + 1) \in Nat
  BY LenProperties
<1>2. T[i + 1] = (IF j # 0 THEN "," ELSE "{") /\ T[i + 2] = fields[j + 1].name /\ T[i + 3] = Text!Scalar
  BY TypeTextIs
<1>3. two = <<T[i + 1], T[i + 2]>> /\ scalar = <<T[(i + 2) + 1]>>
  BY <1>1, <1>2
<1> HIDE DEF T, i
<1>4. IsSeq(First(T, i)) /\ IsSeq(First(T, i + 2)) /\ FirstTwo(T, i) /\ FirstOne(T, i + 2)
  BY <1>1, FirstIs
<1>5. IsSeq(two) /\ IsSeq(scalar)
  <2>1. \A a, b : IsSeq(<<a, b>>)
    BY Two, Singles DEF IsTwo
  <2> QED BY <2>1, Singles
<1> HIDE DEF two, scalar
<1>6. Associate(before, First(T, i), two) /\ Associate(before, First(T, i + 2), scalar)
  BY <1>4, <1>5, JoinedTwice
<1>7. First(T, i) \o two = First(T, i + 2)
  BY <1>3, <1>4 DEF FirstTwo
<1>8. First(T, i + 2) \o scalar = First(T, 3 * (j + 1))
  BY <1>1, <1>3, <1>4 DEF FirstOne
<1>9. (before \o First(T, i)) \o two = before \o First(T, i + 2)
  BY <1>6, <1>7 DEF Associate
<1>10. (before \o First(T, i + 2)) \o scalar = before \o First(T, 3 * (j + 1))
  BY <1>6, <1>8 DEF Associate
<1>11. (before \o First(T, 3 * (j + 1))) \o <<>> = before \o First(T, 3 * (j + 1))
  <2>1. IsSeq(First(T, 3 * (j + 1)))
    BY <1>1, FirstIs
  <2>2. IsSeq(before \o First(T, 3 * (j + 1)))
    BY <2>1, Joined
  <2>3. PICK A : before \o First(T, 3 * (j + 1)) \in Seq(A)
    BY <2>2 DEF IsSeq
  <2> QED BY <2>3, ConcatEmptySeq
<1> QED BY <1>9, <1>10, <1>11 DEF TextSoFar, T, i, two, scalar

(* Closed behind the last field it is the text of the type.                *)
LEMMA TextEnds ==
  ASSUME NEW before, IsSeq(before), NEW fields \in Seq(Fields)
  PROVE  TextSoFar(before, fields, 3 * Len(fields)) \o (IF Len(fields) # 0 THEN <<"}">> ELSE <<"{", "}">>)
           = before \o TypeText(fields)
<1> DEFINE T == TypeText(fields)
           L == Len(fields)
<1>1. L \in Nat /\ 3 * L \in Nat
  BY LenProperties
<1>2. CASE L = 0
  <2>1. T = First(T, 2) /\ T[1] = "{" /\ T[2] = "}"
    BY <1>2, TypeTextIs
  <2>2. 0 \in Nat /\ 0 + 1 = 1 /\ 0 + 2 = 2 /\ 3 * L = 0
    BY <1>2
  <2> HIDE DEF T
  <2>3. IsSeq(First(T, 0)) /\ FirstTwo(T, 0)
    BY <2>2, FirstIs
  <2>4. First(T, 0) \o <<"{", "}">> = T
    <3>1. First(T, 0) \o <<T[0 + 1], T[0 + 2]>> = First(T, 0 + 2)
      BY <2>3 DEF FirstTwo
    <3>2. First(T, 0) \o <<T[1], T[2]>> = First(T, 2)
      BY <2>2, <3>1, Zenon
    <3> QED BY <2>1, <3>2, Zenon
  <2>5. IsSeq(<<"{", "}">>)
    BY Two, Singles DEF IsTwo
  <2>6. Associate(before, First(T, 0), <<"{", "}">>)
    BY <2>3, <2>5, JoinedTwice
  <2>7. (before \o First(T, 0)) \o <<"{", "}">> = before \o T
    BY <2>4, <2>6 DEF Associate
  <2>8. TextSoFar(before, fields, 3 * L) = before \o First(T, 0)
    BY <2>2 DEF TextSoFar, T
  <2> QED BY <1>2, <2>7, <2>8 DEF T
<1>3. CASE L # 0
  <2>1. T = First(T, 3 * L + 1) /\ T[3 * L + 1] = "}"
    <3>1. L > 0
      BY <1>1, <1>3
    <3> QED BY <3>1, TypeTextIs
  <2> DEFINE i == 3 * L
  <2>2. T = First(T, i + 1) /\ T[i + 1] = "}" /\ i \in Nat
    BY <1>1, <2>1
  <2> HIDE DEF T, i
  <2>3. IsSeq(First(T, i)) /\ FirstOne(T, i)
    BY <2>2, FirstIs
  <2>4. First(T, i) \o <<"}">> = T
    BY <2>2, <2>3, Zenon DEF FirstOne
  <2>5. Associate(before, First(T, i), <<"}">>)
    BY <2>3, Singles, JoinedTwice
  <2>6. (before \o First(T, i)) \o <<"}">> = before \o T
    BY <2>4, <2>5 DEF Associate
  <2>7. TextSoFar(before, fields, 3 * L) = before \o First(T, i)
    BY DEF TextSoFar, T, i
  <2> QED BY <1>3, <2>6, <2>7 DEF T
<1> QED BY <1>2, <1>3

(* The values of j fields and the next one are those of j + 1 fields.      *)
LEMMA ValuesGrow ==
  ASSUME NEW before \in Seq(Nat), NEW contents, NEW j \in Nat, \A k \in 1 .. j + 1 : contents[k] \in Nat
  PROVE  /\ Append(ValuesSoFar(before, contents, j), contents[j + 1]) = ValuesSoFar(before, contents, j + 1)
         /\ Len(ValuesSoFar(before, contents, j)) = Len(before) + j
<1> DEFINE a == First(contents, j)
           x == contents[j + 1]
<1>1. a \in Seq(Nat) /\ x \in Nat /\ Len(a) = j
  <2>1. \A k \in 1 .. j : contents[k] \in Nat
    OBVIOUS
  <2> QED BY <2>1 DEF First
<1>2. a \o <<x>> = First(contents, j + 1)
  <2>1. FirstOne(contents, j)
    BY FirstIs
  <2> QED BY <2>1 DEF FirstOne
<1> HIDE DEF a, x
<1>3. before \o a \in Seq(Nat) /\ Len(before \o a) = Len(before) + j
  BY <1>1, ConcatProperties
<1>4. Append(before \o a, x) = (before \o a) \o <<x>>
  BY <1>1, <1>3, AppendIsConcat
<1>5. (before \o a) \o <<x>> = before \o (a \o <<x>>)
  <2>1. <<x>> \in Seq(Nat)
    BY <1>1
  <2> QED BY <1>1, <2>1, ConcatAssociative
<1> QED BY <1>2, <1>3, <1>4, <1>5 DEF ValuesSoFar, a, x

(* A type in a message: its fields and their contents, the text and the    *)
(* values before it, how many fields of the message are before it, and     *)
(* what decode runs behind it.                                             *)
IsAPart(t) ==
  /\ t.fields \in Seq(Fields) /\ t.start \in Nat /\ IsSeq(t.rest) /\ IsSeq(t.text)
  /\ t.values \in Seq(Nat) /\ Len(t.values) <= t.start
  /\ t.message \in Seq(Numbers) /\ t.start + Len(t.fields) <= Len(t.message)
  /\ \A k \in 1 .. Len(t.fields) : t.message[t.start + k] = Number(t.contents[k], t.fields[k].n)
  /\ t.contents = First(t.contents, Len(t.fields))

TextAt(t, k)    == TextSoFar(t.text, t.fields, k)
ValuesAt(t, j)  == ValuesSoFar(t.values, t.contents, j)
ShowsAt(t, j)   == Shows(t.fields, j, t.rest)
ClosesAt(t, j)  == Then(Do("end_key"), ShowsAt(t, j + 1))
AddsAt(t, j)    == Then(Do("add_value"), ClosesAt(t, j))

(* Before field j + 1, in front of its value, with its value and behind it. *)
AtName(r, s, t, j) ==
  Decodes(r, s, t.message, t.start + j, ShowsAt(t, j), TextAt(t, 3 * j), ValuesAt(t, j),
          IF j # 0 THEN "endkey" ELSE "startkey")
Named(r, s, t, j) ==
  Decodes(r, s, t.message, t.start + j, Then(Get(t.fields[j + 1].n), AddsAt(t, j)), TextAt(t, 3 * j + 2),
          ValuesAt(t, j), "startkey")
Got(r, s, t, j) ==
  /\ Decodes(r, s, t.message, t.start + (j + 1), AddsAt(t, j), TextAt(t, 3 * j + 2), ValuesAt(t, j), "startkey")
  /\ Value = t.contents[j + 1]
Added(r, s, t, j) ==
  Decodes(r, s, t.message, t.start + (j + 1), ClosesAt(t, j), TextAt(t, 3 * (j + 1)), ValuesAt(t, j + 1), "addvalue")

InType(r, s, t) ==
  \/ \E j \in 0 .. Len(t.fields) : AtName(r, s, t, j)
  \/ \E j \in 0 .. Len(t.fields) - 1 : Named(r, s, t, j) \/ Got(r, s, t, j) \/ Added(r, s, t, j)

(* The next of its fields.                                                 *)
LEMMA PartIs ==
  ASSUME NEW t, IsAPart(t), NEW j \in 0 .. Len(t.fields) - 1
  PROVE  /\ j \in Nat /\ j + 1 \in 0 .. Len(t.fields) /\ j + 1 # 0
         /\ t.start + j \in Nat /\ (t.start + j) + 1 = t.start + (j + 1) /\ t.start + j < Len(t.message)
         /\ t.message[(t.start + j) + 1].n = t.fields[j + 1].n
         /\ t.message[(t.start + j) + 1].v = t.contents[j + 1] /\ t.contents[j + 1] \in Nat
         /\ IsSeq(AddsAt(t, j)) /\ IsSeq(ClosesAt(t, j)) /\ IsSeq(ShowsAt(t, j + 1))
         /\ ShowsAt(t, j) = Then(start_key(t.fields[j + 1].name), Then(Get(t.fields[j + 1].n), AddsAt(t, j)))
         /\ IsSeq(Then(Get(t.fields[j + 1].n), AddsAt(t, j)))
         /\ Append(ValuesAt(t, j), t.contents[j + 1]) = ValuesAt(t, j + 1)
         /\ Len(ValuesAt(t, j)) < t.start + (j + 1)
<1>1. /\ t.fields \in Seq(Fields) /\ t.start \in Nat /\ IsSeq(t.rest) /\ IsSeq(t.text) /\ t.values \in Seq(Nat)
      /\ t.message \in Seq(Numbers)
      /\ Len(t.fields) \in Nat /\ Len(t.message) \in Nat /\ Len(t.values) \in Nat
      /\ Len(t.values) <= t.start /\ t.start + Len(t.fields) <= Len(t.message)
  BY LenProperties DEF IsAPart
<1>2. /\ j \in Nat /\ j + 1 \in 0 .. Len(t.fields) /\ j + 1 # 0
      /\ t.start + j \in Nat /\ (t.start + j) + 1 = t.start + (j + 1) /\ t.start + j < Len(t.message)
  <2> DEFINE n == Len(t.fields)
             a == t.start
             l == Len(t.message)
  <2>1. n \in Nat /\ a \in Nat /\ l \in Nat /\ a + n <= l /\ j \in 0 .. n - 1
    BY <1>1
  <2> HIDE DEF n, a, l
  <2>2. j \in Nat /\ j + 1 \in 0 .. n /\ j + 1 # 0 /\ a + j \in Nat /\ (a + j) + 1 = a + (j + 1) /\ a + j < l
    BY <2>1
  <2> QED BY <2>2 DEF n, a, l
<1>3. ASSUME NEW k \in 1 .. j + 1
      PROVE  /\ t.message[t.start + k].n = t.fields[k].n /\ t.message[t.start + k].v = t.contents[k]
             /\ t.contents[k] \in Nat
  <2>1. k \in 1 .. Len(t.fields) /\ t.start + k \in 1 .. Len(t.message)
    BY <1>1, <1>2, SMTT(30)
  <2>2. t.message[t.start + k] = Number(t.contents[k], t.fields[k].n) /\ t.message[t.start + k] \in Numbers
    BY <1>1, <2>1, ElementOfSeq DEF IsAPart
  <2> QED BY <2>2 DEF Number, Numbers
<1>4. /\ t.message[(t.start + j) + 1].n = t.fields[j + 1].n
      /\ t.message[(t.start + j) + 1].v = t.contents[j + 1] /\ t.contents[j + 1] \in Nat
  <2>1. j + 1 \in 1 .. j + 1
    BY <1>2
  <2> QED BY <1>2, <1>3, <2>1
<1>5. /\ ShowsAt(t, j) = Then(start_key(t.fields[j + 1].name), Then(Get(t.fields[j + 1].n), AddsAt(t, j)))
      /\ IsSeq(ShowsAt(t, j + 1))
  <2>1. ShowsOne(t.fields, j, t.rest)
    BY <1>1, ShowsOn
  <2> QED BY <2>1 DEF ShowsOne, ShowsAt, AddsAt, ClosesAt
<1>6. IsSeq(AddsAt(t, j)) /\ IsSeq(ClosesAt(t, j)) /\ IsSeq(Then(Get(t.fields[j + 1].n), AddsAt(t, j)))
  <2>1. IsSeq(ClosesAt(t, j))
    BY <1>5, Statements DEF ClosesAt
  <2>2. IsSeq(AddsAt(t, j))
    BY <2>1, Statements DEF AddsAt
  <2> QED BY <2>1, <2>2, Statements
<1>7. /\ Append(ValuesAt(t, j), t.contents[j + 1]) = ValuesAt(t, j + 1)
      /\ Len(ValuesAt(t, j)) = Len(t.values) + j
  <2>1. \A k \in 1 .. j + 1 : t.contents[k] \in Nat
    BY <1>3
  <2> QED BY <1>1, <1>2, <2>1, ValuesGrow DEF ValuesAt
<1>8. Len(ValuesAt(t, j)) < t.start + (j + 1)
  BY <1>1, <1>2, <1>7
<1> QED BY <1>2, <1>4, <1>5, <1>6, <1>7, <1>8

(* decode_<Type> runs.                                                     *)
LEMMA TypeIsRead ==
  ASSUME NEW r, NEW s, NEW t, IsAPart(t), NEW j \in 0 .. Len(t.fields) - 1, Next
  PROVE  /\ AtName(r, s, t, j) => Named(r, s, t, j)'
         /\ Named(r, s, t, j) => Got(r, s, t, j)'
         /\ Got(r, s, t, j) => Added(r, s, t, j)'
         /\ Added(r, s, t, j) => AtName(r, s, t, j + 1)'
<1> DEFINE f == t.fields[j + 1]
           m == t.start + j
           W == t.message
           v == t.contents[j + 1]
           text0 == TextAt(t, 3 * j)
           text1 == TextAt(t, 3 * j + 2)
           text2 == TextAt(t, 3 * (j + 1))
           vals0 == ValuesAt(t, j)
           vals1 == ValuesAt(t, j + 1)
           more == ShowsAt(t, j + 1)
<1>1. /\ j + 1 # 0 /\ m \in Nat /\ m + 1 = t.start + (j + 1) /\ m < Len(W)
      /\ W[m + 1].n = f.n /\ W[m + 1].v = v /\ v \in Nat
      /\ IsSeq(AddsAt(t, j)) /\ IsSeq(ClosesAt(t, j)) /\ IsSeq(more)
      /\ ShowsAt(t, j) = Then(start_key(f.name), Then(Get(f.n), AddsAt(t, j)))
      /\ IsSeq(Then(Get(f.n), AddsAt(t, j)))
      /\ Append(vals0, v) = vals1 /\ Len(vals0) < m + 1
  BY PartIs
<1>2. /\ text0 \o (IF j # 0 THEN <<",", f.name>> ELSE <<"{", f.name>>) = text1
      /\ text1 \o <<Text!Scalar>> = text2
      /\ text2 \o <<>> = text2
  BY TextGrows DEF IsAPart, TextAt
<1>3. ClosesAt(t, j) = Then(Do("end_key"), more) /\ AddsAt(t, j) = Then(Do("add_value"), ClosesAt(t, j))
  BY DEF ClosesAt, AddsAt
<1> HIDE DEF f, m, W, v, text0, text1, text2, vals0, vals1, more
<1>4. ASSUME AtName(r, s, t, j) PROVE Named(r, s, t, j)'
  <2> DEFINE command == IF j # 0 THEN "endkey" ELSE "startkey"
             rest == Then(Get(f.n), AddsAt(t, j))
  <2>1. Decodes(r, s, W, m, Then(start_key(f.name), rest), text0, vals0, command)
    BY <1>1, <1>4 DEF AtName, W, m, text0, vals0
  <2>2. (IF command = "endkey" THEN <<",", f.name>> ELSE <<"{", f.name>>)
          = (IF j # 0 THEN <<",", f.name>> ELSE <<"{", f.name>>)
    OBVIOUS
  <2>3. IsSeq(rest)
    BY <1>1
  <2> HIDE DEF command, rest
  <2>4. Decodes(r, s, W, m, rest, text0 \o (IF command = "endkey" THEN <<",", f.name>> ELSE <<"{", f.name>>),
                vals0, "startkey")'
    BY <2>1, <2>3, DecodesStart
  <2>5. Decodes(r, s, W, m, rest, text1, vals0, "startkey")'
    BY <1>2, <2>2, <2>4, Zenon
  <2> QED BY <2>5 DEF Named, W, m, rest, text1, vals0, f
<1>5. ASSUME Named(r, s, t, j) PROVE Got(r, s, t, j)'
  <2>1. Decodes(r, s, W, m, Then(Get(f.n), AddsAt(t, j)), text1, vals0, "startkey")
    BY <1>5 DEF Named, W, m, text1, vals0, f
  <2>2. Decodes(r, s, W, m + 1, AddsAt(t, j), text1, vals0, "startkey")' /\ Value' = W[m + 1].v
    BY <1>1, <2>1, DecodesGet
  <2>3. Value' = t.contents[j + 1]
    BY <1>1, <2>2 DEF v
  <2>4. Decodes(r, s, t.message, t.start + (j + 1), AddsAt(t, j), TextAt(t, 3 * j + 2), ValuesAt(t, j), "startkey")'
    BY <1>1, <2>2, Zenon DEF W, text1, vals0
  <2> QED BY <2>3, <2>4 DEF Got
<1>6. ASSUME Got(r, s, t, j) PROVE Added(r, s, t, j)'
  <2>1. Decodes(r, s, W, m + 1, Then(Do("add_value"), ClosesAt(t, j)), text1, vals0, "startkey") /\ Value = v
    BY <1>1, <1>3, <1>6 DEF Got, W, text1, vals0, v
  <2>2. Decodes(r, s, W, m + 1, ClosesAt(t, j), text1 \o <<Text!Scalar>>, Append(vals0, v), "addvalue")'
    BY <1>1, <2>1, DecodesValue
  <2>3. Decodes(r, s, W, t.start + (j + 1), ClosesAt(t, j), text2, vals1, "addvalue")'
    BY <1>1, <1>2, <2>2, Zenon
  <2> QED BY <2>3 DEF Added, W, text2, vals1
<1>7. ASSUME Added(r, s, t, j) PROVE AtName(r, s, t, j + 1)'
  <2> DEFINE none == IF "addvalue" = "endkey" THEN <<"}">> ELSE IF "addvalue" = "startkey" THEN <<"{", "}">> ELSE <<>>
  <2>1. Decodes(r, s, W, t.start + (j + 1), Then(Do("end_key"), more), text2, vals1, "addvalue")
    BY <1>3, <1>7 DEF Added, W, text2, vals1
  <2>2. Decodes(r, s, W, t.start + (j + 1), more, text2 \o none, vals1, "endkey")'
    BY <1>1, <2>1, DecodesEnd
  <2>3. none = <<>>
    OBVIOUS
  <2> HIDE DEF none
  <2>4. Decodes(r, s, W, t.start + (j + 1), more, text2, vals1, "endkey")'
    BY <1>2, <2>2, <2>3, Zenon
  <2>5. (IF j + 1 # 0 THEN "endkey" ELSE "startkey") = "endkey"
    BY <1>1
  <2> QED BY <2>4, <2>5 DEF AtName, W, more, text2, vals1
<1> QED BY <1>4, <1>5, <1>6, <1>7

(* Every step in it, but the last.                                         *)
LEMMA InTypeSteps ==
  ASSUME NEW r, NEW s, NEW t, IsAPart(t), Next, InType(r, s, t)
  PROVE  InType(r, s, t)' \/ AtName(r, s, t, Len(t.fields))
<1>1. Len(t.fields) \in Nat
  BY LenProperties DEF IsAPart
<1>2. ASSUME NEW j \in 0 .. Len(t.fields) - 1, AtName(r, s, t, j) \/ Named(r, s, t, j) \/ Got(r, s, t, j)
      PROVE  InType(r, s, t)'
  <2>1. Named(r, s, t, j)' \/ Got(r, s, t, j)' \/ Added(r, s, t, j)'
    BY <1>2, TypeIsRead
  <2> QED BY <2>1 DEF InType
<1>3. ASSUME NEW j \in 0 .. Len(t.fields) - 1, Added(r, s, t, j) PROVE InType(r, s, t)'
  <2>1. AtName(r, s, t, j + 1)' /\ j + 1 \in 0 .. Len(t.fields)
    BY <1>1, <1>3, TypeIsRead
  <2> QED BY <2>1 DEF InType
<1>4. \A j \in 0 .. Len(t.fields) : j \in 0 .. Len(t.fields) - 1 \/ j = Len(t.fields)
  BY <1>1
<1> QED BY <1>2, <1>3, <1>4 DEF InType

(* The last, which the element's end_key takes.                            *)
LEMMA TypeIsClosed ==
  ASSUME NEW r, NEW s, NEW t, IsAPart(t), NEW rest, t.rest = Then(Do("end_key"), rest), IsSeq(rest), Next,
         AtName(r, s, t, Len(t.fields))
  PROVE  Decodes(r, s, t.message, t.start + Len(t.fields), rest, t.text \o TypeText(t.fields), t.values \o t.contents,
                 "endkey")'
<1> DEFINE L == Len(t.fields)
           command == IF L # 0 THEN "endkey" ELSE "startkey"
           brace == IF command = "endkey" THEN <<"}">> ELSE IF command = "startkey" THEN <<"{", "}">> ELSE <<>>
           text == TextAt(t, 3 * L)
<1>1. ShowsAt(t, L) = t.rest
  <2>1. ShowsNone(t.fields, t.rest)
    BY ShowsOn DEF IsAPart
  <2> QED BY <2>1 DEF ShowsNone, ShowsAt
<1>2. ValuesAt(t, L) = t.values \o t.contents
  BY DEF IsAPart, ValuesAt, ValuesSoFar
<1>3. brace = (IF L # 0 THEN <<"}">> ELSE <<"{", "}">>)
  OBVIOUS
<1>4. text \o brace = t.text \o TypeText(t.fields)
  <2>1. text \o (IF L # 0 THEN <<"}">> ELSE <<"{", "}">>) = t.text \o TypeText(t.fields)
    BY TextEnds DEF IsAPart, TextAt
  <2> HIDE DEF brace, text
  <2> QED BY <1>3, <2>1, Zenon
<1>5. Decodes(r, s, t.message, t.start + L, Then(Do("end_key"), rest), text, t.values \o t.contents, command)
  BY <1>1, <1>2 DEF AtName
<1> HIDE DEF command, text, L
<1>6. Decodes(r, s, t.message, t.start + L, rest, text \o brace, t.values \o t.contents, "endkey")'
  BY <1>5, DecodesEnd
<1> HIDE DEF brace
<1>7. Decodes(r, s, t.message, t.start + L, rest, t.text \o TypeText(t.fields), t.values \o t.contents, "endkey")'
  BY <1>4, <1>6, Zenon
<1> QED BY <1>7 DEF L

(***************************************************************************)
(* The beginning of a message, under its own namespace and under another.  *)
(***************************************************************************)
MessageDone(r) == \/ r.ns \in V2GNamespaces /\ BodyDone(r)
                  \/ r.ns = "app_protocol" /\ AppDone(r)

Message(r) == First(Script(r), IF r.ns \in V2GNamespaces THEN BodyEnd(r) + 2 ELSE 2 + Len(AppFields(r)))

(* What decode is called with.                                             *)
Called(r, s) ==
  /\ request = r /\ ns = s /\ side = "decoder" /\ code = DecodeCalls(s)
  /\ MessageDone(r) /\ Reads(Message(r), 0, TRUE)
  /\ output_data = <<>> /\ values = <<>> /\ last_command = "nocmd"

(* The fields at its beginning, as the namespace s reads them.             *)
Own(r, s, W)     == s = r.ns /\ MessageDone(r) /\ W = Message(r)
Foreign(r, s, W) == /\ s # r.ns
                    /\ s \in V2GNamespaces => W[2].v # message_id(s)
                    /\ s = "app_protocol" => W[2].v = 2
Begins(r, s, W)  == /\ Own(r, s, W) \/ Foreign(r, s, W)
                    /\ W \in Seq(Numbers) /\ Len(W) >= 2 /\ W[1] = Number(128, 8)
                    /\ s \in V2GNamespaces => W[2].n = 7
                    /\ s = "app_protocol" => W[2].n = 2

(* The message of a request.                                               *)
LEMMA MessageIs ==
  ASSUME NEW r \in Requests, MessageDone(r)
  PROVE  /\ Len(Message(r)) \in Nat /\ Len(Message(r)) >= 2 /\ Message(r) # <<>>
         /\ Message(r)[1] = Number(128, 8)
         /\ \A k \in 1 .. Len(Message(r)) : Message(r)[k] = Script(r)[k]
         /\ r.ns \in V2GNamespaces =>
              /\ Len(Message(r)) = BodyEnd(r) + 2 /\ Message(r)[2] = Number(message_id(r.ns), 7)
         /\ r.ns = "app_protocol" =>
              /\ Len(Message(r)) = 2 + Len(AppFields(r)) /\ Message(r)[2] = Number(AppPlaceOf(r) - 1, 2)
              /\ AppPlaceOf(r) \in {1, 2} /\ r.ns \notin V2GNamespaces
<1> DEFINE n == IF r.ns \in V2GNamespaces THEN BodyEnd(r) + 2 ELSE 2 + Len(AppFields(r))
<1>1. n \in Nat /\ n >= 2
  <2>1. CASE r.ns \in V2GNamespaces
    <3>1. BodyDone(r)
      BY <2>1 DEF MessageDone, V2GNamespaces
    <3>2. BodyFields(r) \in Seq(Fields)
      BY <2>1, <3>1, BodyFoundIs DEF BodyDone, BodyGood, HeaderDone, HeaderGood
    <3>3. Len(BodyFields(r)) \in Nat /\ Len(HeaderFields(r.ns)) \in Nat
      BY <2>1, <3>2, HeaderIsAType, LenProperties
    <3> QED BY <2>1, <3>3 DEF BodyEnd, BodyStart
  <2>2. CASE r.ns \notin V2GNamespaces
    <3>1. AppFields(r) \in Seq(Fields)
      BY <2>2, AppFoundIs DEF MessageDone, AppDone, AppGood
    <3> QED BY <2>2, <3>1, LenProperties
  <2> QED BY <2>1, <2>2
<1>2. Message(r) = First(Script(r), n)
  BY DEF Message
<1> HIDE DEF n
<1>3. Len(Message(r)) = n /\ \A k \in 1 .. n : Message(r)[k] = Script(r)[k]
  BY <1>1, <1>2, FirstIs DEF First
<1>4. 1 \in 1 .. n /\ 2 \in 1 .. n
  BY <1>1
<1>5. Message(r)[1] = Script(r)[1] /\ Message(r)[2] = Script(r)[2]
  BY <1>3, <1>4
<1>6. Message(r) # <<>>
  BY <1>1, <1>3
<1>7. CASE r.ns \in V2GNamespaces
  <2>1. Message(r)[1] = Number(128, 8) /\ Message(r)[2] = Number(message_id(r.ns), 7)
    BY <1>5, <1>7, V2GScriptIs
  <2>2. r.ns # "app_protocol"
    BY <1>7 DEF V2GNamespaces
  <2> QED BY <1>1, <1>3, <1>6, <1>7, <2>1, <2>2 DEF n
<1>8. CASE r.ns \notin V2GNamespaces
  <2>1. Message(r)[1] = Number(128, 8) /\ Message(r)[2] = Number(AppPlaceOf(r) - 1, 2)
    BY <1>5, <1>8, AppScriptIs
  <2>2. AppPlaceOf(r) \in {1, 2}
    BY <1>8, AppPlaces DEF MessageDone, AppDone, AppGood
  <2> QED BY <1>1, <1>3, <1>6, <1>8, <2>1, <2>2 DEF n
<1> QED BY <1>7, <1>8

(* A message is read in whole, or as much of it as is known.               *)
LEMMA ReadsAlso ==
  ASSUME NEW W, NEW m, NEW whole
  PROVE  /\ Reads(W, m, TRUE) => Reads(W, m, whole)
         /\ ~whole /\ Reads(W, m, FALSE) => Reads(W, m, whole)
<1>1. Reads(W, m, TRUE) => Reads(W, m, whole)
  BY DEF Reads, Stands
<1>2. ~whole /\ Reads(W, m, FALSE) => Reads(W, m, whole)
  BY DEF Reads, Stands
<1> QED BY <1>1, <1>2

(* Every namespace finds a field of its own width where its number is; it  *)
(* is its number in its own messages only.                                 *)
LEMMA CalledReads ==
  ASSUME NEW r \in Requests, NEW s \in Namespaces, Called(r, s)
  PROVE  \E W : Begins(r, s, W) /\ Decodes(r, s, W, 0, DecodeCalls(s), <<>>, <<>>, "nocmd")
<1> DEFINE M == Message(r)
<1>1. MessageDone(r) /\ Reads(M, 0, TRUE) /\ M \in Seq(Numbers)
  BY DEF Called, Reads, Stands
<1>2. Len(M) \in Nat /\ Len(M) >= 2 /\ M[1] = Number(128, 8)
  BY <1>1, MessageIs
<1>3. SUFFICES ASSUME NEW W, Begins(r, s, W), Reads(W, 0, s = r.ns)
               PROVE  Decodes(r, s, W, 0, DecodeCalls(s), <<>>, <<>>, "nocmd")
  <2>1. \E W : Begins(r, s, W) /\ Reads(W, 0, s = r.ns)
    <3>1. CASE s = r.ns
      <4>1. Own(r, s, M)
        BY <1>1, <3>1 DEF Own
      <4>2. (s \in V2GNamespaces => M[2].n = 7) /\ (s = "app_protocol" => M[2].n = 2)
        <5>1. /\ r.ns \in V2GNamespaces => M[2] = Number(message_id(r.ns), 7)
              /\ r.ns = "app_protocol" => M[2] = Number(AppPlaceOf(r) - 1, 2)
          BY <1>1, MessageIs
        <5>2. \A v, n : Number(v, n).n = n
          BY DEF Number
        <5> HIDE DEF M
        <5> QED BY <3>1, <5>1, <5>2
      <4>3. Reads(M, 0, s = r.ns)
        BY <1>1, ReadsAlso
      <4> HIDE DEF M
      <4> QED BY <1>1, <1>2, <4>1, <4>2, <4>3 DEF Begins
    <3>2. CASE s # r.ns /\ r.ns \in V2GNamespaces /\ s # "app_protocol"
      <4>1. M[2] = Number(message_id(r.ns), 7)
        BY <1>1, <3>2, MessageIs
      <4>2. s \in V2GNamespaces => message_id(r.ns) # message_id(s)
        BY <3>2 DEF message_id, V2GNamespaces
      <4>3. Reads(M, 0, s = r.ns)
        BY <1>1, ReadsAlso
      <4>4. Foreign(r, s, M)
        BY <3>2, <4>1, <4>2 DEF Foreign, Number
      <4>5. (s \in V2GNamespaces => M[2].n = 7) /\ (s = "app_protocol" => M[2].n = 2)
        BY <3>2, <4>1 DEF Number
      <4> HIDE DEF M
      <4> QED BY <1>1, <1>2, <4>3, <4>4, <4>5 DEF Begins
    <3>3. CASE r.ns \in V2GNamespaces /\ s = "app_protocol"
      <4> DEFINE W == <<Number(128, 8), Number(2, 2)>>
      <4>1. M[2] = Number(message_id(r.ns), 7) /\ message_id(r.ns) \in {76, 77} /\ s # r.ns /\ s \notin V2GNamespaces
        BY <1>1, <3>3, MessageIs DEF message_id, V2GNamespaces
      <4>2. Reads(W, 0, FALSE)
        <5> HIDE DEF M
        <5> QED BY <1>1, <1>2, <4>1, V2GAsApp
      <4>3. Reads(W, 0, s = r.ns)
        BY <4>1, <4>2, ReadsAlso
      <4>4. Len(W) = 2 /\ W[1] = Number(128, 8) /\ W[2].v = 2 /\ W[2].n = 2
        BY DEF Number
      <4>5. W \in Seq(Numbers)
        BY <4>2 DEF Reads, Stands
      <4> HIDE DEF W
      <4> QED BY <4>1, <4>3, <4>4, <4>5 DEF Begins, Foreign
    <3>4. CASE s # r.ns /\ r.ns = "app_protocol" /\ s \in V2GNamespaces
      <4>1. M[2] = Number(AppPlaceOf(r) - 1, 2) /\ AppPlaceOf(r) - 1 \in {0, 1}
        BY <1>1, <3>4, MessageIs
      <4>2. PICK v \in 0 .. 63 : Reads(<<Number(128, 8), Number(v, 7)>>, 0, FALSE)
        <5> HIDE DEF M
        <5> QED BY <1>1, <1>2, <4>1, AppAsV2G
      <4> DEFINE W == <<Number(128, 8), Number(v, 7)>>
      <4>3. Reads(W, 0, s = r.ns)
        BY <3>4, <4>2, ReadsAlso
      <4>4. Len(W) = 2 /\ W[1] = Number(128, 8) /\ W[2].v = v /\ W[2].n = 7
        BY DEF Number
      <4>5. W \in Seq(Numbers)
        BY <4>2 DEF Reads, Stands
      <4>6. v # message_id(s) /\ s # "app_protocol"
        BY <3>4 DEF message_id, V2GNamespaces
      <4> HIDE DEF W
      <4> QED BY <3>4, <4>3, <4>4, <4>5, <4>6 DEF Begins, Foreign
    <3>5. CASE s # r.ns /\ r.ns = "app_protocol" /\ s \notin V2GNamespaces
      <4>1. s # "app_protocol"
        BY <3>5
      <4>2. Reads(M, 0, s = r.ns)
        BY <1>1, ReadsAlso
      <4> HIDE DEF M
      <4> QED BY <1>1, <1>2, <3>5, <4>1, <4>2 DEF Begins, Foreign
    <3>6. r.ns \in V2GNamespaces \/ r.ns = "app_protocol"
      BY <1>1 DEF MessageDone
    <3> QED BY <3>1, <3>2, <3>3, <3>4, <3>5, <3>6
  <2> QED BY <1>3, <2>1
<1>4. <<>> \in Seq(Nat) /\ Len(<<>>) <= 0 /\ "nocmd" \in Text!Commands
  BY DEF Text!Commands
<1> QED BY <1>3, <1>4 DEF Called, Decodes

(* The prologue, which every message has.                                  *)
DecodeRest(n) ==
  IF n \in V2GNamespaces THEN Then(Get(7), Then(Expect(message_id(n)), MessageShown(n)))
  ELSE IF n = "app_protocol" THEN Then(Get(2), Then(Do("decode_app_protocol"), End))
  ELSE Then(Do("throw"), End)

Prologue(r, s, W) ==
  \/ Decodes(r, s, W, 1, Then(Expect(128), DecodeRest(s)), <<>>, <<>>, "nocmd") /\ Value = 128
  \/ Decodes(r, s, W, 1, DecodeRest(s), <<>>, <<>>, "nocmd")

Identified(r, s, W) ==
  \/ /\ s \in V2GNamespaces /\ Value = W[2].v
     /\ Decodes(r, s, W, 2, Then(Expect(message_id(s)), MessageShown(s)), <<>>, <<>>, "nocmd")
  \/ /\ s = "app_protocol" /\ Value = W[2].v
     /\ Decodes(r, s, W, 2, Then(Do("decode_app_protocol"), End), <<>>, <<>>, "nocmd")

(* The fields at the beginning are read; another number than that of the   *)
(* namespace is refused.                                                   *)
LEMMA PrologueIsRead ==
  ASSUME NEW r \in Requests, NEW s \in Namespaces, NEW W, Begins(r, s, W), Next,
         Decodes(r, s, W, 0, DecodeCalls(s), <<>>, <<>>, "nocmd") \/ Prologue(r, s, W)
  PROVE  Prologue(r, s, W)' \/ Identified(r, s, W)' \/ Thrown(r, s)'
<1> DEFINE v2gRest == Then(Expect(message_id(s)), MessageShown(s))
           appRest == Then(Do("decode_app_protocol"), End)
           noRest  == Then(Do("throw"), End)
<1>0. /\ s \in V2GNamespaces => IsSeq(v2gRest)
      /\ IsSeq(appRest) /\ IsSeq(noRest) /\ IsSeq(DecodeRest(s))
  <2>1. s \in V2GNamespaces => IsSeq(v2gRest) /\ IsSeq(Then(Get(7), v2gRest))
    BY Parts, Statements
  <2>2. IsSeq(appRest) /\ IsSeq(Then(Get(2), appRest))
    BY Parts, Statements
  <2>3. IsSeq(noRest)
    BY Parts, Statements
  <2> QED BY <2>1, <2>2, <2>3 DEF DecodeRest
<1>1. CASE Decodes(r, s, W, 0, DecodeCalls(s), <<>>, <<>>, "nocmd")
  <2> DEFINE rest == Then(Expect(128), DecodeRest(s))
  <2>1. DecodeCalls(s) = Then(Get(8), rest)
    BY DEF DecodeCalls, DecodeRest
  <2>2. IsSeq(rest) /\ 0 < Len(W) /\ W[0 + 1].n = 8 /\ W[0 + 1].v = 128 /\ 0 + 1 = 1
    <3>1. IsSeq(rest)
      BY <1>0, Statements
    <3> QED BY <3>1, LenProperties DEF Begins, Number
  <2>3. Decodes(r, s, W, 0, Then(Get(8), rest), <<>>, <<>>, "nocmd")
    BY <1>1, <2>1
  <2> HIDE DEF rest
  <2>4. Decodes(r, s, W, 0 + 1, rest, <<>>, <<>>, "nocmd")' /\ Value' = W[0 + 1].v
    BY <2>2, <2>3, DecodesGet
  <2>5. Decodes(r, s, W, 1, rest, <<>>, <<>>, "nocmd")' /\ Value' = 128
    BY <2>2, <2>4, Zenon
  <2> QED BY <2>5 DEF Prologue, rest
<1>2. CASE Decodes(r, s, W, 1, Then(Expect(128), DecodeRest(s)), <<>>, <<>>, "nocmd") /\ Value = 128
  <2>1. Decodes(r, s, W, 1, DecodeRest(s), <<>>, <<>>, "nocmd")'
    BY <1>0, <1>2, DecodesExpect
  <2> QED BY <2>1 DEF Prologue
<1>3. CASE Decodes(r, s, W, 1, DecodeRest(s), <<>>, <<>>, "nocmd")
  <2>0. 1 < Len(W) /\ 1 + 1 = 2
    BY LenProperties DEF Begins
  <2>1. CASE s \in V2GNamespaces
    <3>1. Decodes(r, s, W, 1, Then(Get(7), v2gRest), <<>>, <<>>, "nocmd") /\ W[1 + 1].n = 7 /\ IsSeq(v2gRest)
      BY <1>0, <1>3, <2>0, <2>1 DEF DecodeRest, Begins
    <3> HIDE DEF v2gRest
    <3>2. Decodes(r, s, W, 1 + 1, v2gRest, <<>>, <<>>, "nocmd")' /\ Value' = W[1 + 1].v
      BY <2>0, <3>1, DecodesGet
    <3>3. Decodes(r, s, W, 2, v2gRest, <<>>, <<>>, "nocmd")' /\ Value' = W[2].v
      BY <2>0, <3>2, Zenon
    <3> QED BY <2>1, <3>3 DEF Identified, v2gRest
  <2>2. CASE s = "app_protocol"
    <3>0. s \notin V2GNamespaces
      BY <2>2 DEF V2GNamespaces
    <3>1. Decodes(r, s, W, 1, Then(Get(2), appRest), <<>>, <<>>, "nocmd") /\ W[1 + 1].n = 2 /\ IsSeq(appRest)
      BY <1>0, <1>3, <2>0, <2>2, <3>0 DEF DecodeRest, Begins
    <3> HIDE DEF appRest
    <3>2. Decodes(r, s, W, 1 + 1, appRest, <<>>, <<>>, "nocmd")' /\ Value' = W[1 + 1].v
      BY <2>0, <3>1, DecodesGet
    <3>3. Decodes(r, s, W, 2, appRest, <<>>, <<>>, "nocmd")' /\ Value' = W[2].v
      BY <2>0, <3>2, Zenon
    <3> QED BY <2>2, <3>3 DEF Identified, appRest
  <2>3. CASE s \notin V2GNamespaces /\ s # "app_protocol"
    <3>1. Decodes(r, s, W, 1, noRest, <<>>, <<>>, "nocmd")
      BY <1>3, <2>3 DEF DecodeRest
    <3>2. Running(Do("throw"), End)
      BY <3>1, Parts, DecodesRuns
    <3>3. Fails
      BY <3>2, ThrowRuns
    <3>4. s # r.ns
      BY <2>3 DEF Begins, Own, Foreign, MessageDone
    <3> QED BY <3>1, <3>3, <3>4, DecodesFails
  <2> QED BY <2>1, <2>2, <2>3
<1> QED BY <1>1, <1>2, <1>3 DEF Prologue

(* A message of another namespace is refused.                              *)
LEMMA ForeignIsRefused ==
  ASSUME NEW r \in Requests, NEW s \in Namespaces, NEW W, Begins(r, s, W), s # r.ns, Next, Identified(r, s, W)
  PROVE  Thrown(r, s)'
<1>0. Foreign(r, s, W)
  BY DEF Begins, Own
<1>1. CASE /\ s \in V2GNamespaces /\ Value = W[2].v
           /\ Decodes(r, s, W, 2, Then(Expect(message_id(s)), MessageShown(s)), <<>>, <<>>, "nocmd")
  <2>1. Value # message_id(s) /\ IsSeq(MessageShown(s))
    BY <1>0, <1>1, Parts DEF Foreign
  <2>2. Fails
    BY <1>1, <2>1, DecodesExpect
  <2> QED BY <1>1, <2>2, DecodesFails
<1>2. CASE /\ s = "app_protocol" /\ Value = W[2].v
           /\ Decodes(r, s, W, 2, Then(Do("decode_app_protocol"), End), <<>>, <<>>, "nocmd")
  <2>1. Running(Do("decode_app_protocol"), End) /\ ns = "app_protocol"
    BY <1>2, Parts, DecodesRuns
  <2>2. Value = 2
    BY <1>0, <1>2 DEF Foreign
  <2>3. Fails
    <3>1. \A i \in DOMAIN AppMessages : i \in {1, 2}
      BY DEF AppMessages
    <3>2. \A i \in DOMAIN AppMessages : Value # i - 1
      BY <2>2, <3>1
    <3> QED BY <2>1, <3>2, DecodeAppRuns
  <2> QED BY <1>2, <2>3, DecodesFails
<1> QED BY <1>1, <1>2 DEF Identified

(***************************************************************************)
(* A message of a V2G namespace, under its own.                            *)
(***************************************************************************)
OwnV2G(r, s) == s = r.ns /\ r.ns \in V2GNamespaces /\ BodyDone(r)

HeaderValues(r) == Contents(HeaderOf(r), HeaderFields(r.ns))
HeaderSaid(r)   == HeaderText \o TypeText(HeaderFields(r.ns))
BodyText(r)     == HeaderSaid(r) \o <<",", "Body", "{", KeyOf(r)>>

HeaderPart(r) ==
  [fields |-> HeaderFields(r.ns), contents |-> HeaderValues(r), text |-> HeaderText, values |-> <<>>,
   start |-> 3, rest |-> BodyShown, message |-> Message(r)]

BodyPart(r) ==
  [fields |-> BodyFields(r), contents |-> Contents(ObjectOf(r), BodyFields(r)), text |-> BodyText(r),
   values |-> HeaderValues(r), start |-> BodyStart(r), rest |-> BodyEnds, message |-> Message(r)]

(* The contents of a type's fields, when they are fields of a message.     *)
LEMMA ContentsAre ==
  ASSUME NEW object, NEW fields \in Seq(Fields), NEW M \in Seq(Numbers), NEW start \in Nat,
         start + Len(fields) <= Len(M), \A k \in 1 .. Len(fields) : M[start + k] = Content(object, fields[k])
  PROVE  /\ \A k \in 1 .. Len(fields) : M[start + k] = Number(Contents(object, fields)[k], fields[k].n)
         /\ Contents(object, fields) = First(Contents(object, fields), Len(fields))
         /\ Contents(object, fields) \in Seq(Nat) /\ Len(Contents(object, fields)) = Len(fields)
<1> DEFINE C == Contents(object, fields)
           n == Len(fields)
<1>1. n \in Nat /\ DOMAIN fields = 1 .. n /\ Len(M) \in Nat
  BY LenProperties
<1>2. C = [k \in 1 .. n |-> object.content[fields[k].name].content]
  BY <1>1 DEF Contents
<1>3. C = [k \in 1 .. n |-> C[k]] /\ \A k \in 1 .. n : C[k] = object.content[fields[k].name].content
  BY <1>2
<1> HIDE DEF C
<1>4. ASSUME NEW k \in 1 .. n PROVE M[start + k] = Number(C[k], fields[k].n) /\ C[k] \in Nat
  <2>1. M[start + k] = Number(C[k], fields[k].n)
    BY <1>3 DEF Content
  <2>2. start + k \in 1 .. Len(M)
    BY <1>1
  <2>3. M[start + k] \in Numbers
    BY <2>2, ElementOfSeq
  <2> QED BY <2>1, <2>3 DEF Number, Numbers
<1>5. C = First(C, n)
  BY <1>3 DEF First
<1>6. C \in Seq(Nat) /\ Len(C) = n
  <2> HIDE DEF n
  <2>1. [k \in 1 .. n |-> C[k]] \in Seq(Nat) /\ Len([k \in 1 .. n |-> C[k]]) = n
    BY <1>1, <1>4 DEF n
  <2> QED BY <1>3, <2>1
<1> QED BY <1>4, <1>5, <1>6 DEF C

(* The header is a part of its own message, between the fields that are    *)
(* around it.                                                              *)
LEMMA HeaderIsAPart ==
  ASSUME NEW r \in Requests, NEW s, OwnV2G(r, s), Message(r) \in Seq(Numbers)
  PROVE  /\ IsAPart(HeaderPart(r)) /\ HeaderValues(r) \in Seq(Nat) /\ Len(HeaderValues(r)) = Len(HeaderFields(r.ns))
         /\ Message(r)[3] = Number(0, 1) /\ Message(r)[HeaderEnd(r) + 1] = Number(0, 1)
         /\ Message(r)[HeaderEnd(r) + 2] = Number(PlaceOf(r) - 1, 6)
         /\ HeaderEnd(r) \in Nat /\ HeaderEnd(r) + 2 <= Len(Message(r)) /\ 3 <= HeaderEnd(r)
         /\ Message(r)[BodyEnd(r) + 1] = Number(0, 1) /\ Message(r)[BodyEnd(r) + 2] = Number(0, 1)
         /\ Len(Message(r)) = BodyEnd(r) + 2
<1> DEFINE F == HeaderFields(r.ns)
           M == Message(r)
           L == Len(F)
           B == Len(BodyFields(r))
<1>1. /\ L \in Nat /\ F \in Seq(Fields) /\ MessageDone(r) /\ B \in Nat
      /\ BodyEnd(r) = (5 + L) + B /\ HeaderEnd(r) = 3 + L
  <2>1. BodyFields(r) \in Seq(Fields)
    BY BodyFoundIs DEF OwnV2G, BodyDone, BodyGood, HeaderDone, HeaderGood
  <2> QED BY <2>1, HeaderIsAType, LenProperties DEF OwnV2G, MessageDone, BodyEnd, BodyStart, HeaderEnd
<1>2. Len(M) = BodyEnd(r) + 2 /\ \A k \in 1 .. Len(M) : M[k] = Script(r)[k]
  BY <1>1, MessageIs DEF OwnV2G
<1>3. /\ Script(r)[3] = Number(0, 1) /\ Script(r)[HeaderEnd(r) + 1] = Number(0, 1)
      /\ Script(r)[HeaderEnd(r) + 2] = Number(PlaceOf(r) - 1, 6)
      /\ \A k \in 1 .. L : Script(r)[3 + k] = Content(HeaderOf(r), F[k])
      /\ Script(r)[BodyEnd(r) + 1] = Number(0, 1) /\ Script(r)[BodyEnd(r) + 2] = Number(0, 1)
  BY <1>1, V2GScriptIs DEF OwnV2G
<1>4. /\ 3 \in 1 .. Len(M) /\ HeaderEnd(r) + 1 \in 1 .. Len(M) /\ HeaderEnd(r) + 2 \in 1 .. Len(M) /\ 3 + L <= Len(M)
      /\ HeaderEnd(r) \in Nat /\ HeaderEnd(r) + 2 <= Len(M) /\ 3 <= HeaderEnd(r)
      /\ \A k \in 1 .. L : 3 + k \in 1 .. Len(M)
      /\ BodyEnd(r) + 1 \in 1 .. Len(M) /\ BodyEnd(r) + 2 \in 1 .. Len(M)
  <2> HIDE DEF L, B
  <2>1. Len(M) = ((5 + L) + B) + 2
    BY <1>1, <1>2
  <2> HIDE DEF M
  <2> QED BY <1>1, <2>1
<1> HIDE DEF M, F
<1>5. M \in Seq(Numbers) /\ \A k \in 1 .. L : M[3 + k] = Content(HeaderOf(r), F[k])
  BY <1>2, <1>3, <1>4 DEF M
<1>6. /\ \A k \in 1 .. L : M[3 + k] = Number(Contents(HeaderOf(r), F)[k], F[k].n)
      /\ Contents(HeaderOf(r), F) = First(Contents(HeaderOf(r), F), L)
      /\ Contents(HeaderOf(r), F) \in Seq(Nat) /\ Len(Contents(HeaderOf(r), F)) = L
  BY <1>1, <1>4, <1>5, ContentsAre
<1>7. IsSeq(HeaderText) /\ IsSeq(BodyShown) /\ <<>> \in Seq(Nat) /\ Len(<<>>) <= 3
  <2>1. IsFour("{", "V2G_Message", "{", "Header", <<>>)
    BY Four, Singles
  <2>2. IsSeq(HeaderText)
    BY <2>1 DEF IsFour, HeaderText
  <2>3. <<>> \in Seq(Nat) /\ Len(<<>>) <= 3
    OBVIOUS
  <2> QED BY <2>2, <2>3, Parts
<1>8. IsAPart(HeaderPart(r))
  <2> DEFINE t == HeaderPart(r)
  <2>1. /\ t.fields = F /\ t.contents = Contents(HeaderOf(r), F) /\ t.text = HeaderText /\ t.values = <<>> /\ t.start = 3
        /\ t.rest = BodyShown /\ t.message = M
    BY DEF HeaderPart, HeaderValues, F, M
  <2> HIDE DEF t
  <2>2. IsAPart(t)
    BY <1>1, <1>4, <1>5, <1>6, <1>7, <2>1 DEF IsAPart
  <2> QED BY <2>2 DEF t
<1> QED BY <1>2, <1>3, <1>4, <1>6, <1>8 DEF HeaderValues, M, F

(* So is the message in its body, behind the number of its element.        *)
LEMMA BodyIsAPart ==
  ASSUME NEW r \in Requests, NEW s, OwnV2G(r, s), Message(r) \in Seq(Numbers)
  PROVE  /\ IsAPart(BodyPart(r))
         /\ PlaceOf(r) \in DOMAIN elements[r.ns] /\ PlaceOf(r) \in 1 .. 64
         /\ elements[r.ns][PlaceOf(r)].name = KeyOf(r) /\ HasFunctions(r.ns, elements[r.ns][PlaceOf(r)])
         /\ BodyFields(r) \in Seq(Fields)
         /\ Len(BodyFields(r)) \in Nat /\ BodyStart(r) \in Nat /\ BodyStart(r) = HeaderEnd(r) + 2
<1> DEFINE F == BodyFields(r)
           M == Message(r)
           L == Len(HeaderFields(r.ns))
           B == Len(F)
<1>1. /\ F \in Seq(Fields) /\ PlaceOf(r) \in DOMAIN elements[r.ns] /\ PlaceOf(r) \in 1 .. 64
      /\ elements[r.ns][PlaceOf(r)].name = KeyOf(r) /\ HasFunctions(r.ns, elements[r.ns][PlaceOf(r)])
  BY BodyFoundIs DEF OwnV2G, BodyDone, BodyGood, HeaderDone, HeaderGood
<1>2. /\ L \in Nat /\ B \in Nat /\ MessageDone(r)
      /\ BodyEnd(r) = (5 + L) + B /\ BodyStart(r) = 5 + L /\ HeaderEnd(r) = 3 + L
  BY <1>1, HeaderIsAType, LenProperties DEF OwnV2G, MessageDone, BodyEnd, BodyStart, HeaderEnd
<1>3. Len(M) = BodyEnd(r) + 2 /\ \A k \in 1 .. Len(M) : M[k] = Script(r)[k]
  BY <1>2, MessageIs DEF OwnV2G
<1>4. \A k \in 1 .. B : Script(r)[BodyStart(r) + k] = Content(ObjectOf(r), F[k])
  BY <1>2, V2GScriptIs DEF OwnV2G
<1>5. /\ BodyStart(r) \in Nat /\ BodyStart(r) + B <= Len(M) /\ \A k \in 1 .. B : BodyStart(r) + k \in 1 .. Len(M)
      /\ BodyStart(r) = HeaderEnd(r) + 2
  <2> HIDE DEF L, B
  <2>1. Len(M) = ((5 + L) + B) + 2
    BY <1>2, <1>3
  <2> HIDE DEF M
  <2> QED BY <1>2, <2>1
<1> HIDE DEF M, F
<1>6. M \in Seq(Numbers) /\ \A k \in 1 .. B : M[BodyStart(r) + k] = Content(ObjectOf(r), F[k])
  BY <1>3, <1>4, <1>5 DEF M
<1>7. /\ \A k \in 1 .. B : M[BodyStart(r) + k] = Number(Contents(ObjectOf(r), F)[k], F[k].n)
      /\ Contents(ObjectOf(r), F) = First(Contents(ObjectOf(r), F), B)
  BY <1>1, <1>5, <1>6, ContentsAre
<1>8. IsSeq(BodyText(r))
  <2>1. IsFour(",", "Body", "{", KeyOf(r), <<>>)
    BY Four, Singles
  <2>2. IsFour("{", "V2G_Message", "{", "Header", <<>>)
    BY Four, Singles
  <2>3. IsSeq(TypeText(HeaderFields(r.ns)))
    <3>1. HeaderFields(r.ns) \in Seq(Fields)
      BY HeaderIsAType DEF OwnV2G
    <3>2. Len(HeaderFields(r.ns)) \in Nat /\ 3 * Len(HeaderFields(r.ns)) + 1 \in Nat
      BY <3>1, LenProperties
    <3>3. \/ TypeText(HeaderFields(r.ns)) = First(TypeText(HeaderFields(r.ns)), 2)
          \/ TypeText(HeaderFields(r.ns)) = First(TypeText(HeaderFields(r.ns)), 3 * Len(HeaderFields(r.ns)) + 1)
      <4>1. Len(HeaderFields(r.ns)) = 0 \/ Len(HeaderFields(r.ns)) > 0
        BY <3>2
      <4> QED BY <3>1, <4>1, TypeTextIs
    <3> QED BY <3>2, <3>3, FirstIs
  <2>4. IsSeq(HeaderSaid(r))
    BY <2>2, <2>3, Joined DEF IsFour, HeaderSaid, HeaderText
  <2>5. IsSeq(<<",", "Body", "{", KeyOf(r)>>)
    BY <2>1 DEF IsFour
  <2> QED BY <2>4, <2>5, Joined DEF BodyText
<1>9. HeaderValues(r) \in Seq(Nat) /\ Len(HeaderValues(r)) <= BodyStart(r) /\ IsSeq(BodyEnds)
  <2>1. HeaderValues(r) \in Seq(Nat) /\ Len(HeaderValues(r)) = L
    BY HeaderIsAPart
  <2> QED BY <1>2, <2>1, Parts
<1>10. IsAPart(BodyPart(r))
  <2> DEFINE t == BodyPart(r)
  <2>1. /\ t.fields = F /\ t.contents = Contents(ObjectOf(r), F) /\ t.text = BodyText(r) /\ t.values = HeaderValues(r)
        /\ t.start = BodyStart(r) /\ t.rest = BodyEnds /\ t.message = M
    BY DEF BodyPart, F, M
  <2> HIDE DEF t
  <2>2. IsAPart(t)
    BY <1>1, <1>5, <1>6, <1>7, <1>8, <1>9, <2>1 DEF IsAPart
  <2> QED BY <2>2 DEF t
<1> QED BY <1>1, <1>2, <1>5, <1>10 DEF F

(* Where the decoder is in it: at its beginning, in its header, between    *)
(* the two types, in its body, and at its end.                             *)
HeaderShown(r) == Then(start_key("Header"), Shows(HeaderFields(r.ns), 0, BodyShown))
NumberShown    == Then(Do("decodeBody"), BodyEnds)
Root           == <<"{", "V2G_Message">>

V2GOpens(r, s) ==
  LET M == Message(r) IN
  \/ Decodes(r, s, M, 2, MessageShown(r.ns), <<>>, <<>>, "nocmd")
  \/ Decodes(r, s, M, 2, Then(Get(1), Then(Expect(0), HeaderShown(r))), Root, <<>>, "startkey")
  \/ Decodes(r, s, M, 3, Then(Expect(0), HeaderShown(r)), Root, <<>>, "startkey") /\ Value = 0
  \/ Decodes(r, s, M, 3, HeaderShown(r), Root, <<>>, "startkey")

BodyKeyText(r) == HeaderSaid(r) \o <<",", "Body">>

Fetching(r, s) ==
  /\ request = r /\ ns = s /\ side = "decoder" /\ code = Then(Do("switch"), BodyEnds)
  /\ Fetches6(Message(r), HeaderEnd(r) + 1, s = r.ns)
  /\ DOMAIN fetch = {"n", "taken", "buffer"}
  /\ output_data = BodyKeyText(r) /\ values = HeaderValues(r) /\ last_command = "startkey"

V2GTurns(r, s) ==
  LET M == Message(r)
      m == HeaderEnd(r)
      h == HeaderValues(r)
  IN  \/ Decodes(r, s, M, m, Then(start_key("Body"), Then(Get(1), Then(Expect(0), NumberShown))), HeaderSaid(r), h,
                 "endkey")
      \/ Decodes(r, s, M, m, Then(Get(1), Then(Expect(0), NumberShown)), BodyKeyText(r), h, "startkey")
      \/ Decodes(r, s, M, m + 1, Then(Expect(0), NumberShown), BodyKeyText(r), h, "startkey") /\ Value = 0
      \/ Decodes(r, s, M, m + 1, NumberShown, BodyKeyText(r), h, "startkey")
      \/ Fetching(r, s)
      \/ /\ message_type = PlaceOf(r) - 1
         /\ Decodes(r, s, M, m + 2, Then(Do("switch"), BodyEnds), BodyKeyText(r), h, "startkey")
      \/ Decodes(r, s, M, m + 2, Then(start_key(KeyOf(r)), Shows(BodyFields(r), 0, BodyEnds)), BodyKeyText(r), h,
                 "startkey")

SaidOf(r) == BodyText(r) \o TypeText(BodyFields(r))

V2GCloses(r, s) ==
  LET M == Message(r)
      m == BodyEnd(r)
      v == MessageValues(r)
      full == Then(Do("get_full_stream"), End)
  IN  \/ Decodes(r, s, M, m, Then(Do("end_key"), Then(Do("end_key"), full)), SaidOf(r), v, "endkey")
      \/ Decodes(r, s, M, m, Then(Do("end_key"), full), SaidOf(r) \o <<"}">>, v, "endkey")
      \/ Decodes(r, s, M, m, full, (SaidOf(r) \o <<"}">>) \o <<"}">>, v, "endkey")

V2GDecoded(r, s) == Decodes(r, s, Message(r), BodyEnd(r), End, MessageText(r), MessageValues(r), "endkey")

V2GDecodes(r, s) == \/ V2GOpens(r, s) \/ InType(r, s, HeaderPart(r)) \/ V2GTurns(r, s)
                    \/ InType(r, s, BodyPart(r)) \/ V2GCloses(r, s) \/ V2GDecoded(r, s)

(* A key and a key.                                                        *)
PairsJoin(a, b, c, d) == <<a, b>> \o <<c, d>> = <<a, b, c, d>>

(* Two and two elements are four.                                          *)
LEMMA TwoAndTwo ==
  ASSUME NEW a, NEW b, NEW c, NEW d
  PROVE  PairsJoin(a, b, c, d)
<1>1. <<a, b, c, d>> = Then(a, <<b, c, d>>)
  BY Tuples
<1>2. <<b, c, d>> = Then(b, <<c, d>>)
  BY Tuples
<1>3. IsSeq(<<c, d>>)
  <2>1. IsTwo(c, d, <<>>)
    BY Two, Singles
  <2> QED BY <2>1 DEF IsTwo
<1>4. IsTwo(a, b, <<c, d>>)
  BY <1>3, Two
<1>5. <<a, b>> \o <<c, d>> = Then(a, Then(b, <<c, d>>))
  BY <1>4 DEF IsTwo
<1> QED BY <1>1, <1>2, <1>5, Zenon DEF PairsJoin

(* A type begins before its first field.                                   *)
LEMMA TypeBegins ==
  ASSUME NEW r, NEW s, NEW t, IsAPart(t),
         Decodes(r, s, t.message, t.start, Shows(t.fields, 0, t.rest), t.text, t.values, "startkey")'
  PROVE  InType(r, s, t)'
<1>1. t.text = TextAt(t, 3 * 0)
  <2>1. PICK A : t.text \in Seq(A)
    BY DEF IsAPart, IsSeq
  <2>2. First(TypeText(t.fields), 3 * 0) = <<>>
    <3>1. Len(First(TypeText(t.fields), 3 * 0)) = 0 /\ IsSeq(First(TypeText(t.fields), 3 * 0))
      BY FirstIs
    <3>2. PICK B : First(TypeText(t.fields), 3 * 0) \in Seq(B)
      BY <3>1 DEF IsSeq
    <3> QED BY <3>1, <3>2, EmptySeq
  <2>3. t.text \o <<>> = t.text
    BY <2>1, ConcatEmptySeq
  <2> QED BY <2>2, <2>3 DEF TextAt, TextSoFar
<1>2. t.values = ValuesAt(t, 0)
  <2>1. First(t.contents, 0) = <<>>
    <3>1. Len(First(t.contents, 0)) = 0 /\ IsSeq(First(t.contents, 0))
      BY FirstIs
    <3>2. PICK B : First(t.contents, 0) \in Seq(B)
      BY <3>1 DEF IsSeq
    <3> QED BY <3>1, <3>2, EmptySeq
  <2>2. t.values \o <<>> = t.values
    BY ConcatEmptySeq DEF IsAPart
  <2> QED BY <2>1, <2>2 DEF ValuesAt, ValuesSoFar
<1>3. t.start = t.start + 0 /\ 0 \in 0 .. Len(t.fields)
  BY LenProperties DEF IsAPart
<1>4. AtName(r, s, t, 0)'
  <2>1. Decodes(r, s, t.message, t.start + 0, ShowsAt(t, 0), TextAt(t, 3 * 0), ValuesAt(t, 0), "startkey")'
    BY <1>1, <1>2, <1>3, Zenon DEF ShowsAt
  <2> QED BY <2>1 DEF AtName
<1> QED BY <1>3, <1>4 DEF InType

(* To the header.                                                          *)
LEMMA MessageOpens ==
  ASSUME NEW r \in Requests, NEW s, OwnV2G(r, s), Next, V2GOpens(r, s)
  PROVE  V2GDecodes(r, s)'
<1> DEFINE M == Message(r)
           shown == HeaderShown(r)
           shows == Shows(HeaderFields(r.ns), 0, BodyShown)
           rest2 == Then(Expect(0), shown)
           rest1 == Then(Get(1), rest2)
<1>1. M \in Seq(Numbers)
  BY DEF V2GOpens, Decodes, Reads, Stands
<1>2. IsAPart(HeaderPart(r)) /\ M[3] = Number(0, 1) /\ Len(M) \in Nat /\ 3 <= Len(M)
  <2>1. /\ IsAPart(HeaderPart(r)) /\ M[3] = Number(0, 1)
        /\ HeaderEnd(r) \in Nat /\ HeaderEnd(r) + 2 <= Len(M) /\ 3 <= HeaderEnd(r)
    BY <1>1, HeaderIsAPart
  <2> QED BY <1>1, <2>1, LenProperties
<1>3. IsSeq(shows) /\ IsSeq(shown) /\ IsSeq(rest2) /\ IsSeq(rest1)
  <2>1. HeaderFields(r.ns) \in Seq(Fields) /\ 0 \in 0 .. Len(HeaderFields(r.ns))
    BY HeaderIsAType, LenProperties DEF OwnV2G
  <2>2. IsSeq(shows)
    BY <2>1, ShowsAhead, Parts
  <2>3. IsSeq(shown)
    BY <2>2, Statements DEF HeaderShown
  <2>4. IsSeq(rest2)
    BY <2>3, Statements
  <2>5. IsSeq(rest1)
    BY <2>4, Statements
  <2> QED BY <2>2, <2>3, <2>4, <2>5
<1>4. CASE Decodes(r, s, M, 2, MessageShown(r.ns), <<>>, <<>>, "nocmd")
  <2> DEFINE more == IF "nocmd" = "endkey" THEN <<",", "V2G_Message">> ELSE Root
  <2>1. Decodes(r, s, M, 2, Then(start_key("V2G_Message"), rest1), <<>>, <<>>, "nocmd")
    BY <1>4 DEF MessageShown, HeaderShown
  <2> HIDE DEF rest1, M
  <2>2. Decodes(r, s, M, 2, rest1, <<>> \o more, <<>>, "startkey")'
    BY <1>3, <2>1, DecodesStart DEF Root
  <2>3. <<>> \o more = Root
    <3>1. IsTwo("{", "V2G_Message", <<>>)
      BY Two, Singles
    <3>2. IsSeq(Root) /\ more = Root
      BY <3>1 DEF IsTwo, Root
    <3> QED BY <3>2, Joined
  <2> HIDE DEF more
  <2>4. Decodes(r, s, M, 2, rest1, Root, <<>>, "startkey")'
    BY <2>2, <2>3, Zenon
  <2> QED BY <2>4 DEF V2GDecodes, V2GOpens, M, rest1
<1>5. CASE Decodes(r, s, M, 2, rest1, Root, <<>>, "startkey")
  <2>0. 2 < Len(M) /\ M[2 + 1].n = 1 /\ M[2 + 1].v = 0 /\ 2 + 1 = 3
    <3> HIDE DEF M
    <3> QED BY <1>2 DEF Number
  <2> HIDE DEF rest2, M
  <2>1. Decodes(r, s, M, 2 + 1, rest2, Root, <<>>, "startkey")' /\ Value' = M[2 + 1].v
    BY <1>3, <1>5, <2>0, DecodesGet
  <2>2. Decodes(r, s, M, 3, rest2, Root, <<>>, "startkey")' /\ Value' = 0
    BY <2>0, <2>1, Zenon
  <2> QED BY <2>2 DEF V2GDecodes, V2GOpens, M, rest2
<1>6. CASE Decodes(r, s, M, 3, rest2, Root, <<>>, "startkey") /\ Value = 0
  <2> HIDE DEF shown, M
  <2>1. Decodes(r, s, M, 3, shown, Root, <<>>, "startkey")'
    BY <1>3, <1>6, DecodesExpect
  <2> QED BY <2>1 DEF V2GDecodes, V2GOpens, M, shown
<1>7. CASE Decodes(r, s, M, 3, shown, Root, <<>>, "startkey")
  <2> DEFINE more == IF "startkey" = "endkey" THEN <<",", "Header">> ELSE <<"{", "Header">>
  <2>1. Decodes(r, s, M, 3, Then(start_key("Header"), shows), Root, <<>>, "startkey")
    BY <1>7 DEF HeaderShown
  <2> HIDE DEF shows, M
  <2>2. Decodes(r, s, M, 3, shows, Root \o more, <<>>, "startkey")'
    BY <1>3, <2>1, DecodesStart
  <2>3. Root \o more = HeaderText
    <3>1. more = <<"{", "Header">>
      OBVIOUS
    <3>2. PairsJoin("{", "V2G_Message", "{", "Header")
      BY TwoAndTwo
    <3> HIDE DEF more
    <3> QED BY <3>1, <3>2, Zenon DEF PairsJoin, Root, HeaderText
  <2> HIDE DEF more
  <2>4. Decodes(r, s, M, 3, shows, HeaderText, <<>>, "startkey")'
    BY <2>2, <2>3, Zenon
  <2> DEFINE t == HeaderPart(r)
  <2>5. /\ t.fields = HeaderFields(r.ns) /\ t.text = HeaderText /\ t.values = <<>> /\ t.start = 3
        /\ t.rest = BodyShown /\ t.message = M
    BY DEF HeaderPart, M
  <2>6. Decodes(r, s, t.message, t.start, Shows(t.fields, 0, t.rest), t.text, t.values, "startkey")'
    <3> HIDE DEF t
    <3> QED BY <2>4, <2>5, Zenon DEF shows
  <2>7. InType(r, s, t)'
    <3> HIDE DEF t
    <3>1. IsAPart(t)
      BY <1>2 DEF t
    <3> QED BY <2>6, <3>1, TypeBegins
  <2> QED BY <2>7 DEF V2GDecodes
<1> QED BY <1>4, <1>5, <1>6, <1>7 DEF V2GOpens

(* The number of the namespace is the one it must be.                      *)
LEMMA IdentifiedOpens ==
  ASSUME NEW r \in Requests, NEW s \in Namespaces, NEW W, Begins(r, s, W), OwnV2G(r, s), Next, Identified(r, s, W)
  PROVE  V2GDecodes(r, s)'
<1>1. Own(r, s, W) /\ s \in V2GNamespaces /\ s # "app_protocol"
  BY DEF Begins, Foreign, OwnV2G, V2GNamespaces
<1>2. W = Message(r) /\ W[2].v = message_id(s) /\ IsSeq(MessageShown(s))
  <2>1. Message(r)[2] = Number(message_id(r.ns), 7)
    BY <1>1, MessageIs DEF Own, OwnV2G
  <2> QED BY <1>1, <2>1, Parts DEF Own, OwnV2G, Number
<1>3. Decodes(r, s, W, 2, Then(Expect(message_id(s)), MessageShown(s)), <<>>, <<>>, "nocmd") /\ Value = message_id(s)
  BY <1>1, <1>2 DEF Identified
<1>4. Decodes(r, s, W, 2, MessageShown(s), <<>>, <<>>, "nocmd")'
  BY <1>2, <1>3, DecodesExpect
<1>5. Decodes(r, s, Message(r), 2, MessageShown(r.ns), <<>>, <<>>, "nocmd")'
  BY <1>2, <1>4, Zenon DEF OwnV2G
<1> QED BY <1>5 DEF V2GDecodes, V2GOpens

(* The header.                                                             *)
LEMMA HeaderIsRead ==
  ASSUME NEW r \in Requests, NEW s, OwnV2G(r, s), Next, InType(r, s, HeaderPart(r)), Message(r) \in Seq(Numbers)
  PROVE  V2GDecodes(r, s)'
<1> DEFINE t == HeaderPart(r)
           rest == Then(start_key("Body"), Then(Get(1), Then(Expect(0), NumberShown)))
<1>1. IsAPart(t) /\ HeaderValues(r) \in Seq(Nat)
  BY HeaderIsAPart
<1>2. /\ t.fields = HeaderFields(r.ns) /\ t.text = HeaderText /\ t.values = <<>> /\ t.start = 3
      /\ t.rest = BodyShown /\ t.message = Message(r) /\ t.contents = HeaderValues(r)
  BY DEF HeaderPart
<1>3. t.rest = Then(Do("end_key"), rest) /\ IsSeq(rest)
  <2>1. IsSeq(NumberShown)
    BY Parts, Statements DEF NumberShown
  <2>2. IsSeq(rest)
    BY <2>1, Statements
  <2> QED BY <1>2, <2>2 DEF BodyShown, NumberShown
<1>4. <<>> \o HeaderValues(r) = HeaderValues(r)
  BY <1>1, ConcatEmptySeq
<1> HIDE DEF t
<1>5. CASE InType(r, s, t)'
  BY <1>5 DEF V2GDecodes, t
<1>6. CASE AtName(r, s, t, Len(t.fields))
  <2>1. Decodes(r, s, t.message, t.start + Len(t.fields), rest, t.text \o TypeText(t.fields), t.values \o t.contents,
                "endkey")'
    BY <1>1, <1>3, <1>6, TypeIsClosed
  <2> HIDE DEF rest
  <2>2. Decodes(r, s, Message(r), HeaderEnd(r), rest, HeaderSaid(r), HeaderValues(r), "endkey")'
    BY <1>2, <1>4, <2>1, Zenon DEF HeaderEnd, HeaderSaid
  <2> QED BY <2>2 DEF V2GDecodes, V2GTurns, rest
<1> QED BY <1>1, <1>5, <1>6, InTypeSteps DEF t

(* While get_next_n_bits runs nothing else does.                           *)
LEMMA FetchingRuns ==
  ASSUME NEW rest, IsSeq(rest), code = Then(Do("switch"), rest), fetch # Stream!NoFetch, side = "decoder", Next
  PROVE  Stream!get_next_n_bits_iteration /\ UNCHANGED <<request, ns, side, code, texts>>
<1>1. code # <<>> /\ Op = "switch"
  <2>1. Do("switch").op = "switch"
    BY DEF Do, Call
  <2>2. Head(code) = Do("switch") /\ code # <<>>
    BY Statements
  <2> QED BY <2>1, <2>2 DEF Op
<1>2. ~switch /\ ~Returned /\ ~Decoded /\ ~Ended
  BY <1>1 DEF switch, Returned, Decoded, Ended
<1>3. get_next_n_bits
  BY <1>1, <1>2 DEF Next, Throw, add_max_8bits, to_object, encode_header, find_body, encode_field, encodeBody,
     encode_app_protocol, get_max_4bytes, expect, write, decodeBody, decode_app_protocol, Runs, Op
<1> QED BY <1>3 DEF get_next_n_bits

(* From the header to the number of the message.                           *)
LEMMA BodyOpens ==
  ASSUME NEW r \in Requests, NEW s, OwnV2G(r, s), Next, Message(r) \in Seq(Numbers),
         LET M == Message(r)
             m == HeaderEnd(r)
             h == HeaderValues(r)
         IN  \/ Decodes(r, s, M, m, Then(start_key("Body"), Then(Get(1), Then(Expect(0), NumberShown))), HeaderSaid(r), h,
                        "endkey")
             \/ Decodes(r, s, M, m, Then(Get(1), Then(Expect(0), NumberShown)), BodyKeyText(r), h, "startkey")
             \/ Decodes(r, s, M, m + 1, Then(Expect(0), NumberShown), BodyKeyText(r), h, "startkey") /\ Value = 0
  PROVE  V2GTurns(r, s)'
<1> DEFINE M == Message(r)
           m == HeaderEnd(r)
           h == HeaderValues(r)
           text0 == HeaderSaid(r)
           text == BodyKeyText(r)
           rest2 == Then(Expect(0), NumberShown)
           rest1 == Then(Get(1), rest2)
<1>1. M[m + 1] = Number(0, 1) /\ m \in Nat /\ m + 2 <= Len(M) /\ Len(M) \in Nat
  BY HeaderIsAPart, LenProperties
<1>2. IsSeq(NumberShown) /\ IsSeq(rest2) /\ IsSeq(rest1)
  <2>1. IsSeq(NumberShown)
    BY Parts, Statements DEF NumberShown
  <2>2. IsSeq(rest2)
    BY <2>1, Statements
  <2> QED BY <2>1, <2>2, Statements
<1> HIDE DEF M, m, h, text0
<1>3. CASE Decodes(r, s, M, m, Then(start_key("Body"), rest1), text0, h, "endkey")
  <2> DEFINE more == IF "endkey" = "endkey" THEN <<",", "Body">> ELSE <<"{", "Body">>
  <2>1. more = <<",", "Body">>
    OBVIOUS
  <2> HIDE DEF rest1
  <2>2. Decodes(r, s, M, m, rest1, text0 \o more, h, "startkey")'
    BY <1>2, <1>3, DecodesStart
  <2> HIDE DEF more
  <2>3. Decodes(r, s, M, m, rest1, text, h, "startkey")'
    BY <2>1, <2>2, Zenon DEF BodyKeyText, text0
  <2> QED BY <2>3 DEF V2GTurns, M, m, h, rest1
<1>4. CASE Decodes(r, s, M, m, rest1, text, h, "startkey")
  <2>1. m < Len(M) /\ M[m + 1].n = 1 /\ M[m + 1].v = 0
    BY <1>1 DEF Number
  <2> HIDE DEF rest2, text
  <2>2. Decodes(r, s, M, m + 1, rest2, text, h, "startkey")' /\ Value' = M[m + 1].v
    BY <1>2, <1>4, <2>1, DecodesGet
  <2>3. Value' = 0
    BY <2>1, <2>2
  <2> QED BY <2>2, <2>3 DEF V2GTurns, M, m, h, rest2, text
<1>5. CASE Decodes(r, s, M, m + 1, rest2, text, h, "startkey") /\ Value = 0
  <2> HIDE DEF text
  <2>1. Decodes(r, s, M, m + 1, NumberShown, text, h, "startkey")'
    BY <1>2, <1>5, DecodesExpect
  <2> QED BY <2>1 DEF V2GTurns, M, m, h, text
<1> QED BY <1>3, <1>4, <1>5 DEF M, m, h, text0

(* The texts are sequences.                                                *)
LEMMA TypeTextIsSeq ==
  ASSUME NEW fields \in Seq(Fields)
  PROVE  IsSeq(TypeText(fields))
<1>1. Len(fields) \in Nat /\ 3 * Len(fields) + 1 \in Nat
  BY LenProperties
<1>2. TypeText(fields) = First(TypeText(fields), 2) \/ TypeText(fields) = First(TypeText(fields), 3 * Len(fields) + 1)
  <2>1. Len(fields) = 0 \/ Len(fields) > 0
    BY <1>1
  <2> QED BY <1>1, <2>1, TypeTextIs
<1> QED BY <1>1, <1>2, FirstIs

(* The text of the header is a sequence.                                   *)
LEMMA HeaderSaidIsSeq ==
  ASSUME NEW r \in Requests, NEW s, OwnV2G(r, s)
  PROVE  IsSeq(HeaderSaid(r))
<1>1. IsSeq(TypeText(HeaderFields(r.ns)))
  BY HeaderIsAType, TypeTextIsSeq DEF OwnV2G
<1>2. IsFour("{", "V2G_Message", "{", "Header", <<>>)
  BY Four, Singles
<1> QED BY <1>1, <1>2, Joined DEF IsFour, HeaderSaid, HeaderText

(* The number of the message, and its type.                                *)
LEMMA NumberIsRead ==
  ASSUME NEW r \in Requests, NEW s, OwnV2G(r, s), Next, Message(r) \in Seq(Numbers),
         \/ Decodes(r, s, Message(r), HeaderEnd(r) + 1, NumberShown, BodyKeyText(r), HeaderValues(r), "startkey")
         \/ Fetching(r, s)
  PROVE  V2GTurns(r, s)'
<1> DEFINE M == Message(r)
           m == HeaderEnd(r)
           h == HeaderValues(r)
           text == BodyKeyText(r)
<1>1. /\ M[m + 2] = Number(PlaceOf(r) - 1, 6) /\ m \in Nat /\ m + 2 <= Len(M) /\ Len(M) \in Nat
      /\ h \in Seq(Nat) /\ Len(h) \in Nat /\ Len(h) <= m
  <2>1. /\ Message(r)[HeaderEnd(r) + 2] = Number(PlaceOf(r) - 1, 6) /\ HeaderEnd(r) \in Nat
        /\ HeaderEnd(r) + 2 <= Len(Message(r)) /\ HeaderValues(r) \in Seq(Nat)
        /\ Len(HeaderValues(r)) = Len(HeaderFields(r.ns))
    BY HeaderIsAPart
  <2>2. Len(HeaderValues(r)) \in Nat /\ Len(Message(r)) \in Nat
    BY <2>1, LenProperties
  <2> QED BY <2>1, <2>2 DEF HeaderEnd
<1>2. IsSeq(BodyEnds)
  BY Parts
<1> HIDE DEF M, m, h, text
<1>3. m + 1 < Len(M) /\ (m + 1) + 1 = m + 2 /\ M[(m + 1) + 1].n = 6 /\ M[(m + 1) + 1].v = PlaceOf(r) - 1
  <2>1. m + 1 < Len(M) /\ (m + 1) + 1 = m + 2
    BY <1>1
  <2> QED BY <1>1, <2>1 DEF Number
<1>4. CASE Decodes(r, s, M, m + 1, NumberShown, text, h, "startkey")
  <2>1. Running(Do("decodeBody"), BodyEnds)
    BY <1>2, <1>4, DecodesRuns DEF NumberShown
  <2>2. /\ Stream!get_next_n_bits(6, FALSE) /\ code' = Then(Do("switch"), BodyEnds) /\ Same
        /\ UNCHANGED <<output_data, last_command, values>>
    BY <2>1, DecodeBodyRuns
  <2>3. /\ Reads(M, m + 1, s = r.ns) /\ request = r /\ ns = s /\ side = "decoder"
        /\ output_data = text /\ values = h /\ last_command = "startkey"
    BY <1>4 DEF Decodes
  <2>4. Fetches6(M, m + 1, s = r.ns)' /\ DOMAIN fetch' = {"n", "taken", "buffer"}
    BY <1>3, <2>2, <2>3, FetchStarts
  <2>5. Fetching(r, s)'
    BY <2>2, <2>3, <2>4 DEF Fetching, Same, M, m, h, text
  <2> QED BY <2>5 DEF V2GTurns
<1>5. CASE Fetching(r, s)
  <2>1. /\ code = Then(Do("switch"), BodyEnds) /\ side = "decoder" /\ fetch # Stream!NoFetch
        /\ Fetches6(M, m + 1, s = r.ns) /\ request = r /\ ns = s
        /\ output_data = text /\ values = h /\ last_command = "startkey"
    BY <1>5 DEF Fetching, Fetches6, M, m, h, text
  <2>2. Stream!get_next_n_bits_iteration /\ UNCHANGED <<request, ns, side, code, texts>>
    BY <1>2, <2>1, FetchingRuns
  <2>3. Reads(M, (m + 1) + 1, s = r.ns)' /\ message_type' = M[(m + 1) + 1].v
    BY <2>1, <2>2, FetchReturns
  <2>4. Reads(M, m + 2, s = r.ns)' /\ message_type' = PlaceOf(r) - 1
    BY <1>3, <2>3, Zenon
  <2>5. h \in Seq(Nat) /\ Len(h) <= m + 2 /\ "startkey" \in Text!Commands
    BY <1>1 DEF Text!Commands
  <2>6. Decodes(r, s, M, m + 2, Then(Do("switch"), BodyEnds), text, h, "startkey")'
    BY <2>1, <2>2, <2>4, <2>5 DEF Decodes, texts
  <2> QED BY <2>4, <2>6 DEF V2GTurns, M, m, h, text
<1> QED BY <1>4, <1>5 DEF M, m, h, text

(* The functions of the type are those of the message's element.           *)
LEMMA TypeIsFound ==
  ASSUME NEW r \in Requests, NEW s, OwnV2G(r, s), Next, Message(r) \in Seq(Numbers),
         Decodes(r, s, Message(r), HeaderEnd(r) + 2, Then(Do("switch"), BodyEnds), BodyKeyText(r), HeaderValues(r),
                 "startkey"),
         message_type = PlaceOf(r) - 1
  PROVE  V2GTurns(r, s)'
<1> DEFINE i == PlaceOf(r)
           e == elements[r.ns][i]
           F == BodyFields(r)
           rest == Then(start_key(KeyOf(r)), Shows(F, 0, BodyEnds))
           M == Message(r)
           m == HeaderEnd(r) + 2
           h == HeaderValues(r)
           text == BodyKeyText(r)
<1>1. /\ i \in DOMAIN elements[r.ns] /\ i \in 1 .. 64 /\ e.name = KeyOf(r) /\ HasFunctions(r.ns, e)
      /\ F \in Seq(Fields)
  BY BodyIsAPart
<1>2. F = FieldsOf(r.ns, e.type) /\ ns = r.ns /\ IsSeq(BodyEnds)
  BY Parts DEF BodyFields, Decodes, OwnV2G
<1>3. Running(Do("switch"), BodyEnds)
  BY <1>2, DecodesRuns
<1>4. message_type + 1 = i
  <2>1. i \in 1 .. 64 /\ message_type = i - 1
    BY <1>1
  <2> HIDE DEF i
  <2> QED BY <2>1
<1>5. /\ side' = side /\ Elsewhere
      /\ code' = (<<start_key(KeyOf(r))>> \o FlattenSeq(Blocks(F))) \o BodyEnds
  <2>1. \/ /\ i \in DOMAIN elements[ns] /\ HasFunctions(ns, elements[ns][i]) /\ side' = side /\ Elsewhere
           /\ code' = (<<start_key(elements[ns][i].name)>>
                         \o FlattenSeq(Blocks(FieldsOf(ns, elements[ns][i].type)))) \o BodyEnds
        \/ ~(i \in DOMAIN elements[ns] /\ HasFunctions(ns, elements[ns][i])) /\ Fails
    <3> HIDE DEF i
    <3> QED BY <1>3, <1>4, SwitchRuns
  <2> HIDE DEF i, F
  <2> QED BY <1>1, <1>2, <2>1, Zenon
<1> HIDE DEF F
<1>6. code' = rest
  <2>1. ShowsNone(F, BodyEnds)
    BY <1>1, <1>2, ShowsOn
  <2>2. JoinsBehind(start_key(KeyOf(r)), FlattenSeq(Blocks(F)), BodyEnds)
    BY <1>2, <2>1, ThenJoined DEF ShowsNone
  <2> QED BY <1>5, <2>1, <2>2, Zenon DEF JoinsBehind, ShowsNone, Then
<1> HIDE DEF rest, M, m, h, text
<1>7. Decodes(r, s, M, m, rest, text, h, "startkey")'
  <2>1. Decodes(r, s, M, m, Then(Do("switch"), BodyEnds), text, h, "startkey")
    BY DEF M, m, h, text
  <2> QED BY <1>5, <1>6, <2>1, DecodesOn
<1> QED BY <1>7 DEF V2GTurns, rest, M, m, h, text, F

(* Its key, and it begins.                                                 *)
LEMMA BodyBegun ==
  ASSUME NEW r \in Requests, NEW s, OwnV2G(r, s), Next, Message(r) \in Seq(Numbers),
         Decodes(r, s, Message(r), HeaderEnd(r) + 2, Then(start_key(KeyOf(r)), Shows(BodyFields(r), 0, BodyEnds)),
                 BodyKeyText(r), HeaderValues(r), "startkey")
  PROVE  InType(r, s, BodyPart(r))'
<1> DEFINE rest == Shows(BodyFields(r), 0, BodyEnds)
           M == Message(r)
           m == HeaderEnd(r) + 2
           h == HeaderValues(r)
           text == BodyKeyText(r)
           k == KeyOf(r)
           t == BodyPart(r)
<1>1. IsAPart(t) /\ BodyFields(r) \in Seq(Fields) /\ BodyStart(r) = m
  BY BodyIsAPart
<1>2. /\ t.fields = BodyFields(r) /\ t.text = BodyText(r) /\ t.values = h /\ t.start = BodyStart(r)
      /\ t.rest = BodyEnds /\ t.message = M
  BY DEF BodyPart
<1>3. IsSeq(rest)
  <2>1. 0 \in 0 .. Len(BodyFields(r)) /\ IsSeq(BodyEnds)
    BY <1>1, LenProperties, Parts
  <2> QED BY <1>1, <2>1, ShowsAhead
<1>4. text \o <<"{", k>> = BodyText(r)
  <2>1. PairsJoin(",", "Body", "{", k)
    BY TwoAndTwo
  <2>2. Associate(HeaderSaid(r), <<",", "Body">>, <<"{", k>>)
    <3>1. IsTwo(",", "Body", <<>>) /\ IsTwo("{", k, <<>>)
      BY Two, Singles
    <3>2. IsSeq(<<",", "Body">>) /\ IsSeq(<<"{", k>>)
      BY <3>1 DEF IsTwo
    <3>3. IsSeq(HeaderSaid(r))
      BY HeaderSaidIsSeq
    <3> QED BY <3>2, <3>3, JoinedTwice
  <2> QED BY <2>1, <2>2, Zenon DEF PairsJoin, Associate, BodyText, BodyKeyText
<1> DEFINE more == IF "startkey" = "endkey" THEN <<",", k>> ELSE <<"{", k>>
<1>5. more = <<"{", k>>
  OBVIOUS
<1> HIDE DEF rest, M, m, h, text, k
<1>6. Decodes(r, s, M, m, rest, text \o more, h, "startkey")'
  <2>1. Decodes(r, s, M, m, Then(start_key(k), rest), text, h, "startkey")
    BY DEF M, m, h, text, k, rest
  <2> QED BY <1>3, <2>1, DecodesStart
<1> HIDE DEF more, t
<1>7. Decodes(r, s, t.message, t.start, rest, t.text, t.values, "startkey")'
  BY <1>1, <1>2, <1>4, <1>5, <1>6, Zenon
<1>8. rest = Shows(t.fields, 0, t.rest)
  BY <1>2, Zenon DEF rest
<1>9. Decodes(r, s, t.message, t.start, Shows(t.fields, 0, t.rest), t.text, t.values, "startkey")'
  BY <1>7, <1>8, Zenon
<1>10. InType(r, s, t)'
  BY <1>1, <1>9, TypeBegins
<1> QED BY <1>10 DEF t

(* The braces at the end of a message.                                     *)
ThreeBraces(text) ==
  Append((text \o <<"}">>) \o <<"}">>, "}") = text \o <<"}", "}", "}">>

(* Three braces close a V2G message.                                       *)
LEMMA BracesAtTheEnd ==
  ASSUME NEW text, IsSeq(text)
  PROVE  ThreeBraces(text)
<1> DEFINE b == "}"
<1> HIDE DEF b
<1>1. IsSeq(<<b>>) /\ IsSeq(text \o <<b>>) /\ IsSeq((text \o <<b>>) \o <<b>>)
  <2>1. IsSeq(<<b>>)
    BY Singles
  <2>2. IsSeq(text \o <<b>>)
    BY <2>1, Joined
  <2> QED BY <2>1, <2>2, Joined
<1>2. Append((text \o <<b>>) \o <<b>>, b) = ((text \o <<b>>) \o <<b>>) \o <<b>>
  <2>1. PICK S : (text \o <<b>>) \o <<b>> \in Seq(S)
    BY <1>1 DEF IsSeq
  <2> DEFINE T == S \cup {b}
             u == (text \o <<b>>) \o <<b>>
  <2>2. u \in Seq(T) /\ b \in T
    BY <2>1
  <2> HIDE DEF T, u
  <2>3. Append(u, b) = u \o <<b>>
    BY <2>2, AppendIsConcat
  <2> QED BY <2>3 DEF u
<1>3. Associate(text \o <<b>>, <<b>>, <<b>>) /\ IsTwo(b, b, <<>>)
  BY <1>1, JoinedTwice, Two, Singles
<1>4. <<b>> \o <<b>> = <<b, b>>
  BY Tuples, Zenon DEF Then
<1>5. Associate(text, <<b>>, <<b, b>>)
  BY <1>1, <1>3, JoinedTwice DEF IsTwo
<1>6. <<b>> \o <<b, b>> = <<b, b, b>>
  <2>1. <<b, b, b>> = Then(b, <<b, b>>)
    BY Tuples
  <2> QED BY <2>1, Zenon DEF Then
<1>7. Append((text \o <<b>>) \o <<b>>, b) = text \o <<b, b, b>>
  BY <1>2, <1>3, <1>4, <1>5, <1>6, Zenon DEF Associate
<1> QED BY <1>7, Zenon DEF ThreeBraces, b

(* The body.                                                               *)
LEMMA BodyIsRead ==
  ASSUME NEW r \in Requests, NEW s, OwnV2G(r, s), Next, InType(r, s, BodyPart(r)), Message(r) \in Seq(Numbers)
  PROVE  V2GDecodes(r, s)'
<1> DEFINE t == BodyPart(r)
           rest == Then(Do("end_key"), Then(Do("end_key"), Then(Do("get_full_stream"), End)))
<1>1. IsAPart(t)
  BY BodyIsAPart
<1>2. /\ t.fields = BodyFields(r) /\ t.text = BodyText(r) /\ t.values = HeaderValues(r) /\ t.start = BodyStart(r)
      /\ t.rest = BodyEnds /\ t.message = Message(r) /\ t.contents = Contents(ObjectOf(r), BodyFields(r))
  BY DEF BodyPart
<1>3. t.rest = Then(Do("end_key"), rest) /\ IsSeq(rest)
  <2>1. IsSeq(rest)
    BY Parts, Statements
  <2> QED BY <1>2, <2>1 DEF BodyEnds
<1> HIDE DEF t
<1>4. CASE InType(r, s, t)'
  BY <1>4 DEF V2GDecodes, t
<1>5. CASE AtName(r, s, t, Len(t.fields))
  <2>1. Decodes(r, s, t.message, t.start + Len(t.fields), rest, t.text \o TypeText(t.fields), t.values \o t.contents,
                "endkey")'
    BY <1>1, <1>3, <1>5, TypeIsClosed
  <2> HIDE DEF rest
  <2>2. Decodes(r, s, Message(r), BodyEnd(r), rest, SaidOf(r), MessageValues(r), "endkey")'
    BY <1>2, <2>1, Zenon DEF BodyEnd, SaidOf, MessageValues, HeaderValues
  <2> QED BY <2>2 DEF V2GDecodes, V2GCloses, rest
<1> QED BY <1>1, <1>4, <1>5, InTypeSteps DEF t

(* Its end, and the document's.                                            *)
LEMMA MessageCloses ==
  ASSUME NEW r \in Requests, NEW s, OwnV2G(r, s), Next, Message(r) \in Seq(Numbers), V2GCloses(r, s)
  PROVE  V2GDecodes(r, s)'
<1> DEFINE M == Message(r)
           m == BodyEnd(r)
           v == MessageValues(r)
           full == Then(Do("get_full_stream"), End)
           rest == Then(Do("end_key"), full)
           text == SaidOf(r)
           brace == IF "endkey" = "endkey" THEN <<"}">> ELSE IF "endkey" = "startkey" THEN <<"{", "}">> ELSE <<>>
<1>1. IsSeq(End) /\ IsSeq(full) /\ IsSeq(rest)
  <2>1. IsSeq(End) /\ IsSeq(full)
    BY Parts, Statements
  <2> QED BY <2>1, Statements
<1>2. brace = <<"}">>
  OBVIOUS
<1>3. IsSeq(text)
  <2>1. IsAPart(BodyPart(r)) /\ BodyFields(r) \in Seq(Fields)
    BY BodyIsAPart
  <2>2. IsSeq(BodyText(r))
    BY <2>1 DEF IsAPart, BodyPart
  <2>3. IsSeq(TypeText(BodyFields(r)))
    BY <2>1, TypeTextIsSeq
  <2> QED BY <2>2, <2>3, Joined DEF SaidOf
<1> HIDE DEF M, m, v, text, full, brace
<1>4. CASE Decodes(r, s, M, m, Then(Do("end_key"), rest), text, v, "endkey")
  <2> HIDE DEF rest
  <2>1. Decodes(r, s, M, m, rest, text \o brace, v, "endkey")'
    BY <1>1, <1>4, DecodesEnd DEF brace
  <2>2. Decodes(r, s, M, m, rest, text \o <<"}">>, v, "endkey")'
    BY <1>2, <2>1, Zenon
  <2> QED BY <2>2 DEF V2GDecodes, V2GCloses, M, m, v, text, full, rest
<1>5. CASE Decodes(r, s, M, m, rest, text \o <<"}">>, v, "endkey")
  <2> DEFINE closed == text \o <<"}">>
  <2>1. Decodes(r, s, M, m, Then(Do("end_key"), full), closed, v, "endkey")
    BY <1>5
  <2> HIDE DEF closed
  <2>2. Decodes(r, s, M, m, full, closed \o brace, v, "endkey")'
    BY <1>1, <2>1, DecodesEnd DEF brace
  <2>3. Decodes(r, s, M, m, full, (text \o <<"}">>) \o <<"}">>, v, "endkey")'
    BY <1>2, <2>2, Zenon DEF closed
  <2> QED BY <2>3 DEF V2GDecodes, V2GCloses, M, m, v, text, full
<1>6. CASE Decodes(r, s, M, m, full, (text \o <<"}">>) \o <<"}">>, v, "endkey")
  <2> DEFINE closed == (text \o <<"}">>) \o <<"}">>
  <2>1. Decodes(r, s, M, m, Then(Do("get_full_stream"), End), closed, v, "endkey")
    BY <1>6 DEF full
  <2> HIDE DEF closed
  <2>2. Decodes(r, s, M, m, End, Append(closed, "}"), v, "endkey")'
    BY <1>1, <2>1, DecodesFull
  <2>3. ThreeBraces(text)
    BY <1>3, BracesAtTheEnd
  <2>4. Append(closed, "}") = MessageText(r)
    BY <2>3, Zenon DEF ThreeBraces, closed, text, SaidOf, BodyText, HeaderSaid, MessageText
  <2>5. Decodes(r, s, M, m, End, MessageText(r), v, "endkey")'
    BY <2>2, <2>4, Zenon
  <2> QED BY <2>5 DEF V2GDecodes, V2GDecoded, M, m, v
<1> QED BY <1>4, <1>5, <1>6 DEF V2GCloses, M, m, v, text, full

(* Every step of it but the last.                                          *)
LEMMA V2GSteps ==
  ASSUME NEW r \in Requests, NEW s, OwnV2G(r, s), Next, V2GDecodes(r, s)
  PROVE  V2GDecodes(r, s)' \/ V2GDecoded(r, s)
<1>1. Message(r) \in Seq(Numbers)
  <2>1. \A m, c, text, vals, command : Decodes(r, s, Message(r), m, c, text, vals, command) => Message(r) \in Seq(Numbers)
    BY DEF Decodes, Reads, Stands
  <2>2. HeaderPart(r).message = Message(r) /\ BodyPart(r).message = Message(r)
    BY DEF HeaderPart, BodyPart
  <2>3. Fetching(r, s) => Message(r) \in Seq(Numbers)
    BY DEF Fetching, Fetches6, Stands
  <2>4. V2GOpens(r, s) \/ V2GTurns(r, s) \/ V2GCloses(r, s) \/ V2GDecoded(r, s) => Message(r) \in Seq(Numbers)
    BY <2>1, <2>3, Zenon DEF V2GOpens, V2GTurns, V2GCloses, V2GDecoded
  <2>5. InType(r, s, HeaderPart(r)) \/ InType(r, s, BodyPart(r)) => Message(r) \in Seq(Numbers)
    BY <2>1, <2>2, Zenon DEF InType, AtName, Named, Got, Added
  <2> QED BY <2>4, <2>5 DEF V2GDecodes
<1>2. ASSUME V2GTurns(r, s) PROVE V2GDecodes(r, s)'
  <2>1. \/ V2GTurns(r, s)' \/ InType(r, s, BodyPart(r))'
    BY <1>1, <1>2, BodyOpens, NumberIsRead, TypeIsFound, BodyBegun, Zenon DEF V2GTurns
  <2> QED BY <2>1 DEF V2GDecodes
<1> QED BY <1>1, <1>2, MessageOpens, HeaderIsRead, BodyIsRead, MessageCloses DEF V2GDecodes

(***************************************************************************)
(* A message of the app protocol, under its own namespace.                 *)
(***************************************************************************)
OwnApp(r, s) == s = r.ns /\ r.ns = "app_protocol" /\ AppDone(r)

AppEnds    == Then(Do("end_key"), Then(Do("get_full_stream"), End))
AppText0(r) == <<"{", AppKeyOf(r)>>

AppPart(r) ==
  [fields |-> AppFields(r), contents |-> AppValues(r), text |-> AppText0(r), values |-> <<>>, start |-> 2,
   rest |-> AppEnds, message |-> Message(r)]

AppDecoded(r, s) == Decodes(r, s, Message(r), 2 + Len(AppFields(r)), End, AppText(r), AppValues(r), "endkey")

(* Where the decoder is in it.                                             *)
AppDecodes(r, s) ==
  \/ Decodes(r, s, Message(r), 2, Then(start_key(AppKeyOf(r)), Shows(AppFields(r), 0, AppEnds)), <<>>, <<>>, "nocmd")
  \/ InType(r, s, AppPart(r))
  \/ Decodes(r, s, Message(r), 2 + Len(AppFields(r)), Then(Do("get_full_stream"), End),
             AppText0(r) \o TypeText(AppFields(r)), AppValues(r), "endkey")
  \/ AppDecoded(r, s)

(* The fields of a message of the app protocol are a part of it, behind    *)
(* its number.                                                             *)
LEMMA AppIsAPart ==
  ASSUME NEW r \in Requests, NEW s, OwnApp(r, s), Message(r) \in Seq(Numbers)
  PROVE  /\ IsAPart(AppPart(r)) /\ AppFields(r) \in Seq(Fields) /\ AppValues(r) \in Seq(Nat) /\ IsSeq(AppText0(r))
         /\ Len(Message(r)) = 2 + Len(AppFields(r))
<1> DEFINE F == AppFields(r)
           M == Message(r)
           L == Len(F)
<1>1. F \in Seq(Fields) /\ L \in Nat /\ MessageDone(r) /\ r.ns \notin V2GNamespaces
  BY AppFoundIs, LenProperties DEF OwnApp, AppDone, AppGood, MessageDone, V2GNamespaces
<1>2. Len(M) = 2 + L /\ \A k \in 1 .. Len(M) : M[k] = Script(r)[k]
  BY <1>1, MessageIs DEF OwnApp
<1>3. \A k \in 1 .. L : Script(r)[2 + k] = Content(AppObjectOf(r), F[k])
  BY <1>1, AppScriptIs
<1> HIDE DEF M, F
<1>4. M \in Seq(Numbers) /\ \A k \in 1 .. L : M[2 + k] = Content(AppObjectOf(r), F[k])
  <2>1. \A k \in 1 .. L : 2 + k \in 1 .. 2 + L
    BY <1>1
  <2> QED BY <1>2, <1>3, <2>1 DEF M
<1>5. 2 \in Nat /\ 2 + Len(F) <= Len(M)
  BY <1>1, <1>2
<1>6. /\ \A k \in 1 .. L : M[2 + k] = Number(Contents(AppObjectOf(r), F)[k], F[k].n)
      /\ Contents(AppObjectOf(r), F) = First(Contents(AppObjectOf(r), F), L)
      /\ Contents(AppObjectOf(r), F) \in Seq(Nat)
  BY <1>1, <1>4, <1>5, ContentsAre
<1>7. IsSeq(AppText0(r)) /\ IsSeq(AppEnds) /\ <<>> \in Seq(Nat) /\ Len(<<>>) <= 2
  <2>1. IsTwo("{", AppKeyOf(r), <<>>)
    BY Two, Singles
  <2>2. IsSeq(AppText0(r))
    BY <2>1 DEF IsTwo, AppText0
  <2>3. IsSeq(Then(Do("get_full_stream"), End))
    BY Parts, Statements
  <2>4. IsSeq(AppEnds)
    BY <2>3, Statements DEF AppEnds
  <2>5. <<>> \in Seq(Nat) /\ Len(<<>>) <= 2
    OBVIOUS
  <2> QED BY <2>2, <2>4, <2>5
<1>8. IsAPart(AppPart(r))
  <2> DEFINE t == AppPart(r)
  <2>1. /\ t.fields = F /\ t.contents = Contents(AppObjectOf(r), F) /\ t.text = AppText0(r) /\ t.values = <<>>
        /\ t.start = 2 /\ t.rest = AppEnds /\ t.message = M
    BY DEF AppPart, AppValues, F, M
  <2> HIDE DEF t
  <2>2. IsAPart(t)
    BY <1>1, <1>4, <1>5, <1>6, <1>7, <2>1 DEF IsAPart
  <2> QED BY <2>2 DEF t
<1> QED BY <1>1, <1>2, <1>6, <1>7, <1>8 DEF AppValues, M, F

(* Its number finds its type.                                              *)
LEMMA AppIsFound ==
  ASSUME NEW r \in Requests, NEW s \in Namespaces, NEW W, Begins(r, s, W), OwnApp(r, s), Next, Identified(r, s, W)
  PROVE  AppDecodes(r, s)'
<1> DEFINE F == AppFields(r)
           k == AppKeyOf(r)
           p == AppPlaceOf(r)
           rest == Then(start_key(k), Shows(F, 0, AppEnds))
           last2 == <<Do("end_key"), Do("get_full_stream")>>
<1>1. Own(r, s, W) /\ s \notin V2GNamespaces /\ s = "app_protocol" /\ AppFound(r)
  BY DEF Begins, Foreign, OwnApp, V2GNamespaces, AppDone, AppGood
<1>2. W = Message(r) /\ W[2].v = p - 1 /\ p \in {1, 2} /\ p \in DOMAIN AppMessages /\ AppMessages[p] = k
  <2>1. Message(r)[2] = Number(AppPlaceOf(r) - 1, 2)
    BY <1>1, MessageIs DEF Own, OwnApp
  <2> QED BY <1>1, <2>1, AppPlaces DEF Own, Number
<1>3. Decodes(r, s, W, 2, Then(Do("decode_app_protocol"), End), <<>>, <<>>, "nocmd") /\ Value = p - 1
  BY <1>1, <1>2 DEF Identified
<1>4. Running(Do("decode_app_protocol"), End) /\ ns = "app_protocol"
  BY <1>1, <1>3, Parts, DecodesRuns
<1>5. F \in Seq(Fields) /\ F = FieldsOf("app_protocol", AppMessages[p] \o "Type")
  BY <1>1, <1>2, AppFoundIs DEF OwnApp, AppFields
<1>6. /\ side' = side /\ Elsewhere
      /\ code' = ((<<start_key(k)>> \o FlattenSeq(Blocks(F))) \o last2) \o End
  <2>1. \/ Value \notin {0, 1} /\ Fails
        \/ \E i \in DOMAIN AppMessages :
             /\ Value = i - 1 /\ side' = side /\ Elsewhere
             /\ code' = ((<<start_key(AppMessages[i])>>
                           \o FlattenSeq(Blocks(FieldsOf("app_protocol", AppMessages[i] \o "Type"))))
                           \o <<Do("end_key"), Do("get_full_stream")>>) \o End
    BY <1>4, DecodeAppRuns
  <2>2. Value \in {0, 1}
    <3> HIDE DEF p
    <3> QED BY <1>2, <1>3
  <2>3. PICK i \in DOMAIN AppMessages :
             /\ Value = i - 1 /\ side' = side /\ Elsewhere
             /\ code' = ((<<start_key(AppMessages[i])>>
                           \o FlattenSeq(Blocks(FieldsOf("app_protocol", AppMessages[i] \o "Type"))))
                           \o <<Do("end_key"), Do("get_full_stream")>>) \o End
    BY <2>1, <2>2, Zenon
  <2>4. i = p
    <3>1. i \in {1, 2}
      BY DEF AppMessages
    <3> HIDE DEF p
    <3> QED BY <1>2, <1>3, <2>3, <3>1
  <2> HIDE DEF p, F, k
  <2> QED BY <1>2, <1>5, <2>3, <2>4, Zenon
<1>7. code' = rest
  <2> HIDE DEF F, k
  <2>1. IsTwo(Do("end_key"), Do("get_full_stream"), End) /\ IsSeq(End)
    BY Parts, Two
  <2>2. IsSeq(last2) /\ last2 \o End = AppEnds /\ IsSeq(AppEnds)
    BY <2>1 DEF IsTwo, AppEnds
  <2>3. ShowsNone(F, AppEnds)
    BY <1>5, <2>2, ShowsOn
  <2> DEFINE f == FlattenSeq(Blocks(F))
  <2>4. IsSeq(f)
    BY <2>3 DEF ShowsNone
  <2> HIDE DEF f, last2
  <2>5. IsSeq(Then(start_key(k), f))
    BY <2>4, Statements
  <2>6. Associate(Then(start_key(k), f), last2, End)
    BY <2>1, <2>2, <2>5, JoinedTwice
  <2>7. JoinsBehind(start_key(k), f, AppEnds)
    BY <2>2, <2>4, ThenJoined
  <2>8. code' = (Then(start_key(k), f) \o last2) \o End
    BY <1>6 DEF Then, f
  <2>9. code' = Then(start_key(k), f \o AppEnds)
    BY <2>2, <2>6, <2>7, <2>8, Zenon DEF Associate, JoinsBehind
  <2>10. f \o AppEnds = Shows(F, 0, AppEnds)
    BY <2>3 DEF ShowsNone, f
  <2> QED BY <2>9, <2>10, Zenon
<1> HIDE DEF rest, p
<1>8. Decodes(r, s, W, 2, rest, <<>>, <<>>, "nocmd")'
  BY <1>3, <1>6, <1>7, DecodesOn
<1>9. Decodes(r, s, Message(r), 2, rest, <<>>, <<>>, "nocmd")'
  BY <1>2, <1>8, Zenon
<1> QED BY <1>9, Zenon DEF AppDecodes, rest, F, k

(* Every step of it but the last.                                          *)
LEMMA AppSteps ==
  ASSUME NEW r \in Requests, NEW s, OwnApp(r, s), Next, AppDecodes(r, s)
  PROVE  AppDecodes(r, s)' \/ AppDecoded(r, s)
<1> DEFINE F == AppFields(r)
           M == Message(r)
           k == AppKeyOf(r)
           t == AppPart(r)
           full == Then(Do("get_full_stream"), End)
           rest == Shows(F, 0, AppEnds)
<1>1. M \in Seq(Numbers)
  <2>1. \A m, c, text, vals, command : Decodes(r, s, M, m, c, text, vals, command) => M \in Seq(Numbers)
    BY DEF Decodes, Reads, Stands
  <2>2. t.message = M
    BY DEF AppPart
  <2>3. InType(r, s, t) => M \in Seq(Numbers)
    BY <2>1, <2>2, Zenon DEF InType, AtName, Named, Got, Added
  <2> QED BY <2>1, <2>3, Zenon DEF AppDecodes, AppDecoded
<1>2. IsAPart(t) /\ F \in Seq(Fields) /\ AppValues(r) \in Seq(Nat) /\ IsSeq(AppText0(r))
  BY <1>1, AppIsAPart
<1>3. /\ t.fields = F /\ t.text = AppText0(r) /\ t.values = <<>> /\ t.start = 2
      /\ t.rest = AppEnds /\ t.message = M /\ t.contents = AppValues(r)
  BY DEF AppPart
<1>4. IsSeq(End) /\ IsSeq(full) /\ AppEnds = Then(Do("end_key"), full) /\ IsSeq(AppEnds) /\ IsSeq(rest)
  <2>1. IsSeq(End) /\ IsSeq(full)
    BY Parts, Statements
  <2>2. IsSeq(AppEnds)
    BY <2>1, Statements DEF AppEnds
  <2>3. 0 \in 0 .. Len(F)
    BY <1>2, LenProperties
  <2> QED BY <1>2, <2>1, <2>2, <2>3, ShowsAhead DEF AppEnds
<1>5. CASE Decodes(r, s, M, 2, Then(start_key(k), rest), <<>>, <<>>, "nocmd")
  <2> DEFINE more == IF "nocmd" = "endkey" THEN <<",", k>> ELSE <<"{", k>>
  <2>1. more = <<"{", k>>
    OBVIOUS
  <2>2. <<>> \o AppText0(r) = AppText0(r)
    BY <1>2, Joined
  <2> HIDE DEF rest, M, k, t
  <2>3. Decodes(r, s, M, 2, rest, <<>> \o more, <<>>, "startkey")'
    BY <1>4, <1>5, DecodesStart
  <2> HIDE DEF more
  <2>4. Decodes(r, s, t.message, t.start, rest, t.text, t.values, "startkey")'
    BY <1>3, <2>1, <2>2, <2>3, Zenon DEF AppText0, k
  <2>5. rest = Shows(t.fields, 0, t.rest)
    BY <1>3, Zenon DEF rest
  <2>6. Decodes(r, s, t.message, t.start, Shows(t.fields, 0, t.rest), t.text, t.values, "startkey")'
    BY <2>4, <2>5, Zenon
  <2>7. InType(r, s, t)'
    BY <1>2, <2>6, TypeBegins
  <2> QED BY <2>7 DEF AppDecodes, t
<1>6. CASE InType(r, s, t)
  <2>1. CASE InType(r, s, t)'
    BY <2>1 DEF AppDecodes
  <2>2. CASE AtName(r, s, t, Len(t.fields))
    <3> HIDE DEF t, full
    <3>1. t.rest = Then(Do("end_key"), full)
      BY <1>3, <1>4
    <3>2. Decodes(r, s, t.message, t.start + Len(t.fields), full, t.text \o TypeText(t.fields), t.values \o t.contents,
                  "endkey")'
      BY <1>2, <1>4, <2>2, <3>1, TypeIsClosed
    <3>3. <<>> \o AppValues(r) = AppValues(r)
      BY <1>2, ConcatEmptySeq
    <3>4. Decodes(r, s, M, 2 + Len(F), full, AppText0(r) \o TypeText(F), AppValues(r), "endkey")'
      BY <1>3, <3>2, <3>3, Zenon
    <3> QED BY <3>4 DEF AppDecodes, full
  <2> HIDE DEF t
  <2> QED BY <1>2, <1>6, <2>1, <2>2, InTypeSteps
<1>7. CASE Decodes(r, s, M, 2 + Len(F), full, AppText0(r) \o TypeText(F), AppValues(r), "endkey")
  <2> DEFINE text == AppText0(r) \o TypeText(F)
             m == 2 + Len(F)
             v == AppValues(r)
  <2>1. Append(text, "}") = AppText(r)
    <3>1. IsSeq(text)
      BY <1>2, TypeTextIsSeq, Joined
    <3>2. PICK S : text \in Seq(S)
      BY <3>1 DEF IsSeq
    <3> DEFINE b == "}"
    <3> HIDE DEF b
    <3> DEFINE T == S \cup {b}
    <3>3. text \in Seq(T) /\ b \in T
      BY <3>2
    <3> HIDE DEF T, text
    <3>4. Append(text, b) = text \o <<b>>
      BY <3>3, AppendIsConcat
    <3> QED BY <3>4, Zenon DEF AppText, AppText0, text, b
  <2> HIDE DEF text, M, m, v
  <2>2. Decodes(r, s, M, m, Then(Do("get_full_stream"), End), text, v, "endkey")
    BY <1>7 DEF text, M, m, v
  <2>3. Decodes(r, s, M, m, End, Append(text, "}"), v, "endkey")'
    BY <1>4, <2>2, DecodesFull
  <2>4. Decodes(r, s, M, m, End, AppText(r), v, "endkey")'
    BY <2>1, <2>3, Zenon
  <2> QED BY <2>4 DEF AppDecodes, AppDecoded, M, m, v
<1> QED BY <1>5, <1>6, <1>7 DEF AppDecodes

(***************************************************************************)
(* Where the program is.                                                   *)
(***************************************************************************)
Decoding(r, s) ==
  \/ Called(r, s)
  \/ \E W : Begins(r, s, W) /\ (Prologue(r, s, W) \/ Identified(r, s, W))
  \/ OwnV2G(r, s) /\ V2GDecodes(r, s)
  \/ OwnApp(r, s) /\ AppDecodes(r, s)

(* decode has returned what was said, and nothing is left.                 *)
Done(r, s) ==
  /\ request = r /\ ns = s /\ s = r.ns /\ side = "done" /\ code = <<>>
  /\ StreamsOK /\ fetch = Stream!NoFetch
  /\ SaidBy[r] # SaysNothing /\ SaidBy[r] = [text |-> output_data, values |-> values]
  /\ num_bits - bit_counter \in FinalCodes .. FinalCodes + 7
  /\ \A k \in bit_counter .. num_bits - 1 : Stream!BitAt(k) = 0

At(r, s) == Encoding(r, s) \/ Decoding(r, s) \/ Thrown(r, s) \/ Done(r, s)

(* encode returns.                                                         *)
LEMMA ReturnedCalls ==
  ASSUME NEW r \in Requests, NEW s \in Namespaces, Finished(r, s), Returned
  PROVE  Called(r, s)'
<1>1. MessageDone(r) /\ Encodes(r, s, IF r.ns \in V2GNamespaces THEN BodyEnd(r) + 2 ELSE 2 + Len(AppFields(r)), End)
  BY DEF Finished, Encoded, AppEncoded, MessageDone, V2GNamespaces
<1>2. Wrote(Message(r)) /\ Message(r) # <<>> /\ request = r /\ ns = s
  BY <1>1, MessageIs DEF Encodes, Message
<1>3. /\ side' = "decoder" /\ code' = decode /\ num_bits' = 8 * Len(exi_data) /\ bit_counter' = 0
      /\ fetch' = Stream!NoFetch /\ exi_data' = exi_data /\ UNCHANGED <<request, ns, texts>>
  BY DEF Returned
<1>4. Reads(Message(r), 0, TRUE)'
  BY <1>2, <1>3, MessageReturned
<1>5. code' = DecodeCalls(s)
  BY <1>2, <1>3, DecodeIs
<1>6. output_data' = <<>> /\ values' = <<>> /\ last_command' = "nocmd"
  BY <1>1, <1>3 DEF Encodes, texts
<1> QED BY <1>1, <1>2, <1>3, <1>4, <1>5, <1>6 DEF Called

(* decode returns: what is left are the two last event codes of a V2G      *)
(* message, and padding.                                                   *)
LeftOf(M, m, c, s) ==
  /\ c \in {0, 2} /\ c = IF s = "app_protocol" THEN 0 ELSE 2
  /\ Len(M) = m + c /\ \A k \in m + 1 .. m + c : M[k] = Number(0, 1)

(* decode returns the text and the values that the request says, at the    *)
(* end of what it reads.                                                   *)
LEMMA ReturnedIsSaid ==
  ASSUME NEW r \in Requests, NEW s, Next, NEW m, NEW c, NEW text, IsSeq(text), NEW last1, NEW vals,
         Decodes(r, s, Message(r), m, End, Append(text, last1), vals, "endkey"), s = r.ns,
         LeftOf(Message(r), m, c, s),
         SaidBy[r] = [text |-> Append(text, last1), values |-> vals]
  PROVE  Done(r, s)'
<1> DEFINE M == Message(r)
           all == Append(text, last1)
<1>1. /\ request = r /\ ns = s /\ side = "decoder" /\ code = <<>> /\ fetch = Stream!NoFetch /\ Reads(M, m, TRUE)
      /\ output_data = all /\ values = vals
  BY DEF Decodes, End, Reads
<1>2. StreamsOK
  <2> HIDE DEF M, all
  <2>1. Decodes(r, s, M, m, End, all, vals, "endkey")
    BY DEF M, all
  <2> QED BY <2>1, DecodesOK
<1>3. Decoded
  BY <1>1, NothingRuns
<1>4. side' = "done" /\ code' = <<>> /\ Elsewhere
  BY <1>1, <1>3 DEF Decoded, Elsewhere, streams, texts
<1>5. StreamsOK'
  BY <1>2, <1>4, StreamsKept
<1>6. /\ num_bits - bit_counter \in c .. c + 7
      /\ \A k \in bit_counter .. num_bits - 1 : Stream!BitAt(k) = 0
  <2> HIDE DEF M
  <2>1. c \in {0, 2} /\ Len(M) = m + c /\ \A k \in m + 1 .. m + c : M[k] = Number(0, 1)
    BY DEF LeftOf, M
  <2> QED BY <1>1, <2>1, WhatIsLeft
<1>7. FinalCodes' = c
  BY <1>1, <1>4 DEF FinalCodes, Elsewhere, LeftOf
<1>8. /\ (num_bits - bit_counter \in FinalCodes .. FinalCodes + 7)'
      /\ (\A k \in bit_counter .. num_bits - 1 : Stream!BitAt(k) = 0)'
  <2>1. UNCHANGED <<num_bits, bit_counter, exi_data>>
    BY <1>4 DEF Elsewhere
  <2>2. ASSUME NEW k PROVE Stream!BitAt(k)' = Stream!BitAt(k)
    BY <2>1 DEF Stream!BitAt
  <2> HIDE DEF M, all
  <2> QED BY <1>6, <1>7, <2>1, <2>2
<1>9. SaidBy[r] # SaysNothing
  <2>1. PICK S : text \in Seq(S)
    BY DEF IsSeq
  <2> DEFINE T == S \cup {last1}
  <2>2. text \in Seq(T) /\ last1 \in T
    BY <2>1
  <2> HIDE DEF T
  <2>3. all # <<>>
    BY <2>2, AppendProperties
  <2>4. SaidBy[r].text = all
    OBVIOUS
  <2> HIDE DEF all
  <2> QED BY <2>3, <2>4 DEF SaysNothing
<1>10. SaidBy[r] = [text |-> output_data', values |-> values'] /\ request' = r /\ ns' = s /\ fetch' = Stream!NoFetch
  BY <1>1, <1>4 DEF Elsewhere
<1> HIDE DEF M, all
<1> QED BY <1>4, <1>5, <1>8, <1>9, <1>10 DEF Done, Stream!NoFetch

(* The same, of both.                                                      *)
LEMMA V2GIsReturned ==
  ASSUME NEW r \in Requests, NEW s, OwnV2G(r, s), Next, V2GDecoded(r, s)
  PROVE  Done(r, s)'
<1> DEFINE M == Message(r)
           m == BodyEnd(r)
           text == (SaidOf(r) \o <<"}">>) \o <<"}">>
           b == "}"
<1>1. M \in Seq(Numbers)
  BY DEF V2GDecoded, Decodes, Reads, Stands
<1>2. /\ M[m + 1] = Number(0, 1) /\ M[m + 2] = Number(0, 1) /\ Len(M) = m + 2 /\ m \in Nat
  <2>1. /\ Message(r)[BodyEnd(r) + 1] = Number(0, 1) /\ Message(r)[BodyEnd(r) + 2] = Number(0, 1)
        /\ Len(Message(r)) = BodyEnd(r) + 2
    BY <1>1, HeaderIsAPart
  <2>2. BodyStart(r) \in Nat /\ Len(BodyFields(r)) \in Nat
    BY <1>1, BodyIsAPart
  <2> QED BY <2>1, <2>2 DEF BodyEnd
<1> HIDE DEF M, m
<1>3. \A k \in m + 1 .. m + 2 : M[k] = Number(0, 1)
  <2>1. \A k \in m + 1 .. m + 2 : k = m + 1 \/ k = m + 2
    BY <1>2
  <2> QED BY <1>2, <2>1
<1>4. IsSeq(text) /\ Append(text, b) = MessageText(r)
  <2>1. IsAPart(BodyPart(r)) /\ BodyFields(r) \in Seq(Fields)
    BY <1>1, BodyIsAPart DEF M
  <2>2. IsSeq(BodyText(r))
    BY <2>1 DEF IsAPart, BodyPart
  <2>3. IsSeq(TypeText(BodyFields(r)))
    BY <2>1, TypeTextIsSeq
  <2>4. IsSeq(SaidOf(r))
    BY <2>2, <2>3, Joined DEF SaidOf
  <2>5. IsSeq(<<"}">>)
    BY Singles
  <2>6. IsSeq(SaidOf(r) \o <<"}">>)
    BY <2>4, <2>5, Joined
  <2>7. IsSeq(text)
    BY <2>5, <2>6, Joined
  <2>8. ThreeBraces(SaidOf(r))
    BY <2>4, BracesAtTheEnd
  <2> QED BY <2>7, <2>8, Zenon DEF ThreeBraces, SaidOf, BodyText, HeaderSaid, MessageText
<1> HIDE DEF text, b
<1>5. Decodes(r, s, M, m, End, Append(text, b), MessageValues(r), "endkey")
  BY <1>4, Zenon DEF V2GDecoded, M, m
<1>6. SaidBy[r] = [text |-> Append(text, b), values |-> MessageValues(r)]
  BY <1>4, EncodedIsSaid DEF OwnV2G
<1>7. s = r.ns /\ s # "app_protocol"
  BY DEF OwnV2G, V2GNamespaces
<1> DEFINE c == 2
           v == MessageValues(r)
<1>8. LeftOf(M, m, c, s)
  BY <1>2, <1>3, <1>7 DEF LeftOf
<1> HIDE DEF c, v
<1>9. /\ Decodes(r, s, Message(r), m, End, Append(text, b), v, "endkey")
      /\ SaidBy[r] = [text |-> Append(text, b), values |-> v] /\ LeftOf(Message(r), m, c, s)
  BY <1>5, <1>6, <1>8 DEF M, v
<1> QED BY <1>4, <1>7, <1>9, ReturnedIsSaid

(* So it does for the app protocol.                                        *)
LEMMA AppIsReturned ==
  ASSUME NEW r \in Requests, NEW s, OwnApp(r, s), Next, AppDecoded(r, s)
  PROVE  Done(r, s)'
<1> DEFINE M == Message(r)
           m == 2 + Len(AppFields(r))
           text == AppText0(r) \o TypeText(AppFields(r))
           b == "}"
<1>1. M \in Seq(Numbers)
  BY DEF AppDecoded, Decodes, Reads, Stands
<1>2. AppFields(r) \in Seq(Fields) /\ IsSeq(AppText0(r)) /\ Len(M) = m /\ Len(AppFields(r)) \in Nat
  BY <1>1, AppIsAPart, LenProperties
<1> HIDE DEF M, b
<1>3. m \in Nat /\ Len(M) = m + 0 /\ \A k \in m + 1 .. m + 0 : M[k] = Number(0, 1)
  BY <1>2
<1>4. IsSeq(text) /\ Append(text, b) = AppText(r)
  <2>1. IsSeq(text)
    BY <1>2, TypeTextIsSeq, Joined
  <2>2. PICK S : text \in Seq(S)
    BY <2>1 DEF IsSeq
  <2> DEFINE T == S \cup {b}
  <2>3. text \in Seq(T) /\ b \in T
    BY <2>2
  <2> HIDE DEF T, text
  <2>4. Append(text, b) = text \o <<b>>
    BY <2>3, AppendIsConcat
  <2> QED BY <2>1, <2>4, Zenon DEF AppText, AppText0, text, b
<1> HIDE DEF text, m
<1>5. Decodes(r, s, M, m, End, Append(text, b), AppValues(r), "endkey")
  BY <1>4, Zenon DEF AppDecoded, M, m
<1>6. SaidBy[r] = [text |-> Append(text, b), values |-> AppValues(r)]
  BY <1>4, AppEncodedIsSaid DEF OwnApp
<1> DEFINE c == 0
           v == AppValues(r)
<1>7. LeftOf(M, m, c, s) /\ s = r.ns
  BY <1>3 DEF OwnApp, LeftOf
<1> HIDE DEF c, v
<1>8. /\ Decodes(r, s, Message(r), m, End, Append(text, b), v, "endkey")
      /\ SaidBy[r] = [text |-> Append(text, b), values |-> v] /\ LeftOf(Message(r), m, c, s)
  BY <1>5, <1>6, <1>7 DEF M, v
<1> QED BY <1>4, <1>7, <1>8, ReturnedIsSaid

(* Every step of the decoder.                                              *)
LEMMA DecodingSteps ==
  ASSUME NEW r \in Requests, NEW s \in Namespaces, Next, Decoding(r, s)
  PROVE  At(r, s)'
<1>1. CASE Called(r, s)
  <2>1. PICK W : Begins(r, s, W) /\ Decodes(r, s, W, 0, DecodeCalls(s), <<>>, <<>>, "nocmd")
    BY <1>1, CalledReads
  <2>2. Prologue(r, s, W)' \/ Identified(r, s, W)' \/ Thrown(r, s)'
    BY <2>1, PrologueIsRead
  <2>3. Begins(r, s, W)'
    BY <2>1
  <2> QED BY <2>2, <2>3, Zenon DEF At, Decoding
<1>2. ASSUME NEW W, Begins(r, s, W), Prologue(r, s, W) PROVE At(r, s)'
  <2>1. Prologue(r, s, W)' \/ Identified(r, s, W)' \/ Thrown(r, s)'
    BY <1>2, PrologueIsRead
  <2>2. Begins(r, s, W)'
    BY <1>2
  <2> QED BY <2>1, <2>2, Zenon DEF At, Decoding
<1>3. ASSUME NEW W, Begins(r, s, W), Identified(r, s, W) PROVE At(r, s)'
  <2>1. CASE s # r.ns
    BY <1>3, <2>1, ForeignIsRefused DEF At
  <2>2. CASE s = r.ns
    <3>1. MessageDone(r)
      BY <1>3, <2>2 DEF Begins, Own, Foreign
    <3>2. CASE OwnV2G(r, s)
      <4>1. V2GDecodes(r, s)'
        BY <1>3, <3>2, IdentifiedOpens
      <4>2. OwnV2G(r, s)'
        BY <3>2
      <4> QED BY <4>1, <4>2 DEF At, Decoding
    <3>3. CASE OwnApp(r, s)
      <4>1. AppDecodes(r, s)'
        BY <1>3, <3>3, AppIsFound
      <4>2. OwnApp(r, s)'
        BY <3>3
      <4> QED BY <4>1, <4>2 DEF At, Decoding
    <3> QED BY <2>2, <3>1, <3>2, <3>3 DEF MessageDone, OwnV2G, OwnApp
  <2> QED BY <2>1, <2>2
<1>4. CASE OwnV2G(r, s) /\ V2GDecodes(r, s)
  <2>1. V2GDecodes(r, s)' \/ Done(r, s)'
    BY <1>4, V2GSteps, V2GIsReturned
  <2>2. OwnV2G(r, s)'
    BY <1>4
  <2> QED BY <2>1, <2>2 DEF At, Decoding
<1>5. CASE OwnApp(r, s) /\ AppDecodes(r, s)
  <2>1. AppDecodes(r, s)' \/ Done(r, s)'
    BY <1>5, AppSteps, AppIsReturned
  <2>2. OwnApp(r, s)'
    BY <1>5
  <2> QED BY <2>1, <2>2 DEF At, Decoding
<1> QED BY <1>1, <1>2, <1>3, <1>4, <1>5 DEF Decoding

(* What the states have in common.                                         *)
LEMMA EncodingIs ==
  ASSUME NEW r, NEW s, Encoding(r, s)
  PROVE  request = r /\ ns = s /\ side = "encoder" /\ num_bits = 0 /\ output_data = <<>> /\ StreamsOK
<1>1. \E m, c : Encodes(r, s, m, c)
  <2>1. V2GEncodes(r, s) => \E m, c : Encodes(r, s, m, c)
    BY Zenon DEF V2GEncodes, HeaderAt, HeaderIn, BodyAt, BodyIn, InFields, AtField, Encoded
  <2>2. AppEncodes(r, s) => \E m, c : Encodes(r, s, m, c)
    BY Zenon DEF AppEncodes, AppAt, AppIn, InFields, AtField, AppEncoded
  <2> QED BY <2>1, <2>2, Zenon DEF Encoding
<1>2. PICK m, c : Encodes(r, s, m, c)
  BY <1>1
<1>3. StreamsOK
  BY <1>2, EncodesOK
<1> QED BY <1>2, <1>3 DEF Encodes, Wrote

(* Fetching apart, the decoder stands somewhere.                           *)
SomeDecodes(r, s) == \E W, m, c, text, vals, command : Decodes(r, s, W, m, c, text, vals, command)

(* In every place of the decoder it decodes some statements, or fetches    *)
(* the number of the message.                                              *)
LEMMA DecodingSomewhere ==
  ASSUME NEW r \in Requests, NEW s \in Namespaces, Decoding(r, s)
  PROVE  SomeDecodes(r, s) \/ (OwnV2G(r, s) /\ Fetching(r, s))
<1>1. CASE Called(r, s)
  <2>1. \E W : Begins(r, s, W) /\ Decodes(r, s, W, 0, DecodeCalls(s), <<>>, <<>>, "nocmd")
    BY <1>1, CalledReads
  <2> QED BY <2>1, Zenon DEF SomeDecodes
<1>2. CASE \E W : Begins(r, s, W) /\ (Prologue(r, s, W) \/ Identified(r, s, W))
  <2>1. PICK W : Prologue(r, s, W) \/ Identified(r, s, W)
    BY <1>2
  <2>2. \E m, c, text, vals, command : Decodes(r, s, W, m, c, text, vals, command)
    <3>1. Prologue(r, s, W) => \E m, c, text, vals, command : Decodes(r, s, W, m, c, text, vals, command)
      <4>1. Prologue(r, s, W) => \E c : Decodes(r, s, W, 1, c, <<>>, <<>>, "nocmd")
        BY SMT DEF Prologue
      <4> QED BY <4>1, Zenon
    <3>2. Identified(r, s, W) => \E m, c, text, vals, command : Decodes(r, s, W, m, c, text, vals, command)
      BY Zenon DEF Identified
    <3> QED BY <2>1, <3>1, <3>2
  <2> QED BY <2>2, Zenon DEF SomeDecodes
<1>3. \A t : InType(r, s, t) => SomeDecodes(r, s)
  BY Zenon DEF SomeDecodes, InType, AtName, Named, Got, Added
<1>4. CASE OwnV2G(r, s) /\ V2GDecodes(r, s)
  <2>1. V2GOpens(r, s) \/ V2GCloses(r, s) \/ V2GDecoded(r, s) => SomeDecodes(r, s)
    BY Zenon DEF SomeDecodes, V2GOpens, V2GCloses, V2GDecoded
  <2>2. V2GTurns(r, s) => SomeDecodes(r, s) \/ Fetching(r, s)
    BY Zenon DEF SomeDecodes, V2GTurns
  <2> QED BY <1>3, <1>4, <2>1, <2>2, Zenon DEF V2GDecodes
<1>5. CASE AppDecodes(r, s)
  BY <1>3, <1>5, Zenon DEF SomeDecodes, AppDecodes, AppDecoded
<1> QED BY <1>1, <1>2, <1>4, <1>5, Zenon DEF Decoding

(* The decoder is of the request, with its streams in order.               *)
LEMMA DecodingIs ==
  ASSUME NEW r \in Requests, NEW s \in Namespaces, Decoding(r, s)
  PROVE  request = r /\ ns = s /\ side = "decoder" /\ StreamsOK
<1>1. CASE SomeDecodes(r, s)
  <2>1. PICK W, m, c, text, vals, command : Decodes(r, s, W, m, c, text, vals, command)
    BY <1>1 DEF SomeDecodes
  <2>2. StreamsOK
    BY <2>1, DecodesOK
  <2> QED BY <2>1, <2>2 DEF Decodes
<1>2. CASE OwnV2G(r, s) /\ Fetching(r, s)
  <2> DEFINE M == Message(r)
             m == HeaderEnd(r) + 1
             h == HeaderValues(r)
  <2>1. /\ Stands(M, m, s = r.ns) /\ values = h /\ last_command = "startkey" /\ M \in Seq(Numbers)
        /\ DOMAIN fetch = {"n", "taken", "buffer"} /\ fetch.n = 6 /\ fetch.taken = 0
    BY <1>2 DEF Fetching, Fetches6, Stands
  <2>2. Len(h) \in Nat /\ Len(h) <= m
    <3>1. h \in Seq(Nat) /\ Len(h) = Len(HeaderFields(r.ns))
      BY <1>2, <2>1, HeaderIsAPart
    <3>2. Len(h) \in Nat
      BY <3>1, LenProperties
    <3> QED BY <3>1, <3>2 DEF HeaderEnd
  <2> HIDE DEF M, m, h
  <2>3. /\ bit_counter \in Nat /\ m \in Nat /\ m <= bit_counter /\ bit_counter <= num_bits
        /\ exi_data \in Seq(Stream!Byte) /\ num_bits = 8 * Len(exi_data)
    BY <2>1, ReadsOK
  <2>4. Stream!TypeOK
    BY <2>1, <2>3 DEF Stream!TypeOK, Stream!NoBytes
  <2>5. Len(values) <= bit_counter /\ last_command \in Text!Commands
    BY <2>1, <2>2, <2>3 DEF Text!Commands
  <2>6. StreamsOK
    BY <2>3, <2>4, <2>5 DEF StreamsOK
  <2> QED BY <1>2, <2>6 DEF Fetching
<1> QED BY <1>1, <1>2, DecodingSomewhere

(* A finished call stays so.                                               *)
LEMMA EndedStays ==
  ASSUME NEW r, NEW s, Thrown(r, s) \/ Done(r, s), Next
  PROVE  UNCHANGED vars
<1>1. code = <<>> /\ fetch = Stream!NoFetch /\ side \in {"done", "thrown"}
  BY DEF Thrown, Done
<1> QED BY <1>1, NothingRuns

(* A state stays where it is while nothing changes.                        *)
LEMMA EndedKept ==
  ASSUME NEW r, NEW s, Thrown(r, s) \/ Done(r, s), UNCHANGED vars
  PROVE  (Thrown(r, s) \/ Done(r, s))'
<1>1. Elsewhere /\ side' = side /\ code' = code
  BY DEF vars, streams, texts, Elsewhere
<1>2. StreamsOK'
  BY <1>1, StreamsKept DEF Thrown, Done
<1>3. fetch' = Stream!NoFetch
  BY <1>1 DEF Thrown, Done, Elsewhere
<1>4. CASE Thrown(r, s)
  BY <1>1, <1>2, <1>3, <1>4 DEF Thrown, Elsewhere, Stream!NoFetch
<1>5. CASE Done(r, s)
  <2>1. UNCHANGED <<request, ns, num_bits, bit_counter, exi_data, output_data, values>>
    BY <1>1 DEF Elsewhere
  <2>2. FinalCodes' = FinalCodes
    BY <2>1 DEF FinalCodes
  <2>3. ASSUME NEW k PROVE Stream!BitAt(k)' = Stream!BitAt(k)
    BY <2>1 DEF Stream!BitAt
  <2>4. /\ (num_bits - bit_counter \in FinalCodes .. FinalCodes + 7)'
        /\ (\A k \in bit_counter .. num_bits - 1 : Stream!BitAt(k) = 0)'
    BY <1>5, <2>1, <2>2, <2>3 DEF Done
  <2> QED BY <1>1, <1>2, <1>3, <1>5, <2>1, <2>4 DEF Done, Stream!NoFetch
<1> QED BY <1>4, <1>5

(* The encoder stays where it is while nothing changes.                    *)
LEMMA EncodingKept ==
  ASSUME NEW r, NEW s, Encoding(r, s), UNCHANGED vars
  PROVE  Encoding(r, s)'
<1>1. Elsewhere /\ side' = side /\ code' = code
  BY DEF vars, streams, texts, Elsewhere
<1>2. ASSUME NEW m, NEW c, Encodes(r, s, m, c) PROVE Encodes(r, s, m, c)'
  <2>1. code' = c
    BY <1>1, <1>2 DEF Encodes
  <2> QED BY <1>1, <1>2, <2>1, EncodesOn
<1>3. \A m, c : Encodes(r, s, m, c) => Encodes(r, s, m, c)'
  BY <1>2
<1>4. V2GEncodes(r, s) => V2GEncodes(r, s)'
  <2>1. \A j : HeaderAt(r, s, j) => HeaderAt(r, s, j)'
    BY <1>3, Zenon DEF HeaderAt, InFields
  <2>2. \A j : HeaderIn(r, s, j) => HeaderIn(r, s, j)'
    BY <1>3, Zenon DEF HeaderIn, AtField
  <2>3. \A j : BodyAt(r, s, j) => BodyAt(r, s, j)'
    BY <1>3, Zenon DEF BodyAt, InFields
  <2>4. \A j : BodyIn(r, s, j) => BodyIn(r, s, j)'
    BY <1>3, Zenon DEF BodyIn, AtField
  <2> QED BY <1>3, <2>1, <2>2, <2>3, <2>4, Zenon DEF V2GEncodes, Encoded
<1>5. AppEncodes(r, s) => AppEncodes(r, s)'
  <2>1. \A j : AppAt(r, s, j) => AppAt(r, s, j)'
    BY <1>3, Zenon DEF AppAt, InFields
  <2>2. \A j : AppIn(r, s, j) => AppIn(r, s, j)'
    BY <1>3, Zenon DEF AppIn, AtField
  <2> QED BY <1>3, <2>1, <2>2, Zenon DEF AppEncodes, AppEncoded
<1> QED BY <1>3, <1>4, <1>5, Zenon DEF Encoding

(* So does the decoder.                                                    *)
LEMMA DecodingKept ==
  ASSUME NEW r, NEW s, Decoding(r, s), UNCHANGED vars
  PROVE  Decoding(r, s)'
<1>1. Elsewhere /\ side' = side /\ code' = code /\ fetch' = fetch
  BY DEF vars, streams, texts, Elsewhere
<1>2. ASSUME NEW W, NEW m, NEW c, NEW text, NEW vals, NEW command, Decodes(r, s, W, m, c, text, vals, command)
      PROVE  Decodes(r, s, W, m, c, text, vals, command)'
  <2>1. code' = c
    BY <1>1, <1>2 DEF Decodes
  <2> QED BY <1>1, <1>2, <2>1, DecodesOn
<1>3. \A W, m, c, text, vals, command :
        Decodes(r, s, W, m, c, text, vals, command) => Decodes(r, s, W, m, c, text, vals, command)'
  BY <1>2
<1>4. Value' = Value /\ message_type' = message_type
  BY <1>1 DEF Elsewhere, Value, message_type
<1>5. UNCHANGED <<exi_data, bit_counter, num_bits, fetch>>
      /\ UNCHANGED <<request, ns, side, output_data, values, last_command>>
  BY <1>1 DEF Elsewhere
<1>6. \A W, m, whole : Stands(W, m, whole) => Stands(W, m, whole)'
  BY <1>5, ReadsKept
<1>7. ASSUME Called(r, s) PROVE Called(r, s)'
  <2>1. Reads(Message(r), 0, TRUE)'
    BY <1>5, <1>6, <1>7 DEF Called, Reads, Stream!NoFetch
  <2> QED BY <1>1, <1>5, <1>7, <2>1 DEF Called
<1>8. ASSUME NEW W PROVE (Prologue(r, s, W) => Prologue(r, s, W)') /\ (Identified(r, s, W) => Identified(r, s, W)')
  <2>1. Prologue(r, s, W) => Prologue(r, s, W)'
    <3>1. \A c : Decodes(r, s, W, 1, c, <<>>, <<>>, "nocmd") => Decodes(r, s, W, 1, c, <<>>, <<>>, "nocmd")'
      BY <1>3, Zenon
    <3> QED BY <1>4, <3>1 DEF Prologue
  <2>2. Identified(r, s, W) => Identified(r, s, W)'
    BY <1>3, <1>4, Zenon DEF Identified
  <2> QED BY <2>1, <2>2
<1>9. \A t : InType(r, s, t) => InType(r, s, t)'
  <2>1. \A t, j : (AtName(r, s, t, j) => AtName(r, s, t, j)') /\ (Named(r, s, t, j) => Named(r, s, t, j)')
    BY <1>3, Zenon DEF AtName, Named
  <2>2. \A t, j : (Got(r, s, t, j) => Got(r, s, t, j)') /\ (Added(r, s, t, j) => Added(r, s, t, j)')
    BY <1>3, <1>4, Zenon DEF Got, Added
  <2> QED BY <2>1, <2>2, Zenon DEF InType
<1>10. Fetching(r, s) => Fetching(r, s)'
  <2>1. \A W, m, whole : Fetches6(W, m, whole) => Fetches6(W, m, whole)'
    BY <1>5, <1>6 DEF Fetches6, Stream!NoFetch
  <2> QED BY <1>1, <1>5, <2>1 DEF Fetching
<1>11. V2GDecodes(r, s) => V2GDecodes(r, s)'
  <2>1. V2GOpens(r, s) => V2GOpens(r, s)'
    BY <1>3, <1>4, Zenon DEF V2GOpens
  <2>2. V2GTurns(r, s) => V2GTurns(r, s)'
    BY <1>3, <1>4, <1>10, Zenon DEF V2GTurns
  <2>3. V2GCloses(r, s) => V2GCloses(r, s)'
    BY <1>3, Zenon DEF V2GCloses
  <2>4. V2GDecoded(r, s) => V2GDecoded(r, s)'
    BY <1>3, Zenon DEF V2GDecoded
  <2> QED BY <1>9, <2>1, <2>2, <2>3, <2>4, Zenon DEF V2GDecodes
<1>12. AppDecodes(r, s) => AppDecodes(r, s)'
  BY <1>3, <1>9, Zenon DEF AppDecodes, AppDecoded
<1>13. CASE Called(r, s)
  BY <1>7, <1>13 DEF Decoding
<1>14. CASE \E W : Begins(r, s, W) /\ (Prologue(r, s, W) \/ Identified(r, s, W))
  <2>1. PICK W : Begins(r, s, W) /\ (Prologue(r, s, W) \/ Identified(r, s, W))
    BY <1>14
  <2>2. Begins(r, s, W)' /\ (Prologue(r, s, W)' \/ Identified(r, s, W)')
    BY <1>8, <2>1
  <2> QED BY <2>2, Zenon DEF Decoding
<1>15. CASE OwnV2G(r, s) /\ V2GDecodes(r, s)
  BY <1>11, <1>15 DEF Decoding
<1>16. CASE OwnApp(r, s) /\ AppDecodes(r, s)
  BY <1>12, <1>16 DEF Decoding
<1> QED BY <1>13, <1>14, <1>15, <1>16 DEF Decoding

(* Every step.                                                             *)
LEMMA AtSteps ==
  ASSUME NEW r \in Requests, NEW s \in Namespaces, At(r, s), [Next]_vars
  PROVE  At(r, s)'
<1>1. CASE UNCHANGED vars
  BY <1>1, EncodingKept, DecodingKept, EndedKept DEF At
<1>2. CASE Next
  <2>1. CASE Encoding(r, s)
    <3>1. Encoding(r, s)' \/ Thrown(r, s)' \/ (Finished(r, s) /\ Returned)
      BY <1>2, <2>1, EncodingSteps
    <3>2. Finished(r, s) /\ Returned => Decoding(r, s)'
      BY ReturnedCalls DEF Decoding
    <3> QED BY <3>1, <3>2 DEF At
  <2>2. CASE Decoding(r, s)
    BY <1>2, <2>2, DecodingSteps
  <2>3. CASE Thrown(r, s) \/ Done(r, s)
    BY <1>2, <2>3, EndedStays, EndedKept DEF At
  <2> QED BY <2>1, <2>2, <2>3 DEF At
<1> QED BY <1>1, <1>2

(* A request is where encode and decode take it.                           *)
OnItsWay == ~IsReceived => \E r \in Requests, s \in Namespaces : At(r, s)

(* A call begins with the encoder, which has written nothing.              *)
LEMMA InitIsAt ==
  ASSUME Init PROVE OnItsWay
<1>1. SUFFICES ASSUME ~IsReceived PROVE \E r \in Requests, s \in Namespaces : At(r, s)
  BY DEF OnItsWay
<1>2. request \in Requests /\ ns \in Namespaces
  BY <1>1, ReceivedAssumption DEF Init, IsReceived
<1>3. /\ side = "encoder" /\ code = encode /\ exi_data = <<>> /\ num_bits = 8 * Len(exi_data)
      /\ bit_counter = 0 /\ fetch = Stream!NoFetch
      /\ output_data = <<>> /\ last_command = "nocmd" /\ values = <<>>
  BY <1>1 DEF Init
<1>4. num_bits = 0
  BY <1>3
<1>5. Wrote(<<>>)
  BY <1>3, <1>4, NothingWritten
<1>6. First(Script(request), 0) = <<>>
  <2>1. Len(First(Script(request), 0)) = 0 /\ IsSeq(First(Script(request), 0))
    BY FirstIs
  <2>2. PICK S : First(Script(request), 0) \in Seq(S)
    BY <2>1 DEF IsSeq
  <2> QED BY <2>1, <2>2, EmptySeq
<1>7. code = EncodeCalls(request.ns)
  BY <1>2, <1>3, RequestsAssumption, EncodeIs
<1>8. Encodes(request, ns, 0, EncodeCalls(request.ns))
  BY <1>3, <1>5, <1>6, <1>7 DEF Encodes
<1> QED BY <1>2, <1>8, Zenon DEF At, Encoding

(* No step changes what the call is of.                                    *)
LEMMA RequestKept ==
  ASSUME [Next]_vars PROVE request' = request /\ ns' = ns
<1>1. CASE UNCHANGED vars
  BY <1>1 DEF vars
<1>2. ASSUME NEW statements, Goes(statements) \/ Throws PROVE request' = request /\ ns' = ns
  BY <1>2 DEF Goes, Throws
<1>3. Throw \/ add_max_8bits \/ to_object \/ encode_header \/ find_body \/ encode_field => request' = request /\ ns' = ns
  BY <1>2, Zenon DEF Throw, add_max_8bits, to_object, encode_header, find_body, encode_field, Either
<1>4. encodeBody => request' = request /\ ns' = ns
  BY <1>2, Zenon DEF encodeBody
<1>5. encode_app_protocol => request' = request /\ ns' = ns
  BY <1>2, Zenon DEF encode_app_protocol
<1>6. get_max_4bytes \/ expect \/ write \/ decodeBody \/ switch => request' = request /\ ns' = ns
  BY <1>2, Zenon DEF get_max_4bytes, expect, write, decodeBody, switch, Either
<1>7. decode_app_protocol => request' = request /\ ns' = ns
  BY <1>2, Zenon DEF decode_app_protocol
<1>8. Returned \/ get_next_n_bits \/ Decoded \/ Ended => request' = request /\ ns' = ns
  BY DEF Returned, get_next_n_bits, Decoded, Ended, vars
<1> QED BY <1>1, <1>3, <1>4, <1>5, <1>6, <1>7, <1>8 DEF Next

(* Every step of a request leads to a place of it.                         *)
LEMMA OnItsWaySteps ==
  ASSUME OnItsWay, [Next]_vars PROVE OnItsWay'
<1>1. SUFFICES ASSUME ~IsReceived' PROVE \E r \in Requests, s \in Namespaces : At(r, s)'
  BY DEF OnItsWay
<1>2. ~IsReceived
  BY <1>1, RequestKept DEF IsReceived
<1>3. PICK r \in Requests, s \in Namespaces : At(r, s)
  BY <1>2 DEF OnItsWay
<1> QED BY <1>3, AtSteps

(* In these places the types are right, what is left at the end are the    *)
(* final codes, and it is the end of a call under the same namespace.      *)
LEMMA AtIs ==
  ASSUME NEW r \in Requests, NEW s \in Namespaces, At(r, s)
  PROVE  TypeOK /\ StopsAtTheEnd /\ RefusesOtherNamespaces
<1>1. CASE Encoding(r, s)
  <2>1. side = "encoder" /\ num_bits = 0 /\ output_data = <<>> /\ StreamsOK
    BY <1>1, EncodingIs
  <2> QED BY <2>1 DEF TypeOK, StopsAtTheEnd, RefusesOtherNamespaces, StreamsOK
<1>2. CASE Decoding(r, s)
  <2>1. side = "decoder" /\ StreamsOK
    BY <1>2, DecodingIs
  <2> QED BY <2>1 DEF TypeOK, StopsAtTheEnd, RefusesOtherNamespaces, StreamsOK
<1>3. CASE Thrown(r, s)
  BY <1>3 DEF Thrown, TypeOK, StopsAtTheEnd, RefusesOtherNamespaces, StreamsOK
<1>4. CASE Done(r, s)
  BY <1>4 DEF Done, TypeOK, StopsAtTheEnd, RefusesOtherNamespaces, StreamsOK
<1> QED BY <1>1, <1>2, <1>3, <1>4 DEF At

(* Where a call is, by its side: it has ended only as one that throws or   *)
(* returns what was said.                                                  *)
Sided ==
  ~IsReceived => /\ side \in {"encoder", "decoder", "thrown", "done"}
                 /\ side = "thrown" => Thrown(request, ns)
                 /\ side = "done" => Done(request, ns)

(* What the invariant says of a state.                                     *)
LEMMA OnItsWayIs ==
  ASSUME OnItsWay
  PROVE  Sided /\ (~IsReceived => TypeOK /\ StopsAtTheEnd /\ RefusesOtherNamespaces)
<1>1. SUFFICES ASSUME ~IsReceived PROVE Sided /\ TypeOK /\ StopsAtTheEnd /\ RefusesOtherNamespaces
  BY DEF Sided
<1>2. PICK r \in Requests, s \in Namespaces : At(r, s)
  BY <1>1 DEF OnItsWay
<1>3. TypeOK /\ StopsAtTheEnd /\ RefusesOtherNamespaces
  BY <1>2, AtIs
<1>4. side \in {"encoder", "decoder", "thrown", "done"}
  BY <1>3 DEF TypeOK
<1>5. (side = "thrown" => Thrown(r, s)) /\ (side = "done" => Done(r, s)) /\ request = r /\ ns = s
  <2>1. CASE Encoding(r, s)
    BY <2>1, EncodingIs
  <2>2. CASE Decoding(r, s)
    BY <2>2, DecodingIs
  <2>3. CASE Thrown(r, s) \/ Done(r, s)
    BY <2>3 DEF Thrown, Done
  <2> QED BY <1>2, <2>1, <2>2, <2>3 DEF At
<1>6. Sided
  BY <1>4, <1>5 DEF Sided
<1> QED BY <1>3, <1>6

(* Nothing is delivered or refused at first.                               *)
LEMMA InitConverts ==
  ASSUME Init PROVE Conversion!Init
<1>1. side \in {"encoder", "decoder"}
  BY DEF Init
<1> QED BY <1>1 DEF Conversion!Init

(* The end of decode delivers what the request says; a call that throws    *)
(* refuses it, because it says nothing or was made under another           *)
(* namespace; the other steps are not visible.                             *)
LEMMA StepConverts ==
  ASSUME Sided, Sided', ~IsReceived, [Next]_vars
  PROVE  [Conversion!Next]_(Conversion!vars)
<1> DEFINE said      == <<Said>>
           own       == Said # SaysNothing /\ ns = request.ns
           delivered == IF side = "done" THEN <<[text |-> output_data, values |-> values]>> ELSE <<>>
           refused   == side = "thrown"
           Unseen    == UNCHANGED <<said, own, delivered, refused>>
<1>1. request' = request /\ ns' = ns
  BY RequestKept
<1>2. ~IsReceived'
  BY <1>1 DEF IsReceived
<1>3. Said = SaidBy[request] /\ Said' = SaidBy[request]
  BY <1>1, <1>2 DEF Said
<1>4. UNCHANGED said /\ UNCHANGED own
  BY <1>1, <1>3
<1>5. /\ side \in {"encoder", "decoder", "thrown", "done"}
      /\ side' \in {"encoder", "decoder", "thrown", "done"}
  BY <1>2 DEF Sided
<1>6. SUFFICES ASSUME ~Unseen PROVE Conversion!Next
  BY DEF Conversion!vars
<1>7. side \in {"encoder", "decoder"} /\ side' \in {"thrown", "done"}
  <2>1. Next /\ ~UNCHANGED vars
    <3>1. UNCHANGED vars => UNCHANGED delivered /\ UNCHANGED refused
      BY DEF vars, texts
    <3> QED BY <1>4, <1>6, <3>1
  <2>2. side \notin {"thrown", "done"}
    <3>1. side \in {"thrown", "done"} => Thrown(request, ns) \/ Done(request, ns)
      BY DEF Sided
    <3>2. Thrown(request, ns) \/ Done(request, ns) => UNCHANGED vars
      BY <2>1, EndedStays
    <3> QED BY <2>1, <3>1, <3>2
  <2>3. side' \in {"encoder", "decoder"} => Unseen
    BY <1>4, <1>5, <2>2
  <2> QED BY <1>5, <1>6, <2>2, <2>3
<1>8. delivered = <<>> /\ refused = FALSE
  BY <1>7
<1>9. CASE side' = "thrown"
  <2>1. Thrown(request, ns)'
    BY <1>2, <1>9 DEF Sided
  <2>2. SaidBy[request] = SaysNothing \/ ns # request.ns
    BY <1>1, <2>1 DEF Thrown
  <2>3. ~own
    BY <1>3, <2>2
  <2>4. delivered' = <<>> /\ refused' = TRUE
    BY <1>9
  <2>5. Conversion!Refuse
    <3>1. ~own /\ delivered = <<>> /\ refused' = TRUE /\ UNCHANGED <<said, own, delivered>>
      BY <1>4, <1>8, <2>3, <2>4
    <3> QED BY <3>1, Zenon DEF Conversion!Refuse
  <2> QED BY <2>5 DEF Conversion!Next
<1>10. CASE side' = "done"
  <2>1. Done(request, ns)'
    BY <1>2, <1>10 DEF Sided
  <2>2. SaidBy[request] = [text |-> output_data', values |-> values']
    BY <1>1, <2>1 DEF Done
  <2>3. delivered' = <<SaidBy[request]>> /\ refused' = FALSE
    BY <1>10, <2>2
  <2>4. said = <<SaidBy[request]>> /\ Len(said) = 1 /\ said[1] = SaidBy[request]
    BY <1>3
  <2>5. Conversion!Deliver
    <3> HIDE DEF said, own, delivered, refused
    <3>1. Len(delivered) = 0 /\ Append(delivered, SaidBy[request]) = <<SaidBy[request]>>
      BY <1>8
    <3>2. /\ ~refused /\ Len(delivered) < Len(said)
          /\ delivered' = Append(delivered, said[Len(delivered) + 1])
          /\ UNCHANGED <<said, own, refused>>
      <4>1. Len(delivered) + 1 = 1 /\ said[Len(delivered) + 1] = SaidBy[request]
        BY <2>4, <3>1
      <4>2. delivered' = Append(delivered, said[Len(delivered) + 1])
        BY <2>3, <3>1, <4>1, Zenon
      <4>3. ~refused /\ Len(delivered) < Len(said)
        BY <1>8, <2>4, <3>1
      <4> QED BY <1>4, <2>3, <1>8, <4>2, <4>3, Zenon
    <3> USE DEF said, own, delivered, refused
    <3> QED BY <3>2, Zenon DEF Conversion!Deliver
  <2> QED BY <2>5 DEF Conversion!Next
<1> QED BY <1>7, <1>9, <1>10

(* A request is on its way in every state.                                 *)
THEOREM StaysOnItsWay == Spec => []OnItsWay
<1>1. Init => OnItsWay
  BY InitIsAt
<1>2. OnItsWay /\ [Next]_vars => OnItsWay'
  BY OnItsWaySteps
<1> QED BY <1>1, <1>2, PTL DEF Spec

(* While a request is encoded, and what encode returned is decoded, the    *)
(* bit stream, the text and the statements are what TypeOK says.           *)
THEOREM TypeCorrect == Spec => [](~IsReceived => TypeOK)
<1>1. OnItsWay => (~IsReceived => TypeOK)
  BY OnItsWayIs
<1> QED BY <1>1, StaysOnItsWay, PTL

(* decode of what encode returned ends at the two codes that end a V2G     *)
(* message, which are zero, as is the padding behind them.                 *)
THEOREM StopsThere == Spec => [](~IsReceived => StopsAtTheEnd)
<1>1. OnItsWay => (~IsReceived => StopsAtTheEnd)
  BY OnItsWayIs
<1> QED BY <1>1, StaysOnItsWay, PTL

(* What encode has written under one namespace is decoded under no other.  *)
THEOREM OthersRefuse == Spec => []RefusesOtherNamespaces
<1>1. OnItsWay => RefusesOtherNamespaces
  BY OnItsWayIs DEF RefusesOtherNamespaces
<1> QED BY <1>1, StaysOnItsWay, PTL

(* The codec implements Transfer for every request, but for its fairness:  *)
(* decode(encode(json, ns), ns) is the JSON text that json says, and a     *)
(* call throws only if json is no message of the namespace or the two      *)
(* namespaces differ.                                                      *)
THEOREM Converts ==
  Spec => Conversion!Init /\ [][~IsReceived => [Conversion!Next]_(Conversion!vars)]_vars
<1>1. Init => Conversion!Init
  BY InitConverts
<1>2. OnItsWay => Sided
  BY OnItsWayIs
<1>3. Sided /\ Sided' /\ [Next]_vars => (~IsReceived => [Conversion!Next]_(Conversion!vars))
  BY StepConverts
<1> QED BY <1>1, <1>2, <1>3, StaysOnItsWay, PTL DEF Spec
====================================
