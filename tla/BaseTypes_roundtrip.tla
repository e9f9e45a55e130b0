------------------------- MODULE BaseTypes_roundtrip -------------------------
(***************************************************************************)
(* What is extracted is what was injected, and all of it is read, for      *)
(* documents of any length whose values are in the range of their types    *)
(* and within what the encodings can carry (Sendable).                     *)
(*                                                                         *)
(* Along the way of a value: the bits that its fields have in the stream,  *)
(* the numbers that get_max_4bytes and the loop over octets make of them,  *)
(* the value that each extract function makes of the numbers (one lemma    *)
(* for each function, Read...), and the place of each field of each value  *)
(* of the document in the stream, which the invariant keeps.               *)
(***************************************************************************)
EXTENDS BaseTypes_proofs

(* Where each field of a value ends: it lies behind the bits of those      *)
(* before it.                                                              *)
Ends(fields) ==
  LET end[j \in 0 .. Len(fields)] == IF j = 0 THEN 0 ELSE end[j - 1] + fields[j].n
  IN  end

(* The ends of fields, without the recursion.                              *)
LEMMA EndsOf ==
  ASSUME NEW fields, Len(fields) \in Nat, \A j \in 1 .. Len(fields) : fields[j].n \in Nat
  PROVE  /\ Ends(fields) \in [0 .. Len(fields) -> Nat]
         /\ Ends(fields)[0] = 0
         /\ \A j \in 1 .. Len(fields) : Ends(fields)[j] = Ends(fields)[j - 1] + fields[j].n
<1> DEFINE n == Len(fields)
           Body(f) == [j \in 0 .. n |-> IF j = 0 THEN 0 ELSE f[j - 1] + fields[j].n]
           step == [x \in (1 .. n) \X Nat |-> x[2] + fields[x[1]].n]
           end == CHOOSE f : f = Body(f)
<1>1. step \in [(1 .. n) \X Nat -> Nat]
  <2>1. \A x \in (1 .. n) \X Nat : x[2] + fields[x[1]].n \in Nat
    <3> SUFFICES ASSUME NEW a \in 1 .. n, NEW b \in Nat PROVE b + fields[a].n \in Nat
      OBVIOUS
    <3>1. fields[a].n \in Nat
      OBVIOUS
    <3> QED BY <3>1
  <2> QED BY <2>1
<1>2. PICK f \in [0 .. n -> Nat] : \A k \in 0 .. n : f[k] = IF k = 0 THEN 0 ELSE step[<<k, f[k - 1]>>]
  <2> HIDE DEF step
  <2>1. \E f \in [0 .. n -> Nat] : IsRecursive(f, n, 0, step)
    BY <1>1, Recursion
  <2> QED BY <2>1 DEF IsRecursive
<1>3. ASSUME NEW k \in 1 .. n PROVE step[<<k, f[k - 1]>>] = f[k - 1] + fields[k].n
  <2>1. f[k - 1] \in Nat
    OBVIOUS
  <2>2. \A a \in 1 .. n, b \in Nat : step[<<a, b>>] = b + fields[a].n
    OBVIOUS
  <2> HIDE DEF step
  <2> QED BY <2>1, <2>2
<1>4. f = Body(f)
  <2>1. \A k \in 0 .. n : f[k] = IF k = 0 THEN 0 ELSE f[k - 1] + fields[k].n
    <3>1. \A k \in 0 .. n : k = 0 \/ k \in 1 .. n
      OBVIOUS
    <3> HIDE DEF step
    <3> QED BY <1>2, <1>3, <3>1
  <2>2. f = [k \in 0 .. n |-> f[k]]
    OBVIOUS
  <2>3. [k \in 0 .. n |-> f[k]] = Body(f)
    BY <2>1
  <2> HIDE DEF Body
  <2> QED BY <2>2, <2>3
<1>5. end = Body(end)
  <2> HIDE DEF Body
  <2> QED BY <1>4
<1>6. Ends(fields) = end
  BY DEF Ends
<1> HIDE DEF end
<1>7. end[0] = 0 /\ \A k \in 1 .. n : end[k] = end[k - 1] + fields[k].n
  <2>1. ASSUME NEW k \in 0 .. n PROVE end[k] = Body(end)[k]
    <3> HIDE DEF Body
    <3> QED BY <1>5
  <2>2. 0 \in 0 .. n /\ \A k \in 1 .. n : k \in 0 .. n /\ k # 0
    OBVIOUS
  <2> QED BY <2>1, <2>2
<1>8. \A k \in 0 .. n : end[k] \in Nat
  <2> DEFINE T == {m \in Nat : m <= n => end[m] \in Nat}
  <2>1. 0 \in T
    BY <1>7
  <2>2. ASSUME NEW m \in Nat, m \in T PROVE m + 1 \in T
    <3>1. SUFFICES ASSUME m + 1 <= n PROVE end[m + 1] \in Nat
      OBVIOUS
    <3>2. m + 1 \in 1 .. n /\ (m + 1) - 1 = m /\ end[m] \in Nat
      BY <2>2, <3>1
    <3>3. fields[m + 1].n \in Nat
      BY <3>2
    <3>4. end[m + 1] = end[m] + fields[m + 1].n
      BY <1>7, <3>2
    <3> QED BY <3>2, <3>3, <3>4
  <2> HIDE DEF T
  <2>3. \A k \in Nat : k \in T
    BY <2>1, <2>2, Induction
  <2> QED BY <2>3 DEF T
<1>9. end \in [0 .. n -> Nat]
  <2>1. end = [k \in 0 .. n |-> end[k]]
    <3>1. end = [k \in 0 .. n |-> Body(end)[k]]
      BY <1>5
    <3> QED BY <1>5, <3>1
  <2> QED BY <1>8, <2>1
<1> QED BY <1>6, <1>7, <1>9

(* The field of call c is in the stream, behind the first p bits.          *)
FieldAt(c, p) ==
  /\ p + c.n <= Len(stream)
  /\ \A b \in 1 .. c.n : stream[p + b] = BitOf(c.value, c.n - b)

(* A number of at most eight bits, a bit at a time.                        *)
LEMMA NextBit ==
  ASSUME NEW v \in Nat, NEW w \in 0 .. 7
  PROVE  v \div 2 ^ w = 2 * (v \div 2 ^ (w + 1)) + BitOf(v, w)
<1>1. CASE w = 0
  <2>1. 2 ^ w = 1 /\ 2 ^ (w + 1) = 2
    BY <1>1, SMT
  <2> QED BY <2>1 DEF BitOf
<1>2. CASE w = 1
  <2>1. 2 ^ w = 2 /\ 2 ^ (w + 1) = 4
    BY <1>2, SMT
  <2> QED BY <2>1 DEF BitOf
<1>3. CASE w = 2
  <2>1. 2 ^ w = 4 /\ 2 ^ (w + 1) = 8
    BY <1>3, SMT
  <2> QED BY <2>1 DEF BitOf
<1>4. CASE w = 3
  <2>1. 2 ^ w = 8 /\ 2 ^ (w + 1) = 16
    BY <1>4, SMT
  <2> QED BY <2>1 DEF BitOf
<1>5. CASE w = 4
  <2>1. 2 ^ w = 16 /\ 2 ^ (w + 1) = 32
    BY <1>5, SMT
  <2> QED BY <2>1 DEF BitOf
<1>6. CASE w = 5
  <2>1. 2 ^ w = 32 /\ 2 ^ (w + 1) = 64
    BY <1>6, SMT
  <2> QED BY <2>1 DEF BitOf
<1>7. CASE w = 6
  <2>1. 2 ^ w = 64 /\ 2 ^ (w + 1) = 128
    BY <1>7, SMT
  <2> QED BY <2>1 DEF BitOf
<1>8. CASE w = 7
  <2>1. 2 ^ w = 128 /\ 2 ^ (w + 1) = 256
    BY <1>8, SMT
  <2> QED BY <2>1 DEF BitOf
<1> QED BY <1>1, <1>2, <1>3, <1>4, <1>5, <1>6, <1>7, <1>8

(* Less than a power of two, and a number's bits above all of its own.     *)
LEMMA NothingAbove ==
  ASSUME NEW v \in Nat, NEW n \in 0 .. 8, v < 2 ^ n
  PROVE  v \div 2 ^ n = 0
<1>1. 2 ^ n \in Nat \ {0}
  BY PowerOfTwo
<1>2. \A p \in Nat \ {0} : v < p => v \div p = 0
  OBVIOUS
<1> QED BY <1>1, <1>2, Zenon

(* get_max_4bytes of the bits of a number.                                 *)
LEMMA ReadNumber ==
  ASSUME NEW n \in 0 .. 8, NEW v \in Nat, v < 2 ^ n, NEW skip,
         \A b \in 1 .. n : stream[position + skip + b] = BitOf(v, n - b)
  PROVE  get_max_4bytes(n, skip) = v
<1>1. ASSUME NEW b \in 1 .. n PROVE stream[position + skip + b] \in {0, 1}
  <2>1. n - b \in Nat
    OBVIOUS
  <2>2. BitOf(v, n - b) \in {0, 1}
    BY <2>1, BitOfNumber
  <2> QED BY <2>2
<1>2. PICK f \in [0 .. n -> Nat] :
        /\ f[0] = 0
        /\ \A k \in 1 .. n : f[k] = 2 * f[k - 1] + stream[position + skip + k]
        /\ get_max_4bytes(n, skip) = f[n]
  <2>1. n \in Nat
    OBVIOUS
  <2> QED BY <1>1, <2>1, ReadBits, Zenon
<1> DEFINE T == {m \in Nat : m <= n => f[m] = v \div 2 ^ (n - m)}
<1>3. 0 \in T
  <2>1. n - 0 = n /\ v \div 2 ^ n = 0
    BY NothingAbove
  <2> QED BY <1>2, <2>1
<1>4. ASSUME NEW m \in Nat, m \in T PROVE m + 1 \in T
  <2>1. SUFFICES ASSUME m + 1 <= n PROVE f[m + 1] = v \div 2 ^ (n - (m + 1))
    OBVIOUS
  <2>2. /\ m + 1 \in 1 .. n /\ (m + 1) - 1 = m
        /\ n - (m + 1) \in 0 .. 7 /\ (n - (m + 1)) + 1 = n - m
    BY <2>1
  <2>3. f[m] = v \div 2 ^ (n - m)
    BY <1>4, <2>1
  <2>4. f[m + 1] = 2 * f[m] + BitOf(v, n - (m + 1))
    BY <1>2, <2>2
  <2>5. v \div 2 ^ (n - (m + 1)) = 2 * (v \div 2 ^ (n - m)) + BitOf(v, n - (m + 1))
    <3>1. v \div 2 ^ (n - (m + 1)) = 2 * (v \div 2 ^ ((n - (m + 1)) + 1)) + BitOf(v, n - (m + 1))
      BY <2>2, NextBit
    <3> QED BY <2>2, <3>1
  <2> QED BY <2>3, <2>4, <2>5, Zenon
<1>5. \A m \in Nat : m \in T
  <2> HIDE DEF T
  <2> QED BY <1>3, <1>4, Induction
<1>6. f[n] = v \div 2 ^ (n - n)
  <2>1. n \in Nat /\ n <= n
    OBVIOUS
  <2> QED BY <1>5, <2>1
<1>7. 2 ^ (n - n) = 1
  <2>1. n - n = 0
    OBVIOUS
  <2> QED BY <2>1, SMT
<1>8. v \div 1 = v
  OBVIOUS
<1> QED BY <1>2, <1>6, <1>7, <1>8, Zenon

(* A field read where it is.                                               *)
LEMMA ReadField ==
  ASSUME NEW c \in Field, NEW skip, FieldAt(c, position + skip)
  PROVE  get_max_4bytes(c.n, skip) = c.value
<1>1. c.n \in 0 .. 8 /\ c.value \in Nat /\ c.value < 2 ^ c.n
  <2>1. c.n \in 1 .. 8 /\ c.value \in 0 .. 255 /\ c.value < 2 ^ c.n
    BY DEF Field
  <2>2. /\ \A n \in 1 .. 8 : n \in 0 .. 8
        /\ \A v \in 0 .. 255 : v \in Nat
    OBVIOUS
  <2> QED BY <2>1, <2>2, Zenon
<1>2. \A b \in 1 .. c.n : stream[position + skip + b] = BitOf(c.value, c.n - b)
  BY DEF FieldAt
<1> QED BY <1>1, <1>2, ReadNumber

(***************************************************************************)
(* Numbers of several octets.                                              *)
(***************************************************************************)
(* The octets of a number end with the first one below 128.                *)
LEMMA OctetsEnd ==
  ASSUME NEW skip, NEW k \in 1 .. 5, \A i \in 1 .. k : octet(i, skip) \in Nat,
         \A i \in 1 .. k - 1 : octet(i, skip) >= 128, octet(k, skip) < 128
  PROVE  octets(skip) = k
<1> DEFINE End(j) == octet(j, skip) < 128 /\ \A i \in 1 .. j - 1 : octet(i, skip) >= 128
<1>1. End(k)
  OBVIOUS
<1>2. ASSUME NEW j \in 1 .. 5, End(j) PROVE j = k
  <2>1. k < j => octet(k, skip) >= 128
    BY <1>2
  <2>2. j < k => octet(j, skip) >= 128 /\ octet(j, skip) \in Nat
    OBVIOUS
  <2>3. octet(k, skip) \in Nat
    OBVIOUS
  <2> QED BY <1>2, <2>1, <2>2, <2>3
<1>3. octets(skip) = CHOOSE j \in 1 .. 5 : End(j)
  BY DEF octets
<1> HIDE DEF End
<1> QED BY <1>1, <1>2, <1>3

(* Seven bits more of a number.                                            *)
LEMMA SevenBits ==
  ASSUME NEW v \in Nat
  PROVE  /\ v \div 1 = 128 * (v \div 128) + ((v \div 1) % 128)
         /\ v \div 128 = 128 * (v \div 16384) + ((v \div 128) % 128)
         /\ v \div 16384 = 128 * (v \div 2097152) + ((v \div 16384) % 128)
         /\ v \div 2097152 = 128 * (v \div 268435456) + ((v \div 2097152) % 128)
         /\ v \div 268435456 = 128 * (v \div 34359738368) + ((v \div 268435456) % 128)
<1>1. v \div 1 = 128 * (v \div 128) + ((v \div 1) % 128)
  <2> DEFINE q == v \div 1
             p == v \div 128
  <2>1. q \in Nat /\ 1 * q <= v /\ v < 1 * q + 1
    BY SMT
  <2>2. p \in Nat /\ 128 * p <= v /\ v < 128 * p + 128
    BY SMT
  <2> HIDE DEF q, p
  <2>3. 128 * p <= q /\ q < 128 * p + 128
    BY <2>1, <2>2, SMT
  <2>4. q = 128 * p + (q % 128)
    BY <2>1, <2>2, <2>3, SMT
  <2> QED BY <2>4, SMT DEF q, p
<1>2. v \div 128 = 128 * (v \div 16384) + ((v \div 128) % 128)
  <2> DEFINE q == v \div 128
             p == v \div 16384
  <2>1. q \in Nat /\ 128 * q <= v /\ v < 128 * q + 128
    BY SMT
  <2>2. p \in Nat /\ 16384 * p <= v /\ v < 16384 * p + 16384
    BY SMT
  <2> HIDE DEF q, p
  <2>3. 128 * p <= q /\ q < 128 * p + 128
    BY <2>1, <2>2, SMT
  <2>4. q = 128 * p + (q % 128)
    BY <2>1, <2>2, <2>3, SMT
  <2> QED BY <2>4, SMT DEF q, p
<1>3. v \div 16384 = 128 * (v \div 2097152) + ((v \div 16384) % 128)
  <2> DEFINE q == v \div 16384
             p == v \div 2097152
  <2>1. q \in Nat /\ 16384 * q <= v /\ v < 16384 * q + 16384
    BY SMT
  <2>2. p \in Nat /\ 2097152 * p <= v /\ v < 2097152 * p + 2097152
    BY SMT
  <2> HIDE DEF q, p
  <2>3. 128 * p <= q /\ q < 128 * p + 128
    BY <2>1, <2>2, SMT
  <2>4. q = 128 * p + (q % 128)
    BY <2>1, <2>2, <2>3, SMT
  <2> QED BY <2>4, SMT DEF q, p
<1>4. v \div 2097152 = 128 * (v \div 268435456) + ((v \div 2097152) % 128)
  <2> DEFINE q == v \div 2097152
             p == v \div 268435456
  <2>1. q \in Nat /\ 2097152 * q <= v /\ v < 2097152 * q + 2097152
    BY SMT
  <2>2. p \in Nat /\ 268435456 * p <= v /\ v < 268435456 * p + 268435456
    BY SMT
  <2> HIDE DEF q, p
  <2>3. 128 * p <= q /\ q < 128 * p + 128
    BY <2>1, <2>2, SMT
  <2>4. q = 128 * p + (q % 128)
    BY <2>1, <2>2, <2>3, SMT
  <2> QED BY <2>4, SMT DEF q, p
<1>5. v \div 268435456 = 128 * (v \div 34359738368) + ((v \div 268435456) % 128)
  <2> DEFINE q == v \div 268435456
             p == v \div 34359738368
  <2>1. q \in Nat /\ 268435456 * q <= v /\ v < 268435456 * q + 268435456
    BY SMT
  <2>2. p \in Nat /\ 34359738368 * p <= v /\ v < 34359738368 * p + 34359738368
    BY SMT
  <2> HIDE DEF q, p
  <2>3. 128 * p <= q /\ q < 128 * p + 128
    BY <2>1, <2>2, SMT
  <2>4. q = 128 * p + (q % 128)
    BY <2>1, <2>2, <2>3, SMT
  <2> QED BY <2>4, SMT DEF q, p
<1> QED BY <1>1, <1>2, <1>3, <1>4, <1>5, SMT

(* One round of the loops of _injectUnsignedNumber and of                  *)
(* extractIntegerNumber: what is added, and what is left, are the number   *)
(* again.                                                                  *)
LEMMA NextSeven ==
  ASSUME NEW number \in Nat, NEW m \in 0 .. 4, NEW sum \in Nat,
         sum + (number \div 2 ^ (7 * m)) * 2 ^ (7 * m) = number
  PROVE  (sum + ((number \div 2 ^ (7 * m)) % 128) * 2 ^ (7 * m))
           + (number \div 2 ^ (7 * (m + 1))) * 2 ^ (7 * (m + 1)) = number
<1> DEFINE q == number \div 2 ^ (7 * m)
           p == number \div 2 ^ (7 * (m + 1))
           s == q % 128
<1>1. 2 ^ (7 * m) \in Nat \ {0} /\ 2 ^ (7 * (m + 1)) \in Nat \ {0}
  <2>1. 7 * m \in Nat /\ 7 * (m + 1) \in Nat
    OBVIOUS
  <2> QED BY <2>1, PowerOfTwo
<1>2. q \in Nat /\ p \in Nat /\ s \in Nat
  <2>1. \A d \in Nat \ {0} : number \div d \in Nat
    OBVIOUS
  <2>2. q \in Nat /\ p \in Nat
    BY <1>1, <2>1, Zenon
  <2>3. \A a \in Nat : a % 128 \in Nat
    OBVIOUS
  <2> QED BY <2>2, <2>3, Zenon
<1>3. sum + q * 2 ^ (7 * m) = number
  OBVIOUS
<1>4. ASSUME m = 0 PROVE q = 128 * p + s /\ 2 ^ (7 * m) = 1 /\ 2 ^ (7 * (m + 1)) = 128
  <2>1. 2 ^ (7 * m) = 1 /\ 2 ^ (7 * (m + 1)) = 128
    BY <1>4, SMT
  <2>2. number \div 1 = 128 * (number \div 128) + ((number \div 1) % 128)
    BY SevenBits, SMT
  <2> QED BY <2>1, <2>2, SMT
<1>5. ASSUME m = 1 PROVE q = 128 * p + s /\ 2 ^ (7 * m) = 128 /\ 2 ^ (7 * (m + 1)) = 16384
  <2>1. 2 ^ (7 * m) = 128 /\ 2 ^ (7 * (m + 1)) = 16384
    BY <1>5, SMT
  <2>2. number \div 128 = 128 * (number \div 16384) + ((number \div 128) % 128)
    BY SevenBits, SMT
  <2> QED BY <2>1, <2>2, SMT
<1>6. ASSUME m = 2 PROVE q = 128 * p + s /\ 2 ^ (7 * m) = 16384 /\ 2 ^ (7 * (m + 1)) = 2097152
  <2>1. 2 ^ (7 * m) = 16384 /\ 2 ^ (7 * (m + 1)) = 2097152
    BY <1>6, SMT
  <2>2. number \div 16384 = 128 * (number \div 2097152) + ((number \div 16384) % 128)
    BY SevenBits, SMT
  <2> QED BY <2>1, <2>2, SMT
<1>7. ASSUME m = 3 PROVE q = 128 * p + s /\ 2 ^ (7 * m) = 2097152 /\ 2 ^ (7 * (m + 1)) = 268435456
  <2>1. 2 ^ (7 * m) = 2097152 /\ 2 ^ (7 * (m + 1)) = 268435456
    BY <1>7, SMT
  <2>2. number \div 2097152 = 128 * (number \div 268435456) + ((number \div 2097152) % 128)
    BY SevenBits, SMT
  <2> QED BY <2>1, <2>2, SMT
<1>8. ASSUME m = 4 PROVE q = 128 * p + s /\ 2 ^ (7 * m) = 268435456 /\ 2 ^ (7 * (m + 1)) = 34359738368
  <2>1. 2 ^ (7 * m) = 268435456 /\ 2 ^ (7 * (m + 1)) = 34359738368
    BY <1>8, SMT
  <2>2. number \div 268435456 = 128 * (number \div 34359738368) + ((number \div 268435456) % 128)
    BY SevenBits, SMT
  <2> QED BY <2>1, <2>2, SMT
<1> HIDE DEF q, p, s
<1>9. CASE m = 0
  BY <1>2, <1>3, <1>4, <1>9, SMT
<1>10. CASE m = 1
  BY <1>2, <1>3, <1>5, <1>10, SMT
<1>11. CASE m = 2
  BY <1>2, <1>3, <1>6, <1>11, SMT
<1>12. CASE m = 3
  BY <1>2, <1>3, <1>7, <1>12, SMT
<1>13. CASE m = 4
  BY <1>2, <1>3, <1>8, <1>13, SMT
<1>14. m \in {0, 1, 2, 3, 4}
  OBVIOUS
<1> QED BY <1>9, <1>10, <1>11, <1>12, <1>13, <1>14, Zenon

(* As many groups of seven bits as a number needs.                         *)
LEMMA GroupsHold ==
  ASSUME NEW number \in Nat, number < 2 ^ 31
  PROVE  groups(number) \in 1 .. 5 /\ number < 2 ^ (7 * groups(number))
<1> DEFINE above == {b \in 1 .. 30 : number \div 2 ^ b # 0}
           h == highest_set_bit(number)
<1>1. IsFiniteSet(1 .. 30) /\ Cardinality(1 .. 30) = 30
  <2> DEFINE thirty == 30
  <2>1. thirty \in Nat
    OBVIOUS
  <2> HIDE DEF thirty
  <2>2. IsFiniteSet(1 .. thirty) /\ Cardinality(1 .. thirty) = thirty
    BY <2>1, FS_Interval
  <2> QED BY <2>2 DEF thirty
<1>2. IsFiniteSet(above) /\ h = Cardinality(above) /\ h \in Nat /\ h <= 30
  <2>1. above \subseteq 1 .. 30
    OBVIOUS
  <2> HIDE DEF above
  <2>2. IsFiniteSet(above) /\ Cardinality(above) <= 30 /\ Cardinality(above) \in Nat
    BY <1>1, <2>1, FS_Subset, FS_CardinalityType
  <2> QED BY <2>2 DEF highest_set_bit, above
<1>3. number < 2 ^ (h + 1)
  <2>1. CASE h = 30
    <3>1. h + 1 = 31
      BY <2>1
    <3> QED BY <3>1
  <2>2. CASE h < 30
    <3> SUFFICES ASSUME ~ (number < 2 ^ (h + 1)) PROVE FALSE
      OBVIOUS
    <3>1. 2 ^ (h + 1) \in Nat \ {0} /\ h + 1 \in Nat
      BY <1>2, PowerOfTwo
    <3>2. 2 ^ (h + 1) <= number
      BY <3>1
    <3>3. ASSUME NEW b \in 1 .. h + 1 PROVE b \in above
      <4>1. b \in Nat /\ b <= h + 1 /\ b \in 1 .. 30
        BY <1>2, <2>2
      <4>2. 2 ^ b <= 2 ^ (h + 1) /\ 2 ^ b \in Nat \ {0}
        BY <3>1, <4>1, PowersGrow, PowerOfTwo
      <4>3. 2 ^ b <= number
        BY <3>1, <3>2, <4>2
      <4>4. \A p \in Nat \ {0} : p <= number => number \div p # 0
        OBVIOUS
      <4>5. number \div 2 ^ b # 0
        BY <4>2, <4>3, <4>4, Zenon
      <4> QED BY <4>1, <4>5
    <3>4. IsFiniteSet(1 .. h + 1) /\ Cardinality(1 .. h + 1) = h + 1
      BY <3>1, FS_Interval
    <3>5. 1 .. h + 1 \subseteq above
      <4> HIDE DEF above, h
      <4> QED BY <3>3
    <3>6. Cardinality(1 .. h + 1) <= Cardinality(above)
      <4> HIDE DEF above, h
      <4> QED BY <1>2, <3>5, FS_Subset
    <3> HIDE DEF above, h
    <3> QED BY <1>2, <3>4, <3>6
  <2> QED BY <1>2, <2>1, <2>2
<1> HIDE DEF h, above
<1>4. groups(number) = h \div 7 + 1
  BY DEF groups, h
<1>5. groups(number) \in 1 .. 5 /\ h + 1 <= 7 * groups(number)
  BY <1>2, <1>4
<1>6. 2 ^ (h + 1) <= 2 ^ (7 * groups(number))
  <2>1. h + 1 \in Nat /\ 7 * groups(number) \in Nat
    BY <1>2, <1>5
  <2> QED BY <1>5, <2>1, PowersGrow
<1>7. 2 ^ (h + 1) \in Nat /\ 2 ^ (7 * groups(number)) \in Nat
  <2>1. h + 1 \in Nat /\ 7 * groups(number) \in Nat
    BY <1>2, <1>5
  <2> QED BY <2>1, PowerOfTwo
<1>8. \A a, b \in Nat : number < a /\ a <= b => number < b
  OBVIOUS
<1> QED BY <1>3, <1>5, <1>6, <1>7, <1>8, Zenon

(* The octets that _injectUnsignedNumber writes.                           *)
LEMMA UnsignedCodes ==
  ASSUME NEW number \in Nat, number < 2 ^ 31, NEW i \in 1 .. groups(number)
  PROVE  LET seven == (number \div 2 ^ (7 * (i - 1))) % 128
             c     == unsigned_codes(number)[i]
         IN  /\ c.n = 8
             /\ c.value = (IF i < groups(number) THEN 128 ELSE 0) + seven
             /\ seven \in 0 .. 127 /\ c.value % 128 = seven
<1> DEFINE seven == (number \div 2 ^ (7 * (i - 1))) % 128
           code  == (IF i < groups(number) THEN 128 ELSE 0) + seven
<1>1. seven \in 0 .. 127
  <2>1. groups(number) \in Nat
    BY GroupsHold
  <2>2. 2 ^ (7 * (i - 1)) \in Nat \ {0}
    <3>1. 7 * (i - 1) \in Nat
      BY <2>1
    <3> QED BY <3>1, PowerOfTwo
  <2>3. \A p \in Nat \ {0} : (number \div p) % 128 \in 0 .. 127
    OBVIOUS
  <2> QED BY <2>2, <2>3, Zenon
<1> HIDE DEF seven
<1>2. code \in 0 .. 255 /\ code % 128 = seven
  BY <1>1
<1>3. code % 256 = code
  BY <1>2
<1>4. unsigned_codes(number)[i] = Code(code, 8)
  BY DEF unsigned_codes, seven
<1> HIDE DEF code
<1>5. unsigned_codes(number)[i].n = 8 /\ unsigned_codes(number)[i].value = code
  BY <1>3, <1>4 DEF Code
<1> QED BY <1>1, <1>2, <1>5 DEF code, seven

(* They are read as the number.                                            *)
LEMMA ReadUnsigned ==
  ASSUME NEW number \in Nat, number < 2 ^ 31, NEW skip,
         \A i \in 1 .. groups(number) : octet(i, skip) = unsigned_codes(number)[i].value
  PROVE  octets(skip) = groups(number) /\ magnitude(skip) = number
<1> DEFINE k == groups(number)
           seven(i) == (number \div 2 ^ (7 * (i - 1))) % 128
<1>1. k \in 1 .. 5 /\ number < 2 ^ (7 * k) /\ number \in Nat
  BY GroupsHold
<1>2. ASSUME NEW i \in 1 .. k
      PROVE  /\ octet(i, skip) = (IF i < k THEN 128 ELSE 0) + seven(i)
             /\ seven(i) \in 0 .. 127
             /\ octet(i, skip) % 128 = seven(i)
  BY UnsignedCodes
<1> HIDE DEF k, seven
<1>3. ASSUME NEW i \in 1 .. k
      PROVE  octet(i, skip) \in Nat /\ (i < k => octet(i, skip) >= 128) /\ (i = k => octet(i, skip) < 128)
  <2>1. i \in 1 .. 5
    BY <1>1
  <2> QED BY <1>1, <1>2, <2>1
<1>4. octets(skip) = k
  <2>1. /\ \A i \in 1 .. k : octet(i, skip) \in Nat
        /\ \A i \in 1 .. k - 1 : octet(i, skip) >= 128
        /\ octet(k, skip) < 128
    <3>1. k \in 1 .. k /\ \A i \in 1 .. k - 1 : i \in 1 .. k /\ i < k
      BY <1>1
    <3> QED BY <1>3, <3>1
  <2> QED BY <1>1, <2>1, OctetsEnd
<1>5. PICK f \in [0 .. k -> Nat] :
        /\ f[0] = 0
        /\ \A i \in 1 .. k : f[i] = f[i - 1] + (octet(i, skip) % 128) * 2 ^ (7 * (i - 1))
        /\ magnitude(skip) = f[k]
  <2>1. k \in Nat
    BY <1>1
  <2> QED BY <1>3, <1>4, <2>1, SumOctets, Zenon
<1> DEFINE Rest(m) == (number \div 2 ^ (7 * m)) * 2 ^ (7 * m)
           T == {m \in Nat : m <= k => f[m] + Rest(m) = number}
<1>6. 0 \in T
  <2>1. 2 ^ (7 * 0) = 1
    BY SMT
  <2>2. Rest(0) = number
    BY <1>1, <2>1
  <2> HIDE DEF Rest
  <2> QED BY <1>1, <1>5, <2>2
<1>7. ASSUME NEW m \in Nat, m \in T PROVE m + 1 \in T
  <2>1. SUFFICES ASSUME m + 1 <= k PROVE f[m + 1] + Rest(m + 1) = number
    <3> HIDE DEF Rest
    <3> QED OBVIOUS
  <2>2. m \in 0 .. 4 /\ m + 1 \in 1 .. k /\ (m + 1) - 1 = m /\ m \in 0 .. k /\ m <= k
    BY <1>1, <2>1
  <2>3. f[m] \in Nat /\ f[m] + Rest(m) = number
    <3> HIDE DEF Rest
    <3> QED BY <1>5, <1>7, <2>2
  <2>4. f[m + 1] = f[m] + (octet(m + 1, skip) % 128) * 2 ^ (7 * m)
    BY <1>5, <2>2
  <2>5. octet(m + 1, skip) % 128 = (number \div 2 ^ (7 * m)) % 128
    BY <1>2, <2>2 DEF seven
  <2>6. (f[m] + ((number \div 2 ^ (7 * m)) % 128) * 2 ^ (7 * m)) + Rest(m + 1) = number
    BY <1>1, <2>2, <2>3, NextSeven
  <2> QED BY <2>4, <2>5, <2>6, Zenon
<1>8. \A m \in Nat : m \in T
  <2> HIDE DEF T
  <2> QED BY <1>6, <1>7, Induction
<1>9. f[k] + Rest(k) = number
  <2>1. k \in Nat /\ k <= k
    BY <1>1
  <2> QED BY <1>8, <2>1, Zenon
<1>10. Rest(k) = 0
  <2>1. 2 ^ (7 * k) \in Nat \ {0}
    <3>1. 7 * k \in Nat
      BY <1>1
    <3> QED BY <3>1, PowerOfTwo
  <2>2. \A p \in Nat \ {0} : number < p => (number \div p) * p = 0
    BY <1>1
  <2> QED BY <1>1, <2>1, <2>2, Zenon
<1>11. f[k] = number
  <2>1. f[k] \in Nat
    BY <1>1, <1>5
  <2> HIDE DEF Rest
  <2> QED BY <1>9, <1>10, <2>1
<1> QED BY <1>4, <1>5, <1>11 DEF k

(***************************************************************************)
(* The values that can be sent: the limits of the encodings, where the     *)
(* program has no check.                                                   *)
(*                                                                         *)
(* A number has at most 31 bits, and is not negative: the sign of a        *)
(* negative number is written as two bits and read as one. The length of a *)
(* string, the number of its characters plus two, is written in one octet  *)
(* and read as a number, hence below 128, as the number of bytes of a      *)
(* hexBinary, of which there has to be one, and no three behind words of   *)
(* four: get_next_n_bits stores these in the wrong place. The number of    *)
(* bytes of a base64 text is written as a number and kept in a uint8_t;    *)
(* the bits of its last character that belong to no byte are zero.         *)
(***************************************************************************)
Sendable(v) ==
  /\ v.kind \in {"unsigned", "integer"} => v.value >= 0 /\ v.value < 2 ^ 31
  /\ v.kind = "xs:string" => v.value \in Seq(1 .. 255) /\ Len(v.value) <= 125
  /\ v.kind = "xs:hexBinary" => /\ v.value \in Seq(0 .. 15)
                                /\ \E bytes \in 1 .. 127 : /\ Len(v.value) = 2 * bytes
                                                           /\ bytes <= 3 \/ bytes % 4 # 3
  /\ v.kind = "xs:base64Binary" =>
       /\ Len(v.value) \in 1 .. 340
       /\ Padding(v.value) = 1 => v.value[Len(v.value) - 1] % 4 = 0
       /\ Padding(v.value) = 2 => v.value[Len(v.value) - 2] % 16 = 0

(* The fields of codes, from the position on.                              *)
Follow(codes) ==
  \A j \in 1 .. Len(codes) : FieldAt(codes[j], position + Ends(codes)[j - 1])

(* The number of bits of all calls.                                        *)
Bits(codes) == Ends(codes)[Len(codes)]

(* What the elements of a sequence of fields are.                          *)
LEMMA FieldsHave ==
  ASSUME NEW codes \in Seq(Field)
  PROVE  /\ Len(codes) \in Nat
         /\ \A j \in 1 .. Len(codes) : codes[j] \in Field
         /\ \A j \in 1 .. Len(codes) : codes[j].n \in Nat /\ codes[j].value \in Nat
<1>1. Len(codes) \in Nat /\ \A j \in 1 .. Len(codes) : codes[j] \in Field
  BY LenProperties, ElementOfSeq
<1>2. ASSUME NEW c \in Field PROVE c.n \in Nat /\ c.value \in Nat
  <2>1. c.n \in 1 .. 8 /\ c.value \in 0 .. 255
    BY DEF Field
  <2>2. /\ \A n \in 1 .. 8 : n \in Nat
        /\ \A v \in 0 .. 255 : v \in Nat
    OBVIOUS
  <2> QED BY <2>1, <2>2, Zenon
<1> QED BY <1>1, <1>2, Zenon

(* Fields of one width, one behind the other.                              *)
LEMMA EqualWidths ==
  ASSUME NEW fields \in Seq(Field),
         NEW first \in 0 .. Len(fields), NEW last \in first .. Len(fields), NEW width \in Nat,
         \A j \in first + 1 .. last : fields[j].n = width
  PROVE  \A j \in 0 .. last - first : Ends(fields)[first + j] = Ends(fields)[first] + width * j
<1> DEFINE end == Ends(fields)
           T == {m \in Nat : m <= last - first => end[first + m] = end[first] + width * m}
<1>1. /\ end \in [0 .. Len(fields) -> Nat]
      /\ \A j \in 1 .. Len(fields) : end[j] = end[j - 1] + fields[j].n
  BY FieldsHave, EndsOf
<1> HIDE DEF end
<1>2. first \in Nat /\ last \in Nat /\ end[first] \in Nat /\ last <= Len(fields)
  <2>1. Len(fields) \in Nat
    BY LenProperties
  <2> QED BY <1>1, <2>1
<1>3. 0 \in T
  <2>1. first + 0 = first /\ width * 0 = 0 /\ end[first] + 0 = end[first]
    BY <1>2
  <2> QED BY <2>1
<1>4. ASSUME NEW m \in Nat, m \in T PROVE m + 1 \in T
  <2>1. SUFFICES ASSUME m + 1 <= last - first PROVE end[first + (m + 1)] = end[first] + width * (m + 1)
    OBVIOUS
  <2>2. /\ first + (m + 1) \in 1 .. Len(fields) /\ first + (m + 1) \in first + 1 .. last
        /\ (first + (m + 1)) - 1 = first + m
    BY <1>2, <2>1
  <2>3. end[first + (m + 1)] = end[first + m] + width
    BY <1>1, <2>2
  <2>4. end[first + m] = end[first] + width * m
    BY <1>2, <1>4, <2>1
  <2>5. width * (m + 1) = width * m + width /\ width * m \in Nat
    OBVIOUS
  <2> QED BY <1>2, <2>3, <2>4, <2>5
<1>5. \A m \in Nat : m \in T
  <2> HIDE DEF T
  <2> QED BY <1>3, <1>4, Induction
<1> QED
  BY <1>5 DEF end

(* The first is read at the position, the one behind it after its bits.    *)
LEMMA FirstField ==
  ASSUME NEW codes \in Seq(Field), Len(codes) >= 1, Follow(codes), position \in Nat
  PROVE  /\ get_max_4bytes(codes[1].n, 0) = codes[1].value
         /\ Ends(codes)[1] = codes[1].n
<1>1. /\ Len(codes) \in Nat /\ 1 \in 1 .. Len(codes) /\ codes[1] \in Field
      /\ \A j \in 1 .. Len(codes) : codes[j].n \in Nat
  BY FieldsHave
<1>2. Ends(codes)[0] = 0 /\ Ends(codes)[1] = Ends(codes)[1 - 1] + codes[1].n
  BY <1>1, EndsOf
<1>3. FieldAt(codes[1], position + 0)
  <2>1. 1 - 1 = 0
    OBVIOUS
  <2> QED BY <1>1, <1>2, <2>1, Zenon DEF Follow
<1>4. codes[1].n \in Nat
  BY <1>1
<1>5. Ends(codes)[1] = codes[1].n
  <2>1. 1 - 1 = 0 /\ 0 + codes[1].n = codes[1].n
    BY <1>4
  <2> QED BY <1>2, <2>1, Zenon
<1> QED BY <1>1, <1>3, <1>5, ReadField

(* Octets, and whatever fields of one width, one behind the other.         *)
LEMMA FieldsOfOneWidth ==
  ASSUME NEW codes \in Seq(Field), Follow(codes), position \in Nat,
         NEW first \in 0 .. Len(codes), NEW last \in first .. Len(codes), NEW width \in Nat,
         \A j \in first + 1 .. last : codes[j].n = width
  PROVE  /\ \A i \in 1 .. last - first :
              get_max_4bytes(width, Ends(codes)[first] + width * (i - 1)) = codes[first + i].value
         /\ Ends(codes)[last] = Ends(codes)[first] + width * (last - first)
         /\ Ends(codes)[first] \in Nat
<1> DEFINE end == Ends(codes)
<1>1. /\ Len(codes) \in Nat
      /\ \A j \in 1 .. Len(codes) : codes[j] \in Field
      /\ \A j \in 1 .. Len(codes) : codes[j].n \in Nat
  BY FieldsHave
<1>2. \A j \in 0 .. last - first : end[first + j] = end[first] + width * j
  BY EqualWidths
<1>3. end[first] \in Nat
  BY <1>1, EndsOf
<1> HIDE DEF end
<1>4. ASSUME NEW i \in 1 .. last - first
      PROVE  get_max_4bytes(width, end[first] + width * (i - 1)) = codes[first + i].value
  <2>1. /\ first + i \in 1 .. Len(codes) /\ first + i \in first + 1 .. last
        /\ (first + i) - 1 = first + (i - 1) /\ i - 1 \in 0 .. last - first
    BY <1>1
  <2>2. end[(first + i) - 1] = end[first] + width * (i - 1)
    BY <1>2, <2>1
  <2>3. FieldAt(codes[first + i], position + (end[first] + width * (i - 1)))
    BY <2>1, <2>2, Zenon DEF Follow, end
  <2>4. codes[first + i] \in Field /\ codes[first + i].n = width
    BY <1>1, <2>1
  <2>5. get_max_4bytes(codes[first + i].n, end[first] + width * (i - 1)) = codes[first + i].value
    BY <2>3, <2>4, ReadField
  <2> QED BY <2>4, <2>5
<1>5. end[last] = end[first] + width * (last - first)
  <2>1. last - first \in 0 .. last - first /\ first + (last - first) = last
    BY <1>1
  <2> QED BY <1>2, <2>1
<1> QED BY <1>3, <1>4, <1>5 DEF end

(* A length of one octet.                                                  *)
LEMMA LengthRead ==
  ASSUME NEW length \in 0 .. 127, octet(1, 0) = length
  PROVE  octets(0) = 1 /\ magnitude(0) = length /\ length_read = length /\ behind_length = 8
<1>1. octets(0) = 1
  <2>1. /\ \A i \in 1 .. 1 : octet(i, 0) \in Nat
        /\ \A i \in 1 .. 1 - 1 : octet(i, 0) >= 128
        /\ octet(1, 0) < 128 /\ 1 \in 1 .. 5
    OBVIOUS
  <2> QED BY <2>1, OctetsEnd
<1>2. PICK f \in [0 .. 1 -> Nat] :
        /\ f[0] = 0
        /\ \A i \in 1 .. 1 : f[i] = f[i - 1] + (octet(i, 0) % 128) * 2 ^ (7 * (i - 1))
        /\ magnitude(0) = f[1]
  <2> DEFINE one == 1
             skip == 0
  <2>1. one \in Nat /\ octets(skip) = one /\ \A i \in 1 .. one : octet(i, skip) \in Nat
    BY <1>1
  <2> HIDE DEF one, skip
  <2>2. \E f \in [0 .. one -> Nat] :
          /\ f[0] = 0
          /\ \A i \in 1 .. one : f[i] = f[i - 1] + (octet(i, skip) % 128) * 2 ^ (7 * (i - 1))
          /\ magnitude(skip) = f[one]
    BY <2>1, SumOctets, Zenon
  <2> QED BY <2>2 DEF one, skip
<1>3. f[1] = length
  <2>1. f[1] = f[1 - 1] + (octet(1, 0) % 128) * 2 ^ (7 * (1 - 1))
    <3>1. 1 \in 1 .. 1
      OBVIOUS
    <3> QED BY <1>2, <3>1
  <2>2. 7 * (1 - 1) = 0 /\ 1 - 1 = 0 /\ octet(1, 0) % 128 = length
    OBVIOUS
  <2>3. 2 ^ (7 * (1 - 1)) = 1
    BY <2>2, SMT
  <2> QED BY <1>2, <2>1, <2>2, <2>3
<1>4. magnitude(0) = length
  BY <1>2, <1>3
<1>5. length_read = length
  <2>1. length % 256 = length
    OBVIOUS
  <2> QED BY <1>4, <2>1, Zenon DEF length_read
<1> QED BY <1>1, <1>4, <1>5 DEF behind_length

(***************************************************************************)
(* Each extract function returns the value whose fields follow.            *)
(***************************************************************************)
(* A field on its own.                                                     *)
LEMMA ReadSingle ==
  ASSUME NEW v \in Nat, NEW n \in 1 .. 8, v < 2 ^ n, v < 256, Follow(<<Code(v, n)>>), position \in Nat
  PROVE  get_max_4bytes(n, 0) = v /\ Bits(<<Code(v, n)>>) = n
<1> DEFINE codes == <<Code(v, n)>>
<1>1. codes \in Seq(Field)
  BY SingleCall
<1>2. Len(codes) = 1 /\ codes[1] = Code(v, n)
  OBVIOUS
<1>3. Code(v, n).n = n /\ Code(v, n).value = v
  <2>1. v % 256 = v
    OBVIOUS
  <2> QED BY <2>1 DEF Code
<1> HIDE DEF codes
<1>4. get_max_4bytes(codes[1].n, 0) = codes[1].value /\ Ends(codes)[1] = codes[1].n
  <2>1. Follow(codes)
    BY DEF codes
  <2> QED BY <1>1, <1>2, <2>1, FirstField
<1>5. get_max_4bytes(n, 0) = v /\ Ends(codes)[1] = n
  BY <1>2, <1>3, <1>4
<1> QED BY <1>2, <1>5 DEF Bits, codes

(* Fields of eight bits behind a first one, as octets.                     *)
LEMMA ReadBehind ==
  ASSUME NEW c \in Field, NEW rest \in Seq(Field), \A i \in 1 .. Len(rest) : rest[i].n = 8,
         Follow(<<c>> \o rest), position \in Nat
  PROVE  /\ get_max_4bytes(c.n, 0) = c.value
         /\ \A i \in 1 .. Len(rest) : octet(i, c.n) = rest[i].value
         /\ Bits(<<c>> \o rest) = c.n + 8 * Len(rest)
<1> DEFINE codes == <<c>> \o rest
<1>0. <<c>> \in Seq(Field) /\ Len(<<c>>) = 1 /\ <<c>>[1] = c
  OBVIOUS
<1>1. /\ codes \in Seq(Field) /\ Len(codes) = 1 + Len(rest) /\ Len(rest) \in Nat
      /\ codes[1] = c /\ \A i \in 1 .. Len(rest) : codes[1 + i] = rest[i]
  <2>1. codes \in Seq(Field) /\ Len(rest) \in Nat
    BY <1>0, Concatenated, LenProperties
  <2>2. Len(codes) = 1 + Len(rest)
    BY <1>0, ConcatProperties
  <2>3. codes[1] = c /\ \A i \in 1 .. Len(rest) : codes[1 + i] = rest[i]
    BY <1>0, <2>1
  <2> QED BY <2>1, <2>2, <2>3
<1>2. Follow(codes)
  OBVIOUS
<1> HIDE DEF codes
<1>3. get_max_4bytes(c.n, 0) = c.value /\ Ends(codes)[1] = c.n
  <2>1. Len(codes) >= 1
    BY <1>1
  <2> QED BY <1>1, <1>2, <2>1, FirstField
<1>4. \A j \in 1 + 1 .. Len(codes) : codes[j].n = 8
  <2> SUFFICES ASSUME NEW j \in 1 + 1 .. Len(codes) PROVE codes[j].n = 8
    OBVIOUS
  <2>1. j - 1 \in 1 .. Len(rest) /\ 1 + (j - 1) = j
    BY <1>1
  <2>2. codes[1 + (j - 1)] = rest[j - 1]
    BY <1>1, <2>1
  <2> QED BY <2>1, <2>2
<1>5. /\ \A i \in 1 .. Len(codes) - 1 :
           get_max_4bytes(8, Ends(codes)[1] + 8 * (i - 1)) = codes[1 + i].value
      /\ Ends(codes)[Len(codes)] = Ends(codes)[1] + 8 * (Len(codes) - 1)
  <2> DEFINE first == 1
             last  == Len(codes)
             width == 8
  <2>1. first \in 0 .. Len(codes) /\ last \in first .. Len(codes) /\ width \in Nat
    BY <1>1
  <2>2. \A j \in first + 1 .. last : codes[j].n = width
    BY <1>4
  <2> HIDE DEF first, last, width
  <2>3. /\ \A i \in 1 .. last - first :
             get_max_4bytes(width, Ends(codes)[first] + width * (i - 1)) = codes[first + i].value
        /\ Ends(codes)[last] = Ends(codes)[first] + width * (last - first)
    BY <1>1, <1>2, <2>1, <2>2, FieldsOfOneWidth
  <2> QED BY <2>3 DEF first, last, width
<1>6. ASSUME NEW i \in 1 .. Len(rest) PROVE octet(i, c.n) = rest[i].value
  <2>1. i \in 1 .. Len(codes) - 1
    BY <1>1
  <2> QED BY <1>1, <1>3, <1>5, <2>1 DEF octet
<1>7. Bits(codes) = c.n + 8 * Len(rest)
  <2>1. Len(codes) - 1 = Len(rest)
    BY <1>1
  <2> QED BY <1>3, <1>5, <2>1 DEF Bits
<1> QED BY <1>3, <1>6, <1>7 DEF codes

(* Octets only.                                                            *)
LEMMA ReadFirstOctets ==
  ASSUME NEW codes \in Seq(Field), NEW k \in 0 .. Len(codes), \A i \in 1 .. k : codes[i].n = 8,
         Follow(codes), position \in Nat
  PROVE  /\ \A i \in 1 .. k : octet(i, 0) = codes[i].value
         /\ Ends(codes)[k] = 8 * k
<1> DEFINE first == 0
           width == 8
<1>1. first \in 0 .. Len(codes) /\ k \in first .. Len(codes) /\ width \in Nat
  BY LenProperties
<1>2. \A j \in first + 1 .. k : codes[j].n = width
  OBVIOUS
<1> HIDE DEF first, width
<1>3. /\ \A i \in 1 .. k - first :
           get_max_4bytes(width, Ends(codes)[first] + width * (i - 1)) = codes[first + i].value
      /\ Ends(codes)[k] = Ends(codes)[first] + width * (k - first)
  BY <1>1, <1>2, FieldsOfOneWidth
<1>4. Ends(codes)[0] = 0 /\ Len(codes) \in Nat
  BY FieldsHave, EndsOf
<1>5. ASSUME NEW i \in 1 .. k PROVE octet(i, 0) = codes[i].value
  <2>1. i \in 1 .. k - 0 /\ 0 + i = i /\ 0 + 8 * (i - 1) = 8 * (i - 1)
    BY <1>4
  <2> QED BY <1>3, <1>4, <2>1 DEF octet, first, width
<1>6. Ends(codes)[k] = 8 * k
  <2>1. 0 + 8 * (k - 0) = 8 * k
    BY <1>4
  <2> QED BY <1>3, <1>4, <2>1 DEF first, width
<1> QED BY <1>5, <1>6

(* The code of an octet.                                                   *)
LEMMA OctetCode ==
  ASSUME NEW v \in 0 .. 255
  PROVE  Code(v, 8) \in Field /\ Code(v, 8).n = 8 /\ Code(v, 8).value = v
<1>1. v % 256 = v
  OBVIOUS
<1> QED BY <1>1, CodeFits DEF Code

(* injectString and extractString.                                         *)
LEMMA ReadString ==
  ASSUME NEW v, v.kind = "xs:string", Sendable(v), Follow(Codes(v)), position \in Nat
  PROVE  /\ length_read = Len(v.value) + 2 /\ behind_length = 8
         /\ v.value = [i \in 1 .. length_read - 2 |-> octet(i, behind_length)]
         /\ Bits(Codes(v)) = behind_length + 8 * (length_read - 2)
<1> DEFINE text == v.value
           length == Len(text) + 2
           rest == characters(text)
<1>1. text \in Seq(1 .. 255) /\ Len(text) \in 0 .. 125
  <2>1. v.value \in Seq(1 .. 255) /\ Len(v.value) <= 125
    BY DEF Sendable
  <2>2. Len(v.value) \in Nat
    BY <2>1, LenProperties
  <2>3. \A n \in Nat : n <= 125 => n \in 0 .. 125
    OBVIOUS
  <2> QED BY <2>1, <2>2, <2>3, Zenon
<1>2. Codes(v) = <<Code(length, 8)>> \o rest
  BY CodesOf DEF Throws
<1> HIDE DEF text
<1>3. \A i \in 1 .. Len(text) : text[i] \in 0 .. 255
  <2>1. \A i \in 1 .. Len(text) : text[i] \in 1 .. 255
    BY <1>1, ElementOfSeq
  <2>2. \A x \in 1 .. 255 : x \in 0 .. 255
    OBVIOUS
  <2> QED BY <2>1, <2>2, Zenon
<1>4. /\ rest \in Seq(Field) /\ Len(rest) = Len(text)
      /\ \A i \in 1 .. Len(rest) : rest[i].n = 8 /\ rest[i].value = text[i]
  <2>1. Len(text) % 256 = Len(text)
    <3>1. \A n \in 0 .. 125 : n % 256 = n
      OBVIOUS
    <3> QED BY <1>1, <3>1, Zenon
  <2>2. rest = [i \in 1 .. Len(text) |-> Code(text[i], 8)]
    BY <2>1, Zenon DEF characters
  <2>3. \A i \in 1 .. Len(text) : /\ Code(text[i], 8) \in Field
                                  /\ Code(text[i], 8).n = 8 /\ Code(text[i], 8).value = text[i]
    BY <1>3, OctetCode
  <2> HIDE DEF rest
  <2>4. rest \in Seq(Field) /\ Len(rest) = Len(text)
    BY <1>1, <2>2, <2>3
  <2> QED BY <2>2, <2>3, <2>4
<1>5. length \in 0 .. 127 /\ length \in 0 .. 255
  <2>1. \A n \in 0 .. 125 : n + 2 \in 0 .. 127 /\ n + 2 \in 0 .. 255
    OBVIOUS
  <2> QED BY <1>1, <2>1, Zenon
<1>6. /\ Code(length, 8) \in Field /\ Code(length, 8).n = 8 /\ Code(length, 8).value = length
  BY <1>5, OctetCode
<1> HIDE DEF length, rest
<1>7. /\ get_max_4bytes(8, 0) = length
      /\ \A i \in 1 .. Len(rest) : octet(i, 8) = rest[i].value
      /\ Bits(Codes(v)) = 8 + 8 * Len(rest)
  <2> DEFINE c == Code(length, 8)
  <2>1. c \in Field /\ c.n = 8 /\ c.value = length
    BY <1>6
  <2>2. Codes(v) = <<c>> \o rest
    BY <1>2
  <2> HIDE DEF c
  <2>3. /\ get_max_4bytes(c.n, 0) = c.value
        /\ \A i \in 1 .. Len(rest) : octet(i, c.n) = rest[i].value
        /\ Bits(<<c>> \o rest) = c.n + 8 * Len(rest)
    <3>1. Follow(<<c>> \o rest)
      BY <2>2
    <3> QED BY <1>4, <2>1, <3>1, ReadBehind
  <2> QED BY <2>1, <2>2, <2>3
<1>8. octets(0) = 1 /\ length_read = length /\ behind_length = 8
  <2>1. octet(1, 0) = length
    <3>1. 0 + 8 * (1 - 1) = 0
      OBVIOUS
    <3> QED BY <1>7, <3>1 DEF octet
  <2> QED BY <1>5, <2>1, LengthRead
<1>9. length - 2 = Len(text) /\ length = Len(text) + 2
  BY <1>1 DEF length
<1>10. text = [i \in 1 .. Len(text) |-> octet(i, 8)]
  <2>1. text = [i \in 1 .. Len(text) |-> text[i]]
    BY <1>1
  <2>2. \A i \in 1 .. Len(text) : octet(i, 8) = text[i]
    BY <1>4, <1>7
  <2> QED BY <2>1, <2>2, Zenon
<1>11. text = [i \in 1 .. length_read - 2 |-> octet(i, behind_length)]
  BY <1>8, <1>9, <1>10, Zenon
<1>12. Bits(Codes(v)) = behind_length + 8 * (length_read - 2)
  BY <1>4, <1>7, <1>8, <1>9, Zenon
<1> QED BY <1>8, <1>9, <1>11, <1>12 DEF text

(* get_next_n_bits fetches every byte, unless three are left behind words. *)
LEMMA FetchesBytes ==
  ASSUME NEW bytes \in 1 .. 127, bytes <= 3 \/ bytes % 4 # 3, NEW skip, NEW unset
  PROVE  get_next_n_bits(bytes, skip, unset) = [k \in 1 .. bytes |-> octet(k, skip)]
<1> DEFINE words == bytes \div 4
           first == IF bytes % 4 = 3 THEN words ELSE 4 * words
<1>1. ASSUME NEW k \in 1 .. bytes
      PROVE  /\ k - first \in 1 .. bytes % 4 => 4 * words + (k - first) = k
             /\ k - first \notin 1 .. bytes % 4 => k <= 4 * words
  <2>1. first = 4 * words
    OBVIOUS
  <2>2. bytes = 4 * words + (bytes % 4) /\ words \in Nat /\ bytes % 4 \in 0 .. 3
    OBVIOUS
  <2> HIDE DEF first, words
  <2> QED BY <2>1, <2>2
<1> HIDE DEF words
<1>2. ASSUME NEW k \in 1 .. bytes
      PROVE  (IF k - first \in 1 .. bytes % 4 THEN octet(4 * words + (k - first), skip)
              ELSE IF k <= 4 * words THEN octet(k, skip) ELSE unset[k - 4 * words]) = octet(k, skip)
  <2> HIDE DEF first
  <2>1. CASE k - first \in 1 .. bytes % 4
    BY <1>1, <2>1, Zenon
  <2>2. CASE k - first \notin 1 .. bytes % 4
    BY <1>1, <2>2, Zenon
  <2> QED BY <2>1, <2>2, Zenon
<1> QED BY <1>2, Zenon DEF get_next_n_bits, first, words

(* The digits of an octet.                                                 *)
LEMMA Halves ==
  ASSUME NEW h \in 0 .. 15, NEW l \in 0 .. 15
  PROVE  (16 * h + l) \div 16 = h /\ (16 * h + l) % 16 = l
  OBVIOUS

(* The digits of octets that were put together from digits.                *)
LEMMA DigitsOfOctets ==
  ASSUME NEW bytes \in Nat, NEW digits \in Seq(0 .. 15), Len(digits) = 2 * bytes, NEW data,
         data = [k \in 1 .. bytes |-> 16 * digits[2 * k - 1] + digits[2 * k]]
  PROVE  hexstring(data) = digits
<1>1. ASSUME NEW d \in 1 .. 2 * bytes
      PROVE  (IF d % 2 = 1 THEN data[(d + 1) \div 2] \div 16 ELSE data[d \div 2] % 16) = digits[d]
  <2>1. CASE d % 2 = 1
    <3>1. PICK k \in 1 .. bytes : (d + 1) \div 2 = k /\ 2 * k - 1 = d
      <4>1. d \in Nat /\ d >= 1 /\ d <= 2 * bytes
        OBVIOUS
      <4>2. PICK m \in Nat : d = 2 * m + 1
        BY <2>1, <4>1, d = 2 * (d \div 2) + (d % 2), d \div 2 \in Nat
      <4>3. (d + 1) \div 2 = m + 1 /\ m + 1 \in 1 .. bytes
        BY <4>1, <4>2
      <4> QED BY <4>2, <4>3
    <3>2. 2 * k - 1 \in 1 .. Len(digits) /\ 2 * k \in 1 .. Len(digits)
      BY <3>1
    <3>3. digits[2 * k - 1] \in 0 .. 15 /\ digits[2 * k] \in 0 .. 15
      BY <3>2, ElementOfSeq
    <3>4. data[k] = 16 * digits[2 * k - 1] + digits[2 * k]
      BY <3>1, Zenon
    <3>5. data[k] \div 16 = digits[2 * k - 1]
      BY <3>3, <3>4, Halves, Zenon
    <3> QED BY <2>1, <3>1, <3>5, Zenon
  <2>2. CASE d % 2 # 1
    <3>1. PICK k \in 1 .. bytes : d \div 2 = k /\ 2 * k = d
      <4>1. d \div 2 \in 1 .. bytes /\ 2 * (d \div 2) = d
        BY <2>2
      <4> QED BY <4>1
    <3>2. 2 * k - 1 \in 1 .. Len(digits) /\ 2 * k \in 1 .. Len(digits)
      BY <3>1
    <3>3. digits[2 * k - 1] \in 0 .. 15 /\ digits[2 * k] \in 0 .. 15
      BY <3>2, ElementOfSeq
    <3>4. data[k] = 16 * digits[2 * k - 1] + digits[2 * k]
      BY <3>1, Zenon
    <3>5. data[k] % 16 = digits[2 * k]
      BY <3>3, <3>4, Halves, Zenon
    <3> QED BY <2>2, <3>1, <3>5, Zenon
  <2> QED BY <2>1, <2>2, Zenon
<1>2. Len(data) = bytes
  OBVIOUS
<1>3. hexstring(data) = [d \in 1 .. 2 * bytes |-> digits[d]]
  BY <1>1, <1>2, Zenon DEF hexstring
<1>4. digits = [d \in 1 .. 2 * bytes |-> digits[d]]
  OBVIOUS
<1> QED BY <1>3, <1>4, Zenon

(* injectHexBin and extractHexBin.                                         *)
LEMMA ReadHexBin ==
  ASSUME NEW v, v.kind = "xs:hexBinary", Sendable(v), Follow(Codes(v)), position \in Nat
  PROVE  /\ behind_length = 8
         /\ \A unset : v.value = hexstring(get_next_n_bits(length_read, behind_length, unset))
         /\ Bits(Codes(v)) = behind_length + 8 * length_read
<1> DEFINE digits == v.value
           rest == HexCodes(digits)
<1>1. PICK bytes \in 1 .. 127 : Len(digits) = 2 * bytes /\ (bytes <= 3 \/ bytes % 4 # 3)
  BY DEF Sendable
<1>2. digits \in Seq(0 .. 15)
  BY DEF Sendable
<1>3. Codes(v) = <<Code((Len(digits) \div 2) % 256, 8)>> \o rest
  BY CodesOf DEF Throws
<1>4. (Len(digits) \div 2) % 256 = bytes
  BY <1>1
<1> HIDE DEF digits
<1>5. ASSUME NEW i \in 1 .. bytes
      PROVE  /\ digits[2 * i - 1] \in 0 .. 15 /\ digits[2 * i] \in 0 .. 15
             /\ 16 * digits[2 * i - 1] + digits[2 * i] \in 0 .. 255
  <2>1. 2 * i - 1 \in 1 .. Len(digits) /\ 2 * i \in 1 .. Len(digits)
    BY <1>1
  <2>2. digits[2 * i - 1] \in 0 .. 15 /\ digits[2 * i] \in 0 .. 15
    BY <1>2, <2>1, ElementOfSeq
  <2>3. \A a, b \in 0 .. 15 : 16 * a + b \in 0 .. 255
    OBVIOUS
  <2> QED BY <2>2, <2>3, Zenon
<1>6. /\ rest \in Seq(Field) /\ Len(rest) = bytes
      /\ \A i \in 1 .. bytes : rest[i].n = 8 /\ rest[i].value = 16 * digits[2 * i - 1] + digits[2 * i]
  <2> DEFINE octet1(i) == 16 * digits[2 * i - 1] + digits[2 * i]
  <2>1. rest = [i \in 1 .. bytes |-> Code(octet1(i), 8)]
    BY <1>4, Zenon DEF HexCodes
  <2>2. \A i \in 1 .. bytes : octet1(i) \in 0 .. 255
    BY <1>5
  <2> HIDE DEF octet1
  <2>3. \A i \in 1 .. bytes : /\ Code(octet1(i), 8) \in Field
                              /\ Code(octet1(i), 8).n = 8 /\ Code(octet1(i), 8).value = octet1(i)
    BY <2>2, OctetCode
  <2> HIDE DEF rest
  <2>4. rest \in Seq(Field) /\ Len(rest) = bytes
    BY <2>1, <2>3
  <2>5. \A i \in 1 .. bytes : rest[i].n = 8 /\ rest[i].value = octet1(i)
    BY <2>1, <2>3
  <2> QED BY <2>4, <2>5 DEF octet1
<1>7. Code(bytes, 8) \in Field /\ Code(bytes, 8).n = 8 /\ Code(bytes, 8).value = bytes
  <2>1. bytes \in 0 .. 255
    OBVIOUS
  <2> QED BY <2>1, OctetCode
<1> DEFINE c == Code(bytes, 8)
<1>8. Codes(v) = <<c>> \o rest
  BY <1>3, <1>4
<1> HIDE DEF rest, c
<1>9. /\ get_max_4bytes(8, 0) = bytes
      /\ \A i \in 1 .. bytes : octet(i, 8) = 16 * digits[2 * i - 1] + digits[2 * i]
      /\ Bits(Codes(v)) = 8 + 8 * bytes
  <2>1. c \in Field /\ c.n = 8 /\ c.value = bytes
    BY <1>7 DEF c
  <2>2. Follow(<<c>> \o rest) /\ \A i \in 1 .. Len(rest) : rest[i].n = 8
    BY <1>6, <1>8
  <2>3. /\ get_max_4bytes(c.n, 0) = c.value
        /\ \A i \in 1 .. Len(rest) : octet(i, c.n) = rest[i].value
        /\ Bits(<<c>> \o rest) = c.n + 8 * Len(rest)
    BY <1>6, <2>1, <2>2, ReadBehind
  <2> QED BY <1>6, <1>8, <2>1, <2>3
<1>10. length_read = bytes /\ behind_length = 8
  <2>1. octet(1, 0) = bytes
    <3>1. 0 + 8 * (1 - 1) = 0
      OBVIOUS
    <3> QED BY <1>9, <3>1 DEF octet
  <2>2. bytes \in 0 .. 127
    OBVIOUS
  <2> QED BY <2>1, <2>2, LengthRead
<1>11. ASSUME NEW unset
       PROVE  digits = hexstring(get_next_n_bits(bytes, 8, unset))
  <2> DEFINE data == get_next_n_bits(bytes, 8, unset)
  <2>1. data = [k \in 1 .. bytes |-> octet(k, 8)]
    BY <1>1, FetchesBytes
  <2> HIDE DEF data
  <2>2. data = [k \in 1 .. bytes |-> 16 * digits[2 * k - 1] + digits[2 * k]]
    BY <1>9, <2>1, Zenon
  <2>3. bytes \in Nat
    OBVIOUS
  <2>4. hexstring(data) = digits
    BY <1>1, <1>2, <2>2, <2>3, DigitsOfOctets
  <2> QED BY <2>4 DEF data
<1> QED BY <1>9, <1>10, <1>11, Zenon DEF digits

(* unsigned_codes as fields of an octet each.                              *)
LEMMA UnsignedFields ==
  ASSUME NEW number \in Nat, number < 2 ^ 31
  PROVE  /\ unsigned_codes(number) \in Seq(Field)
         /\ Len(unsigned_codes(number)) = groups(number)
         /\ \A i \in 1 .. groups(number) : unsigned_codes(number)[i].n = 8
         /\ groups(number) \in 1 .. 5
<1>1. unsigned_codes(number) \in Seq(Field)
  BY UnsignedCodesFit
<1>2. groups(number) \in 1 .. 5
  BY GroupsHold
<1>3. Len(unsigned_codes(number)) = groups(number)
  <2>1. groups(number) \in Nat
    BY <1>2
  <2> DEFINE k == groups(number)
             code(i) == Code((IF i < k THEN 128 ELSE 0) + ((number \div 2 ^ (7 * (i - 1))) % 128), 8)
  <2>2. unsigned_codes(number) = [i \in 1 .. k |-> code(i)]
    BY DEF unsigned_codes
  <2> HIDE DEF code
  <2>3. Len([i \in 1 .. k |-> code(i)]) = k
    BY <2>1
  <2> QED BY <2>2, <2>3
<1>4. \A i \in 1 .. groups(number) : unsigned_codes(number)[i].n = 8
  BY UnsignedCodes
<1> QED BY <1>1, <1>2, <1>3, <1>4

(* _injectUnsignedNumber and extractIntegerNumber without a sign.          *)
LEMMA ReadUnsignedNumber ==
  ASSUME NEW v, v.kind = "unsigned", v.known, IsTyped(v), Sendable(v), Follow(Codes(v)), position \in Nat
  PROVE  magnitude(0) = v.value /\ Bits(Codes(v)) = 8 * octets(0)
<1> DEFINE number == v.value
           k == groups(number)
           codes == unsigned_codes(number)
<1>1. number \in Nat /\ number < 2 ^ 31
  <2>1. number \in Int
    BY TypedValues
  <2>2. number >= 0 /\ number < 2 ^ 31
    BY DEF Sendable
  <2> QED BY <2>1, <2>2
<1>2. Codes(v) = codes
  <2>1. ~Throws(v)
    BY DEF Throws
  <2> QED BY <2>1, CodesOf
<1>3. codes \in Seq(Field) /\ Len(codes) = k /\ (\A i \in 1 .. k : codes[i].n = 8) /\ k \in 1 .. 5
  BY <1>1, UnsignedFields
<1> HIDE DEF number, k, codes
<1>4. (\A i \in 1 .. k : octet(i, 0) = codes[i].value) /\ Ends(codes)[k] = 8 * k
  <2>1. k \in 0 .. Len(codes) /\ Follow(codes)
    BY <1>2, <1>3
  <2> QED BY <1>3, <2>1, ReadFirstOctets
<1>5. octets(0) = k /\ magnitude(0) = number
  BY <1>1, <1>4, ReadUnsigned DEF k, codes
<1>6. Bits(codes) = 8 * k
  BY <1>3, <1>4 DEF Bits
<1> QED BY <1>2, <1>5, <1>6 DEF number

(* The same with a sign; of a number that is not below zero one bit.       *)
LEMMA ReadIntegerNumber ==
  ASSUME NEW v, v.kind = "integer", v.known, IsTyped(v), Sendable(v), Follow(Codes(v)), position \in Nat
  PROVE  /\ v.value = IF get_max_4bytes(1, 0) = 1 THEN -magnitude(1) ELSE magnitude(1)
         /\ Bits(Codes(v)) = 1 + 8 * octets(1)
<1> DEFINE number == v.value
           k == groups(number)
           rest == unsigned_codes(number)
           c == Code(0, 1)
<1>1. number \in Nat /\ number < 2 ^ 31 /\ ~ (number < 0)
  <2>1. number \in Int
    BY TypedValues
  <2>2. number >= 0 /\ number < 2 ^ 31
    BY DEF Sendable
  <2> QED BY <2>1, <2>2
<1>2. c \in Field /\ c.n = 1 /\ c.value = 0
  <2>1. c.n = 1 /\ c.value = 0
    BY DEF Code
  <2>2. 1 \in 1 .. 8 /\ 0 \in Nat /\ 0 < 2 ^ 1
    OBVIOUS
  <2>3. c \in Field
    BY <2>2, CodeFits
  <2> QED BY <2>1, <2>3
<1>3. Codes(v) = <<c>> \o rest
  <2>1. ~Throws(v)
    BY DEF Throws
  <2>2. Codes(v) = Sign(number) \o unsigned_codes(IF number < 0 THEN -number ELSE number)
    BY <2>1, CodesOf
  <2>3. Sign(number) = <<>> \o <<c>>
    BY <1>1 DEF Sign
  <2>4. <<>> \o <<c>> = <<c>>
    BY <1>2
  <2> HIDE DEF number
  <2> QED BY <1>1, <2>2, <2>3, <2>4
<1>4. rest \in Seq(Field) /\ Len(rest) = k /\ (\A i \in 1 .. k : rest[i].n = 8) /\ k \in 1 .. 5
  BY <1>1, UnsignedFields
<1> HIDE DEF number, k, rest, c
<1>5. /\ get_max_4bytes(1, 0) = 0
      /\ \A i \in 1 .. k : octet(i, 1) = rest[i].value
      /\ Bits(Codes(v)) = 1 + 8 * k
  <2>1. /\ get_max_4bytes(c.n, 0) = c.value
        /\ \A i \in 1 .. Len(rest) : octet(i, c.n) = rest[i].value
        /\ Bits(<<c>> \o rest) = c.n + 8 * Len(rest)
    <3>1. Follow(<<c>> \o rest)
      BY <1>3
    <3> QED BY <1>2, <1>4, <3>1, ReadBehind
  <2> QED BY <1>2, <1>3, <1>4, <2>1
<1>6. octets(1) = k /\ magnitude(1) = number
  BY <1>1, <1>5, ReadUnsigned DEF k, rest
<1> QED BY <1>5, <1>6 DEF number

(* How many characters a base64 text has, and how many bits its last one.  *)
LEMMA Base64Lengths ==
  ASSUME NEW text, IsBase64(text), Len(text) \in 1 .. 340, Len(text) % 4 = 0
  PROVE  LET p == Padding(text)
             m == Len(text) - p
             bits == 8 * NumBytes(text)
         IN  /\ p \in 0 .. 2 /\ m \in 1 .. 340 /\ NumBytes(text) \in 1 .. 255
             /\ p = 0 => bits \div 6 = m /\ bits % 6 = 0 /\ m % 4 = 0
             /\ p = 1 => bits \div 6 = m - 1 /\ bits % 6 = 4 /\ (m + 1) % 4 = 0
             /\ p = 2 => bits \div 6 = m - 1 /\ bits % 6 = 2 /\ (m + 2) % 4 = 0
<1> DEFINE p == Padding(text)
           q == Len(text) \div 4
<1>1. p \in 0 .. 2
  BY DEF Padding
<1>2. Len(text) = 4 * q /\ q \in 1 .. 85
  <2>1. \A n \in 1 .. 340 : n % 4 = 0 => n = 4 * (n \div 4) /\ n \div 4 \in 1 .. 85
    OBVIOUS
  <2> QED BY <2>1, Zenon
<1>3. NumBytes(text) = 3 * q - p
  BY DEF NumBytes
<1> HIDE DEF p, q
<1>4. CASE p = 0
  <2>1. 8 * (3 * q - p) = 6 * (4 * q)
    BY <1>2, <1>4
  <2>2. 4 * q - p \in 1 .. 340 /\ 3 * q - p \in 1 .. 255 /\ (4 * q - p) % 4 = 0
    BY <1>2, <1>4
  <2>3. \A n \in Nat : (6 * n) \div 6 = n /\ (6 * n) % 6 = 0
    OBVIOUS
  <2>4. 4 * q \in Nat /\ 4 * q - p = 4 * q
    BY <1>2, <1>4
  <2>5. (8 * (3 * q - p)) \div 6 = 4 * q - p /\ (8 * (3 * q - p)) % 6 = 0
    BY <2>1, <2>3, <2>4
  <2> QED BY <1>1, <1>2, <1>3, <1>4, <2>2, <2>5 DEF p
<1>5. CASE p = 1
  <2>1. 8 * (3 * q - p) = 6 * (4 * q - 2) + 4
    BY <1>2, <1>5
  <2>2. 4 * q - p \in 1 .. 340 /\ 3 * q - p \in 1 .. 255 /\ ((4 * q - p) + 1) % 4 = 0
    BY <1>2, <1>5
  <2>3. \A n \in Nat : (6 * n + 4) \div 6 = n /\ (6 * n + 4) % 6 = 4
    OBVIOUS
  <2>4. 4 * q - 2 \in Nat /\ (4 * q - p) - 1 = 4 * q - 2
    BY <1>2, <1>5
  <2>5. (8 * (3 * q - p)) \div 6 = (4 * q - p) - 1 /\ (8 * (3 * q - p)) % 6 = 4
    BY <2>1, <2>3, <2>4
  <2> QED BY <1>1, <1>2, <1>3, <1>5, <2>2, <2>5 DEF p
<1>6. CASE p = 2
  <2>1. 8 * (3 * q - p) = 6 * (4 * q - 3) + 2
    BY <1>2, <1>6
  <2>2. 4 * q - p \in 1 .. 340 /\ 3 * q - p \in 1 .. 255 /\ ((4 * q - p) + 2) % 4 = 0
    BY <1>2, <1>6
  <2>3. \A n \in Nat : (6 * n + 2) \div 6 = n /\ (6 * n + 2) % 6 = 2
    OBVIOUS
  <2>4. 4 * q - 3 \in Nat /\ (4 * q - p) - 1 = 4 * q - 3
    BY <1>2, <1>6
  <2>5. (8 * (3 * q - p)) \div 6 = (4 * q - p) - 1 /\ (8 * (3 * q - p)) % 6 = 2
    BY <2>1, <2>3, <2>4
  <2> QED BY <1>1, <1>2, <1>3, <1>6, <2>2, <2>5 DEF p
<1> QED BY <1>1, <1>4, <1>5, <1>6

(* The field of a character with all its bits, and of one with fewer.      *)
LEMMA WholeCharacter ==
  ASSUME NEW c \in 0 .. 63, NEW bits_left \in Nat, bits_left >= 6
  PROVE  base64_code(c, bits_left).n = 6 /\ base64_code(c, bits_left).value = c
<1>1. base64_values(c) = c
  BY DEF base64_values
<1>2. base64_code(c, bits_left) = Code(c, 6)
  BY <1>1 DEF base64_code
<1>3. c % 256 = c
  OBVIOUS
<1> QED BY <1>2, <1>3 DEF Code

(* The unused bits of the last character are zero, extractBase64Value      *)
(* appends them.                                                           *)
LEMMA CutCharacter ==
  ASSUME NEW c \in 0 .. 63, NEW bits_left \in {2, 4}, c % 2 ^ (6 - bits_left) = 0
  PROVE  /\ base64_code(c, bits_left).n = bits_left
         /\ base64_code(c, bits_left).value * 2 ^ (6 - bits_left) = c
<1>1. base64_values(c) = c
  BY DEF base64_values
<1>2. base64_code(c, bits_left) = Code(c \div 2 ^ (6 - bits_left), bits_left)
  BY <1>1 DEF base64_code
<1>3. CASE bits_left = 2
  <2>1. 2 ^ (6 - bits_left) = 16
    BY <1>3, SMT
  <2>2. c % 16 = 0
    BY <2>1
  <2>3. (c \div 16) % 256 = c \div 16 /\ (c \div 16) * 16 = c
    BY <2>2, SMT
  <2> QED BY <1>2, <1>3, <2>1, <2>3 DEF Code
<1>4. CASE bits_left = 4
  <2>1. 2 ^ (6 - bits_left) = 4
    BY <1>4, SMT
  <2>2. c % 4 = 0
    BY <2>1
  <2>3. (c \div 4) % 256 = c \div 4 /\ (c \div 4) * 4 = c
    BY <2>2, SMT
  <2> QED BY <1>2, <1>4, <2>1, <2>3 DEF Code
<1> QED BY <1>3, <1>4

(* The sequence t is s with the elements a and b behind it.                *)
Extends(t, s, a, b) ==
  /\ t \in Seq(Nat) /\ Len(t) = Len(s) + 2
  /\ \A i \in 1 .. Len(s) : t[i] = s[i]
  /\ t[Len(s) + 1] = a
  /\ t[Len(s) + 2] = b

(* Two more elements behind those of a sequence.                           *)
LEMMA TwoAppended ==
  ASSUME NEW s \in Seq(Nat), NEW a \in Nat, NEW b \in Nat
  PROVE  Extends(s \o <<a, b>>, s, a, b)
  BY DEF Extends

(* The characters of a text of which one or two are the padding: those     *)
(* that are read, and what extractBase64Value appends.                     *)
LEMMA Padded ==
  ASSUME NEW text \in Seq(Nat), NEW full \in Nat,
         full + 2 = Len(text) \/ (full + 3 = Len(text) /\ text[full + 3] = Pad),
         text[full + 2] = Pad, Len(text) % 4 = 0,
         NEW result, result = [i \in 1 .. full |-> text[i]] \o <<text[full + 1], Pad>>
  PROVE  text = IF Len(result) % 4 = 0 THEN result ELSE Append(result, Pad)
<1> DEFINE chars == [i \in 1 .. full |-> text[i]]
           last == text[full + 1]
<1>1. last \in Nat /\ Pad \in Nat /\ Len(text) \in Nat
  BY ElementOfSeq, PadAssumption
<1>2. chars \in Seq(Nat) /\ Len(chars) = full /\ \A i \in 1 .. full : chars[i] = text[i]
  <2>1. \A i \in 1 .. full : text[i] \in Nat
    <3>1. full <= Len(text)
      BY <1>1
    <3> QED BY <3>1
  <2> QED BY <2>1
<1> HIDE DEF chars
<1>3. /\ result \in Seq(Nat) /\ Len(result) = full + 2
      /\ \A i \in 1 .. full : result[i] = text[i]
      /\ result[full + 1] = text[full + 1]
      /\ result[full + 2] = text[full + 2]
  <2>1. result = chars \o <<last, Pad>>
    BY DEF chars
  <2> HIDE DEF last
  <2>2. /\ result \in Seq(Nat) /\ Len(result) = Len(chars) + 2
        /\ \A i \in 1 .. Len(chars) : result[i] = chars[i]
        /\ result[Len(chars) + 1] = last
        /\ result[Len(chars) + 2] = Pad
    <3>1. Extends(chars \o <<last, Pad>>, chars, last, Pad)
      BY <1>1, <1>2, TwoAppended
    <3> QED BY <2>1, <3>1 DEF Extends
  <2>3. last = text[full + 1] /\ Pad = text[full + 2]
    BY DEF last
  <2> QED BY <1>2, <2>1, <2>2, <2>3, Zenon
<1>4. \A i \in 1 .. full + 2 : result[i] = text[i]
  <2>1. \A i \in 1 .. full + 2 : i \in 1 .. full \/ i = full + 1 \/ i = full + 2
    OBVIOUS
  <2> QED BY <1>3, <2>1, Zenon
<1>5. CASE full + 2 = Len(text)
  <2>1. result = text
    BY <1>3, <1>4, <1>5, SeqEqual, Zenon
  <2> QED BY <1>3, <1>5, <2>1
<1>6. CASE full + 3 = Len(text) /\ text[full + 3] = Pad
  <2> DEFINE all == Append(result, Pad)
  <2>1. Len(result) % 4 # 0
    <3>1. ASSUME NEW n \in Nat, n % 4 = 0 PROVE (n - 1) % 4 # 0
      <4> DEFINE q == n \div 4
      <4>1. q \in Int /\ n = 4 * q
        BY <3>1
      <4> HIDE DEF q
      <4>2. n - 1 = 4 * (q - 1) + 3
        BY <4>1
      <4>3. \A m \in Int : (4 * m + 3) % 4 = 3
        OBVIOUS
      <4> QED BY <4>1, <4>2, <4>3
    <3>2. full + 2 = Len(text) - 1
      BY <1>1, <1>6
    <3> QED BY <1>1, <1>3, <3>1, <3>2, Zenon
  <2>2. /\ all \in Seq(Nat) /\ Len(all) = Len(result) + 1
        /\ \A i \in 1 .. Len(result) : all[i] = result[i]
        /\ all[Len(result) + 1] = Pad
    BY <1>1, <1>3, AppendProperties
  <2> HIDE DEF all
  <2>3. Len(all) = full + 3 /\ all[full + 3] = Pad
    <3>1. (full + 2) + 1 = full + 3
      OBVIOUS
    <3> QED BY <1>3, <2>2, <3>1, Zenon
  <2>4. \A i \in 1 .. Len(all) : all[i] = text[i]
    <3>1. \A i \in 1 .. full + 3 : i \in 1 .. full + 2 \/ i = full + 3
      OBVIOUS
    <3> QED BY <1>3, <1>4, <1>6, <2>2, <2>3, <3>1, Zenon
  <2>5. all = text
    BY <1>6, <2>2, <2>3, <2>4, SeqEqual, Zenon
  <2> QED BY <2>1, <2>5 DEF all
<1> QED BY <1>5, <1>6

(* The same of any text, without a padding, too.                           *)
LEMMA Base64Text ==
  ASSUME NEW text, IsBase64(text), Len(text) \in 1 .. 340, Len(text) % 4 = 0,
         NEW full \in Nat, NEW rest \in Nat,
         full = (8 * NumBytes(text)) \div 6, rest = (8 * NumBytes(text)) % 6
  PROVE  LET result == IF rest = 0 THEN [i \in 1 .. full |-> text[i]]
                       ELSE [i \in 1 .. full |-> text[i]] \o <<text[full + 1], Pad>>
         IN  text = IF Len(result) % 4 = 0 THEN result ELSE Append(result, Pad)
<1> DEFINE p == Padding(text)
<1>1. /\ p \in 0 .. 2
      /\ p = 0 => full = Len(text) - p /\ rest = 0
      /\ p = 1 => full = (Len(text) - p) - 1 /\ rest = 4
      /\ p = 2 => full = (Len(text) - p) - 1 /\ rest = 2
  BY Base64Lengths, Zenon
<1>2. text \in Seq(Nat) /\ Len(text) \in Nat
  BY LenProperties DEF IsBase64
<1>3. /\ p = 1 => text[Len(text)] = Pad
      /\ p = 2 => text[Len(text)] = Pad /\ text[Len(text) - 1] = Pad
  BY DEF Padding
<1> HIDE DEF p
<1>4. CASE p = 0
  <2>1. full = Len(text) /\ rest = 0
    BY <1>1, <1>2, <1>4
  <2>2. [i \in 1 .. full |-> text[i]] = text
    BY <1>2, <2>1
  <2> QED BY <2>1, <2>2
<1>5. CASE p # 0
  <2>1. /\ rest # 0
        /\ full + 2 = Len(text) \/ (full + 3 = Len(text) /\ text[full + 3] = Pad)
        /\ text[full + 2] = Pad
    <3>1. CASE p = 1
      <4>1. rest # 0 /\ full + 2 = Len(text)
        BY <1>1, <1>2, <3>1
      <4> QED BY <1>3, <3>1, <4>1
    <3>2. CASE p = 2
      <4>1. rest # 0 /\ full + 3 = Len(text) /\ full + 2 = Len(text) - 1
        BY <1>1, <1>2, <3>2
      <4> QED BY <1>3, <3>2, <4>1
    <3>3. p = 1 \/ p = 2
      BY <1>1, <1>5
    <3> QED BY <3>1, <3>2, <3>3
  <2> DEFINE result == [i \in 1 .. full |-> text[i]] \o <<text[full + 1], Pad>>
  <2>2. text = IF Len(result) % 4 = 0 THEN result ELSE Append(result, Pad)
    BY <1>2, <2>1, Padded
  <2> QED BY <2>1, <2>2, Zenon
<1> QED BY <1>4, <1>5

(* The shifts of the last character.                                       *)
LEMMA Shifts ==
  ASSUME NEW r \in Nat
  PROVE  (r = 4 => 2 ^ (6 - r) = 4) /\ (r = 2 => 2 ^ (6 - r) = 16)
<1>1. ASSUME r = 4 PROVE 2 ^ (6 - r) = 4
  BY <1>1, SMT
<1>2. ASSUME r = 2 PROVE 2 ^ (6 - r) = 16
  BY <1>2, SMT
<1> QED BY <1>1, <1>2

(* The fields of a base64 text: six bits of each character, of the last    *)
(* one what is left.                                                       *)
AreFieldsOf(codes, text, full, rest) ==
  /\ \A i \in 1 .. full : codes[i].n = 6 /\ codes[i].value = text[i]
  /\ rest = 0 => Len(codes) = full
  /\ rest # 0 => /\ Len(codes) = full + 1
                 /\ codes[full + 1].n = rest
                 /\ codes[full + 1].value * 2 ^ (6 - rest) = text[full + 1]

(* The calls of injectBase64Value make these fields.                       *)
LEMMA Base64Fields ==
  ASSUME NEW text, IsBase64(text), Len(text) \in 1 .. 340, Len(text) % 4 = 0,
         Padding(text) = 1 => text[Len(text) - 1] % 4 = 0,
         Padding(text) = 2 => text[Len(text) - 2] % 16 = 0,
         NEW full \in Nat, NEW rest \in Nat,
         full = (8 * NumBytes(text)) \div 6, rest = (8 * NumBytes(text)) % 6
  PROVE  AreFieldsOf(Base64Codes(text), text, full, rest)
<1> DEFINE p == Padding(text)
           m == Len(text) - p
           bits == 8 * NumBytes(text)
<1>1. /\ p \in 0 .. 2 /\ m \in 1 .. 340 /\ NumBytes(text) \in 1 .. 255
      /\ p = 0 => full = m /\ rest = 0
      /\ p = 1 => full = m - 1 /\ rest = 4
      /\ p = 2 => full = m - 1 /\ rest = 2
  BY Base64Lengths, Zenon
<1>2. bits = 6 * full + rest /\ bits \in Nat
  <2>1. \A b \in Nat : b = 6 * (b \div 6) + (b % 6)
    OBVIOUS
  <2>2. bits \in Nat
    <3>1. \A n \in 1 .. 255 : 8 * n \in Nat
      OBVIOUS
    <3> QED BY <1>1, <3>1, Zenon
  <2> QED BY <2>1, <2>2, Zenon
<1>3. /\ Len(Base64Codes(text)) = m
      /\ \A i \in 1 .. m : Base64Codes(text)[i] = base64_code(text[i], bits - 6 * (i - 1))
  <2>1. Base64Codes(text) = [i \in 1 .. m |-> base64_code(text[i], bits - 6 * (i - 1))]
    BY DEF Base64Codes
  <2>2. m \in Nat
    BY <1>1
  <2> HIDE DEF m, bits
  <2> QED BY <2>1, <2>2
<1>4. \A i \in 1 .. m : text[i] \in 0 .. 63
  BY Base64Characters
<1>5. Len(text) \in Nat
  BY LenProperties DEF IsBase64
<1>6. /\ p = 1 => text[m] % 4 = 0
      /\ p = 2 => text[m] % 16 = 0
  <2>1. p = 1 => m = Len(text) - 1
    OBVIOUS
  <2>2. p = 2 => m = Len(text) - 2
    OBVIOUS
  <2> HIDE DEF m
  <2> QED BY <2>1, <2>2
<1> HIDE DEF p, m, bits
<1>7. full <= m
  BY <1>1
<1>8. ASSUME NEW i \in 1 .. full
      PROVE  Base64Codes(text)[i].n = 6 /\ Base64Codes(text)[i].value = text[i]
  <2>1. i \in 1 .. m
    BY <1>1, <1>7
  <2>2. bits - 6 * (i - 1) \in Nat /\ bits - 6 * (i - 1) >= 6
    BY <1>2
  <2> DEFINE bits_left == bits - 6 * (i - 1)
  <2>3. Base64Codes(text)[i] = base64_code(text[i], bits_left)
    BY <1>3, <2>1
  <2> HIDE DEF bits_left
  <2>4. text[i] \in 0 .. 63 /\ bits_left \in Nat /\ bits_left >= 6
    BY <1>4, <2>1, <2>2 DEF bits_left
  <2>5. base64_code(text[i], bits_left).n = 6 /\ base64_code(text[i], bits_left).value = text[i]
    BY <2>4, WholeCharacter
  <2> QED BY <2>3, <2>5, Zenon
<1>9. rest = 0 => Len(Base64Codes(text)) = full
  BY <1>1, <1>3
<1>10. ASSUME rest # 0
       PROVE  /\ Len(Base64Codes(text)) = full + 1
              /\ Base64Codes(text)[full + 1].n = rest
              /\ Base64Codes(text)[full + 1].value * 2 ^ (6 - rest) = text[full + 1]
  <2>1. m = full + 1 /\ rest \in {2, 4} /\ (p = 1 => rest = 4) /\ (p = 2 => rest = 2) /\ p \in {1, 2}
    BY <1>1, <1>10
  <2>2. Base64Codes(text)[m] = base64_code(text[m], rest)
    <3>1. \A n, r \in Nat : (6 * n + r) - 6 * ((n + 1) - 1) = r /\ n + 1 \in 1 .. n + 1
      OBVIOUS
    <3>2. bits - 6 * (m - 1) = rest /\ m \in 1 .. m
      BY <1>2, <2>1, <3>1, Zenon
    <3> QED BY <1>3, <3>2, Zenon
  <2>3. text[m] % 2 ^ (6 - rest) = 0
    <3>1. CASE p = 1
      <4>1. rest = 4
        BY <2>1, <3>1, Zenon
      <4>2. 2 ^ (6 - rest) = 4
        BY <4>1, Shifts, Zenon
      <4>3. text[m] % 4 = 0
        BY <1>6, <3>1
      <4> QED BY <4>2, <4>3, Zenon
    <3>2. CASE p = 2
      <4>1. rest = 2
        BY <2>1, <3>2, Zenon
      <4>2. 2 ^ (6 - rest) = 16
        BY <4>1, Shifts, Zenon
      <4>3. text[m] % 16 = 0
        BY <1>6, <3>2
      <4> QED BY <4>2, <4>3, Zenon
    <3> QED BY <2>1, <3>1, <3>2
  <2>4. text[m] \in 0 .. 63
    <3>1. \A n \in 1 .. 340 : n \in 1 .. n
      OBVIOUS
    <3> QED BY <1>1, <1>4, <3>1, Zenon
  <2>5. /\ base64_code(text[m], rest).n = rest
        /\ base64_code(text[m], rest).value * 2 ^ (6 - rest) = text[m]
    BY <2>1, <2>3, <2>4, CutCharacter
  <2> QED BY <1>3, <2>1, <2>2, <2>5
<1> QED BY <1>8, <1>9, <1>10, Zenon DEF AreFieldsOf

(* What extractBase64Value reads of a base64 text, at the position.        *)
Base64Read ==
  LET num_bits_left == 8 * length_read
      full  == num_bits_left \div 6
      rest  == num_bits_left % 6
      chars == [i \in 1 .. full |-> get_max_4bytes(6, behind_length + 6 * (i - 1))]
      last  == get_max_4bytes(rest, behind_length + 6 * full) * 2 ^ (6 - rest)
      text  == IF rest = 0 THEN chars ELSE chars \o <<last, Pad>>
  IN  IF Len(text) % 4 = 0 THEN text ELSE Append(text, Pad)

(* injectBase64Value and extractBase64Value.                               *)
LEMMA ReadBase64 ==
  ASSUME NEW v, v.kind = "xs:base64Binary", IsTyped(v), Sendable(v), ~Throws(v),
         Follow(Codes(v)), position \in Nat
  PROVE  v.value = Base64Read /\ Bits(Codes(v)) = behind_length + 8 * length_read
<1> DEFINE text == v.value
           number == NumBytes(text)
           k == groups(number)
           first == unsigned_codes(number)
           second == Base64Codes(text)
           codes == Codes(v)
           full == (8 * number) \div 6
           rest == (8 * number) % 6
           end == Ends(codes)
<1>1. /\ IsBase64(text) /\ Len(text) \in 1 .. 340 /\ Len(text) % 4 = 0 /\ Len(text) # 0
      /\ Padding(text) = 1 => text[Len(text) - 1] % 4 = 0
      /\ Padding(text) = 2 => text[Len(text) - 2] % 16 = 0
  <2>1. IsBase64(text)
    BY TypedValues
  <2>2. Len(text) % 4 = 0 /\ Len(text) # 0
    BY DEF Throws
  <2>3. /\ Len(text) \in 1 .. 340
        /\ Padding(text) = 1 => text[Len(text) - 1] % 4 = 0
        /\ Padding(text) = 2 => text[Len(text) - 2] % 16 = 0
    BY DEF Sendable
  <2> QED BY <2>1, <2>2, <2>3
<1>2. codes = first \o second
  BY CodesOf
<1>3. number \in 1 .. 255
  BY <1>1, Base64Lengths, Zenon
<1>4. second \in Seq(Field)
  BY <1>1, Base64CodesFit, Zenon
<1>5. /\ full \in Nat /\ rest \in 0 .. 5 /\ rest \in Nat
      /\ 8 * number = 6 * full + rest
  <2>1. \A n \in 1 .. 255 : /\ (8 * n) \div 6 \in Nat /\ (8 * n) % 6 \in 0 .. 5 /\ (8 * n) % 6 \in Nat
                            /\ 8 * n = 6 * ((8 * n) \div 6) + ((8 * n) % 6)
    OBVIOUS
  <2> QED BY <1>3, <2>1, Zenon
<1>6. /\ \A i \in 1 .. full : second[i].n = 6 /\ second[i].value = text[i]
      /\ rest = 0 => Len(second) = full
      /\ rest # 0 => /\ Len(second) = full + 1
                     /\ second[full + 1].n = rest
                     /\ second[full + 1].value * 2 ^ (6 - rest) = text[full + 1]
  <2>1. full = (8 * NumBytes(text)) \div 6 /\ rest = (8 * NumBytes(text)) % 6
    OBVIOUS
  <2>2. AreFieldsOf(second, text, full, rest)
    <3> HIDE DEF text, full, rest
    <3> QED BY <1>1, <1>5, <2>1, Base64Fields
  <2> QED BY <2>2, Zenon DEF AreFieldsOf
<1>7. /\ first \in Seq(Field) /\ Len(first) = k /\ (\A i \in 1 .. k : first[i].n = 8) /\ k \in 1 .. 5
      /\ number \in Nat /\ number < 2 ^ 31
  <2>1. number \in Nat /\ number < 2 ^ 31
    BY <1>3
  <2> HIDE DEF number
  <2> QED BY <2>1, UnsignedFields
<1>8. Follow(codes)
  OBVIOUS
<1> HIDE DEF text, number, k, first, second, codes, full, rest, end
<1>9. /\ codes \in Seq(Field) /\ Len(codes) = k + Len(second) /\ Len(second) \in Nat
      /\ \A i \in 1 .. k : codes[i] = first[i]
      /\ \A i \in 1 .. Len(second) : codes[k + i] = second[i]
  <2>1. codes \in Seq(Field) /\ Len(codes) = k + Len(second) /\ Len(second) \in Nat
    BY <1>2, <1>4, <1>7, ConcatProperties, LenProperties
  <2>2. \A i \in 1 .. Len(first) + Len(second) :
          codes[i] = IF i <= Len(first) THEN first[i] ELSE second[i - Len(first)]
    BY <1>2, <1>4, <1>7, ConcatProperties
  <2>3. k \in Nat
    BY <1>7
  <2>4. ASSUME NEW i \in 1 .. k PROVE codes[i] = first[i]
    <3>1. i \in 1 .. Len(first) + Len(second) /\ i <= Len(first)
      BY <1>7, <2>1, <2>3
    <3> QED BY <2>2, <3>1
  <2>5. ASSUME NEW i \in 1 .. Len(second) PROVE codes[k + i] = second[i]
    <3>1. k + i \in 1 .. Len(first) + Len(second) /\ ~ (k + i <= Len(first)) /\ (k + i) - Len(first) = i
      BY <1>7, <2>1, <2>3
    <3> QED BY <2>2, <3>1
  <2> QED BY <2>1, <2>4, <2>5
<1>10. /\ \A i \in 1 .. k : octet(i, 0) = first[i].value
       /\ end[k] = 8 * k
  <2>1. k \in 0 .. Len(codes)
    BY <1>7, <1>9
  <2>2. \A i \in 1 .. k : codes[i].n = 8
    BY <1>7, <1>9
  <2>3. (\A i \in 1 .. k : octet(i, 0) = codes[i].value) /\ Ends(codes)[k] = 8 * k
    BY <1>8, <1>9, <2>1, <2>2, ReadFirstOctets
  <2> QED BY <1>9, <2>3 DEF end
<1>11. length_read = number /\ behind_length = 8 * k
  <2>1. octets(0) = k /\ magnitude(0) = number
    BY <1>7, <1>10, ReadUnsigned DEF k, first
  <2>2. number % 256 = number
    <3>1. \A n \in 1 .. 255 : n % 256 = n
      OBVIOUS
    <3> QED BY <1>3, <3>1, Zenon
  <2> QED BY <2>1, <2>2, Zenon DEF length_read, behind_length
<1>12. k + full \in 0 .. Len(codes) /\ k \in 0 .. Len(codes) /\ full <= Len(second)
  BY <1>5, <1>6, <1>7, <1>9
<1>13. /\ \A i \in 1 .. full : get_max_4bytes(6, 8 * k + 6 * (i - 1)) = text[i]
       /\ end[k + full] = 8 * k + 6 * full
  <2> DEFINE behind == k + full
             width == 6
  <2>1. k \in 0 .. Len(codes) /\ behind \in k .. Len(codes) /\ width \in Nat /\ behind - k = full
    BY <1>5, <1>7, <1>9, <1>12
  <2>2. ASSUME NEW j \in k + 1 .. behind PROVE codes[j].n = width
    <3>1. j - k \in 1 .. full /\ j - k \in 1 .. Len(second) /\ k + (j - k) = j
      BY <1>5, <1>7, <1>9, <1>12
    <3>2. codes[k + (j - k)] = second[j - k]
      BY <1>9, <3>1
    <3> QED BY <1>6, <3>1, <3>2
  <2> HIDE DEF behind, width
  <2>3. /\ \A i \in 1 .. behind - k :
              get_max_4bytes(width, Ends(codes)[k] + width * (i - 1)) = codes[k + i].value
        /\ Ends(codes)[behind] = Ends(codes)[k] + width * (behind - k)
    BY <1>8, <1>9, <2>1, <2>2, FieldsOfOneWidth
  <2>4. ASSUME NEW i \in 1 .. full PROVE get_max_4bytes(6, 8 * k + 6 * (i - 1)) = text[i]
    <3>1. get_max_4bytes(6, 8 * k + 6 * (i - 1)) = codes[k + i].value
      BY <1>10, <2>1, <2>3, Zenon DEF width, end
    <3>2. codes[k + i] = second[i]
      <4>1. i \in 1 .. Len(second)
        BY <1>5, <1>9, <1>12
      <4> QED BY <1>9, <4>1
    <3> QED BY <1>6, <3>1, <3>2
  <2>5. end[k + full] = 8 * k + 6 * full
    BY <1>10, <2>1, <2>3, Zenon DEF width, behind, end
  <2> QED BY <2>4, <2>5
<1>14. /\ Bits(codes) = 8 * k + 8 * number
       /\ rest # 0 => get_max_4bytes(rest, 8 * k + 6 * full) * 2 ^ (6 - rest) = text[full + 1]
  <2>1. CASE rest = 0
    <3>1. Len(codes) = k + full /\ 8 * k + 6 * full = 8 * k + 8 * number
      BY <1>5, <1>6, <1>7, <1>9, <2>1
    <3> QED BY <1>13, <2>1, <3>1, Zenon DEF Bits, end
  <2>2. CASE rest # 0
    <3> DEFINE j == k + full + 1
               c == codes[j]
    <3>1. j \in 1 .. Len(codes) /\ j = Len(codes) /\ j - 1 = k + full /\ k + (full + 1) = j
      BY <1>5, <1>6, <1>7, <1>9, <2>2
    <3>2. c = second[full + 1] /\ c \in Field /\ c.n = rest
      <4>1. full + 1 \in 1 .. Len(second)
        BY <1>5, <1>6, <2>2
      <4>2. codes[k + (full + 1)] = second[full + 1]
        BY <1>9, <4>1
      <4>3. second[full + 1] \in Field
        BY <1>4, <4>1, ElementOfSeq
      <4> QED BY <1>6, <2>2, <3>1, <4>2, <4>3
    <3>3. FieldAt(codes[j], position + Ends(codes)[j - 1])
      <4> HIDE DEF j
      <4> QED BY <1>8, <3>1 DEF Follow
    <3> HIDE DEF c, j
    <3>4. FieldAt(c, position + (8 * k + 6 * full))
      BY <1>13, <3>1, <3>3, Zenon DEF end, c
    <3>5. get_max_4bytes(c.n, 8 * k + 6 * full) = c.value
      BY <3>2, <3>4, ReadField
    <3>6. get_max_4bytes(rest, 8 * k + 6 * full) * 2 ^ (6 - rest) = text[full + 1]
      <4>1. c.value * 2 ^ (6 - rest) = text[full + 1]
        BY <1>6, <2>2, <3>2, Zenon
      <4> QED BY <3>2, <3>5, <4>1, Zenon
    <3>7. end[j] = end[j - 1] + codes[j].n
      BY <1>9, <3>1, FieldsHave, EndsOf DEF end
    <3>8. Bits(codes) = (8 * k + 6 * full) + rest
      BY <1>13, <3>1, <3>2, <3>7, Zenon DEF Bits, end, c
    <3>9. (8 * k + 6 * full) + rest = 8 * k + 8 * number
      BY <1>5, <1>7
    <3> QED BY <3>6, <3>8, <3>9
  <2> QED BY <2>1, <2>2
<1>15. text = Base64Read
  <2> DEFINE chars(b) == [i \in 1 .. full |-> get_max_4bytes(6, b + 6 * (i - 1))]
             result == IF rest = 0 THEN [i \in 1 .. full |-> text[i]]
                       ELSE [i \in 1 .. full |-> text[i]] \o <<text[full + 1], Pad>>
             read == IF rest = 0 THEN chars(8 * k)
                     ELSE chars(8 * k)
                            \o <<get_max_4bytes(rest, 8 * k + 6 * full) * 2 ^ (6 - rest), Pad>>
  <2>1. text = IF Len(result) % 4 = 0 THEN result ELSE Append(result, Pad)
    <3>1. full = (8 * NumBytes(text)) \div 6 /\ rest = (8 * NumBytes(text)) % 6
      BY DEF full, rest, number
    <3> QED BY <1>1, <1>5, <3>1, Base64Text, Zenon
  <2>2. chars(8 * k) = [i \in 1 .. full |-> text[i]]
    BY <1>13
  <2>3. read = result
    <3> HIDE DEF chars
    <3> QED BY <1>14, <2>2, Zenon
  <2>4. Base64Read = IF Len(read) % 4 = 0 THEN read ELSE Append(read, Pad)
    <3>1. full = (8 * length_read) \div 6 /\ rest = (8 * length_read) % 6
      BY <1>11 DEF full, rest
    <3> QED BY <1>11, <3>1, Zenon DEF Base64Read
  <2> QED BY <2>1, <2>3, <2>4, Zenon
<1> QED BY <1>11, <1>14, <1>15, Zenon DEF text, codes

(* An extract function returns the value whose fields follow, and moves    *)
(* behind them.                                                            *)
LEMMA ExtractedRight ==
  ASSUME Extract, IsTyped(Extracted), Sendable(Extracted), ~Throws(Extracted),
         Follow(Codes(Extracted)), position \in Nat
  PROVE  Returns(Extracted.value, Bits(Codes(Extracted)))
<1> DEFINE v == Extracted
<1> SUFFICES Returns(v.value, Bits(Codes(v)))
  OBVIOUS
<1>1. ASSUME v.kind \in {"unsigned", "integer"} PROVE v.known
  BY <1>1 DEF Throws
<1>2. CASE extractBoolValue
  <2>1. v.kind = "xs:boolean"
    BY <1>2 DEF extractBoolValue, Extracts, Extracted
  <2>2. v.value \in {0, 1}
    BY <2>1, TypedValues
  <2>3. Codes(v) = <<Code(v.value, 1)>>
    BY <2>1, CodesOf
  <2> HIDE DEF v
  <2>4. get_max_4bytes(1, 0) = v.value /\ Bits(<<Code(v.value, 1)>>) = 1
    <3> DEFINE one == 1
    <3>1. one \in 1 .. 8 /\ v.value \in Nat /\ v.value < 256
      BY <2>2
    <3>2. v.value < 2 ^ one
      BY <2>2, SMT
    <3>3. Follow(<<Code(v.value, one)>>)
      BY <2>3 DEF v
    <3> HIDE DEF one
    <3>4. get_max_4bytes(one, 0) = v.value /\ Bits(<<Code(v.value, one)>>) = one
      BY <3>1, <3>2, <3>3, ReadSingle
    <3> QED BY <3>4 DEF one
  <2> QED BY <1>2, <2>3, <2>4, Zenon DEF extractBoolValue
<1>3. CASE decode_enum
  <2>1. v.kind = "enum"
    BY <1>3 DEF decode_enum, Extracts, Extracted
  <2>2. v.n \in 2 .. 256 /\ v.value \in 0 .. v.n - 1
    BY <2>1, TypedValues
  <2>3. Codes(v) = <<Code(v.value, num_bits(v.n))>>
    BY <2>1, CodesOf
  <2>4. Follow(<<Code(v.value, num_bits(v.n))>>)
    BY <2>3
  <2> HIDE DEF v
  <2>5. num_bits(v.n) \in 1 .. 8 /\ v.n <= 2 ^ num_bits(v.n)
    BY <2>2, NumBitsHold
  <2>6. v.value \in Nat /\ v.value < 2 ^ num_bits(v.n) /\ v.value < 256
    BY <2>2, <2>5, PowerOfTwo
  <2>7. /\ get_max_4bytes(num_bits(v.n), 0) = v.value
        /\ Bits(<<Code(v.value, num_bits(v.n))>>) = num_bits(v.n)
    BY <2>4, <2>5, <2>6, ReadSingle
  <2>8. Returns(get_max_4bytes(num_bits(v.n), 0), num_bits(v.n))
    BY <1>3, Zenon DEF decode_enum, v
  <2> QED BY <2>3, <2>7, <2>8, Zenon
<1>4. CASE extractString
  <2>1. v.kind = "xs:string"
    BY <1>4 DEF extractString, Extracts, Extracted
  <2>2. /\ v.value = [i \in 1 .. length_read - 2 |-> octet(i, behind_length)]
        /\ Bits(Codes(v)) = behind_length + 8 * (length_read - 2)
    BY <2>1, ReadString
  <2>3. Returns([i \in 1 .. length_read - 2 |-> octet(i, behind_length)],
                behind_length + 8 * (length_read - 2))
    BY <1>4, Zenon DEF extractString
  <2> QED BY <2>2, <2>3, Zenon
<1>5. CASE extractIntegerNumber
  <2>1. CASE /\ Extracts("unsigned") /\ HasNumber(0)
             /\ Returns(magnitude(0), 8 * octets(0))
    <3>1. v.kind = "unsigned"
      BY <2>1 DEF Extracts, Extracted
    <3>2. magnitude(0) = v.value /\ Bits(Codes(v)) = 8 * octets(0)
      BY <1>1, <3>1, ReadUnsignedNumber
    <3> QED BY <2>1, <3>2, Zenon
  <2>2. CASE /\ Extracts("integer") /\ HasNumber(1)
             /\ Returns(IF get_max_4bytes(1, 0) = 1 THEN -magnitude(1) ELSE magnitude(1), 1 + 8 * octets(1))
    <3>1. v.kind = "integer"
      BY <2>2 DEF Extracts, Extracted
    <3>2. /\ v.value = IF get_max_4bytes(1, 0) = 1 THEN -magnitude(1) ELSE magnitude(1)
          /\ Bits(Codes(v)) = 1 + 8 * octets(1)
      BY <1>1, <3>1, ReadIntegerNumber
    <3> QED BY <2>2, <3>2, Zenon
  <2> QED BY <1>5, <2>1, <2>2, Zenon DEF extractIntegerNumber
<1>6. CASE extractNBitNumber
  <2>1. v.kind = "nbit"
    BY <1>6 DEF extractNBitNumber, Extracts, Extracted
  <2> DEFINE number == v.value - v.offset
  <2>2. /\ v.n \in 1 .. 8 /\ v.value \in Int /\ v.offset \in Int
        /\ number \in Nat /\ number < 2 ^ v.n
    BY <2>1, TypedValues
  <2>3. Codes(v) = <<Code(number, v.n)>>
    BY <2>1, CodesOf
  <2>4. Follow(<<Code(number, v.n)>>)
    BY <2>3
  <2> HIDE DEF v
  <2>5. number + v.offset = v.value
    BY <2>2
  <2> HIDE DEF number
  <2>6. number < 256
    <3> DEFINE eight == 8
    <3>0. v.n \in Nat /\ eight \in Nat /\ v.n <= eight
      BY <2>2
    <3> HIDE DEF eight
    <3>1. 2 ^ v.n <= 2 ^ eight /\ 2 ^ v.n \in Nat
      BY <3>0, PowersGrow, PowerOfTwo
    <3>2. 2 ^ eight = 256
      BY SMT DEF eight
    <3> QED BY <2>2, <3>1, <3>2
  <2>7. get_max_4bytes(v.n, 0) = number /\ Bits(<<Code(number, v.n)>>) = v.n
    BY <2>2, <2>4, <2>6, ReadSingle
  <2>8. Returns(get_max_4bytes(v.n, 0) + v.offset, v.n)
    BY <1>6, Zenon DEF extractNBitNumber, v
  <2> QED BY <2>3, <2>5, <2>7, <2>8, Zenon
<1>7. CASE extractHexBin
  <2>1. v.kind = "xs:hexBinary"
    BY <1>7 DEF extractHexBin, Extracts, Extracted
  <2>2. /\ \A unset : v.value = hexstring(get_next_n_bits(length_read, behind_length, unset))
        /\ Bits(Codes(v)) = behind_length + 8 * length_read
    BY <2>1, ReadHexBin
  <2>3. PICK unset : Returns(hexstring(get_next_n_bits(length_read, behind_length, unset)),
                             behind_length + 8 * length_read)
    BY <1>7, Zenon DEF extractHexBin
  <2> QED BY <2>2, <2>3, Zenon
<1>8. CASE extractBase64Value
  <2>1. v.kind = "xs:base64Binary"
    BY <1>8 DEF extractBase64Value, Extracts, Extracted
  <2>2. v.value = Base64Read /\ Bits(Codes(v)) = behind_length + 8 * length_read
    BY <2>1, ReadBase64
  <2>3. Returns(Base64Read, behind_length + 8 * length_read)
    BY <1>8, Zenon DEF extractBase64Value, Base64Read
  <2> QED BY <2>2, <2>3, Zenon
<1> QED BY <1>2, <1>3, <1>4, <1>5, <1>6, <1>7, <1>8, Zenon DEF Extract

(* The value returned for a type is the value itself.                      *)
LEMMA SameValue ==
  ASSUME NEW v, IsTyped(v)
  PROVE  [v EXCEPT !.value = v.value] = v
<1>1. PICK t, x, known : v = [Value(t, x) EXCEPT !.known = known]
  BY DEF IsTyped
<1>2. \A k, n, o, x1, b : LET w == [kind |-> k, n |-> n, offset |-> o, value |-> x1, known |-> b]
                          IN  [w EXCEPT !.value = w.value] = w
  OBVIOUS
<1>3. \E k, n, o, x1, b : v = [kind |-> k, n |-> n, offset |-> o, value |-> x1, known |-> b]
  <2>1. v = [kind |-> getSimpleTypeInfo(t).kind, n |-> getSimpleTypeInfo(t).n,
             offset |-> getSimpleTypeInfo(t).offset, value |-> x, known |-> known]
    BY <1>1 DEF Value
  <2> QED BY <2>1
<1> QED BY <1>2, <1>3

(* The first k fields of codes are in bits, behind the first p of them.    *)
LiesIn(bits, codes, p, k) ==
  \A j \in 1 .. k :
    /\ p + Ends(codes)[j - 1] + codes[j].n <= Len(bits)
    /\ \A b \in 1 .. codes[j].n :
         bits[p + Ends(codes)[j - 1] + b] = BitOf(codes[j].value, codes[j].n - b)

(* Where the bits of each value start.                                     *)
Starts == Ends([i \in 1 .. Len(document) |-> [n |-> Bits(Codes(document[i]))]])

(* The ends of the fields of a value.                                      *)
LEMMA CodeEnds ==
  ASSUME NEW codes \in Seq(Field)
  PROVE  /\ Len(codes) \in Nat
         /\ Ends(codes) \in [0 .. Len(codes) -> Nat]
         /\ Ends(codes)[0] = 0
         /\ \A j \in 1 .. Len(codes) : Ends(codes)[j] = Ends(codes)[j - 1] + codes[j].n
         /\ Bits(codes) \in Nat
<1>1. /\ Len(codes) \in Nat
      /\ Ends(codes) \in [0 .. Len(codes) -> Nat]
      /\ Ends(codes)[0] = 0
      /\ \A j \in 1 .. Len(codes) : Ends(codes)[j] = Ends(codes)[j - 1] + codes[j].n
  BY FieldsHave, EndsOf
<1>2. Bits(codes) \in Nat
  <2>1. Len(codes) \in 0 .. Len(codes)
    BY <1>1
  <2> QED BY <1>1, <2>1 DEF Bits
<1> QED BY <1>1, <1>2

(* Each value starts where the one before it ends.                         *)
LEMMA StartsOf ==
  ASSUME Len(document) \in Nat, \A i \in 1 .. Len(document) : Codes(document[i]) \in Seq(Field)
  PROVE  /\ Starts \in [0 .. Len(document) -> Nat]
         /\ Starts[0] = 0
         /\ \A i \in 1 .. Len(document) : Starts[i] = Starts[i - 1] + Bits(Codes(document[i]))
<1> DEFINE sizes == [i \in 1 .. Len(document) |-> [n |-> Bits(Codes(document[i]))]]
<1>1. \A i \in 1 .. Len(document) : Bits(Codes(document[i])) \in Nat
  BY CodeEnds
<1>2. /\ Len(sizes) = Len(document)
      /\ \A i \in 1 .. Len(document) : sizes[i].n = Bits(Codes(document[i]))
  OBVIOUS
<1>3. Starts = Ends(sizes)
  BY DEF Starts
<1> HIDE DEF sizes
<1>4. Len(sizes) \in Nat /\ \A i \in 1 .. Len(sizes) : sizes[i].n \in Nat
  BY <1>1, <1>2
<1>5. /\ Ends(sizes) \in [0 .. Len(sizes) -> Nat]
      /\ Ends(sizes)[0] = 0
      /\ \A i \in 1 .. Len(sizes) : Ends(sizes)[i] = Ends(sizes)[i - 1] + sizes[i].n
  BY <1>4, EndsOf
<1> QED BY <1>2, <1>3, <1>5

(* More bits behind them do not matter.                                    *)
LEMMA StillLiesIn ==
  ASSUME NEW bits, Len(bits) \in Nat, NEW more, Len(more) \in Nat, Len(bits) <= Len(more),
         \A i \in 1 .. Len(bits) : more[i] = bits[i],
         NEW codes \in Seq(Field), NEW p \in Nat, NEW k \in 0 .. Len(codes), LiesIn(bits, codes, p, k)
  PROVE  LiesIn(more, codes, p, k)
<1> SUFFICES ASSUME NEW j \in 1 .. k
             PROVE  /\ p + Ends(codes)[j - 1] + codes[j].n <= Len(more)
                    /\ \A b \in 1 .. codes[j].n :
                         more[p + Ends(codes)[j - 1] + b] = BitOf(codes[j].value, codes[j].n - b)
  BY DEF LiesIn
<1> DEFINE from == Ends(codes)[j - 1]
           n == codes[j].n
<1>1. from \in Nat /\ n \in Nat
  <2>1. j - 1 \in 0 .. Len(codes) /\ j \in 1 .. Len(codes)
    BY CodeEnds
  <2> QED BY <2>1, CodeEnds, FieldsHave
<1>2. /\ p + from + n <= Len(bits)
      /\ \A b \in 1 .. n : bits[p + from + b] = BitOf(codes[j].value, n - b)
  BY DEF LiesIn
<1> HIDE DEF from, n
<1>3. p + from + n <= Len(more)
  BY <1>1, <1>2
<1>4. ASSUME NEW b \in 1 .. n PROVE more[p + from + b] = BitOf(codes[j].value, n - b)
  <2>1. p + from + b \in 1 .. Len(bits)
    BY <1>1, <1>2
  <2> QED BY <1>2, <2>1
<1> QED BY <1>3, <1>4 DEF from, n

(* A field that fits leaves the bits before it as they are: nothing of it  *)
(* is left to be or-ed into them.                                          *)
LEMMA FieldAdded ==
  ASSUME NEW bits \in Seq({0, 1}), NEW c \in Field
  PROVE  /\ \A i \in 1 .. Len(bits) : add_max_8bits(bits, c)[i] = bits[i]
         /\ \A b \in 1 .. c.n : add_max_8bits(bits, c)[Len(bits) + b] = BitOf(c.value, c.n - b)
<1> DEFINE used == Len(bits) % 8
           leak == IF used + c.n <= 8 THEN c.value \div 2 ^ c.n ELSE 0
           n == c.n
           Bit(i) == IF i > Len(bits) THEN BitOf(c.value, Len(bits) + c.n - i)
                     ELSE IF i > Len(bits) - used /\ BitOf(leak, Len(bits) - i) = 1 THEN 1
                     ELSE bits[i]
<1>1. n \in 0 .. 8 /\ n \in Nat /\ c.value \in Nat /\ c.value < 2 ^ n /\ Len(bits) \in Nat
  <2>1. n \in 1 .. 8 /\ c.value \in 0 .. 255 /\ c.value < 2 ^ n
    BY DEF Field
  <2>2. /\ \A m \in 1 .. 8 : m \in 0 .. 8 /\ m \in Nat
        /\ \A v \in 0 .. 255 : v \in Nat
    OBVIOUS
  <2>3. Len(bits) \in Nat
    BY LenProperties
  <2> QED BY <2>1, <2>2, <2>3, Zenon
<1>2. leak = 0
  <2>1. c.value \div 2 ^ c.n = 0
    BY <1>1, NothingAbove
  <2> QED BY <2>1
<1>3. \A w \in Nat : BitOf(0, w) # 1
  <2> SUFFICES ASSUME NEW w \in Nat PROVE BitOf(0, w) # 1
    OBVIOUS
  <2>1. 2 ^ w \in Nat \ {0}
    BY PowerOfTwo
  <2>2. \A p \in Nat \ {0} : (0 \div p) % 2 # 1
    OBVIOUS
  <2> QED BY <2>1, <2>2, Zenon DEF BitOf
<1>4. add_max_8bits(bits, c) = [i \in 1 .. Len(bits) + c.n |-> Bit(i)]
  BY DEF add_max_8bits
<1> HIDE DEF leak, used
<1>5. ASSUME NEW i \in 1 .. Len(bits) PROVE add_max_8bits(bits, c)[i] = bits[i]
  <2>1. i \in 1 .. Len(bits) + c.n /\ ~ (i > Len(bits)) /\ Len(bits) - i \in Nat
    BY <1>1
  <2>2. BitOf(leak, Len(bits) - i) # 1
    BY <1>2, <1>3, <2>1
  <2>3. Bit(i) = bits[i]
    BY <2>1, <2>2, Zenon
  <2> HIDE DEF Bit
  <2> QED BY <1>4, <2>1, <2>3
<1>6. ASSUME NEW b \in 1 .. n PROVE add_max_8bits(bits, c)[Len(bits) + b] = BitOf(c.value, n - b)
  <2>1. /\ Len(bits) + b \in 1 .. Len(bits) + c.n /\ Len(bits) + b > Len(bits)
        /\ Len(bits) + c.n - (Len(bits) + b) = n - b
    BY <1>1
  <2>2. Bit(Len(bits) + b) = BitOf(c.value, n - b)
    BY <2>1, Zenon
  <2> HIDE DEF Bit
  <2> QED BY <1>4, <2>1, <2>2
<1> QED BY <1>5, <1>6

(* Every value of every document can be sent.                              *)
DocumentsSendable == \A d \in Documents : \A i \in 1 .. Len(d) : Sendable(d[i])

(* All fields of the first n values are in bits.                           *)
ValuesLie(bits, n) ==
  \A i \in 1 .. n : LiesIn(bits, Codes(document[i]), Starts[i - 1], Len(Codes(document[i])))

(* While the encoder runs: the values before the last one injected, and of *)
(* that the fields that are no longer pending.                             *)
Written ==
  /\ injected = 0 => pending = <<>> /\ stream = <<>>
  /\ injected # 0 =>
       LET codes == Codes(document[injected])
           sent  == Len(codes) - Len(pending)
       IN  /\ ValuesLie(stream, injected - 1)
           /\ Len(pending) <= Len(codes)
           /\ \A j \in 1 .. Len(pending) : pending[j] = codes[sent + j]
           /\ LiesIn(stream, codes, Starts[injected - 1], sent)
           /\ Len(stream) = Starts[injected - 1] + Ends(codes)[sent]

(* While the decoder runs: all values; the position is behind the values   *)
(* extracted, which are those of the document.                             *)
Read ==
  /\ ValuesLie(stream, Len(document))
  /\ Len(stream) = Starts[Len(document)]
  /\ Len(extracted) <= Len(document)
  /\ \A i \in 1 .. Len(extracted) : extracted[i] = document[i]
  /\ position = Starts[Len(extracted)]

(* The invariant. None of the values injected was refused, and all fields  *)
(* are where they belong.                                                  *)
WInv ==
  /\ IInv /\ TInv
  /\ \A i \in 1 .. injected : ~Throws(document[i])
  /\ side = "encoder" => Written
  /\ side \in {"decoder", "done"} => Read
  /\ side = "done" => Len(extracted) = Len(document)

(* What holds of the document throughout.                                  *)
LEMMA DocumentHas ==
  ASSUME DocumentsTyped, IInv
  PROVE  /\ Len(document) \in Nat
         /\ \A i \in 1 .. Len(document) : IsTyped(document[i]) /\ Codes(document[i]) \in Seq(Field)
         /\ Starts \in [0 .. Len(document) -> Nat]
         /\ Starts[0] = 0
         /\ \A i \in 1 .. Len(document) : Starts[i] = Starts[i - 1] + Bits(Codes(document[i]))
<1>1. Len(document) \in Nat /\ \A i \in 1 .. Len(document) : IsTyped(document[i])
  BY DEF DocumentsTyped, IInv
<1>2. \A i \in 1 .. Len(document) : Codes(document[i]) \in Seq(Field)
  BY <1>1, CodesFit
<1> QED BY <1>1, <1>2, StartsOf, Zenon

(* Nothing is written at first.                                            *)
LEMMA InitWritten == DocumentsTyped /\ Init => WInv
<1> SUFFICES ASSUME DocumentsTyped, Init PROVE WInv
  OBVIOUS
<1>1. IInv /\ TInv
  BY InitTyped, InitEstablishesIInv
<1>2. injected = 0 /\ pending = <<>> /\ stream = <<>> /\ side = "encoder"
  BY DEF Init
<1>3. Written
  BY <1>2, Zenon DEF Written
<1>4. 1 .. 0 = {}
  OBVIOUS
<1>5. side \notin {"decoder", "done"}
  BY <1>2
<1> QED BY <1>1, <1>2, <1>3, <1>4, <1>5 DEF WInv

(* When nothing is pending the last value injected is complete.            *)
LEMMA Complete ==
  ASSUME DocumentsTyped, WInv, side = "encoder", pending = <<>>
  PROVE  ValuesLie(stream, injected) /\ Len(stream) = Starts[injected]
<1>1. injected \in 0 .. Len(document) /\ Written
  BY DEF WInv, TInv
<1>2. /\ Len(document) \in Nat
      /\ \A i \in 1 .. Len(document) : Codes(document[i]) \in Seq(Field)
      /\ Starts \in [0 .. Len(document) -> Nat]
      /\ Starts[0] = 0
      /\ \A i \in 1 .. Len(document) : Starts[i] = Starts[i - 1] + Bits(Codes(document[i]))
  BY DocumentHas DEF WInv
<1>3. CASE injected = 0
  <2>1. 1 .. 0 = {} /\ Len(<<>>) = 0
    OBVIOUS
  <2>2. stream = <<>>
    BY <1>1, <1>3 DEF Written
  <2> QED BY <1>2, <1>3, <2>1, <2>2 DEF ValuesLie
<1>4. CASE injected # 0
  <2> DEFINE codes == Codes(document[injected])
  <2>1. injected \in 1 .. Len(document) /\ Len(pending) = 0
    BY <1>1, <1>2, <1>4
  <2>2. codes \in Seq(Field) /\ Len(codes) \in Nat
    BY <1>2, <2>1, LenProperties
  <2>3. Len(codes) - Len(pending) = Len(codes)
    BY <2>1, <2>2
  <2>4. /\ ValuesLie(stream, injected - 1)
        /\ LiesIn(stream, codes, Starts[injected - 1], Len(codes))
        /\ Len(stream) = Starts[injected - 1] + Ends(codes)[Len(codes)]
    BY <1>1, <1>4, <2>3, Zenon DEF Written
  <2>5. Len(stream) = Starts[injected]
    BY <1>2, <2>1, <2>4 DEF Bits
  <2>6. ASSUME NEW i \in 1 .. injected
        PROVE  LiesIn(stream, Codes(document[i]), Starts[i - 1], Len(Codes(document[i])))
    <3>1. i \in 1 .. injected - 1 \/ i = injected
      BY <2>1
    <3>2. CASE i = injected
      BY <2>4, <3>2, Zenon
    <3>3. CASE i \in 1 .. injected - 1
      BY <2>4, <3>3, Zenon DEF ValuesLie
    <3> QED BY <3>1, <3>2, <3>3
  <2> QED BY <2>5, <2>6, Zenon DEF ValuesLie
<1> QED BY <1>3, <1>4

(* A value injected, none of whose fields is written yet.                  *)
LEMMA InjectWritten ==
  ASSUME DocumentsTyped, WInv, Inject
  PROVE  WInv'
<1>1. side = "encoder" /\ pending = <<>> /\ injected < Len(document)
  BY Zenon DEF Inject, injectBoolValue, encode_enum, injectString, injectIntegerNumber, injectNBitNumber,
     injectHexBin, injectBase64Value, Injects
<1>2. IInv' /\ TInv'
  BY NextKeepsIInv, NextTyped, Zenon DEF WInv, Next
<1>3. /\ Len(document) \in Nat
      /\ \A i \in 1 .. Len(document) : IsTyped(document[i]) /\ Codes(document[i]) \in Seq(Field)
      /\ Starts \in [0 .. Len(document) -> Nat]
  BY DocumentHas DEF WInv
<1>4. injected \in Nat /\ injected + 1 \in 1 .. Len(document)
  BY <1>1, <1>3 DEF WInv, TInv
<1>5. CASE Throw
  <2>1. side' = "thrown" /\ document' = document /\ injected' = injected
    BY <1>5 DEF Throw
  <2>2. side' \notin {"encoder", "decoder", "done"}
    BY <2>1
  <2> QED BY <1>2, <2>1, <2>2 DEF WInv
<1>6. CASE Calls(Codes(Injected)) /\ ~Throws(Injected)
  <2> DEFINE codes == Codes(document[injected + 1])
  <2>1. /\ document' = document /\ side' = side /\ stream' = stream
        /\ pending' = codes /\ injected' = injected + 1
    BY <1>6 DEF Calls, Injected
  <2>2. \A i \in 1 .. injected + 1 : ~Throws(document[i])
    <3>1. \A i \in 1 .. injected + 1 : i \in 1 .. injected \/ i = injected + 1
      BY <1>4
    <3>2. ~Throws(document[injected + 1])
      BY <1>6 DEF Injected
    <3> QED BY <3>1, <3>2 DEF WInv
  <2>3. ValuesLie(stream, injected) /\ Len(stream) = Starts[injected]
    BY <1>1, Complete
  <2>4. codes \in Seq(Field) /\ Len(codes) \in Nat /\ Ends(codes)[0] = 0
    BY <1>3, <1>4, CodeEnds
  <2> HIDE DEF codes
  <2>5. Len(codes) - Len(codes) = 0 /\ (injected + 1) - 1 = injected /\ injected + 1 # 0
    BY <1>4, <2>4
  <2>6. Starts[injected] \in Nat
    BY <1>3, <1>4
  <2>7. /\ Len(codes) <= Len(codes)
        /\ \A j \in 1 .. Len(codes) : codes[j] = codes[0 + j]
        /\ Starts[injected] + 0 = Starts[injected]
    BY <2>4, <2>6
  <2>8. LiesIn(stream, codes, Starts[injected], 0)
    <3>1. 1 .. 0 = {}
      OBVIOUS
    <3> QED BY <3>1 DEF LiesIn
  <2>9. Written'
    <3>1. Starts' = Starts
      BY <2>1 DEF Starts
    <3> QED BY <2>1, <2>3, <2>4, <2>5, <2>7, <2>8, <3>1 DEF Written, ValuesLie, codes
  <2>10. side' \notin {"decoder", "done"}
    BY <1>1, <2>1
  <2> QED BY <1>2, <2>1, <2>2, <2>9, <2>10 DEF WInv
<1> QED BY <1>1, <1>3, <1>4, <1>5, <1>6, InjectCalls DEF Injected

(* A field added behind those before it.                                   *)
LEMMA AddWritten ==
  ASSUME DocumentsTyped, WInv, Add
  PROVE  WInv'
<1> DEFINE codes == Codes(document[injected])
           sent  == Len(codes) - Len(pending)
           c     == Head(pending)
           p     == Starts[injected - 1]
<1>1. side = "encoder" /\ pending # <<>>
  BY DEF Add
<1>2. IInv' /\ TInv'
  BY NextKeepsIInv, NextTyped, Zenon DEF WInv, Next
<1>3. /\ Len(document) \in Nat
      /\ \A i \in 1 .. Len(document) : Codes(document[i]) \in Seq(Field)
      /\ Starts \in [0 .. Len(document) -> Nat]
  BY DocumentHas DEF WInv
<1>4. injected \in 1 .. Len(document)
  <2>1. injected \in 0 .. Len(document) /\ injected # 0
    BY <1>1 DEF WInv, TInv, Written
  <2> QED BY <1>3, <2>1
<1>5. /\ ValuesLie(stream, injected - 1)
      /\ Len(pending) <= Len(codes)
      /\ \A j \in 1 .. Len(pending) : pending[j] = codes[sent + j]
      /\ LiesIn(stream, codes, p, sent)
      /\ Len(stream) = p + Ends(codes)[sent]
  <2>1. Written /\ injected # 0
    BY <1>1, <1>4 DEF WInv
  <2> QED BY <2>1, Zenon DEF Written
<1>6. /\ codes \in Seq(Field) /\ Len(codes) \in Nat
      /\ Ends(codes) \in [0 .. Len(codes) -> Nat]
      /\ \A j \in 1 .. Len(codes) : Ends(codes)[j] = Ends(codes)[j - 1] + codes[j].n
  BY <1>3, <1>4, CodeEnds
<1>7. pending \in Seq(Field) /\ stream \in Seq({0, 1}) /\ p \in Nat
  <2>1. injected - 1 \in 0 .. Len(document)
    BY <1>3, <1>4
  <2> QED BY <1>3, <2>1 DEF WInv, IInv, TInv
<1>8. /\ Len(pending) \in Nat /\ Len(pending) >= 1 /\ c = pending[1] /\ c \in Field
      /\ Tail(pending) \in Seq(Field) /\ Len(Tail(pending)) = Len(pending) - 1
      /\ \A j \in 1 .. Len(pending) - 1 : Tail(pending)[j] = pending[j + 1]
  <2>1. Len(pending) \in Nat /\ Len(pending) >= 1 /\ c = pending[1]
    BY <1>1, <1>7
  <2>2. c \in Field
    BY <1>7, <2>1, ElementOfSeq
  <2>3. /\ Tail(pending) \in Seq(Field) /\ Len(Tail(pending)) = Len(pending) - 1
        /\ \A j \in 1 .. Len(pending) - 1 : Tail(pending)[j] = pending[j + 1]
    BY <1>1, <1>7
  <2> QED BY <2>1, <2>2, <2>3
<1>9. /\ stream' = add_max_8bits(stream, c) /\ pending' = Tail(pending)
      /\ UNCHANGED <<document, side, injected, position, extracted>>
  <2>1. c.n \in 1 .. 8
    BY <1>8 DEF Field
  <2> QED BY <2>1 DEF Add
<1> HIDE DEF codes, c, p
<1>10. sent \in 0 .. Len(codes) /\ sent + 1 \in 1 .. Len(codes) /\ codes[sent + 1] = c
  <2>1. sent \in 0 .. Len(codes) /\ sent + 1 \in 1 .. Len(codes) /\ 1 \in 1 .. Len(pending)
    BY <1>5, <1>6, <1>8
  <2> QED BY <1>5, <1>8, <2>1
<1>11. Len(codes) - Len(Tail(pending)) = sent + 1
  BY <1>6, <1>8
<1>12. \A j \in 1 .. Len(Tail(pending)) : Tail(pending)[j] = codes[(sent + 1) + j]
  <2> SUFFICES ASSUME NEW j \in 1 .. Len(Tail(pending)) PROVE Tail(pending)[j] = codes[(sent + 1) + j]
    OBVIOUS
  <2>1. j \in 1 .. Len(pending) - 1 /\ j + 1 \in 1 .. Len(pending) /\ sent + (j + 1) = (sent + 1) + j
    BY <1>6, <1>8, <1>10
  <2> QED BY <1>5, <1>8, <2>1
<1> HIDE DEF sent
<1> DEFINE more == add_max_8bits(stream, c)
<1>13. /\ more \in Seq({0, 1}) /\ Len(more) = Len(stream) + c.n /\ Len(stream) \in Nat /\ Len(more) \in Nat
       /\ c.n \in Nat /\ Len(stream) <= Len(more)
       /\ \A i \in 1 .. Len(stream) : more[i] = stream[i]
       /\ \A b \in 1 .. c.n : more[Len(stream) + b] = BitOf(c.value, c.n - b)
  <2>1. more \in Seq({0, 1}) /\ Len(more) = Len(stream) + c.n
    BY <1>7, <1>8, AddedBits
  <2>2. /\ \A i \in 1 .. Len(stream) : more[i] = stream[i]
        /\ \A b \in 1 .. c.n : more[Len(stream) + b] = BitOf(c.value, c.n - b)
    BY <1>7, <1>8, FieldAdded
  <2>3. Len(stream) \in Nat /\ c.n \in Nat
    <3>1. c.n \in 1 .. 8
      BY <1>8 DEF Field
    <3> QED BY <1>7, <3>1, LenProperties
  <2> HIDE DEF more
  <2>4. Len(more) \in Nat /\ Len(stream) <= Len(more)
    BY <2>1, <2>3
  <2> QED BY <2>1, <2>2, <2>3, <2>4
<1> HIDE DEF more
<1>14. ValuesLie(more, injected - 1)
  <2> SUFFICES ASSUME NEW i \in 1 .. injected - 1
               PROVE  LiesIn(more, Codes(document[i]), Starts[i - 1], Len(Codes(document[i])))
    BY DEF ValuesLie
  <2>1. i \in 1 .. Len(document) /\ i - 1 \in 0 .. Len(document)
    BY <1>3, <1>4
  <2>2. Codes(document[i]) \in Seq(Field) /\ Starts[i - 1] \in Nat
    BY <1>3, <2>1
  <2>3. Len(Codes(document[i])) \in 0 .. Len(Codes(document[i]))
    BY <2>2, CodeEnds
  <2>4. LiesIn(stream, Codes(document[i]), Starts[i - 1], Len(Codes(document[i])))
    BY <1>5 DEF ValuesLie
  <2> QED BY <1>13, <2>2, <2>3, <2>4, StillLiesIn, Zenon
<1>15. LiesIn(more, codes, p, sent)
  BY <1>5, <1>6, <1>7, <1>10, <1>13, StillLiesIn, Zenon
<1>16. LiesIn(more, codes, p, sent + 1)
  <2> SUFFICES ASSUME NEW j \in 1 .. sent + 1
               PROVE  /\ p + Ends(codes)[j - 1] + codes[j].n <= Len(more)
                      /\ \A b \in 1 .. codes[j].n :
                           more[p + Ends(codes)[j - 1] + b] = BitOf(codes[j].value, codes[j].n - b)
    BY DEF LiesIn
  <2>1. j \in 1 .. sent \/ j = sent + 1
    BY <1>10
  <2>2. CASE j \in 1 .. sent
    BY <1>15, <2>2, Zenon DEF LiesIn
  <2>3. CASE j = sent + 1
    <3>1. j - 1 = sent /\ codes[j] = c
      BY <1>10, <2>3
    <3>2. p + Ends(codes)[j - 1] = Len(stream)
      BY <1>5, <3>1
    <3>3. Len(stream) + c.n <= Len(more)
      BY <1>13
    <3> QED BY <1>13, <3>1, <3>2, <3>3, Zenon
  <2> QED BY <2>1, <2>2, <2>3
<1>17. Len(more) = p + Ends(codes)[sent + 1]
  <2>1. (sent + 1) - 1 = sent /\ Ends(codes)[sent] \in Nat
    BY <1>6, <1>10
  <2>2. Ends(codes)[sent + 1] = Ends(codes)[sent] + c.n
    BY <1>6, <1>10, <2>1
  <2> QED BY <1>5, <1>7, <1>13, <2>1, <2>2
<1>18. Written'
  <2>1. /\ document' = document /\ injected' = injected /\ stream' = more /\ pending' = Tail(pending)
        /\ Starts' = Starts
    BY <1>9 DEF Starts, more
  <2>2. injected # 0
    BY <1>4
  <2>3. Len(Tail(pending)) <= Len(codes)
    BY <1>5, <1>6, <1>8
  <2> QED BY <1>11, <1>12, <1>14, <1>16, <1>17, <2>1, <2>2, <2>3 DEF Written, ValuesLie, codes, p
<1>19. side' \notin {"decoder", "done"}
  BY <1>1, <1>9
<1> QED BY <1>2, <1>9, <1>18, <1>19 DEF WInv

(* The stream taken over by the decoder.                                   *)
LEMMA EncodedRead ==
  ASSUME DocumentsTyped, WInv, Encoded
  PROVE  WInv'
<1>1. /\ side = "encoder" /\ pending = <<>> /\ injected = Len(document) /\ side' = "decoder"
      /\ UNCHANGED <<document, injected, pending, stream, position, extracted>>
  BY DEF Encoded
<1>2. IInv' /\ TInv'
  BY NextKeepsIInv, NextTyped, Zenon DEF WInv, Next
<1>3. ValuesLie(stream, Len(document)) /\ Len(stream) = Starts[Len(document)]
  BY <1>1, Complete
<1>4. extracted = <<>> /\ position = 0
  BY <1>1 DEF WInv, TInv
<1>5. Starts[0] = 0 /\ Len(document) \in Nat
  BY DocumentHas DEF WInv
<1>6. Len(<<>>) = 0 /\ 1 .. 0 = {}
  OBVIOUS
<1>7. Read
  BY <1>3, <1>4, <1>5, <1>6 DEF Read
<1>8. Read'
  BY <1>1, <1>7 DEF Read, ValuesLie, Starts
<1> QED BY <1>1, <1>2, <1>8 DEF WInv

(* The next value read off the fields at the position.                     *)
LEMMA ExtractStep ==
  ASSUME DocumentsTyped, DocumentsSendable, WInv, Extract
  PROVE  /\ side = "decoder" /\ Len(extracted) \in Nat /\ Len(extracted) < Len(document)
         /\ extracted' = Append(extracted, Extracted)
         /\ position' = position + Bits(Codes(Extracted))
         /\ UNCHANGED <<document, side, injected, pending, stream>>
<1> DEFINE i == Len(extracted) + 1
<1>1. side = "decoder" /\ Len(extracted) < Len(document)
  BY Zenon DEF Extract, extractBoolValue, decode_enum, extractString, extractIntegerNumber,
     extractNBitNumber, extractHexBin, extractBase64Value, Extracts
<1>2. /\ Len(document) \in Nat
      /\ \A j \in 1 .. Len(document) : IsTyped(document[j]) /\ Codes(document[j]) \in Seq(Field)
      /\ Starts \in [0 .. Len(document) -> Nat]
  BY DocumentHas DEF WInv
<1>3. Read /\ injected = Len(document)
  BY <1>1 DEF WInv, TInv
<1>4. Len(extracted) \in Nat
  BY DEF WInv, TInv
<1>5. i \in 1 .. Len(document) /\ i - 1 = Len(extracted) /\ Extracted = document[i]
  BY <1>1, <1>2, <1>4 DEF Extracted
<1> HIDE DEF i
<1>6. IsTyped(Extracted) /\ Sendable(Extracted) /\ ~Throws(Extracted)
  <2>1. Sendable(document[i])
    BY <1>5 DEF DocumentsSendable, WInv, IInv
  <2> QED BY <1>2, <1>3, <1>5, <2>1 DEF WInv
<1>7. Follow(Codes(Extracted)) /\ position \in Nat
  <2>1. LiesIn(stream, Codes(document[i]), Starts[i - 1], Len(Codes(document[i])))
    BY <1>3, <1>5 DEF Read, ValuesLie
  <2>2. position = Starts[i - 1] /\ position \in Nat
    BY <1>3, <1>5 DEF Read, WInv, TInv
  <2> QED BY <1>5, <2>1, <2>2, Zenon DEF LiesIn, Follow, FieldAt
<1>8. Returns(Extracted.value, Bits(Codes(Extracted)))
  BY <1>6, <1>7, ExtractedRight
<1>9. [Extracted EXCEPT !.value = Extracted.value] = Extracted
  BY <1>6, SameValue
<1> QED BY <1>1, <1>4, <1>8, <1>9, Zenon DEF Returns

(* The value extracted is the next one of the document, and the position   *)
(* behind its fields is where the next one starts.                         *)
LEMMA ExtractRead ==
  ASSUME DocumentsTyped, DocumentsSendable, WInv, Extract
  PROVE  WInv'
<1> DEFINE i == Len(extracted) + 1
<1>1. /\ side = "decoder" /\ Len(extracted) \in Nat /\ Len(extracted) < Len(document)
      /\ extracted' = Append(extracted, Extracted)
      /\ position' = position + Bits(Codes(Extracted))
      /\ UNCHANGED <<document, side, injected, pending, stream>>
  BY ExtractStep
<1>2. IInv' /\ TInv'
  BY NextKeepsIInv, NextTyped, Zenon DEF WInv, Next
<1>3. /\ Len(document) \in Nat
      /\ \A j \in 1 .. Len(document) : Starts[j] = Starts[j - 1] + Bits(Codes(document[j]))
  BY DocumentHas DEF WInv
<1>4. Read
  BY <1>1 DEF WInv
<1>5. i \in 1 .. Len(document) /\ i - 1 = Len(extracted) /\ Extracted = document[i]
  BY <1>1, <1>3 DEF Extracted
<1>6. PICK S : extracted \in Seq(S)
  BY DEF WInv, TInv
<1>7. /\ Len(extracted') = i
      /\ \A j \in 1 .. Len(extracted) : extracted'[j] = extracted[j]
      /\ extracted'[i] = document[i]
  <2> DEFINE S1 == S \cup {document[i]}
  <2>1. extracted \in Seq(S1)
    <3>1. \A j \in 1 .. Len(extracted) : extracted[j] \in S1
      BY <1>6, ElementOfSeq
    <3>2. extracted = [j \in 1 .. Len(extracted) |-> extracted[j]]
      BY <1>6
    <3> HIDE DEF S1
    <3> DEFINE same == [j \in 1 .. Len(extracted) |-> extracted[j]]
    <3>3. same \in Seq(S1)
      BY <1>1, <3>1
    <3> HIDE DEF same
    <3> QED BY <3>2, <3>3 DEF same
  <2>2. document[i] \in S1
    OBVIOUS
  <2> HIDE DEF S1
  <2>3. extracted' = Append(extracted, document[i])
    BY <1>1, <1>5
  <2> QED BY <1>5, <2>1, <2>2, <2>3, AppendProperties
<1> HIDE DEF i
<1>8. \A j \in 1 .. i : extracted'[j] = document[j]
  <2>1. \A j \in 1 .. i : j \in 1 .. Len(extracted) \/ j = i
    BY <1>1, <1>5
  <2> QED BY <1>4, <1>7, <2>1 DEF Read
<1>9. position' = Starts[i]
  BY <1>1, <1>3, <1>4, <1>5 DEF Read
<1>10. i <= Len(document)
  BY <1>3, <1>5
<1>11. Starts' = Starts
  BY <1>1 DEF Starts
<1>12. Read'
  BY <1>1, <1>4, <1>7, <1>8, <1>9, <1>10, <1>11 DEF Read, ValuesLie
<1> QED BY <1>1, <1>2, <1>12 DEF WInv

(* All steps keep the fields where they are.                               *)
LEMMA NextKeepsWInv ==
  ASSUME DocumentsTyped, DocumentsSendable, WInv, [Next]_vars
  PROVE  WInv'
<1>1. IInv' /\ TInv'
  BY NextKeepsIInv, NextTyped, Zenon DEF WInv
<1>2. CASE Decoded
  <2>1. /\ side = "decoder" /\ Len(extracted) = Len(document) /\ side' = "done"
        /\ UNCHANGED <<document, injected, pending, stream, position, extracted>>
    BY <1>2 DEF Decoded
  <2>2. Read'
    BY <2>1 DEF WInv, Read, ValuesLie, Starts
  <2> QED BY <1>1, <2>1, <2>2 DEF WInv
<1>3. CASE Ended \/ UNCHANGED vars
  BY <1>1, <1>3 DEF Ended, vars, WInv, Written, Read, ValuesLie, Starts
<1> QED BY <1>2, <1>3, InjectWritten, AddWritten, EncodedRead, ExtractRead, Zenon DEF Next

(* A decoder that has extracted every value has read every bit of the      *)
(* stream: the extract functions of base_types.cpp consume exactly the     *)
(* bits that the inject functions wrote, for any number of values of any   *)
(* types that the encodings can carry, in any order, from whatever bit of  *)
(* a byte each starts.                                                     *)
THEOREM EverythingIsAlwaysRead ==
  ASSUME DocumentsTyped, DocumentsSendable
  PROVE  Spec => []EverythingIsRead
<1>1. Init => WInv
  BY InitWritten
<1>2. WInv /\ [Next]_vars => WInv'
  BY NextKeepsWInv
<1>3. WInv => EverythingIsRead
  BY DEF WInv, Read, EverythingIsRead
<1> QED BY <1>1, <1>2, <1>3, PTL DEF Spec

(* The initial state, and each step, of Transfer.                          *)
LEMMA InitTransfers == Init => Transferred!Init
  BY DEF Init, Transferred!Init

(* A text that an inject function refuses is none of its type: a base64    *)
(* text that is sent has characters, so the length is no multiple of four. *)
LEMMA RefusedIsInvalid ==
  ASSUME NEW v, Sendable(v), Throws(v)
  PROVE  ~IsValid(v)
<1>1. CASE ~v.known
  BY <1>1 DEF IsValid
<1>2. CASE v.kind = "xs:base64Binary" /\ (Len(v.value) % 4 # 0 \/ Len(v.value) = 0)
  <2>1. Len(v.value) \in 1 .. 340
    BY <1>2 DEF Sendable
  <2>2. \A n \in 1 .. 340 : n # 0
    OBVIOUS
  <2>3. Len(v.value) # 0
    BY <2>1, <2>2, Zenon
  <2> QED BY <1>2, <2>3, Zenon DEF IsValid
<1> QED BY <1>1, <1>2, Zenon DEF Throws

(* An extract function delivers the next value; an inject function throws  *)
(* only for a text that its type does not know, before anything is         *)
(* delivered; the other steps are not visible.                             *)
LEMMA StepTransfers ==
  ASSUME DocumentsTyped, DocumentsSendable, WInv, [Next]_vars
  PROVE  [Transferred!Next]_(Transferred!vars)
<1> DEFINE allowed == \A i \in DOMAIN document : IsValid(document[i])
<1>1. CASE Extract
  <2>1. /\ side = "decoder" /\ Len(extracted) \in Nat /\ Len(extracted) < Len(document)
        /\ extracted' = Append(extracted, Extracted)
        /\ UNCHANGED <<document, side, injected, pending, stream>>
    BY <1>1, ExtractStep
  <2>2. (side = "thrown") = FALSE /\ (side = "thrown")' = (side = "thrown") /\ allowed' = allowed
    BY <2>1
  <2>3. Transferred!Deliver
    BY <2>1, <2>2 DEF Transferred!Deliver, Extracted
  <2> QED BY <2>3 DEF Transferred!Next
<1>2. CASE Inject
  <2>1. side = "encoder" /\ injected < Len(document)
    BY <1>2, Zenon DEF Inject, injectBoolValue, encode_enum, injectString, injectIntegerNumber,
       injectNBitNumber, injectHexBin, injectBase64Value, Injects
  <2>2. injected + 1 \in 1 .. Len(document) /\ DOMAIN document = 1 .. Len(document) /\ document \in Documents
    <3>1. injected \in Nat /\ Len(document) \in Nat /\ DOMAIN document = 1 .. Len(document)
      BY DEF WInv, IInv, DocumentsTyped
    <3> QED BY <2>1, <3>1 DEF WInv, IInv
  <2>3. IsTyped(Injected) /\ Sendable(Injected) /\ injected + 1 \in DOMAIN document
    BY <2>2 DEF DocumentsTyped, DocumentsSendable, Injected
  <2>4. CASE Throw /\ Throws(Injected)
    <3>1. /\ extracted = <<>> /\ side' = "thrown"
          /\ UNCHANGED <<document, injected, pending, stream, position, extracted>>
      BY <2>1, <2>4 DEF WInv, TInv, Throw
    <3>2. ~IsValid(Injected)
      BY <2>3, <2>4, RefusedIsInvalid
    <3>3. ~allowed
      BY <2>3, <3>2 DEF Injected
    <3>4. UNCHANGED allowed /\ (side = "thrown")' = TRUE
      BY <3>1
    <3>5. Transferred!Refuse
      <4> HIDE DEF allowed
      <4> QED BY <3>1, <3>3, <3>4 DEF Transferred!Refuse, allowed
    <3> QED BY <3>5 DEF Transferred!Next
  <2>5. CASE Calls(Codes(Injected))
    BY <2>1, <2>5 DEF Calls, Transferred!vars
  <2> QED BY <1>2, <2>1, <2>3, <2>4, <2>5, InjectCalls
<1>3. CASE Add
  <2>1. Head(pending) \in Field
    BY <1>3, HeadTailProperties DEF Add, WInv, IInv
  <2>2. Head(pending).n \in 1 .. 8
    BY <2>1 DEF Field
  <2> QED BY <1>3, <2>2 DEF Add, Transferred!vars
<1>4. CASE Encoded \/ Decoded \/ Ended \/ UNCHANGED vars
  BY <1>4 DEF Encoded, Decoded, Ended, vars, Transferred!vars
<1> QED BY <1>1, <1>2, <1>3, <1>4 DEF Next

(* The class implements Transfer, but for its fairness: the values that    *)
(* the extract functions of base_types.cpp return are those that were      *)
(* given to the inject functions, in order, and a document is refused only *)
(* if one of its texts is none of its type. The hypothesis that a value is *)
(* Sendable leaves out the hexBinary values of 7, 11, ..., 127 bytes that  *)
(* get_next_n_bits garbles.                                                *)
THEOREM Transfers ==
  ASSUME DocumentsTyped, DocumentsSendable
  PROVE  Spec => Transferred!Init /\ [][Transferred!Next]_(Transferred!vars)
<1>1. Init => WInv
  BY InitWritten
<1>2. WInv /\ [Next]_vars => WInv'
  BY NextKeepsWInv
<1>3. WInv /\ [Next]_vars => [Transferred!Next]_(Transferred!vars)
  BY StepTransfers
<1> QED BY <1>1, <1>2, <1>3, InitTransfers, PTL DEF Spec
=============================================================================
