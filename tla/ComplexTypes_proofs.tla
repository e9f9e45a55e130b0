-------------------------- MODULE ComplexTypes_proofs --------------------------
(***************************************************************************)
(* Proofs about the generated functions of ComplexTypes: type correctness, *)
(* and that every event code of the encoder has the number of bits that    *)
(* its value needs, whatever the types of the schema are.                  *)
(*                                                                         *)
(* The first parts are about what the generator computes: the elements in  *)
(* their order, the table of a blob, counter_value, the widths of codes    *)
(* and the statements of a type.  The last two are about the functions     *)
(* that these statements make up.                                          *)
(***************************************************************************)
EXTENDS ComplexTypes, Induction, SequenceTheorems, FiniteSetTheorems, TLAPS

(* Short sequences do not make a long one.                                 *)
LEMMA FlattenLength ==
  ASSUME NEW S, NEW seqs \in Seq(Seq(S)), \A i \in 1 .. Len(seqs) : Len(seqs[i]) <= 15
  PROVE  Len(FlattenSeq(seqs)) <= 15 * Len(seqs)
<1> DEFINE n == Len(seqs)
           U(k) == Len(Upto(seqs, k))
           T == {k \in Nat : k \in 0 .. n => U(k) <= 15 * k}
<1>1. n \in Nat
  OBVIOUS
<1>2. U(0) = 0
  <2>1. Upto(seqs, 0) = <<>> /\ Len(<<>>) = 0
    BY UptoIn
  <2> QED BY <2>1
<1>3. 0 \in T
  BY <1>2
<1>4. ASSUME NEW k \in Nat, k \in T PROVE k + 1 \in T
  <2>1. SUFFICES ASSUME k + 1 \in 0 .. n PROVE U(k + 1) <= 15 * (k + 1)
    <3> HIDE DEF U
    <3> QED OBVIOUS
  <2>2. k \in 0 .. n /\ k < n /\ k + 1 \in 1 .. n
    BY <1>1, <2>1
  <2>3. Upto(seqs, k) \in Seq(S) /\ seqs[k + 1] \in Seq(S)
    BY <2>2, UptoIn, ElementOfSeq
  <2>4. Upto(seqs, k + 1) = Upto(seqs, k) \o seqs[k + 1]
    BY <2>2, <2>3, UptoStep
  <2> DEFINE x == Len(seqs[k + 1])
  <2>5. U(k) \in Nat /\ x \in Nat /\ U(k + 1) = U(k) + x /\ x <= 15 /\ U(k) <= 15 * k
    BY <1>4, <2>2, <2>3, <2>4, ConcatProperties
  <2> HIDE DEF U, x
  <2> QED BY <2>5
<1>5. \A k \in Nat : k \in T
  <2> HIDE DEF T
  <2> QED BY <1>3, <1>4, Induction
<1>6. U(n) <= 15 * n
  <2>1. n \in 0 .. n
    BY <1>1
  <2> HIDE DEF U, n
  <2> QED BY <1>1, <1>5, <2>1
<1> QED
  BY <1>6, UptoIn

(***************************************************************************)
(* Elements.                                                               *)
(***************************************************************************)
(* The sequences that OfKinds makes flat.                                  *)
PartsOf(es, kinds) == [i \in DOMAIN es |-> IF es[i].kind \in kinds THEN <<es[i]>> ELSE <<>>]

(* They are sequences of elements, one element or none each.               *)
LEMMA PartsAreSequences ==
  ASSUME NEW es \in Seq(Elements), NEW kinds
  PROVE  /\ PartsOf(es, kinds) \in Seq(Seq(Elements))
         /\ Len(PartsOf(es, kinds)) = Len(es)
         /\ \A i \in 1 .. Len(es) : /\ es[i].kind \in kinds => PartsOf(es, kinds)[i] = <<es[i]>>
                                    /\ es[i].kind \notin kinds => PartsOf(es, kinds)[i] = <<>>
         /\ OfKinds(es, kinds) = FlattenSeq(PartsOf(es, kinds))
<1>1. DOMAIN es = 1 .. Len(es) /\ Len(es) \in Nat
  OBVIOUS
<1>2. ASSUME NEW i \in DOMAIN es
      PROVE  (IF es[i].kind \in kinds THEN <<es[i]>> ELSE <<>>) \in Seq(Elements)
  <2>1. es[i] \in Elements
    BY <1>1, ElementOfSeq
  <2> HIDE DEF Elements
  <2> QED BY <2>1
<1>3. PartsOf(es, kinds) \in [1 .. Len(es) -> Seq(Elements)]
  BY <1>1, <1>2 DEF PartsOf
<1>4. PartsOf(es, kinds) \in Seq(Seq(Elements)) /\ Len(PartsOf(es, kinds)) = Len(es)
  BY <1>1, <1>3
<1>5. OfKinds(es, kinds) = FlattenSeq(PartsOf(es, kinds))
  BY DEF OfKinds, PartsOf
<1>6. ASSUME NEW i \in 1 .. Len(es)
      PROVE  /\ es[i].kind \in kinds => PartsOf(es, kinds)[i] = <<es[i]>>
             /\ es[i].kind \notin kinds => PartsOf(es, kinds)[i] = <<>>
  BY <1>1 DEF PartsOf
<1> QED
  BY <1>4, <1>5, <1>6

(* The elements of these kinds are elements of the blob; the last of them  *)
(* alone may be its last.                                                  *)
LEMMA OfKindsFrom ==
  ASSUME NEW es \in Seq(Elements), NEW kinds
  PROVE  /\ OfKinds(es, kinds) \in Seq(Elements)
         /\ \A q \in 1 .. Len(OfKinds(es, kinds)) :
              \E j \in 1 .. Len(es) : /\ OfKinds(es, kinds)[q] = es[j]
                                      /\ es[j].kind \in kinds
                                      /\ q < Len(OfKinds(es, kinds)) => j < Len(es)
<1> DEFINE parts == PartsOf(es, kinds)
           n == Len(es)
<1>1. /\ parts \in Seq(Seq(Elements)) /\ Len(parts) = n /\ n \in Nat
      /\ \A i \in 1 .. n : /\ es[i].kind \in kinds => parts[i] = <<es[i]>>
                           /\ es[i].kind \notin kinds => parts[i] = <<>>
      /\ OfKinds(es, kinds) = FlattenSeq(parts)
  BY PartsAreSequences
<1> HIDE DEF parts, n
<1>2. OfKinds(es, kinds) \in Seq(Elements)
  BY <1>1, FlattenIn
<1>3. ASSUME NEW q \in 1 .. Len(FlattenSeq(parts))
      PROVE  \E j \in 1 .. n : /\ FlattenSeq(parts)[q] = es[j]
                               /\ es[j].kind \in kinds
                               /\ q < Len(FlattenSeq(parts)) => j < n
  <2>1. PICK k \in 1 .. Len(parts) :
           /\ q \in Len(Upto(parts, k - 1)) + 1 .. Len(Upto(parts, k))
           /\ FlattenSeq(parts)[q] = parts[k][q - Len(Upto(parts, k - 1))]
           /\ q - Len(Upto(parts, k - 1)) \in 1 .. Len(parts[k])
    BY <1>1, FlattenFrom
  <2>2. k \in 1 .. n
    BY <1>1, <2>1
  <2>3. es[k].kind \in kinds
    <3>1. ASSUME parts[k] = <<>> PROVE FALSE
      <4>1. Len(parts[k]) = 0
        BY <3>1
      <4> QED BY <2>1, <4>1
    <3> QED BY <1>1, <2>2, <3>1
  <2>4. parts[k] = <<es[k]>> /\ Len(parts[k]) = 1
    <3>1. parts[k] = <<es[k]>>
      BY <1>1, <2>2, <2>3
    <3>2. \A x : Len(<<x>>) = 1
      OBVIOUS
    <3> QED BY <3>1, <3>2
  <2>5. q - Len(Upto(parts, k - 1)) = 1
    BY <2>1, <2>4
  <2>6. FlattenSeq(parts)[q] = es[k]
    BY <2>1, <2>4, <2>5
  <2>7. ASSUME q < Len(FlattenSeq(parts)), k = n PROVE FALSE
    <3>1. k - 1 \in Nat /\ k - 1 < Len(parts) /\ k - 1 + 1 = k /\ k - 1 \in 0 .. Len(parts)
      BY <1>1, <2>2
    <3>2. Upto(parts, k - 1) \in Seq(Elements)
      BY <1>1, <3>1, UptoIn
    <3>3. Upto(parts, k) = Upto(parts, k - 1) \o parts[k]
      <4>1. Upto(parts, (k - 1) + 1) = Upto(parts, k - 1) \o parts[(k - 1) + 1]
        BY <1>1, <3>1, <3>2, UptoStep
      <4> QED BY <3>1, <4>1
    <3>4. Len(Upto(parts, k)) = Len(Upto(parts, k - 1)) + 1
      <4>1. parts[k] \in Seq(Elements)
        BY <1>1, <2>2, ElementOfSeq
      <4> QED BY <3>2, <3>3, <2>4, <4>1, ConcatProperties
    <3>5. Upto(parts, k) = FlattenSeq(parts)
      BY <1>1, <2>7, UptoIn
    <3>6. Len(Upto(parts, k - 1)) \in Nat
      BY <3>2
    <3> QED BY <2>5, <2>7, <3>4, <3>5, <3>6
  <2>8. q < Len(FlattenSeq(parts)) => k < n
    BY <1>1, <2>2, <2>7
  <2> QED
    BY <2>2, <2>3, <2>6, <2>8
<1> QED
  BY <1>1, <1>2, <1>3 DEF n

(* Sorting makes no blob longer.                                           *)
LEMMA SortedLength ==
  ASSUME NEW es \in Seq(Elements)
  PROVE  Len(sort_optional_and_abstract_elements(es)) <= Len(es)
<1> DEFINE pa == PartsOf(es, {"attribute"})
           pb == PartsOf(es, {"simple", "complex"})
           pc == PartsOf(es, {"any"})
           n == Len(es)
           Sum(k) == Len(Upto(pa, k)) + Len(Upto(pb, k)) + Len(Upto(pc, k))
           T == {k \in Nat : k \in 0 .. n => Sum(k) <= k}
<1>0. n \in Nat
  OBVIOUS
<1>1. /\ pa \in Seq(Seq(Elements)) /\ Len(pa) = n
      /\ pb \in Seq(Seq(Elements)) /\ Len(pb) = n
      /\ pc \in Seq(Seq(Elements)) /\ Len(pc) = n
  BY PartsAreSequences
<1>2. ASSUME NEW i \in 1 .. n
      PROVE  /\ pa[i] \in Seq(Elements) /\ pb[i] \in Seq(Elements) /\ pc[i] \in Seq(Elements)
             /\ Len(pa[i]) + Len(pb[i]) + Len(pc[i]) <= 1
  <2>1. pa[i] \in Seq(Elements) /\ pb[i] \in Seq(Elements) /\ pc[i] \in Seq(Elements)
    <3> HIDE DEF pa, pb, pc, n
    <3> QED BY <1>1, ElementOfSeq
  <2>2. \A x : Len(<<x>>) = 1 /\ Len(<<>>) = 0
    OBVIOUS
  <2>3. \A kinds : Len(PartsOf(es, kinds)[i]) = IF es[i].kind \in kinds THEN 1 ELSE 0
    <3>1. ASSUME NEW kinds PROVE Len(PartsOf(es, kinds)[i]) = IF es[i].kind \in kinds THEN 1 ELSE 0
      <4>1. /\ es[i].kind \in kinds => PartsOf(es, kinds)[i] = <<es[i]>>
            /\ es[i].kind \notin kinds => PartsOf(es, kinds)[i] = <<>>
        BY PartsAreSequences
      <4> QED BY <2>2, <4>1
    <3> QED BY <3>1
  <2>4. /\ Len(pa[i]) = IF es[i].kind \in {"attribute"} THEN 1 ELSE 0
        /\ Len(pb[i]) = IF es[i].kind \in {"simple", "complex"} THEN 1 ELSE 0
        /\ Len(pc[i]) = IF es[i].kind \in {"any"} THEN 1 ELSE 0
    BY <2>3
  <2> HIDE DEF pa, pb, pc
  <2> QED
    BY <2>1, <2>4
<1> HIDE DEF pa, pb, pc, n
<1>3. 0 \in T
  <2>1. Upto(pa, 0) = <<>> /\ Upto(pb, 0) = <<>> /\ Upto(pc, 0) = <<>>
    BY <1>1, UptoIn
  <2>2. Len(<<>>) = 0
    OBVIOUS
  <2> QED
    BY <2>1, <2>2
<1>4. ASSUME NEW k \in Nat, k \in T PROVE k + 1 \in T
  <2>1. SUFFICES ASSUME k + 1 \in 0 .. n PROVE Sum(k + 1) <= k + 1
    <3> HIDE DEF Sum
    <3> QED OBVIOUS
  <2>2. k < n /\ k \in 0 .. n /\ k + 1 \in 1 .. n
    BY <1>0, <2>1
  <2>3. Sum(k) <= k
    BY <1>4, <2>2
  <2>4. ASSUME NEW seqs \in Seq(Seq(Elements)), Len(seqs) = n
        PROVE  /\ Len(Upto(seqs, k)) \in Nat /\ Len(seqs[k + 1]) \in Nat
               /\ Len(Upto(seqs, k + 1)) = Len(Upto(seqs, k)) + Len(seqs[k + 1])
    <3>1. Upto(seqs, k) \in Seq(Elements) /\ seqs[k + 1] \in Seq(Elements)
      BY <2>2, <2>4, UptoIn, ElementOfSeq
    <3>2. Upto(seqs, k + 1) = Upto(seqs, k) \o seqs[k + 1]
      BY <2>2, <2>4, <3>1, UptoStep
    <3> QED
      BY <3>1, <3>2, ConcatProperties
  <2>5. /\ Len(Upto(pa, k)) \in Nat /\ Len(pa[k + 1]) \in Nat
        /\ Len(Upto(pb, k)) \in Nat /\ Len(pb[k + 1]) \in Nat
        /\ Len(Upto(pc, k)) \in Nat /\ Len(pc[k + 1]) \in Nat
        /\ Len(Upto(pa, k + 1)) = Len(Upto(pa, k)) + Len(pa[k + 1])
        /\ Len(Upto(pb, k + 1)) = Len(Upto(pb, k)) + Len(pb[k + 1])
        /\ Len(Upto(pc, k + 1)) = Len(Upto(pc, k)) + Len(pc[k + 1])
    BY <1>1, <2>4
  <2>6. Len(pa[k + 1]) + Len(pb[k + 1]) + Len(pc[k + 1]) <= 1
    BY <1>2, <2>2
  <2>7. Len(Upto(pa, k)) + Len(Upto(pb, k)) + Len(Upto(pc, k)) <= k
    BY <2>3
  <2> DEFINE a == Len(Upto(pa, k))  x == Len(pa[k + 1])  p == Len(Upto(pa, k + 1))
             b == Len(Upto(pb, k))  y == Len(pb[k + 1])  q == Len(Upto(pb, k + 1))
             c == Len(Upto(pc, k))  z == Len(pc[k + 1])  r == Len(Upto(pc, k + 1))
  <2>8. /\ a \in Nat /\ b \in Nat /\ c \in Nat /\ x \in Nat /\ y \in Nat /\ z \in Nat
        /\ p = a + x /\ q = b + y /\ r = c + z
        /\ a + b + c <= k /\ x + y + z <= 1
    BY <2>5, <2>6, <2>7
  <2> HIDE DEF a, b, c, x, y, z, p, q, r, Sum
  <2>9. p + q + r <= k + 1
    BY <2>8
  <2> QED
    BY <2>9 DEF p, q, r, Sum
<1>5. \A k \in Nat : k \in T
  <2> HIDE DEF T
  <2> QED BY <1>3, <1>4, Induction
<1>6. Sum(n) <= n
  <2>1. n \in 0 .. n
    BY <1>0
  <2> HIDE DEF Sum
  <2> QED BY <1>0, <1>5, <2>1
<1>7. /\ Upto(pa, n) = OfKinds(es, {"attribute"})
      /\ Upto(pb, n) = OfKinds(es, {"simple", "complex"})
      /\ Upto(pc, n) = OfKinds(es, {"any"})
  <2>1. \A kinds : Upto(PartsOf(es, kinds), n) = OfKinds(es, kinds)
    BY PartsAreSequences, UptoIn DEF n
  <2> QED
    BY <2>1 DEF pa, pb, pc
<1>8. \A a, b, c \in Seq(Elements) : Len(a \o b \o c) = Len(a) + Len(b) + Len(c)
  BY ConcatProperties
<1>9. \A kinds : OfKinds(es, kinds) \in Seq(Elements)
  BY OfKindsFrom
<1> QED
  BY <1>6, <1>7, <1>8, <1>9 DEF sort_optional_and_abstract_elements, n

(* Of the abstract elements only the last may have more than one name, its *)
(* own aside, and only if no any element is sorted behind it.              *)
EndsWell(es) ==
  \A j \in 1 .. Len(es) : IsAbstract(es[j]) =>
    OwnNameSecond(es[j]) \/ (j = Len(es) /\ \A i \in 1 .. Len(es) : es[i].kind # "any")

(* The elements of a sorted blob.                                          *)
LEMMA Sorted ==
  ASSUME NEW es \in Seq(Elements)
  PROVE  LET sorted == sort_optional_and_abstract_elements(es)
         IN  /\ sorted \in Seq(Elements)
             /\ Len(sorted) <= Len(es)
             /\ \A k \in 1 .. Len(sorted) : \E j \in 1 .. Len(es) : sorted[k] = es[j]
             /\ EndsWell(es) => \A k \in 1 .. Len(sorted) - 1 : IsAbstract(sorted[k]) => OwnNameSecond(sorted[k])
<1> DEFINE a == OfKinds(es, {"attribute"})
           b == OfKinds(es, {"simple", "complex"})
           c == OfKinds(es, {"any"})
           sorted == a \o b \o c
           n == Len(es)
           From(s, q, kinds) == \E j \in 1 .. n : /\ s[q] = es[j]
                                                  /\ es[j].kind \in kinds
                                                  /\ q < Len(s) => j < n
<1>0. sort_optional_and_abstract_elements(es) = sorted
  BY DEF sort_optional_and_abstract_elements
<1>1. /\ a \in Seq(Elements) /\ b \in Seq(Elements) /\ c \in Seq(Elements)
      /\ \A q \in 1 .. Len(a) : From(a, q, {"attribute"})
      /\ \A q \in 1 .. Len(b) : From(b, q, {"simple", "complex"})
      /\ \A q \in 1 .. Len(c) : From(c, q, {"any"})
  BY OfKindsFrom
<1>2. n \in Nat
  OBVIOUS
<1> HIDE DEF a, b, c, n
<1>3. /\ sorted \in Seq(Elements)
      /\ Len(a) \in Nat /\ Len(b) \in Nat /\ Len(c) \in Nat
      /\ Len(sorted) = Len(a) + Len(b) + Len(c)
      /\ \A q \in 1 .. Len(a) : sorted[q] = a[q]
      /\ \A q \in Len(a) + 1 .. Len(a) + Len(b) : sorted[q] = b[q - Len(a)]
      /\ \A q \in Len(a) + Len(b) + 1 .. Len(sorted) : sorted[q] = c[q - Len(a) - Len(b)]
  <2>1. /\ a \o b \in Seq(Elements) /\ Len(a \o b) = Len(a) + Len(b)
        /\ Len(a) \in Nat /\ Len(b) \in Nat /\ Len(c) \in Nat
        /\ \A q \in 1 .. Len(a) + Len(b) : (a \o b)[q] = IF q <= Len(a) THEN a[q] ELSE b[q - Len(a)]
    BY <1>1, ConcatProperties
  <2>2. /\ sorted \in Seq(Elements) /\ Len(sorted) = Len(a \o b) + Len(c)
        /\ \A q \in 1 .. Len(a \o b) + Len(c) : sorted[q] = IF q <= Len(a \o b) THEN (a \o b)[q] ELSE c[q - Len(a \o b)]
    BY <1>1, <2>1, ConcatProperties
  <2> DEFINE d == a \o b
  <2> HIDE DEF d, sorted
  <2>3. /\ d \in Seq(Elements) /\ Len(d) = Len(a) + Len(b)
        /\ \A q \in 1 .. Len(a) + Len(b) : d[q] = IF q <= Len(a) THEN a[q] ELSE b[q - Len(a)]
        /\ sorted \in Seq(Elements) /\ Len(sorted) = Len(d) + Len(c)
        /\ \A q \in 1 .. Len(d) + Len(c) : sorted[q] = IF q <= Len(d) THEN d[q] ELSE c[q - Len(d)]
    BY <2>1, <2>2 DEF d
  <2>4. ASSUME NEW q \in 1 .. Len(a) PROVE sorted[q] = a[q]
    BY <2>1, <2>3
  <2>5. ASSUME NEW q \in Len(a) + 1 .. Len(a) + Len(b) PROVE sorted[q] = b[q - Len(a)]
    BY <2>1, <2>3
  <2>6. ASSUME NEW q \in Len(a) + Len(b) + 1 .. Len(sorted) PROVE sorted[q] = c[q - Len(a) - Len(b)]
    <3>1. q \in 1 .. Len(d) + Len(c) /\ ~(q <= Len(d)) /\ q - Len(d) = q - Len(a) - Len(b)
      BY <2>1, <2>3
    <3> QED BY <2>3, <3>1
  <2> QED
    BY <2>1, <2>3, <2>4, <2>5, <2>6
<1> HIDE DEF sorted
<1>4. ASSUME NEW k \in 1 .. Len(sorted)
      PROVE  \/ k \in 1 .. Len(a) /\ sorted[k] = a[k]
             \/ k - Len(a) \in 1 .. Len(b) /\ sorted[k] = b[k - Len(a)]
             \/ k - Len(a) - Len(b) \in 1 .. Len(c) /\ sorted[k] = c[k - Len(a) - Len(b)]
  <2>1. CASE k \in 1 .. Len(a)
    BY <1>3, <2>1
  <2>2. CASE k \in Len(a) + 1 .. Len(a) + Len(b)
    BY <1>3, <2>2
  <2>3. CASE k \in Len(a) + Len(b) + 1 .. Len(sorted)
    BY <1>3, <2>3
  <2> QED
    BY <1>3, <2>1, <2>2, <2>3
<1>5. ASSUME NEW k \in 1 .. Len(sorted) PROVE \E j \in 1 .. n : sorted[k] = es[j]
  <2>1. CASE k \in 1 .. Len(a) /\ sorted[k] = a[k]
    BY <1>1, <2>1
  <2>2. CASE k - Len(a) \in 1 .. Len(b) /\ sorted[k] = b[k - Len(a)]
    BY <1>1, <2>2
  <2>3. CASE k - Len(a) - Len(b) \in 1 .. Len(c) /\ sorted[k] = c[k - Len(a) - Len(b)]
    <3> DEFINE i == k - Len(a) - Len(b)
    <3>1. i \in 1 .. Len(c) /\ sorted[k] = c[i]
      BY <2>3
    <3> HIDE DEF i
    <3>2. From(c, i, {"any"})
      BY <1>1, <3>1
    <3> QED BY <3>1, <3>2
  <2> QED
    BY <1>4, <2>1, <2>2, <2>3
<1>6. ASSUME EndsWell(es), NEW k \in 1 .. Len(sorted) - 1, IsAbstract(sorted[k])
      PROVE  OwnNameSecond(sorted[k])
  <2>1. SUFFICES ASSUME ~OwnNameSecond(sorted[k]) PROVE FALSE
    OBVIOUS
  <2>0. k \in 1 .. Len(sorted)
    BY <1>3
  <2>2. sorted[k].kind \in {"simple", "complex"}
    <3>1. sorted[k] \in Elements
      BY <1>3, <2>0, ElementOfSeq
    <3> QED BY <1>6, <3>1 DEF Elements
  <2>3. \A j \in 1 .. n : sorted[k] = es[j] => j = n /\ \A i \in 1 .. n : es[i].kind # "any"
    BY <1>6, <2>1 DEF EndsWell, n
  <2>4. Len(c) = 0
    <3>1. SUFFICES ASSUME Len(c) # 0 PROVE FALSE
      OBVIOUS
    <3>2. 1 \in 1 .. Len(c)
      BY <1>3, <3>1
    <3>3. PICK j \in 1 .. n : es[j].kind \in {"any"}
      BY <1>1, <3>2
    <3>4. \E i \in 1 .. n : sorted[k] = es[i]
      BY <1>5, <2>0
    <3> QED BY <2>3, <3>3, <3>4
  <2>5. CASE k \in 1 .. Len(a) /\ sorted[k] = a[k]
    <3>1. PICK j \in 1 .. n : a[k] = es[j] /\ es[j].kind \in {"attribute"}
      BY <1>1, <2>5
    <3> QED BY <2>2, <2>5, <3>1
  <2>6. CASE k - Len(a) \in 1 .. Len(b) /\ sorted[k] = b[k - Len(a)]
    <3>1. k - Len(a) < Len(b)
      BY <1>3, <2>4
    <3>2. PICK j \in 1 .. n : b[k - Len(a)] = es[j] /\ (k - Len(a) < Len(b) => j < n)
      BY <1>1, <2>6
    <3>3. j < n /\ j # n
      BY <1>2, <3>1, <3>2
    <3> QED BY <2>3, <2>6, <3>2, <3>3
  <2>7. CASE k - Len(a) - Len(b) \in 1 .. Len(c)
    BY <1>3, <2>4, <2>7
  <2> QED
    BY <1>4, <2>0, <2>5, <2>6, <2>7
<1>7. Len(sorted) <= n
  BY <1>0, SortedLength DEF n
<1> QED
  BY <1>0, <1>3, <1>5, <1>6, <1>7 DEF n

(***************************************************************************)
(* The table of a blob.                                                    *)
(***************************************************************************)
(* What the table has for an element, for the elements, and where those of *)
(* element k begin and end.                                                *)
Entries(e)  == IF IsAbstract(e) THEN Substitutes(e) ELSE <<e>>
Table(es)   == [i \in DOMAIN es |-> Entries(es[i])]
Start(es, k) == Len(Upto(Table(es), k - 1))
End(es, k)   == Len(Upto(Table(es), k)) - 1

(* What the substitutes of an abstract element look like.                  *)
LEMMA SubstitutesOf ==
  ASSUME NEW e \in Children, IsAbstract(e)
  PROVE  /\ Substitutes(e) \in Seq(Elements)
         /\ Len(Substitutes(e)) = Len(e.subs)
         /\ Len(e.subs) \in 1 .. 15
         /\ \A p \in 1 .. Len(e.subs) :
              /\ Substitutes(e)[p].name = e.subs[p]
              /\ Substitutes(e)[p].created_from_abstract
              /\ Substitutes(e)[p].per_base = IF e.subs[p] = e.name THEN 1 ELSE Len(e.subs)
<1>1. e.subs \in Seq(STRING) /\ Len(e.subs) \in Nat /\ DOMAIN e.subs = 1 .. Len(e.subs)
  BY DEF Children, Elements
<1>2. Len(e.subs) # 0
  BY <1>1, EmptySeq DEF IsAbstract
<1>3. Len(e.subs) <= 15
  BY DEF Children
<1> DEFINE Sub(i) == [name |-> e.subs[i], kind |-> "complex", optional |-> e.optional, max |-> 1, subs |-> <<>>,
                      created_from_abstract |-> TRUE, per_base |-> IF e.subs[i] = e.name THEN 1 ELSE Len(e.subs)]
<1>4. ASSUME NEW i \in 1 .. Len(e.subs) PROVE Sub(i) \in Elements
  <2>1. e.subs[i] \in STRING
    BY <1>1, ElementOfSeq
  <2>2. e.optional \in BOOLEAN
    BY DEF Children, Elements
  <2>3. (IF e.subs[i] = e.name THEN 1 ELSE Len(e.subs)) \in Nat
    BY <1>1
  <2>4. <<>> \in Seq(STRING)
    OBVIOUS
  <2> QED
    BY <2>1, <2>2, <2>3, <2>4 DEF Elements, IsAbstract
<1>5. Substitutes(e) = [i \in 1 .. Len(e.subs) |-> Sub(i)]
  BY <1>1 DEF Substitutes
<1>6. ASSUME NEW p \in 1 .. Len(e.subs)
      PROVE  /\ Substitutes(e)[p].name = e.subs[p]
             /\ Substitutes(e)[p].created_from_abstract
             /\ Substitutes(e)[p].per_base = IF e.subs[p] = e.name THEN 1 ELSE Len(e.subs)
  BY <1>5
<1>7. Substitutes(e) \in Seq(Elements) /\ Len(Substitutes(e)) = Len(e.subs)
  <2> HIDE DEF Sub
  <2> QED BY <1>1, <1>4, <1>5
<1>8. Len(e.subs) \in 1 .. 15
  <2>1. \A x \in Nat : x # 0 /\ x <= 15 => x \in 1 .. 15
    OBVIOUS
  <2> QED BY <1>1, <1>2, <1>3, <2>1, Zenon
<1> QED
  BY <1>6, <1>7, <1>8

(* An element has an entry at least, and 15 at most.                       *)
LEMMA EntriesOf ==
  ASSUME NEW e \in Children
  PROVE  Entries(e) \in Seq(Elements) /\ Len(Entries(e)) \in 1 .. 15
<1>1. CASE IsAbstract(e)
  BY <1>1, SubstitutesOf DEF Entries
<1>2. CASE ~IsAbstract(e)
  <2>1. e \in Elements
    BY DEF Children
  <2>2. <<e>> \in Seq(Elements) /\ Len(<<e>>) = 1
    <3> HIDE DEF Elements
    <3> QED BY <2>1
  <2> QED
    BY <1>2, <2>2 DEF Entries
<1> QED
  BY <1>1, <1>2

(* The table, flat, is what get_all_elements_flat2 makes of the elements.  *)
LEMMA TableOf ==
  ASSUME NEW es \in Seq(Children)
  PROVE  /\ Table(es) \in Seq(Seq(Elements))
         /\ Len(Table(es)) = Len(es) /\ Len(es) \in Nat
         /\ get_all_elements_flat2(es) = FlattenSeq(Table(es))
         /\ \A k \in 1 .. Len(es) : es[k] \in Children /\ Table(es)[k] = Entries(es[k])
<1>1. DOMAIN es = 1 .. Len(es) /\ Len(es) \in Nat
  OBVIOUS
<1>2. \A k \in 1 .. Len(es) : es[k] \in Children
  BY ElementOfSeq
<1>3. \A k \in 1 .. Len(es) : Entries(es[k]) \in Seq(Elements)
  BY <1>2, EntriesOf
<1>4. \A k \in 1 .. Len(es) : Table(es)[k] = Entries(es[k])
  BY <1>1 DEF Table
<1>5. Table(es) \in [1 .. Len(es) -> Seq(Elements)]
  BY <1>1, <1>3 DEF Table
<1>6. Table(es) \in Seq(Seq(Elements)) /\ Len(Table(es)) = Len(es)
  BY <1>1, <1>5
<1>7. get_all_elements_flat2(es) = FlattenSeq(Table(es))
  BY DEF get_all_elements_flat2, Table, Entries
<1> QED
  BY <1>1, <1>2, <1>4, <1>6, <1>7

(* Where the entries of one element start and end.                         *)
LEMMA Bounds ==
  ASSUME NEW es \in Seq(Children)
  PROVE  /\ Len(get_all_elements_flat2(es)) \in Nat
         /\ \A k \in 1 .. Len(es) :
              /\ Start(es, k) \in Nat /\ End(es, k) \in Nat
              /\ End(es, k) + 1 = Start(es, k) + Len(Entries(es[k]))
              /\ End(es, k) < Len(get_all_elements_flat2(es))
              /\ k < Len(es) => End(es, k) < Len(get_all_elements_flat2(es)) - 1
              /\ k = Len(es) => End(es, k) = Len(get_all_elements_flat2(es)) - 1
              /\ \A j \in 1 .. k - 1 : End(es, j) < Start(es, k)
              /\ \A q \in 1 .. Len(Entries(es[k])) :
                   get_all_elements_flat2(es)[Start(es, k) + q] = Entries(es[k])[q]
<1> DEFINE P == Table(es)
           n == Len(es)
           U(k) == Len(Upto(P, k))
           L == Len(get_all_elements_flat2(es))
<1>1. /\ P \in Seq(Seq(Elements)) /\ Len(P) = n /\ n \in Nat
      /\ get_all_elements_flat2(es) = FlattenSeq(P)
      /\ \A k \in 1 .. n : es[k] \in Children /\ P[k] = Entries(es[k])
  BY TableOf
<1> HIDE DEF P, n
<1>2. ASSUME NEW k \in 0 .. n PROVE Upto(P, k) \in Seq(Elements) /\ U(k) \in Nat
  BY <1>1, UptoIn, LenProperties
<1>3. Upto(P, n) = get_all_elements_flat2(es) /\ L = U(n) /\ Upto(P, 0) = <<>> /\ U(0) = 0
  <2>1. Upto(P, n) = get_all_elements_flat2(es) /\ Upto(P, 0) = <<>>
    BY <1>1, UptoIn
  <2>2. Len(<<>>) = 0
    OBVIOUS
  <2> QED BY <2>1, <2>2
<1>4. ASSUME NEW k \in 1 .. n
      PROVE  /\ U(k) = U(k - 1) + Len(Entries(es[k]))
             /\ Len(Entries(es[k])) \in 1 .. 15
             /\ \A q \in 1 .. Len(Entries(es[k])) : Upto(P, k)[U(k - 1) + q] = Entries(es[k])[q]
  <2>1. k - 1 \in Nat /\ k - 1 < n /\ k - 1 \in 0 .. n /\ (k - 1) + 1 = k
    BY <1>1
  <2>2. Upto(P, k - 1) \in Seq(Elements)
    BY <1>2, <2>1
  <2>3. Entries(es[k]) \in Seq(Elements) /\ Len(Entries(es[k])) \in 1 .. 15 /\ P[k] = Entries(es[k])
    BY <1>1, EntriesOf
  <2>4. Upto(P, (k - 1) + 1) = Upto(P, k - 1) \o P[(k - 1) + 1]
    BY <1>1, <2>1, <2>2, UptoStep
  <2>5. Upto(P, k) = Upto(P, k - 1) \o Entries(es[k])
    BY <2>1, <2>3, <2>4
  <2>6. \A s, t \in Seq(Elements) : /\ Len(s \o t) = Len(s) + Len(t)
                                    /\ \A q \in 1 .. Len(t) : (s \o t)[Len(s) + q] = t[q]
    BY ConcatProperties
  <2> QED
    BY <2>2, <2>3, <2>5, <2>6
<1>5. ASSUME NEW a \in 0 .. n, NEW b \in 0 .. n, a <= b
      PROVE  U(a) <= U(b) /\ \A q \in 1 .. U(a) : Upto(P, b)[q] = Upto(P, a)[q]
  <2>1. a \in 0 .. Len(P) /\ b \in a .. Len(P)
    BY <1>1, <1>5
  <2> QED
    BY <1>1, <2>1, UptoGrows
<1>9. ASSUME NEW k \in 1 .. n
      PROVE  /\ U(k - 1) \in Nat /\ U(k) - 1 \in Nat
             /\ U(k) - 1 + 1 = U(k - 1) + Len(Entries(es[k]))
             /\ U(k) - 1 < L
             /\ k < n => U(k) - 1 < L - 1
             /\ k = n => U(k) - 1 = L - 1
             /\ \A j \in 1 .. k - 1 : U(j) - 1 < U(k - 1)
             /\ \A q \in 1 .. Len(Entries(es[k])) : get_all_elements_flat2(es)[U(k - 1) + q] = Entries(es[k])[q]
  <2>0. k \in Nat /\ k - 1 \in 0 .. n /\ k \in 0 .. n /\ n \in 0 .. n /\ k <= n
    BY <1>1
  <2> DEFINE x == Len(Entries(es[k]))
             f == get_all_elements_flat2(es)
  <2>1. U(k - 1) \in Nat /\ U(k) \in Nat /\ U(n) \in Nat /\ x \in 1 .. 15 /\ U(k) = U(k - 1) + x
    BY <1>2, <1>4, <2>0
  <2>3. U(k) <= U(n) /\ \A q \in 1 .. U(k) : Upto(P, n)[q] = Upto(P, k)[q]
    BY <1>5, <2>0
  <2>4. ASSUME k < n PROVE U(k) + 1 <= U(n)
    <3>1. k + 1 \in 1 .. n /\ k + 1 \in 0 .. n /\ k + 1 <= n /\ k + 1 - 1 = k
      BY <2>0, <2>4, <1>1
    <3>2. U(k + 1) = U(k) + Len(Entries(es[k + 1])) /\ Len(Entries(es[k + 1])) \in 1 .. 15
      BY <1>4, <3>1
    <3>3. U(k + 1) <= U(n)
      BY <1>5, <2>0, <3>1
    <3> DEFINE y == Len(Entries(es[k + 1]))
    <3>4. U(k + 1) = U(k) + y /\ y \in 1 .. 15 /\ U(k) \in Nat /\ U(n) \in Nat /\ U(k + 1) <= U(n)
      BY <3>2, <3>3, <2>1
    <3> HIDE DEF y, U
    <3> QED BY <3>4
  <2>5. ASSUME NEW j \in 1 .. k - 1 PROVE U(j) - 1 < U(k - 1)
    <3>1. j \in 0 .. n /\ j <= k - 1
      BY <2>0, <1>1
    <3>2. U(j) <= U(k - 1) /\ U(j) \in Nat
      BY <1>2, <1>5, <2>0, <3>1
    <3> HIDE DEF U
    <3> QED BY <2>1, <3>2
  <2>6. ASSUME NEW q \in 1 .. x PROVE f[U(k - 1) + q] = Entries(es[k])[q]
    <3>1. Upto(P, k)[U(k - 1) + q] = Entries(es[k])[q]
      BY <1>4
    <3>2. U(k - 1) + q \in 1 .. U(k)
      <4> HIDE DEF U, x
      <4> QED BY <2>1
    <3>3. Upto(P, n)[U(k - 1) + q] = Upto(P, k)[U(k - 1) + q]
      BY <2>3, <3>2
    <3> QED BY <1>3, <3>1, <3>3
  <2>7. L = U(n) /\ f = get_all_elements_flat2(es)
    BY <1>3
  <2> DEFINE l == L
  <2>8. l = L
    OBVIOUS
  <2>9. \A q \in 1 .. x : f[U(k - 1) + q] = Entries(es[k])[q]
    BY <2>6
  <2>10. \A j \in 1 .. k - 1 : U(j) - 1 < U(k - 1)
    BY <2>5
  <2>11. /\ U(k - 1) \in Nat /\ U(k) - 1 \in Nat
         /\ U(k) - 1 + 1 = U(k - 1) + x
         /\ U(k) - 1 < l
         /\ k < n => U(k) - 1 < l - 1
         /\ k = n => U(k) - 1 = l - 1
    <3> HIDE DEF U, x, f, L, l
    <3> QED BY <2>0, <2>1, <2>3, <2>4, <2>7, <2>8
  <2> QED
    BY <2>9, <2>10, <2>11
<1>10. L \in Nat
  BY <1>1, <1>2, <1>3
<1> QED
  BY <1>9, <1>10 DEF P, n, Start, End

(* counter_value is the index of the last entry of the same element.       *)
LEMMA CounterValue ==
  ASSUME NEW es \in Seq(Children), NEW i \in 0 .. Len(get_all_elements_flat2(es)) - 1
  PROVE  \E k \in 1 .. Len(es) : i \in Start(es, k) .. End(es, k) /\ counter_value(es, i) = End(es, k)
<1> DEFINE n == Len(es)
           L == Len(get_all_elements_flat2(es))
           Value(last, k) == (IF k = 1 THEN -1 ELSE last[k - 1])
                               + (IF IsAbstract(es[k]) THEN Len(es[k].subs) ELSE 1)
           IsLast(last) == last = [k \in DOMAIN es |-> Value(last, k)]
           ends == [k \in DOMAIN es |-> End(es, k)]
           last == CHOOSE last : IsLast(last)
<1>0. n \in Nat /\ DOMAIN es = 1 .. n
  OBVIOUS
<1>1. ASSUME NEW k \in 1 .. n
      PROVE  Len(Entries(es[k])) = IF IsAbstract(es[k]) THEN Len(es[k].subs) ELSE 1
  <2>1. es[k] \in Children
    BY ElementOfSeq
  <2>2. \A x : Len(<<x>>) = 1
    OBVIOUS
  <2> QED
    BY <2>1, <2>2, SubstitutesOf DEF Entries
<1>2. \A k \in 1 .. n : End(es, k) = (IF k = 1 THEN -1 ELSE End(es, k - 1)) + Len(Entries(es[k]))
  <2> SUFFICES ASSUME NEW k \in 1 .. n
               PROVE  End(es, k) = (IF k = 1 THEN -1 ELSE End(es, k - 1)) + Len(Entries(es[k]))
    OBVIOUS
  <2>1. Start(es, k) \in Nat /\ End(es, k) \in Nat /\ End(es, k) + 1 = Start(es, k) + Len(Entries(es[k]))
    BY Bounds
  <2>2. Len(Entries(es[k])) \in Nat
    <3>1. es[k] \in Children
      BY ElementOfSeq
    <3> QED BY <3>1, EntriesOf
  <2>3. End(es, k - 1) = Start(es, k) - 1
    BY DEF End, Start
  <2>4. k = 1 => Start(es, k) = 0
    <3>1. Upto(Table(es), 0) = <<>>
      BY TableOf, UptoIn
    <3>2. Len(<<>>) = 0
      OBVIOUS
    <3> QED BY <3>1, <3>2 DEF Start
  <2> DEFINE x == Len(Entries(es[k]))
             s == Start(es, k)
             t == End(es, k)
             u == End(es, k - 1)
  <2>5. s \in Nat /\ t \in Nat /\ t + 1 = s + x /\ x \in Nat /\ u = s - 1 /\ (k = 1 => s = 0)
    BY <2>1, <2>2, <2>3, <2>4
  <2> HIDE DEF x, s, t, u
  <2>6. t = (IF k = 1 THEN -1 ELSE u) + x
    BY <2>5
  <2> QED
    BY <2>6 DEF x, t, u
<1>3. IsLast(ends)
  <2>1. \A k \in 1 .. n : k # 1 => k - 1 \in 1 .. n
    BY <1>0
  <2>2. ASSUME NEW k \in 1 .. n PROVE End(es, k) = Value(ends, k)
    <3>1. k # 1 => ends[k - 1] = End(es, k - 1)
      BY <1>0, <2>1
    <3>2. (IF k = 1 THEN -1 ELSE ends[k - 1]) = (IF k = 1 THEN -1 ELSE End(es, k - 1))
      <4> HIDE DEF ends
      <4> QED BY <3>1
    <3> HIDE DEF ends
    <3> QED BY <1>1, <1>2, <3>2
  <2> HIDE DEF Value
  <2>3. \A k \in DOMAIN es : End(es, k) = Value(ends, k)
    BY <1>0, <2>2
  <2>4. [k \in DOMAIN es |-> End(es, k)] = [k \in DOMAIN es |-> Value(ends, k)]
    <3> HIDE DEF ends
    <3> QED BY <2>3
  <2> QED
    BY <2>4
<1>4. IsLast(last)
  <2> HIDE DEF IsLast, ends
  <2> QED BY <1>3
<1>5. \A k \in 1 .. n : last[k] = Value(last, k)
  <2> HIDE DEF Value, last
  <2> QED BY <1>0, <1>4
<1> DEFINE T == {k \in Nat : k \in 1 .. n => last[k] = End(es, k)}
<1> HIDE DEF last
<1>6. 0 \in T
  OBVIOUS
<1>7. ASSUME NEW k \in Nat, k \in T PROVE k + 1 \in T
  <2>1. SUFFICES ASSUME k + 1 \in 1 .. n PROVE last[k + 1] = End(es, k + 1)
    OBVIOUS
  <2>2. last[k + 1] = Value(last, k + 1)
    <3> HIDE DEF Value
    <3> QED BY <1>5, <2>1
  <2>3. k + 1 # 1 => last[k] = End(es, k)
    <3>1. k + 1 # 1 => k \in 1 .. n
      BY <1>0, <2>1
    <3> QED BY <1>7, <3>1
  <2>4. k + 1 - 1 = k
    OBVIOUS
  <2>5. Len(Entries(es[k + 1])) = IF IsAbstract(es[k + 1]) THEN Len(es[k + 1].subs) ELSE 1
    BY <1>1, <2>1
  <2>6. End(es, k + 1) = (IF k + 1 = 1 THEN -1 ELSE End(es, k + 1 - 1)) + Len(Entries(es[k + 1]))
    BY <1>2, <2>1
  <2>7. (IF k + 1 = 1 THEN -1 ELSE last[k + 1 - 1]) = (IF k + 1 = 1 THEN -1 ELSE End(es, k + 1 - 1))
    BY <2>3, <2>4
  <2> QED
    BY <2>2, <2>5, <2>6, <2>7
<1>8. \A k \in Nat : k \in T
  <2> HIDE DEF T
  <2> QED BY <1>6, <1>7, Induction
<1>9. \A k \in 1 .. n : last[k] = End(es, k)
  <2>1. \A k \in 1 .. n : k \in Nat
    BY <1>0
  <2> QED BY <1>8, <2>1
<1>10. PICK k \in 1 .. n : i \in Start(es, k) .. End(es, k)
  <2>1. i + 1 \in 1 .. L /\ Table(es) \in Seq(Seq(Elements)) /\ Len(Table(es)) = n
        /\ L = Len(FlattenSeq(Table(es)))
    BY TableOf, Bounds
  <2>2. PICK k \in 1 .. Len(Table(es)) : i + 1 \in Len(Upto(Table(es), k - 1)) + 1 .. Len(Upto(Table(es), k))
    BY <2>1, FlattenFrom
  <2>3. k \in 1 .. n /\ Start(es, k) \in Nat /\ End(es, k) \in Nat
    BY <2>1, <2>2, Bounds
  <2>4. i + 1 \in Start(es, k) + 1 .. End(es, k) + 1
    BY <2>2, <2>3 DEF Start, End
  <2>5. i \in Start(es, k) .. End(es, k)
    BY <2>3, <2>4
  <2> QED
    BY <2>3, <2>5
<1> DEFINE IsCounter(c) == i <= c /\ \A j \in DOMAIN es : i <= last[j] => c <= last[j]
<1>11. \A j \in 1 .. n : End(es, j) \in Nat
  BY Bounds
<1>12. \A j \in 1 .. n : i <= End(es, j) => End(es, k) <= End(es, j)
  <2> SUFFICES ASSUME NEW j \in 1 .. n, i <= End(es, j) PROVE End(es, k) <= End(es, j)
    OBVIOUS
  <2>1. CASE j < k
    <3>1. j \in 1 .. k - 1
      BY <2>1, <1>0
    <3>2. End(es, j) < Start(es, k) /\ Start(es, k) \in Nat
      BY <3>1, Bounds
    <3> QED BY <1>10, <1>11, <3>2
  <2>2. CASE j = k
    BY <2>2, <1>11
  <2>3. CASE k < j
    <3>1. k \in 1 .. j - 1
      BY <2>3, <1>0
    <3>2. /\ End(es, k) < Start(es, j) /\ Start(es, j) \in Nat
          /\ End(es, j) + 1 = Start(es, j) + Len(Entries(es[j]))
      BY <3>1, Bounds
    <3>3. Len(Entries(es[j])) \in 1 .. 15
      <4>1. es[j] \in Children
        BY ElementOfSeq
      <4> QED BY <4>1, EntriesOf
    <3> DEFINE x == Len(Entries(es[j]))
               s == Start(es, j)
               t == End(es, j)
               u == End(es, k)
    <3>4. u \in Nat /\ s \in Nat /\ t \in Nat /\ x \in 1 .. 15 /\ u < s /\ t + 1 = s + x
      BY <3>2, <3>3, <1>11
    <3> HIDE DEF x, s, t, u
    <3>5. u <= t
      BY <3>4
    <3> QED BY <3>5 DEF t, u
  <2> QED
    BY <1>0, <2>1, <2>2, <2>3
<1>13. last[k] = End(es, k) /\ last[k] \in {last[j] : j \in DOMAIN es} /\ IsCounter(last[k])
  BY <1>0, <1>9, <1>10, <1>11, <1>12
<1> DEFINE c == CHOOSE c \in {last[j] : j \in DOMAIN es} : IsCounter(c)
<1>14. c \in {last[j] : j \in DOMAIN es} /\ IsCounter(c)
  <2> HIDE DEF IsCounter
  <2> QED BY <1>13
<1>15. c = last[k]
  <2>1. PICK j \in 1 .. n : c = last[j]
    BY <1>0, <1>14
  <2>2. i <= last[j] /\ last[j] \in Nat /\ last[k] \in Nat
    <3> HIDE DEF c
    <3> QED BY <1>9, <1>11, <1>14, <2>1
  <2>3. last[k] <= last[j]
    BY <1>9, <1>12, <2>2
  <2>4. c <= last[k]
    <3>1. i <= last[k]
      BY <1>13
    <3> HIDE DEF c
    <3> QED BY <1>0, <1>14, <3>1
  <2> HIDE DEF c
  <2> QED BY <2>1, <2>2, <2>3, <2>4
<1>16. counter_value(es, i) = c
  BY DEF counter_value, last
<1> QED
  BY <1>10, <1>13, <1>15, <1>16

(***************************************************************************)
(* Options that are taken.                                                 *)
(***************************************************************************)
(* What stands in the table behind an option that is taken.                *)
LEMMA OptionTaken ==
  ASSUME NEW es \in Seq(Children), NEW i \in 0 .. Len(get_all_elements_flat2(es)) - 1,
         \A k \in 1 .. Len(es) : OneSubstitute(value, es[k]),
         \A k \in 1 .. Len(es) - 1 : IsAbstract(es[k]) => OwnNameSecond(es[k]),
         exists(get_all_elements_flat2(es)[i + 1].name)
  PROVE  LET table == get_all_elements_flat2(es)
             c == counter_value(es, i)
             e == table[i + 1]
         IN  /\ c \in i .. Len(table) - 1
             /\ ~e.created_from_abstract => c = i /\ e.per_base = 1
             /\ e.created_from_abstract => /\ \A j \in i + 1 .. c : ~exists(table[j + 1].name)
                                           /\ c < Len(table) - 1 => i + e.per_base = c + 1
<1> DEFINE table == get_all_elements_flat2(es)
           L == Len(table)
<1>1. PICK k \in 1 .. Len(es) : i \in Start(es, k) .. End(es, k) /\ counter_value(es, i) = End(es, k)
  BY CounterValue
<1> DEFINE s == Start(es, k)
           c == End(es, k)
           en == Entries(es[k])
<1>2. /\ L \in Nat /\ s \in Nat /\ c \in Nat /\ c + 1 = s + Len(en) /\ c < L
      /\ k < Len(es) => c < L - 1
      /\ k = Len(es) => c = L - 1
      /\ \A q \in 1 .. Len(en) : table[s + q] = en[q]
  BY Bounds
<1>3. es[k] \in Children /\ Len(en) \in 1 .. 15 /\ Len(es) \in Nat
  <2>1. es[k] \in Children /\ Len(es) \in Nat
    BY ElementOfSeq
  <2> QED BY <2>1, EntriesOf
<1>4. i \in s .. c /\ counter_value(es, i) = c
  BY <1>1
<1> DEFINE p == i + 1 - s
           n == Len(en)
<1>5. /\ exists(table[i + 1].name) /\ OneSubstitute(value, es[k])
      /\ k < Len(es) /\ IsAbstract(es[k]) => OwnNameSecond(es[k])
  <2>1. k < Len(es) => k \in 1 .. Len(es) - 1
    BY <1>3
  <2> QED BY <2>1
<1> HIDE DEF table, L, s, c, en
<1>6. n \in 1 .. 15 /\ i \in Nat /\ p \in 1 .. n /\ i + 1 = s + p /\ c + 1 = s + n
  <2> HIDE DEF n
  <2>1. n \in 1 .. 15 /\ c + 1 = s + n /\ s \in Nat /\ c \in Nat /\ i \in s .. c
    BY <1>2, <1>3, <1>4 DEF n
  <2> QED BY <2>1
<1>7. table[i + 1] = en[p]
  BY <1>2, <1>6
<1> HIDE DEF p
<1>8. c \in i .. L - 1
  <2> HIDE DEF n
  <2> QED BY <1>2, <1>4
<1>9. CASE IsAbstract(es[k])
  <2>1. /\ Len(es[k].subs) = n
        /\ \A q \in 1 .. n : /\ en[q].name = es[k].subs[q]
                             /\ en[q].created_from_abstract
                             /\ en[q].per_base = IF es[k].subs[q] = es[k].name THEN 1 ELSE n
    BY <1>3, <1>9, SubstitutesOf DEF en, Entries
  <2> HIDE DEF n
  <2>2. en[p].created_from_abstract /\ exists(es[k].subs[p])
    BY <1>5, <1>6, <1>7, <2>1
  <2>3. es[k].subs[p] # es[k].name /\ \A q \in 1 .. n : exists(es[k].subs[q]) => p = q
    BY <1>5, <1>6, <2>1, <2>2 DEF OneSubstitute, exists
  <2>4. en[p].per_base = n
    BY <1>6, <2>1, <2>3
  <2>5. ASSUME NEW j \in i + 1 .. c PROVE ~exists(table[j + 1].name)
    <3> DEFINE q == j + 1 - s
    <3>1. q \in 1 .. n /\ s + q = j + 1 /\ q # p
      BY <1>2, <1>6
    <3> HIDE DEF q
    <3>2. table[j + 1] = en[q]
      BY <1>2, <3>1 DEF n
    <3>3. table[j + 1].name = es[k].subs[q]
      BY <2>1, <3>1, <3>2
    <3> QED BY <2>3, <3>1, <3>3
  <2>6. ASSUME c < L - 1 PROVE i + n = c + 1
    <3>1. k # Len(es)
      BY <1>2, <2>6
    <3>2. OwnNameSecond(es[k])
      BY <1>3, <1>5, <1>9, <3>1
    <3>3. n = 2 /\ es[k].subs[2] = es[k].name
      BY <2>1, <3>2 DEF OwnNameSecond
    <3>4. p = 1
      BY <1>6, <2>3, <3>3
    <3> QED BY <1>2, <1>6, <3>3, <3>4
  <2> QED
    BY <1>4, <1>7, <1>8, <2>2, <2>4, <2>5, <2>6 DEF table, L
<1>10. CASE ~IsAbstract(es[k])
  <2>1. en = <<es[k]>>
    BY <1>10 DEF en, Entries
  <2>2. \A x : Len(<<x>>) = 1 /\ <<x>>[1] = x
    OBVIOUS
  <2>3. n = 1 /\ en[1] = es[k]
    BY <2>1, <2>2
  <2>4. p = 1 /\ c = i
    <3> HIDE DEF n
    <3> QED BY <1>2, <1>6, <2>3
  <2>5. table[i + 1] = es[k]
    BY <1>7, <2>3, <2>4
  <2>6. ~es[k].created_from_abstract /\ es[k].per_base = 1
    BY <1>3 DEF Children
  <2> QED
    BY <1>4, <1>8, <2>4, <2>5, <2>6 DEF table, L
<1> QED
  BY <1>9, <1>10

(***************************************************************************)
(* Widths of event codes.                                                  *)
(***************************************************************************)
LEMMA SmallPowers ==
  /\ 2 ^ 0 = 1
  /\ \A k \in 0 .. 8 : 2 ^ k \in Nat \ {0}
<1>1. 2 ^ 0 = 1
  BY SMT
<1>2. ASSUME NEW k \in 0 .. 8 PROVE 2 ^ k \in Nat \ {0}
  <2>0. CASE k = 0  BY <2>0, 2 ^ 0 = 1, SMT
  <2>1. CASE k = 1  BY <2>1, 2 ^ 1 = 2, SMT
  <2>2. CASE k = 2  BY <2>2, 2 ^ 2 = 4, SMT
  <2>3. CASE k = 3  BY <2>3, 2 ^ 3 = 8, SMT
  <2>4. CASE k = 4  BY <2>4, 2 ^ 4 = 16, SMT
  <2>5. CASE k = 5  BY <2>5, 2 ^ 5 = 32, SMT
  <2>6. CASE k = 6  BY <2>6, 2 ^ 6 = 64, SMT
  <2>7. CASE k = 7  BY <2>7, 2 ^ 7 = 128, SMT
  <2>8. CASE k = 8  BY <2>8, 2 ^ 8 = 256, SMT
  <2>9. k = 0 \/ k = 1 \/ k = 2 \/ k = 3 \/ k = 4 \/ k = 5 \/ k = 6 \/ k = 7 \/ k = 8
    OBVIOUS
  <2> QED
    BY <2>0, <2>1, <2>2, <2>3, <2>4, <2>5, <2>6, <2>7, <2>8, <2>9
<1> QED
  BY <1>1, <1>2

(* The rounded-up logarithm of n admits n codes.                           *)
LEMMA CeilLog2 ==
  ASSUME NEW n \in Int, n <= 256
  PROVE  /\ ceil_log2(n) \in 0 .. 8
         /\ n <= 2 ^ ceil_log2(n)
         /\ n >= 2 => ceil_log2(n) # 0
<1> DEFINE Holds(k) == n <= 2 ^ k /\ (k = 0 \/ n > 2 ^ (k - 1))
<1>1. \E k \in 0 .. 8 : Holds(k)
  <2>1. CASE n <= 1           BY <2>1, Holds(0), SMT
  <2>2. CASE n = 2            BY <2>2, Holds(1), SMT
  <2>3. CASE n \in 3 .. 4     BY <2>3, Holds(2), SMT
  <2>4. CASE n \in 5 .. 8     BY <2>4, Holds(3), SMT
  <2>5. CASE n \in 9 .. 16    BY <2>5, Holds(4), SMT
  <2>6. CASE n \in 17 .. 32   BY <2>6, Holds(5), SMT
  <2>7. CASE n \in 33 .. 64   BY <2>7, Holds(6), SMT
  <2>8. CASE n \in 65 .. 128  BY <2>8, Holds(7), SMT
  <2>9. CASE n \in 129 .. 256 BY <2>9, Holds(8), SMT
  <2> QED  BY <2>1, <2>2, <2>3, <2>4, <2>5, <2>6, <2>7, <2>8, <2>9, SMT
<1>2. ceil_log2(n) \in 0 .. 8 /\ Holds(ceil_log2(n))
  BY <1>1 DEF ceil_log2
<1>3. ASSUME n >= 2, ceil_log2(n) = 0 PROVE FALSE
  <2>1. n <= 2 ^ 0
    BY <1>2, <1>3
  <2> QED BY <1>3, <2>1, SmallPowers
<1> QED
  BY <1>2, <1>3

(* get_num_AnyElements counts some of the elements.                        *)
LEMMA AnyElements ==
  ASSUME NEW es \in Seq(Elements)
  PROVE  get_num_AnyElements(es) \in Nat /\ get_num_AnyElements(es) <= Len(es)
<1> DEFINE D == 1 .. Len(es)
           A == {i \in D : es[i].kind = "any"}
<1>1. DOMAIN es = D /\ Len(es) \in Nat
  OBVIOUS
<1>2. IsFiniteSet(D) /\ Cardinality(D) = Len(es)
  BY <1>1, FS_Interval
<1>3. A \subseteq D
  OBVIOUS
<1>4. IsFiniteSet(A) /\ Cardinality(A) <= Cardinality(D) /\ Cardinality(A) \in Nat
  <2> HIDE DEF A, D
  <2> QED BY <1>2, <1>3, FS_Subset, FS_CardinalityType
<1> QED
  BY <1>1, <1>2, <1>4 DEF get_num_AnyElements

(* The encoder's table has at most 15 entries for an element.              *)
LEMMA TableLength ==
  ASSUME NEW es \in Seq(Children)
  PROVE  /\ get_all_elements_flat2(es) \in Seq(Elements)
         /\ Len(get_all_elements_flat2(es)) \in Nat
         /\ Len(get_all_elements_flat2(es)) <= 15 * Len(es)
<1>1. /\ Table(es) \in Seq(Seq(Elements))
      /\ Len(Table(es)) = Len(es) /\ Len(es) \in Nat
      /\ get_all_elements_flat2(es) = FlattenSeq(Table(es))
      /\ \A k \in 1 .. Len(es) : es[k] \in Children /\ Table(es)[k] = Entries(es[k])
  BY TableOf
<1>2. ASSUME NEW k \in 1 .. Len(Table(es)) PROVE Len(Table(es)[k]) <= 15
  <2>1. Table(es)[k] = Entries(es[k]) /\ Len(Entries(es[k])) \in 1 .. 15
    BY <1>1, EntriesOf
  <2> DEFINE x == Len(Entries(es[k]))
  <2>2. x \in 1 .. 15 /\ Len(Table(es)[k]) = x
    BY <2>1
  <2> HIDE DEF x
  <2> QED BY <2>2
<1>3. FlattenSeq(Table(es)) \in Seq(Elements) /\ Len(FlattenSeq(Table(es))) \in Nat
  BY <1>1, FlattenIn, LenProperties
<1>4. Len(FlattenSeq(Table(es))) <= 15 * Len(Table(es))
  BY <1>1, <1>2, FlattenLength
<1> QED
  BY <1>1, <1>3, <1>4

(* The cases of the decoder's switch.                                      *)
LEMMA CasesLength ==
  ASSUME NEW es \in Seq(Children)
  PROVE  /\ get_all_elements_flat(es) \in Seq(Elements)
         /\ Len(get_all_elements_flat(es)) \in Nat
         /\ Len(get_all_elements_flat(es)) <= 15 * Len(es)
<1> DEFINE Case(e) == IF IsAbstract(e) THEN Substitutes(e) ELSE IF e.optional THEN <<e>> ELSE <<>>
           cases == [i \in DOMAIN es |-> Case(es[i])]
<1>1. DOMAIN es = 1 .. Len(es) /\ Len(es) \in Nat
  OBVIOUS
<1>2. ASSUME NEW i \in 1 .. Len(es)
      PROVE  Case(es[i]) \in Seq(Elements) /\ Len(Case(es[i])) <= 15
  <2>1. es[i] \in Children
    BY ElementOfSeq
  <2>2. CASE IsAbstract(es[i])
    <3>1. /\ Substitutes(es[i]) \in Seq(Elements) /\ Len(Substitutes(es[i])) \in 1 .. 15
      BY <2>1, <2>2, SubstitutesOf
    <3>2. Len(Substitutes(es[i])) <= 15
      <4>1. \A x \in 1 .. 15 : x <= 15
        OBVIOUS
      <4> QED BY <3>1, <4>1, Zenon
    <3> QED BY <2>2, <3>1, <3>2
  <2>3. CASE ~IsAbstract(es[i])
    <3>1. es[i] \in Elements
      BY <2>1 DEF Children
    <3>2. \A x \in Elements : <<x>> \in Seq(Elements) /\ Len(<<x>>) <= 15
      OBVIOUS
    <3>3. <<>> \in Seq(Elements) /\ Len(<<>>) <= 15
      OBVIOUS
    <3> QED BY <2>3, <3>1, <3>2, <3>3, Zenon
  <2> QED
    BY <2>2, <2>3
<1> HIDE DEF Case
<1>3. cases \in [1 .. Len(es) -> Seq(Elements)]
  BY <1>1, <1>2
<1>4. cases \in Seq(Seq(Elements)) /\ Len(cases) = Len(es) /\ \A i \in 1 .. Len(cases) : Len(cases[i]) <= 15
  BY <1>1, <1>2, <1>3
<1>5. get_all_elements_flat(es) = FlattenSeq(cases)
  BY DEF get_all_elements_flat, Case
<1> HIDE DEF cases
<1>6. FlattenSeq(cases) \in Seq(Elements) /\ Len(FlattenSeq(cases)) \in Nat
  BY <1>4, FlattenIn, LenProperties
<1>7. Len(FlattenSeq(cases)) <= 15 * Len(cases)
  BY <1>4, FlattenLength
<1> QED
  BY <1>4, <1>5, <1>6, <1>7

(***************************************************************************)
(* The statements of a type.                                               *)
(***************************************************************************)
BlobElements(t) ==
  {es \in Seq(Children) : /\ Len(es) <= 15
                          /\ \A k \in 1 .. Len(es) : \E i \in 1 .. Len(t) : es[k] = t[i]
                          /\ EndsWell(es)}

Blobs(side_of, t) == {Blob(side_of, es, flag) : es \in BlobElements(t), flag \in BOOLEAN}
Particles         == {List(e) : e \in {e \in Children : IsList(e)}}
                       \cup {Plain(e, flag) : e \in Children, flag \in BOOLEAN}
                       \cup {Finish}

StatementsOf(side_of, t) == Particles \cup Blobs(side_of, t)

(* The elements of a set of numbers are not greater than one of them.      *)
LEMMA MaxOf ==
  ASSUME NEW n \in Nat, NEW S, S \subseteq 0 .. n, S # {}
  PROVE  Max(S) \in S /\ \A x \in S : Max(S) >= x
<1> DEFINE T == {n - x : x \in S}
<1>1. T \subseteq Nat /\ T # {}
  <2>1. \A x \in S : n - x \in Nat
    <3>1. \A x \in 0 .. n : n - x \in Nat
      OBVIOUS
    <3> QED BY <3>1
  <2> QED BY <2>1
<1>2. PICK m \in T : \A y \in T : m <= y
  <2> HIDE DEF T
  <2> QED BY <1>1, LeastNumber
<1>3. PICK s \in S : m = n - s
  BY <1>2
<1>4. \A x \in S : s >= x
  <2> SUFFICES ASSUME NEW x \in S PROVE s >= x
    OBVIOUS
  <2>1. n - x \in T
    OBVIOUS
  <2>2. n - s <= n - x
    <3> HIDE DEF T
    <3> QED BY <1>2, <1>3, <2>1
  <2>3. x \in 0 .. n /\ s \in 0 .. n
    OBVIOUS
  <2> QED BY <2>2, <2>3
<1> QED
  BY <1>3, <1>4 DEF Max

(* The options before an element.                                          *)
LEMMA BlobBefore ==
  ASSUME NEW t \in Seq(Children), NEW i \in 1 .. Len(t) + 1
  PROVE  \E m \in 0 .. i - 1 :
           /\ OptionsBefore(t, i) \in Seq(Children)
           /\ Len(OptionsBefore(t, i)) = i - 1 - m
           /\ \A q \in 1 .. i - 1 - m : OptionsBefore(t, i)[q] = t[m + q] /\ t[m + q].optional
<1> DEFINE S == {0} \cup {j \in 1 .. i - 1 : ~t[j].optional}
           m == Max(S)
<1>0. Len(t) \in Nat /\ i - 1 \in Nat
  OBVIOUS
<1>1. S \subseteq 0 .. i - 1 /\ S # {}
  BY <1>0
<1>2. m \in S /\ \A x \in S : m >= x
  <2> HIDE DEF S
  <2> QED BY <1>0, <1>1, MaxOf
<1>3. OptionsBefore(t, i) = SubSeq(t, 1 + m, i - 1)
  BY DEF OptionsBefore
<1>4. m \in 0 .. i - 1
  BY <1>1, <1>2
<1>5. ASSUME NEW q \in 1 .. i - 1 - m PROVE t[m + q].optional
  <2>1. m + q \in 1 .. i - 1 /\ m + q > m
    <3> HIDE DEF m
    <3> QED BY <1>0, <1>4
  <2>2. m + q \notin S
    <3> HIDE DEF S, m
    <3>1. ASSUME m + q \in S PROVE FALSE
      <4>1. m >= m + q
        BY <1>2, <3>1
      <4> QED BY <1>4, <2>1, <4>1
    <3> QED BY <3>1
  <2> HIDE DEF m
  <2> QED BY <2>1, <2>2
<1> HIDE DEF m, S
<1>6. /\ SubSeq(t, 1 + m, i - 1) \in Seq(Children)
      /\ Len(SubSeq(t, 1 + m, i - 1)) = i - 1 - m
      /\ \A q \in 1 .. i - 1 - m : SubSeq(t, 1 + m, i - 1)[q] = t[m + q]
  <2>1. 1 + m \in 1 .. Len(t) + 1 /\ i - 1 \in m .. Len(t)
    BY <1>0, <1>4
  <2> DEFINE a == 1 + m
             b == i - 1
  <2>2. a \in 1 .. Len(t) + 1 /\ b \in a - 1 .. Len(t)
    BY <2>1, <1>4
  <2>3. /\ SubSeq(t, a, b) \in Seq(Children)
        /\ Len(SubSeq(t, a, b)) = IF a <= b THEN b - a + 1 ELSE 0
        /\ \A q \in 1 .. b - a + 1 : SubSeq(t, a, b)[q] = t[a + q - 1]
    <3> HIDE DEF a, b
    <3> QED BY <2>2, SubSeqProperties
  <2>4. b - a + 1 = i - 1 - m /\ (IF a <= b THEN b - a + 1 ELSE 0) = i - 1 - m
    BY <1>0, <1>4
  <2>5. \A q \in Int : a + q - 1 = m + q
    BY <1>4
  <2>6. /\ SubSeq(t, a, b) \in Seq(Children)
        /\ Len(SubSeq(t, a, b)) = i - 1 - m
    BY <2>3, <2>4, Zenon
  <2>7. ASSUME NEW q \in 1 .. i - 1 - m PROVE SubSeq(t, a, b)[q] = t[m + q]
    <3>1. q \in 1 .. b - a + 1 /\ q \in Int
      BY <2>4
    <3>2. SubSeq(t, a, b)[q] = t[a + q - 1]
      BY <2>3, <3>1
    <3> QED BY <2>5, <3>1, <3>2
  <2> QED
    BY <2>6, <2>7
<1> QED
  BY <1>3, <1>4, <1>5, <1>6

(* The blobs of a type end well.                                           *)
LEMMA BlobsEndWell ==
  ASSUME NEW t, IsPlain(t)
  PROVE  /\ \A i \in 1 .. Len(t) + 1 : OptionsBefore(t, i) \in BlobElements(t)
         /\ \A i \in 1 .. Len(t) : ~t[i].optional => Append(OptionsBefore(t, i), t[i]) \in BlobElements(t)
<1>0. t \in Seq(Children) /\ Len(t) \in Nat /\ Len(t) <= 15
  BY LenProperties DEF IsPlain
<1> DEFINE Ok(i) == \/ OwnNameSecond(t[i])
                    \/ /\ i = Len(t) \/ ~t[i].optional
                       /\ \A j \in 1 .. i : t[j].kind # "any"
<1>1. \A i \in 1 .. Len(t) : IsAbstract(t[i]) => Ok(i)
  BY <1>0 DEF IsPlain
<1>2. ASSUME NEW i \in 1 .. Len(t) + 1 PROVE OptionsBefore(t, i) \in BlobElements(t)
  <2> DEFINE es == OptionsBefore(t, i)
  <2>1. PICK m \in 0 .. i - 1 : /\ es \in Seq(Children)
                                /\ Len(es) = i - 1 - m
                                /\ \A q \in 1 .. i - 1 - m : es[q] = t[m + q] /\ t[m + q].optional
    BY <1>0, BlobBefore
  <2> HIDE DEF es
  <2>2. \A q \in 1 .. Len(es) : /\ m + q \in 1 .. Len(t) /\ es[q] = t[m + q] /\ t[m + q].optional
                                /\ m + q = Len(t) => q = Len(es)
    BY <1>0, <2>1
  <2>3. Len(es) <= 15
    BY <1>0, <2>1
  <2>4. EndsWell(es)
    <3> SUFFICES ASSUME NEW q \in 1 .. Len(es), IsAbstract(es[q]), ~OwnNameSecond(es[q])
                 PROVE  q = Len(es) /\ \A j \in 1 .. Len(es) : es[j].kind # "any"
      BY DEF EndsWell
    <3>1. m + q \in 1 .. Len(t) /\ es[q] = t[m + q] /\ t[m + q].optional /\ (m + q = Len(t) => q = Len(es))
      BY <2>2
    <3>2. Ok(m + q)
      BY <1>1, <3>1
    <3>3. m + q = Len(t) /\ \A j \in 1 .. Len(t) : t[j].kind # "any"
      BY <3>1, <3>2
    <3> QED BY <2>2, <3>1, <3>3
  <2>5. \A q \in 1 .. Len(es) : \E j \in 1 .. Len(t) : es[q] = t[j]
    BY <2>2
  <2>6. es \in BlobElements(t)
    BY <2>1, <2>3, <2>4, <2>5 DEF BlobElements
  <2> QED BY <2>6 DEF es
<1>3. ASSUME NEW i \in 1 .. Len(t), ~t[i].optional
      PROVE  Append(OptionsBefore(t, i), t[i]) \in BlobElements(t)
  <2> DEFINE blob == OptionsBefore(t, i)
             es == Append(blob, t[i])
  <2>0. i \in 1 .. Len(t) + 1
    BY <1>0
  <2>1. PICK m \in 0 .. i - 1 : /\ blob \in Seq(Children)
                                /\ Len(blob) = i - 1 - m
                                /\ \A q \in 1 .. i - 1 - m : blob[q] = t[m + q] /\ t[m + q].optional
    BY <1>0, <2>0, BlobBefore
  <2> HIDE DEF blob
  <2>2. t[i] \in Children
    BY <1>0, ElementOfSeq
  <2>3. /\ es \in Seq(Children) /\ Len(es) = i - m
        /\ \A q \in 1 .. i - 1 - m : es[q] = blob[q]
        /\ es[i - m] = t[i]
    <3>1. /\ es \in Seq(Children) /\ Len(es) = Len(blob) + 1
          /\ \A q \in 1 .. Len(blob) : es[q] = blob[q]
          /\ es[Len(blob) + 1] = t[i]
      BY <2>1, <2>2, AppendProperties
    <3>2. Len(blob) + 1 = i - m
      BY <2>1, <1>0
    <3> HIDE DEF es
    <3> QED BY <2>1, <3>1, <3>2
  <2> HIDE DEF es
  <2>4. \A q \in 1 .. Len(es) : \/ q < Len(es) /\ m + q \in 1 .. i /\ es[q] = t[m + q] /\ t[m + q].optional
                                                /\ m + q # Len(t)
                                \/ q = Len(es) /\ es[q] = t[i]
    <3> SUFFICES ASSUME NEW q \in 1 .. Len(es), q # Len(es)
                 PROVE  q < Len(es) /\ m + q \in 1 .. i /\ es[q] = t[m + q] /\ t[m + q].optional
                                    /\ m + q # Len(t)
      BY <2>3
    <3>1. q \in 1 .. i - 1 - m /\ q < Len(es) /\ m + q \in 1 .. i /\ m + q # Len(t)
      BY <1>0, <2>1, <2>3
    <3> QED BY <2>1, <2>3, <3>1
  <2>5. Len(es) <= 15
    BY <1>0, <2>1, <2>3
  <2>6. \A q \in 1 .. Len(es) : \E j \in 1 .. i : es[q] = t[j]
    <3>1. i \in 1 .. i /\ \A k \in 1 .. i : k \in 1 .. Len(t)
      BY <1>0
    <3> QED BY <2>4, <3>1
  <2>7. EndsWell(es)
    <3> SUFFICES ASSUME NEW q \in 1 .. Len(es), IsAbstract(es[q]), ~OwnNameSecond(es[q])
                 PROVE  q = Len(es) /\ \A j \in 1 .. Len(es) : es[j].kind # "any"
      BY DEF EndsWell
    <3>1. CASE q < Len(es) /\ m + q \in 1 .. i /\ es[q] = t[m + q] /\ t[m + q].optional /\ m + q # Len(t)
      <4>1. m + q \in 1 .. Len(t)
        BY <3>1, <1>0
      <4>2. Ok(m + q)
        BY <1>1, <3>1, <4>1
      <4> QED BY <3>1, <4>2
    <3>2. CASE q = Len(es) /\ es[q] = t[i]
      <4>1. Ok(i)
        BY <1>1, <3>2
      <4>2. \A j \in 1 .. i : t[j].kind # "any"
        BY <3>2, <4>1
      <4> QED BY <2>6, <3>2, <4>2
    <3> QED BY <2>4, <3>1, <3>2
  <2>8. es \in BlobElements(t)
    <3>1. \A j \in 1 .. i : j \in 1 .. Len(t)
      BY <1>0
    <3>2. \A q \in 1 .. Len(es) : \E j \in 1 .. Len(t) : es[q] = t[j]
      BY <2>6, <3>1
    <3> QED BY <2>3, <2>5, <2>7, <3>2 DEF BlobElements
  <2> QED BY <2>8 DEF es, blob
<1> QED
  BY <1>2, <1>3

(* The functions consist of such statements.                               *)
LEMMA StatementsTyped ==
  ASSUME NEW t, IsPlain(t), NEW side_of
  PROVE  Statements(side_of, t) \in Seq(StatementsOf(side_of, t))
<1> DEFINE S == StatementsOf(side_of, t)
           blob(i) == OptionsBefore(t, i)
           At(i) == IF t[i].optional THEN <<>>
                    ELSE IF IsList(t[i])
                      THEN (IF blob(i) = <<>> THEN <<>> ELSE <<Blob(side_of, blob(i), FALSE)>>) \o <<List(t[i])>>
                    ELSE IF IsAbstract(t[i]) THEN <<Blob(side_of, Append(blob(i), t[i]), FALSE)>>
                    ELSE IF blob(i) = <<>> THEN <<Plain(t[i], FALSE)>>
                    ELSE AfterOptions(side_of, blob(i), t[i])
           all == [i \in DOMAIN t |-> At(i)]
           last == blob(Len(t) + 1)
           was_normal_complex == t # <<>> /\ last = <<>> /\ ~IsList(Last(t)) /\ ~IsAbstract(Last(t))
           behind == IF last = <<>> THEN <<>> ELSE <<Blob(side_of, last, TRUE)>>
           finish == IF was_normal_complex THEN <<Finish>> ELSE <<>>
<1>0. t \in Seq(Children) /\ Len(t) \in Nat /\ DOMAIN t = 1 .. Len(t)
  BY LenProperties DEF IsPlain
<1>1. \A s \in S : <<s>> \in Seq(S)
  OBVIOUS
<1>2. <<>> \in Seq(S) /\ \A u, v \in Seq(S) : u \o v \in Seq(S)
  BY ConcatProperties
<1>3. \A es \in BlobElements(t), flag \in BOOLEAN : Blob(side_of, es, flag) \in S
  BY DEF StatementsOf, Blobs
<1>4. \A e \in Children : /\ IsList(e) => List(e) \in S
                          /\ \A flag \in BOOLEAN : Plain(e, flag) \in S
  BY DEF StatementsOf, Particles
<1>5. Finish \in S
  BY DEF StatementsOf, Particles
<1> HIDE DEF S
<1>6. ASSUME NEW i \in DOMAIN t PROVE At(i) \in Seq(S)
  <2>1. i \in 1 .. Len(t) + 1 /\ i \in 1 .. Len(t)
    BY <1>0
  <2>2. blob(i) \in BlobElements(t) /\ (~t[i].optional => Append(blob(i), t[i]) \in BlobElements(t))
    BY <2>1, BlobsEndWell
  <2>3. t[i] \in Children
    BY <1>0, <2>1, ElementOfSeq
  <2>4. /\ <<Blob(side_of, blob(i), FALSE)>> \in Seq(S)
        /\ <<Blob(side_of, blob(i), TRUE)>> \in Seq(S)
        /\ ~t[i].optional => <<Blob(side_of, Append(blob(i), t[i]), FALSE)>> \in Seq(S)
        /\ IsList(t[i]) => <<List(t[i])>> \in Seq(S)
        /\ <<Plain(t[i], FALSE)>> \in Seq(S)
        /\ <<Plain(t[i], TRUE)>> \in Seq(S)
    BY <1>1, <1>3, <1>4, <2>2, <2>3, Zenon
  <2> DEFINE early == IF blob(i) = <<>> THEN <<>> ELSE <<Blob(side_of, blob(i), FALSE)>>
  <2>5. early \in Seq(S)
    BY <1>2, <2>4
  <2>6. IsList(t[i]) => early \o <<List(t[i])>> \in Seq(S)
    <3> HIDE DEF early
    <3> QED BY <1>2, <2>4, <2>5, Zenon
  <2>7. ~t[i].optional => AfterOptions(side_of, blob(i), t[i]) \in Seq(S)
    <3>1. SUFFICES ASSUME ~t[i].optional PROVE AfterOptions(side_of, blob(i), t[i]) \in Seq(S)
      OBVIOUS
    <3> DEFINE a == Blob(side_of, Append(blob(i), t[i]), FALSE)
               b == Blob(side_of, blob(i), TRUE)
               c == Plain(t[i], TRUE)
    <3>2. a \in S /\ b \in S /\ c \in S
      BY <1>3, <1>4, <2>2, <2>3, <3>1, Zenon
    <3>3. AfterOptions(side_of, blob(i), t[i]) = <<a>> \/ AfterOptions(side_of, blob(i), t[i]) = <<b, c>>
      BY DEF AfterOptions
    <3> HIDE DEF a, b, c
    <3>4. <<a>> \in Seq(S) /\ <<b, c>> \in Seq(S)
      BY <3>2
    <3> QED BY <3>3, <3>4
  <2> HIDE DEF blob
  <2> QED
    BY <1>2, <2>4, <2>6, <2>7 DEF blob
<1> HIDE DEF At
<1>7. all \in Seq(Seq(S))
  <2>1. all \in [1 .. Len(t) -> Seq(S)]
    BY <1>0, <1>6
  <2> QED BY <1>0, <2>1
<1>8. FlattenSeq(all) \in Seq(S)
  <2> HIDE DEF all
  <2> QED BY <1>7, FlattenIn
<1>9. behind \in Seq(S)
  <2>1. Len(t) + 1 \in 1 .. Len(t) + 1
    BY <1>0
  <2>2. last \in BlobElements(t)
    BY <2>1, BlobsEndWell
  <2>3. <<Blob(side_of, last, TRUE)>> \in Seq(S)
    BY <1>1, <1>3, <2>2, Zenon
  <2> QED BY <1>2, <2>3
<1>10. finish \in Seq(S)
  BY <1>1, <1>2, <1>5
<1>11. Statements(side_of, t) = FlattenSeq(all) \o behind \o finish
  BY DEF Statements, all, behind, finish, At
<1> HIDE DEF all, behind, finish
<1>12. FlattenSeq(all) \o behind \in Seq(S)
  BY <1>2, <1>8, <1>9, Zenon
<1>13. FlattenSeq(all) \o behind \o finish \in Seq(S)
  BY <1>2, <1>10, <1>12, Zenon
<1> QED
  BY <1>11, <1>13 DEF S

(* What a statement consists of.                                           *)
LEMMA StatementHas ==
  ASSUME NEW t, IsPlain(t), NEW side_of, NEW s \in StatementsOf(side_of, t)
  PROVE  /\ s.op \in {"element", "list", "blob", "finish"}
         /\ s.op \in {"element", "list"} => s.elements # <<>> /\ s.elements[1] \in Children
         /\ s.op = "list" => IsList(s.elements[1])
         /\ s.op = "element" => s.flag \in BOOLEAN
         /\ s.op = "blob" =>
              \E es \in BlobElements(t) :
                /\ s.flag \in BOOLEAN
                /\ s.elements = sort_optional_and_abstract_elements(es)
                /\ s.flat = IF side_of = "encoder" THEN get_all_elements_flat2(s.elements)
                            ELSE get_all_elements_flat(s.elements)
<1>1. CASE s \in {List(e) : e \in {e \in Children : IsList(e)}}
  <2>1. PICK e \in Children : IsList(e) /\ s = List(e)
    BY <1>1
  <2>2. s.op = "list" /\ s.elements = <<e>>
    BY <2>1 DEF List, Statement
  <2>3. \A x : <<x>> # <<>> /\ <<x>>[1] = x
    OBVIOUS
  <2> QED BY <2>1, <2>2, <2>3
<1>2. CASE s \in {Plain(e, flag) : e \in Children, flag \in BOOLEAN}
  <2>1. PICK e \in Children, flag \in BOOLEAN : s = Plain(e, flag)
    BY <1>2
  <2>2. s.op = "element" /\ s.elements = <<e>> /\ s.flag = flag
    BY <2>1 DEF Plain, Statement
  <2>3. \A x : <<x>> # <<>> /\ <<x>>[1] = x
    OBVIOUS
  <2> QED BY <2>1, <2>2, <2>3
<1>3. CASE s = Finish
  BY <1>3 DEF Finish, Statement
<1>4. CASE s \in Blobs(side_of, t)
  <2>1. PICK es \in BlobElements(t), flag \in BOOLEAN : s = Blob(side_of, es, flag)
    BY <1>4 DEF Blobs
  <2> DEFINE sorted == sort_optional_and_abstract_elements(es)
             flat == IF side_of = "encoder" THEN get_all_elements_flat2(sorted)
                     ELSE get_all_elements_flat(sorted)
  <2>2. s = [op |-> "blob", elements |-> sorted, flag |-> flag, flat |-> flat]
    <3>1. s = [[op |-> "blob", elements |-> sorted, flag |-> flag, flat |-> <<>>] EXCEPT !.flat = flat]
      BY <2>1 DEF Blob, Statement
    <3> HIDE DEF flat, sorted
    <3> QED BY <3>1
  <2>3. s.op = "blob" /\ s.elements = sorted /\ s.flag = flag /\ s.flat = flat
    <3> HIDE DEF flat, sorted
    <3> QED BY <2>2
  <2> QED
    BY <2>1, <2>3
<1> QED
  BY <1>1, <1>2, <1>3, <1>4 DEF StatementsOf, Particles

(* The elements of a blob, sorted, and its options.                        *)
LEMMA BlobHas ==
  ASSUME NEW t, IsPlain(t), NEW side_of, NEW s \in StatementsOf(side_of, t), s.op = "blob"
  PROVE  /\ s.flag \in BOOLEAN
         /\ s.elements \in Seq(Children) /\ Len(s.elements) \in 0 .. 15
         /\ s.flat \in Seq(Elements) /\ Len(s.flat) \in 0 .. 225
         /\ side_of = "encoder" => s.flat = get_all_elements_flat2(s.elements)
         /\ \A k \in 1 .. Len(s.elements) : \E i \in 1 .. Len(t) : s.elements[k] = t[i]
         /\ \A k \in 1 .. Len(s.elements) - 1 : IsAbstract(s.elements[k]) => OwnNameSecond(s.elements[k])
         /\ get_num_AnyElements(s.elements) \in 0 .. 15
<1>1. PICK es \in BlobElements(t) : /\ s.flag \in BOOLEAN
                                    /\ s.elements = sort_optional_and_abstract_elements(es)
                                    /\ s.flat = IF side_of = "encoder" THEN get_all_elements_flat2(s.elements)
                                                ELSE get_all_elements_flat(s.elements)
  BY StatementHas
<1>2. /\ es \in Seq(Children) /\ Len(es) <= 15 /\ EndsWell(es)
      /\ \A k \in 1 .. Len(es) : \E i \in 1 .. Len(t) : es[k] = t[i]
  BY DEF BlobElements
<1>3. es \in Seq(Elements)
  <2>1. Children \subseteq Elements
    BY DEF Children
  <2> HIDE DEF Elements
  <2> QED BY <1>2, <2>1
<1> DEFINE sorted == s.elements
<1>4. /\ sorted \in Seq(Elements)
      /\ Len(sorted) <= Len(es)
      /\ \A k \in 1 .. Len(sorted) : \E j \in 1 .. Len(es) : sorted[k] = es[j]
      /\ \A k \in 1 .. Len(sorted) - 1 : IsAbstract(sorted[k]) => OwnNameSecond(sorted[k])
  BY <1>1, <1>2, <1>3, Sorted
<1> HIDE DEF sorted
<1>5. Len(sorted) \in 0 .. 15
  <2>1. Len(sorted) \in Nat /\ Len(es) \in Nat
    BY <1>2, <1>4, LenProperties
  <2>2. \A x, y \in Nat : x <= y /\ y <= 15 => x \in 0 .. 15
    OBVIOUS
  <2> QED BY <1>2, <1>4, <2>1, <2>2, Zenon
<1>6. sorted \in Seq(Children)
  <2>1. \A k \in 1 .. Len(sorted) : sorted[k] \in Children
    BY <1>2, <1>4, ElementOfSeq
  <2>2. sorted = [k \in 1 .. Len(sorted) |-> sorted[k]] /\ Len(sorted) \in Nat
    BY <1>4
  <2>3. [k \in 1 .. Len(sorted) |-> sorted[k]] \in Seq(Children)
    BY <2>1, <2>2
  <2> QED BY <2>2, <2>3
<1>7. \A k \in 1 .. Len(sorted) : \E i \in 1 .. Len(t) : sorted[k] = t[i]
  BY <1>2, <1>4
<1>8. s.flat \in Seq(Elements) /\ Len(s.flat) \in 0 .. 225
  <2>1. /\ s.flat \in Seq(Elements) /\ Len(s.flat) \in Nat /\ Len(s.flat) <= 15 * Len(sorted)
    BY <1>1, <1>6, TableLength, CasesLength DEF sorted
  <2>2. \A x \in Nat, n \in 0 .. 15 : x <= 15 * n => x \in 0 .. 225
    OBVIOUS
  <2> QED BY <1>5, <2>1, <2>2, Zenon
<1>9. get_num_AnyElements(sorted) \in 0 .. 15
  <2>1. get_num_AnyElements(sorted) \in Nat /\ get_num_AnyElements(sorted) <= Len(sorted)
    BY <1>4, AnyElements
  <2>2. \A x \in Nat, n \in 0 .. 15 : x <= n => x \in 0 .. 15
    OBVIOUS
  <2> QED BY <1>5, <2>1, <2>2, Zenon
<1> QED
  BY <1>1, <1>4, <1>5, <1>6, <1>7, <1>8, <1>9 DEF sorted

(***************************************************************************)
(* The symbols of the stream.                                              *)
(***************************************************************************)
Symbol == STRING \cup {"0", "1"}

(* An event code has as many symbols as bits.                              *)
LEMMA EventCodeLength ==
  ASSUME NEW c, NEW n \in Nat
  PROVE  EventCode(c, n) \in Seq(Symbol) /\ Len(EventCode(c, n)) = n
<1> DEFINE Bit(i) == IF (c \div 2 ^ (n - i)) % 2 = 0 THEN "0" ELSE "1"
<1>1. \A i \in 1 .. n : Bit(i) \in Symbol
  BY Zenon DEF Symbol
<1> HIDE DEF Bit
<1>2. [i \in 1 .. n |-> Bit(i)] \in Seq(Symbol) /\ Len([i \in 1 .. n |-> Bit(i)]) = n
  BY <1>1
<1> QED
  BY <1>2 DEF EventCode, Bit

(* Sequences of symbols, put behind one another.                           *)
LEMMA Symbols ==
  /\ \A a, b \in Seq(Symbol) : a \o b \in Seq(Symbol) /\ Len(a \o b) = Len(a) + Len(b)
  /\ \A name \in STRING : <<name>> \in Seq(Symbol) /\ Len(<<name>>) = 1
  /\ <<>> \in Seq(Symbol) /\ Len(<<>>) = 0
  /\ \A a \in Seq(Symbol) : Len(a) \in Nat
<1>1. \A a, b \in Seq(Symbol) : a \o b \in Seq(Symbol) /\ Len(a \o b) = Len(a) + Len(b)
  BY ConcatProperties
<1>2. \A name \in STRING : <<name>> \in Seq(Symbol)
  <2>1. \A S : \A x \in S : <<x>> \in Seq(S)
    OBVIOUS
  <2>2. STRING \subseteq Symbol
    BY Zenon DEF Symbol
  <2> QED BY <2>1, <2>2, Zenon
<1>3. \A x : Len(<<x>>) = 1
  OBVIOUS
<1>4. <<>> \in Seq(Symbol) /\ Len(<<>>) = 0
  OBVIOUS
<1>5. \A a \in Seq(Symbol) : Len(a) \in Nat
  BY LenProperties
<1> QED
  BY <1>1, <1>2, <1>3, <1>4, <1>5, Zenon

(* The symbols of a simple or complex content, at least one.               *)
LEMMA ContentSymbols ==
  ASSUME NEW name \in STRING, NEW c
  PROVE  /\ EventCode(0, 1) \o <<name>> \o EventCode(0, 1) \in Seq(Symbol)
         /\ Len(EventCode(0, 1) \o <<name>> \o EventCode(0, 1)) = 3
         /\ <<name>> \in Seq(Symbol) /\ Len(<<name>>) = 1
<1> DEFINE a == EventCode(0, 1)
           b == <<name>>
<1>1. a \in Seq(Symbol) /\ Len(a) = 1
  BY EventCodeLength
<1>2. b \in Seq(Symbol) /\ Len(b) = 1
  BY Symbols
<1> HIDE DEF a, b
<1>3. a \o b \in Seq(Symbol) /\ Len(a \o b) = 1 + 1
  BY <1>1, <1>2, Symbols, Zenon
<1> DEFINE ab == a \o b
<1>4. ab \in Seq(Symbol) /\ Len(ab) = 2
  BY <1>3
<1> HIDE DEF ab
<1>5. ab \o a \in Seq(Symbol) /\ Len(ab \o a) = 2 + 1
  BY <1>1, <1>4, Symbols, Zenon
<1>6. 2 + 1 = 3
  OBVIOUS
<1> QED
  BY <1>2, <1>5, <1>6 DEF a, b, ab

(* What is written and read for an element, which is one symbol at least.  *)
LEMMA ElementSymbols ==
  ASSUME NEW e \in Elements, NEW from_optional
  PROVE  /\ encode_element(e, from_optional) \in Seq(Symbol)
         /\ decode_element(e, from_optional) \in Seq(Symbol)
         /\ Len(decode_element(e, from_optional)) >= 1
         /\ decode_item(e) \in Seq(Symbol) /\ Len(decode_item(e)) >= 1
         /\ decode_list_start(e) \in Seq(Symbol)
<1>1. e.name \in STRING
  BY DEF Elements
<1> DEFINE a == IF from_optional THEN <<>> ELSE EventCode(0, 1)
           s == EventCode(0, 1) \o <<e.name>> \o EventCode(0, 1)
           b == IF e.kind \in {"simple", "any"} THEN s ELSE <<e.name>>
           d == IF e.kind = "simple" THEN s ELSE <<e.name>>
<1>2. a \in Seq(Symbol) /\ (IF e.optional THEN <<>> ELSE EventCode(0, 1)) \in Seq(Symbol)
  BY Symbols, EventCodeLength
<1>3. s \in Seq(Symbol) /\ Len(s) = 3 /\ <<e.name>> \in Seq(Symbol) /\ Len(<<e.name>>) = 1
  BY <1>1, ContentSymbols
<1> HIDE DEF s
<1>4. /\ b \in Seq(Symbol) /\ (Len(b) = 3 \/ Len(b) = 1)
      /\ d \in Seq(Symbol) /\ (Len(d) = 3 \/ Len(d) = 1)
  BY <1>3, Zenon
<1>5. encode_element(e, from_optional) = a \o b /\ decode_element(e, from_optional) = a \o b
      /\ decode_item(e) = d
  BY DEF encode_element, decode_element, decode_item, s
<1> HIDE DEF a, b, d
<1>6. a \o b \in Seq(Symbol) /\ Len(a \o b) = Len(a) + Len(b) /\ Len(a) \in Nat
  BY <1>2, <1>4, Symbols
<1>7. Len(a \o b) >= 1 /\ Len(d) >= 1
  <2>1. \A x \in Nat : x + 3 >= 1 /\ x + 1 >= 1 /\ 3 >= 1 /\ 1 >= 1
    OBVIOUS
  <2> QED BY <1>4, <1>6, <2>1, Zenon
<1> QED
  BY <1>2, <1>4, <1>5, <1>6, <1>7 DEF decode_list_start

(* What encode_list writes.                                                *)
LEMMA ListSymbols ==
  ASSUME NEW e \in Elements, NEW n \in Nat
  PROVE  encode_list(e, n) \in Seq(Symbol)
<1>1. e.name \in STRING
  BY DEF Elements
<1> DEFINE s == EventCode(0, 1) \o <<e.name>> \o EventCode(0, 1)
           d == IF e.kind = "simple" THEN s ELSE <<e.name>>
           b(i) == IF i < n THEN EventCode(0, 2) ELSE IF i = e.max THEN <<>> ELSE EventCode(1, 2)
           items == [i \in 1 .. n |-> d \o b(i)]
<1>2. d \in Seq(Symbol)
  BY <1>1, ContentSymbols
<1>3. \A i \in 1 .. n : b(i) \in Seq(Symbol)
  BY EventCodeLength, Symbols
<1> HIDE DEF d, b
<1>4. \A i \in 1 .. n : d \o b(i) \in Seq(Symbol)
  BY <1>2, <1>3, Symbols
<1>5. items \in Seq(Seq(Symbol))
  BY <1>4
<1> HIDE DEF items
<1>6. FlattenSeq(items) \in Seq(Symbol)
  BY <1>5, FlattenIn
<1>7. EventCode(0, 1) \in Seq(Symbol)
  BY EventCodeLength
<1>8. encode_list(e, n) = EventCode(0, 1) \o FlattenSeq(items)
  BY DEF encode_list, items, d, b
<1> QED
  BY <1>6, <1>7, <1>8, Symbols

(* What the encoder writes for an element.                                 *)
LEMMA EncodedSymbols ==
  ASSUME NEW e \in Elements, Encodable(e), NEW from_optional
  PROVE  Encoded(e, from_optional) \in Seq(Symbol)
<1>1. CASE IsList(e)
  <2>1. size(e.name) \in 1 .. e.max /\ e.max \in Nat
    BY <1>1 DEF Encodable, Elements
  <2>2. size(e.name) \in Nat
    BY <2>1
  <2> QED BY <1>1, <2>2, ListSymbols DEF Encoded
<1>2. CASE ~IsList(e)
  BY <1>2, ElementSymbols DEF Encoded
<1> QED
  BY <1>1, <1>2

(***************************************************************************)
(* The widths of the event codes of a blob.                                *)
(***************************************************************************)
LEMMA NumElements ==
  ASSUME NEW t, IsPlain(t), NEW side_of, NEW s \in StatementsOf(side_of, t), s.op = "blob"
  PROVE  /\ get_num_elements(s) \in 2 .. 242
         /\ get_num_elements(s) >= Len(s.flat) + 1 + One(s.flag)
<1> DEFINE l == Len(s.flat)
           a == get_num_AnyElements(s.elements)
           o == One(s.flag)
           n == AtLeast(2, l + a + 1 + o)
<1>1. l \in 0 .. 225 /\ a \in 0 .. 15 /\ o \in 0 .. 1
  BY BlobHas DEF One
<1>2. get_num_elements(s) = n
  BY DEF get_num_elements
<1> HIDE DEF l, a, o
<1>3. n \in 2 .. 242 /\ n >= l + 1 + o
  BY <1>1 DEF AtLeast
<1> QED
  BY <1>2, <1>3 DEF l, o

(* The encoder's first code has two bits or more, and enough for every     *)
(* entry of the table and for its end.                                     *)
LEMMA FirstWidth ==
  ASSUME NEW t, IsPlain(t), NEW s \in StatementsOf("encoder", t), s.op = "blob"
  PROVE  LET bits == AtLeast(2, ceil_log2(get_num_elements(s)))
         IN  bits \in 2 .. 8 /\ Len(s.flat) < 2 ^ bits
<1> DEFINE l == Len(s.flat)
           n == get_num_elements(s)
           k == ceil_log2(n)
           bits == AtLeast(2, k)
<1>1. l \in 0 .. 225 /\ n \in 2 .. 242 /\ n >= l + 1
  <2> DEFINE o == One(s.flag)
  <2>1. l \in 0 .. 225
    BY BlobHas
  <2>2. o \in 0 .. 1
    BY DEF One
  <2>3. n \in 2 .. 242 /\ n >= l + 1 + o
    BY NumElements
  <2> HIDE DEF l, n, o
  <2> QED BY <2>1, <2>2, <2>3
<1> HIDE DEF l, n
<1>2. n \in Int /\ n <= 256
  BY <1>1
<1>3. k \in 0 .. 8 /\ n <= 2 ^ k
  BY <1>2, CeilLog2
<1> HIDE DEF k
<1>4. bits \in 2 .. 8
  BY <1>3 DEF AtLeast
<1>5. n <= 2 ^ bits
  <2>1. CASE k >= 2
    <3>1. bits = k
      BY <1>3, <2>1 DEF AtLeast
    <3> HIDE DEF bits
    <3> QED BY <1>3, <3>1
  <2>2. CASE k = 0 \/ k = 1
    <3>1. bits = 2
      BY <2>2 DEF AtLeast
    <3>2. 2 ^ 0 = 1 /\ 2 ^ 1 = 2 /\ 2 ^ 2 = 4
      BY SMT
    <3>3. n <= 1 \/ n <= 2
      BY <1>3, <2>2, <3>2
    <3>4. n <= 4
      BY <1>1, <3>3
    <3> HIDE DEF bits
    <3> QED BY <3>1, <3>2, <3>4
  <2> QED
    BY <1>3, <2>1, <2>2
<1>6. 2 ^ bits \in Nat
  <2> HIDE DEF bits
  <2>1. bits \in 0 .. 8
    BY <1>4
  <2> QED BY <2>1, SmallPowers, Zenon
<1> DEFINE p == 2 ^ bits
<1>7. l < p
  <2> HIDE DEF bits
  <2>1. p \in Nat /\ n <= p
    BY <1>5, <1>6
  <2> HIDE DEF p
  <2> QED BY <1>1, <2>1
<1> QED
  BY <1>4, <1>7 DEF l, k, n

(* The encoder's width after option i has enough for what is left of the   *)
(* table behind the last entry of the same element, and for its end.       *)
LEMMA NextWidth ==
  ASSUME NEW t, IsPlain(t), NEW s \in StatementsOf("encoder", t), s.op = "blob",
         NEW i \in 0 .. Len(s.flat) - 1
  PROVE  LET bits == get_num_bits_eventcode_regarding_abstract(s, i)
             c == counter_value(s.elements, i)
         IN  /\ bits \in 0 .. 8
             /\ c \in 0 .. Len(s.flat) - 1
             /\ Len(s.flat) - c <= 2 ^ bits
             /\ c < Len(s.flat) - 1 => bits # 0
<1> DEFINE l == Len(s.flat)
           es == s.elements
           n == get_num_elements(s)
           c == counter_value(es, i)
           r == One(~Last(es).optional \/ s.flag)
           x == AtLeast(1, n - c - r)
           bits == ceil_log2(x)
<1>1. s.flag \in BOOLEAN /\ es \in Seq(Children) /\ s.flat = get_all_elements_flat2(es) /\ l \in 0 .. 225
  BY BlobHas
<1>2. c \in 0 .. l - 1
  <2>1. PICK k \in 1 .. Len(es) : c = End(es, k)
    BY <1>1, CounterValue
  <2>2. End(es, k) \in Nat /\ End(es, k) < l
    BY <1>1, Bounds
  <2> HIDE DEF c, l
  <2> QED BY <1>1, <2>1, <2>2
<1>3. n \in 2 .. 242 /\ n >= l + 1 /\ r \in 0 .. 1
  <2> DEFINE o == One(s.flag)
  <2>1. l \in 0 .. 225
    BY <1>1
  <2>2. o \in 0 .. 1 /\ r \in 0 .. 1
    BY DEF One
  <2>3. n \in 2 .. 242 /\ n >= l + 1 + o
    BY NumElements
  <2> HIDE DEF l, n, o, r
  <2> QED BY <2>1, <2>2, <2>3
<1>4. get_num_bits_eventcode_regarding_abstract(s, i) = bits
  BY DEF get_num_bits_eventcode_regarding_abstract
<1> HIDE DEF l, n, r, c
<1>5. x \in 1 .. 242 /\ x >= l - c
  BY <1>1, <1>2, <1>3 DEF AtLeast
<1> HIDE DEF x
<1>6. x \in Int /\ x <= 256
  BY <1>5
<1>7. bits \in 0 .. 8 /\ x <= 2 ^ bits /\ (x >= 2 => bits # 0)
  BY <1>6, CeilLog2
<1> DEFINE p == 2 ^ bits
<1>8. p \in Nat
  <2> HIDE DEF bits
  <2> QED BY <1>7, SmallPowers
<1>9. l - c <= p
  <2>1. x <= p
    BY <1>7
  <2> HIDE DEF p
  <2> QED BY <1>1, <1>2, <1>5, <1>8, <2>1
<1>10. c < l - 1 => x >= 2
  BY <1>1, <1>2, <1>5
<1> QED
  BY <1>2, <1>4, <1>7, <1>9, <1>10 DEF l, c

(* The decoder's widths.                                                   *)
LEMMA DecoderWidth ==
  ASSUME NEW t, IsPlain(t), NEW side_of, NEW s \in StatementsOf(side_of, t), s.op = "blob",
         NEW progress \in Nat, NEW least \in 0 .. 2
  PROVE  AtLeast(least, get_num_eventcode_bits(s, progress)) \in 0 .. 8
<1> DEFINE l == Len(s.flat)
           a == get_num_AnyElements(s.elements)
           o == One(s.flag)
           n == 1 + l + a - progress + o
           bits == ceil_log2(n)
<1>1. l \in 0 .. 225 /\ a \in 0 .. 15 /\ o \in 0 .. 1
  BY BlobHas DEF One
<1>2. get_num_eventcode_bits(s, progress) = bits
  BY DEF get_num_eventcode_bits
<1> HIDE DEF l, a, o
<1>3. n \in Int /\ n <= 256
  BY <1>1
<1> HIDE DEF n
<1>4. bits \in 0 .. 8
  BY <1>3, CeilLog2
<1> HIDE DEF bits
<1> QED
  BY <1>2, <1>4 DEF AtLeast

(* The sum of the widths of the options up to one.                         *)
LEMMA WhileLoopOffset ==
  ASSUME Flat \in Seq(Elements), NEW i \in 0 .. Len(Flat) - 1
  PROVE  while_loop_offset(i) \in Nat
<1> DEFINE Value(f, k) == IF k = 0 THEN 0 ELSE f[k - 1] + Flat[k].per_base
           IsSum(f, n) == f = [k \in 0 .. n |-> Value(f, k)]
           Sums == {n \in Nat : n <= Len(Flat) =>
                      \E f : IsSum(f, n) /\ \A k \in 0 .. n : f[k] \in Nat}
<1>0. Len(Flat) \in Nat /\ \A k \in 1 .. Len(Flat) : Flat[k].per_base \in Nat
  <2>1. \A k \in 1 .. Len(Flat) : Flat[k] \in Elements
    BY ElementOfSeq
  <2> QED BY <2>1, LenProperties DEF Elements
<1> HIDE DEF Flat
<1>1. 0 \in Sums
  <2> DEFINE g == [k \in 0 .. 0 |-> 0]
  <2>1. IsSum(g, 0) /\ \A k \in 0 .. 0 : g[k] \in Nat
    OBVIOUS
  <2> HIDE DEF g, IsSum
  <2> QED BY <2>1
<1>2. ASSUME NEW n \in Nat, n \in Sums PROVE n + 1 \in Sums
  <2>1. SUFFICES ASSUME n + 1 <= Len(Flat)
                 PROVE  \E g : IsSum(g, n + 1) /\ \A k \in 0 .. n + 1 : g[k] \in Nat
    <3> HIDE DEF IsSum
    <3> QED OBVIOUS
  <2>2. n <= Len(Flat) /\ n + 1 \in 1 .. Len(Flat)
    BY <1>0, <2>1
  <2>3. PICK f : IsSum(f, n) /\ \A k \in 0 .. n : f[k] \in Nat
    <3> HIDE DEF IsSum
    <3> QED BY <1>2, <2>2
  <2> DEFINE g == [k \in 0 .. n + 1 |-> IF k = n + 1 THEN f[n] + Flat[n + 1].per_base ELSE f[k]]
  <2>4. /\ \A k \in 0 .. n : g[k] = f[k]
        /\ g[n + 1] = f[n] + Flat[n + 1].per_base
        /\ \A k \in 0 .. n + 1 : k \in 0 .. n \/ k = n + 1
    OBVIOUS
  <2>5. ASSUME NEW k \in 0 .. n + 1 PROVE g[k] = Value(g, k)
    <3>1. CASE k \in 0 .. n
      <4>1. f[k] = Value(f, k)
        <5> HIDE DEF Value
        <5> QED BY <2>3, <3>1
      <4>2. k # 0 => k - 1 \in 0 .. n
        BY <3>1
      <4>3. k # 0 => g[k - 1] = f[k - 1]
        <5> HIDE DEF g
        <5> QED BY <2>4, <4>2
      <4> HIDE DEF g
      <4> QED BY <2>4, <3>1, <4>1, <4>3
    <3>2. CASE k = n + 1
      <4>1. k # 0 /\ k - 1 = n /\ n \in 0 .. n
        BY <3>2
      <4> HIDE DEF g
      <4> QED BY <2>4, <3>2, <4>1
    <3> QED BY <2>4, <3>1, <3>2
  <2>6. g = [k \in 0 .. n + 1 |-> g[k]]
    OBVIOUS
  <2>7. IsSum(g, n + 1)
    <3>1. [k \in 0 .. n + 1 |-> g[k]] = [k \in 0 .. n + 1 |-> Value(g, k)]
      <4> HIDE DEF g, Value
      <4> QED BY <2>5
    <3> HIDE DEF g
    <3> QED BY <2>6, <3>1
  <2>8. ASSUME NEW k \in 0 .. n + 1 PROVE g[k] \in Nat
    <3>1. f[n] \in Nat /\ Flat[n + 1].per_base \in Nat
      <4>1. n \in 0 .. n
        OBVIOUS
      <4> QED BY <1>0, <2>2, <2>3, <4>1
    <3>2. f[n] + Flat[n + 1].per_base \in Nat
      BY <3>1
    <3> HIDE DEF g
    <3> QED BY <2>3, <2>4, <3>2
  <2> HIDE DEF g, IsSum
  <2> QED
    BY <2>7, <2>8
<1>3. \A n \in Nat : n \in Sums
  <2> HIDE DEF Sums
  <2> QED BY <1>1, <1>2, Induction
<1>4. i + 1 \in Nat /\ i + 1 <= Len(Flat) /\ i + 1 \in 0 .. i + 1
  BY <1>0
<1> DEFINE sum == CHOOSE f : IsSum(f, i + 1)
<1>5. IsSum(sum, i + 1)
  <2>1. \E f : IsSum(f, i + 1)
    <3> HIDE DEF IsSum
    <3> QED BY <1>3, <1>4
  <2> HIDE DEF IsSum
  <2> QED BY <2>1
<1>6. while_loop_offset(i) = sum[i + 1]
  BY DEF while_loop_offset
<1> HIDE DEF sum
<1>7. \A k \in 0 .. i + 1 : sum[k] = Value(sum, k)
  <2> HIDE DEF Value
  <2> QED BY <1>5
<1> DEFINE T == {k \in Nat : k \in 0 .. i + 1 => sum[k] \in Nat}
<1>8. 0 \in T
  <2>1. 0 \in 0 .. i + 1
    BY <1>4
  <2> QED BY <1>7, <2>1
<1>9. ASSUME NEW k \in Nat, k \in T PROVE k + 1 \in T
  <2>1. SUFFICES ASSUME k + 1 \in 0 .. i + 1 PROVE sum[k + 1] \in Nat
    OBVIOUS
  <2>2. k \in 0 .. i + 1 /\ k + 1 # 0 /\ (k + 1) - 1 = k /\ k + 1 \in 1 .. Len(Flat)
    BY <1>0, <2>1
  <2>3. sum[k + 1] = sum[k] + Flat[k + 1].per_base
    BY <1>7, <2>1, <2>2
  <2>4. sum[k] \in Nat /\ Flat[k + 1].per_base \in Nat
    BY <1>0, <1>9, <2>2
  <2> QED BY <2>3, <2>4
<1>10. \A k \in Nat : k \in T
  <2> HIDE DEF T
  <2> QED BY <1>8, <1>9, Induction
<1> QED
  BY <1>4, <1>6, <1>10

(***************************************************************************)
(* Type correctness.                                                       *)
(***************************************************************************)
SideOf == IF side \in {"decoder", "done"} THEN "decoder" ELSE "encoder"

EncoderOptions(n) == [order : Seq(0 .. n - 1), offset : Nat, last_option_taken : BOOLEAN, num_bits : 0 .. 8]
DecoderOptions    == [ec : Nat, taken : BOOLEAN]

OptionsTyped ==
  options # None => /\ code # <<>> /\ Head(code).op = "blob"
                    /\ SideOf = "encoder" => options \in EncoderOptions(Len(Flat))
                    /\ SideOf = "decoder" => /\ options \in DecoderOptions
                                             /\ options.taken \/ list # None => options.ec < Len(Flat)

ListTyped ==
  list # None => /\ code # <<>> /\ Head(code).op = (IF options = None THEN "list" ELSE "blob")
                 /\ list \in [element : Elements, items : Nat] /\ list.items < list.element.max

TInv ==
  /\ IsPlain(type)
  /\ side \in {"encoder", "decoder", "done", "thrown"}
  /\ code \in Seq(StatementsOf(SideOf, type))
  /\ stream \in Seq(Symbol) /\ decoded \in Seq(STRING)
  /\ position \in 0 .. Len(stream) /\ Len(decoded) <= position
  /\ side \in {"encoder", "thrown"} => position = 0 /\ list = None
  /\ side = "done" => options = None /\ list = None
  /\ OptionsTyped /\ ListTyped

(* It holds at the beginning.                                              *)
LEMMA InitTyped == Init => TInv
<1> SUFFICES ASSUME Init PROVE TInv
  OBVIOUS
<1>1. IsPlain(type)
  BY SchemaAssumption DEF Init
<1>2. side = "encoder" /\ code = Statements("encoder", type) /\ stream = <<>> /\ position = 0
      /\ options = None /\ list = None /\ decoded = <<>>
  BY DEF Init, getEncodeFunction
<1>3. SideOf = "encoder"
  BY <1>2 DEF SideOf
<1>4. code \in Seq(StatementsOf(SideOf, type))
  BY <1>1, <1>2, <1>3, StatementsTyped
<1>5. stream \in Seq(Symbol) /\ decoded \in Seq(STRING) /\ position \in 0 .. Len(stream) /\ Len(decoded) <= position
  <2>1. \A S : <<>> \in Seq(S)
    OBVIOUS
  <2>2. Len(<<>>) = 0 /\ 0 \in 0 .. 0 /\ 0 <= 0
    OBVIOUS
  <2> QED BY <1>2, <2>1, <2>2, Zenon
<1> QED
  BY <1>1, <1>2, <1>4, <1>5 DEF TInv, OptionsTyped, ListTyped

(* The statement that runs.                                                *)
LEMMA HereIsStatement ==
  ASSUME TInv, code # <<>>
  PROVE  Here \in StatementsOf(SideOf, type) /\ Tail(code) \in Seq(StatementsOf(SideOf, type))
<1> DEFINE S == StatementsOf(SideOf, type)
<1>1. code \in Seq(S)
  BY DEF TInv
<1> HIDE DEF S
<1>2. Head(code) \in S /\ Tail(code) \in Seq(S)
  BY <1>1, HeadTailProperties
<1> QED
  BY <1>2 DEF S, Here

(* Its element, if it is about one.                                        *)
LEMMA ParticleHere ==
  ASSUME TInv, code # <<>>, Head(code).op \in {"element", "list"}
  PROVE  Here.elements[1] \in Elements /\ Here.elements # <<>> /\ (Head(code).op = "list" => IsList(Here.elements[1]))
<1>1. Here \in StatementsOf(SideOf, type) /\ IsPlain(type)
  BY HereIsStatement DEF TInv
<1>2. Here.elements # <<>> /\ Here.elements[1] \in Children /\ (Here.op = "list" => IsList(Here.elements[1]))
  BY <1>1, StatementHas DEF Here
<1> QED
  BY <1>2 DEF Children, Here

(* Its table or its cases, if it is a blob.                                *)
LEMMA BlobHere ==
  ASSUME TInv, code # <<>>, Head(code).op = "blob"
  PROVE  /\ Here \in StatementsOf(SideOf, type) /\ IsPlain(type)
         /\ Flat \in Seq(Elements) /\ Len(Flat) \in 0 .. 225
<1>1. Here \in StatementsOf(SideOf, type) /\ IsPlain(type)
  BY HereIsStatement DEF TInv
<1>2. Here.flat \in Seq(Elements) /\ Len(Here.flat) \in 0 .. 225
  BY <1>1, BlobHas DEF Here
<1> QED
  BY <1>1, <1>2 DEF Here, Flat

(* What a step of the encoder leaves alone.                                *)
LEMMA EncodeKeeps ==
  ASSUME TInv, side = "encoder", UNCHANGED <<type, side, position, list, decoded>>,
         code' \in Seq(StatementsOf("encoder", type)), stream' \in Seq(Symbol), OptionsTyped'
  PROVE  TInv'
<1>1. position = 0 /\ list = None /\ Len(decoded) <= position /\ decoded \in Seq(STRING) /\ IsPlain(type)
  BY DEF TInv
<1>2. SideOf' = "encoder"
  BY DEF SideOf
<1>3. position' = 0 /\ list' = None /\ Len(decoded') <= position' /\ decoded' \in Seq(STRING) /\ IsPlain(type')
      /\ side' = "encoder"
  BY <1>1
<1>4. position' \in 0 .. Len(stream')
  <2>1. Len(stream') \in Nat
    BY LenProperties
  <2> QED BY <1>3, <2>1
<1>5. code' \in Seq(StatementsOf(SideOf', type'))
  BY <1>2
<1>6. ListTyped'
  BY <1>3 DEF ListTyped
<1> QED
  BY <1>3, <1>4, <1>5, <1>6 DEF TInv

(* Its actions.                                                            *)
LEMMA EncodeParticleTyped == TInv /\ EncodeParticle => TInv'
<1> SUFFICES ASSUME TInv, EncodeParticle PROVE TInv'
  OBVIOUS
<1>1. side = "encoder" /\ code # <<>> /\ Head(code).op \in {"element", "list"} /\ SideOf = "encoder"
  BY DEF EncodeParticle, Encoding, SideOf
<1>2. options = None
  BY <1>1 DEF TInv, OptionsTyped
<1>3. Here.elements[1] \in Elements
  BY <1>1, ParticleHere
<1>4. Encodable(Here.elements[1]) /\ stream' = stream \o Encoded(Here.elements[1], Here.flag) /\ code' = Tail(code)
  BY DEF EncodeParticle
<1>5. stream' \in Seq(Symbol)
  <2>1. Encoded(Here.elements[1], Here.flag) \in Seq(Symbol)
    BY <1>3, <1>4, EncodedSymbols
  <2> QED BY <1>4, <2>1, Symbols DEF TInv
<1>6. code' \in Seq(StatementsOf("encoder", type))
  BY <1>1, <1>4, HereIsStatement
<1>7. UNCHANGED <<type, side, position, list, decoded, options>>
  BY DEF EncodeParticle
<1>8. OptionsTyped'
  BY <1>2, <1>7 DEF OptionsTyped, None
<1> QED
  BY <1>1, <1>5, <1>6, <1>7, <1>8, EncodeKeeps

(* The code at the end of a type.                                          *)
LEMMA EncodeFinishTyped == TInv /\ EncodeFinish => TInv'
<1> SUFFICES ASSUME TInv, EncodeFinish PROVE TInv'
  OBVIOUS
<1>1. side = "encoder" /\ code # <<>> /\ Head(code).op = "finish" /\ SideOf = "encoder"
  BY DEF EncodeFinish, Encoding, SideOf
<1>2. options = None
  BY <1>1 DEF TInv, OptionsTyped
<1>4. stream' = stream \o EventCode(0, 1) /\ code' = Tail(code)
  BY DEF EncodeFinish
<1>5. stream' \in Seq(Symbol)
  <2>1. EventCode(0, 1) \in Seq(Symbol)
    BY EventCodeLength
  <2> QED BY <1>4, <2>1, Symbols DEF TInv
<1>6. code' \in Seq(StatementsOf("encoder", type))
  BY <1>1, <1>4, HereIsStatement
<1>7. UNCHANGED <<type, side, position, list, decoded, options>>
  BY DEF EncodeFinish
<1>8. OptionsTyped'
  BY <1>2, <1>7 DEF OptionsTyped, None
<1> QED
  BY <1>1, <1>5, <1>6, <1>7, <1>8, EncodeKeeps

(* The begin of a blob: its local variables.                               *)
LEMMA EncodeOptionsTyped == TInv /\ EncodeOptions => TInv'
<1> SUFFICES ASSUME TInv, EncodeOptions PROVE TInv'
  OBVIOUS
<1>1. side = "encoder" /\ code # <<>> /\ Head(code).op = "blob" /\ SideOf = "encoder"
  BY DEF EncodeOptions, Encoding, SideOf
<1>2. Here \in StatementsOf("encoder", type) /\ IsPlain(type) /\ Len(Flat) \in 0 .. 225
  BY <1>1, BlobHere
<1> DEFINE n == Len(Flat)
           bits == AtLeast(2, ceil_log2(get_num_elements(Here)))
<1>3. PICK order \in Orders[n] :
        options' = [order |-> order, offset |-> 0, last_option_taken |-> FALSE, num_bits |-> bits]
  BY DEF EncodeOptions
<1>4. bits \in 0 .. 8
  <2>1. bits \in 2 .. 8
    BY <1>1, <1>2, FirstWidth DEF Here
  <2> HIDE DEF bits
  <2> QED BY <2>1
<1>5. order \in Seq(0 .. n - 1)
  <2>1. order \in [1 .. n -> 0 .. n - 1]
    BY <1>2, OrdersAssumption
  <2>2. n \in Nat
    BY <1>2
  <2> HIDE DEF n
  <2> QED BY <2>1, <2>2
<1> HIDE DEF bits, n
<1>6. options' \in EncoderOptions(n)
  BY <1>3, <1>4, <1>5 DEF EncoderOptions
<1>7. UNCHANGED <<type, side, position, list, decoded, code, stream>>
  BY DEF EncodeOptions
<1>8. OptionsTyped'
  <2>1. Len(Flat') = n /\ SideOf' = "encoder"
    BY <1>1, <1>7 DEF n, Flat, SideOf
  <2> QED BY <1>1, <1>6, <1>7, <2>1 DEF OptionsTyped
<1>9. code' \in Seq(StatementsOf("encoder", type)) /\ stream' \in Seq(Symbol)
  BY <1>1, <1>7 DEF TInv
<1> QED
  BY <1>1, <1>7, <1>8, <1>9, EncodeKeeps

(* The blob being encoded.                                                 *)
LEMMA TableHere ==
  ASSUME TInv, Encoding("blob"), options # None
  PROVE  /\ side = "encoder" /\ SideOf = "encoder" /\ code # <<>> /\ Head(code).op = "blob"
         /\ Here \in StatementsOf("encoder", type) /\ IsPlain(type)
         /\ Flat \in Seq(Elements) /\ Len(Flat) \in 0 .. 225
         /\ options \in EncoderOptions(Len(Flat))
         /\ options.order # <<>> => /\ Head(options.order) \in 0 .. Len(Flat) - 1
                                    /\ Tail(options.order) \in Seq(0 .. Len(Flat) - 1)
                                    /\ Option \in Elements
<1>1. side = "encoder" /\ SideOf = "encoder" /\ code # <<>> /\ Head(code).op = "blob"
  BY DEF Encoding, SideOf
<1>2. /\ Here \in StatementsOf("encoder", type) /\ IsPlain(type)
      /\ Flat \in Seq(Elements) /\ Len(Flat) \in 0 .. 225
  BY <1>1, BlobHere
<1>3. options \in EncoderOptions(Len(Flat))
  BY <1>1 DEF TInv, OptionsTyped
<1> DEFINE S == 0 .. Len(Flat) - 1
<1>4. options.order \in Seq(S)
  BY <1>3 DEF EncoderOptions
<1> HIDE DEF S
<1>5. options.order # <<>> => Head(options.order) \in S /\ Tail(options.order) \in Seq(S)
  BY <1>4, HeadTailProperties
<1>6. options.order # <<>> => Option \in Elements
  <2>1. SUFFICES ASSUME options.order # <<>> PROVE Option \in Elements
    OBVIOUS
  <2>2. Head(options.order) \in S
    BY <1>5, <2>1
  <2>3. Head(options.order) + 1 \in 1 .. Len(Flat)
    BY <1>2, <2>2 DEF S
  <2>4. Flat[Head(options.order) + 1] \in Elements
    BY <1>2, <2>3, ElementOfSeq
  <2> QED BY <2>4 DEF Option
<1> QED
  BY <1>1, <1>2, <1>3, <1>5, <1>6 DEF S

(* An entry that the object does not have.                                 *)
LEMMA SkipOptionTyped == TInv /\ SkipOption => TInv'
<1> SUFFICES ASSUME TInv, SkipOption PROVE TInv'
  OBVIOUS
<1>1. Encoding("blob") /\ options # None /\ options.order # <<>>
  BY DEF SkipOption, InTable
<1> DEFINE n == Len(Flat)
<1>2. /\ side = "encoder" /\ SideOf = "encoder" /\ code # <<>> /\ Head(code).op = "blob"
      /\ options \in EncoderOptions(n) /\ Tail(options.order) \in Seq(0 .. n - 1)
  BY <1>1, TableHere
<1>3. options' = [options EXCEPT !.order = Tail(@)]
      /\ UNCHANGED <<type, side, position, list, decoded, code, stream>>
  BY DEF SkipOption
<1> HIDE DEF n
<1>4. options' \in EncoderOptions(n)
  BY <1>2, <1>3 DEF EncoderOptions
<1>5. OptionsTyped'
  <2>1. Len(Flat') = n /\ SideOf' = "encoder"
    BY <1>2, <1>3 DEF n, Flat, SideOf
  <2> QED BY <1>2, <1>3, <1>4, <2>1 DEF OptionsTyped
<1>6. code' \in Seq(StatementsOf("encoder", type)) /\ stream' \in Seq(Symbol)
  BY <1>2, <1>3 DEF TInv
<1> QED
  BY <1>2, <1>3, <1>5, <1>6, EncodeKeeps

(* An entry that it has: the new offset and the new width.                 *)
LEMMA EncodeOptionTyped == TInv /\ EncodeOption => TInv'
<1> SUFFICES ASSUME TInv, EncodeOption PROVE TInv'
  OBVIOUS
<1>1. Encoding("blob") /\ options # None /\ options.order # <<>> /\ Encodable(Option)
  BY DEF EncodeOption, InTable
<1> DEFINE n == Len(Flat)
           index == Head(options.order)
           counted == Option.optional \/ Option.created_from_abstract
           offset == IF counted THEN index + Option.per_base ELSE options.offset
           taken == \/ options.last_option_taken
                    \/ Option.created_from_abstract
                    \/ index = Len(Flat) - 1
           bits == IF counted THEN get_num_bits_eventcode_regarding_abstract(Here, index)
                   ELSE options.num_bits
<1>2. /\ side = "encoder" /\ SideOf = "encoder" /\ code # <<>> /\ Head(code).op = "blob"
      /\ Here \in StatementsOf("encoder", type) /\ IsPlain(type)
      /\ options \in EncoderOptions(n) /\ Tail(options.order) \in Seq(0 .. n - 1)
      /\ index \in 0 .. n - 1 /\ Option \in Elements /\ n \in 0 .. 225
  BY <1>1, TableHere
<1>3. /\ options' = [order |-> Tail(options.order), offset |-> offset, last_option_taken |-> taken, num_bits |-> bits]
      /\ stream' = stream \o EventCode(event_code, options.num_bits) \o Encoded(Option, TRUE)
      /\ UNCHANGED <<type, side, position, list, decoded, code>>
  BY DEF EncodeOption
<1>4. options.num_bits \in 0 .. 8 /\ options.offset \in Nat /\ options.last_option_taken \in BOOLEAN
  BY <1>2 DEF EncoderOptions
<1>5. offset \in Nat
  <2>1. Option.per_base \in Nat /\ index \in Nat
    <3> HIDE DEF n, index
    <3> QED BY <1>2 DEF Elements
  <2> HIDE DEF n, index
  <2> QED BY <1>4, <2>1
<1>6. taken \in BOOLEAN
  OBVIOUS
<1>7. bits \in 0 .. 8
  <2>1. get_num_bits_eventcode_regarding_abstract(Here, index) \in 0 .. 8
    BY <1>2, NextWidth DEF Here, Flat
  <2> QED BY <1>4, <2>1
<1>8. stream' \in Seq(Symbol)
  <2>1. EventCode(event_code, options.num_bits) \in Seq(Symbol)
    <3>1. options.num_bits \in Nat
      BY <1>4
    <3> QED BY <3>1, EventCodeLength
  <2>2. Encoded(Option, TRUE) \in Seq(Symbol)
    BY <1>1, <1>2, EncodedSymbols
  <2>3. stream \in Seq(Symbol)
    BY DEF TInv
  <2> QED BY <1>3, <2>1, <2>2, <2>3, Symbols, Zenon
<1> HIDE DEF n, index, counted, offset, taken, bits
<1>9. options' \in EncoderOptions(n)
  BY <1>2, <1>3, <1>5, <1>6, <1>7 DEF EncoderOptions
<1>10. OptionsTyped'
  <2>1. Len(Flat') = n /\ SideOf' = "encoder"
    BY <1>2, <1>3 DEF n, Flat, SideOf
  <2> QED BY <1>2, <1>3, <1>9, <2>1 DEF OptionsTyped
<1>11. code' \in Seq(StatementsOf("encoder", type))
  BY <1>2, <1>3 DEF TInv
<1> QED
  BY <1>2, <1>3, <1>8, <1>10, <1>11, EncodeKeeps

(* The end of the blob.                                                    *)
LEMMA EndOptionsTyped == TInv /\ EndOptions => TInv'
<1> SUFFICES ASSUME TInv, EndOptions PROVE TInv'
  OBVIOUS
<1>1. Encoding("blob") /\ options # None
  BY DEF EndOptions
<1>2. /\ side = "encoder" /\ SideOf = "encoder" /\ code # <<>> /\ Head(code).op = "blob"
      /\ options \in EncoderOptions(Len(Flat))
  BY <1>1, TableHere
<1> DEFINE last == IF ~options.last_option_taken THEN EventCode(event_code, options.num_bits)
                   ELSE IF Here.flag THEN EventCode(0, 1) ELSE <<>>
<1>3. /\ options' = None /\ code' = Tail(code) /\ stream' = stream \o last
      /\ UNCHANGED <<type, side, position, list, decoded>>
  BY DEF EndOptions
<1>4. last \in Seq(Symbol)
  <2>1. options.num_bits \in Nat
    BY <1>2 DEF EncoderOptions
  <2>2. EventCode(event_code, options.num_bits) \in Seq(Symbol) /\ EventCode(0, 1) \in Seq(Symbol)
    BY <2>1, EventCodeLength
  <2>3. <<>> \in Seq(Symbol)
    BY Symbols
  <2> QED BY <2>2, <2>3
<1> HIDE DEF last
<1>5. stream' \in Seq(Symbol)
  BY <1>3, <1>4, Symbols DEF TInv
<1>6. code' \in Seq(StatementsOf("encoder", type))
  BY <1>2, <1>3, HereIsStatement
<1>7. OptionsTyped'
  BY <1>3 DEF OptionsTyped, None
<1> QED
  BY <1>2, <1>3, <1>5, <1>6, <1>7, EncodeKeeps

(* An exception leaves everything where it is.                             *)
LEMMA RefuseTyped == TInv /\ Refuse => TInv'
<1> SUFFICES ASSUME TInv, Refuse PROVE TInv'
  OBVIOUS
<1>1. side = "encoder" /\ side' = "thrown" /\ UNCHANGED <<type, code, stream, position, options, list, decoded>>
  BY DEF Refuse, Encoding, InTable
<1>2. SideOf = "encoder" /\ SideOf' = "encoder"
  BY <1>1 DEF SideOf
<1>3. OptionsTyped'
  BY <1>1, <1>2 DEF TInv, OptionsTyped, Flat, EncoderOptions, None
<1>4. ListTyped'
  BY <1>1 DEF TInv, ListTyped, None
<1> QED
  BY <1>1, <1>2, <1>3, <1>4 DEF TInv, None

(* The decoder's statements take over.                                     *)
LEMMA EncodeReturnsTyped == TInv /\ EncodeReturns => TInv'
<1> SUFFICES ASSUME TInv, EncodeReturns PROVE TInv'
  OBVIOUS
<1>1. /\ side = "encoder" /\ code = <<>> /\ side' = "decoder" /\ code' = Statements("decoder", type)
      /\ UNCHANGED <<type, stream, position, options, list, decoded>>
  BY DEF EncodeReturns, getDecodeFunction
<1>2. options = None /\ list = None
  BY <1>1 DEF TInv, OptionsTyped
<1>3. SideOf' = "decoder"
  BY <1>1 DEF SideOf
<1>4. code' \in Seq(StatementsOf(SideOf', type'))
  BY <1>1, <1>3, StatementsTyped DEF TInv
<1>5. OptionsTyped' /\ ListTyped'
  BY <1>1, <1>2 DEF OptionsTyped, ListTyped, None
<1> QED
  BY <1>1, <1>4, <1>5 DEF TInv, None

(* Every step of the encoder.                                              *)
LEMMA EncodeTyped == TInv /\ Encode => TInv'
  BY EncodeParticleTyped, EncodeFinishTyped, EncodeOptionsTyped, SkipOptionTyped, EncodeOptionTyped,
     EndOptionsTyped, RefuseTyped, EncodeReturnsTyped DEF Encode

(* Symbols read move the decoder on, within the stream.                    *)
LEMMA Reading ==
  ASSUME TInv, NEW symbols \in Seq(Symbol), ComesNext(symbols)
  PROVE  /\ position + Len(symbols) \in 0 .. Len(stream)
         /\ Len(decoded) <= position + Len(symbols)
         /\ Len(symbols) >= 1 => Len(decoded) + 1 <= position + Len(symbols)
<1> DEFINE n == Len(symbols)
           l == Len(stream)
           d == Len(decoded)
<1>1. n \in Nat /\ l \in Nat /\ d \in Nat
  BY Symbols, LenProperties DEF TInv
<1>2. position \in 0 .. l /\ d <= position /\ position + n <= l
  BY DEF TInv, ComesNext
<1> HIDE DEF n, l, d
<1>3. position + n \in 0 .. l /\ d <= position + n /\ (n >= 1 => d + 1 <= position + n)
  BY <1>1, <1>2
<1> QED
  BY <1>3 DEF n, l, d

(* What a step of the decoder leaves alone.                                *)
LEMMA DecodeKeeps ==
  ASSUME TInv, side = "decoder", UNCHANGED <<type, side, stream>>,
         code' \in Seq(StatementsOf("decoder", type)), decoded' \in Seq(STRING),
         position' \in 0 .. Len(stream), Len(decoded') <= position',
         OptionsTyped', ListTyped'
  PROVE  TInv'
<1>1. SideOf' = "decoder"
  BY DEF SideOf
<1>2. code' \in Seq(StatementsOf(SideOf', type'))
  BY <1>1
<1>3. IsPlain(type') /\ stream' \in Seq(Symbol) /\ side' = "decoder"
  BY DEF TInv
<1> QED
  BY <1>2, <1>3 DEF TInv

(* An element decoded.                                                     *)
LEMMA Decoded ==
  ASSUME TInv, NEW e \in Elements
  PROVE  Append(decoded, e.name) \in Seq(STRING) /\ Len(Append(decoded, e.name)) = Len(decoded) + 1
<1>1. e.name \in STRING /\ decoded \in Seq(STRING)
  BY DEF TInv, Elements
<1> QED
  BY <1>1, AppendProperties

(* An element that is required.                                            *)
LEMMA DecodeParticleTyped == TInv /\ DecodeParticle => TInv'
<1> SUFFICES ASSUME TInv, DecodeParticle PROVE TInv'
  OBVIOUS
<1>1. side = "decoder" /\ code # <<>> /\ Head(code).op = "element" /\ SideOf = "decoder"
  BY DEF DecodeParticle, Decoding, SideOf
<1>2. options = None /\ list = None
  BY <1>1 DEF TInv, OptionsTyped, ListTyped
<1> DEFINE e == Here.elements[1]
           symbols == decode_element(e, Here.flag)
<1>3. e \in Elements
  BY <1>1, ParticleHere
<1>4. /\ ComesNext(symbols) /\ position' = position + Len(symbols) /\ decoded' = Append(decoded, e.name)
      /\ code' = Tail(code) /\ UNCHANGED <<type, side, stream, options, list>>
  BY DEF DecodeParticle
<1>5. symbols \in Seq(Symbol) /\ Len(symbols) >= 1
  BY <1>3, ElementSymbols
<1> HIDE DEF symbols
<1>6. position' \in 0 .. Len(stream) /\ Len(decoded) + 1 <= position'
  BY <1>4, <1>5, Reading
<1>7. decoded' \in Seq(STRING) /\ Len(decoded') = Len(decoded) + 1
  BY <1>3, <1>4, Decoded
<1>8. code' \in Seq(StatementsOf("decoder", type))
  BY <1>1, <1>4, HereIsStatement
<1>9. OptionsTyped' /\ ListTyped'
  BY <1>2, <1>4 DEF OptionsTyped, ListTyped, None
<1> QED
  BY <1>1, <1>4, <1>6, <1>7, <1>8, <1>9, DecodeKeeps

(* The code at the end of a type.                                          *)
LEMMA DecodeFinishTyped == TInv /\ DecodeFinish => TInv'
<1> SUFFICES ASSUME TInv, DecodeFinish PROVE TInv'
  OBVIOUS
<1>1. side = "decoder" /\ code # <<>> /\ Head(code).op = "finish" /\ SideOf = "decoder"
  BY DEF DecodeFinish, Decoding, SideOf
<1>2. options = None /\ list = None
  BY <1>1 DEF TInv, OptionsTyped, ListTyped
<1> DEFINE symbols == EventCode(0, 1)
<1>4. /\ ComesNext(symbols) /\ position' = position + 1
      /\ code' = Tail(code) /\ UNCHANGED <<type, side, stream, options, list, decoded>>
  BY DEF DecodeFinish
<1>5. symbols \in Seq(Symbol) /\ Len(symbols) = 1
  BY EventCodeLength
<1> HIDE DEF symbols
<1>6. position' \in 0 .. Len(stream) /\ Len(decoded) <= position'
  BY <1>4, <1>5, Reading
<1>7. decoded' \in Seq(STRING) /\ Len(decoded') <= position'
  BY <1>4, <1>6 DEF TInv
<1>8. code' \in Seq(StatementsOf("decoder", type))
  BY <1>1, <1>4, HereIsStatement
<1>9. OptionsTyped' /\ ListTyped'
  BY <1>2, <1>4 DEF OptionsTyped, ListTyped, None
<1> QED
  BY <1>1, <1>4, <1>6, <1>7, <1>8, <1>9, DecodeKeeps

(* The list that begins: the statement's, or an option's.                  *)
LEMMA ListBegins ==
  ASSUME TInv, side = "decoder", ListHere # <<>>
  PROVE  /\ code # <<>> /\ ListHere[1] \in Elements /\ IsList(ListHere[1])
         /\ \/ Head(code).op = "list" /\ options = None
            \/ Head(code).op = "blob" /\ options # None /\ options.ec < Len(Flat)
<1>1. CASE Decoding("list")
  <2>1. code # <<>> /\ Head(code).op = "list" /\ ListHere = Here.elements
    BY <1>1 DEF Decoding, ListHere
  <2>2. options = None
    BY <2>1 DEF TInv, OptionsTyped
  <2>3. ListHere[1] \in Elements /\ IsList(ListHere[1])
    BY <2>1, ParticleHere
  <2> QED BY <2>1, <2>2, <2>3
<1>2. CASE ~Decoding("list")
  <2> DEFINE e == Flat[options.ec + 1]
  <2>1. /\ Decoding("blob") /\ options # None /\ options.ec < Len(Flat)
        /\ IsList(e) /\ ListHere = <<e>>
    BY <1>2 DEF ListHere
  <2>2. code # <<>> /\ Head(code).op = "blob" /\ SideOf = "decoder"
    BY <2>1 DEF Decoding, SideOf
  <2>3. Flat \in Seq(Elements) /\ Len(Flat) \in 0 .. 225 /\ options.ec \in Nat
    BY <2>1, <2>2, BlobHere DEF TInv, OptionsTyped, DecoderOptions
  <2>4. options.ec + 1 \in 1 .. Len(Flat)
    BY <2>1, <2>3
  <2>5. e \in Elements
    BY <2>3, <2>4, ElementOfSeq
  <2>6. \A x : <<x>>[1] = x
    OBVIOUS
  <2> QED BY <2>1, <2>2, <2>5, <2>6
<1> QED
  BY <1>1, <1>2

(* A list begins with no items, which are fewer than its most.             *)
LEMMA DecodeListTyped == TInv /\ DecodeList => TInv'
<1> SUFFICES ASSUME TInv, DecodeList PROVE TInv'
  OBVIOUS
<1> DEFINE e == ListHere[1]
           symbols == decode_list_start(e)
<1>1. /\ ListHere # <<>> /\ ComesNext(symbols) /\ position' = position + Len(symbols)
      /\ list' = [element |-> e, items |-> 0]
      /\ UNCHANGED <<type, side, code, stream, options, decoded>>
  BY DEF DecodeList
<1>2. side = "decoder" /\ SideOf = "decoder"
  <2>1. Decoding("list") \/ Decoding("blob")
    BY <1>1 DEF ListHere
  <2> QED BY <2>1 DEF Decoding, SideOf
<1>3. /\ code # <<>> /\ e \in Elements /\ IsList(e)
      /\ \/ Head(code).op = "list" /\ options = None
         \/ Head(code).op = "blob" /\ options # None /\ options.ec < Len(Flat)
  BY <1>1, <1>2, ListBegins
<1>4. symbols \in Seq(Symbol)
  BY <1>3, ElementSymbols
<1> HIDE DEF symbols
<1>5. position' \in 0 .. Len(stream) /\ Len(decoded) <= position'
  BY <1>1, <1>4, Reading
<1>6. decoded' \in Seq(STRING) /\ Len(decoded') <= position' /\ code' \in Seq(StatementsOf("decoder", type))
  BY <1>1, <1>2, <1>5 DEF TInv
<1>7. ListTyped'
  <2>1. e.max > 1 /\ e.max \in Nat
    BY <1>3 DEF IsList, Elements
  <2> HIDE DEF e
  <2>2. list' \in [element : Elements, items : Nat] /\ list'.items < list'.element.max
    BY <1>1, <1>3, <2>1
  <2> QED BY <1>1, <1>3, <2>2 DEF ListTyped, None
<1>8. OptionsTyped'
  <2>1. Flat' = Flat /\ SideOf' = SideOf
    BY <1>1 DEF Flat, SideOf
  <2> QED BY <1>1, <1>2, <1>3, <2>1 DEF TInv, OptionsTyped, None
<1> QED
  BY <1>1, <1>2, <1>5, <1>6, <1>7, <1>8, DecodeKeeps

(* The end of a list ends the statement, or the list's option is taken.    *)
LEMMA EndOfListTyped ==
  ASSUME TInv, side = "decoder", list # None, EndOfList, UNCHANGED side
  PROVE  code' \in Seq(StatementsOf("decoder", type)) /\ OptionsTyped' /\ ListTyped'
<1>1. SideOf = "decoder" /\ SideOf' = "decoder" /\ code # <<>> /\ list' = None
  BY DEF SideOf, TInv, ListTyped, EndOfList
<1>2. ListTyped'
  BY <1>1 DEF ListTyped, None
<1>3. CASE options = None
  <2>1. code' = Tail(code) /\ options' = None
    BY <1>3 DEF EndOfList, None
  <2>2. OptionsTyped'
    BY <2>1 DEF OptionsTyped, None
  <2> QED BY <1>1, <1>2, <2>1, <2>2, HereIsStatement
<1>4. CASE options # None
  <2>1. code' = code /\ options' = [options EXCEPT !.taken = TRUE]
    BY <1>4 DEF EndOfList
  <2>2. options \in DecoderOptions /\ options.ec < Len(Flat) /\ Head(code).op = "blob"
    BY <1>1, <1>4 DEF TInv, OptionsTyped
  <2>3. options' \in DecoderOptions /\ options'.ec = options.ec
    BY <2>1, <2>2 DEF DecoderOptions
  <2>4. Flat' = Flat
    BY <2>1 DEF Flat
  <2>5. OptionsTyped'
    BY <1>1, <2>1, <2>2, <2>3, <2>4 DEF OptionsTyped
  <2>6. code' \in Seq(StatementsOf("decoder", type))
    BY <1>1, <2>1 DEF TInv
  <2> QED BY <1>2, <2>5, <2>6
<1> QED
  BY <1>3, <1>4

(* An item, and whether there is room for another.                         *)
LEMMA DecodeItemTyped == TInv /\ DecodeItem => TInv'
<1> SUFFICES ASSUME TInv, DecodeItem PROVE TInv'
  OBVIOUS
<1> DEFINE e == list.element
           symbols == FurtherItem(e)
<1>1. /\ list # None /\ ComesNext(symbols) /\ position' = position + Len(symbols)
      /\ decoded' = Append(decoded, e.name)
      /\ IF IsFull(list) THEN EndOfList
         ELSE list' = [list EXCEPT !.items = @ + 1] /\ UNCHANGED <<code, options>>
      /\ UNCHANGED <<type, side, stream>>
  BY DEF DecodeItem
<1>2. /\ side = "decoder" /\ SideOf = "decoder" /\ code # <<>>
      /\ list \in [element : Elements, items : Nat] /\ list.items < e.max
  BY <1>1 DEF TInv, ListTyped, SideOf
<1>3. e \in Elements /\ list.items \in Nat /\ e.max \in Nat
  BY <1>2 DEF Elements
<1>4. symbols \in Seq(Symbol) /\ Len(symbols) >= 1
  <2> DEFINE before == IF list.items = 0 THEN <<>> ELSE EventCode(0, 2)
             item == decode_item(e)
  <2>1. before \in Seq(Symbol)
    BY Symbols, EventCodeLength
  <2>2. item \in Seq(Symbol) /\ Len(item) >= 1
    BY <1>3, ElementSymbols
  <2>3. symbols = before \o item
    BY DEF FurtherItem
  <2> HIDE DEF symbols, before, item
  <2>4. symbols \in Seq(Symbol) /\ Len(symbols) = Len(before) + Len(item) /\ Len(before) \in Nat /\ Len(item) \in Nat
    BY <2>1, <2>2, <2>3, Symbols
  <2>5. \A x, y \in Nat : y >= 1 => x + y >= 1
    OBVIOUS
  <2> QED BY <2>2, <2>4, <2>5, Zenon
<1> HIDE DEF symbols
<1>5. position' \in 0 .. Len(stream) /\ Len(decoded) + 1 <= position'
  BY <1>1, <1>4, Reading
<1>6. decoded' \in Seq(STRING) /\ Len(decoded') = Len(decoded) + 1
  BY <1>1, <1>3, Decoded
<1>7. code' \in Seq(StatementsOf("decoder", type)) /\ OptionsTyped' /\ ListTyped'
  <2>1. CASE IsFull(list)
    BY <1>1, <1>2, <2>1, EndOfListTyped
  <2>2. CASE ~IsFull(list)
    <3>1. list' = [list EXCEPT !.items = @ + 1] /\ UNCHANGED <<code, options>>
      BY <1>1, <2>2
    <3>2. list.items + 1 # e.max
      BY <2>2 DEF IsFull
    <3>3. list.items + 1 < e.max /\ list.items + 1 \in Nat
      BY <1>2, <1>3, <3>2
    <3>4. list' \in [element : Elements, items : Nat] /\ list'.items < list'.element.max
      BY <1>2, <3>1, <3>3
    <3>5. ListTyped'
      BY <1>1, <3>1, <3>4 DEF TInv, ListTyped, None
    <3>6. OptionsTyped'
      <4>1. Flat' = Flat /\ SideOf' = SideOf
        BY <1>1, <3>1 DEF Flat, SideOf
      <4> QED BY <1>1, <1>2, <3>1, <4>1 DEF TInv, OptionsTyped, None
    <3> QED BY <1>2, <3>1, <3>5, <3>6 DEF TInv
  <2> QED BY <2>1, <2>2
<1> QED
  BY <1>1, <1>2, <1>5, <1>6, <1>7, DecodeKeeps

(* The code for no further item.                                           *)
LEMMA NoFurtherItemTyped == TInv /\ NoFurtherItem => TInv'
<1> SUFFICES ASSUME TInv, NoFurtherItem PROVE TInv'
  OBVIOUS
<1> DEFINE symbols == EventCode(1, 2)
<1>1. /\ list # None /\ ComesNext(symbols) /\ position' = position + 2 /\ EndOfList
      /\ UNCHANGED <<type, side, stream, decoded>>
  BY DEF NoFurtherItem
<1>2. side = "decoder" /\ SideOf = "decoder"
  BY <1>1 DEF TInv, SideOf
<1>3. symbols \in Seq(Symbol) /\ Len(symbols) = 2
  BY EventCodeLength
<1> HIDE DEF symbols
<1>4. position' \in 0 .. Len(stream) /\ Len(decoded) <= position'
  BY <1>1, <1>3, Reading
<1>5. decoded' \in Seq(STRING) /\ Len(decoded') <= position'
  BY <1>1, <1>4 DEF TInv
<1>6. code' \in Seq(StatementsOf("decoder", type)) /\ OptionsTyped' /\ ListTyped'
  BY <1>1, <1>2, EndOfListTyped
<1> QED
  BY <1>1, <1>2, <1>4, <1>5, <1>6, DecodeKeeps

(* A code of at most 8 bits that comes next.                               *)
LEMMA ReadingACode ==
  ASSUME TInv, NEW n \in 0 .. 8, NEW c \in NextCodes(n)
  PROVE  c \in Nat /\ position + n \in 0 .. Len(stream) /\ Len(decoded) <= position + n
<1> DEFINE symbols == EventCode(c, n)
<1>1. 2 ^ n \in Nat /\ n \in Nat
  <2>1. n \in Nat
    OBVIOUS
  <2> QED BY <2>1, SmallPowers, Zenon
<1>2. c \in 0 .. 2 ^ n - 1 /\ ComesNext(symbols)
  BY DEF NextCodes
<1>3. c \in Nat
  <2> DEFINE p == 2 ^ n
  <2>1. p \in Nat /\ c \in 0 .. p - 1
    BY <1>1, <1>2
  <2> HIDE DEF p
  <2> QED BY <2>1
<1>4. symbols \in Seq(Symbol) /\ Len(symbols) = n
  BY <1>1, EventCodeLength
<1> HIDE DEF symbols
<1> QED
  BY <1>2, <1>3, <1>4, Reading

(* The first code of a blob.                                               *)
LEMMA DecodeOptionsTyped == TInv /\ DecodeOptions => TInv'
<1> SUFFICES ASSUME TInv, DecodeOptions PROVE TInv'
  OBVIOUS
<1>1. side = "decoder" /\ SideOf = "decoder" /\ code # <<>> /\ Head(code).op = "blob" /\ options = None
  BY DEF DecodeOptions, Decoding, SideOf
<1> DEFINE n == AtLeast(2, get_num_eventcode_bits(Here, 0))
<1>2. PICK c \in NextCodes(n) : options' = [ec |-> c, taken |-> FALSE] /\ position' = position + n
  BY DEF DecodeOptions
<1>3. UNCHANGED <<type, side, code, stream, list, decoded>>
  BY DEF DecodeOptions
<1>4. list = None
  BY <1>1 DEF TInv, ListTyped
<1>5. n \in 0 .. 8
  <2>1. Here \in StatementsOf("decoder", type) /\ IsPlain(type)
    BY <1>1, BlobHere
  <2>2. Here.op = "blob"
    BY <1>1 DEF Here
  <2>3. 0 \in Nat /\ 2 \in 0 .. 2
    OBVIOUS
  <2> QED BY <2>1, <2>2, <2>3, DecoderWidth
<1> HIDE DEF n
<1>6. c \in Nat /\ position' \in 0 .. Len(stream) /\ Len(decoded) <= position'
  BY <1>2, <1>5, ReadingACode
<1>7. OptionsTyped'
  <2>1. options' \in DecoderOptions /\ ~options'.taken /\ list' = None
    BY <1>2, <1>3, <1>4, <1>6 DEF DecoderOptions, None
  <2>2. SideOf' = "decoder"
    BY <1>1, <1>3 DEF SideOf
  <2> QED BY <1>1, <1>3, <2>1, <2>2 DEF OptionsTyped, None
<1>8. ListTyped'
  BY <1>3, <1>4 DEF ListTyped, None
<1>9. decoded' \in Seq(STRING) /\ Len(decoded') <= position' /\ code' \in Seq(StatementsOf("decoder", type))
  BY <1>1, <1>3, <1>6 DEF TInv
<1> QED
  BY <1>1, <1>3, <1>6, <1>7, <1>8, <1>9, DecodeKeeps

(* The option being decoded.                                               *)
LEMMA InOptionHas ==
  ASSUME TInv, InOption
  PROVE  /\ side = "decoder" /\ SideOf = "decoder" /\ code # <<>> /\ Head(code).op = "blob"
         /\ options # None /\ list = None /\ options \in DecoderOptions
         /\ options.taken => options.ec < Len(Flat)
         /\ options.ec < Len(Flat) => options.ec \in 0 .. Len(Flat) - 1 /\ Flat[options.ec + 1] \in Elements
         /\ Flat \in Seq(Elements) /\ Here \in StatementsOf("decoder", type) /\ Here.op = "blob"
<1>1. side = "decoder" /\ SideOf = "decoder" /\ code # <<>> /\ Head(code).op = "blob" /\ options # None /\ list = None
  BY DEF InOption, Decoding, SideOf
<1>2. options \in DecoderOptions /\ (options.taken => options.ec < Len(Flat))
  BY <1>1 DEF TInv, OptionsTyped
<1>3. Flat \in Seq(Elements) /\ Len(Flat) \in 0 .. 225 /\ Here \in StatementsOf("decoder", type) /\ Here.op = "blob"
  BY <1>1, BlobHere DEF Here
<1>4. ASSUME options.ec < Len(Flat) PROVE options.ec \in 0 .. Len(Flat) - 1 /\ Flat[options.ec + 1] \in Elements
  <2>1. options.ec \in Nat
    BY <1>2 DEF DecoderOptions
  <2>2. options.ec \in 0 .. Len(Flat) - 1 /\ options.ec + 1 \in 1 .. Len(Flat)
    BY <1>3, <1>4, <2>1
  <2> QED BY <1>3, <2>2, ElementOfSeq
<1> QED
  BY <1>1, <1>2, <1>3, <1>4

(* The option of the code that was read.                                   *)
LEMMA DecodeOptionTyped == TInv /\ DecodeOption => TInv'
<1> SUFFICES ASSUME TInv, DecodeOption PROVE TInv'
  OBVIOUS
<1> DEFINE e == Flat[options.ec + 1]
           symbols == decode_element(e, TRUE)
<1>1. /\ InOption /\ options.ec < Len(Flat) /\ ComesNext(symbols)
      /\ position' = position + Len(symbols) /\ decoded' = Append(decoded, e.name)
      /\ options' = [options EXCEPT !.taken = TRUE]
      /\ UNCHANGED <<type, side, code, stream, list>>
  BY DEF DecodeOption
<1>2. /\ side = "decoder" /\ SideOf = "decoder" /\ code # <<>> /\ Head(code).op = "blob"
      /\ list = None /\ options \in DecoderOptions /\ e \in Elements
  BY <1>1, InOptionHas
<1>3. symbols \in Seq(Symbol) /\ Len(symbols) >= 1
  BY <1>2, ElementSymbols
<1> HIDE DEF symbols
<1>4. position' \in 0 .. Len(stream) /\ Len(decoded) + 1 <= position'
  BY <1>1, <1>3, Reading
<1>5. decoded' \in Seq(STRING) /\ Len(decoded') = Len(decoded) + 1
  BY <1>1, <1>2, Decoded
<1>6. OptionsTyped'
  <2>1. Flat' = Flat /\ SideOf' = "decoder"
    BY <1>1, <1>2 DEF Flat, SideOf
  <2>2. options' \in DecoderOptions /\ options'.ec = options.ec
    BY <1>1, <1>2 DEF DecoderOptions
  <2> QED BY <1>1, <1>2, <2>1, <2>2 DEF OptionsTyped
<1>7. ListTyped'
  BY <1>1, <1>2 DEF ListTyped, None
<1>8. code' \in Seq(StatementsOf("decoder", type))
  BY <1>1, <1>2 DEF TInv
<1> QED
  BY <1>1, <1>2, <1>4, <1>5, <1>6, <1>7, <1>8, DecodeKeeps

(* The code behind an option.                                              *)
LEMMA NextOptionTyped == TInv /\ NextOption => TInv'
<1> SUFFICES ASSUME TInv, NextOption PROVE TInv'
  OBVIOUS
<1> DEFINE progress == while_loop_offset(options.ec)
           n == AtLeast(1, get_num_eventcode_bits(Here, progress))
<1>1. InOption /\ options.taken
  BY DEF NextOption
<1>2. PICK c \in NextCodes(n) : options' = [ec |-> progress + c, taken |-> FALSE] /\ position' = position + n
  BY DEF NextOption
<1>3. UNCHANGED <<type, side, code, stream, list, decoded>>
  BY DEF NextOption
<1>4. /\ side = "decoder" /\ SideOf = "decoder" /\ code # <<>> /\ Head(code).op = "blob"
      /\ options # None /\ list = None /\ options.ec \in 0 .. Len(Flat) - 1
      /\ Flat \in Seq(Elements) /\ Here \in StatementsOf("decoder", type) /\ Here.op = "blob"
  BY <1>1, InOptionHas
<1>5. progress \in Nat
  BY <1>4, WhileLoopOffset
<1> HIDE DEF progress
<1>6. n \in 0 .. 8
  <2>1. 1 \in 0 .. 2 /\ IsPlain(type)
    BY DEF TInv
  <2> QED BY <1>4, <1>5, <2>1, DecoderWidth
<1> HIDE DEF n
<1>7. c \in Nat /\ position' \in 0 .. Len(stream) /\ Len(decoded) <= position'
  BY <1>2, <1>6, ReadingACode
<1>8. OptionsTyped'
  <2>1. options' \in DecoderOptions /\ ~options'.taken /\ list' = None
    BY <1>2, <1>3, <1>4, <1>5, <1>7 DEF DecoderOptions, None
  <2>2. SideOf' = "decoder"
    BY <1>4, <1>3 DEF SideOf
  <2> QED BY <1>3, <1>4, <2>1, <2>2 DEF OptionsTyped, None
<1>9. ListTyped'
  BY <1>3, <1>4 DEF ListTyped, None
<1>10. decoded' \in Seq(STRING) /\ Len(decoded') <= position' /\ code' \in Seq(StatementsOf("decoder", type))
  BY <1>3, <1>4, <1>7 DEF TInv
<1> QED
  BY <1>3, <1>4, <1>7, <1>8, <1>9, <1>10, DecodeKeeps

(* The end of a blob.                                                      *)
LEMMA LeaveOptionsTyped == TInv /\ LeaveOptions => TInv'
<1> SUFFICES ASSUME TInv, LeaveOptions PROVE TInv'
  OBVIOUS
<1>1. InOption /\ options' = None /\ code' = Tail(code)
      /\ UNCHANGED <<type, side, stream, position, list, decoded>>
  BY DEF LeaveOptions
<1>2. side = "decoder" /\ SideOf = "decoder" /\ code # <<>> /\ list = None
  BY <1>1, InOptionHas
<1>3. code' \in Seq(StatementsOf("decoder", type))
  BY <1>1, <1>2, HereIsStatement
<1>4. OptionsTyped' /\ ListTyped'
  BY <1>1, <1>2 DEF OptionsTyped, ListTyped, None
<1>5. decoded' \in Seq(STRING) /\ position' \in 0 .. Len(stream) /\ Len(decoded') <= position'
  BY <1>1 DEF TInv
<1> QED
  BY <1>1, <1>2, <1>3, <1>4, <1>5, DecodeKeeps

(* The end of the type.                                                    *)
LEMMA DecodeReturnsTyped == TInv /\ DecodeReturns => TInv'
<1> SUFFICES ASSUME TInv, DecodeReturns PROVE TInv'
  OBVIOUS
<1>1. /\ side = "decoder" /\ code = <<>> /\ side' = "done"
      /\ UNCHANGED <<type, code, stream, position, options, list, decoded>>
  BY DEF DecodeReturns
<1>2. options = None /\ list = None
  BY <1>1 DEF TInv, OptionsTyped, ListTyped
<1>3. SideOf = "decoder" /\ SideOf' = "decoder"
  BY <1>1 DEF SideOf
<1>4. OptionsTyped' /\ ListTyped'
  BY <1>1, <1>2 DEF OptionsTyped, ListTyped, None
<1> QED
  BY <1>1, <1>2, <1>3, <1>4 DEF TInv, None

(* Every step of the decoder.                                              *)
LEMMA DecodeTyped == TInv /\ Decode => TInv'
  BY DecodeParticleTyped, DecodeFinishTyped, DecodeListTyped, DecodeItemTyped, NoFurtherItemTyped,
     DecodeOptionsTyped, DecodeOptionTyped, NextOptionTyped, LeaveOptionsTyped, DecodeReturnsTyped DEF Decode

(* A step that changes nothing.                                            *)
LEMMA StutterTyped == TInv /\ UNCHANGED vars => TInv'
<1> SUFFICES ASSUME TInv, UNCHANGED vars PROVE TInv'
  OBVIOUS
<1>1. UNCHANGED <<type, value, valid, side, code, stream, position, options, list, decoded>>
  BY DEF vars
<1>2. SideOf' = SideOf /\ Flat' = Flat
  BY <1>1 DEF SideOf, Flat
<1>3. OptionsTyped' /\ ListTyped'
  BY <1>1, <1>2 DEF TInv, OptionsTyped, ListTyped, None
<1> QED
  BY <1>1, <1>2, <1>3 DEF TInv, None

(* The invariant holds in every state.                                     *)
LEMMA TInvIsInvariant == Spec => []TInv
<1>1. TInv /\ [Next]_vars => TInv'
  BY EncodeTyped, DecodeTyped, StutterTyped DEF Next, Ended
<1> QED
  BY InitTyped, <1>1, PTL DEF Spec

(* What the invariant says of types.                                       *)
LEMMA TInvTypeOK == TInv => TypeOK
<1> SUFFICES ASSUME TInv PROVE TypeOK
  OBVIOUS
<1>1. ASSUME NEW i \in DOMAIN code PROVE code[i].op \in {"element", "list", "blob", "finish"}
  <2> DEFINE S == StatementsOf(SideOf, type)
  <2>1. code \in Seq(S)
    BY DEF TInv
  <2>2. code[i] \in S
    <3> HIDE DEF S
    <3>1. i \in 1 .. Len(code)
      BY <2>1
    <3> QED BY <2>1, <3>1, ElementOfSeq
  <2> QED BY <2>2, StatementHas DEF TInv
<1>2. ASSUME options # None
      PROVE  /\ side \in {"encoder", "thrown", "decoder"}
             /\ IF side = "decoder"
                THEN DOMAIN options = {"ec", "taken"} /\ options.ec \in Nat
                ELSE /\ options.offset \in Nat /\ options.num_bits \in 0 .. 8
                     /\ \A i \in DOMAIN options.order :
                          options.order[i] \in 0 .. Len(Flat) - 1
  <2>1. side \in {"encoder", "thrown", "decoder"}
    BY <1>2 DEF TInv
  <2>2. CASE side = "decoder"
    <3>1. options \in DecoderOptions
      BY <1>2, <2>2 DEF TInv, OptionsTyped, SideOf
    <3> QED BY <2>2, <3>1 DEF DecoderOptions
  <2>3. CASE side # "decoder"
    <3> DEFINE n == Len(Flat)
    <3>1. options \in EncoderOptions(n)
      BY <1>2, <2>1, <2>3 DEF TInv, OptionsTyped, SideOf
    <3> HIDE DEF n
    <3>2. options.offset \in Nat /\ options.num_bits \in 0 .. 8 /\ options.order \in Seq(0 .. n - 1)
      BY <3>1 DEF EncoderOptions
    <3>3. \A i \in DOMAIN options.order : options.order[i] \in 0 .. n - 1
      <4>1. \A S : \A s \in Seq(S) : \A i \in DOMAIN s : s[i] \in S
        OBVIOUS
      <4> QED BY <3>2, <4>1, Zenon
    <3> QED BY <2>1, <2>3, <3>2, <3>3 DEF n
  <2> QED BY <2>1, <2>2, <2>3
<1>3. list # None => side = "decoder" /\ list.items < list.element.max
  BY DEF TInv, ListTyped
<1> QED
  BY <1>1, <1>2, <1>3 DEF TInv, TypeOK

(* In every run of the generated functions, for every schema that          *)
(* satisfies the assumptions, the local variables of a blob are those of   *)
(* the function that runs, a width has at most 8 bits, an entry is one of  *)
(* the table, and a list in progress has room for a further item.          *)
THEOREM TypeCorrect == Spec => []TypeOK
  BY TInvIsInvariant, TInvTypeOK, PTL

(***************************************************************************)
(* The event codes of the encoder.                                         *)
(***************************************************************************)
OrdersByIndex == \A n \in 0 .. 225 : Orders[n] = {[i \in 1 .. n |-> i - 1]}

Substituted == \A k \in DOMAIN type : OneSubstitute(value, type[k])

(* The entries of the table from k on.                                     *)
From(k) == [j \in 1 .. Len(Flat) - k |-> k + j - 1]
Left(k) == \E j \in k .. Len(Flat) - 1 : exists(Flat[j + 1].name)

(* The loop is at entry k, and the offset is not behind an option that is  *)
(* left; while a code is to come, the width has room for the end's.        *)
FitsFrom(k) ==
  /\ options.order = From(k)
  /\ \A j \in k .. Len(Flat) - 1 : exists(Flat[j + 1].name) => options.offset <= j
  /\ ~options.last_option_taken \/ Left(k) =>
       /\ options.num_bits \in 1 .. 8
       /\ options.offset <= Len(Flat) /\ Len(Flat) - options.offset < 2 ^ options.num_bits

OptionsFit == Encoding("blob") /\ options # None => \E k \in 0 .. Len(Flat) : FitsFrom(k)

EInv == Substituted /\ OptionsFit

(* At the beginning there is no table.                                     *)
LEMMA InitFits == Init => EInv
<1> SUFFICES ASSUME Init PROVE EInv
  OBVIOUS
<1>1. options = None
  BY DEF Init
<1>2. PICK t \in Schemas : /\ type = child_elements(t)
                           /\ value \in Valid(t, MaxItems) \cup Invalid(type, Valid(t, MaxItems))
  BY DEF Init
<1>3. \A e \in ToSet(type) : OneSubstitute(value, e)
  BY <1>2, ObjectsAssumption
<1> QED
  BY <1>1, <1>3 DEF EInv, Substituted, OptionsFit, ToSet

(* The type and the value stay as they are.                                *)
LEMMA ValueStays == [Next]_vars => UNCHANGED <<type, value>>
<1>1. Encode => UNCHANGED <<type, value>>
  BY DEF Encode, EncodeParticle, EncodeFinish, EncodeOptions, SkipOption, EncodeOption, EndOptions, Refuse,
         EncodeReturns
<1>2. Decode => UNCHANGED <<type, value>>
  BY DEF Decode, DecodeParticle, DecodeFinish, DecodeList, DecodeItem, NoFurtherItem, DecodeOptions,
         DecodeOption, NextOption, LeaveOptions, DecodeReturns
<1> QED
  BY <1>1, <1>2 DEF Next, Ended, vars

(* So an abstract element keeps at most one of its names.                  *)
LEMMA SubstitutedStays == Substituted /\ [Next]_vars => Substituted'
<1> SUFFICES ASSUME Substituted, [Next]_vars PROVE Substituted'
  OBVIOUS
<1>1. type' = type /\ value' = value
  BY ValueStays
<1> QED
  BY <1>1 DEF Substituted

(* Only the encoder is at a table.                                         *)
LEMMA DecodeIsNoEncoding == TInv /\ Decode => side' # "encoder"
<1> SUFFICES ASSUME TInv, Decode PROVE side' # "encoder"
  OBVIOUS
<1>1. side = "decoder"
  <2>1. \A op : Decoding(op) => side = "decoder"
    BY DEF Decoding
  <2>2. list # None => side = "decoder"
    BY DEF TInv
  <2>3. ListHere # <<>> => side = "decoder"
    BY <2>1 DEF ListHere
  <2> QED
    BY <2>1, <2>2, <2>3 DEF Decode, DecodeParticle, DecodeFinish, DecodeList, DecodeItem, NoFurtherItem,
       DecodeOptions, DecodeOption, NextOption, LeaveOptions, DecodeReturns, InOption
<1>2. side' = side \/ side' = "done"
  BY DEF Decode, DecodeParticle, DecodeFinish, DecodeList, DecodeItem, NoFurtherItem,
         DecodeOptions, DecodeOption, NextOption, LeaveOptions, DecodeReturns
<1> QED
  BY <1>1, <1>2

(* The table begins with its first entry.                                  *)
LEMMA EncodeOptionsFits == OrdersByIndex /\ TInv /\ EncodeOptions => OptionsFit'
<1> SUFFICES ASSUME OrdersByIndex, TInv, EncodeOptions PROVE OptionsFit'
  OBVIOUS
<1>1. side = "encoder" /\ code # <<>> /\ Head(code).op = "blob" /\ SideOf = "encoder"
  BY DEF EncodeOptions, Encoding, SideOf
<1>2. Here \in StatementsOf("encoder", type) /\ IsPlain(type) /\ Len(Flat) \in 0 .. 225
  BY <1>1, BlobHere
<1> DEFINE n == Len(Flat)
           bits == AtLeast(2, ceil_log2(get_num_elements(Here)))
<1>3. PICK order \in Orders[n] :
        options' = [order |-> order, offset |-> 0, last_option_taken |-> FALSE, num_bits |-> bits]
  BY DEF EncodeOptions
<1>4. bits \in 2 .. 8 /\ n < 2 ^ bits
  <2>1. Here.op = "blob"
    BY <1>1 DEF Here
  <2> QED BY <1>2, <2>1, FirstWidth DEF Flat, Here
<1>5. order = From(0)
  <2>1. order = [i \in 1 .. n |-> i - 1]
    BY <1>2, <1>3 DEF OrdersByIndex
  <2>2. [i \in 1 .. n |-> i - 1] = [j \in 1 .. n - 0 |-> 0 + j - 1]
    <3>1. n \in Nat
      BY <1>2
    <3> HIDE DEF n
    <3> QED BY <3>1
  <2> QED BY <2>1, <2>2 DEF From
<1>6. Flat' = Flat /\ value' = value
  BY DEF EncodeOptions, Flat
<1> HIDE DEF bits
<1>7. options'.order = From(0) /\ options'.offset = 0 /\ options'.num_bits = bits
  BY <1>3, <1>5
<1>8. From(0)' = From(0)
  BY <1>6 DEF From
<1>9. \A j \in 0 .. n - 1 : 0 <= j
  OBVIOUS
<1>10. bits \in 1 .. 8 /\ 0 <= n /\ n - 0 < 2 ^ bits
  <2>1. n \in Nat /\ n - 0 = n /\ 0 <= n
    <3>1. n \in 0 .. 225
      BY <1>2
    <3> HIDE DEF n
    <3> QED BY <3>1
  <2>2. bits \in 1 .. 8
    BY <1>4
  <2> HIDE DEF n
  <2> QED BY <1>4, <2>1, <2>2
<1>11. FitsFrom(0)'
  BY <1>6, <1>7, <1>8, <1>9, <1>10 DEF FitsFrom
<1>12. 0 \in 0 .. Len(Flat')
  BY <1>2, <1>6
<1> QED
  BY <1>11, <1>12 DEF OptionsFit

(* The next entry of the table is entry k, and it is the next one but k    *)
(* that is left.                                                           *)
LEMMA FromHas ==
  ASSUME NEW k \in 0 .. Len(Flat), Len(Flat) \in 0 .. 225, From(k) # <<>>
  PROVE  k < Len(Flat) /\ Head(From(k)) = k /\ Tail(From(k)) = From(k + 1) /\ k + 1 \in 0 .. Len(Flat)
<1> DEFINE n == Len(Flat)
<1>1. n \in Nat /\ k \in 0 .. n
  OBVIOUS
<1> HIDE DEF n
<1>2. From(k) = [j \in 1 .. n - k |-> k + j - 1]
  BY DEF From, n
<1>3. From(k) \in Seq(Nat) /\ Len(From(k)) = n - k
  <2>1. \A j \in 1 .. n - k : k + j - 1 \in Nat
    BY <1>1
  <2>2. n - k \in Nat
    BY <1>1
  <2> QED BY <1>2, <2>1, <2>2
<1>4. k < n
  <2>1. Len(From(k)) # 0
    BY <1>3
  <2> QED BY <1>1, <1>3, <2>1
<1>5. Head(From(k)) = k
  <2>1. Head(From(k)) = From(k)[1]
    BY <1>3
  <2>2. 1 \in 1 .. n - k /\ k + 1 - 1 = k
    BY <1>1, <1>4
  <2> QED BY <1>2, <2>1, <2>2
<1>6. Tail(From(k)) = From(k + 1)
  <2> DEFINE f == From(k)
             g == Tail(f)
             h == From(k + 1)
  <2>1. /\ g \in Seq(Nat) /\ Len(g) = Len(f) - 1
        /\ \A i \in 1 .. Len(g) : g[i] = f[i + 1]
    <3> HIDE DEF f
    <3> QED BY <1>3, HeadTailProperties DEF f
  <2>2. h = [j \in 1 .. n - (k + 1) |-> (k + 1) + j - 1]
    BY DEF From, n
  <2>3. g = [j \in 1 .. Len(g) |-> g[j]] /\ Len(g) = n - (k + 1)
    <3>1. g = [j \in 1 .. Len(g) |-> g[j]]
      <4> HIDE DEF g
      <4> QED BY <2>1
    <3>2. (n - k) - 1 = n - (k + 1)
      BY <1>1
    <3> QED BY <1>3, <2>1, <3>1, <3>2
  <2>4. ASSUME NEW j \in 1 .. n - (k + 1) PROVE g[j] = (k + 1) + j - 1
    <3>1. j \in 1 .. Len(g) /\ j + 1 \in 1 .. n - k /\ k + (j + 1) - 1 = (k + 1) + j - 1
      BY <1>1, <2>3
    <3>2. f[j + 1] = k + (j + 1) - 1
      BY <1>2, <3>1
    <3> HIDE DEF f, g
    <3> QED BY <2>1, <3>1, <3>2
  <2> HIDE DEF g, h, f
  <2>5. g = h
    BY <2>2, <2>3, <2>4
  <2> QED BY <2>5 DEF g, h, f
<1> QED
  BY <1>1, <1>4, <1>5, <1>6 DEF n

(* The loop at a table.                                                    *)
LEMMA AtEntry ==
  ASSUME TInv, EInv, InTable
  PROVE  \E k \in 0 .. Len(Flat) - 1 :
           /\ FitsFrom(k) /\ Len(Flat) \in 0 .. 225 /\ k + 1 \in 0 .. Len(Flat)
           /\ Head(options.order) = k /\ Tail(options.order) = From(k + 1) /\ Option = Flat[k + 1]
<1>1. Encoding("blob") /\ options # None /\ options.order # <<>>
  BY DEF InTable
<1>2. PICK k \in 0 .. Len(Flat) : FitsFrom(k)
  BY <1>1 DEF EInv, OptionsFit
<1>3. Len(Flat) \in 0 .. 225
  BY <1>1, TableHere
<1>4. options.order = From(k)
  BY <1>2 DEF FitsFrom
<1>5. k < Len(Flat) /\ Head(From(k)) = k /\ Tail(From(k)) = From(k + 1) /\ k + 1 \in 0 .. Len(Flat)
  BY <1>1, <1>3, <1>4, FromHas
<1>6. k \in 0 .. Len(Flat) - 1
  BY <1>3, <1>5
<1> QED
  BY <1>2, <1>3, <1>4, <1>5, <1>6 DEF Option

(* An entry that is skipped makes none of the codes to come wider.         *)
LEMMA SkipOptionFits == TInv /\ EInv /\ SkipOption => OptionsFit'
<1> SUFFICES ASSUME TInv, EInv, SkipOption PROVE OptionsFit'
  OBVIOUS
<1>1. /\ InTable /\ ~exists(Option.name) /\ options' = [options EXCEPT !.order = Tail(@)]
      /\ UNCHANGED <<value, side, code>>
  BY DEF SkipOption
<1>2. PICK k \in 0 .. Len(Flat) - 1 :
        /\ FitsFrom(k) /\ Len(Flat) \in 0 .. 225 /\ k + 1 \in 0 .. Len(Flat)
        /\ Head(options.order) = k /\ Tail(options.order) = From(k + 1) /\ Option = Flat[k + 1]
  BY <1>1, AtEntry
<1>3. options \in EncoderOptions(Len(Flat))
  BY <1>1, TableHere DEF InTable
<1>4. /\ options'.order = From(k + 1) /\ options'.offset = options.offset
      /\ options'.last_option_taken = options.last_option_taken /\ options'.num_bits = options.num_bits
  BY <1>1, <1>2, <1>3 DEF EncoderOptions
<1>5. Flat' = Flat /\ value' = value
  BY <1>1 DEF Flat
<1>6. \A j \in k + 1 .. Len(Flat) - 1 : j \in k .. Len(Flat) - 1
  BY <1>2
<1>7. From(k + 1)' = From(k + 1) /\ (Left(k + 1)' <=> Left(k + 1))
  BY <1>5 DEF From, Left, exists
<1>8. Left(k + 1) => Left(k)
  BY <1>6 DEF Left
<1>9. FitsFrom(k + 1)'
  BY <1>2, <1>4, <1>5, <1>6, <1>7, <1>8 DEF FitsFrom, exists
<1> QED
  BY <1>2, <1>5, <1>9 DEF OptionsFit

(* Behind an entry that is taken, the offset is that of the next element,  *)
(* and the new width has room for what is left; behind the last, no code   *)
(* is to come.                                                             *)
LEMMA EncodeOptionFits == TInv /\ EInv /\ EncodeOption => OptionsFit'
<1> SUFFICES ASSUME TInv, EInv, EncodeOption PROVE OptionsFit'
  OBVIOUS
<1>1. InTable /\ exists(Option.name) /\ UNCHANGED <<value, side, code>>
  BY DEF EncodeOption
<1>2. PICK k \in 0 .. Len(Flat) - 1 :
        /\ FitsFrom(k) /\ Len(Flat) \in 0 .. 225 /\ k + 1 \in 0 .. Len(Flat)
        /\ Head(options.order) = k /\ Tail(options.order) = From(k + 1) /\ Option = Flat[k + 1]
  BY <1>1, AtEntry
<1> DEFINE l == Len(Flat)
           e == Flat[k + 1]
           counted == e.optional \/ e.created_from_abstract
           offset == IF counted THEN k + e.per_base ELSE options.offset
           bits == IF counted THEN get_num_bits_eventcode_regarding_abstract(Here, k)
                   ELSE options.num_bits
           taken == options.last_option_taken \/ e.created_from_abstract \/ k = l - 1
           w == get_num_bits_eventcode_regarding_abstract(Here, k)
           c == counter_value(Here.elements, k)
<1>3. options' = [order |-> Tail(options.order), offset |-> offset, last_option_taken |-> taken, num_bits |-> bits]
  BY <1>2 DEF EncodeOption
<1>4. options'.order = From(k + 1) /\ options'.offset = offset /\ options'.last_option_taken = taken
      /\ options'.num_bits = bits
  <2> HIDE DEF offset, taken, bits
  <2> QED BY <1>2, <1>3
<1>5. /\ Here \in StatementsOf("encoder", type) /\ IsPlain(type) /\ Here.op = "blob"
      /\ options \in EncoderOptions(l) /\ e \in Elements
  BY <1>1, <1>2, TableHere DEF InTable, Here
<1>6. /\ Here.elements \in Seq(Children) /\ Flat = get_all_elements_flat2(Here.elements)
      /\ \A q \in 1 .. Len(Here.elements) : \E i \in 1 .. Len(type) : Here.elements[q] = type[i]
      /\ \A q \in 1 .. Len(Here.elements) - 1 : IsAbstract(Here.elements[q]) => OwnNameSecond(Here.elements[q])
  <2>1. Flat = Here.flat
    BY DEF Flat, Here
  <2> HIDE DEF l, e
  <2> QED BY <1>5, <2>1, BlobHas
<1>7. \A q \in 1 .. Len(Here.elements) : OneSubstitute(value, Here.elements[q])
  <2>1. DOMAIN type = 1 .. Len(type)
    BY <1>5 DEF IsPlain
  <2> QED BY <1>6, <2>1 DEF EInv, Substituted
<1>8. /\ c \in k .. l - 1
      /\ ~e.created_from_abstract => c = k /\ e.per_base = 1
      /\ e.created_from_abstract => /\ \A j \in k + 1 .. c : ~exists(Flat[j + 1].name)
                                    /\ c < l - 1 => k + e.per_base = c + 1
  BY <1>1, <1>2, <1>6, <1>7, OptionTaken
<1>9. w \in 0 .. 8 /\ l - c <= 2 ^ w /\ (c < l - 1 => w # 0)
  BY <1>5, NextWidth DEF Flat, Here
<1>10. Flat' = Flat /\ value' = value
  BY <1>1 DEF Flat
<1>11. From(k + 1)' = From(k + 1) /\ (Left(k + 1)' <=> Left(k + 1))
  BY <1>10 DEF From, Left, exists
<1>12. l \in Nat /\ k \in Nat /\ k + 1 <= l
  BY <1>2
<1> DEFINE Goal == /\ \A j \in k + 1 .. l - 1 : exists(Flat[j + 1].name) => offset <= j
                   /\ ~taken \/ Left(k + 1) => bits \in 1 .. 8 /\ offset <= l /\ l - offset < 2 ^ bits
<1>13. ASSUME counted PROVE Goal
  <2>1. offset = k + e.per_base /\ bits = w
    BY <1>13
  <2>2. ASSUME c < l - 1
        PROVE  offset = c + 1 /\ \A j \in k + 1 .. l - 1 : exists(Flat[j + 1].name) => c + 1 <= j
    <3>1. CASE e.created_from_abstract
      <4>1. offset = c + 1
        BY <1>8, <2>1, <2>2, <3>1
      <4>2. ASSUME NEW j \in k + 1 .. l - 1, exists(Flat[j + 1].name) PROVE c + 1 <= j
        <5>1. j \notin k + 1 .. c
          BY <1>8, <3>1, <4>2
        <5> HIDE DEF l, c
        <5> QED BY <1>8, <1>12, <5>1
      <4> QED BY <4>1, <4>2
    <3>2. CASE ~e.created_from_abstract
      <4>1. c = k /\ e.per_base = 1
        BY <1>8, <3>2
      <4>2. \A j \in k + 1 .. l - 1 : k + 1 <= j
        OBVIOUS
      <4> HIDE DEF l, c, offset
      <4> QED BY <2>1, <4>1, <4>2, Zenon
    <3> QED BY <3>1, <3>2
  <2>3. ASSUME ~(c < l - 1)
        PROVE  taken /\ \A j \in k + 1 .. l - 1 : ~exists(Flat[j + 1].name)
    <3>1. c = l - 1
      <4> HIDE DEF l, c
      <4> QED BY <1>8, <1>12, <2>3
    <3>2. CASE e.created_from_abstract
      BY <1>8, <3>1, <3>2
    <3>3. CASE ~e.created_from_abstract
      <4>1. k = l - 1
        BY <1>8, <3>1, <3>3
      <4>2. k + 1 .. l - 1 = {}
        <5> HIDE DEF l
        <5> QED BY <4>1, <1>12
      <4> QED BY <4>1, <4>2
    <3> QED BY <3>2, <3>3
  <2>4. CASE c < l - 1
    <3> DEFINE p == 2 ^ w
    <3>1. p \in Nat
      BY <1>9, SmallPowers
    <3>2. w # 0 /\ w \in 0 .. 8 /\ l - c <= p
      BY <1>9, <2>4
    <3> HIDE DEF p, w, l, c, offset, bits
    <3>3. w \in 1 .. 8 /\ c + 1 <= l /\ l - (c + 1) < p
      BY <1>8, <1>12, <2>4, <3>1, <3>2
    <3>4. bits \in 1 .. 8 /\ offset <= l /\ l - offset < 2 ^ bits
      <4>1. offset = c + 1 /\ bits = w
        BY <2>1, <2>2, <2>4
      <4> QED BY <3>3, <4>1, Zenon DEF p
    <3>5. \A j \in k + 1 .. l - 1 : exists(Flat[j + 1].name) => offset <= j
      BY <2>2, <2>4, Zenon
    <3> HIDE DEF taken
    <3> QED BY <3>4, <3>5, Zenon
  <2>5. CASE ~(c < l - 1)
    <3>1. taken /\ ~Left(k + 1) /\ \A j \in k + 1 .. l - 1 : ~exists(Flat[j + 1].name)
      BY <2>3, <2>5 DEF Left
    <3> HIDE DEF taken, offset, bits, l
    <3> QED BY <3>1, Zenon
  <2> HIDE DEF Goal
  <2> QED BY <2>4, <2>5
<1>14. ASSUME ~counted PROVE Goal
  <2>1. offset = options.offset /\ bits = options.num_bits
    BY <1>14
  <2>2. \A j \in k + 1 .. l - 1 : j \in k .. l - 1
    <3> HIDE DEF l
    <3> QED BY <1>12
  <2>3. Left(k)
    <3>1. k \in k .. Len(Flat) - 1
      BY <1>2
    <3> QED BY <1>1, <1>2, <3>1 DEF Left
  <2>4. /\ \A j \in k .. l - 1 : exists(Flat[j + 1].name) => options.offset <= j
        /\ options.num_bits \in 1 .. 8
        /\ options.offset <= l /\ l - options.offset < 2 ^ options.num_bits
    BY <1>2, <2>3 DEF FitsFrom
  <2> HIDE DEF offset, bits, taken, l
  <2> QED BY <2>1, <2>2, <2>4, Zenon
<1>15. Goal
  <2>1. counted \/ ~counted
    OBVIOUS
  <2> HIDE DEF Goal, counted
  <2> QED BY <1>13, <1>14, <2>1, Zenon
<1>16. FitsFrom(k + 1)'
  <2> HIDE DEF offset, bits, taken
  <2> QED BY <1>4, <1>10, <1>11, <1>15 DEF FitsFrom, exists
<1> QED
  BY <1>2, <1>10, <1>16 DEF OptionsFit

(* Every other step leaves no table, or the one there is.                  *)
LEMMA OthersFit ==
  TInv /\ EInv /\ (EncodeParticle \/ EncodeFinish \/ EndOptions \/ Refuse \/ EncodeReturns \/ Decode \/ Ended
                   \/ UNCHANGED vars) => OptionsFit'
<1> SUFFICES ASSUME TInv, EInv,
                    \/ EncodeParticle \/ EncodeFinish \/ EndOptions \/ Refuse \/ EncodeReturns \/ Decode
                    \/ Ended \/ UNCHANGED vars
             PROVE  OptionsFit'
  OBVIOUS
<1>1. CASE EncodeParticle \/ EncodeFinish
  <2>1. side = "encoder" /\ code # <<>> /\ Head(code).op # "blob" /\ options' = options
    BY <1>1 DEF EncodeParticle, EncodeFinish, Encoding
  <2>2. options = None
    BY <2>1 DEF TInv, OptionsTyped
  <2> QED BY <2>1, <2>2 DEF OptionsFit, None
<1>2. CASE EndOptions
  BY <1>2 DEF EndOptions, OptionsFit, None
<1>3. CASE Refuse \/ EncodeReturns
  <2>1. side' # "encoder"
    BY <1>3 DEF Refuse, EncodeReturns
  <2> QED BY <2>1 DEF OptionsFit, Encoding
<1>4. CASE Decode
  <2>1. side' # "encoder"
    BY <1>4, DecodeIsNoEncoding
  <2> QED BY <2>1 DEF OptionsFit, Encoding
<1>5. CASE Ended \/ UNCHANGED vars
  <2>1. side' = side /\ code' = code /\ options' = options /\ value' = value
    BY <1>5 DEF Ended, vars
  <2>2. (Encoding("blob")' <=> Encoding("blob")) /\ Flat' = Flat /\ None' = None
    BY <2>1 DEF Encoding, Flat, None
  <2>3. \A k : FitsFrom(k) => FitsFrom(k)'
    BY <2>1, <2>2 DEF FitsFrom, From, Left, exists
  <2> QED BY <2>1, <2>2, <2>3 DEF EInv, OptionsFit
<1> QED
  BY <1>1, <1>2, <1>3, <1>4, <1>5

(* So every code fits the width there is for it.                           *)
LEMMA EInvFits == TInv /\ EInv => EventCodesFit
<1> SUFFICES ASSUME TInv, EInv, Encoding("blob"), options # None
             PROVE  /\ InTable /\ exists(Option.name) => Fits(event_code, options.num_bits)
                    /\ options.order = <<>> /\ ~options.last_option_taken => Fits(event_code, options.num_bits)
  BY DEF EventCodesFit
<1> DEFINE l == Len(Flat)
           o == options.offset
           n == options.num_bits
<1>1. l \in 0 .. 225 /\ o \in Nat
  BY TableHere DEF EncoderOptions
<1>2. ASSUME NEW i \in 0 .. l, o <= i, n \in 1 .. 8, l - o < 2 ^ n, event_code = i - o PROVE Fits(event_code, n)
  <2> DEFINE p == 2 ^ n
  <2>1. p \in Nat
    <3>1. n \in 0 .. 8
      BY <1>2
    <3> QED BY <3>1, SmallPowers, Zenon
  <2>2. l - o < p /\ n > 0
    BY <1>2
  <2> HIDE DEF p, l, o, n
  <2>3. i - o \in 0 .. p - 1
    BY <1>1, <1>2, <2>1, <2>2
  <2> QED BY <1>2, <2>2, <2>3 DEF Fits, p
<1>3. ASSUME InTable, exists(Option.name) PROVE Fits(event_code, n)
  <2>1. PICK k \in 0 .. Len(Flat) - 1 : FitsFrom(k) /\ Head(options.order) = k /\ Option = Flat[k + 1]
    BY <1>3, AtEntry
  <2>2. k \in k .. Len(Flat) - 1 /\ k \in 0 .. l
    BY <1>1
  <2>3. Left(k)
    BY <1>3, <2>1, <2>2 DEF Left
  <2>4. o <= k /\ n \in 1 .. 8 /\ l - o < 2 ^ n
    BY <1>3, <2>1, <2>2, <2>3 DEF FitsFrom
  <2>5. event_code = k - o
    BY <1>3, <2>1 DEF event_code, InTable
  <2> HIDE DEF l, o, n
  <2> QED BY <1>2, <2>2, <2>4, <2>5
<1>4. ASSUME options.order = <<>>, ~options.last_option_taken PROVE Fits(event_code, n)
  <2>1. PICK k \in 0 .. Len(Flat) : FitsFrom(k)
    BY DEF EInv, OptionsFit
  <2>2. o <= l /\ n \in 1 .. 8 /\ l - o < 2 ^ n
    BY <1>4, <2>1 DEF FitsFrom
  <2>3. event_code = l - o
    BY <1>4 DEF event_code
  <2>4. l \in 0 .. l
    BY <1>1
  <2> HIDE DEF l, o, n
  <2> QED BY <1>2, <2>2, <2>3, <2>4
<1> QED
  BY <1>3, <1>4

(* If the tables are iterated in the order of their entries, which the     *)
(* generator takes for granted, no event code of an option, or of the end  *)
(* of the options, is too wide for the bits it is given, and none is given *)
(* no bits: add_max_8bits neither throws for it nor writes over the bits   *)
(* before it.                                                              *)
THEOREM EventCodesHaveRoom == ASSUME OrdersByIndex PROVE Spec => []EventCodesFit
<1>1. TInv /\ EInv /\ [Next]_vars => EInv'
  <2> SUFFICES ASSUME TInv, EInv, [Next]_vars PROVE EInv'
    OBVIOUS
  <2>1. Substituted'
    BY SubstitutedStays DEF EInv
  <2>2. OptionsFit'
    BY EncodeOptionsFits, SkipOptionFits, EncodeOptionFits, OthersFit DEF Next, Encode
  <2> QED BY <2>1, <2>2 DEF EInv
<1> QED
  BY <1>1, InitFits, TInvIsInvariant, EInvFits, PTL DEF Spec
================================================================================
