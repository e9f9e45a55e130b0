------------------------------- MODULE Induction -------------------------------
(***************************************************************************)
(* What the other proofs share: induction over the natural numbers, stated *)
(* with a set instead of a predicate, so that it can be cited for a set    *)
(* that a proof defines, and what FlattenSeq makes of a sequence.          *)
(***************************************************************************)
EXTENDS Integers, SequencesExt, SequenceTheorems, WellFoundedInduction, TLAPS

(* A set of natural numbers has a least one.                               *)
LEMMA LeastNumber ==
  ASSUME NEW S, S \subseteq Nat, S # {}
  PROVE  \E n \in S : \A m \in S : n <= m
<1> DEFINE R == OpToRel(<, Nat)
<1>1. IsWellFoundedOn(R, Nat)
  BY NatLessThanWellFounded
<1>2. \A x, y \in Nat : y < x => <<y, x>> \in R
  BY DEF OpToRel
<1> HIDE DEF R
<1>3. PICK n \in S : \A m \in S : ~ (<<m, n>> \in R)
  BY <1>1, WFMin
<1>4. ASSUME NEW m \in S PROVE n <= m
  <2>1. m \in Nat /\ n \in Nat
    OBVIOUS
  <2>2. ~ (m < n)
    BY <1>2, <1>3, <2>1
  <2> QED
    BY <2>1, <2>2
<1> QED
  BY <1>4

(* What holds of 0, and of n + 1 if of n, holds of every number.           *)
THEOREM Induction ==
  ASSUME NEW S, 0 \in S, \A n \in Nat : n \in S => n + 1 \in S
  PROVE  \A n \in Nat : n \in S
<1> DEFINE Others == Nat \ S
<1>1. SUFFICES ASSUME Others # {} PROVE FALSE
  OBVIOUS
<1>2. Others \subseteq Nat
  OBVIOUS
<1>3. PICK n \in Others : \A m \in Others : n <= m
  <2> HIDE DEF Others
  <2> QED BY <1>1, <1>2, LeastNumber
<1>4. n # 0 /\ n - 1 \in Nat /\ n - 1 \notin Others
  BY <1>3
<1> QED
  BY <1>3, <1>4

(***************************************************************************)
(* A recursive function on 0 .. n exists, with values in the set that the  *)
(* step from each value to the next stays in.                              *)
(***************************************************************************)
IsRecursive(f, n, first, step) ==
  \A k \in 0 .. n : f[k] = IF k = 0 THEN first ELSE step[<<k, f[k - 1]>>]

LEMMA Recursion ==
  ASSUME NEW n \in Nat, NEW S, NEW first \in S, NEW step \in [(1 .. n) \X S -> S]
  PROVE  \E f \in [0 .. n -> S] : IsRecursive(f, n, first, step)
<1> DEFINE Value(f, k) == IF k = 0 THEN first ELSE step[<<k, f[k - 1]>>]
           Upto(m) == \E f \in [0 .. m -> S] : \A k \in 0 .. m : f[k] = Value(f, k)
           T == {m \in Nat : m <= n => Upto(m)}
<1>1. 0 \in T
  <2> DEFINE f == [k \in 0 .. 0 |-> first]
  <2>1. f \in [0 .. 0 -> S] /\ \A k \in 0 .. 0 : f[k] = Value(f, k)
    OBVIOUS
  <2> HIDE DEF f, Value
  <2> QED BY <2>1
<1>2. ASSUME NEW m \in Nat, m \in T PROVE m + 1 \in T
  <2>1. SUFFICES ASSUME m + 1 <= n PROVE Upto(m + 1)
    <3> HIDE DEF Upto
    <3> QED OBVIOUS
  <2>2. PICK f \in [0 .. m -> S] : \A k \in 0 .. m : f[k] = Value(f, k)
    <3>1. Upto(m)
      <4> HIDE DEF Upto
      <4> QED BY <1>2, <2>1
    <3> HIDE DEF Value
    <3> QED BY <3>1
  <2>3. m \in 0 .. m /\ m + 1 \in 1 .. n
    BY <2>1
  <2>4. f[m] \in S /\ step[<<m + 1, f[m]>>] \in S
    BY <2>3
  <2> DEFINE g == [k \in 0 .. m + 1 |-> IF k = m + 1 THEN step[<<m + 1, f[m]>>] ELSE f[k]]
  <2>5. /\ \A k \in 0 .. m : g[k] = f[k]
        /\ g[m + 1] = step[<<m + 1, f[m]>>]
        /\ \A k \in 0 .. m + 1 : k \in 0 .. m \/ k = m + 1
    OBVIOUS
  <2>6. g \in [0 .. m + 1 -> S]
    <3>1. \A k \in 0 .. m + 1 : (IF k = m + 1 THEN step[<<m + 1, f[m]>>] ELSE f[k]) \in S
      BY <2>4, <2>5
    <3> QED BY <3>1
  <2>7. ASSUME NEW k \in 0 .. m + 1 PROVE g[k] = Value(g, k)
    <3>1. CASE k \in 0 .. m
      <4>1. f[k] = Value(f, k)
        <5> HIDE DEF Value
        <5> QED BY <2>2, <3>1
      <4>2. k # 0 => k - 1 \in 0 .. m
        BY <3>1
      <4>3. k # 0 => g[k - 1] = f[k - 1]
        <5> HIDE DEF g
        <5> QED BY <2>5, <4>2
      <4> HIDE DEF g
      <4> QED BY <2>5, <3>1, <4>1, <4>3
    <3>2. CASE k = m + 1
      <4>1. k # 0 /\ k - 1 = m
        BY <3>2
      <4> HIDE DEF g
      <4> QED BY <2>3, <2>5, <3>2, <4>1
    <3> QED BY <2>5, <3>1, <3>2
  <2> HIDE DEF g, Value
  <2> QED BY <2>6, <2>7
<1>3. \A m \in Nat : m \in T
  <2> HIDE DEF T
  <2> QED BY <1>1, <1>2, Induction
<1> QED
  <2>1. Upto(n)
    <3> HIDE DEF Upto
    <3> QED BY <1>3
  <2> QED BY <2>1 DEF IsRecursive

(***************************************************************************)
(* FlattenSeq, one sequence at a time.                                     *)
(***************************************************************************)
Flattening(f, seqs) ==
  f = [i \in 1 .. Len(seqs) |-> IF i = 1 THEN seqs[i] ELSE f[i - 1] \o seqs[i]]

(* Such a function exists: by induction over the length.                   *)
LEMMA FlatteningExists ==
  ASSUME NEW S, NEW seqs \in Seq(S)
  PROVE  \E f : Flattening(f, seqs)
<1> DEFINE F(f, n) == f = [i \in 1 .. n |-> IF i = 1 THEN seqs[i] ELSE f[i - 1] \o seqs[i]]
           T == {n \in Nat : \E f : F(f, n)}
<1>1. 0 \in T
  <2> DEFINE e == [i \in 1 .. 0 |-> <<>>]
  <2>1. F(e, 0)
    OBVIOUS
  <2>2. \E f : F(f, 0)
    <3> HIDE DEF F, e
    <3> QED BY <2>1
  <2> HIDE DEF F
  <2> QED BY <2>2
<1>2. ASSUME NEW n \in Nat, n \in T PROVE n + 1 \in T
  <2>1. PICK f : F(f, n)
    BY <1>2
  <2> DEFINE Next1(g, i) == IF i = 1 THEN seqs[i] ELSE g[i - 1] \o seqs[i]
             g == [i \in 1 .. n + 1 |-> IF i = n + 1 THEN Next1(f, n + 1) ELSE f[i]]
  <2>2. ASSUME NEW i \in 1 .. n + 1 PROVE g[i] = Next1(g, i)
    <3>1. ASSUME NEW j \in 1 .. n PROVE g[j] = f[j]
      <4>1. j \in 1 .. n + 1 /\ j # n + 1
        OBVIOUS
      <4> QED BY <4>1
    <3>2. i # 1 => i - 1 \in 1 .. n
      OBVIOUS
    <3>3. Next1(g, i) = Next1(f, i)
      <4> HIDE DEF g
      <4> QED BY <3>1, <3>2
    <3>4. CASE i = n + 1
      BY <3>3, <3>4
    <3>5. CASE i # n + 1
      <4>1. i \in 1 .. n
        BY <3>5
      <4>2. f[i] = Next1(f, i)
        BY <2>1, <4>1
      <4> HIDE DEF g
      <4> QED BY <3>1, <3>3, <4>1, <4>2
    <3> QED BY <3>4, <3>5
  <2>3. g = [i \in 1 .. n + 1 |-> g[i]]
    OBVIOUS
  <2>4. [i \in 1 .. n + 1 |-> g[i]] = [i \in 1 .. n + 1 |-> Next1(g, i)]
    <3> HIDE DEF g, Next1
    <3> QED BY <2>2
  <2>5. F(g, n + 1)
    <3> HIDE DEF g
    <3> QED BY <2>3, <2>4
  <2>6. \E h : F(h, n + 1)
    <3> HIDE DEF F, g
    <3> QED BY <2>5
  <2> HIDE DEF F
  <2> QED BY <2>6
<1>3. \A n \in Nat : n \in T
  <2> HIDE DEF T
  <2> QED BY <1>1, <1>2, Induction
<1>4. Len(seqs) \in Nat
  OBVIOUS
<1> QED
  BY <1>3, <1>4 DEF Flattening

(* Its values.                                                             *)
LEMMA FlatteningAt ==
  ASSUME NEW f, NEW seqs, Flattening(f, seqs), NEW i \in 1 .. Len(seqs)
  PROVE  f[i] = IF i = 1 THEN seqs[i] ELSE f[i - 1] \o seqs[i]
<1> DEFINE Value(j) == IF j = 1 THEN seqs[j] ELSE f[j - 1] \o seqs[j]
<1>1. f = [j \in 1 .. Len(seqs) |-> Value(j)]
  BY DEF Flattening
<1>2. f[i] = Value(i)
  <2> HIDE DEF Value
  <2> QED BY <1>1
<1> QED
  BY <1>2

(* Two of them agree where both are defined.                               *)
LEMMA FlatteningsAgree ==
  ASSUME NEW f, NEW g, NEW seqs, NEW others, Len(seqs) \in Nat, Len(others) \in Nat,
         Flattening(f, seqs), Flattening(g, others), Len(seqs) <= Len(others),
         \A i \in 1 .. Len(seqs) : seqs[i] = others[i]
  PROVE  \A i \in 1 .. Len(seqs) : f[i] = g[i]
<1> DEFINE T == {n \in Nat : n \in 1 .. Len(seqs) => f[n] = g[n]}
<1>1. 0 \in T
  OBVIOUS
<1>2. ASSUME NEW n \in Nat, n \in T PROVE n + 1 \in T
  <2>1. SUFFICES ASSUME n + 1 \in 1 .. Len(seqs) PROVE f[n + 1] = g[n + 1]
    OBVIOUS
  <2>2. f[n + 1] = IF n + 1 = 1 THEN seqs[n + 1] ELSE f[n + 1 - 1] \o seqs[n + 1]
    BY <2>1, FlatteningAt
  <2>3. n + 1 \in 1 .. Len(others)
    BY <2>1
  <2>4. g[n + 1] = IF n + 1 = 1 THEN others[n + 1] ELSE g[n + 1 - 1] \o others[n + 1]
    BY <2>3, FlatteningAt
  <2>5. seqs[n + 1] = others[n + 1]
    BY <2>1
  <2>6. n + 1 # 1 => f[n] = g[n]
    BY <1>2, <2>1
  <2>7. n + 1 - 1 = n
    OBVIOUS
  <2> QED
    BY <2>2, <2>4, <2>5, <2>6, <2>7
<1>3. \A n \in Nat : n \in T
  <2> HIDE DEF T
  <2> QED BY <1>1, <1>2, Induction
<1> QED
  BY <1>3

(* What FlattenSeq makes of no sequences, and of one more.                 *)
LEMMA FlattenNone == FlattenSeq(<<>>) = <<>>
  BY DEF FlattenSeq

(* FlattenSeq of one sequence more.                                        *)
LEMMA FlattenAppend ==
  ASSUME NEW S, NEW seqs \in Seq(Seq(S)), NEW s \in Seq(S), FlattenSeq(seqs) \in Seq(S)
  PROVE  FlattenSeq(Append(seqs, s)) = FlattenSeq(seqs) \o s
<1> DEFINE n == Len(seqs)
           more == Append(seqs, s)
<1>2. more \in Seq(Seq(S)) /\ Len(more) = n + 1 /\ n \in Nat /\ more[n + 1] = s
      /\ \A i \in 1 .. n : more[i] = seqs[i]
  BY AppendProperties
<1> HIDE DEF more
<1>3. FlattenSeq(more) = FlattenSeq(seqs) \o s
  <2> DEFINE f == CHOOSE f : Flattening(f, seqs)
             g == CHOOSE g : Flattening(g, more)
  <2>1. Flattening(f, seqs) /\ Flattening(g, more)
    BY <1>2, FlatteningExists
  <2>2. FlattenSeq(more) = g[n + 1]
    BY <1>2 DEF FlattenSeq, Flattening
  <2>3. g[n + 1] = IF n + 1 = 1 THEN s ELSE g[n + 1 - 1] \o s
    <3>1. n + 1 \in 1 .. Len(more)
      BY <1>2
    <3>2. g[n + 1] = IF n + 1 = 1 THEN more[n + 1] ELSE g[n + 1 - 1] \o more[n + 1]
      <4> HIDE DEF g
      <4> QED BY <2>1, <3>1, FlatteningAt
    <3> HIDE DEF g
    <3> QED BY <3>2, <1>2
  <2>4. CASE n = 0
    <3>1. seqs = <<>>
      BY <2>4
    <3>2. FlattenSeq(seqs) = <<>>
      BY FlattenNone, <3>1
    <3> HIDE DEF g
    <3> QED BY <2>2, <2>3, <2>4, <3>2
  <2>5. CASE n # 0
    <3>1. FlattenSeq(seqs) = f[n]
      BY <2>5 DEF FlattenSeq, Flattening
    <3>2. f[n] = g[n]
      <4>1. Len(seqs) <= Len(more) /\ \A i \in 1 .. Len(seqs) : seqs[i] = more[i]
        BY <1>2
      <4>2. n \in 1 .. Len(seqs)
        BY <1>2, <2>5
      <4>3. Len(seqs) \in Nat /\ Len(more) \in Nat
        BY <1>2
      <4> HIDE DEF f, g, n
      <4>4. \A i \in 1 .. Len(seqs) : f[i] = g[i]
        BY <2>1, <4>1, <4>3, FlatteningsAgree
      <4> QED BY <4>2, <4>4
    <3>3. n + 1 # 1 /\ n + 1 - 1 = n
      BY <1>2, <2>5
    <3> HIDE DEF f, g
    <3> QED BY <2>2, <2>3, <3>1, <3>2, <3>3
  <2> QED
    BY <2>4, <2>5
<1> QED
  BY <1>3 DEF more

(* The first k sequences, flat.                                            *)
Upto(seqs, k) == FlattenSeq(SubSeq(seqs, 1, k))

(* One step of it.                                                         *)
LEMMA UptoStep ==
  ASSUME NEW S, NEW seqs \in Seq(Seq(S)), NEW k \in Nat, k < Len(seqs), Upto(seqs, k) \in Seq(S)
  PROVE  Upto(seqs, k + 1) = Upto(seqs, k) \o seqs[k + 1]
<1>1. Len(seqs) \in Nat /\ k + 1 \in 1 .. Len(seqs)
  OBVIOUS
<1>2. seqs[k + 1] \in Seq(S)
  BY <1>1, ElementOfSeq
<1>3. SubSeq(seqs, 1, k) \in Seq(Seq(S))
  BY <1>1, SubSeqProperties
<1>4. SubSeq(seqs, 1, k + 1) = Append(SubSeq(seqs, 1, k), seqs[k + 1])
  BY <1>1
<1> QED
  BY <1>2, <1>3, <1>4, FlattenAppend DEF Upto

(* Flat sequences of sequences are sequences.                              *)
LEMMA UptoIn ==
  ASSUME NEW S, NEW seqs \in Seq(Seq(S))
  PROVE  /\ Upto(seqs, 0) = <<>>
         /\ \A k \in 0 .. Len(seqs) : Upto(seqs, k) \in Seq(S)
         /\ Upto(seqs, Len(seqs)) = FlattenSeq(seqs)
<1>0. Len(seqs) \in Nat
  OBVIOUS
<1>1. Upto(seqs, 0) = <<>>
  <2>1. SubSeq(seqs, 1, 0) = <<>>
    BY <1>0, SubSeqEmpty
  <2> QED
    BY <2>1, FlattenNone DEF Upto
<1> DEFINE T == {k \in Nat : k \in 0 .. Len(seqs) => Upto(seqs, k) \in Seq(S)}
<1>2. 0 \in T
  <2>1. <<>> \in Seq(S)
    OBVIOUS
  <2> QED BY <1>1, <2>1
<1>3. ASSUME NEW k \in Nat, k \in T PROVE k + 1 \in T
  <2>1. SUFFICES ASSUME k + 1 \in 0 .. Len(seqs) PROVE Upto(seqs, k + 1) \in Seq(S)
    OBVIOUS
  <2>2. k < Len(seqs) /\ k \in 0 .. Len(seqs) /\ k + 1 \in 1 .. Len(seqs)
    BY <1>0, <2>1
  <2>3. Upto(seqs, k) \in Seq(S)
    BY <1>3, <2>2
  <2>4. seqs[k + 1] \in Seq(S)
    BY <2>2, ElementOfSeq
  <2>5. Upto(seqs, k + 1) = Upto(seqs, k) \o seqs[k + 1]
    BY <2>2, <2>3, UptoStep
  <2> QED
    BY <2>3, <2>4, <2>5, ConcatProperties
<1>4. \A k \in Nat : k \in T
  <2> HIDE DEF T
  <2> QED BY <1>2, <1>3, Induction
<1>5. SubSeq(seqs, 1, Len(seqs)) = seqs
  BY SubSeqFull
<1>6. Upto(seqs, Len(seqs)) = FlattenSeq(seqs)
  BY <1>5 DEF Upto
<1> QED
  BY <1>0, <1>1, <1>4, <1>6

(* A sequence of sequences of S is, flat, a sequence of S.                 *)
LEMMA FlattenIn ==
  ASSUME NEW S, NEW seqs \in Seq(Seq(S))
  PROVE  FlattenSeq(seqs) \in Seq(S)
<1>1. Len(seqs) \in 0 .. Len(seqs)
  <2>1. Len(seqs) \in Nat
    OBVIOUS
  <2> QED BY <2>1
<1> QED
  BY <1>1, UptoIn

(* An element of the flat sequence is one of the sequence it comes from.   *)
LEMMA FlattenFrom ==
  ASSUME NEW S, NEW seqs \in Seq(Seq(S)), NEW q \in 1 .. Len(FlattenSeq(seqs))
  PROVE  \E k \in 1 .. Len(seqs) :
           /\ q \in Len(Upto(seqs, k - 1)) + 1 .. Len(Upto(seqs, k))
           /\ FlattenSeq(seqs)[q] = seqs[k][q - Len(Upto(seqs, k - 1))]
           /\ q - Len(Upto(seqs, k - 1)) \in 1 .. Len(seqs[k])
<1> DEFINE n == Len(seqs)
           In(m, p, k) == /\ p \in Len(Upto(seqs, k - 1)) + 1 .. Len(Upto(seqs, k))
                          /\ Upto(seqs, m)[p] = seqs[k][p - Len(Upto(seqs, k - 1))]
                          /\ p - Len(Upto(seqs, k - 1)) \in 1 .. Len(seqs[k])
           From(m, p) == \E k \in 1 .. m : In(m, p, k)
           T == {m \in Nat : m \in 0 .. n => \A p \in 1 .. Len(Upto(seqs, m)) : From(m, p)}
<1>0. n \in Nat
  OBVIOUS
<1> HIDE DEF n
<1>1. 0 \in T
  <2>1. 1 .. Len(Upto(seqs, 0)) = {}
    <3>1. Len(<<>>) = 0
      OBVIOUS
    <3>2. Len(Upto(seqs, 0)) = 0
      BY <3>1, UptoIn
    <3> QED BY <3>2
  <2> HIDE DEF From
  <2> QED BY <2>1
<1>2. ASSUME NEW m \in Nat, m \in T PROVE m + 1 \in T
  <2>1. SUFFICES ASSUME m + 1 \in 0 .. n, NEW p \in 1 .. Len(Upto(seqs, m + 1)) PROVE From(m + 1, p)
    <3> HIDE DEF From
    <3> QED OBVIOUS
  <2>2. m < n /\ m \in 0 .. n /\ m + 1 \in 1 .. n /\ m + 1 - 1 = m
    BY <1>0, <2>1
  <2>3. Upto(seqs, m) \in Seq(S) /\ seqs[m + 1] \in Seq(S)
    BY <2>2, UptoIn, ElementOfSeq DEF n
  <2>4. Upto(seqs, m + 1) = Upto(seqs, m) \o seqs[m + 1]
    BY <2>2, <2>3, UptoStep DEF n
  <2> DEFINE a == Upto(seqs, m)
             b == seqs[m + 1]
  <2>5. /\ Len(a) \in Nat /\ Len(b) \in Nat
        /\ Len(Upto(seqs, m + 1)) = Len(a) + Len(b)
        /\ \A i \in 1 .. Len(a) : Upto(seqs, m + 1)[i] = a[i]
        /\ \A i \in Len(a) + 1 .. Len(a) + Len(b) : Upto(seqs, m + 1)[i] = b[i - Len(a)]
    BY <2>3, <2>4, ConcatProperties
  <2>6. CASE p \in 1 .. Len(a)
    <3>1. From(m, p)
      <4> HIDE DEF From
      <4> QED BY <1>2, <2>2, <2>6
    <3>2. Upto(seqs, m + 1)[p] = Upto(seqs, m)[p]
      BY <2>5, <2>6
    <3>3. 1 .. m \subseteq 1 .. m + 1
      OBVIOUS
    <3> QED
      BY <3>1, <3>2, <3>3
  <2>7. CASE p \in Len(a) + 1 .. Len(a) + Len(b)
    <3>1. Upto(seqs, m + 1)[p] = b[p - Len(a)]
      BY <2>5, <2>7
    <3>2. p - Len(a) \in 1 .. Len(b)
      BY <2>5, <2>7
    <3>3. m + 1 \in 1 .. m + 1
      BY <2>2
    <3>4. p \in Len(Upto(seqs, m)) + 1 .. Len(Upto(seqs, m + 1))
      BY <2>5, <2>7
    <3>5. In(m + 1, p, m + 1)
      BY <2>2, <3>1, <3>2, <3>4
    <3> HIDE DEF In
    <3> QED
      BY <3>3, <3>5
  <2>8. p \in 1 .. Len(a) \/ p \in Len(a) + 1 .. Len(a) + Len(b)
    BY <2>1, <2>5
  <2> HIDE DEF From, a, b
  <2> QED
    BY <2>6, <2>7, <2>8
<1>3. \A m \in Nat : m \in T
  <2> HIDE DEF T
  <2> QED BY <1>1, <1>2, Induction
<1>4. Upto(seqs, n) = FlattenSeq(seqs)
  BY UptoIn DEF n
<1>5. n \in 0 .. n
  BY <1>0
<1>6. From(n, q)
  <2> HIDE DEF From
  <2> QED BY <1>3, <1>4, <1>5, <1>0
<1> QED
  BY <1>4, <1>6 DEF n

(* The flat sequence grows, and keeps what it has.                         *)
LEMMA UptoGrows ==
  ASSUME NEW S, NEW seqs \in Seq(Seq(S)), NEW a \in 0 .. Len(seqs), NEW b \in a .. Len(seqs)
  PROVE  /\ Len(Upto(seqs, a)) <= Len(Upto(seqs, b))
         /\ \A q \in 1 .. Len(Upto(seqs, a)) : Upto(seqs, b)[q] = Upto(seqs, a)[q]
<1> DEFINE Keeps(m) == /\ Len(Upto(seqs, a)) <= Len(Upto(seqs, a + m))
                       /\ \A q \in 1 .. Len(Upto(seqs, a)) : Upto(seqs, a + m)[q] = Upto(seqs, a)[q]
           T == {m \in Nat : a + m <= Len(seqs) => Keeps(m)}
<1>0. Len(seqs) \in Nat /\ a \in Nat /\ Upto(seqs, a) \in Seq(S) /\ Len(Upto(seqs, a)) \in Nat
  BY UptoIn, LenProperties
<1>1. 0 \in T
  BY <1>0
<1>2. ASSUME NEW m \in Nat, m \in T PROVE m + 1 \in T
  <2>1. SUFFICES ASSUME a + (m + 1) <= Len(seqs) PROVE Keeps(m + 1)
    <3> HIDE DEF Keeps
    <3> QED OBVIOUS
  <2> DEFINE c == a + m
  <2>2. c \in Nat /\ c < Len(seqs) /\ c \in 0 .. Len(seqs) /\ c + 1 \in 1 .. Len(seqs) /\ a + (m + 1) = c + 1
    BY <1>0, <2>1
  <2>3. Keeps(m)
    <3> HIDE DEF Keeps
    <3> QED BY <1>2, <1>0, <2>1
  <2> HIDE DEF c
  <2>4. Upto(seqs, c) \in Seq(S) /\ seqs[c + 1] \in Seq(S)
    BY <2>2, UptoIn, ElementOfSeq
  <2>5. Upto(seqs, c + 1) = Upto(seqs, c) \o seqs[c + 1]
    BY <2>2, <2>4, UptoStep
  <2>6. /\ Len(Upto(seqs, c)) \in Nat /\ Len(Upto(seqs, c)) <= Len(Upto(seqs, c + 1))
        /\ \A q \in 1 .. Len(Upto(seqs, c)) : Upto(seqs, c + 1)[q] = Upto(seqs, c)[q]
    BY <2>4, <2>5, ConcatProperties
  <2>7. /\ Len(Upto(seqs, a)) <= Len(Upto(seqs, c))
        /\ \A q \in 1 .. Len(Upto(seqs, a)) : Upto(seqs, c)[q] = Upto(seqs, a)[q]
    BY <2>3 DEF c
  <2>8. Len(Upto(seqs, c + 1)) \in Nat
    BY <2>2, UptoIn, LenProperties
  <2>9. /\ Len(Upto(seqs, a)) <= Len(Upto(seqs, c + 1))
        /\ \A q \in 1 .. Len(Upto(seqs, a)) : Upto(seqs, c + 1)[q] = Upto(seqs, a)[q]
    BY <1>0, <2>6, <2>7, <2>8
  <2> QED
    BY <2>2, <2>9
<1>3. \A m \in Nat : m \in T
  <2> HIDE DEF T
  <2> QED BY <1>1, <1>2, Induction
<1>4. b - a \in Nat /\ a + (b - a) = b /\ b <= Len(seqs)
  BY <1>0
<1>5. Keeps(b - a)
  <2> HIDE DEF Keeps
  <2> QED BY <1>3, <1>4
<1> QED
  BY <1>4, <1>5
================================================================================
