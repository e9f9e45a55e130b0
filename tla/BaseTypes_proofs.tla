--------------------------- MODULE BaseTypes_proofs ---------------------------
(***************************************************************************)
(* FieldsFit and TypeOK for every document whose values are in the range   *)
(* that the schema gives their types: each call of add_max_8bits that an   *)
(* inject function makes has a number of bits that BitStream takes, and a  *)
(* value that fits them.                                                   *)
(*                                                                         *)
(* Together with WrittenBitsAlwaysStay of BitStream_proofs, whose          *)
(* hypothesis this is, no value damages those written before it. That what *)
(* was written is read again is in BaseTypes_roundtrip.                    *)
(***************************************************************************)
EXTENDS BaseTypes, Induction, SequenceTheorems, FiniteSetTheorems, TLAPS

(* The calls that fit.                                                     *)
Field == {c \in [value : 0 .. 255, n : 1 .. 8] : c.value < 2 ^ c.n}

(* The base types that the simple types of the schemas are restrictions    *)
(* of.                                                                     *)
SequenceTypes == {"xs:boolean", "xs:string", "xs:anyURI", "xs:decimal", "xs:hexBinary", "xs:base64Binary"}

(* Only the last two characters of a base64 text may be a padding.         *)
IsBase64(text) ==
  /\ text \in Seq(Nat)
  /\ \A i \in DOMAIN text : text[i] < 64 \/ (text[i] = Pad /\ i >= Len(text) - 1)
  /\ text[Len(text) - 1] = Pad => text[Len(text)] = Pad

(* The values v of type t. A bounded integer has two to 256 values, an     *)
(* enumeration two to 256 literals.                                        *)
InRange(t, v) ==
  LET kind == getSimpleTypeInfo(t).kind
  IN  /\ t.sequence_type \in SequenceTypes
      /\ kind = "xs:boolean" => v \in {0, 1}
      /\ kind = "enum" => t.enumerations \in 2 .. 256 /\ v \in 0 .. t.enumerations - 1
      /\ kind = "nbit" => /\ t.min \in Int /\ t.max \in Int
                          /\ t.max - t.min \in 1 .. 255
                          /\ v \in t.min .. t.max
      /\ kind \in {"unsigned", "integer"} => v \in Int
      /\ kind \in {"xs:string", "xs:hexBinary"} => v \in Seq(Nat)
      /\ kind = "xs:base64Binary" => IsBase64(v)

(* A value as the generator knows it, whether its text parses or not.      *)
IsTyped(value) == \E t, v, known : InRange(t, v) /\ value = [Value(t, v) EXCEPT !.known = known]

(***************************************************************************)
(* Powers of two: a set of n elements has 2^n subsets, which is all that   *)
(* is needed of exponents that are not literals.                           *)
(***************************************************************************)
LEMMA PowerOfTwo ==
  ASSUME NEW n \in Nat
  PROVE  2 ^ n \in Nat \ {0}
<1>1. IsFiniteSet(1 .. n) /\ Cardinality(1 .. n) = n
  BY FS_Interval
<1>2. IsFiniteSet(SUBSET (1 .. n)) /\ Cardinality(SUBSET (1 .. n)) = 2 ^ n
  BY <1>1, FS_SUBSET
<1>3. SUBSET (1 .. n) # {}
  OBVIOUS
<1> QED
  BY <1>2, <1>3, FS_EmptySet, FS_CardinalityType

(* Fewer elements have fewer subsets.                                      *)
LEMMA PowersGrow ==
  ASSUME NEW m \in Nat, NEW n \in Nat, m <= n
  PROVE  2 ^ m <= 2 ^ n
<1>1. /\ IsFiniteSet(1 .. m) /\ Cardinality(1 .. m) = m
      /\ IsFiniteSet(1 .. n) /\ Cardinality(1 .. n) = n
  BY FS_Interval
<1>2. /\ Cardinality(SUBSET (1 .. m)) = 2 ^ m
      /\ IsFiniteSet(SUBSET (1 .. n)) /\ Cardinality(SUBSET (1 .. n)) = 2 ^ n
  BY <1>1, FS_SUBSET
<1>3. SUBSET (1 .. m) \subseteq SUBSET (1 .. n)
  OBVIOUS
<1> QED
  BY <1>2, <1>3, FS_Subset

(* num_bits, the ceiling of log2, holds the numbers below r, in at most    *)
(* eight bits if r is at most 256.                                         *)
LEMMA NumBitsHold ==
  ASSUME NEW r \in 2 .. 256
  PROVE  num_bits(r) \in 1 .. 8 /\ r <= 2 ^ num_bits(r)
<1> DEFINE Holds(n) == 2 ^ n >= r /\ (n = 0 \/ 2 ^ (n - 1) < r)
<1>1. \E n \in 0 .. 16 : Holds(n)
  <2>1. CASE r <= 2        BY <2>1, Holds(1), SMT
  <2>2. CASE r \in 3 .. 4     BY <2>2, Holds(2), SMT
  <2>3. CASE r \in 5 .. 8     BY <2>3, Holds(3), SMT
  <2>4. CASE r \in 9 .. 16    BY <2>4, Holds(4), SMT
  <2>5. CASE r \in 17 .. 32   BY <2>5, Holds(5), SMT
  <2>6. CASE r \in 33 .. 64   BY <2>6, Holds(6), SMT
  <2>7. CASE r \in 65 .. 128  BY <2>7, Holds(7), SMT
  <2>8. CASE r \in 129 .. 256 BY <2>8, Holds(8), SMT
  <2> QED  BY <2>1, <2>2, <2>3, <2>4, <2>5, <2>6, <2>7, <2>8, SMT
<1>2. num_bits(r) \in 0 .. 16 /\ Holds(num_bits(r))
  BY <1>1 DEF num_bits
<1>3. num_bits(r) <= 8
  <2> SUFFICES ASSUME num_bits(r) > 8 PROVE FALSE
    BY <1>2
  <2>1. num_bits(r) - 1 \in Nat /\ 8 <= num_bits(r) - 1
    BY <1>2
  <2>2. 2 ^ 8 <= 2 ^ (num_bits(r) - 1)
    BY <2>1, PowersGrow
  <2>3. 2 ^ (num_bits(r) - 1) \in Nat
    BY <2>1, PowerOfTwo
  <2> QED
    BY <1>2, <2>2, <2>3, 2 ^ 8 = 256
<1>4. num_bits(r) # 0
  <2>1. ASSUME num_bits(r) = 0 PROVE FALSE
    <3>1. 2 ^ num_bits(r) = 2 ^ 0
      BY <2>1
    <3>2. 2 ^ num_bits(r) = 1
      BY <3>1, SMT
    <3> QED
      BY <1>2, <3>2
  <2> QED
    BY <2>1
<1>5. r <= 2 ^ num_bits(r)
  BY <1>2, PowerOfTwo
<1> QED
  BY <1>2, <1>3, <1>4, <1>5

(* A call of eight bits takes any number, the parameter being a uint8_t; a *)
(* call of fewer takes those below 2^n.                                    *)
LEMMA CodeFits ==
  /\ \A v \in Int : Code(v, 8) \in Field
  /\ \A v \in Nat, n \in 1 .. 8 : v < 2 ^ n => Code(v, n) \in Field
<1>1. ASSUME NEW v \in Int PROVE Code(v, 8) \in Field
  <2>1. v % 256 \in 0 .. 255
    BY SMT
  <2>2. ASSUME NEW n \in 1 .. 8, n = 8 PROVE Code(v, n) \in Field
    <3>1. 2 ^ n = 256
      BY <2>2, SMT
    <3> QED
      BY <2>1, <3>1 DEF Code, Field
  <2> QED
    BY <2>2
<1>2. ASSUME NEW v \in Nat, NEW n \in 1 .. 8, v < 2 ^ n PROVE Code(v, n) \in Field
  <2>1. v % 256 \in 0 .. 255 /\ v % 256 <= v
    BY SMT
  <2>2. 2 ^ n \in Nat
    BY PowerOfTwo
  <2>3. v % 256 < 2 ^ n
    BY <1>2, <2>1, <2>2
  <2> QED
    BY <2>1, <2>3 DEF Code, Field
<1> QED
  BY <1>1, <1>2

(* The loops of the inject functions make sequences of such calls.         *)
LEMMA CallSequence ==
  ASSUME NEW k \in Nat, NEW calls \in [1 .. k -> Field]
  PROVE  calls \in Seq(Field)
  OBVIOUS

(* One sequence of them behind the other.                                  *)
LEMMA Concatenated ==
  ASSUME NEW first \in Seq(Field), NEW second \in Seq(Field)
  PROVE  first \o second \in Seq(Field)
  BY ConcatProperties

(* A call on its own.                                                      *)
LEMMA SingleCall ==
  ASSUME NEW v \in Nat, NEW n \in 1 .. 8, v < 2 ^ n
  PROVE  <<Code(v, n)>> \in Seq(Field)
<1>1. Code(v, n) \in Field
  BY CodeFits
<1> QED
  BY <1>1

(* The same of eight bits, for any number.                                 *)
LEMMA SingleByte ==
  ASSUME NEW v \in Int
  PROVE  <<Code(v, 8)>> \in Seq(Field)
<1>1. Code(v, 8) \in Field
  BY CodeFits
<1> QED
  BY <1>1

(* A length that a uint8_t cuts is not longer.                             *)
LEMMA LengthsCut ==
  ASSUME NEW n \in Nat
  PROVE  /\ n % 256 \in Nat /\ n % 256 <= n
         /\ (n \div 2) % 256 \in Nat /\ 2 * ((n \div 2) % 256) <= n
<1>1. \A m \in Nat : m % 256 \in Nat /\ m % 256 <= m
  BY SMT
<1>2. n \div 2 \in Nat /\ 2 * (n \div 2) <= n
  BY SMT
<1> QED
  BY <1>1, <1>2

(* add_bytes: one call for each character.                                 *)
LEMMA CharactersFit ==
  ASSUME NEW text \in Seq(Nat)
  PROVE  characters(text) \in Seq(Field)
<1>1. Len(text) \in Nat
  BY LenProperties
<1>2. Len(text) % 256 \in Nat /\ Len(text) % 256 <= Len(text)
  BY <1>1, LengthsCut
<1>3. ASSUME NEW i \in 1 .. Len(text) % 256 PROVE Code(text[i], 8) \in Field
  <2>1. i \in 1 .. Len(text)
    BY <1>1, <1>2
  <2>2. text[i] \in Int
    BY <2>1, ElementOfSeq
  <2> QED
    BY <2>2, CodeFits
<1>4. characters(text) \in [1 .. Len(text) % 256 -> Field]
  BY <1>3 DEF characters
<1> QED
  BY <1>2, <1>4, CallSequence

(* injectHexBin: one call for each two digits.                             *)
LEMMA HexCodesFit ==
  ASSUME NEW digits \in Seq(Nat), NEW length, length = (Len(digits) \div 2) % 256
  PROVE  <<Code(length, 8)>>
           \o [i \in 1 .. length |-> Code(16 * digits[2 * i - 1] + digits[2 * i], 8)] \in Seq(Field)
<1>1. Len(digits) \in Nat
  BY LenProperties
<1>2. length \in Nat /\ 2 * length <= Len(digits)
  BY <1>1, LengthsCut
<1>3. ASSUME NEW i \in 1 .. length PROVE Code(16 * digits[2 * i - 1] + digits[2 * i], 8) \in Field
  <2>1. 2 * i - 1 \in 1 .. Len(digits) /\ 2 * i \in 1 .. Len(digits)
    BY <1>1, <1>2
  <2>2. digits[2 * i - 1] \in Nat /\ digits[2 * i] \in Nat
    BY <2>1, ElementOfSeq
  <2>3. 16 * digits[2 * i - 1] + digits[2 * i] \in Int
    BY <2>2
  <2> QED
    BY <2>3, CodeFits
<1>4. [i \in 1 .. length |-> Code(16 * digits[2 * i - 1] + digits[2 * i], 8)] \in Seq(Field)
  BY <1>2, <1>3, CallSequence
<1>5. <<Code(length, 8)>> \in Seq(Field)
  BY <1>2, SingleByte
<1> QED
  BY <1>4, <1>5, Concatenated

(* _injectUnsignedNumber: one to five calls of eight bits.                 *)
LEMMA UnsignedCodesFit ==
  ASSUME NEW number \in Int
  PROVE  unsigned_codes(number) \in Seq(Field)
<1> DEFINE above == {b \in 1 .. 30 : number \div 2 ^ b # 0}
<1>1. highest_set_bit(number) \in Nat
  <2>1. IsFiniteSet(1 .. 30)
    BY FS_Interval, 1 \in Int, 30 \in Int
  <2>2. IsFiniteSet(above)
    BY <2>1, FS_Subset
  <2> QED
    BY <2>2, FS_CardinalityType DEF highest_set_bit
<1>2. groups(number) \in Nat
  BY <1>1, SMT DEF groups
<1>3. ASSUME NEW i \in 1 .. groups(number)
      PROVE  (IF i < groups(number) THEN 128 ELSE 0) + ((number \div 2 ^ (7 * (i - 1))) % 128) \in Int
  <2>1. 7 * (i - 1) \in Nat
    BY <1>2
  <2>2. 2 ^ (7 * (i - 1)) \in Nat \ {0}
    BY <2>1, PowerOfTwo
  <2>3. \A p \in Nat \ {0} : (number \div p) % 128 \in Int
    BY SMT
  <2> QED
    BY <2>2, <2>3
<1>4. unsigned_codes(number) \in [1 .. groups(number) -> Field]
  BY <1>3, CodeFits DEF unsigned_codes
<1> QED
  BY <1>2, <1>4, CallSequence

(***************************************************************************)
(* What the functions of a type are called with, by kind: the number of    *)
(* bits of a bounded integer comes from the range of its type, and holds   *)
(* it.                                                                     *)
(***************************************************************************)
LEMMA TypedValues ==
  ASSUME NEW value, IsTyped(value)
  PROVE  /\ value.kind = "xs:boolean" => value.value \in {0, 1}
         /\ value.kind = "enum" => value.n \in 2 .. 256 /\ value.value \in 0 .. value.n - 1
         /\ value.kind = "nbit" => /\ value.n \in 1 .. 8
                                   /\ value.value \in Int /\ value.offset \in Int
                                   /\ value.value - value.offset \in Nat
                                   /\ value.value - value.offset < 2 ^ value.n
         /\ value.kind \in {"unsigned", "integer"} => value.value \in Int
         /\ value.kind \in {"xs:string", "xs:hexBinary"} => value.value \in Seq(Nat)
         /\ value.kind = "xs:base64Binary" => IsBase64(value.value)
<1>1. PICK t, v, known : InRange(t, v) /\ value = [Value(t, v) EXCEPT !.known = known]
  BY DEF IsTyped
<1>2. /\ value.kind = getSimpleTypeInfo(t).kind
      /\ value.n = getSimpleTypeInfo(t).n
      /\ value.offset = getSimpleTypeInfo(t).offset
      /\ value.value = v
  BY <1>1 DEF Value
<1>3. ASSUME value.kind = "enum"
      PROVE  value.n \in 2 .. 256 /\ value.value \in 0 .. value.n - 1
  <2>1. getSimpleTypeInfo(t).n = t.enumerations
    BY <1>1, <1>2, <1>3 DEF InRange, SequenceTypes, getSimpleTypeInfo, DecimalType, NBitDecimalType
  <2> QED
    BY <1>1, <1>2, <1>3, <2>1 DEF InRange
<1>4. ASSUME value.kind = "nbit"
      PROVE  /\ value.n \in 1 .. 8
             /\ value.value \in Int /\ value.offset \in Int
             /\ value.value - value.offset \in Nat
             /\ value.value - value.offset < 2 ^ value.n
  <2>1. /\ getSimpleTypeInfo(t).n = num_bits(value_range(t))
        /\ getSimpleTypeInfo(t).offset = t.min
    BY <1>1, <1>2, <1>4 DEF InRange, SequenceTypes, getSimpleTypeInfo, DecimalType, NBitDecimalType
  <2>2. t.min \in Int /\ t.max \in Int /\ t.max - t.min \in 1 .. 255 /\ v \in t.min .. t.max
    BY <1>1, <1>2, <1>4 DEF InRange
  <2>3. value_range(t) \in 2 .. 256
    BY <2>2, SMT DEF value_range
  <2>4. num_bits(value_range(t)) \in 1 .. 8 /\ value_range(t) <= 2 ^ num_bits(value_range(t))
    BY <2>3, NumBitsHold
  <2>5. 2 ^ num_bits(value_range(t)) \in Nat
    BY <2>4, PowerOfTwo
  <2>6. v \in Int /\ v - t.min \in Nat /\ v - t.min < value_range(t)
    BY <2>2, SMT DEF value_range
  <2>7. v - t.min < 2 ^ num_bits(value_range(t))
    BY <2>3, <2>4, <2>5, <2>6
  <2> QED
    BY <1>2, <2>1, <2>2, <2>4, <2>6, <2>7
<1> QED
  BY <1>1, <1>2, <1>3, <1>4 DEF InRange

(* The characters of a base64 text: the last one is cut to the four or two *)
(* bits that are left, and none but it has fewer than six.                 *)
LEMMA Base64CodeFits ==
  ASSUME NEW c \in 0 .. 63, NEW bits_left \in Nat, bits_left >= 2
  PROVE  base64_code(c, bits_left) \in Field
<1>1. base64_values(c) = c
  BY DEF base64_values
<1>2. CASE bits_left >= 6
  <2>1. ASSUME NEW n \in 1 .. 8, n = 6 PROVE c < 2 ^ n
    BY <2>1, SMT
  <2> QED
    BY <1>1, <1>2, <2>1, CodeFits DEF base64_code
<1>3. CASE bits_left \in 2 .. 5
  <2>1. c \div 2 ^ (6 - bits_left) \in Nat /\ c \div 2 ^ (6 - bits_left) < 2 ^ bits_left
    <3>1. CASE bits_left = 2  BY <3>1, SMT
    <3>2. CASE bits_left = 3  BY <3>2, SMT
    <3>3. CASE bits_left = 4  BY <3>3, SMT
    <3>4. CASE bits_left = 5  BY <3>4, SMT
    <3> QED  BY <1>3, <3>1, <3>2, <3>3, <3>4
  <2>2. base64_code(c, bits_left) = Code(c \div 2 ^ (6 - bits_left), bits_left)
    BY <1>1, <1>3 DEF base64_code
  <2>3. bits_left \in 1 .. 8
    BY <1>3
  <2> QED
    BY <2>1, <2>2, <2>3, CodeFits
<1> QED
  BY <1>2, <1>3

(***************************************************************************)
(* The calls that a value makes.                                           *)
(***************************************************************************)
(* How many characters at the end of a base64 text are a padding.          *)
Padding(text) ==
  IF text[Len(text)] # Pad THEN 0 ELSE IF text[Len(text) - 1] # Pad THEN 1 ELSE 2

(* The number of bytes that the text stands for.                           *)
NumBytes(text) == 3 * (Len(text) \div 4) - Padding(text)

(* injectBase64Value: one call for each character before the padding.      *)
Base64Codes(text) ==
  [i \in 1 .. Len(text) - Padding(text) |-> base64_code(text[i], 8 * NumBytes(text) - 6 * (i - 1))]

(* injectHexBin: one call for each two digits.                             *)
HexCodes(digits) ==
  [i \in 1 .. (Len(digits) \div 2) % 256 |-> Code(16 * digits[2 * i - 1] + digits[2 * i], 8)]

(* injectIntegerNumber: the sign is one bit, or two.                       *)
Sign(number) == (IF number < 0 THEN <<Code(1, 1)>> ELSE <<>>) \o <<Code(0, 1)>>

(* What the inject functions refuse.                                       *)
Throws(v) ==
  \/ v.kind \in {"xs:boolean", "enum", "unsigned", "integer", "nbit"} /\ ~v.known
  \/ v.kind = "xs:base64Binary" /\ (Len(v.value) % 4 # 0 \/ Len(v.value) = 0)

(* The calls for the value v.                                              *)
Codes(v) ==
  IF Throws(v) THEN <<>>
  ELSE CASE v.kind = "xs:boolean"      -> <<Code(v.value, 1)>>
         [] v.kind = "enum"            -> <<Code(v.value, num_bits(v.n))>>
         [] v.kind = "xs:string"       -> <<Code(Len(v.value) + 2, 8)>> \o characters(v.value)
         [] v.kind = "unsigned"        -> unsigned_codes(v.value)
         [] v.kind = "integer"         -> Sign(v.value)
                                            \o unsigned_codes(IF v.value < 0 THEN -v.value ELSE v.value)
         [] v.kind = "nbit"            -> <<Code(v.value - v.offset, v.n)>>
         [] v.kind = "xs:hexBinary"    -> <<Code((Len(v.value) \div 2) % 256, 8)>> \o HexCodes(v.value)
         [] v.kind = "xs:base64Binary" -> unsigned_codes(NumBytes(v.value)) \o Base64Codes(v.value)
         [] OTHER                      -> <<>>

(* The calls by kind.                                                      *)
LEMMA CodesOf ==
  ASSUME NEW v, ~Throws(v)
  PROVE  /\ v.kind = "xs:boolean" => Codes(v) = <<Code(v.value, 1)>>
         /\ v.kind = "enum" => Codes(v) = <<Code(v.value, num_bits(v.n))>>
         /\ v.kind = "xs:string" => Codes(v) = <<Code(Len(v.value) + 2, 8)>> \o characters(v.value)
         /\ v.kind = "unsigned" => Codes(v) = unsigned_codes(v.value)
         /\ v.kind = "integer" =>
              Codes(v) = Sign(v.value) \o unsigned_codes(IF v.value < 0 THEN -v.value ELSE v.value)
         /\ v.kind = "nbit" => Codes(v) = <<Code(v.value - v.offset, v.n)>>
         /\ v.kind = "xs:hexBinary" =>
              Codes(v) = <<Code((Len(v.value) \div 2) % 256, 8)>> \o HexCodes(v.value)
         /\ v.kind = "xs:base64Binary" =>
              Codes(v) = unsigned_codes(NumBytes(v.value)) \o Base64Codes(v.value)
BY DEF Codes

(* The kinds of getSimpleTypeInfo that have an inject function.            *)
Kinds == {"xs:boolean", "enum", "xs:string", "unsigned", "integer", "nbit", "xs:hexBinary", "xs:base64Binary"}

(* All characters but the padding have values.                             *)
LEMMA Base64Characters ==
  ASSUME NEW text, IsBase64(text), NEW i \in 1 .. Len(text) - Padding(text)
  PROVE  text[i] \in 0 .. 63
<1>1. Padding(text) \in 0 .. 2
  BY DEF Padding
<1>2. text \in Seq(Nat) /\ i \in 1 .. Len(text) /\ i \in DOMAIN text
  <2>1. text \in Seq(Nat)
    BY DEF IsBase64
  <2>2. i \in 1 .. Len(text)
    BY <1>1, <2>1
  <2> QED BY <2>1, <2>2
<1>3. text[i] # Pad
  <2> SUFFICES ASSUME text[i] = Pad PROVE FALSE
    OBVIOUS
  <2>1. i >= Len(text) - 1
    <3>1. ~ (Pad < 64)
      BY PadAssumption
    <3> QED BY <1>2, <3>1 DEF IsBase64
  <2>2. i = Len(text) - 1 \/ i = Len(text)
    BY <1>2, <2>1
  <2>3. text[Len(text) - 1] = Pad => text[Len(text)] = Pad
    BY DEF IsBase64
  <2>4. CASE text[Len(text)] # Pad
    BY <2>2, <2>3, <2>4
  <2>5. CASE text[Len(text)] = Pad /\ text[Len(text) - 1] # Pad
    <3>1. Padding(text) = 1
      BY <2>5 DEF Padding
    <3> QED BY <1>2, <2>2, <2>5, <3>1
  <2>6. CASE text[Len(text)] = Pad /\ text[Len(text) - 1] = Pad
    <3>1. Padding(text) = 2
      BY <2>6 DEF Padding
    <3> QED BY <1>2, <2>2, <3>1
  <2> QED BY <2>4, <2>5, <2>6
<1>4. text[i] \in Nat /\ text[i] < 64
  BY <1>2, <1>3 DEF IsBase64
<1>5. \A c \in Nat : c < 64 => c \in 0 .. 63
  OBVIOUS
<1> QED BY <1>4, <1>5, Zenon

(* injectBase64Value: with one or two characters of padding the bits of the *)
(* bytes end in the last character before it.                              *)
LEMMA Base64CodesFit ==
  ASSUME NEW text, IsBase64(text), Len(text) % 4 = 0, Len(text) # 0
  PROVE  Base64Codes(text) \in Seq(Field)
<1> DEFINE length    == Len(text)
           padding   == Padding(text)
           num_bytes == NumBytes(text)
<1>1. length \in Nat /\ padding \in 0 .. 2
  BY DEF IsBase64, Padding
<1>2. length >= 4 /\ 4 * (length \div 4) = length /\ length \div 4 \in Nat
  BY <1>1, SMT
<1>3. length - padding \in Nat
  BY <1>1, <1>2
<1>4. ASSUME NEW i \in 1 .. length - padding
      PROVE  base64_code(text[i], 8 * num_bytes - 6 * (i - 1)) \in Field
  <2>1. text[i] \in 0 .. 63
    BY Base64Characters
  <2>2. 8 * num_bytes - 6 * (i - 1) \in Nat /\ 8 * num_bytes - 6 * (i - 1) >= 2
    <3> HIDE DEF length, padding
    <3> QED BY <1>1, <1>2, SMT DEF NumBytes, length, padding
  <2> QED BY <2>1, <2>2, Base64CodeFits
<1> QED BY <1>3, <1>4, CallSequence DEF Base64Codes

(* Each call of a value in the range of its type fits.                     *)
LEMMA CodesFit ==
  ASSUME NEW v, IsTyped(v)
  PROVE  Codes(v) \in Seq(Field)
<1>1. CASE Throws(v)
  BY <1>1, EmptySeq DEF Codes
<1> SUFFICES ASSUME ~Throws(v) PROVE Codes(v) \in Seq(Field)
  BY <1>1
<1>2. CASE v.kind = "xs:boolean"
  <2>1. v.value \in {0, 1}
    BY <1>2, TypedValues
  <2>2. ASSUME NEW n \in 1 .. 8, n = 1 PROVE v.value < 2 ^ n
    BY <2>1, <2>2, SMT
  <2>3. <<Code(v.value, 1)>> \in Seq(Field)
    BY <2>1, <2>2, CodeFits
  <2> QED BY <1>2, <2>3, CodesOf
<1>3. CASE v.kind = "enum"
  <2>1. v.n \in 2 .. 256 /\ v.value \in 0 .. v.n - 1
    BY <1>3, TypedValues
  <2>2. num_bits(v.n) \in 1 .. 8 /\ v.n <= 2 ^ num_bits(v.n)
    BY <2>1, NumBitsHold
  <2>3. v.value \in Nat /\ v.value < 2 ^ num_bits(v.n)
    BY <2>1, <2>2, PowerOfTwo
  <2>4. <<Code(v.value, num_bits(v.n))>> \in Seq(Field)
    BY <2>2, <2>3, SingleCall
  <2> QED BY <1>3, <2>4, CodesOf
<1>4. CASE v.kind = "xs:string"
  <2>1. v.value \in Seq(Nat)
    BY <1>4, TypedValues
  <2>2. Len(v.value) + 2 \in Int
    BY <2>1, LenProperties
  <2>3. <<Code(Len(v.value) + 2, 8)>> \in Seq(Field)
    BY <2>2, SingleByte
  <2>4. characters(v.value) \in Seq(Field)
    BY <2>1, CharactersFit
  <2>5. <<Code(Len(v.value) + 2, 8)>> \o characters(v.value) \in Seq(Field)
    BY <2>3, <2>4, Concatenated
  <2> QED BY <1>4, <2>5, CodesOf
<1>5. CASE v.kind \in {"unsigned", "integer"}
  <2>1. v.value \in Int
    BY <1>5, TypedValues
  <2>2. ASSUME NEW n \in 1 .. 8, n = 1 PROVE 0 < 2 ^ n /\ 1 < 2 ^ n
    BY <2>2, SMT
  <2>3. <<Code(1, 1)>> \in Seq(Field) /\ <<Code(0, 1)>> \in Seq(Field)
    BY <2>2, CodeFits
  <2>4. Sign(v.value) \in Seq(Field)
    BY <2>3, Concatenated, EmptySeq DEF Sign
  <2>5. /\ unsigned_codes(v.value) \in Seq(Field)
        /\ unsigned_codes(IF v.value < 0 THEN -v.value ELSE v.value) \in Seq(Field)
    BY <2>1, UnsignedCodesFit
  <2>6. Sign(v.value) \o unsigned_codes(IF v.value < 0 THEN -v.value ELSE v.value) \in Seq(Field)
    BY <2>4, <2>5, Concatenated, Zenon
  <2> QED BY <1>5, <2>5, <2>6, CodesOf, Zenon
<1>6. CASE v.kind = "nbit"
  <2>1. /\ v.n \in 1 .. 8
        /\ v.value - v.offset \in Nat
        /\ v.value - v.offset < 2 ^ v.n
    BY <1>6, TypedValues
  <2>2. <<Code(v.value - v.offset, v.n)>> \in Seq(Field)
    BY <2>1, SingleCall
  <2> QED BY <1>6, <2>2, CodesOf
<1>7. CASE v.kind = "xs:hexBinary"
  <2>1. v.value \in Seq(Nat)
    BY <1>7, TypedValues
  <2>2. <<Code((Len(v.value) \div 2) % 256, 8)>> \o HexCodes(v.value) \in Seq(Field)
    BY <2>1, HexCodesFit DEF HexCodes
  <2> QED BY <1>7, <2>2, CodesOf, Zenon
<1>8. CASE v.kind = "xs:base64Binary"
  <2>1. IsBase64(v.value)
    BY <1>8, TypedValues
  <2>2. Len(v.value) % 4 = 0 /\ Len(v.value) # 0
    BY <1>8 DEF Throws
  <2>3. unsigned_codes(NumBytes(v.value)) \o Base64Codes(v.value) \in Seq(Field)
    <3>1. Base64Codes(v.value) \in Seq(Field)
      BY <2>1, <2>2, Base64CodesFit
    <3>2. NumBytes(v.value) \in Int
      <4>1. Len(v.value) \in Nat /\ Padding(v.value) \in 0 .. 2
        BY <2>1 DEF IsBase64, Padding
      <4>2. \A n \in Nat, p \in 0 .. 2 : 3 * (n \div 4) - p \in Int
        OBVIOUS
      <4> QED BY <4>1, <4>2, Zenon DEF NumBytes
    <3> QED BY <3>1, <3>2, UnsignedCodesFit, Concatenated
  <2> QED BY <1>8, <2>3, CodesOf, Zenon
<1>9. CASE v.kind \notin Kinds
  <2>1. Codes(v) = <<>>
    BY <1>9 DEF Kinds, Codes
  <2> QED BY <2>1, EmptySeq
<1> QED BY <1>2, <1>3, <1>4, <1>5, <1>6, <1>7, <1>8, <1>9 DEF Kinds

(* An inject function makes them, or throws where it should.               *)
LEMMA InjectCalls ==
  ASSUME Inject, side = "encoder", IsTyped(Injected)
  PROVE  \/ Throw /\ Throws(Injected)
         \/ Calls(Codes(Injected)) /\ ~Throws(Injected)
<1> DEFINE Done == \/ Throw /\ Throws(Injected)
                   \/ Calls(Codes(Injected)) /\ ~Throws(Injected)
<1> SUFFICES Done
  OBVIOUS
<1>1. ASSUME Injected.kind \in {"xs:boolean", "enum", "unsigned", "integer", "nbit"}
      PROVE  Throws(Injected) <=> ~Injected.known
  BY <1>1 DEF Throws
<1>2. ASSUME Injected.kind \in {"xs:string", "xs:hexBinary"}
      PROVE  ~Throws(Injected)
  BY <1>2 DEF Throws
<1>3. CASE injectBoolValue
  <2>1. Injected.kind = "xs:boolean"
    BY <1>3 DEF injectBoolValue, Injects, Injected
  <2> QED BY <1>1, <1>3, <2>1, CodesOf, Zenon DEF injectBoolValue
<1>4. CASE encode_enum
  <2>1. Injected.kind = "enum"
    BY <1>4 DEF encode_enum, Injects, Injected
  <2> QED BY <1>1, <1>4, <2>1, CodesOf, Zenon DEF encode_enum
<1>5. CASE injectString
  <2>1. Injected.kind = "xs:string"
    BY <1>5 DEF injectString, Injects, Injected
  <2> QED BY <1>2, <1>5, <2>1, CodesOf, Zenon DEF injectString
<1>6. CASE injectIntegerNumber
  <2>1. Injected.kind \in {"unsigned", "integer"}
    BY <1>6 DEF injectIntegerNumber, Injects, Injected
  <2>2. Injected.kind = "unsigned" \/ (Injected.kind = "integer" /\ Injected.kind # "unsigned")
    BY <2>1
  <2> QED BY <1>1, <1>6, <2>1, <2>2, CodesOf, Zenon DEF injectIntegerNumber, Sign
<1>7. CASE injectNBitNumber
  <2>1. Injected.kind = "nbit"
    BY <1>7 DEF injectNBitNumber, Injects, Injected
  <2> QED BY <1>1, <1>7, <2>1, CodesOf, Zenon DEF injectNBitNumber
<1>8. CASE injectHexBin
  <2>1. Injected.kind = "xs:hexBinary"
    BY <1>8 DEF injectHexBin, Injects, Injected
  <2> QED BY <1>2, <1>8, <2>1, CodesOf, Zenon DEF injectHexBin, HexCodes
<1>9. CASE injectBase64Value
  <2> DEFINE text == Injected.value
  <2>1. Injected.kind = "xs:base64Binary"
    BY <1>9 DEF injectBase64Value, Injects, Injected
  <2>2. IsBase64(text)
    BY <2>1, TypedValues
  <2>3. Throws(Injected) <=> (Len(text) % 4 # 0 \/ Len(text) = 0)
    BY <2>1 DEF Throws
  <2>4. \A i \in 1 .. Len(text) - Padding(text) : ~Refused(text[i])
    <3>1. \A c : base64_values(c) = 64 => FALSE
      <4>1. \A c : (IF c < 64 THEN c ELSE 100) = 64 => FALSE
        OBVIOUS
      <4> QED BY <4>1, Zenon DEF base64_values
    <3> QED BY <3>1 DEF Refused
  <2>5. IF Len(text) % 4 # 0 \/ Len(text) = 0 \/ \E i \in 1 .. Len(text) - Padding(text) : Refused(text[i])
        THEN Throw
        ELSE Calls(unsigned_codes(NumBytes(text)) \o Base64Codes(text))
    BY <1>9, Zenon DEF injectBase64Value, Padding, NumBytes, Base64Codes
  <2> QED BY <2>1, <2>3, <2>4, <2>5, CodesOf, Zenon
<1> QED BY <1>3, <1>4, <1>5, <1>6, <1>7, <1>8, <1>9, Zenon DEF Inject

(* Each value of a document is in the range of its type.                   *)
DocumentsTyped ==
  \A d \in Documents : /\ Len(d) \in Nat /\ DOMAIN d = 1 .. Len(d)
                        /\ \A i \in 1 .. Len(d) : IsTyped(d[i])

(* The invariant: what is pending are calls that fit. It is inductive      *)
(* because an inject function looks at the document only, which does not   *)
(* change.                                                                 *)
IInv == /\ document \in Documents
        /\ injected \in Nat
        /\ pending \in Seq(Field)

(* Nothing is pending before the first inject function.                    *)
LEMMA InitEstablishesIInv == Init => IInv
  BY EmptySeq DEF Init, IInv

(* A step of an inject function that does not throw.                       *)
LEMMA CallsKeepIInv ==
  ASSUME IInv, NEW codes \in Seq(Field), Calls(codes)
  PROVE  IInv'
  BY DEF Calls, IInv

(* One that does.                                                          *)
LEMMA ThrowKeepsIInv ==
  ASSUME IInv, Throw
  PROVE  IInv'
  BY DEF Throw, IInv

(* An inject function makes the calls of its value; the other steps leave  *)
(* pending alone, or take a call off it.                                   *)
LEMMA NextKeepsIInv ==
  ASSUME DocumentsTyped, IInv, [Next]_vars
  PROVE  IInv'
<1>1. CASE Inject
  <2>1. side = "encoder" /\ injected < Len(document)
    BY <1>1, Zenon DEF Inject, injectBoolValue, encode_enum, injectString, injectIntegerNumber,
       injectNBitNumber, injectHexBin, injectBase64Value, Injects
  <2>2. IsTyped(Injected)
    <3>1. injected + 1 \in 1 .. Len(document)
      BY <2>1 DEF DocumentsTyped, IInv
    <3> QED BY <3>1 DEF Injected, DocumentsTyped, IInv
  <2>3. Codes(Injected) \in Seq(Field)
    BY <2>2, CodesFit
  <2> QED BY <1>1, <2>1, <2>2, <2>3, InjectCalls, CallsKeepIInv, ThrowKeepsIInv
<1>2. CASE Add
  <2>1. ASSUME pending # <<>> PROVE Tail(pending) \in Seq(Field)
    BY <2>1, HeadTailProperties DEF IInv
  <2> QED BY <1>2, <2>1, ThrowKeepsIInv DEF Add, IInv
<1>3. CASE Encoded \/ Decoded \/ Ended \/ UNCHANGED vars
  BY <1>3 DEF Encoded, Decoded, Ended, vars, IInv
<1>4. CASE Extract
  BY <1>4 DEF Extract, extractBoolValue, decode_enum, extractString, extractIntegerNumber,
     extractNBitNumber, extractHexBin, extractBase64Value, Returns, IInv
<1> QED BY <1>1, <1>2, <1>3, <1>4 DEF Next

(* Every value that an inject function hands to add_max_8bits fits the     *)
(* number of bits it says, for documents of any length with any values of  *)
(* any types, if each is in the range of its type: the widths that         *)
(* num_bits and base64_code compute are wide enough (base_types.cpp,       *)
(* simple_type.py), and no cast to uint8_t loses a bit that counts.        *)
THEOREM FieldsAlwaysFit ==
  ASSUME DocumentsTyped
  PROVE  Spec => []FieldsFit
<1>1. IInv => FieldsFit
  <2> SUFFICES ASSUME IInv, NEW i \in DOMAIN pending
               PROVE  pending[i].n \in 1 .. 8 /\ pending[i].value < 2 ^ pending[i].n
    BY DEF FieldsFit
  <2>1. pending[i] \in Field
    BY DEF IInv
  <2> QED
    BY <2>1 DEF Field
<1>2. IInv /\ [Next]_vars => IInv'
  BY NextKeepsIInv
<1> QED
  BY <1>1, <1>2, InitEstablishesIInv, PTL DEF Spec

(***************************************************************************)
(* Reading: the recursive functions of the model, one step at a time.      *)
(***************************************************************************)
(* get_max_4bytes of bits that are in the stream.                          *)
LEMMA ReadBits ==
  ASSUME NEW n \in Nat, NEW skip, \A k \in 1 .. n : stream[position + skip + k] \in {0, 1}
  PROVE  \E f \in [0 .. n -> Nat] :
           /\ f[0] = 0
           /\ \A k \in 1 .. n : f[k] = 2 * f[k - 1] + stream[position + skip + k]
           /\ get_max_4bytes(n, skip) = f[n]
<1> DEFINE Bit(k) == stream[position + skip + k]
           Body(f) == [k \in 0 .. n |-> IF k = 0 THEN 0 ELSE 2 * f[k - 1] + Bit(k)]
           step == [x \in (1 .. n) \X Nat |-> 2 * x[2] + Bit(x[1])]
           number == CHOOSE f : f = Body(f)
<1>1. step \in [(1 .. n) \X Nat -> Nat]
  <2>1. \A x \in (1 .. n) \X Nat : 2 * x[2] + Bit(x[1]) \in Nat
    <3> SUFFICES ASSUME NEW a \in 1 .. n, NEW b \in Nat PROVE 2 * b + Bit(a) \in Nat
      OBVIOUS
    <3>1. Bit(a) \in Nat
      <4>1. Bit(a) \in {0, 1}
        OBVIOUS
      <4> HIDE DEF Bit
      <4> QED BY <4>1
    <3> HIDE DEF Bit
    <3> QED BY <3>1
  <2> HIDE DEF Bit
  <2> QED BY <2>1
<1>2. PICK f \in [0 .. n -> Nat] : \A k \in 0 .. n : f[k] = IF k = 0 THEN 0 ELSE step[<<k, f[k - 1]>>]
  <2> HIDE DEF step
  <2>1. \E f \in [0 .. n -> Nat] : IsRecursive(f, n, 0, step)
    BY <1>1, Recursion
  <2> QED BY <2>1 DEF IsRecursive
<1>3. ASSUME NEW k \in 1 .. n PROVE step[<<k, f[k - 1]>>] = 2 * f[k - 1] + Bit(k)
  <2>1. f[k - 1] \in Nat
    OBVIOUS
  <2>2. \A a \in 1 .. n, b \in Nat : step[<<a, b>>] = 2 * b + Bit(a)
    <3> HIDE DEF Bit
    <3> QED OBVIOUS
  <2> HIDE DEF step, Bit
  <2> QED BY <2>1, <2>2
<1>4. f = Body(f)
  <2>1. \A k \in 0 .. n : f[k] = IF k = 0 THEN 0 ELSE 2 * f[k - 1] + Bit(k)
    <3>1. \A k \in 0 .. n : k = 0 \/ k \in 1 .. n
      OBVIOUS
    <3> HIDE DEF step, Bit
    <3> QED BY <1>2, <1>3, <3>1
  <2>2. f = [k \in 0 .. n |-> f[k]]
    OBVIOUS
  <2>3. [k \in 0 .. n |-> f[k]] = Body(f)
    <3> HIDE DEF Bit
    <3> QED BY <2>1
  <2> HIDE DEF Body
  <2> QED BY <2>2, <2>3
<1>5. number = Body(number)
  <2> HIDE DEF Body
  <2> QED BY <1>4
<1>6. get_max_4bytes(n, skip) = number[n]
  BY DEF get_max_4bytes
<1> HIDE DEF number
<1>7. number[0] = 0 /\ \A k \in 1 .. n : number[k] = 2 * number[k - 1] + Bit(k)
  <2>1. ASSUME NEW k \in 0 .. n PROVE number[k] = Body(number)[k]
    <3> HIDE DEF Body
    <3> QED BY <1>5
  <2>2. 0 \in 0 .. n /\ \A k \in 1 .. n : k \in 0 .. n /\ k # 0
    OBVIOUS
  <2> HIDE DEF Bit
  <2> QED BY <2>1, <2>2
<1>8. \A k \in Nat : k \in {m \in Nat : m <= n => number[m] \in Nat}
  <2> DEFINE T == {m \in Nat : m <= n => number[m] \in Nat}
  <2>1. 0 \in T
    BY <1>7
  <2>2. ASSUME NEW m \in Nat, m \in T PROVE m + 1 \in T
    <3>1. SUFFICES ASSUME m + 1 <= n PROVE number[m + 1] \in Nat
      OBVIOUS
    <3>2. m + 1 \in 1 .. n /\ (m + 1) - 1 = m /\ number[m] \in Nat
      BY <2>2, <3>1
    <3>3. Bit(m + 1) \in {0, 1}
      BY <3>2
    <3> HIDE DEF Bit
    <3>4. number[m + 1] = 2 * number[m] + Bit(m + 1)
      BY <1>7, <3>2
    <3> QED BY <3>2, <3>3, <3>4
  <2> HIDE DEF T
  <2>3. \A k \in Nat : k \in T
    BY <2>1, <2>2, Induction
  <2> QED BY <2>3 DEF T
<1> DEFINE result == [k \in 0 .. n |-> number[k]]
<1>9. result = number
  <2>1. number = [k \in 0 .. n |-> Body(number)[k]]
    BY <1>5
  <2> QED BY <2>1, <1>5
<1>10. number \in [0 .. n -> Nat]
  <2>1. \A k \in 0 .. n : number[k] \in Nat
    BY <1>8
  <2> QED BY <1>9, <2>1
<1> HIDE DEF result
<1> QED BY <1>6, <1>7, <1>10

(* The sum of the octets of a number.                                      *)
LEMMA SumOctets ==
  ASSUME NEW n \in Nat, NEW skip, octets(skip) = n, \A k \in 1 .. n : octet(k, skip) \in Nat
  PROVE  \E f \in [0 .. n -> Nat] :
           /\ f[0] = 0
           /\ \A k \in 1 .. n : f[k] = f[k - 1] + (octet(k, skip) % 128) * 2 ^ (7 * (k - 1))
           /\ magnitude(skip) = f[n]
<1> DEFINE Part(k) == (octet(k, skip) % 128) * 2 ^ (7 * (k - 1))
           Body(f) == [k \in 0 .. n |-> IF k = 0 THEN 0 ELSE f[k - 1] + Part(k)]
           step == [x \in (1 .. n) \X Nat |-> x[2] + Part(x[1])]
           number == CHOOSE f : f = Body(f)
<1>0. ASSUME NEW k \in 1 .. n PROVE Part(k) \in Nat
  <2>1. 7 * (k - 1) \in Nat
    OBVIOUS
  <2>2. 2 ^ (7 * (k - 1)) \in Nat
    BY <2>1, PowerOfTwo
  <2>3. octet(k, skip) % 128 \in Nat
    <3>1. \A m \in Nat : m % 128 \in Nat
      OBVIOUS
    <3> QED BY <3>1
  <2>4. \A a, m \in Nat : a * m \in Nat
    OBVIOUS
  <2> QED BY <2>2, <2>3, <2>4
<1>1. step \in [(1 .. n) \X Nat -> Nat]
  <2>1. \A x \in (1 .. n) \X Nat : x[2] + Part(x[1]) \in Nat
    <3> SUFFICES ASSUME NEW a \in 1 .. n, NEW b \in Nat PROVE b + Part(a) \in Nat
      OBVIOUS
    <3>1. Part(a) \in Nat
      <4> HIDE DEF Part
      <4> QED BY <1>0
    <3> HIDE DEF Part
    <3> QED BY <3>1
  <2> HIDE DEF Part
  <2> QED BY <2>1
<1>2. PICK f \in [0 .. n -> Nat] : \A k \in 0 .. n : f[k] = IF k = 0 THEN 0 ELSE step[<<k, f[k - 1]>>]
  <2> HIDE DEF step
  <2>1. \E f \in [0 .. n -> Nat] : IsRecursive(f, n, 0, step)
    BY <1>1, Recursion
  <2> QED BY <2>1 DEF IsRecursive
<1>3. ASSUME NEW k \in 1 .. n PROVE step[<<k, f[k - 1]>>] = f[k - 1] + Part(k)
  <2>1. f[k - 1] \in Nat
    OBVIOUS
  <2>2. \A a \in 1 .. n, b \in Nat : step[<<a, b>>] = b + Part(a)
    <3> HIDE DEF Part
    <3> QED OBVIOUS
  <2> HIDE DEF step, Part
  <2> QED BY <2>1, <2>2
<1>4. f = Body(f)
  <2>1. \A k \in 0 .. n : f[k] = IF k = 0 THEN 0 ELSE f[k - 1] + Part(k)
    <3>1. \A k \in 0 .. n : k = 0 \/ k \in 1 .. n
      OBVIOUS
    <3> HIDE DEF step, Part
    <3> QED BY <1>2, <1>3, <3>1
  <2>2. f = [k \in 0 .. n |-> f[k]]
    OBVIOUS
  <2>3. [k \in 0 .. n |-> f[k]] = Body(f)
    <3> HIDE DEF Part
    <3> QED BY <2>1
  <2> HIDE DEF Body
  <2> QED BY <2>2, <2>3
<1>5. number = Body(number)
  <2> HIDE DEF Body
  <2> QED BY <1>4
<1>6. magnitude(skip) = number[n]
  BY DEF magnitude
<1> HIDE DEF number
<1>7. number[0] = 0 /\ \A k \in 1 .. n : number[k] = number[k - 1] + Part(k)
  <2>1. ASSUME NEW k \in 0 .. n PROVE number[k] = Body(number)[k]
    <3> HIDE DEF Body
    <3> QED BY <1>5
  <2>2. 0 \in 0 .. n /\ \A k \in 1 .. n : k \in 0 .. n /\ k # 0
    OBVIOUS
  <2> HIDE DEF Part
  <2> QED BY <2>1, <2>2
<1>8. \A k \in Nat : k \in {m \in Nat : m <= n => number[m] \in Nat}
  <2> DEFINE T == {m \in Nat : m <= n => number[m] \in Nat}
  <2>1. 0 \in T
    BY <1>7
  <2>2. ASSUME NEW m \in Nat, m \in T PROVE m + 1 \in T
    <3>1. SUFFICES ASSUME m + 1 <= n PROVE number[m + 1] \in Nat
      OBVIOUS
    <3>2. m + 1 \in 1 .. n /\ (m + 1) - 1 = m /\ number[m] \in Nat
      BY <2>2, <3>1
    <3>3. Part(m + 1) \in Nat
      <4> HIDE DEF Part
      <4> QED BY <1>0, <3>2
    <3> HIDE DEF Part
    <3>4. number[m + 1] = number[m] + Part(m + 1)
      BY <1>7, <3>2
    <3> QED BY <3>2, <3>3, <3>4
  <2> HIDE DEF T
  <2>3. \A k \in Nat : k \in T
    BY <2>1, <2>2, Induction
  <2> QED BY <2>3 DEF T
<1> DEFINE result == [k \in 0 .. n |-> number[k]]
<1>9. result = number
  <2>1. number = [k \in 0 .. n |-> Body(number)[k]]
    BY <1>5
  <2> QED BY <2>1, <1>5
<1>10. number \in [0 .. n -> Nat]
  <2>1. \A k \in 0 .. n : number[k] \in Nat
    BY <1>8
  <2> QED BY <1>9, <2>1
<1> HIDE DEF result
<1> QED BY <1>6, <1>7, <1>10

(* Bits that are in the stream make a number.                              *)
LEMMA BitsInStream ==
  ASSUME stream \in Seq({0, 1}), position \in Nat, NEW n \in Nat, NEW skip \in Nat,
         position + skip + n <= Len(stream)
  PROVE  get_max_4bytes(n, skip) \in Nat
<1>1. ASSUME NEW k \in 1 .. n PROVE stream[position + skip + k] \in {0, 1}
  <2>1. position + skip + k \in 1 .. Len(stream)
    BY LenProperties
  <2> QED BY <2>1, ElementOfSeq
<1>2. \E f \in [0 .. n -> Nat] : get_max_4bytes(n, skip) = f[n]
  BY <1>1, ReadBits
<1> QED BY <1>2

(* A number that is there has one to five octets, in the stream.           *)
LEMMA NumberInStream ==
  ASSUME stream \in Seq({0, 1}), position \in Nat, NEW skip \in Nat, HasNumber(skip)
  PROVE  /\ octets(skip) \in 1 .. 5
         /\ position + skip + 8 * octets(skip) <= Len(stream)
         /\ magnitude(skip) \in Nat
<1> DEFINE Small(i) == octet(i, skip) < 128
           There(i) == position + skip + 8 * i <= Len(stream)
           Ends(k) == Small(k) /\ \A i \in 1 .. k - 1 : octet(i, skip) >= 128
<1>1. ASSUME NEW i \in 1 .. 5, There(i) PROVE octet(i, skip) \in Nat
  <2>1. skip + 8 * (i - 1) \in Nat /\ position + (skip + 8 * (i - 1)) + 8 <= Len(stream)
    BY <1>1, LenProperties
  <2> QED BY <2>1, BitsInStream DEF octet
<1>2. PICK m \in 1 .. 5 : There(m) /\ Small(m)
  BY DEF HasNumber
<1>3. \A i \in 1 .. m : i \in 1 .. 5 /\ There(i)
  BY <1>2, LenProperties
<1>4. PICK k \in 1 .. m : Small(k) /\ \A i \in 1 .. m : Small(i) => k <= i
  <2> DEFINE S == {i \in 1 .. m : Small(i)}
  <2>1. S \subseteq Nat /\ m \in S
    <3> HIDE DEF Small
    <3> QED BY <1>2
  <2>2. PICK k \in S : \A i \in S : k <= i
    <3> HIDE DEF S
    <3> QED BY <2>1, LeastNumber
  <2> HIDE DEF Small
  <2> QED BY <2>2
<1>5. Ends(k)
  <2>1. ASSUME NEW i \in 1 .. k - 1 PROVE octet(i, skip) >= 128
    <3>1. i \in 1 .. m /\ ~ (k <= i) /\ i \in 1 .. 5
      OBVIOUS
    <3>2. octet(i, skip) \in Nat
      <4> HIDE DEF There
      <4> QED BY <1>1, <1>3, <3>1
    <3>3. ~Small(i)
      <4> HIDE DEF Small
      <4> QED BY <1>4, <3>1
    <3> QED BY <3>2, <3>3
  <2> QED BY <1>4, <2>1
<1>6. ASSUME NEW j \in 1 .. 5, Ends(j) PROVE j = k
  <2>1. k < j => octet(k, skip) >= 128
    BY <1>6
  <2>2. octet(k, skip) \in Nat /\ octet(k, skip) < 128
    <3>1. k \in 1 .. 5 /\ There(k)
      <4> HIDE DEF There
      <4> QED BY <1>3
    <3> HIDE DEF There
    <3> QED BY <1>1, <1>4, <3>1 DEF Small
  <2>3. ~ (k < j)
    BY <2>1, <2>2
  <2>4. j < k => octet(j, skip) >= 128
    BY <1>5
  <2>5. j < k => octet(j, skip) \in Nat
    <3>1. j < k => j \in 1 .. m
      OBVIOUS
    <3> HIDE DEF There
    <3> QED BY <1>1, <1>3, <3>1
  <2>6. ~ (j < k)
    BY <1>6, <2>4, <2>5
  <2> QED BY <2>3, <2>6
<1>7. octets(skip) = k
  <2>1. k \in 1 .. 5
    OBVIOUS
  <2>2. octets(skip) = CHOOSE j \in 1 .. 5 : Ends(j)
    BY DEF octets
  <2> HIDE DEF Ends
  <2> QED BY <1>5, <1>6, <2>1, <2>2
<1>8. There(k) /\ k \in 1 .. 5
  <2> HIDE DEF There
  <2> QED BY <1>3
<1>9. magnitude(skip) \in Nat
  <2>1. \A i \in 1 .. k : octet(i, skip) \in Nat
    <3>1. \A i \in 1 .. k : i \in 1 .. m
      OBVIOUS
    <3> HIDE DEF There
    <3> QED BY <1>1, <1>3, <3>1
  <2>2. k \in Nat
    OBVIOUS
  <2>3. \E f \in [0 .. k -> Nat] :
          /\ f[0] = 0
          /\ \A i \in 1 .. k : f[i] = f[i - 1] + (octet(i, skip) % 128) * 2 ^ (7 * (i - 1))
          /\ magnitude(skip) = f[k]
    BY <1>7, <2>1, <2>2, SumOctets, Zenon
  <2> QED BY <2>3, k \in 0 .. k
<1> QED BY <1>7, <1>8, <1>9

(***************************************************************************)
(* Type correctness.                                                       *)
(***************************************************************************)
(* A bit of a number.                                                      *)
LEMMA BitOfNumber ==
  ASSUME NEW v \in Nat, NEW w \in Nat
  PROVE  BitOf(v, w) \in {0, 1}
<1>1. 2 ^ w \in Nat \ {0}
  BY PowerOfTwo
<1>2. \A p \in Nat \ {0} : v \div p \in Nat
  OBVIOUS
<1>3. \A m \in Nat : m % 2 \in {0, 1}
  OBVIOUS
<1>4. v \div 2 ^ w \in Nat
  BY <1>1, <1>2, Zenon
<1> QED BY <1>3, <1>4, Zenon DEF BitOf

(* add_max_8bits appends bits.                                             *)
LEMMA AddedBits ==
  ASSUME NEW bits \in Seq({0, 1}), NEW c \in Field
  PROVE  /\ add_max_8bits(bits, c) \in Seq({0, 1})
         /\ Len(add_max_8bits(bits, c)) = Len(bits) + c.n
<1> DEFINE used == Len(bits) % 8
           leak == IF used + c.n <= 8 THEN c.value \div 2 ^ c.n ELSE 0
           Bit(i) == IF i > Len(bits) THEN BitOf(c.value, Len(bits) + c.n - i)
                     ELSE IF i > Len(bits) - used /\ BitOf(leak, Len(bits) - i) = 1 THEN 1
                     ELSE bits[i]
<1>1. c.n \in 1 .. 8 /\ c.value \in Nat /\ Len(bits) \in Nat /\ Len(bits) + c.n \in Nat
  <2>1. c.n \in 1 .. 8 /\ c.value \in 0 .. 255
    BY DEF Field
  <2>2. Len(bits) \in Nat
    BY LenProperties
  <2>3. c.n \in Nat /\ c.value \in Nat
    <3>1. /\ \A n \in 1 .. 8 : n \in Nat
          /\ \A v \in 0 .. 255 : v \in Nat
      OBVIOUS
    <3> QED BY <2>1, <3>1, Zenon
  <2>4. \A a, b \in Nat : a + b \in Nat
    OBVIOUS
  <2> QED BY <2>1, <2>2, <2>3, <2>4
<1>2. ASSUME NEW i \in 1 .. Len(bits) + c.n PROVE Bit(i) \in {0, 1}
  <2>1. CASE i > Len(bits)
    <3>1. Len(bits) + c.n - i \in Nat
      BY <1>1
    <3>2. BitOf(c.value, Len(bits) + c.n - i) \in {0, 1}
      BY <1>1, <3>1, BitOfNumber
    <3> QED BY <2>1, <3>2
  <2>2. CASE ~ (i > Len(bits))
    <3>1. i \in 1 .. Len(bits)
      BY <1>1, <2>2
    <3>2. bits[i] \in {0, 1}
      BY <3>1, ElementOfSeq
    <3> HIDE DEF used, leak
    <3> QED BY <2>2, <3>2
  <2> QED BY <2>1, <2>2
<1>3. add_max_8bits(bits, c) = [i \in 1 .. Len(bits) + c.n |-> Bit(i)]
  BY DEF add_max_8bits
<1> HIDE DEF Bit
<1> DEFINE result == [i \in 1 .. Len(bits) + c.n |-> Bit(i)]
<1>4. result \in Seq({0, 1}) /\ Len(result) = Len(bits) + c.n
  BY <1>1, <1>2
<1> HIDE DEF result
<1> QED BY <1>3, <1>4 DEF result

(* What TypeOK needs of the past: that results and bits are sequences.     *)
TInv ==
  /\ side \in {"encoder", "decoder", "done", "thrown"}
  /\ injected \in 0 .. Len(document)
  /\ stream \in Seq({0, 1})
  /\ position \in Nat /\ position <= Len(stream)
  /\ \E S : extracted \in Seq(S)
  /\ Len(extracted) <= position
  /\ side \in {"encoder", "thrown"} => extracted = <<>> /\ position = 0
  /\ side \in {"decoder", "done"} => injected = Len(document) /\ pending = <<>>

(* Nothing is injected, written, read or extracted.                        *)
LEMMA InitTyped == DocumentsTyped /\ Init => TInv
<1> SUFFICES ASSUME DocumentsTyped, Init PROVE TInv
  OBVIOUS
<1>1. 0 \in 0 .. Len(document)
  <2>1. Len(document) \in Nat
    BY DEF Init, DocumentsTyped
  <2> QED BY <2>1
<1>2. <<>> \in Seq({0, 1}) /\ Len(<<>>) = 0
  OBVIOUS
<1>3. \E S : <<>> \in Seq(S)
  BY <1>2
<1> QED BY <1>1, <1>2, <1>3 DEF Init, TInv

(* Each function that extracts a value takes at least one bit.             *)
LEMMA ExtractReturns ==
  ASSUME DocumentsTyped, IInv, TInv, Extract
  PROVE  \E n \in Nat : n >= 1 /\ \E value : Returns(value, n)
<1>1. stream \in Seq({0, 1}) /\ position \in Nat
  BY DEF TInv
<1>2. ASSUME NEW value, NEW n \in Nat, n >= 1, Returns(value, n)
      PROVE  \E m \in Nat : m >= 1 /\ \E v : Returns(v, m)
  <2> HIDE DEF Returns
  <2> QED BY <1>2
<1>3. ASSUME NEW kind, Extracts(kind) PROVE IsTyped(Extracted) /\ Extracted.kind = kind
  <2>1. Len(extracted) + 1 \in 1 .. Len(document)
    <3>1. Len(extracted) \in Nat /\ Len(document) \in Nat
      <4>1. PICK S : extracted \in Seq(S)
        BY DEF TInv
      <4> QED BY <4>1, LenProperties DEF IInv, DocumentsTyped
    <3> QED BY <1>3, <3>1 DEF Extracts
  <2> QED BY <1>3, <2>1 DEF Extracts, Extracted, DocumentsTyped, IInv
<1>4. ASSUME NEW skip \in Nat, HasNumber(skip)
      PROVE  octets(skip) \in 1 .. 5 /\ magnitude(skip) \in Nat
  BY <1>1, <1>4, NumberInStream
<1>5. ASSUME HasNumber(0) PROVE behind_length \in Nat /\ behind_length >= 8 /\ length_read \in Nat
  <2>1. octets(0) \in 1 .. 5 /\ magnitude(0) \in Nat
    BY <1>4, <1>5, 0 \in Nat
  <2>2. \A m \in Nat : m % 256 \in Nat
    OBVIOUS
  <2>3. length_read \in Nat
    BY <2>1, <2>2, Zenon DEF length_read
  <2> QED BY <2>1, <2>3 DEF behind_length
<1>6. CASE extractBoolValue
  BY <1>2, <1>6, 1 \in Nat, 1 >= 1, Zenon DEF extractBoolValue
<1>7. CASE decode_enum
  <2>1. Extracted.n \in 2 .. 256
    BY <1>3, <1>7, TypedValues DEF decode_enum
  <2>2. num_bits(Extracted.n) \in 1 .. 8
    BY <2>1, NumBitsHold
  <2>3. \A n \in 1 .. 8 : n \in Nat /\ n >= 1
    OBVIOUS
  <2> QED BY <1>2, <1>7, <2>2, <2>3, Zenon DEF decode_enum
<1>8. CASE extractString
  <2>1. HasNumber(0) /\ length_read >= 2
    BY <1>8 DEF extractString
  <2>2. behind_length + 8 * (length_read - 2) \in Nat /\ behind_length + 8 * (length_read - 2) >= 1
    BY <1>5, <2>1
  <2> QED BY <1>2, <1>8, <2>2, Zenon DEF extractString
<1>9. CASE extractIntegerNumber
  <2>1. HasNumber(0) => 8 * octets(0) \in Nat /\ 8 * octets(0) >= 1
    BY <1>4, 0 \in Nat
  <2>2. HasNumber(1) => 1 + 8 * octets(1) \in Nat /\ 1 + 8 * octets(1) >= 1
    BY <1>4, 1 \in Nat
  <2> QED BY <1>2, <1>9, <2>1, <2>2, Zenon DEF extractIntegerNumber
<1>10. CASE extractNBitNumber
  <2>1. Extracted.n \in 1 .. 8
    BY <1>3, <1>10, TypedValues DEF extractNBitNumber
  <2>2. \A n \in 1 .. 8 : n \in Nat /\ n >= 1
    OBVIOUS
  <2> QED BY <1>2, <1>10, <2>1, <2>2, Zenon DEF extractNBitNumber
<1>11. CASE extractHexBin
  <2>1. HasNumber(0)
    BY <1>11 DEF extractHexBin
  <2>2. behind_length + 8 * length_read \in Nat /\ behind_length + 8 * length_read >= 1
    BY <1>5, <2>1
  <2>3. \E v : Returns(v, behind_length + 8 * length_read)
    BY <1>11, Zenon DEF extractHexBin
  <2> QED BY <1>2, <2>2, <2>3, Zenon
<1>12. CASE extractBase64Value
  <2>1. HasNumber(0)
    BY <1>12 DEF extractBase64Value
  <2>2. behind_length + 8 * length_read \in Nat /\ behind_length + 8 * length_read >= 1
    BY <1>5, <2>1
  <2>3. \E v : Returns(v, behind_length + 8 * length_read)
    BY <1>12, Zenon DEF extractBase64Value
  <2> QED BY <1>2, <2>2, <2>3, Zenon
<1> QED BY <1>6, <1>7, <1>8, <1>9, <1>10, <1>11, <1>12, Zenon DEF Extract

(* Returning a value keeps the types.                                      *)
LEMMA ReturnsTyped ==
  ASSUME TInv, side = "decoder", NEW value, NEW n \in Nat, n >= 1, Returns(value, n)
  PROVE  TInv'
<1>1. PICK S : extracted \in Seq(S)
  BY DEF TInv
<1> DEFINE new == [Extracted EXCEPT !.value = value]
           S1 == S \cup {new}
<1>2. extracted' = Append(extracted, new)
  BY DEF Returns
<1>3. extracted \in Seq(S1) /\ new \in S1
  <2> HIDE DEF new
  <2>1. S \subseteq S1
    OBVIOUS
  <2> HIDE DEF S1
  <2>2. extracted \in Seq(S1)
    <3>1. \A i \in 1 .. Len(extracted) : extracted[i] \in S1
      BY <1>1, <2>1, ElementOfSeq
    <3>2. extracted = [i \in 1 .. Len(extracted) |-> extracted[i]] /\ Len(extracted) \in Nat
      BY <1>1, LenProperties
    <3> DEFINE same == [i \in 1 .. Len(extracted) |-> extracted[i]]
    <3>3. same \in Seq(S1)
      BY <3>1, <3>2
    <3> HIDE DEF same
    <3> QED BY <3>2, <3>3 DEF same
  <2> QED BY <2>2 DEF S1
<1> HIDE DEF new, S1
<1>4. extracted' \in Seq(S1) /\ Len(extracted') = Len(extracted) + 1 /\ Len(extracted) \in Nat
  BY <1>2, <1>3, AppendProperties, LenProperties
<1>5. \E S2 : extracted' \in Seq(S2)
  BY <1>4
<1>6. /\ position' = position + n /\ position + n <= Len(stream)
      /\ UNCHANGED <<document, side, injected, pending, stream>>
  BY DEF Returns
<1>7. position' \in Nat /\ position' <= Len(stream') /\ Len(extracted') <= position'
  BY <1>4, <1>6, LenProperties DEF TInv
<1> QED BY <1>5, <1>6, <1>7 DEF TInv

(* An inject function does not read, and does not count past the end.      *)
LEMMA CallsTyped ==
  ASSUME DocumentsTyped, IInv, TInv, NEW codes, Calls(codes),
         side = "encoder", injected < Len(document)
  PROVE  TInv'
<1>1. injected + 1 \in 0 .. Len(document)
  <2>1. Len(document) \in Nat
    BY DEF DocumentsTyped, IInv
  <2> QED BY <2>1 DEF TInv
<1> QED BY <1>1 DEF TInv, Calls

(* One that throws changes the side only.                                  *)
LEMMA ThrowTyped ==
  ASSUME TInv, Throw, side = "encoder"
  PROVE  TInv'
  BY DEF TInv, Throw

(* All inject functions do one or the other.                               *)
LEMMA InjectTyped ==
  ASSUME DocumentsTyped, IInv, TInv, Inject
  PROVE  TInv'
<1>1. /\ side = "encoder" /\ injected < Len(document)
      /\ Throw \/ \E codes : Calls(codes)
  BY Zenon DEF Inject, injectBoolValue, encode_enum, injectString, injectIntegerNumber, injectNBitNumber,
     injectHexBin, injectBase64Value, Injects
<1> QED BY <1>1, CallsTyped, ThrowTyped, Zenon

(* Each call of add_max_8bits appends its field.                           *)
LEMMA AddTyped ==
  ASSUME IInv, TInv, Add
  PROVE  TInv'
<1>1. side = "encoder" /\ pending # <<>>
  BY DEF Add
<1>2. CASE Throw
  BY <1>1, <1>2, ThrowTyped
<1>3. CASE ~Throw
  <2>1. Head(pending) \in Field
    BY <1>1, HeadTailProperties DEF IInv
  <2>2. /\ stream' = add_max_8bits(stream, Head(pending))
        /\ UNCHANGED <<document, side, injected, position, extracted>>
    BY <1>3 DEF Add
  <2>3. stream' \in Seq({0, 1}) /\ Len(stream') = Len(stream) + Head(pending).n
    BY <2>1, <2>2, AddedBits DEF TInv
  <2>4. Len(stream) <= Len(stream')
    <3>1. Head(pending).n \in 1 .. 8
      BY <2>1 DEF Field
    <3>2. Len(stream) \in Nat
      BY LenProperties DEF TInv
    <3> QED BY <2>3, <3>1, <3>2
  <2>5. position \in Nat /\ position <= Len(stream')
    <3>1. Len(stream) \in Nat /\ Len(stream') \in Nat
      BY <2>3, LenProperties DEF TInv
    <3> QED BY <2>4, <3>1 DEF TInv
  <2> QED BY <1>1, <2>2, <2>3, <2>5 DEF TInv
<1> QED BY <1>2, <1>3

(* All steps.                                                              *)
LEMMA NextTyped ==
  ASSUME DocumentsTyped, IInv, TInv, [Next]_vars
  PROVE  TInv'
<1>1. CASE Extract
  <2>1. PICK n \in Nat : n >= 1 /\ \E value : Returns(value, n)
    BY <1>1, ExtractReturns
  <2>2. side = "decoder"
    BY <1>1, Zenon DEF Extract, extractBoolValue, decode_enum, extractString, extractIntegerNumber,
       extractNBitNumber, extractHexBin, extractBase64Value, Extracts
  <2> QED BY <2>1, <2>2, ReturnsTyped
<1>2. CASE Encoded
  BY <1>2 DEF Encoded, TInv
<1>3. CASE Decoded
  BY <1>3 DEF Decoded, TInv
<1>4. CASE Ended \/ UNCHANGED vars
  BY <1>4 DEF Ended, vars, TInv
<1> QED BY <1>1, <1>2, <1>3, <1>4, InjectTyped, AddTyped, Zenon DEF Next

(* The counters and the stream of BaseTypes: what the inject functions     *)
(* write are bits, the extract functions never go beyond them, nothing is  *)
(* read while the encoder runs, and every value extracted has used up at   *)
(* least one bit, so that no extract function of base_types.cpp returns    *)
(* without having moved. What a stream holds does not matter here, it may  *)
(* have been written for other types.                                      *)
THEOREM TypeCorrect ==
  ASSUME DocumentsTyped
  PROVE  Spec => []TypeOK
<1>1. Init => TInv
  BY InitTyped
<1>2. IInv /\ TInv /\ [Next]_vars => IInv' /\ TInv'
  BY NextKeepsIInv, NextTyped
<1>3. IInv /\ TInv => TypeOK
  <2> SUFFICES ASSUME IInv, TInv PROVE TypeOK
    OBVIOUS
  <2>1. \A i \in DOMAIN pending : pending[i].value \in 0 .. 255 /\ pending[i].n \in Nat
    <3> SUFFICES ASSUME NEW i \in DOMAIN pending
                 PROVE  pending[i].value \in 0 .. 255 /\ pending[i].n \in Nat
      OBVIOUS
    <3>1. pending[i] \in Field
      BY DEF IInv
    <3> QED BY <3>1 DEF Field
  <2> QED BY <2>1 DEF TInv, TypeOK
<1> QED BY <1>1, <1>2, <1>3, InitEstablishesIInv, PTL DEF Spec
=============================================================================
