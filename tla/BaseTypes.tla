------------------------------ MODULE BaseTypes ------------------------------
(***************************************************************************)
(* class BaseTypes (lib/type_conversion/base_types.{h,cpp}) and the        *)
(* functions of EnumTypes (code_generator/transcode/enums.py): how the     *)
(* values of simple types become bits, and the bits values.                *)
(*                                                                         *)
(* A behaviour injects the values of a document into a bit stream, one     *)
(* after the other, and then extracts them.  The stream is the sequence of *)
(* bits that BitSequence promises, except that a field too wide for its    *)
(* number of bits, and a read of many bytes, do what BitStream does with   *)
(* them.  A decoder that throws has no further step.                       *)
(***************************************************************************)
EXTENDS Integers, SequencesExt

CONSTANTS
  Documents,  \* sequences of values
  Pad,        \* the "=" of base64
  Heap        \* what a byte of memory may hold that new has returned

ASSUME PadAssumption  == Pad \in Nat \ 0 .. 63
ASSUME HeapAssumption == Heap \subseteq 0 .. 255

VARIABLES
  document,   \* the values to transfer
  side,       \* "encoder", "decoder", "done" or "thrown"
  injected,   \* how many values the encoder is through with
  pending,    \* calls of add_max_8bits that the current inject function has left
  stream,     \* the bits written
  position,   \* how many of them the decoder has read
  extracted   \* the values that the decoder has returned

vars == <<document, side, injected, pending, stream, position, extracted>>

(***************************************************************************)
(* Simple types (TypeTree.getSimpleTypeInfo, datatypes/simple_type.py):    *)
(* which functions a type uses and with which arguments.  The generator    *)
(* asks for the type it is a restriction of, its name, the number of its   *)
(* enumerations and its bounds.                                            *)
(***************************************************************************)
XsdSimple(sequence_type, local_name, enumerations, min, max) ==
  [sequence_type |-> sequence_type, local_name |-> local_name,
   enumerations |-> enumerations, min |-> min, max |-> max]

(* ceil(log2(num_items))                                                   *)
num_bits(num_items) == CHOOSE n \in 0 .. 16 : 2 ^ n >= num_items /\ (n = 0 \/ 2 ^ (n - 1) < num_items)

(* Of DecimalType.TYPE_SIZE only the names: the sizes are not used.        *)
TYPE_SIZE ==
  {"long", "unsignedLong", "int", "integer", "unsignedInt", "decimal", "negativeInteger",
   "nonPositiveInteger", "nonNegativeInteger", "positiveInteger", "short", "unsignedShort",
   "byte", "unsignedByte", "HMACOutputLengthType", "serviceIDType"}

(* Mutant: max_val - min_val.                                               *)
value_range_without_max(t) == t.max - t.min

value_range(t) == t.max - t.min + 1

DecimalType(t)     == [kind |-> IF t.min = 0 THEN "unsigned" ELSE "integer", n |-> 0, offset |-> 0]
NBitDecimalType(t) == [kind |-> "nbit", n |-> num_bits(value_range(t)), offset |-> t.min]

getSimpleTypeInfo(t) ==
  CASE t.sequence_type = "xs:decimal" -> IF t.local_name \in TYPE_SIZE THEN DecimalType(t) ELSE NBitDecimalType(t)
    [] t.sequence_type = "xs:string" /\ t.enumerations # 0 -> [kind |-> "enum", n |-> t.enumerations, offset |-> 0]
    [] t.sequence_type = "xs:anyURI"  -> [kind |-> "xs:string", n |-> 0, offset |-> 0]
    [] OTHER                          -> [kind |-> t.sequence_type, n |-> 0, offset |-> 0]

(***************************************************************************)
(* A value has its type, and known tells whether its text is one the type  *)
(* knows: a number that stoi or stoul parses, true or false, a literal of  *)
(* the enumeration.                                                        *)
(*                                                                         *)
(* Characters and bytes are numbers; a hexBinary is its digits, a base64   *)
(* text the values of its characters, an enumeration its index.            *)
(***************************************************************************)
Value(type, value) ==
  LET info == getSimpleTypeInfo(type)
  IN  [kind |-> info.kind, n |-> info.n, offset |-> info.offset, value |-> value, known |-> TRUE]

(* A call add_max_8bits(value, n); the parameter is a uint8_t.             *)
Code(value, n) == [value |-> value % 256, n |-> n]

BitOf(v, weight) == (v \div 2 ^ weight) % 2

(* BitStream::add_max_8bits: unless the field crosses into a new byte, the *)
(* bits it has too many are or-ed into those already in its byte.          *)
add_max_8bits(bits, c) ==
  LET used == Len(bits) % 8
      leak == IF used + c.n <= 8 THEN c.value \div 2 ^ c.n ELSE 0
  IN  [i \in 1 .. Len(bits) + c.n |->
         IF i > Len(bits) THEN BitOf(c.value, Len(bits) + c.n - i)
         ELSE IF i > Len(bits) - used /\ BitOf(leak, Len(bits) - i) = 1 THEN 1
         ELSE bits[i]]

Init == /\ document \in Documents
        /\ side = "encoder"
        /\ injected = 0
        /\ pending = <<>>
        /\ stream = <<>>
        /\ position = 0
        /\ extracted = <<>>

(***************************************************************************)
(* Injecting.                                                              *)
(***************************************************************************)
Injects(kind) == /\ side = "encoder" /\ pending = <<>>
                 /\ injected < Len(document)
                 /\ document[injected + 1].kind = kind
Injected      == document[injected + 1]

Calls(codes) == /\ pending' = codes
                /\ injected' = injected + 1
                /\ UNCHANGED <<document, side, stream, position, extracted>>
Throw == /\ side' = "thrown"
         /\ UNCHANGED <<document, injected, pending, stream, position, extracted>>

injectBoolValue ==
  /\ Injects("xs:boolean")
  /\ IF Injected.known THEN Calls(<<Code(Injected.value, 1)>>) ELSE Throw

encode_enum ==
  /\ Injects("enum")
  /\ IF Injected.known THEN Calls(<<Code(Injected.value, num_bits(Injected.n))>>) ELSE Throw

(* Mutant: &value[0] is written with its terminating zero.                  *)
characters_terminated(value) == [i \in 1 .. Len(value) + 1 |-> Code(Append(value, 0)[i], 8)]

(* add_bytes takes the number of bytes as a uint8_t, too.                  *)
characters(value) == [i \in 1 .. Len(value) % 256 |-> Code(value[i], 8)]

injectString ==
  /\ Injects("xs:string")
  /\ Calls(<<Code(Len(Injected.value) + 2, 8)>> \o characters(Injected.value))

(* _injectUnsignedNumber: seven bits at a time, the lowest first, for each *)
(* time the highest bit set can be lowered by seven.                       *)
highest_set_bit(number) == Cardinality({b \in 1 .. 30 : number \div 2 ^ b # 0})

(* Mutant: while (pos_highest_set_bit > 7).                                 *)
groups_above_seven(number) == (highest_set_bit(number) + (IF number < 2 THEN 7 ELSE 6)) \div 7

groups(number) == highest_set_bit(number) \div 7 + 1
unsigned_codes(number) ==
  LET k == groups(number)
  IN  [i \in 1 .. k |-> Code((IF i < k THEN 128 ELSE 0) + ((number \div 2 ^ (7 * (i - 1))) % 128), 8)]

injectIntegerNumber ==
  /\ Injects("unsigned") \/ Injects("integer")
  /\ LET number == Injected.value
         sign   == (IF number < 0 THEN <<Code(1, 1)>> ELSE <<>>) \o <<Code(0, 1)>>
     IN  IF ~Injected.known THEN Throw
         ELSE IF Injected.kind = "unsigned" THEN Calls(unsigned_codes(number))
         ELSE Calls(sign \o unsigned_codes(IF number < 0 THEN -number ELSE number))

injectNBitNumber ==
  /\ Injects("nbit")
  /\ IF Injected.known THEN Calls(<<Code(Injected.value - Injected.offset, Injected.n)>>) ELSE Throw

injectHexBin ==
  /\ Injects("xs:hexBinary")
  /\ LET digits == Injected.value
         length == (Len(digits) \div 2) % 256
     IN  Calls(<<Code(length, 8)>>
               \o [i \in 1 .. length |-> Code(16 * digits[2 * i - 1] + digits[2 * i], 8)])

(* The table has 0x64 for what is no character of base64, "=" included;    *)
(* the code compares with 64.                                              *)
base64_values(c) == IF c < 64 THEN c ELSE 100
Refused(c)       == base64_values(c) = 64

(* Mutant: the last character is not cut to the bits that are left.         *)
base64_code_uncut(c, bits_left) == Code(base64_values(c), IF bits_left < 6 THEN bits_left ELSE 6)

base64_code(c, bits_left) ==
  IF bits_left < 6 THEN Code(base64_values(c) \div 2 ^ (6 - bits_left), bits_left)
  ELSE Code(base64_values(c), 6)

injectBase64Value ==
  /\ Injects("xs:base64Binary")
  /\ LET value == Injected.value
         length == Len(value)
         padding == IF value[length] # Pad THEN 0 ELSE IF value[length - 1] # Pad THEN 1 ELSE 2
         num_bytes == 3 * (length \div 4) - padding
     IN  IF length % 4 # 0 \/ length = 0 \/ \E i \in 1 .. length - padding : Refused(value[i])
         THEN Throw
         ELSE Calls(unsigned_codes(num_bytes)
                    \o [i \in 1 .. length - padding |-> base64_code(value[i], 8 * num_bytes - 6 * (i - 1))])

(* One call of BitStream::add_max_8bits, which may throw itself.           *)
Add == /\ side = "encoder" /\ pending # <<>>
       /\ IF Head(pending).n \in 1 .. 8
          THEN /\ stream' = add_max_8bits(stream, Head(pending))
               /\ pending' = Tail(pending)
               /\ UNCHANGED <<document, side, injected, position, extracted>>
          ELSE Throw

(* Mutant: the stream is taken before the last function has returned.       *)
EncodedEarly == /\ side = "encoder" /\ injected = Len(document)
                /\ side' = "decoder"
                /\ UNCHANGED <<document, injected, pending, stream, position, extracted>>

Encoded == /\ side = "encoder" /\ pending = <<>> /\ injected = Len(document)
           /\ side' = "decoder"
           /\ UNCHANGED <<document, injected, pending, stream, position, extracted>>

(***************************************************************************)
(* Extracting.                                                             *)
(***************************************************************************)
Extracts(kind) == /\ side = "decoder"
                  /\ Len(extracted) < Len(document)
                  /\ document[Len(extracted) + 1].kind = kind
Extracted      == document[Len(extracted) + 1]    \* its type; the value is not looked at

(* BitStream::get_max_4bytes(n), skip bits after the position.             *)
get_max_4bytes(n, skip) ==
  LET number[k \in 0 .. n] ==
        IF k = 0 THEN 0 ELSE 2 * number[k - 1] + stream[position + skip + k]
  IN  number[n]

Returns(value, n) ==
  /\ position + n <= Len(stream)
  /\ extracted' = Append(extracted, [Extracted EXCEPT !.value = value])
  /\ position' = position + n
  /\ UNCHANGED <<document, side, injected, pending, stream>>

extractBoolValue == /\ Extracts("xs:boolean")
                    /\ Returns(get_max_4bytes(1, 0), 1)

decode_enum == /\ Extracts("enum")
               /\ LET n == num_bits(Extracted.n)
                  IN  get_max_4bytes(n, 0) < Extracted.n /\ Returns(get_max_4bytes(n, 0), n)

(* extractIntegerNumber without a sign, skip bits after the position: the  *)
(* number of octets up to the one without 0x80, and their value.           *)
octet(i, skip) == get_max_4bytes(8, skip + 8 * (i - 1))
octets(skip) ==
  CHOOSE k \in 1 .. 5 : octet(k, skip) < 128 /\ \A i \in 1 .. k - 1 : octet(i, skip) >= 128
magnitude(skip) ==
  LET int_number[k \in 0 .. octets(skip)] ==
        IF k = 0 THEN 0 ELSE int_number[k - 1] + ((octet(k, skip) % 128) * 2 ^ (7 * (k - 1)))
  IN  int_number[octets(skip)]

(* The functions below have no step for a number that goes beyond the      *)
(* stream, or that has more octets than an inject function writes.         *)
HasNumber(skip) == \E k \in 1 .. 5 : position + skip + 8 * k <= Len(stream) /\ octet(k, skip) < 128

(* The lengths of strings and binaries are kept in a uint8_t.              *)
length_read   == magnitude(0) % 256
behind_length == 8 * octets(0)

extractString ==
  /\ Extracts("xs:string") /\ HasNumber(0)
  /\ length_read >= 2
  /\ Returns([i \in 1 .. length_read - 2 |-> octet(i, behind_length)],
             behind_length + 8 * (length_read - 2))

extractIntegerNumber ==
  \/ /\ Extracts("unsigned") /\ HasNumber(0)
     /\ Returns(magnitude(0), 8 * octets(0))
  \/ /\ Extracts("integer") /\ HasNumber(1)
     /\ Returns(IF get_max_4bytes(1, 0) = 1 THEN -magnitude(1) ELSE magnitude(1), 1 + 8 * octets(1))

extractNBitNumber ==
  /\ Extracts("nbit")
  /\ Returns(get_max_4bytes(Extracted.n, 0) + Extracted.offset, Extracted.n)

(* BitStream::get_next_n_bits into fresh memory of so many bytes: words of *)
(* four, then the one to three bytes left.  Three bytes left are stored by *)
(* the index of their word, over bytes that are already there, and their   *)
(* own places stay unset.                                                  *)
get_next_n_bits(bytes, skip, unset) ==
  LET words == bytes \div 4
      left(k) == k - (IF bytes % 4 = 3 THEN words ELSE 4 * words)
  IN  [k \in 1 .. bytes |->
         IF left(k) \in 1 .. bytes % 4 THEN octet(4 * words + left(k), skip)
         ELSE IF k <= 4 * words THEN octet(k, skip)
         ELSE unset[k - 4 * words]]

hexstring(data) ==
  [d \in 1 .. 2 * Len(data) |->
     IF d % 2 = 1 THEN data[(d + 1) \div 2] \div 16 ELSE data[d \div 2] % 16]

(* get_next_n_bits refuses to read no bits.                                *)
extractHexBin ==
  /\ Extracts("xs:hexBinary") /\ HasNumber(0)
  /\ length_read > 0
  /\ \E unset \in [1 .. 3 -> Heap] :
       Returns(hexstring(get_next_n_bits(length_read, behind_length, unset)),
               behind_length + 8 * length_read)

(* A last character of fewer than six bits is filled with zeros, and the   *)
(* text with "=" to a multiple of four.                                    *)
extractBase64Value ==
  /\ Extracts("xs:base64Binary") /\ HasNumber(0)
  /\ LET num_bits_left == 8 * length_read
         full  == num_bits_left \div 6
         rest  == num_bits_left % 6
         chars == [i \in 1 .. full |-> get_max_4bytes(6, behind_length + 6 * (i - 1))]
         last  == get_max_4bytes(rest, behind_length + 6 * full) * 2 ^ (6 - rest)
         text  == IF rest = 0 THEN chars ELSE chars \o <<last, Pad>>
     IN  Returns(IF Len(text) % 4 = 0 THEN text ELSE Append(text, Pad), behind_length + num_bits_left)

Decoded == /\ side = "decoder" /\ Len(extracted) = Len(document)
           /\ side' = "done"
           /\ UNCHANGED <<document, injected, pending, stream, position, extracted>>

Ended == side \in {"done", "thrown"} /\ UNCHANGED vars

Inject == \/ injectBoolValue \/ encode_enum \/ injectString \/ injectIntegerNumber
          \/ injectNBitNumber \/ injectHexBin \/ injectBase64Value
Extract == \/ extractBoolValue \/ decode_enum \/ extractString \/ extractIntegerNumber
           \/ extractNBitNumber \/ extractHexBin \/ extractBase64Value

Next == Inject \/ Add \/ Encoded \/ Extract \/ Decoded \/ Ended

Spec == Init /\ [][Next]_vars /\ WF_vars(Next)

(***************************************************************************)
(* Properties.                                                             *)
(***************************************************************************)
(* While the encoder runs nothing is read, afterwards nothing is written,  *)
(* and each value injected or extracted has bits of its own.               *)
TypeOK ==
  /\ side \in {"encoder", "decoder", "done", "thrown"}
  /\ injected \in 0 .. Len(document)
  /\ \A i \in DOMAIN pending : pending[i].value \in 0 .. 255 /\ pending[i].n \in Nat
  /\ stream \in Seq({0, 1})
  /\ position <= Len(stream)
  /\ side \in {"encoder", "thrown"} => extracted = <<>> /\ position = 0
  /\ side \in {"decoder", "done"} => injected = Len(document) /\ pending = <<>>
  /\ Len(extracted) <= position

(* Every value the class hands to BitStream fits the number of bits it     *)
(* says: what BitStream needs to keep the bits already written             *)
(* (base_types.cpp has no check, and no mask but in _injectUnsignedNumber).*)
FieldsFit == \A i \in DOMAIN pending : pending[i].n \in 1 .. 8 /\ pending[i].value < 2 ^ pending[i].n

(* The extract functions consume exactly the bits of the inject functions. *)
EverythingIsRead == side = "done" => position = Len(stream)

(* A text that a schema allows for the type.                               *)
IsValid(v) ==
  /\ v.known
  /\ v.kind = "xs:base64Binary" => /\ Len(v.value) % 4 = 0
                                   /\ \A i \in DOMAIN v.value :
                                        \/ v.value[i] < 64
                                        \/ v.value[i] = Pad /\ i >= Len(v.value) - 1

Transferred == INSTANCE Transfer
  WITH allowed   <- \A i \in DOMAIN document : IsValid(document[i]),
       delivered <- extracted,
       refused   <- side = "thrown"

(* What is extracted is what was injected: each value, in order and at     *)
(* whatever bit its field starts; a text that is none of its type is       *)
(* refused.                                                                *)
ImplementsTransfer == Transferred!Spec
=============================================================================
