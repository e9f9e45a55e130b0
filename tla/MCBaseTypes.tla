----------------------------- MODULE MCBaseTypes -----------------------------
(***************************************************************************)
(* Values of every simple type at the limits of their encodings, alone and *)
(* behind one another.                                                     *)
(***************************************************************************)
EXTENDS BaseTypes

Boolean_     == XsdSimple("xs:boolean", "boolean", 0, 0, 0)
String_      == XsdSimple("xs:string", "string", 0, 0, 0)
AnyUri       == XsdSimple("xs:anyURI", "anyURI", 0, 0, 0)
HexBinary    == XsdSimple("xs:hexBinary", "sessionIDType", 0, 0, 0)
Base64Binary == XsdSimple("xs:base64Binary", "certificateType", 0, 0, 0)
Enumeration(items)          == XsdSimple("xs:string", "", items, 0, 0)
Decimal(local_name, min, max) == XsdSimple("xs:decimal", local_name, 0, min, max)

(* The upper bound of xs:unsignedInt is beyond TLC's integers.             *)
UnsignedInt        == Decimal("unsignedInt", 0, 2147483647)
UnsignedShort      == Decimal("unsignedShort", 0, 65535)
Short_             == Decimal("short", -32768, 32767)
UnitMultiplierType == Decimal("unitMultiplierType", -3, 3)
SAIDType           == Decimal("SAIDType", 1, 255)
PercentValueType   == Decimal("percentValueType", 0, 100)
MaxNumPhasesType   == Decimal("maxNumPhasesType", 1, 3)

OfType(type, values) == {Value(type, v) : v \in values}
Unknown(type)        == [Value(type, 0) EXCEPT !.known = FALSE]

Bools     == OfType(Boolean_, {0, 1}) \cup {Unknown(Boolean_)}
(* Two, three, five and twenty-four literals, as in the schemas.           *)
Enums     == OfType(Enumeration(2), {0, 1}) \cup OfType(Enumeration(3), {1, 2})
             \cup OfType(Enumeration(5), {4}) \cup OfType(Enumeration(24), {0, 23})
             \cup {Unknown(Enumeration(3))}
Strings   == OfType(String_, {<<>>, <<65>>, <<195, 164>>}) \cup OfType(AnyUri, {<<1, 255, 128>>})
(* On both sides of each further group of seven bits.                      *)
Unsigned  == OfType(UnsignedInt, {0, 1, 127, 128, 277130, 2147483647}
                                   \cup UNION {{128 ^ k - 1, 128 ^ k} : k \in 2 .. 4})
             \cup OfType(UnsignedShort, {65535}) \cup {Unknown(UnsignedInt)}
Integers_ == OfType(Short_, {0, 1, 127, 128, 32767}) \cup {Unknown(Short_)}
NBits     == OfType(UnitMultiplierType, {-3, 0, 3}) \cup OfType(SAIDType, {1, 128, 255})
             \cup OfType(PercentValueType, {0, 100}) \cup OfType(MaxNumPhasesType, {1, 3})
             \cup {Unknown(UnitMultiplierType)}
(* One, two, three and eight bytes.                                        *)
HexBins   == OfType(HexBinary, {<<0, 15>>, <<13, 14, 10, 13>>, <<7, 15, 8, 0, 15, 1>>,
                                <<15, 0, 5, 15, 11, 13, 2, 10, 9, 3, 5, 12, 8, 14, 12, 5>>})
(* "Zg==", "Zm8=", "Zm9v" of base_types_test.cpp, and a text of three.     *)
Base64    == OfType(Base64Binary, {<<25, 32, Pad, Pad>>, <<25, 38, 60, Pad>>, <<25, 38, 61, 47>>,
                                   <<0, 63, 32, 1, 63, 48, Pad, Pad>>, <<36, 8, 55>>})
Short     == Bools \cup Enums \cup Strings \cup Unsigned \cup Integers_ \cup NBits \cup HexBins \cup Base64

(* The longest string and hexBinary, and a certificate: lengths of one and *)
(* two octets.  The 127 bytes of the last length of one octet are three    *)
(* behind words, as are 7, 11, ..., which get_next_n_bits garbles.         *)
Long      == OfType(String_, {[i \in 1 .. 125 |-> i]})
             \cup OfType(HexBinary, {[d \in 1 .. 2 * 126 |-> (7 * d) % 16]})
             \cup OfType(Base64Binary, {[i \in 1 .. 168 |-> 21], [i \in 1 .. 172 |-> i % 64],
                                        [i \in 1 .. 340 |-> (5 * i) % 64]})

SomeDocuments == {<<v>> : v \in Short \cup Long}
                 \cup {<<v, w>> : v, w \in Short}
                 \cup {<<u, v, w>> : u \in Bools, v \in NBits \cup Enums, w \in Strings \cup Base64}
                 \cup {<<v, w>> : v \in Bools, w \in Long}

(* Value, of type xs:short, below zero.                                     *)
NegativeNumbers == {<<v>> : v \in OfType(Short_, {-1, -5, -128})}
=============================================================================
