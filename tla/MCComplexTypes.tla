--------------------------- MODULE MCComplexTypes ---------------------------
(***************************************************************************)
(* The shapes of the complex types of schemas/, and every shape of up to   *)
(* three elements.  A shape keeps what the generator asks of an element;   *)
(* the type of its content and, in most, its name are left out.            *)
(***************************************************************************)
EXTENDS ComplexTypes, TLC

R(n)       == XsdElement(n, "simple", 1, 1, <<>>)
RC(n)      == XsdElement(n, "complex", 1, 1, <<>>)
O(n)       == XsdElement(n, "simple", 0, 1, <<>>)
OC(n)      == XsdElement(n, "complex", 0, 1, <<>>)
Id         == XsdAttribute("Id", FALSE)
L(n, max)  == XsdElement(n, "complex", 1, max, <<>>)
A(n, subs) == XsdElement(n, "complex", 1, 1, subs)
OA(n, s)   == XsdElement(n, "complex", 0, 1, <<s, n>>)

Type(components)         == XsdType(<<>>, components, FALSE)
Extension(base, derived) == XsdType(base, derived, FALSE)

(***************************************************************************)
(* iso15118_2 and din_spec.                                                *)
(***************************************************************************)
ServiceType                 == Type(<<R("a"), O("b"), R("c"), O("d"), R("e")>>)
ChargeServiceType           == Extension(ServiceType.own, <<RC("f")>>)
MeterInfoType               == Type(<<R("a"), O("b"), O("c"), O("d"), O("e")>>)
SAScheduleTupleType         == Type(<<R("a"), RC("b"), OC("c")>>)
PMaxScheduleEntryType       == Extension(<<A("T", <<"x", "T">>)>>, <<RC("b")>>)
RelativeTimeIntervalType    == Type(<<R("a"), O("b")>>)
ChargeParameterDiscoveryReq == Type(<<O("a"), R("b"), A("P", <<"x", "y", "P">>)>>)
ChargeParameterDiscoveryRes == Type(<<R("a"), R("b"), OA("S", "z"), A("P", <<"x", "y", "P">>)>>)
PowerDeliveryReq            == Type(<<R("a"), R("b"), OC("c"), OA("P", "x")>>)
PowerDeliveryRes            == Type(<<R("a"), A("S", <<"x", "y", "S">>)>>)
CurrentDemandReq            == Type(<<RC("a"), RC("b"), OC("c"), OC("d"), OC("e"), O("f"), R("g"),
                                      OC("h"), OC("i"), RC("j")>>)
CurrentDemandRes            == Type(<<R("a"), RC("b"), R("c"), OC("d"), OC("e"), OC("f"), R("g"), R("h"),
                                      OC("i"), O("j")>>)
DC_EVChargeParameterType    == Extension(<<O("a")>>, <<RC("b"), RC("c"), OC("d"), RC("e"), OC("f"), OC("g"),
                                                      O("h"), O("i")>>)
MeteringReceiptReq          == Type(<<Id, R("a"), O("b"), RC("c")>>)
ChargingStatusRes           == Type(<<R("a"), R("b"), R("c"), OC("d"), OC("e"), O("f"), RC("g")>>)
CertificateChainType        == Type(<<Id, R("a"), OC("b")>>)
AuthorizationReq            == Type(<<Id, O("a")>>)
PMaxScheduleType            == Type(<<L("a", Unbounded)>>)
SalesTariffEntryType        == Extension(<<A("T", <<"x", "T">>)>>,
                                         <<O("b"), XsdElement("c", "complex", 0, 3, <<>>)>>)
ParameterType               == Type(<<XsdAttribute("Name", TRUE),
                                      XsdChoice(1, <<R("a"), R("b"), RC("c"), R("d")>>)>>)
ChargingStatusReq           == Extension(<<>>, <<>>)

(***************************************************************************)
(* xmldsig.                                                                *)
(***************************************************************************)
SignatureValueType  == XsdType(<<>>, <<Id>>, TRUE)
SignedInfoType      == Type(<<Id, RC("a"), RC("b"), L("c", Unbounded)>>)
SignatureMethodType == Type(<<XsdAttribute("Algorithm", TRUE), O("a"), XsdAnyElement(0)>>)
DigestMethodType    == Type(<<XsdAttribute("Algorithm", TRUE), XsdAnyElement(0)>>)
(* The schema allows its choice to be repeated; the generator does not.    *)
TransformType       == Type(<<XsdAttribute("Algorithm", TRUE), XsdChoice(0, <<XsdAnyElement(1), R("b")>>)>>)
ReferenceType       == Type(<<Id, XsdAttribute("Type", FALSE), XsdAttribute("URI", FALSE),
                              OC("d"), RC("e"), R("f")>>)

SchemaTypes ==
  {ServiceType, ChargeServiceType, MeterInfoType, SAScheduleTupleType, PMaxScheduleEntryType,
   RelativeTimeIntervalType, ChargeParameterDiscoveryReq, ChargeParameterDiscoveryRes, PowerDeliveryReq,
   PowerDeliveryRes, CurrentDemandReq, CurrentDemandRes, DC_EVChargeParameterType, MeteringReceiptReq,
   ChargingStatusRes, CertificateChainType, AuthorizationReq, PMaxScheduleType, ChargingStatusReq,
   SignatureValueType, SignedInfoType, SignatureMethodType, DigestMethodType, TransformType, ReferenceType}

(***************************************************************************)
(* Every shape of up to three elements, except two combinations that the   *)
(* generated functions do not get right: two options before a list, which  *)
(* the schemas do have (SalesTariffType), and an optional abstract element *)
(* before another kind than an abstract one, which they do not.            *)
(***************************************************************************)
ElementsAt(n) ==
  {R(n), RC(n), O(n), OC(n), L(n, 2), L(n, 3),
   XsdElement(n, "simple", 1, 2, <<>>),
   A(n, <<"x" \o n, "y" \o n, n>>), A(n, <<"x" \o n, n>>), OA(n, "x" \o n)}

TwoOptionsBeforeAList(t) ==
  \E i \in DOMAIN t : i > 2 /\ IsList(t[i]) /\ t[i - 1].min = 0 /\ t[i - 2].min = 0

OptionalAbstractBeforeOther(t) ==
  \E i \in DOMAIN t : /\ i < Len(t) /\ t[i].substitutes # <<>> /\ t[i].min = 0
                      /\ ~(t[i + 1].substitutes # <<>> /\ t[i + 1].min = 1)

AChoice == XsdChoice(0, <<R("p"), RC("q")>>)

SmallTypes ==
  LET first  == ElementsAt("a") \cup {Id, XsdAttribute("A", TRUE)}
      second == ElementsAt("b")
      third  == ElementsAt("c") \cup {AChoice, XsdAnyElement(0)}
      shapes == {<<x>> : x \in first \cup {AChoice}} \cup {<<x, y>> : x \in first, y \in second}
                  \cup {<<x, y, z>> : x \in first, y \in second, z \in third}
  IN  {Type(t) : t \in {t \in shapes : ~TwoOptionsBeforeAList(t) /\ ~OptionalAbstractBeforeOther(t)}}

AllTypes == SchemaTypes \cup SmallTypes

(***************************************************************************)
(* The orders in which the tables are iterated: that of the options, which *)
(* the generator aims at, and the one the standard library of GCC 12 gives *)
(* the table of CurrentDemandRes with the four entries                     *)
(* EVSEMaximumVoltageLimit, -CurrentLimit, -PowerLimit and EVSEID.         *)
(***************************************************************************)
InIndexOrder == [n \in 0 .. 225 |-> {[i \in 1 .. n |-> i - 1]}]
InHashOrder  == [InIndexOrder EXCEPT ![4] = {<<1, 2, 0, 3>>}]

OnlySalesTariffEntryType == {SalesTariffEntryType}
OnlyCurrentDemandRes     == {CurrentDemandRes}
OnlyParameterType        == {ParameterType}
=============================================================================
