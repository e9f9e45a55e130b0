----------------------------- MODULE MCExiCodec -----------------------------
(***************************************************************************)
(* The messages of schemas/ with fields of a few bits, the objects encode  *)
(* must refuse, and byte sequences that are no message.                    *)
(***************************************************************************)
EXTENDS ExiCodec

(***************************************************************************)
(* The body elements, in the order of V2G_CI_MsgBody.xsd, and sorted.      *)
(***************************************************************************)
Pairs(stems) == FlattenSeq([i \in DOMAIN stems |-> <<stems[i] \o "Req", stems[i] \o "Res">>])

IsoMessages == Pairs(
  <<"SessionSetup", "ServiceDiscovery", "ServiceDetail", "PaymentServiceSelection", "PaymentDetails",
    "Authorization", "ChargeParameterDiscovery", "PowerDelivery", "MeteringReceipt", "SessionStop",
    "CertificateUpdate", "CertificateInstallation", "ChargingStatus", "CableCheck", "PreCharge",
    "CurrentDemand", "WeldingDetection">>)
DinMessages == Pairs(
  <<"SessionSetup", "ServiceDiscovery", "ServiceDetail", "ServicePaymentSelection", "PaymentDetails",
    "ContractAuthentication", "ChargeParameterDiscovery", "PowerDelivery", "ChargingStatus",
    "MeteringReceipt", "SessionStop", "CertificateUpdate", "CertificateInstallation", "CableCheck",
    "PreCharge", "CurrentDemand", "WeldingDetection">>)

InOrder ==
  Pairs(<<"Authorization">>) \o <<"Body", "BodyElement">>
  \o Pairs(<<"CableCheck", "CertificateInstallation", "CertificateUpdate", "ChargeParameterDiscovery",
             "ChargingStatus", "ContractAuthentication", "CurrentDemand">>)
  \o <<"Header">>
  \o Pairs(<<"MeteringReceipt", "PaymentDetails", "PaymentServiceSelection", "PowerDelivery", "PreCharge",
             "ServiceDetail", "ServiceDiscovery", "ServicePaymentSelection", "SessionSetup", "SessionStop">>)
  \o <<"V2G_Message">> \o Pairs(<<"WeldingDetection">>) \o Pairs(<<"supportedAppProtocol">>) \o <<"x">>

Message(name) == [name |-> name, type |-> name \o "Type", base |-> "BodyBaseType"]
Others        == <<[name |-> "V2G_Message", type |-> "", base |-> ""],
                   [name |-> "BodyElement", type |-> "BodyBaseType", base |-> ""]>>
SchemaElements ==
  [iso15118_2 |-> Others \o [i \in DOMAIN IsoMessages |-> Message(IsoMessages[i])],
   din_spec   |-> Others \o [i \in DOMAIN DinMessages |-> Message(DinMessages[i])]]

(***************************************************************************)
(* Fields: none in ChargingStatusReq, whose type the schemas leave empty.  *)
(***************************************************************************)
Field(name, n) == [name |-> name, n |-> n]

SomeFields(namespace, type) ==
  CASE type = "MessageHeaderType" ->
         IF namespace = "iso15118_2" THEN <<Field("SessionID", 8)>>
         ELSE <<Field("SessionID", 3), Field("Notification", 2)>>
    [] type = "ChargingStatusReqType" -> <<>>
    [] type \in {"SessionStopReqType", "CurrentDemandResType"} -> <<Field("a", 1), Field("b", 8)>>
    [] OTHER -> <<Field("ResponseCode", 5)>>

(***************************************************************************)
(* Objects.                                                                *)
(***************************************************************************)
JValue(v)      == [class |-> "JValue", content |-> v]
JObject(f)     == [class |-> IF f = <<>> THEN "JEmpty" ELSE "JObject", content |-> f]
One(name, o)   == [key \in {name} |-> o]
V2G(header, o) == JObject(One("V2G_Message", JObject([Header |-> header, Body |-> o])))

(* An object of the type, every field at its largest value or at zero.     *)
Filled(namespace, type, ones) ==
  LET fields == SomeFields(namespace, type)
  IN  JObject([name \in {fields[i].name : i \in DOMAIN fields} |->
                JValue(IF ones THEN 2 ^ (CHOOSE f \in ToSet(fields) : f.name = name).n - 1 ELSE 0)])

Header(namespace) == Filled(namespace, "MessageHeaderType", TRUE)
Request(namespace, json) == [ns |-> namespace, json |-> json]

Body(namespace, name, ones) == JObject(One(name, Filled(namespace, name \o "Type", ones)))
Messages ==
  {Request("iso15118_2", V2G(Header("iso15118_2"), Body("iso15118_2", name, ones))) :
     name \in ToSet(IsoMessages), ones \in BOOLEAN}
  \cup {Request("din_spec", V2G(Header("din_spec"), Body("din_spec", name, TRUE))) : name \in ToSet(DinMessages)}
  \cup {Request("app_protocol", Body("app_protocol", name, ones)) : name \in ToSet(AppMessages), ones \in BOOLEAN}

ASession(namespace) == Body(namespace, "SessionSetupReq", TRUE)
Unusable(namespace) ==
  LET header  == Header(namespace)
      session == ASession(namespace)
  IN  {JObject(One("x", JValue(1))),
       session,
       JObject(One("V2G_Message", JValue(1))),
       JObject(One("V2G_Message", JObject(<<>>))),
       JObject(One("V2G_Message", JObject(One("Header", header)))),
       JObject(One("V2G_Message", JObject(One("Body", session)))),
       V2G(JObject(One("x", JValue(1))), session),
       V2G(JObject(One("SessionID", JObject(One("x", JValue(1))))), session),
       V2G(header, JObject(One("V2G_Message", session))),
       V2G(header, JObject(One("BodyElement", session))),
       V2G(header, JObject(One("SessionSetupReq", JObject(One("a", JValue(0))))))}

SomeRequests ==
  Messages \cup UNION {{Request(namespace, json) : json \in Unusable(namespace)} : namespace \in Namespaces}
           \cup {Request("unknown", V2G(Header("iso15118_2"), ASession("iso15118_2")))}

(***************************************************************************)
(* Bytes: another header byte, another number of the schema, event codes   *)
(* other than zero, and messages by the numbers of elements without        *)
(* functions or of none; ISO has 35 elements and DIN two that are not      *)
(* generated next to the abstract one at zero.                             *)
(***************************************************************************)
BitsOf(v, n) == [i \in 1 .. n |-> (v \div 2 ^ (n - i)) % 2]
Packed(bits) == [k \in 1 .. (Len(bits) + 31) \div 8 |->
                  [i \in 0 .. 7 |-> IF 8 * (k - 1) + i < Len(bits) THEN bits[8 * (k - 1) + i + 1] ELSE 0]]
Bytes(options, id, first, header, second, number) ==
  [bytes |-> Packed(BitsOf(options, 8) \o BitsOf(id, 7) \o <<first>> \o BitsOf(0, header)
                    \o <<second>> \o BitsOf(number, 6))]

SomeBytes ==
  {Bytes(0, 76, 0, 8, 0, 30), Bytes(129, 76, 0, 8, 0, 30), Bytes(128, 75, 0, 8, 0, 30),
   Bytes(128, 76, 1, 8, 0, 30), Bytes(128, 76, 0, 8, 1, 30), Bytes(128, 77, 0, 5, 1, 30)}
  \cup {Bytes(128, 76, 0, 8, 0, number) : number \in {2, 35, 63}}
  \cup {Bytes(128, 77, 0, 5, 0, number) : number \in {0, 3, 4, 35, 63}}
  \cup {[bytes |-> Packed(BitsOf(128, 8) \o BitsOf(3, 2))]}

SomeJunk == {[k \in 0 .. 7 |-> [i \in 0 .. 7 |-> bit]] : bit \in {0, 1}}
=============================================================================
