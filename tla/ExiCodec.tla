------------------------------ MODULE ExiCodec ------------------------------
(***************************************************************************)
(* class ExiCodec (lib/library.cpp) with the BodyMessage classes that      *)
(* code_generator/transcode/body_message.py generates: a parsed JSON text  *)
(* is encoded under a namespace, and the bytes are decoded under one.      *)
(*                                                                         *)
(* It is composed of the components it calls: the encoder's and the        *)
(* decoder's bit stream are BitStream, the decoder's text is               *)
(* OutputStringStream, whose operations take a step each.  The functions   *)
(* of the complex types are external to both files; a type has simple      *)
(* fields of a few bits here, which its two functions write and read alike *)
(* (ComplexTypes and BaseTypes show that they do).                         *)
(***************************************************************************)
EXTENDS Integers, Sequences, SequencesExt

CONSTANTS
  Lexicographic,  \* the names of elements and members, in the order of their characters
  BodyElements,   \* BodyElements[ns]: the global elements of its schema, as declared
  FieldsOf(_, _), \* FieldsOf(ns, type): the fields of a type that has functions
  Requests,       \* calls of encode: [json, ns]
  Received,       \* messages that another program has sent
  Junk,           \* what BitStream may read behind the last byte
  MaxBits         \* bound: no field is written or read that ends behind this bit

(* The names are in order, each once.                                       *)
ASSUME NamesAssumption == Lexicographic \in Seq(STRING) /\ IsInjective(Lexicographic)

VARIABLES
  request,        \* what encode is called with, or a message received
  ns,             \* the namespace decode is called with
  side,           \* "encoder" or "decoder" while it runs, "done" or "thrown"
  code,           \* the statements it has still to run
  exi_data, bit_counter, num_bits, fetch, last,   \* the BitStream
  output_data, last_command,                      \* the OutputStringStream
  values          \* the values added to it

streams == <<exi_data, bit_counter, num_bits, fetch, last>>
texts   == <<output_data, last_command, values>>
vars    == <<request, ns, side, code, streams, texts>>

Stream == INSTANCE BitStream
  WITH pending <- [data |-> <<>>, added |-> 0],
       Calls <- {}, Payloads <- {}, Messages <- {}, Requests <- {}, Fetches <- {},
       MaxWritten <- MaxBits, MaxRead <- MaxBits

ASSUME MaxBitsAssumption == MaxBits \in Nat
ASSUME JunkAssumption == Junk \subseteq [0 .. 7 -> Stream!Byte]

Text == INSTANCE OutputStringStream
  WITH open <- <<>>, thrown <- FALSE,
       Keys <- {}, ItemsMayBeEmpty <- FALSE, MaxTokens <- 0, MaxDepth <- 0

ByteOf(n)     == [i \in 0 .. 7 |-> (n \div 2 ^ (7 - i)) % 2]
NumberOf(bits, width) ==
  LET n[i \in 0 .. width] == IF i = 0 THEN 0 ELSE 2 * n[i - 1] + bits[i - 1]
  IN  n[width]
Value         == NumberOf(last.value, 32)    \* what get_max_4bytes has returned

(***************************************************************************)
(* JSON items as JsonParser leaves them.                                   *)
(***************************************************************************)
Nothing     == [class |-> "nullptr", content |-> <<>>]
exists(o, key) == key \in DOMAIN o.content

(* JObject::get_object of a member that is there: a null pointer if it is  *)
(* no object.  An empty object is none: the parser makes it a JEmpty.      *)
get_object(o, key) == IF o.content[key].class = "JObject" THEN o.content[key] ELSE Nothing

(* JObject::get_next_key_name, called once: std::map is sorted.            *)
Before(a, b) ==
  \E i \in DOMAIN Lexicographic :
    Lexicographic[i] = a /\ b \in ToSet(SubSeq(Lexicographic, i + 1, Len(Lexicographic)))

get_next_key_name(o) ==
  CHOOSE key \in DOMAIN o.content : \A other \in DOMAIN o.content \ {key} : Before(key, other)

(***************************************************************************)
(* BodyMessage.                                                            *)
(***************************************************************************)
IsBodyElement(e) == e.type = "BodyBaseType" \/ e.base = "BodyBaseType"

(* get_elements_with_type_derived_from_body_base_sorted_lexicographically: *)
(* the number of an element is its place, counted from zero.               *)
elements ==
  [namespace \in DOMAIN BodyElements |->
     LET found == {e \in ToSet(BodyElements[namespace]) : IsBodyElement(e)}
     IN  FlattenSeq([i \in DOMAIN Lexicographic |->
           LET named == {e \in found : e.name = Lexicographic[i]}
           IN  IF named = {} THEN <<>> ELSE <<CHOOSE e \in named : TRUE>>])]

(* ccs_messages.py: the messages whose types are generated.                *)
MESSAGE_TYPES ==
  LET both    == {"SessionSetup", "ServiceDiscovery", "ChargeParameterDiscovery", "CableCheck", "PreCharge",
                  "PowerDelivery", "CurrentDemand", "WeldingDetection", "SessionStop",
                  "ServiceDetail", "PaymentDetails"}
  IN  [iso15118_2 |-> both \cup {"PaymentServiceSelection", "Authorization", "MeteringReceipt",
                                 "ChargingStatus", "CertificateInstallation", "CertificateUpdate"},
       din_spec   |-> both \cup {"ServicePaymentSelection", "ContractAuthentication"}]

get_full_list_of_message_types(msgs) == {msg \o "ResType" : msg \in msgs} \cup {msg \o "ReqType" : msg \in msgs}

top_level_msgs == [namespace \in DOMAIN MESSAGE_TYPES |-> get_full_list_of_message_types(MESSAGE_TYPES[namespace])]

(* Whether there are functions for the type of the element.                *)
HasFunctions(namespace, e) == e.type \in top_level_msgs[namespace]

(* Mutant: the numbers leave out the elements without functions.            *)
message_nr_of_generated(namespace, i) ==
  Len(SelectSeq(SubSeq(elements[namespace], 1, i - 1), LAMBDA e : HasFunctions(namespace, e)))

message_nr(namespace, i) == i - 1

(* The table of encodeBody, by name: the elements with functions.          *)
table(namespace, name) ==
  {i \in DOMAIN elements[namespace] :
     elements[namespace][i].name = name /\ HasFunctions(namespace, elements[namespace][i])}

AppMessages == <<"supportedAppProtocolReq", "supportedAppProtocolRes">>

(* The schemas have few enough elements for numbers of six bits, and every *)
(* header has a field.                                                     *)
ASSUME ElementsAssumption ==
  /\ BodyElements \in [{"iso15118_2", "din_spec"} -> Seq([name : STRING, type : STRING, base : STRING])]
  /\ \A namespace \in DOMAIN BodyElements : Len(elements[namespace]) <= 64

Fields == [name : STRING, n : 1 .. 8]

ASSUME FieldsAssumption ==
  /\ \A namespace \in DOMAIN BodyElements :
       /\ FieldsOf(namespace, "MessageHeaderType") \in Seq(Fields) \ {<<>>}
       /\ \A e \in ToSet(elements[namespace]) :
            HasFunctions(namespace, e) => FieldsOf(namespace, e.type) \in Seq(Fields)
  /\ \A name \in ToSet(AppMessages) : FieldsOf("app_protocol", name \o "Type") \in Seq(Fields)

(***************************************************************************)
(* Statements.  op names the call, arg and n are its arguments.            *)
(***************************************************************************)
Call(op, arg, n) == [op |-> op, arg |-> arg, n |-> n]
Do(op)           == Call(op, <<>>, 0)

Add(value, n)    == Call("add_max_8bits", value, n)
add_event_code   == Add(0, 1)
Get(n)           == Call("get_max_4bytes", <<>>, n)
Expect(value)    == Call("expect", value, 0)
check_event_code_is_0 == <<Get(1), Expect(0)>>
start_key(name)  == Call("start_key", name, 0)

(* encode_<Type>(object) and decode_<Type>().                              *)
Encode(type, object) ==
  LET fields == FieldsOf(request.ns, type)
  IN  [i \in DOMAIN fields |-> Call("field", <<object, fields[i].name>>, fields[i].n)]
Decode(type) ==
  LET fields == FieldsOf(ns, type)
  IN  FlattenSeq([i \in DOMAIN fields |->
        <<start_key(fields[i].name), Get(fields[i].n), Do("add_value"), Do("end_key")>>])

(* encode_iso15118_2 and encode_din_spec, decode_iso15118_2 and            *)
(* decode_din_spec.                                                        *)
(* Mutant: the two schemas have the same number.                            *)
message_id_shared(namespace) == 76

message_id(namespace) == IF namespace = "iso15118_2" THEN 76 ELSE 77

(* Mutant: FinishedBody is not written.                                     *)
encode_v2g_unfinished ==
  <<Add(message_id(request.ns), 7), Do("to_object"), add_event_code, Do("header"),
    add_event_code, Do("body"), Do("encodeBody"), add_event_code>>

encode_v2g ==
  <<Add(message_id(request.ns), 7), Do("to_object"), add_event_code, Do("header"),
    add_event_code, Do("body"), Do("encodeBody"), add_event_code, add_event_code>>

decode_v2g ==
  <<Get(7), Expect(message_id(ns)), start_key("V2G_Message")>> \o check_event_code_is_0
    \o <<start_key("Header")>> \o Decode("MessageHeaderType") \o <<Do("end_key")>>
    \o <<start_key("Body")>> \o check_event_code_is_0
    \o <<Do("decodeBody"), Do("end_key"), Do("end_key"), Do("end_key"), Do("get_full_stream")>>

encode ==
  <<Add(128, 8)>> \o CASE request.ns \in {"iso15118_2", "din_spec"} -> encode_v2g
                       [] request.ns = "app_protocol"               -> <<Do("encode_app_protocol")>>
                       [] OTHER                                     -> <<Do("throw")>>

decode ==
  <<Get(8), Expect(128)>> \o CASE ns \in {"iso15118_2", "din_spec"} -> decode_v2g
                               [] ns = "app_protocol" -> <<Get(2), Do("decode_app_protocol")>>
                               [] OTHER               -> <<Do("throw")>>

Namespaces == {"iso15118_2", "din_spec", "app_protocol", "unknown"}

IsReceived == "bytes" \in DOMAIN request

Init ==
  /\ request \in Requests \cup Received
  /\ ns \in Namespaces
  /\ side = IF IsReceived THEN "decoder" ELSE "encoder"
  /\ code = IF IsReceived THEN decode ELSE encode
  /\ exi_data = IF IsReceived THEN request.bytes ELSE <<>>
  /\ num_bits = 8 * Len(exi_data)
  /\ bit_counter = 0 /\ fetch = Stream!NoFetch /\ last = Stream!NoCall
  /\ output_data = <<>> /\ last_command = "nocmd" /\ values = <<>>

Runs(op)         == code # <<>> /\ Head(code).op = op
Arg              == Head(code).arg
Goes(statements) == code' = statements \o Tail(code) /\ UNCHANGED <<request, ns, side>>
Throws           == side' = "thrown" /\ code' = <<>> /\ UNCHANGED <<request, ns>>
Either(condition, statements) == IF condition THEN Goes(statements) ELSE Throws

Throw == /\ Runs("throw")
         /\ Throws
         /\ UNCHANGED <<streams, texts>>

(***************************************************************************)
(* Encoding.                                                               *)
(***************************************************************************)
add_max_8bits ==
  /\ Runs("add_max_8bits")
  /\ Stream!add_max_8bits(ByteOf(Arg), Head(code).n)
  /\ Goes(<<>>)
  /\ UNCHANGED texts

(* json_object["V2G_Message"]->to_object()                                 *)
to_object ==
  /\ Runs("to_object")
  /\ Either(/\ exists(request.json, "V2G_Message")
            /\ request.json.content["V2G_Message"].class = "JObject", <<>>)
  /\ UNCHANGED <<streams, texts>>

v2g  == request.json.content["V2G_Message"]
body == get_object(v2g, "Body")

(* encode_MessageHeaderType(v2g.get_object("Header"))                      *)
encode_header ==
  /\ Runs("header")
  /\ Either(exists(v2g, "Header"), Encode("MessageHeaderType", get_object(v2g, "Header")))
  /\ UNCHANGED <<streams, texts>>

(* v2g.get_object("Body")                                                  *)
find_body ==
  /\ Runs("body")
  /\ Either(exists(v2g, "Body"), <<>>)
  /\ UNCHANGED <<streams, texts>>

(* object[name]->get_value() and the inject function of the field.         *)
encode_field ==
  /\ Runs("field")
  /\ LET object == Arg[1]
         name   == Arg[2]
     IN  /\ object # Nothing
         /\ Either(exists(object, name) /\ object.content[name].class = "JValue",
                   <<Add(object.content[name].content, Head(code).n)>>)
  /\ UNCHANGED <<streams, texts>>

encodeBody ==
  /\ Runs("encodeBody") /\ body # Nothing
  /\ LET name == get_next_key_name(body)
     IN  \/ /\ table(request.ns, name) = {}
            /\ Throws
         \/ \E i \in table(request.ns, name) :
              Goes(<<Add(message_nr(request.ns, i), 6)>>
                   \o Encode(elements[request.ns][i].type, get_object(body, name)))
  /\ UNCHANGED <<streams, texts>>

encode_app_protocol ==
  /\ Runs("encode_app_protocol")
  /\ LET name == get_next_key_name(request.json)
     IN  \/ name \notin ToSet(AppMessages) /\ Throws
         \/ \E i \in DOMAIN AppMessages :
              /\ name = AppMessages[i]
              /\ Goes(<<Add(i - 1, 2)>> \o Encode(name \o "Type", get_object(request.json, name)))
  /\ UNCHANGED <<streams, texts>>

(* Mutant: the last byte is not handed over.                                *)
ReturnedShort ==
  /\ side = "encoder" /\ code = <<>>
  /\ side' = "decoder" /\ code' = decode
  /\ num_bits' = 8 * (Len(exi_data) - 1)
  /\ bit_counter' = 0 /\ fetch' = Stream!NoFetch /\ last' = Stream!NoCall
  /\ UNCHANGED <<request, ns, exi_data, texts>>

(* encode returns, and another call of the codec decodes what it returned. *)
Returned ==
  /\ side = "encoder" /\ code = <<>>
  /\ side' = "decoder" /\ code' = decode
  /\ num_bits' = 8 * Len(exi_data)
  /\ bit_counter' = 0 /\ fetch' = Stream!NoFetch /\ last' = Stream!NoCall
  /\ UNCHANGED <<request, ns, exi_data, texts>>

(***************************************************************************)
(* Decoding.                                                               *)
(***************************************************************************)
get_max_4bytes ==
  /\ Runs("get_max_4bytes")
  /\ Stream!get_max_4bytes(Head(code).n)
  /\ Goes(<<>>)
  /\ UNCHANGED texts

(* What was read must have this value.                                     *)
expect ==
  /\ Runs("expect")
  /\ Either(Value = Arg, <<>>)
  /\ UNCHANGED <<streams, texts>>

write ==
  /\ \/ Runs("start_key") /\ Text!start_key(Arg) /\ UNCHANGED values
     \/ Runs("end_key") /\ Text!end_key /\ UNCHANGED values
     \/ Runs("add_value") /\ Text!add_value /\ values' = Append(values, Value)
     \/ Runs("get_full_stream") /\ output_data' = Append(output_data, "}") /\ UNCHANGED <<last_command, values>>
  /\ Goes(<<>>)
  /\ UNCHANGED streams

decodeBody ==
  /\ Runs("decodeBody")
  /\ Stream!get_next_n_bits(6, FALSE)
  /\ Goes(<<Do("switch")>>)
  /\ UNCHANGED texts

get_next_n_bits == Stream!get_next_n_bits_iteration /\ UNCHANGED <<request, ns, side, code, texts>>

(* switch (message_type)                                                   *)
message_type == NumberOf(last.value[0], 8)

switch ==
  /\ Runs("switch") /\ fetch = Stream!NoFetch
  /\ LET i == message_type + 1
     IN  IF i \in DOMAIN elements[ns] /\ HasFunctions(ns, elements[ns][i])
         THEN Goes(<<start_key(elements[ns][i].name)>> \o Decode(elements[ns][i].type))
         ELSE Throws
  /\ UNCHANGED <<streams, texts>>

decode_app_protocol ==
  /\ Runs("decode_app_protocol")
  /\ \/ Value \notin {0, 1} /\ Throws
     \/ \E i \in DOMAIN AppMessages :
          /\ Value = i - 1
          /\ Goes(<<start_key(AppMessages[i])>> \o Decode(AppMessages[i] \o "Type")
                    \o <<Do("end_key"), Do("get_full_stream")>>)
  /\ UNCHANGED <<streams, texts>>

Decoded == /\ side = "decoder" /\ code = <<>>
           /\ side' = "done"
           /\ UNCHANGED <<request, ns, code, streams, texts>>

Ended == side \in {"done", "thrown"} /\ UNCHANGED vars

Next == \/ Throw
        \/ add_max_8bits \/ to_object \/ encode_header \/ find_body \/ encode_field
        \/ encodeBody \/ encode_app_protocol \/ Returned
        \/ get_max_4bytes \/ expect \/ write \/ decodeBody \/ get_next_n_bits \/ switch
        \/ decode_app_protocol \/ Decoded
        \/ Ended

Spec == Init /\ [][Next]_vars /\ WF_vars(Next)

(***************************************************************************)
(* Properties.                                                             *)
(***************************************************************************)
(* While it encodes nothing is decoded, a finished call has no statement   *)
(* left, and the bit stream is in the state its operations expect.         *)
TypeOK ==
  /\ side \in {"encoder", "decoder", "done", "thrown"}
  /\ side = "encoder" => num_bits = 0 /\ output_data = <<>>
  /\ side \in {"done", "thrown"} => code = <<>>
  /\ num_bits # 0 => bit_counter <= num_bits /\ Len(values) <= bit_counter
  /\ last_command \in Text!Commands
  /\ Stream!TypeOK

(***************************************************************************)
(* What a request says, and whether it says it as the schema wants it.     *)
(***************************************************************************)
(* "{", a name and a value for each field, with commas, "}".                *)
TypeText(fields) ==
  LET end == IF fields = <<>> THEN 2 ELSE 3 * Len(fields) + 1
  IN  [k \in 1 .. end |->
         IF k = 1 THEN "{" ELSE IF k = end THEN "}"
         ELSE CASE k % 3 = 2 -> fields[(k + 1) \div 3].name
                [] k % 3 = 0 -> Text!Scalar
                [] OTHER     -> ","]

Contents(object, fields)  == [i \in DOMAIN fields |-> object.content[fields[i].name].content]
HasObject(o, key)         == exists(o, key) /\ o.content[key].class = "JObject"
HasFields(object, fields) == \A f \in ToSet(fields) :
                               exists(object, f.name) /\ object.content[f.name].class = "JValue"
TheOnly(S)                == CHOOSE x \in S : TRUE

SaysNothing == [text |-> <<>>, values |-> <<>>]

SaidByV2G(namespace, json) ==
  LET v2g_   == json.content["V2G_Message"]
      header == FieldsOf(namespace, "MessageHeaderType")
      body_  == v2g_.content["Body"]
      known  == {e \in ToSet(elements[namespace]) : HasFunctions(namespace, e) /\ exists(body_, e.name)}
      fields == FieldsOf(namespace, TheOnly(known).type)
      name   == TheOnly(known).name
  IN  IF /\ HasObject(json, "V2G_Message")
         /\ HasObject(v2g_, "Header") /\ HasFields(v2g_.content["Header"], header)
         /\ HasObject(v2g_, "Body") /\ known # {} /\ HasFields(body_.content[name], fields)
      THEN [text   |-> <<"{", "V2G_Message", "{", "Header">> \o TypeText(header)
                       \o <<",", "Body", "{", name>> \o TypeText(fields) \o <<"}", "}", "}">>,
            values |-> Contents(v2g_.content["Header"], header) \o Contents(body_.content[name], fields)]
      ELSE SaysNothing

SaidByApp(json) ==
  LET name   == TheOnly(DOMAIN json.content)
      fields == FieldsOf("app_protocol", name \o "Type")
  IN  IF name \in ToSet(AppMessages) /\ HasFields(json.content[name], fields)
      THEN [text   |-> <<"{", name>> \o TypeText(fields) \o <<"}">>,
            values |-> Contents(json.content[name], fields)]
      ELSE SaysNothing

SaidBy == [r \in Requests |-> CASE r.ns = "app_protocol" -> SaidByApp(r.json)
                                [] r.ns = "unknown"      -> SaysNothing
                                [] OTHER                 -> SaidByV2G(r.ns, r.json)]

Said == IF IsReceived THEN SaysNothing ELSE SaidBy[request]

(***************************************************************************)
(* What the callers give: of a body, and of a text of the app protocol,    *)
(* one member is the message; and values fit the fields they are written   *)
(* to.                                                                     *)
(***************************************************************************)
IsSingle(object) == \E key \in DOMAIN object.content : DOMAIN object.content = {key}

FieldsFit(object, fields) ==
  \A f \in ToSet(fields) :
    exists(object, f.name) /\ object.content[f.name].class = "JValue" =>
      object.content[f.name].content \in 0 .. 2 ^ f.n - 1

BodyFits(namespace, o) ==
  /\ IsSingle(o)
  /\ \A e \in ToSet(elements[namespace]) :
       HasFunctions(namespace, e) /\ HasObject(o, e.name) =>
         FieldsFit(o.content[e.name], FieldsOf(namespace, e.type))

V2GFits(namespace, o) ==
  /\ HasObject(o, "Header") => FieldsFit(o.content["Header"], FieldsOf(namespace, "MessageHeaderType"))
  /\ HasObject(o, "Body")   => BodyFits(namespace, o.content["Body"])

AppFits(json) ==
  /\ IsSingle(json)
  /\ \A name \in ToSet(AppMessages) :
       HasObject(json, name) => FieldsFit(json.content[name], FieldsOf("app_protocol", name \o "Type"))

ASSUME RequestsAssumption ==
  \A r \in Requests :
    /\ DOMAIN r = {"json", "ns"} /\ r.ns \in Namespaces
    /\ r.ns \in DOMAIN BodyElements /\ HasObject(r.json, "V2G_Message") =>
         V2GFits(r.ns, r.json.content["V2G_Message"])
    /\ r.ns = "app_protocol" => AppFits(r.json)

ASSUME ReceivedAssumption == \A m \in Received : DOMAIN m = {"bytes"}

Conversion == INSTANCE Transfer
  WITH document  <- <<Said>>,
       allowed   <- Said # SaysNothing /\ ns = request.ns,
       delivered <- IF side = "done" THEN <<[text |-> output_data, values |-> values]>> ELSE <<>>,
       refused   <- side = "thrown"

(* decode(encode(json, ns), ns) is the JSON text of json, with the message *)
(* under its own name; a text or bytes that are no message of the          *)
(* namespace are refused, the messages of every other namespace included,  *)
(* and nothing of them is returned.                                        *)
ImplementsTransfer == Conversion!Spec

(* The decoder stops at the two event codes that end a V2G message, which  *)
(* it never reads: what it leaves is these, zero as the encoder must have  *)
(* written them, and the padding of the last byte, nothing more.           *)
FinalCodes == IF ns = "app_protocol" THEN 0 ELSE 2

StopsAtTheEnd ==
  side = "done" => /\ num_bits - bit_counter \in FinalCodes .. FinalCodes + 7
                   /\ \A k \in bit_counter .. num_bits - 1 : Stream!BitAt(k) = 0

(* A text that was encoded under one namespace is decoded under no other:  *)
(* the bits behind the first byte, a schema's number or that of a message  *)
(* of the app protocol, give it away.                                      *)
RefusesOtherNamespaces == side = "done" /\ ~IsReceived => ns = request.ns
=============================================================================
