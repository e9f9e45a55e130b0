---------------------------- MODULE ComplexTypes ----------------------------
(***************************************************************************)
(* class ComplexTypes of code_generator/transcode/complex_types.py: the    *)
(* functions encode_<Type> and decode_<Type> it generates for a complex    *)
(* type of the schema, run one after the other on a value of that type.    *)
(*                                                                         *)
(* The generator turns the child elements of a type into statements; this  *)
(* module builds the same statements (getEncodeFunction,                   *)
(* getDecodeFunction) and executes them.  The stream is a sequence of      *)
(* symbols:                                                                *)
(* "0" and "1" for the bits of the event codes, and the name of an element *)
(* for the bits of its content, which for a complex element are those of   *)
(* another call of the same kind.                                          *)
(***************************************************************************)
EXTENDS TypeTree

CONSTANTS
  Schemas,   \* complex types of the schema
  Orders,    \* Orders[n]: orders in which an unordered_map of n keys may iterate
  MaxItems   \* bound on the items of a list in the objects considered

ASSUME ConstantsAssumption == MaxItems \in Nat

(***************************************************************************)
(* What the generated functions rely on.  A type has few enough elements,  *)
(* of few enough names, for event codes of 8 bits, the most that           *)
(* add_max_8bits and get_max_8bits take.                                   *)
(***************************************************************************)
Elements ==
  {e \in [name : STRING, kind : {"attribute", "any", "simple", "complex"}, optional : BOOLEAN, max : Nat,
          subs : Seq(STRING), created_from_abstract : BOOLEAN, per_base : Nat] :
     IsAbstract(e) => e.kind \in {"simple", "complex"}}

Children == {e \in Elements : ~e.created_from_abstract /\ e.per_base = 1 /\ Len(e.subs) <= 15}

(* An abstract element of more names than a substitute and its own ends    *)
(* the blob it is in.                                                      *)
OwnNameSecond(e) == Len(e.subs) = 2 /\ e.subs[2] = e.name

IsPlain(t) ==
  /\ t \in Seq(Children)
  /\ Len(t) <= 15
  /\ \A i \in DOMAIN t : IsAbstract(t[i]) =>
       \/ OwnNameSecond(t[i])
       \/ /\ i = Len(t) \/ ~t[i].optional
          /\ \A j \in 1 .. i : t[j].kind # "any"

ASSUME SchemaAssumption == \A t \in Schemas : IsPlain(child_elements(t))

(* A table of n entries is iterated in an order of the entries.            *)
ASSUME OrdersAssumption == \A n \in 0 .. 225 : Orders[n] \subseteq [1 .. n -> 0 .. n - 1]

(***************************************************************************)
(* Elements.                                                               *)
(***************************************************************************)
(* The elements that may stand for an abstract one; its own name is one.   *)
Substitutes(e) ==
  [i \in DOMAIN e.subs |->
     [name |-> e.subs[i], kind |-> "complex", optional |-> e.optional, max |-> 1, subs |-> <<>>,
      created_from_abstract |-> TRUE,
      per_base |-> IF e.subs[i] = e.name THEN 1 ELSE Len(e.subs)]]

OfKinds(elements, kinds) ==
  FlattenSeq([i \in DOMAIN elements |-> IF elements[i].kind \in kinds THEN <<elements[i]>> ELSE <<>>])

sort_optional_and_abstract_elements(elements) ==
  OfKinds(elements, {"attribute"}) \o OfKinds(elements, {"simple", "complex"}) \o OfKinds(elements, {"any"})

(* The options of a blob: what the decoder's switch has cases for.         *)
get_all_elements_flat(elements) ==
  FlattenSeq([i \in DOMAIN elements |->
    LET e == elements[i]
    IN  IF IsAbstract(e) THEN Substitutes(e) ELSE IF e.optional THEN <<e>> ELSE <<>>])

(* The entries of the encoder's table, which include a required element.   *)
get_all_elements_flat2(elements) ==
  FlattenSeq([i \in DOMAIN elements |->
    IF IsAbstract(elements[i]) THEN Substitutes(elements[i]) ELSE <<elements[i]>>])

(* counter_value of entry i, counted from 0: the entries up to the last    *)
(* one of the same abstract element.                                       *)
counter_value(elements, i) ==
  LET last[k \in DOMAIN elements] ==
        (IF k = 1 THEN -1 ELSE last[k - 1])
          + (IF IsAbstract(elements[k]) THEN Len(elements[k].subs) ELSE 1)
  IN  CHOOSE c \in {last[k] : k \in DOMAIN elements} :
        /\ i <= c
        /\ \A k \in DOMAIN elements : i <= last[k] => c <= last[k]

get_num_AnyElements(elements) == Cardinality({i \in DOMAIN elements : elements[i].kind = "any"})

AtLeast(bound, n) == IF n < bound THEN bound ELSE n

ceil_log2(n) == CHOOSE k \in 0 .. 8 : n <= 2 ^ k /\ (k = 0 \/ n > 2 ^ (k - 1))

One(condition) == IF condition THEN 1 ELSE 0

(***************************************************************************)
(* The statements of the generated functions.                              *)
(***************************************************************************)
Statement(op, elements, flag) == [op |-> op, elements |-> elements, flag |-> flag, flat |-> <<>>]

List(e)                 == Statement("list", <<e>>, FALSE)
Plain(e, from_optional) == Statement("element", <<e>>, from_optional)
Finish                  == Statement("finish", <<>>, FALSE)

(* A blob comes with its elements flat: the entries of the encoder's table, *)
(* the cases of the decoder's switch.                                      *)
Blob(side_of, elements, is_last) ==
  LET sorted == sort_optional_and_abstract_elements(elements)
  IN  [Statement("blob", sorted, is_last) EXCEPT
         !.flat = IF side_of = "encoder" THEN get_all_elements_flat2(sorted)
                  ELSE get_all_elements_flat(sorted)]

(* The optional elements collected when the generator reaches element i.   *)
OptionsBefore(t, i) ==
  SubSeq(t, 1 + Max({0} \cup {j \in 1 .. i - 1 : ~t[j].optional}), i - 1)

(* A required element after options: the encoder puts it into the table,   *)
(* the decoder reads "no option" as the end of the blob and then decodes it. *)
AfterOptions(side_of, blob, e) ==
  IF side_of = "encoder" THEN <<Blob(side_of, Append(blob, e), FALSE)>>
  ELSE <<Blob(side_of, blob, TRUE), Plain(e, TRUE)>>

(* The loop over the child elements that both generators share: an element *)
(* that is not optional ends the blob of the options before it.            *)
Statements(side_of, t) ==
  LET At(i) ==
        LET e == t[i]
            blob == OptionsBefore(t, i)
        IN  IF e.optional THEN <<>>
            ELSE IF IsList(e)
              THEN (IF blob = <<>> THEN <<>> ELSE <<Blob(side_of, blob, FALSE)>>) \o <<List(e)>>
            ELSE IF IsAbstract(e) THEN <<Blob(side_of, Append(blob, e), FALSE)>>
            ELSE IF blob = <<>> THEN <<Plain(e, FALSE)>>
            ELSE AfterOptions(side_of, blob, e)
      last == OptionsBefore(t, Len(t) + 1)
      was_normal_complex == t # <<>> /\ last = <<>> /\ ~IsList(Last(t)) /\ ~IsAbstract(Last(t))
  IN  FlattenSeq([i \in DOMAIN t |-> At(i)])
        \o (IF last = <<>> THEN <<>> ELSE <<Blob(side_of, last, TRUE)>>)
        \o (IF was_normal_complex THEN <<Finish>> ELSE <<>>)

getEncodeFunction(t) == Statements("encoder", t)
getDecodeFunction(t) == Statements("decoder", t)

(***************************************************************************)
(* Objects that the schema does not allow and the encoder refuses: a list  *)
(* with no items or too many, or an element missing that the encoder does  *)
(* not look for, which is one behind no options.                           *)
(***************************************************************************)
Invalid(t, objects) ==
  LET Recounted(v, i) ==
        {[v EXCEPT ![i].items = n] :
           n \in UNION {{0, e.max + 1} : e \in {e \in ToSet(t) : e.name = v[i].name /\ IsList(e)}}}
      IsRead(i) == ~t[i].optional /\ ~IsAbstract(t[i]) /\ (IsList(t[i]) \/ OptionsBefore(t, i) = <<>>)
      Without(v, name) == SelectSeq(v, LAMBDA member : member.name # name)
  IN  UNION {UNION {Recounted(v, i) : i \in DOMAIN v}
               \cup {Without(v, t[i].name) : i \in {i \in DOMAIN t : IsRead(i)}} : v \in objects}

HasMember(object, name) == \E i \in DOMAIN object : object[i].name = name

(* Of the names of an abstract element an object has one at most, and not  *)
(* its own: the schema lets one of the others take its place.              *)
OneSubstitute(object, e) ==
  \A p, q \in DOMAIN e.subs :
    HasMember(object, e.subs[p]) => /\ e.subs[p] # e.name
                                    /\ HasMember(object, e.subs[q]) => p = q

ASSUME ObjectsAssumption ==
  \A t \in Schemas :
    \A object \in Valid(t, MaxItems) \cup Invalid(child_elements(t), Valid(t, MaxItems)) :
      \A e \in ToSet(child_elements(t)) : OneSubstitute(object, e)

VARIABLES
  type,      \* the complex type
  value,     \* the JSON object being encoded
  valid,     \* whether the schema allows it
  side,      \* the function that runs, or how the run ended
  code,      \* the statements it has still to run
  stream,    \* the symbols written
  position,  \* the number of them that have been read
  options,   \* the local variables of the blob being encoded or decoded
  list,      \* the list being decoded
  decoded    \* the elements decoded

vars == <<type, value, valid, side, code, stream, position, options, list, decoded>>

None == [none |-> TRUE]

Init == /\ \E t \in Schemas :
             /\ type = child_elements(t)
             /\ \/ valid = TRUE  /\ value \in Valid(t, MaxItems)
                \/ valid = FALSE /\ value \in Invalid(type, Valid(t, MaxItems))
        /\ side = "encoder"
        /\ code = getEncodeFunction(type)
        /\ stream = <<>>
        /\ position = 0
        /\ options = None
        /\ list = None
        /\ decoded = <<>>

exists(name) == HasMember(value, name)
size(name)   == (CHOOSE v \in ToSet(value) : v.name = name).items

(***************************************************************************)
(* Encoding.                                                               *)
(***************************************************************************)
EventCode(c, n) == [i \in 1 .. n |-> IF (c \div 2 ^ (n - i)) % 2 = 0 THEN "0" ELSE "1"]

encode_element(e, from_optional) ==
  (IF from_optional THEN <<>> ELSE EventCode(0, 1))
    \o (IF e.kind \in {"simple", "any"} THEN EventCode(0, 1) \o <<e.name>> \o EventCode(0, 1) ELSE <<e.name>>)

encode_list(e, n) ==
  LET Item(i) == (IF e.kind = "simple" THEN EventCode(0, 1) \o <<e.name>> \o EventCode(0, 1) ELSE <<e.name>>)
                   \o (IF i < n THEN EventCode(0, 2) ELSE IF i = e.max THEN <<>> ELSE EventCode(1, 2))
  IN  EventCode(0, 1) \o FlattenSeq([i \in 1 .. n |-> Item(i)])

(* An element that is missing is refused, and a list with no items or with *)
(* too many of them.                                                       *)
Encodable(e) == exists(e.name) /\ (IsList(e) => size(e.name) \in 1 .. e.max)

Encoded(e, from_optional) ==
  IF IsList(e) THEN encode_list(e, size(e.name)) ELSE encode_element(e, from_optional)

Encoding(op) == /\ side = "encoder"
                /\ code # <<>>
                /\ Head(code).op = op

(* The statement, and the table or the cases of a blob.                    *)
Here == Head(code)
Flat == Head(code).flat

EncodeParticle ==
  /\ Encoding("element") \/ Encoding("list")
  /\ LET e == Here.elements[1]
     IN  /\ Encodable(e)
         /\ stream' = stream \o Encoded(e, Here.flag)
         /\ code' = Tail(code)
  /\ UNCHANGED <<type, value, valid, side, position, options, list, decoded>>

EncodeFinish ==
  /\ Encoding("finish")
  /\ stream' = stream \o EventCode(0, 1)
  /\ code' = Tail(code)
  /\ UNCHANGED <<type, value, valid, side, position, options, list, decoded>>

get_num_elements(blob) ==
  AtLeast(2, Len(blob.flat) + get_num_AnyElements(blob.elements) + 1 + One(blob.flag))

get_num_bits_off_by_one(blob, i) ==
  ceil_log2(AtLeast(1, get_num_elements(blob) - counter_value(blob.elements, i) - 1
                         - One(~Last(blob.elements).optional \/ blob.flag)))

get_num_bits_eventcode_regarding_abstract(blob, i) ==
  ceil_log2(AtLeast(1, get_num_elements(blob) - counter_value(blob.elements, i)
                         - One(~Last(blob.elements).optional \/ blob.flag)))

(* The blob begins with its table, iterated in any order the map may have. *)
EncodeOptions ==
  /\ Encoding("blob") /\ options = None
  /\ \E order \in Orders[Len(Flat)] :
       options' = [order |-> order, offset |-> 0, last_option_taken |-> FALSE,
                   num_bits |-> AtLeast(2, ceil_log2(get_num_elements(Here)))]
  /\ UNCHANGED <<type, value, valid, side, code, stream, position, list, decoded>>

(* The entry of the table the loop is at.                                  *)
InTable == Encoding("blob") /\ options # None /\ options.order # <<>>
Option  == Flat[Head(options.order) + 1]

SkipOption ==
  /\ InTable /\ ~exists(Option.name)
  /\ options' = [options EXCEPT !.order = Tail(@)]
  /\ UNCHANGED <<type, value, valid, side, code, stream, position, list, decoded>>

(* The code that comes next in the blob: of the option, or of its end.     *)
event_code == (IF options.order = <<>> THEN Len(Flat) ELSE Head(options.order)) - options.offset

(* Whether BitStream can add the code: it throws for no bits, and ors a     *)
(* code that is too wide into the bits before it.                          *)
Fits(c, n) == n > 0 /\ c \in 0 .. 2 ^ n - 1

EncodeOption ==
  /\ InTable /\ exists(Option.name)
  /\ Encodable(Option) /\ Fits(event_code, options.num_bits)
  /\ stream' = stream \o EventCode(event_code, options.num_bits) \o Encoded(Option, TRUE)
  /\ LET index == Head(options.order)
         counted == Option.optional \/ Option.created_from_abstract
     IN  options' =
           [order |-> Tail(options.order),
            offset |-> IF counted THEN index + Option.per_base ELSE options.offset,
            last_option_taken |-> \/ options.last_option_taken
                                  \/ Option.created_from_abstract
                                  \/ index = Len(Flat) - 1,
            num_bits |-> IF counted THEN get_num_bits_eventcode_regarding_abstract(Here, index)
                         ELSE options.num_bits]
  /\ UNCHANGED <<type, value, valid, side, code, position, list, decoded>>

EndOptions ==
  /\ Encoding("blob") /\ options # None /\ options.order = <<>>
  /\ options.last_option_taken \/ Fits(event_code, options.num_bits)
  /\ stream' = stream \o (IF ~options.last_option_taken THEN EventCode(event_code, options.num_bits)
                          ELSE IF Here.flag THEN EventCode(0, 1) ELSE <<>>)
  /\ options' = None
  /\ code' = Tail(code)
  /\ UNCHANGED <<type, value, valid, side, position, list, decoded>>

(* JObject throws for a name it does not have, encode_list for a list with *)
(* no items or with too many.                                              *)
Refuse ==
  /\ \/ (Encoding("element") \/ Encoding("list")) /\ ~Encodable(Here.elements[1])
     \/ InTable /\ exists(Option.name) /\ ~Encodable(Option)
  /\ side' = "thrown"
  /\ UNCHANGED <<type, value, valid, code, stream, position, options, list, decoded>>

EncodeReturns ==
  /\ side = "encoder" /\ code = <<>>
  /\ side' = "decoder" /\ code' = getDecodeFunction(type)
  /\ UNCHANGED <<type, value, valid, stream, position, options, list, decoded>>

(***************************************************************************)
(* Decoding.  A code that is not the expected one throws, and a content    *)
(* read as a code, or a code read as content, puts the decoder out of step *)
(* with the stream: it is then at a state with no next step.               *)
(***************************************************************************)
Decoding(op) == /\ side = "decoder"
                /\ code # <<>>
                /\ Head(code).op = op

(* The symbols that come next.                                             *)
ComesNext(symbols) ==
  /\ position + Len(symbols) <= Len(stream)
  /\ \A i \in DOMAIN symbols : stream[position + i] = symbols[i]

NextCodes(n) == {c \in 0 .. 2 ^ n - 1 : ComesNext(EventCode(c, n))}

decode_element(e, from_optional) ==
  (IF from_optional THEN <<>> ELSE EventCode(0, 1))
    \o (IF e.kind \in {"simple", "any"} THEN EventCode(0, 1) \o <<e.name>> \o EventCode(0, 1) ELSE <<e.name>>)

decode_item(e) == IF e.kind = "simple" THEN EventCode(0, 1) \o <<e.name>> \o EventCode(0, 1) ELSE <<e.name>>

decode_list_start(e) == IF e.optional THEN <<>> ELSE EventCode(0, 1)

DecodeParticle ==
  /\ Decoding("element")
  /\ LET e == Here.elements[1]
         symbols == decode_element(e, Here.flag)
     IN  /\ ComesNext(symbols)
         /\ position' = position + Len(symbols)
         /\ decoded' = Append(decoded, e.name)
  /\ code' = Tail(code)
  /\ UNCHANGED <<type, value, valid, side, stream, options, list>>

DecodeFinishUnread ==
  /\ Decoding("finish")
  /\ code' = Tail(code)
  /\ UNCHANGED <<type, value, valid, side, stream, position, options, list, decoded>>

DecodeFinish ==
  /\ Decoding("finish") /\ ComesNext(EventCode(0, 1))
  /\ position' = position + 1
  /\ code' = Tail(code)
  /\ UNCHANGED <<type, value, valid, side, stream, options, list, decoded>>

(* The list of the statement, or of the option being decoded.              *)
ListHere ==
  IF Decoding("list") THEN Here.elements
  ELSE IF Decoding("blob") /\ options # None THEN
         IF ~options.taken /\ options.ec < Len(Flat) /\ IsList(Flat[options.ec + 1])
         THEN <<Flat[options.ec + 1]>> ELSE <<>>
  ELSE <<>>

DecodeList ==
  /\ list = None /\ ListHere # <<>>
  /\ ComesNext(decode_list_start(ListHere[1]))
  /\ position' = position + Len(decode_list_start(ListHere[1]))
  /\ list' = [element |-> ListHere[1], items |-> 0]
  /\ UNCHANGED <<type, value, valid, side, code, stream, options, decoded>>

(* The loop over the items has an end: the list, and the case it is in.    *)
EndOfList == /\ list' = None
             /\ IF options = None THEN code' = Tail(code) /\ UNCHANGED options
                ELSE options' = [options EXCEPT !.taken = TRUE] /\ UNCHANGED code

(* One turn of the loop: the code for a further item, unless it is the     *)
(* first, and the item.                                                    *)
FurtherItem(e) == (IF list.items = 0 THEN <<>> ELSE EventCode(0, 2)) \o decode_item(e)

IsOverfull(l) == l.items = l.element.max
IsFull(l)     == l.items + 1 = l.element.max

DecodeItem ==
  /\ list # None /\ ComesNext(FurtherItem(list.element))
  /\ position' = position + Len(FurtherItem(list.element))
  /\ decoded' = Append(decoded, list.element.name)
  /\ IF IsFull(list) THEN EndOfList
     ELSE list' = [list EXCEPT !.items = @ + 1] /\ UNCHANGED <<code, options>>
  /\ UNCHANGED <<type, value, valid, side, stream>>

NoFurtherItem ==
  /\ list # None /\ list.items > 0 /\ ComesNext(EventCode(1, 2))
  /\ position' = position + 2
  /\ EndOfList
  /\ UNCHANGED <<type, value, valid, side, stream, decoded>>

get_num_eventcode_bits(blob, progress) ==
  ceil_log2(1 + Len(blob.flat) + get_num_AnyElements(blob.elements) - progress + One(blob.flag))

DecodeOptions ==
  /\ Decoding("blob") /\ options = None
  /\ LET n == AtLeast(2, get_num_eventcode_bits(Here, 0))
     IN  \E c \in NextCodes(n) : /\ options' = [ec |-> c, taken |-> FALSE]
                                 /\ position' = position + n
  /\ UNCHANGED <<type, value, valid, side, code, stream, list, decoded>>

(* case i: an option that is not a list.                                   *)
InOption == Decoding("blob") /\ options # None /\ list = None

DecodeOption ==
  /\ InOption /\ ~options.taken /\ options.ec < Len(Flat) /\ ListHere = <<>>
  /\ LET e == Flat[options.ec + 1]
         symbols == decode_element(e, TRUE)
     IN  /\ ComesNext(symbols)
         /\ position' = position + Len(symbols)
         /\ decoded' = Append(decoded, e.name)
  /\ options' = [options EXCEPT !.taken = TRUE]
  /\ UNCHANGED <<type, value, valid, side, code, stream, list>>

(* while_loop_offset after case i, and whether the loop goes on after it.  *)
while_loop_count(i)  == i + 1
while_loop_offset(i) ==
  LET sum[k \in 0 .. i + 1] == IF k = 0 THEN 0 ELSE sum[k - 1] + Flat[k].per_base
  IN  sum[i + 1]
goes_on(i) == Flat[i + 1].optional /\ (i # Len(Flat) - 1 \/ Here.flag)

NextOption ==
  /\ InOption /\ options.taken /\ goes_on(options.ec)
  /\ LET progress == while_loop_offset(options.ec)
         n == AtLeast(1, get_num_eventcode_bits(Here, progress))
     IN  \E c \in NextCodes(n) : /\ options' = [ec |-> progress + c, taken |-> FALSE]
                                 /\ position' = position + n
  /\ UNCHANGED <<type, value, valid, side, code, stream, list, decoded>>

(* continue_loop = false: after the last option, or for the code of none.  *)
LeaveOptions ==
  /\ InOption
  /\ IF options.taken THEN ~goes_on(options.ec)
     ELSE options.ec = Len(Flat) /\ Last(Flat).optional
  /\ options' = None
  /\ code' = Tail(code)
  /\ UNCHANGED <<type, value, valid, side, stream, position, list, decoded>>

DecodeReturns ==
  /\ side = "decoder" /\ code = <<>>
  /\ side' = "done"
  /\ UNCHANGED <<type, value, valid, code, stream, position, options, list, decoded>>

Decode == \/ DecodeParticle \/ DecodeFinish
          \/ DecodeList \/ DecodeItem \/ NoFurtherItem
          \/ DecodeOptions \/ DecodeOption \/ NextOption \/ LeaveOptions
          \/ DecodeReturns

Encode == \/ EncodeParticle \/ EncodeFinish
          \/ EncodeOptions \/ SkipOption \/ EncodeOption \/ EndOptions
          \/ Refuse
          \/ EncodeReturns

(* After the last return, or in the handler of the encoder's exception.    *)
Ended == side \in {"done", "thrown"} /\ UNCHANGED vars

Next == Encode \/ Decode \/ Ended

Spec == Init /\ [][Next]_vars /\ WF_vars(Next)

(***************************************************************************)
(* Properties.                                                             *)
(***************************************************************************)
(* The local variables of a blob are those of the function that runs, and  *)
(* a list in progress has room for a further item.                         *)
TypeOK ==
  /\ side \in {"encoder", "decoder", "done", "thrown"}
  /\ \A i \in DOMAIN code : code[i].op \in {"element", "list", "blob", "finish"}
  /\ position \in 0 .. Len(stream)
  /\ options # None => /\ side \in {"encoder", "thrown", "decoder"}
                       /\ IF side = "decoder"
                          THEN DOMAIN options = {"ec", "taken"} /\ options.ec \in Nat
                          ELSE /\ options.offset \in Nat /\ options.num_bits \in 0 .. 8
                               /\ \A i \in DOMAIN options.order :
                                    options.order[i] \in 0 .. Len(Flat) - 1
  /\ list # None => side = "decoder" /\ list.items < list.element.max
  /\ Len(decoded) <= position

(* Every event code of a blob has the number of bits that its value needs: *)
(* the width the encoder has left after the options before it always       *)
(* admits the distance to the next one, or to the end of the table.        *)
EventCodesFit ==
  Encoding("blob") /\ options # None =>
    /\ InTable /\ exists(Option.name) => Fits(event_code, options.num_bits)
    /\ options.order = <<>> /\ ~options.last_option_taken => Fits(event_code, options.num_bits)

(* A type decoded leaves nothing of its stream to the type around it: the  *)
(* decoder returns exactly where the encoder did.                          *)
EverythingIsRead == side = "done" => position = Len(stream)

(* The elements of the value, an entry for each item.                      *)
Document == FlattenSeq([i \in DOMAIN value |-> [k \in 1 .. value[i].items |-> value[i].name]])

Transferred == INSTANCE Transfer
  WITH document <- Document,
       allowed <- valid,
       delivered <- decoded,
       refused <- side = "thrown"

(* What the decoder puts out is what the encoder was given: each element   *)
(* present, once per item, in order, and all of them; it is refused only   *)
(* if the schema does not allow it.                                        *)
ImplementsTransfer == Transferred!Spec
=============================================================================
