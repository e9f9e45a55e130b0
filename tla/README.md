# Verification of the EXI converter

The library turns JSON texts of the charging protocols ISO 15118-2, DIN 70121 and
SupportedAppProtocol into EXI bit streams and back. It is a sequential C++ program; most of
it is generated, by the Python program in `code_generator/`, from the XML schemas in
`schemas/`. Nothing runs concurrently and nothing is persisted. What is hard about it is that
two programs that never meet, the encoder and the decoder, must agree bit for bit on a format
that has no redundancy: a field of a wrong width, an event code that one side leaves out or
a bit left set in a padding spoils everything after it and is noticed, if at all, much later.
Unit tests fix single messages. The models here quantify over the calls, the shapes of types
and the values.

## Components

| Component | State | Operations | Used by | Modules |
|---|---|---|---|---|
| `BitStream` (`lib/base/bitstream`) | byte vector, bit position, message length | `add_max_8bits`, `add_bytes`, `get_max_4bytes`, `get_next_n_bits` | everything that encodes or decodes | `Bits`, `BitSequence`, `BitStream` |
| `OutputStringStream` (`lib/base/output_string_stream`) | text, last command | `start_key`, `end_key`, `add_value`, `start_list`, `next_item`, `end_list`, `get_full_stream` | generated decoders, `library.cpp` | `JsonText`, `OutputStringStream` |
| `ComplexTypes` (`code_generator/transcode/complex_types.py`) | locals of the generated functions | an encode and a decode function for each complex type | `BodyMessage`, `library.cpp`, itself | `Transfer`, `ComplexTypes` |
| `TypeTree` (`type_tree.py`, `datatypes/`) | tree of types and elements | elements of each type, simple types, list of messages | the generators | `TypeTree`, `BaseTypes`, `ExiCodec` |
| `BaseTypes` (`lib/type_conversion`) | none | inject and extract functions for each kind of value | `ComplexTypes`, `EnumTypes` | `BaseTypes` |
| `EnumTypes` (`enums.py`) | none | a table and its inverse | `ComplexTypes` | `BaseTypes` |
| `JsonParser` (`lib/base/json_parser`) | position in the text | recursive descent into `JObject`s | `library.cpp` | `JsonParser` |
| `JObject` (same files) | map of members with an iterator | append, lookup, iteration | generated encoders | `JsonParser` (`append`), `ExiCodec` (lookups) |
| `BodyMessage` (`body_message.py`) | none | dispatch on message name and number | `library.cpp` | `ExiCodec` |
| `ExiCodec` (`lib/library.cpp`) | none between calls | `encode`, `decode` | bindings, tool | `ExiCodec` |
| `InputStringStream` | position | former JSON reader, used by its own test only | nobody | no |
| message lists (`ccs_messages.py`) | - | what messages get functions | `TypeTree` | `ExiCodec` (`MESSAGE_TYPES`) |
| C++ emission, tool, bindings | - | formatting, I/O | - | no |

How they interact: `ExiCodec::encode` parses the JSON text into `JObject`s and calls the
generated encoders, which look members up and write event codes and values through
`BaseTypes` into one `BitStream`. `ExiCodec::decode` calls the generated decoders, which read
the `BitStream` through `BaseTypes` and write JSON through one `OutputStringStream`. All calls
are synchronous; errors are exceptions that leave the call, and with it the stream.

What makes each component correct:

- `BitStream`: writing is appending bits, reading is taking the next bits; no call affects
  bits of another. `BitSequence` states it.
- `OutputStringStream`: whatever the nesting, the text is a JSON text with exactly the members,
  values and items given, although the class remembers one command only. `JsonText` states it.
- `ComplexTypes`: decoding what was encoded returns the elements of the value, each once and in
  order, and consumes exactly the bits written. `Transfer` states it.
- `BaseTypes`, `EnumTypes`: extracting what was injected is the identity, in the same bits.
- `TypeTree`: an object that the schema allows for a type is one that the elements made of the type allow,
  so that no encoder refuses it. `Transfer` states it, with the schema's objects as the documents.
- `JsonParser`: a JSON text is parsed completely into its members.
- `BodyMessage`, `ExiCodec`: both directions number the messages alike and read what was
  written up to the two codes that end it; what is no message of the namespace is refused.

The hazards are listed in `PROJECT.json`, each at its line, with the properties that cover it.

## Modules

**Bits** has the fixed-width integers of the C++ code as bit vectors: shift, mask, or.

**BitSequence** is the abstract stream: a sequence of bits and a position, with one action for
adding and one for taking bits.

**BitStream** has one action for each operation of the class. `add_bytes` and
`get_next_n_bits` are loops around the other two, so each has an action that starts it and one
for an iteration. `exi_data`, `bit_counter` and `num_bits` are the members of the class;
`pending` and `fetch` are the locals of the two loops; `last` is the result of the last call.
Memory behind the end of the vector, which `get_max_4bytes` reads in whole words, holds any of
`Junk`. The shift `(1 << 31) - 1` is taken as the wrapped value every build gives it.

**JsonText** is the grammar of JSON as a generator of tokens with a stack.

**OutputStringStream** has one operator for each operation of the class, and one action for each
point at which a generated decoder calls it. The decoder is external to the class and drives it:
`open` is its call stack of elements, types and lists. `output_data` is a sequence of tokens: a
key, a scalar, and the punctuation the code writes.

**Transfer** is the promise of an encoder and decoder pair: the elements of a document are
delivered, or a document that is not allowed is refused before any is.

**TypeTree** has what the generator makes of a complex type of the schema. `XsdType` and the components of
it are the schema side: attributes, elements, choices and any elements, as `xmlschema` yields them. `diveIntoType` and
`child_elements` make `Element`s of them, including the flag that a choice leaves set for the elements that follow and the
components of base types. `Valid` says, independently of these, which objects the schema allows. The module has
no state.

**ComplexTypes** models the generator and the generated code together. It takes its types from `TypeTree` and its
documents from the schema side of it, so that a wrong `Element` shows as an object refused or garbled.
`Refuse` is the encoder's exception at an element it cannot find, or a list of a length it does not take. `getEncodeFunction` and
`getDecodeFunction` build, like the methods of these names, the statements of the two functions
of a type: plain elements, lists, *blobs* of optional and abstract elements, and the finishing
code. The state machine then executes first the one and then the other. `code` is the statements
left, `options` the locals of a blob (`offset`, `num_bits_eventcode`, the rest of the table; or
the event code and the place in the loop), `list` the list being decoded. A symbol of `stream` is
a bit of an event code or the name of an element, which stands for the bits of its content: the
values of `BaseTypes`, or the stream of another function of the same kind. The order in which the
encoder's `std::unordered_map` is iterated is a constant, `Orders`. `SchemaAssumption` says what the generated functions take
for granted of a type: at most 15 elements of at most 15 names each, which event codes of 8 bits can tell apart (the largest table
of the schemas has fewer), and that an abstract element of more names than a substitute and its own is the last of its blob.
`ObjectsAssumption` says that an object has at most one of the names that may stand for an abstract element, and not the
abstract name itself; `OrdersAssumption` that an order is one of the entries of the table. TLC evaluates them for the types of the runs. A decoder that throws, or that
would read content as a code, has no further step; TLC reports it as a deadlock.

**BaseTypes** injects the values of a document one after the other and then extracts them. A value
carries the arguments that the generator gives to the two functions of its type, so a document is a
sequence of typed values. An inject function is one action; the calls of `add_max_8bits` that it makes
are `pending` and are executed one by one, since each may throw and leave the stream half written.
`stream` is the bit sequence that `BitSequence` promises, with one thing added from `BitStream`: the
bits that a field has too many reach back into its byte, which is how a negative number damages what
stands before it. `getSimpleTypeInfo` derives the functions of a type and their arguments from what the schema says of it:
which bounded integers become fields of a fixed number of bits, and of how many. Lengths pass through `uint8_t`s, as in the code. `FieldsFit` is the hypothesis
`CallsFit` of the theorem about `BitStream`, here checked of the callers. Reading single fields is by
`BitSequence`, too. `extractHexBin` is the one function that reads many bytes at once, and its `get_next_n_bits` is that
of `BitStream`: of 7, 11, ..., 127 bytes, which are words of four with three behind them, those three are stored over others
and their own places keep what the memory held, any values of `Heap`. The functions that read a number have a step only if there is one in the
stream, of at most five octets, which is what the inject functions write (`HasNumber`). The literals of `EnumTypes` are indices and a flag for a text that is none.

**JsonParser** is the recursive descent as a machine with a stack: `todo` are the statements left of all
calls in progress, `items` the objects and arrays they build, `current_pos` the position they share.
A character is a string of length one. `start`, in an item, is a history variable: where its text
begins. What the text says is given with each input; `Transfer` is again the promise: what it says is delivered,
or the text is refused.

**ExiCodec** is the composition: `encode` of an object under a namespace, and `decode` of the bytes under a namespace that
may be another. It has the state of two instances, `Stream` of `BitStream` and `Text` of `OutputStringStream`, and takes
their operations as its own steps, so that the header byte, the seven bits of the schema, the event codes and the six bits of
the message number cross byte boundaries as they do in the program. `code` is the list of statements still to run, each
named for the call it is; a step runs the first, which may throw or put statements of a callee before the rest.
`BodyElements` gives the global elements of a schema, and `elements`, `table`, `message_nr` and `switch` are computed from
it and from `MESSAGE_TYPES` as `BodyMessage` and `TypeTree` do. The functions of the complex types are stand-ins: fields of a few bits
that both sides treat alike, which is what `ComplexTypes` and `BaseTypes` show of the real ones. A request may also be a
byte sequence that no encoder here has written. `Transfer` is the promise once more, with the text of the message and its
values as the document; that what was encoded under another namespace is refused, which `Transfer` would not insist on, is `RefusesOtherNamespaces`.
The named assumptions say what the code takes for granted: names in an order, each once; at most 64 body elements in a schema, for numbers of six
bits; a header with a field; fields of 1 to 8 bits; and of a request, that its body has one member and that its
values fit their fields. They exclude none of the requests that encode must refuse. `MaxBits` stands for the bounds that `BitStream` has: no field ends behind it. The run has
no message that long (a call kept back would be a deadlock), the theorems hold for every bound.

**MCBitStream**, **MCComplexTypes**, **MCBaseTypes**, **MCJsonParser**, **MCExiCodec** hold the instances; `OutputStringStream`
is checked directly. `MCJsonParser` writes documents down as texts itself.

**BitStream_proofs**, **OutputStringStream_proofs**, **BaseTypes_proofs**, **ComplexTypes_proofs**, **JsonParser_proofs**, **ExiCodec_proofs** hold the
theorems about invariants and steps, the second parts of **BitStream_proofs** and **OutputStringStream_proofs**, **BaseTypes_roundtrip** and the end
of **ExiCodec_proofs** those about the abstract specifications. **Induction** has what several of them need: the principle for natural numbers, that a function
defined by recursion on 0 .. n exists, and what `FlattenSeq` makes of its sequences one at a time.

## Runs

| Run | Shows | Bounds |
|---|---|---|
| `bitstream` | any order of fields of 1, 2, 3, 6, 7 and 8 bits and byte arrays appends exactly these bits; padding stays zero; a written bit stays; widths 0 and 9 are refused without effect; reads of 1 to 32 bits and long reads return the next bits of messages of 1 to 9 bytes; long reads end | `MaxWritten` = 17: two byte boundaries, each reached at every offset; `MaxRead` = 80: up to three words, each word boundary crossed at every offset the widths reach |
| `output` | for every walk of a decoder the text is well-formed, and `start_list` does not throw | 13 tokens, depth 6, two keys: lists in types in lists, empty types, several members and items |
| `complex_types` | for every object that the schema allows for twenty-five types of ISO 15118-2, DIN 70121 and xmldsig, and for every other type of up to three components, the decoder returns what the encoder was given; event codes fit their width; nothing is left over; an object without an element that is encoded unconditionally, and lists of 0 and too many items, are refused | three components of twelve kinds, among them attributes, an optional choice and an absent any element: every pair of neighbours with something before or behind it, which is as far as a blob's ending looks; lists of 0 to 4 items for maxima of 2 and 3 |
| `base_types` | every value is extracted as it was injected, at whatever bit its field starts, and consumes the bits that were written; every field fits its width; a text that is none of its type is refused | documents of one to three values; numbers on both sides of each group of seven bits; lengths on both sides of the second octet, and the longest string and hexBinary that work (125 characters, 126 bytes); enumerations of 2 to 24 literals; the n-bit types of the schemas at both limits |
| `json_parser` | a JSON text is parsed into what it says; a text that breaks off, or lacks a bracket, is refused; each function consumes exactly the brackets of its item; the parser ends | objects in lists in objects in objects, up to two members or items each; strings with escaped quotes, backslashes and all punctuation; with and without blanks; every proper prefix and every missing bracket of the flat and some nested ones |
| `exi_codec` | all 34 messages of each V2G schema and both of the app protocol, encoded and decoded under each of three namespaces and an unknown one, come back under their own name or are refused; objects that are no message, and bytes with a wrong header, number or code, are refused, and so is everything under another namespace than it was encoded; the decoder leaves nothing but the two final codes and the padding | fields of 1 to 8 bits, all ones or all zeros, headers of different length in the two schemas, so that messages end at several offsets of a byte; eleven unusable objects under each namespace, fifteen byte sequences |

The types of `complex_types` leave out what the runs below show not to work, two options before a list, and an
optional abstract element followed by anything but an abstract one, which no schema has. An optional choice comes
last, as in the schemas. Its tables are iterated in index order, which is the order that the generator means. A component
keeps only what the generator asks of it, so the types left out of `SchemaTypes` are covered by one of the same shape.

Each of the following runs violates a property that the repository states, and `PROJECT.json` has
the finding.

| Run | Disagreement |
|---|---|
| `bitstream_seven` | the last three of seven bytes read at once land at the wrong place |
| `complex_types_optional_list` | an optional list gets a start bit that is not read (`SalesTariffEntryType`) |
| `complex_types_choice` | the alternatives of a required choice all become required elements, so that every object of the type is refused (`ParameterType`) |
| `complex_types_hash_order` | options leave in hash order (`CurrentDemandRes`, with the order GCC 12 gives) |
| `base_types_negative` | a number below zero gets two sign bits: -5 comes back as -2 |
| `json_parser_empty` | after an empty object the members that follow are lost |

Those of `TypeTree`, `ComplexTypes`, `BaseTypes` and `JsonParser` were compared with the C++ code (for `ComplexTypes` the
generated code), built and run on such values: it fails there in the same way.

The code has further limits, which the instances of the passing runs stay within:

- `BitStream`: a request beyond the end of a message is refused only if it is longer than the whole message;
  otherwise what lies behind the vector is read. `BitSequence` promises nothing of such an answer (`Overrun`).
- `OutputStringStream`: a list item without any element leaves no object (`ItemsMayBeEmpty = TRUE` violates
  `ImplementsJsonText`); the parser does not take an empty object in a list either.
- `ComplexTypes`: with two options before a list the encoder writes the code behind the first in two bits, and the decoder
  reads one (`SalesTariffType` has two); an any element that is present makes the decoder read one bit more than was
  written; a required element that is missing behind options is noticed by the decoder only.
- `TypeTree`: what follows an optional choice in the same type would become optional, too; no type has this. A group
  within a group, and a group that may be repeated, are not modelled. No type of the messages has one, but types of xmldsig do, which the
  `Signature` of a header may contain: groups within groups `X509DataType`, `PGPDataType` and `DSAKeyValueType`, repeated ones
  `KeyInfoType`, `TransformType`, `X509DataType`, `SPKIDataType`, `ObjectType` and `SignaturePropertyType`. `diveIntoType` walks through such groups as if they
  were flat, and takes each content once. `TransformType` is in the run with its choice taken once.
- `BaseTypes`: a character that base64 does not have is encoded, not refused, as the test compares with another
  value than the table has; an n-bit type of more than eight bits (`meterStatusType`) throws when injected; numbers outside the range of an
  n-bit type are not refused; a hexBinary of 7, 11, ..., 127 bytes comes back garbled (a `sessionIDType` may have seven;
  the cause is that of `bitstream_seven`, so it has no run of its own); the length of a string of 126 characters or more, or of a hexBinary
  of 128 bytes or more, is written in one octet and read as the first of several; the `uint8_t` length of a base64 text of 256
  bytes or more wraps; an empty hexBinary is written and cannot be read; an empty base64 text
  is refused; numbers are those of an `int32_t`.
- `JsonParser`: text behind the outermost object is not looked at; anything without a closing bracket or comma
  passes for a number; more than one blank is refused.
- `ExiCodec`: a `Header` or `Body` that is no object, or an empty one, which the parser makes a `JEmpty`, is dereferenced as a
  null pointer; of a body with several members the first by name is the message and the others are dropped, as are
  members that a type does not have; a truncated message is read past its end; the two final codes are never
  checked. The requests have none of these but the last.

## Fairness

The program is sequential: a call runs until it returns. `FairSpec` of `BitStream` asks only that a
loop that has been entered goes on (weak fairness of its iteration); nothing makes a caller call.
`ComplexTypes`, `BaseTypes`, `JsonParser` and `ExiCodec` have weak fairness of the whole next-state relation, as each step
is the next one of a running function. Both are what a thread that is scheduled at all gives. `output` needs none: it has no
liveness property, and a decoder may stop anywhere, by an exception, which is why deadlock is not
checked there.

## Proofs

`BitStream_proofs` proves, for every set of calls, messages and bounds, from the named assumptions on
the constants in `BitStream`: `TypeOK`, `BytesMatchBits`, `PaddingIsZero` and, if every value fits its
field (`CallsFit`, the hypothesis of that theorem only), the action property `WrittenBitsStay`. The
inductive invariant joins the first three: that a byte is appended exactly when the counter crosses a
boundary needs the vector to have a byte for each eight bits begun, and that or-ing a field leaves
the padding zero needs the padding to be zero before. The lemmas state for each shift and mask which
bit of the result comes from which bit of the operand.

Its second part proves `ImplementsBitSequence` for streams of any length, from two hypotheses: `CallsFit` again, and
`FetchesStored`, which leaves out the requests that end in a chunk of three bytes behind a whole word, for which the
code is wrong (run `bitstream_seven`). Each call is a step of `BitSequence`, and the turns of the two loops but the last
are invisible. The lemmas say, bottom up, which bits of the message a read of one or two words returns whatever lies behind its end, which
bytes a turn of the loop stores, and that the whole words and the last chunk are the bytes that `BitSequence` returns.
The invariant adds what the loops have done so far: the bytes that `add_bytes` has added are the last ones of the stream, and
the buffer of `get_next_n_bits` holds whole words, which are the message's unless the request goes beyond its end.

`OutputStringStream_proofs` proves `TypeOK`, `LastCommandTellsContext` and `NeverThrows` for every set of
keys and every depth. The invariant says which kinds of frame may lie on which in the decoder's call
stack, and what a frame below the top must already have; it is needed because returning from an element
exposes the frame below, whose own content must be the one that the last command then tells.

Its second part proves `ImplementsJsonText`, from the hypothesis that every item of a list has a member
(`ItemsMayBeEmpty = FALSE`: an item without a member leaves no object in the text). Each call of the decoder is a step of `JsonText` or
invisible: the contexts that `JsonText` keeps are read off the decoder's call stack, and its text is the output with
the brace that the class has put off. The invariant adds that a list has nothing, scalars or types with members in it.

`ComplexTypes_proofs` proves `TypeOK` for every set of types and objects, from the assumptions named above. `TInv` says besides that the
statements left are among those the generator makes of the type, that a blob in progress is of the side that runs, and what the locals of
its loop are; whether the width of a code is within eight bits is a question about the table of the blob, and whether a list has room
about its maximum. `EventCodesFit` is proved from one hypothesis more, `OrdersByIndex`: the encoder visits its table in index order.
The generator takes that for granted and `std::unordered_map` does not give it, as `complex_types_hash_order` shows. Its invariant (`OptionsFit`)
says where the encoder's loop is: no option of the object lies between the entries visited and `offset`, and the width has room for the distance from
`offset` to the end of the table. The step over an option keeps it because `counter_value` is the index of the last entry
of the same element, and the object has none of the entries in between (`OptionTaken`). The lemmas give, bottom up, what
`FlattenSeq` makes of its sequences one at a time, where in a table the entries of an element are, `counter_value` and
`while_loop_offset` there, the rounded-up logarithm, and that a blob ends with its big abstract element if it has one.

`BaseTypes_proofs` proves `FieldsFit` for documents of any length with values of any size, from the
assumption `DocumentsTyped`: each value is in the range of its type, where a bounded integer has two to 256 values and
an enumeration as many literals, and only the last two characters of a base64 text are padding. The invariant is that
what is pending is a sequence of calls that fit; the work is in what the inject functions compute: that
the rounded-up logarithm of `num_bits` holds the range, that the seven bits and the continuation bit of an
unsigned number stay in a byte, and that the last character of a base64 text is cut to the two or four bits
left. Powers of two with a variable exponent are counted as subsets. Together with `WrittenBitsStay`, which has
`FieldsFit` for its hypothesis, no value damages those written before it. `TypeOK` follows with an invariant that adds the counters (`TInv`):
an extract function that returns has taken at least one bit, and none beyond the stream.

`BaseTypes_roundtrip` proves `EverythingIsRead`, and that every step is one of `Transfer` or invisible (`Transfers`, the safety part of
`ImplementsTransfer`): what is extracted is what was injected, for documents of any length. Besides `DocumentsTyped` it assumes
`DocumentsSendable`, the limits of the encodings listed above: numbers of 0 to 2^31 - 1, strings of up to 125 characters, hexBinary of 1 to 127 bytes,
but not 7, 11, ..., 127 (what `FetchesStored` is for `BitStream`),
base64 of 1 to 255 bytes with zeros for the bits of the last character that no byte has. The documents of `base_types` satisfy both
hypotheses, and reach those limits; `base_types_negative` shows what becomes of a number below zero. The invariant (`WInv`) gives each field of each value its place in the stream: value i
starts where value i - 1 ends, all its fields but those pending are there, and the decoder is behind as many values as it has
extracted, which are those of the document. It stays because `add_max_8bits` changes nothing before a field that fits (`FieldAdded`), the
same hazard that `FieldsFit` is about. Below it there is one lemma for each pair of functions (`ReadString`, `ReadHexBin`, `ReadUnsignedNumber`, `ReadIntegerNumber`,
`ReadBase64`): from the fields at the position follow the value returned and the number of bits taken. They rest on what the bits of a number
read one after the other are (`ReadNumber`), and on the groups of seven bits of a number adding up to it again (`ReadUnsigned`). The recursive functions
of the model are taken apart with `Recursion`.

`JsonParser_proofs` proves `TypeOK` for every set of texts (`InputsAssumption`: an input is a sequence of
characters, with the result it says). The invariant has two parts. `Follows` says which
statement may come after which, so that a call that ends is followed by the one that goes on building the item around it.
`WellNested` says that the calls that build the items lie below the other statements, one for each item and of its class, and
that a bracket still asked for is one of the innermost item. Both are needed, since the end of an item exposes the one below. That the functions that look for a
quote, a bracket or a comma (`closing_quote`, `control_char`) move forward, never past the end, is proved by induction over the
text; these are recursive functions, for which `Induction` states the principle with a set of numbers in place of a predicate.

Its second part proves `ItemsEndWithTheirBracket` for every text, from one hypothesis, `NumbersArePlain`: what the parser
takes for a number has no quote and no opening bracket in it. Without it the property is false of the code, which accepts
anything without a comma or closing bracket as a number. The invariant counts: the opening brackets outside of strings, less the
closing ones, between the beginning of an item and the position are as many as the items from it on to the top of the stack.

`ExiCodec_proofs` proves `TypeOK`, `StopsAtTheEnd`, `RefusesOtherNamespaces` and the safety part of `ImplementsTransfer`
(`Converts`: every step is one of `Transfer` or invisible) for everything that `encode` is called with, from the assumptions in `ExiCodec`: whatever elements the
schemas have, types with any number of fields, and any JSON items, those that must be refused included. A call that
dereferences a null pointer (see the limits above) has no further step, and the theorems say what holds until then. They leave out the bytes that another
program has sent (`~IsReceived`): of these a decoder may read beyond the end, as they may break off anywhere, and what they say is not known; they stay with the run.

None of the properties is inductive, since they tell the end of a call and nothing of the way. The invariant `OnItsWay` is the list of the
places (`At`) where a call may be. In the encoder a place is the number of fields written, with the bits of these as what the stream holds (`Wrote`),
and the statements left (`Encodes`); in the decoder the number of fields read of the message the stream holds (`Reads`), the statements left, and the text and the values so far (`Decodes`).
The fields are those of the `Script` of the request: header byte, number of the schema, event codes, header, number of the message, its fields and the two final codes.
The proof goes through it in three parts. The first is about bits: a field that is added stands where the last one
ended and the fields before it stay; `get_max_4bytes` and the loop of `get_next_n_bits` return the number of the next field, whatever `Junk` lies behind
the end. It instantiates `BitStream_proofs` for the bytes, shifts and masks, and what is new is that the fields of a message divide its bits, so that a read of the same width
finds the same field. The second says which step a statement allows (`Selected`, and a lemma for each operation), and that the requests that encode refuses are those that say nothing
(`RefusedSaysNothing`) and the others say what their message is (`EncodedIsSaid`). The third walks the places: a header, the message
in a body and one of the app protocol are each a *part* (`IsAPart`), a type between fields of its own, for which the decoder's turn through `start_key`, `get_max_4bytes`,
`add_value` and `end_key` is proved once.
Under another namespace the decoder gets to the second number and no further: two schemas have different numbers (`message_id`), an app message begins with
a zero bit where the numbers of both schemas have a one, and these are read as 2, which is no message of the app protocol.

Only model-checked: everything about `TypeTree`; of `ExiCodec`, what is said of received bytes; the properties of `ComplexTypes` and `JsonParser` that relate the result to the
input (`ImplementsTransfer`, and `EverythingIsRead`; for `ComplexTypes` they hold of the types that the run considers, not of every type, see the runs that violate them, and
that the two functions of a type agree on it is an induction over its statements for which a hypothesis on the type would have to leave out each of the known errors); and,
being outside what the prover handles, liveness.

## Plan

The order was: the streams, on which everything rests; the generated functions, where the two
directions are most easily at odds; the values; the parser; the types that the generator derives; the codec, which
joins them. What is left:

1. Theorems: `EverythingIsRead` of `ComplexTypes` for the types of which it holds.
2. `ExiCodec` on the text of `JsonParser` instead of its result: the two meet in the tree of items only.

## Not modelled

- Debug output, the wording of exceptions, the emission of C++ text (`cpp/`, `main.py`), the command line tool and the
  bindings: formatting and I/O without a state of their own.
- Reading XML schemas: a library does it; a type is given by the components it yields.
- The contents of names and strings, which nothing interprets.
- `InputStringStream`, the former JSON reader, which `JsonParser` has replaced: no code of the library calls it.
- `schemas/iso15118_20`, for which no code is generated.
- The tests, and googletest and cpplint under `testlib/`. They are most of the lines of the repository:
  the library and the generator together have about three thousand. The share of *all* lines that a model can cover is therefore a few percent.
