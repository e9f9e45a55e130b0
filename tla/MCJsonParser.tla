---------------------------- MODULE MCJsonParser ----------------------------
(***************************************************************************)
(* JSON documents, their texts, and texts with a part missing.             *)
(***************************************************************************)
EXTENDS JsonParser

(***************************************************************************)
(* A document is written down as an item: its kind and its text, its       *)
(* items, or its members <<key, item>>.                                    *)
(***************************************************************************)
Str(s)     == [kind |-> "string", content |-> s]
Num(s)     == [kind |-> "number", content |-> s]
Empty      == [kind |-> "empty",  content |-> <<>>]
Arr(items_) == [kind |-> "array",  content |-> items_]
Obj(members) == [kind |-> "object", content |-> members]

Joined(texts, separator) ==
  FoldLeft(LAMBDA all, t : IF all = <<>> THEN t ELSE all \o separator \o t, <<>>, texts)

(* blank is what follows each "," and ":", as in the output of json.dumps. *)
RECURSIVE TextOf(_, _)
TextOf(item, blank) ==
  CASE item.kind = "string" -> <<"\"">> \o item.content \o <<"\"">>
    [] item.kind = "number" -> item.content
    [] item.kind = "empty"  -> <<"{", "}">>
    [] item.kind = "array"  ->
         <<"[">> \o Joined([i \in DOMAIN item.content |-> TextOf(item.content[i], blank)],
                           <<",">> \o blank) \o <<"]">>
    [] item.kind = "object" ->
         <<"{">> \o Joined([i \in DOMAIN item.content |->
                               <<"\"">> \o item.content[i][1] \o <<"\"", ":">> \o blank
                                 \o TextOf(item.content[i][2], blank)], <<",">> \o blank)
           \o <<"}">>

(* What the parser is meant to make of it.                                 *)
RECURSIVE ItemOf(_)
ItemOf(item) ==
  CASE item.kind \in {"string", "number"} -> JValue(item.content)
    [] item.kind = "empty"  -> JEmpty
    [] item.kind = "array"  -> [class |-> "JArray",
         content |-> [i \in DOMAIN item.content |-> ItemOf(item.content[i])]]
    [] item.kind = "object" -> [class |-> "JObject",
         content |-> [k \in {m[1] : m \in ToSet(item.content)} |->
                       ItemOf((CHOOSE m \in ToSet(item.content) : m[1] = k)[2])]]

(***************************************************************************)
(* Documents.                                                              *)
(***************************************************************************)
A == <<"a">>
B == <<"b">>
Strings == {Str(<<>>), Str(<<"x">>), Str(<<"\\", "\"", "}">>), Str(<<"]", ",", "\\", "\\">>)}
Scalars == Strings \cup {Num(<<"1", "2">>)}
StringArrays == {Arr(<<>>)} \cup {Arr(<<s>>) : s \in Strings} \cup {Arr(<<s, t>>) : s, t \in Strings}
Flat    == {Obj(<< <<A, v>> >>) : v \in Scalars \cup StringArrays}
           \cup {Obj(<< <<A, v>>, <<B, w>> >>) : v, w \in Scalars}
Few     == {Obj(<< <<A, Str(<<"x">>)>> >>), Obj(<< <<A, Num(<<"1">>)>>, <<B, Arr(<<>>)>> >>)}
Lists   == {Arr(<<o>>) : o \in Flat} \cup {Arr(<<o, p>>) : o \in Few, p \in Flat}
Nested  == {Obj(<< <<A, v>> >>) : v \in Flat \cup Lists}
           \cup {Obj(<< <<A, v>>, <<B, w>> >>) : v \in Few \cup Lists, w \in Scalars \cup Few}
           \cup {Obj(<< <<A, w>>, <<B, v>> >>) : v \in Few \cup Lists, w \in Scalars}
Deep    == {Obj(<< <<A, o>>, <<B, w>> >>) : o \in {Obj(<< <<B, v>> >>) : v \in Lists},
                                            w \in {Num(<<"1">>), Str(<<>>)}}

(* Messages without content: the empty object is the last member of every  *)
(* object around it.                                                       *)
WithEmpty(before) == Obj(Append(before, <<B, Empty>>))
Before    == {<<>>} \cup {<< <<A, v>> >> : v \in Scalars}
EmptyLast == {WithEmpty(s) : s \in Before} \cup {Obj(Append(s, <<B, WithEmpty(t)>>)) : s, t \in Before}

(* Two empty members, or one that something follows.                       *)
EmptyFirst == {Obj(<< <<A, Empty>>, <<B, w>> >>) : w \in Scalars \cup {Empty}}

(***************************************************************************)
(* Inputs.                                                                 *)
(***************************************************************************)
Blanks == {<<>>, <<" ">>}

Whole(document, blank) ==
  [text |-> TextOf(document, blank), meaning |-> <<ItemOf(document)>>, valid |-> TRUE]
Broken(text) == [text |-> text, meaning |-> <<>>, valid |-> FALSE]

(* The text breaks off.                                                    *)
Truncated(text) == {Broken(SubSeq(text, 1, n)) : n \in 0 .. Len(text) - 1}

(* A bracket outside a string is missing.                                  *)
InString(text, p) ==
  Cardinality({q \in 1 .. p - 1 : text[q] = "\"" /\ (q = 1 \/ text[q - 1] # "\\" \/
                                  (q > 2 /\ text[q - 2] = "\\"))}) % 2 = 1
Unbracketed(text) == {Broken(RemoveAt(text, p)) :
  p \in {q \in DOMAIN text : text[q] \in {"{", "}", "[", "]"} /\ ~InString(text, q)}}

SomeInputs ==
  {Whole(d, blank) : d \in Flat \cup Nested \cup Deep, blank \in Blanks}
    \cup {Whole(d, blank) : d \in EmptyLast, blank \in Blanks}
    \cup UNION {Truncated(TextOf(d, blank)) \cup Unbracketed(TextOf(d, blank)) :
                d \in Flat \cup {Obj(<< <<A, v>>, <<B, Str(<<>>)>> >>) : v \in Few \cup Lists},
                blank \in Blanks}

InputsWithEmpty == {Whole(d, <<>>) : d \in EmptyFirst}
=============================================================================
