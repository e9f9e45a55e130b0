----------------------------- MODULE JsonParser -----------------------------
(***************************************************************************)
(* JsonParser::parse and the JObject it builds                             *)
(* (lib/base/json_parser.{h,cpp}).                                         *)
(*                                                                         *)
(* The parser is a recursive descent over functions that share one         *)
(* position.  "todo" holds what the running calls still have to do, the    *)
(* innermost first, and "items" the objects and arrays they are building,  *)
(* the innermost last.  A character is a string of length one.             *)
(***************************************************************************)
EXTENDS Integers, SequencesExt

CONSTANT Inputs   \* [text, meaning, valid]: a text, what it says, and whether it is JSON

(* "end" stands for the end of the text and is no character.               *)
ASSUME InputsAssumption == \A i \in Inputs : i.text \in Seq(STRING \ {"end"})

VARIABLES
  input,        \* the text being parsed, with what it says
  current_pos,  \* position of the next character
  todo,         \* statements left of the calls in progress
  items,        \* what these calls have built so far
  result        \* the parsed object, or the exception

vars == <<input, current_pos, todo, items, result>>

(***************************************************************************)
(* The classes of json_parser.h.  A JObject is a std::map of members.      *)
(***************************************************************************)
JValue(text) == [class |-> "JValue", content |-> text]
JEmpty       == [class |-> "JEmpty", content |-> <<>>]

(* JObject::append: std::map::insert keeps the member that is there.       *)
append(f, key, item) == [k \in DOMAIN f \cup {key} |-> IF k \in DOMAIN f THEN f[k] ELSE item]

Running  == [class |-> "running", content |-> <<>>]
Thrown   == [class |-> "exception", content |-> <<>>]

(***************************************************************************)
(* Characters.                                                             *)
(***************************************************************************)
Quote == "\""

Text == input.text
At(p) == IF p \in DOMAIN Text THEN Text[p] ELSE "end"

(* jp_get_control_char skips one space; control_char is "end" where it     *)
(* throws.                                                                 *)
control_pos(p)  == IF At(p) = " " THEN p + 1 ELSE p
control_char(p) == At(control_pos(p))

(* std::string::find_first_of from p on; npos is 0.                        *)
find_first_of(chars, p) ==
  LET found == {q \in DOMAIN Text : q >= p /\ Text[q] \in chars}
  IN  IF found = {} THEN 0 ELSE Min(found)

(* Mutant: the character after a backslash is looked at.                   *)
closing_quote_unescaped(p) == find_first_of({Quote}, p)

(* jp_extract_string: the quote that ends a string whose text starts at p, *)
(* a backslash taking the character after it along.                        *)
closing_quote(p) ==
  LET end[q \in p .. Len(Text) + 2] ==
        LET found == find_first_of({Quote, "\\"}, q)
        IN  IF found # 0 /\ Text[found] = "\\" THEN end[found + 2] ELSE found
  IN  end[p]

(***************************************************************************)
(* Statements.                                                             *)
(***************************************************************************)
Do(op)         == [op |-> op, char |-> ""]
Require(c)     == [op |-> "jp_check_control_char", char |-> c]
Further(c)     == [op |-> "further_item", char |-> c]

single_object  == <<Require(Quote), Do("key"), Require(":"), Do("value")>>
value_string   == <<Require(Quote), Do("string")>>

(* Mutant: the loop over the items is missing.                              *)
array_item_only(c) == IF c = "{" THEN <<Do("object")>> ELSE value_string

array_item(c) == (IF c = "{" THEN <<Do("object")>> ELSE value_string) \o <<Further(c)>>

Runs(op)   == todo # <<>> /\ Head(todo).op = op
Goes(s, p) == todo' = s \o Tail(todo) /\ current_pos' = p /\ UNCHANGED input
Throw      == result' = Thrown /\ todo' = <<>> /\ UNCHANGED <<input, current_pos, items>>

(* The object or array in progress gets a member or an item.               *)
Handed(callers, item) ==
  LET n == Len(callers)
  IN  [callers EXCEPT ![n].content = IF callers[n].class = "JArray" THEN Append(@, item)
                                     ELSE append(@, callers[n].key, item)]

(* start is a history variable: where the text of the item starts.         *)
Begun(class) == Append(items, [class |-> class, content |-> <<>>, key |-> <<>>,
                               start |-> control_pos(current_pos)])

Init == /\ input \in Inputs
        /\ current_pos = 1
        /\ todo = <<Do("object")>>
        /\ items = <<>>
        /\ result = Running

(***************************************************************************)
(* The functions.                                                          *)
(***************************************************************************)
jp_check_control_char ==
  /\ Runs("jp_check_control_char")
  /\ IF control_char(current_pos) = Head(todo).char
     THEN Goes(<<>>, control_pos(current_pos) + 1) /\ UNCHANGED <<items, result>>
     ELSE Throw

(* jp_get_control_char at the end of the text.                             *)
end_of_text ==
  /\ Runs("further_member") \/ Runs("value") \/ Runs("first_item") \/ Runs("further_item")
  /\ \/ control_char(current_pos) = "end"
     \/ Runs("value") /\ control_char(current_pos) = "{"
                     /\ control_char(control_pos(current_pos) + 1) = "end"
  /\ Throw

jp_extract_object ==
  /\ Runs("object")
  /\ items' = Begun("JObject")
  /\ Goes(<<Require("{")>> \o single_object \o <<Do("further_member")>>, current_pos)
  /\ UNCHANGED result

(* Mutant: the position stays before the separator.                        *)
after_separator_in_place(p) == control_pos(p)

(* A "," is passed over.                                                   *)
after_separator(p) == control_pos(p) + 1

(* while (current_char == ','), and the end of the object.                 *)
further_member ==
  /\ Runs("further_member")
  /\ \/ /\ control_char(current_pos) = ","
        /\ Goes(single_object \o <<Do("further_member")>>, after_separator(current_pos))
     \/ /\ control_char(current_pos) \notin {",", "end"}
        /\ Goes(<<Require("}"), Do("return")>>, control_pos(current_pos))
  /\ UNCHANGED <<items, result>>

jp_extract_string ==
  /\ Runs("key") \/ Runs("string")
  /\ LET quote == closing_quote(current_pos)
         text  == SubSeq(Text, current_pos, quote - 1)
     IN  IF quote = 0 THEN Throw
         ELSE /\ items' = IF Runs("key") THEN [items EXCEPT ![Len(items)].key = text]
                          ELSE Handed(items, JValue(text))
              /\ Goes(<<>>, quote + 1)
              /\ UNCHANGED result

(* The second half of jp_extract_single_object: what the value starts with *)
(* decides who extracts it.                                                *)
extract_value ==
  /\ Runs("value")
  /\ LET p == control_pos(current_pos)
         c == control_char(current_pos)
     IN  \/ c = Quote /\ Goes(value_string, p)
         \/ c = "{" /\ control_char(p + 1) \notin {"}", "end"} /\ Goes(<<Do("object")>>, p)
         \/ c = "[" /\ Goes(<<Do("array")>>, p)
         \/ c \notin {Quote, "{", "[", "end"} /\ Goes(<<Do("int")>>, p)
  /\ UNCHANGED <<items, result>>

(* An empty object is made without a call, and its "}" is not consumed.    *)
extract_empty ==
  /\ Runs("value")
  /\ control_char(current_pos) = "{"
  /\ control_char(control_pos(current_pos) + 1) = "}"
  /\ items' = Handed(items, JEmpty)
  /\ Goes(<<>>, control_pos(current_pos) + 1)
  /\ UNCHANGED result

jp_extract_value_int ==
  /\ Runs("int")
  /\ LET end == find_first_of({"}", "]", ","}, current_pos)
     IN  IF end = 0 THEN Throw
         ELSE /\ items' = Handed(items, JValue(SubSeq(Text, current_pos, end - 1)))
              /\ Goes(<<>>, end)
              /\ UNCHANGED result

jp_extract_array ==
  /\ Runs("array")
  /\ items' = Begun("JArray")
  /\ Goes(<<Require("["), Do("first_item")>>, current_pos)
  /\ UNCHANGED result

(* The first character decides what all items of the array are.            *)
first_item ==
  /\ Runs("first_item")
  /\ LET p == control_pos(current_pos)
         c == control_char(current_pos)
     IN  \/ c \in {"{", Quote} /\ Goes(array_item(c), p) /\ UNCHANGED <<items, result>>
         \/ c = "]" /\ Goes(<<Require("]"), Do("return")>>, p) /\ UNCHANGED <<items, result>>
         \/ c \notin {"{", Quote, "]", "end"} /\ Throw

further_item ==
  /\ Runs("further_item")
  /\ \/ /\ control_char(current_pos) = ","
        /\ Goes(array_item(Head(todo).char), after_separator(current_pos))
     \/ /\ control_char(current_pos) \notin {",", "end"}
        /\ Goes(<<Require("]"), Do("return")>>, control_pos(current_pos))
  /\ UNCHANGED <<items, result>>

(* The innermost function returns what it built to its caller.             *)
return_item ==
  /\ Runs("return")
  /\ LET item    == [class |-> Last(items).class, content |-> Last(items).content]
         callers == Front(items)
     IN  IF callers = <<>> THEN items' = <<>> /\ result' = item
         ELSE items' = Handed(callers, item) /\ UNCHANGED result
  /\ Goes(<<>>, current_pos)

Ended == result # Running /\ UNCHANGED vars

Next == \/ jp_check_control_char \/ end_of_text
        \/ jp_extract_string \/ extract_value \/ extract_empty \/ jp_extract_value_int
        \/ jp_extract_object \/ further_member
        \/ jp_extract_array \/ first_item \/ further_item
        \/ return_item
        \/ Ended

Spec == Init /\ [][Next]_vars /\ WF_vars(Next)

(***************************************************************************)
(* Properties.                                                             *)
(***************************************************************************)
(* Exactly the objects and arrays in progress have a call that goes on     *)
(* building them, and the position stays on the text.                      *)
TypeOK ==
  /\ current_pos \in 1 .. Len(Text) + 1
  /\ result.class \in {"running", "exception", "JObject"}
  /\ \A i \in DOMAIN items : items[i].class \in {"JObject", "JArray"} /\ items[i].start \in 1 .. current_pos + 1
  /\ result = Running <=> todo # <<>>
  /\ todo # <<>> => Len(items) = Cardinality({i \in DOMAIN todo : todo[i].op \in
                       {"further_member", "further_item", "first_item", "return"}})

(* A quote that a backslash does not take along: backslashes occur in      *)
(* strings only, and an odd number of them before a quote hides it.        *)
Quotes == {q \in DOMAIN Text : /\ Text[q] = Quote
                               /\ \E k \in 0 .. q - 1 : /\ k % 2 = 0
                                                        /\ \A j \in q - k .. q - 1 : Text[j] = "\\"
                                                        /\ At(q - k - 1) # "\\"}
Outside(p)    == Cardinality({q \in Quotes : q < p}) % 2 = 0
Count(S, a, b) == Cardinality({p \in a .. b : Text[p] \in S /\ Outside(p)})

(* The bracket at b is the one that closes the bracket at a.               *)
Encloses(a, b) ==
  /\ <<Text[a], Text[b]>> \in {<<"{", "}">>, <<"[", "]">>}
  /\ \A p \in a .. b : Count({"{", "["}, a, p) = Count({"}", "]"}, a, p) <=> p = b
EmptyObject == \E p \in DOMAIN Text : At(p) = "{" /\ control_char(p + 1) = "}" /\ Outside(p)

(* "an object must start with { and end with }", "An array must start with *)
(* [ and must end with ]" (json_parser.cpp:33 and 89): a function that     *)
(* returns has consumed exactly the brackets of its item, however deep the *)
(* items in it and whatever the strings hold.  Not so once an empty object *)
(* has been met, or in what is no number, but passes for one, with a quote *)
(* or a bracket that opens in it.                                          *)
ItemsEndWithTheirBracket ==
  [][Len(items') < Len(items) /\ ~EmptyObject => Encloses(Last(items).start, current_pos - 1)]_vars

Understood == INSTANCE Transfer
  WITH document <- input.meaning,
       allowed <- input.valid,
       delivered <- IF result \in {Running, Thrown} THEN <<>> ELSE <<result>>,
       refused <- result = Thrown

(* A JSON text is parsed into what it says, whatever its nesting and its   *)
(* strings, and a text that breaks off or lacks a bracket is refused; the  *)
(* parser always ends.                                                     *)
ImplementsTransfer == Understood!Spec
=============================================================================
