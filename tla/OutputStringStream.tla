------------------------- MODULE OutputStringStream -------------------------
(***************************************************************************)
(* class OutputStringStream of lib/base/output_string_stream.{h,cpp} under *)
(* the calls of the generated decoder.                                     *)
(*                                                                         *)
(* The class keeps no nesting: whether a brace or a comma is due is read   *)
(* off the last command alone.  The nesting is in the call stack of the    *)
(* decoder that code_generator/transcode/complex_types.py generates, which *)
(* is "open" here: a frame for every complex type and list that is being   *)
(* decoded, and one for an element between its start_key and its end_key   *)
(* when nothing else is open in it.                                        *)
(* The text is a sequence of tokens; a member name with its quotes and     *)
(* colon is one token, a value of any of the four add_value is another.    *)
(***************************************************************************)
EXTENDS Integers, Sequences

CONSTANTS
  Keys,             \* element names, which are the JSON member names
  ItemsMayBeEmpty,  \* whether a list item may be a type without any element
  MaxTokens,        \* bound: nothing new is started in a text this long
  MaxDepth          \* bound on the nesting of elements, lists and types

ASSUME ItemsAssumption  == ItemsMayBeEmpty \in BOOLEAN
ASSUME BoundsAssumption == MaxTokens \in Nat /\ MaxDepth \in Nat

VARIABLES
  output_data,    \* the tokens in the string stream
  last_command,   \* commands_t last_command_
  open,           \* the decoder's call stack, innermost frame first
  thrown          \* TRUE once a call has thrown

vars == <<output_data, last_command, open, thrown>>

Scalar   == "scalar"
Commands == {"nocmd", "startkey", "addvalue", "startlist", "nextitem", "endlist", "endkey"}
Types    == {"root", "type", "item"}
Kinds    == Types \cup {"element", "list"}
Contents == {"nothing", "members", "scalar", "list", "type", "empty type"}

(* A frame and what it got so far.  A complex type is the "root" object,   *)
(* the content of an element or an "item" of a list; its members are its   *)
(* elements.                                                               *)
Frame(kind, has) == [kind |-> kind, has |-> has]

Init == /\ output_data = <<>>
        /\ last_command = "nocmd"
        /\ open = <<Frame("root", "nothing")>>
        /\ thrown = FALSE

(***************************************************************************)
(* The operations of the class.                                            *)
(***************************************************************************)
Emit(tokens, command) == /\ output_data' = output_data \o tokens
                         /\ last_command' = command
                         /\ thrown' = thrown

start_key(key) ==
  Emit(IF last_command = "endkey" THEN <<",", key>> ELSE <<"{", key>>, "startkey")

(* Mutant: the object of a key without a value is not written.              *)
end_key_without_object ==
  Emit(IF last_command = "endkey" THEN <<"}">> ELSE <<>>, "endkey")

end_key ==
  Emit(IF last_command = "endkey" THEN <<"}">>
       ELSE IF last_command = "startkey" THEN <<"{", "}">> ELSE <<>>, "endkey")

add_value == Emit(<<Scalar>>, "addvalue")

start_list ==
  IF last_command = "startkey"
  THEN Emit(<<"[">>, "startlist")
  ELSE thrown' = TRUE /\ UNCHANGED <<output_data, last_command>>

(* Mutant: the last command is not recorded.                                *)
next_item_unrecorded ==
  Emit(IF last_command = "endkey" THEN <<"}", ",">>
       ELSE IF last_command = "addvalue" THEN <<",">> ELSE <<>>, last_command)

next_item ==
  Emit(IF last_command = "endkey" THEN <<"}", ",">>
       ELSE IF last_command = "addvalue" THEN <<",">> ELSE <<>>, "nextitem")

end_list ==
  Emit(IF last_command = "endkey" THEN <<"}", "]">> ELSE <<"]">>, "endlist")

(***************************************************************************)
(* The decoder, one action per call it makes on the stream and one per     *)
(* call and return of a complex type's decode function.                    *)
(***************************************************************************)
InA(kinds, has) == ~thrown /\ open # <<>> /\ Head(open).kind \in kinds /\ Head(open).has \in has
Room            == Len(output_data) < MaxTokens /\ Len(open) < MaxDepth

(* The innermost frame is replaced by, or lies below, these frames.        *)
Becomes(frames) == open' = frames \o Tail(open)
Holding(has)    == Frame(Head(open).kind, has)

(* start_key of an element of the type being decoded.                      *)
StartElement(key) ==
  /\ InA(Types, {"nothing", "members"}) /\ Room
  /\ start_key(key)
  /\ Becomes(<<Frame("element", "nothing"), Holding("members")>>)

(* The value of a simple element, or of a simple item of a list.           *)
SimpleValue ==
  /\ InA({"element", "list"}, {"nothing"})
  /\ add_value
  /\ Becomes(<<Holding("scalar")>>)

(* The decode function of a complex type is called for an element or for   *)
(* an item of a list; the call itself writes nothing.                      *)
EnterType ==
  /\ InA({"element", "list"}, {"nothing"}) /\ Room
  /\ IF Head(open).kind = "element"
     THEN Becomes(<<Frame("type", "nothing")>>)
     ELSE Becomes(<<Frame("item", "nothing"), Holding("type")>>)
  /\ UNCHANGED <<output_data, last_command, thrown>>

(* Mutant: an item is closed like the value of an element.                  *)
LeaveTypeAsElement ==
  /\ InA({"type", "item"}, {"nothing", "members"})
  /\ LET has == IF Head(open).has = "members" THEN "type" ELSE "empty type"
     IN  /\ Head(open).kind = "item" /\ has = "empty type" => ItemsMayBeEmpty
         /\ Becomes(<<Frame("element", has)>>)
  /\ UNCHANGED <<output_data, last_command, thrown>>

(* It returns, without members if all its elements are optional and absent. *)
LeaveType ==
  /\ InA({"type", "item"}, {"nothing", "members"})
  /\ LET has == IF Head(open).has = "members" THEN "type" ELSE "empty type"
     IN  IF Head(open).kind = "type"
         THEN Becomes(<<Frame("element", has)>>)
         ELSE /\ has = "empty type" => ItemsMayBeEmpty
              /\ open' = <<Frame("list", has)>> \o Tail(Tail(open))
  /\ UNCHANGED <<output_data, last_command, thrown>>

(* end_key of an element whose value is complete.                          *)
EndElement ==
  /\ InA({"element"}, Contents \ {"nothing"})
  /\ end_key
  /\ open' = Tail(open)

(* Mutant: a list is opened again for each of its items.                    *)
StartListPerItem ==
  /\ InA({"element"}, {"nothing"}) \/ InA({"list"}, {"scalar"})
  /\ Room
  /\ start_list
  /\ Becomes(<<Frame("list", "nothing")>>)

StartList ==
  /\ InA({"element"}, {"nothing"}) /\ Room
  /\ start_list
  /\ Becomes(<<Frame("list", "nothing")>>)

(* Between two items, when the event code read says that another follows;   *)
(* the first item is decoded unconditionally.                               *)
NextItem ==
  /\ InA({"list"}, Contents \ {"nothing"}) /\ Room
  /\ next_item
  /\ Becomes(<<Holding("nothing")>>)

(* Mutant: end_key missing after end_list.                                  *)
EndListWithoutEndKey ==
  /\ InA({"list"}, Contents \ {"nothing"})
  /\ end_list
  /\ open' = Tail(open)

EndList ==
  /\ InA({"list"}, Contents \ {"nothing"})
  /\ end_list
  /\ Becomes(<<Frame("element", "list")>>)

(* The root object's brace.                                                *)
get_full_stream ==
  /\ InA({"root"}, {"members"})
  /\ output_data' = output_data \o <<"}">>
  /\ open' = <<>>
  /\ UNCHANGED <<last_command, thrown>>

-----------------------------------------------------------------------------
Next == \/ \E key \in Keys : StartElement(key)
        \/ SimpleValue \/ EnterType \/ LeaveType \/ EndElement
        \/ StartList \/ NextItem \/ EndList
        \/ get_full_stream

Spec == Init /\ [][Next]_vars
-----------------------------------------------------------------------------
(* What lies below what: the root at the bottom, an item on its list, every *)
(* other frame on the complex type it is a member of.                       *)
LiesOn(upper, lower) ==
  /\ upper.kind # "root"
  /\ IF upper.kind = "item" THEN lower = Frame("list", "type")
     ELSE lower.kind \in Types /\ lower.has = "members"

Nested(frames) ==
  /\ \A i \in 1 .. Len(frames) :
       /\ i = Len(frames) => frames[i].kind = "root"
       /\ i # Len(frames) => LiesOn(frames[i], frames[i + 1])
       /\ frames[i].kind \in Types => frames[i].has \in {"nothing", "members"}
       /\ frames[i].kind \notin Types => frames[i].has # "members"

(* Types of the variables, and the nesting of the frames.                   *)
TypeOK ==
  /\ output_data \in Seq(Keys \cup {"{", "}", "[", "]", ",", Scalar})
  /\ last_command \in Commands
  /\ open \in Seq([kind : Kinds, has : Contents])
  /\ thrown \in BOOLEAN
  /\ Nested(open)

(* The last command tells the class what the innermost frame is waiting     *)
(* for: the one fact that makes a single enum enough to place every brace   *)
(* and comma, at any depth of nesting.                                      *)
CommandsIn(frame) ==
  CASE frame.kind = "root" /\ frame.has = "nothing" -> {"nocmd"}
    [] frame.kind \in {"type", "element"} /\ frame.has \in {"nothing", "empty type"} -> {"startkey"}
    [] frame.kind \in {"item", "list"} /\ frame.has \in {"nothing", "empty type"} -> {"startlist", "nextitem"}
    [] frame.has = "scalar" -> {"addvalue"}
    [] frame.has = "list"   -> {"endlist"}
    [] OTHER                -> {"endkey"}

LastCommandTellsContext == open # <<>> => last_command \in CommandsIn(Head(open))

(* The decoder calls start_list right after start_key only, so that the     *)
(* exception of start_list is never thrown.                                 *)
NeverThrows == ~thrown

(* What the class has not written yet: the brace of an object without       *)
(* members, and the closing brace of one whose decode function returned.    *)
Deferred(frame) ==
  CASE frame.kind \in Types /\ frame.has = "nothing" -> <<"{">>
    [] frame.has = "empty type"                      -> <<"{", "}">>
    [] frame.has = "type"                            -> <<"}">>
    [] OTHER                                         -> <<>>

Context(frame) ==
  CASE frame.kind = "element" -> "value"
    [] frame.kind \in Types   -> IF frame.has = "nothing" THEN "first" ELSE "next"
    [] frame.kind = "list"    -> IF frame.has = "nothing" THEN "item" ELSE "items"

(* An element whose value is complete is no context any more.               *)
Contexts ==
  LET frames == IF InA({"element"}, Contents \ {"nothing"}) THEN Tail(open) ELSE open
  IN  [i \in 1 .. Len(frames) |-> Context(frames[i])]

Text == INSTANCE JsonText WITH
  text <- IF open = <<>> THEN output_data ELSE output_data \o Deferred(Head(open)),
  nest <- Contexts

(* The decoder's text is the JSON text of what it decoded: of the members,  *)
(* values and items it was given, each once, in order and in its place.     *)
ImplementsJsonText == Text!Spec
=============================================================================
