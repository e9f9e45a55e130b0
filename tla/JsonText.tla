------------------------------ MODULE JsonText ------------------------------
(***************************************************************************)
(* What a decoded message promises to be: one JSON text.  The grammar of   *)
(* JSON drives the tokens directly, with a stack of what may come next, so *)
(* that every behaviour that ends with an empty stack has written a well-  *)
(* formed object that holds exactly the members, values and items given.   *)
(***************************************************************************)
EXTENDS Sequences

CONSTANT Keys   \* the member names

VARIABLES
  text,   \* the tokens written so far
  nest    \* innermost first: "first" and "next" for an object without and with
          \* members, "value" for a member whose value is due, "item" and "items"
          \* for a list whose item is due and one that has just got an item

vars == <<text, nest>>

Scalar == "scalar"

Init == text = <<"{">> /\ nest = <<"first">>

Top(context)  == nest # <<>> /\ Head(nest) = context
Below         == Tail(nest)
Write(tokens) == text' = text \o tokens

Member(key) == /\ Top("first") \/ Top("next")
               /\ Write(IF Top("next") THEN <<",", key>> ELSE <<key>>)
               /\ nest' = <<"value", "next">> \o Below

(* A value takes the place of the "value" or the "item" that was due.      *)
Given(context) == \/ Top("value") /\ nest' = context \o Below
                  \/ Top("item") /\ nest' = context \o <<"items">> \o Below

PutScalar   == Given(<<>>) /\ Write(<<Scalar>>)
BeginObject == Given(<<"first">>) /\ Write(<<"{">>)
EndObject   == (Top("first") \/ Top("next")) /\ nest' = Below /\ Write(<<"}">>)
BeginList   == Given(<<"item">>) /\ Write(<<"[">>)
NextItem    == Top("items") /\ nest' = <<"item">> \o Below /\ Write(<<",">>)
EndList     == Top("items") /\ nest' = Below /\ Write(<<"]">>)

Next == \/ \E key \in Keys : Member(key)
        \/ PutScalar \/ BeginObject \/ EndObject
        \/ BeginList \/ NextItem \/ EndList

Spec == Init /\ [][Next]_vars
=============================================================================
