------------------------------ MODULE TypeTree ------------------------------
(***************************************************************************)
(* The elements that code_generator/transcode/type_tree.py makes of a      *)
(* complex type of the schema, and which objects the schema allows for it. *)
(*                                                                         *)
(* A type has the components it declares itself and those of the types it  *)
(* extends.  Reading the schema is library code (xmlschema): a component   *)
(* is what iter_components yields for it.  A choice stands once and holds  *)
(* its alternatives, which are elements.                                   *)
(***************************************************************************)
EXTENDS Integers, Sequences, SequencesExt

(***************************************************************************)
(* Components of the schema.                                               *)
(***************************************************************************)
Unbounded == 0   \* maxOccurs="unbounded"

Component(class, name, content, min, max, substitutes, alternatives) ==
  [class |-> class, name |-> name, content |-> content, min |-> min, max |-> max,
   substitutes |-> substitutes, alternatives |-> alternatives]

XsdAttribute(name, required) == Component("attribute", name, "simple", IF required THEN 1 ELSE 0, 1, <<>>, <<>>)
XsdElement(name, content, min, max, substitutes) ==
  Component("element", name, content, min, max, substitutes, <<>>)
XsdAnyElement(min)           == Component("any", "genericname", "any", min, 1, <<>>, <<>>)
XsdChoice(min, alternatives) == Component("choice", "", "", min, 1, <<>>, alternatives)

(* simple_base: the type extends a simple type, which is its text.         *)
XsdType(base, own, simple_base) == [base |-> base, own |-> own, simple_base |-> simple_base]

(***************************************************************************)
(* class Element.  per_base is the number of types with the same base      *)
(* class plus one, or 1 if there is no base class; what is no substitute   *)
(* has none here.                                                          *)
(***************************************************************************)
Element(name, kind, optional, max, subs) ==
  [name |-> name, kind |-> kind, optional |-> optional,
   max |-> IF max = Unbounded THEN 40 ELSE max,
   subs |-> subs, created_from_abstract |-> FALSE, per_base |-> 1]

IsList(e) == e.max > 1

(* get_substitutes: the substitutes of an abstract element and the element *)
(* itself, in the order of their names; none for another element.          *)
IsAbstract(e) == e.subs # <<>>

(***************************************************************************)
(* diveIntoType.                                                           *)
(***************************************************************************)
iter_components(components) ==
  FlattenSeq([i \in DOMAIN components |-> <<components[i]>> \o components[i].alternatives])

(* Mutant: only the component itself says whether it is optional.           *)
optional_itself(all, i) == FALSE

(* The flag as it stands at component i: that of the last choice before.   *)
optional_group(all, i) ==
  LET choices == {j \in 1 .. i - 1 : all[j].class = "choice"}
  IN  choices # {} /\ all[Max(choices)].min = 0

ElementOf(all, i) ==
  LET c == all[i]
  IN  CASE c.class = "choice"    -> <<>>
        [] c.class = "attribute" -> <<Element(c.name, "attribute", c.min = 0, 1, <<>>)>>
        [] c.class = "any"       -> <<Element(c.name, "any", TRUE, 1, <<>>)>>
        [] c.class = "element"   -> <<Element(c.name, c.content, c.min = 0 \/ optional_group(all, i),
                                              c.max, c.substitutes)>>

diveIntoType(components, simple_base) ==
  LET all == iter_components(components)
  IN  FlattenSeq([i \in DOMAIN all |-> ElementOf(all, i)])
        \o (IF simple_base THEN <<Element("value", "attribute", FALSE, 1, <<>>)>> ELSE <<>>)

(* ComplexType.child_elements: those of the base class come first.         *)
child_elements(t) == diveIntoType(t.base, FALSE) \o diveIntoType(t.own, t.simple_base)

(***************************************************************************)
(* The objects the schema allows, in the order of the type: for each       *)
(* element present its name and its number of items, MaxItems at most.  An *)
(* any element is in none of them.                                         *)
(***************************************************************************)
Present(name, items) == <<[name |-> name, items |-> items]>>

Occurrences(c, MaxItems) ==
  LET max == IF c.max = Unbounded THEN MaxItems ELSE c.max
  IN  (IF c.min = 0 THEN {<<>>} ELSE {}) \cup
      (IF c.class = "any" THEN {}
       ELSE IF c.substitutes # <<>> THEN {Present(s, 1) : s \in ToSet(c.substitutes) \ {c.name}}
       ELSE IF c.max = 1 THEN {Present(c.name, 1)}
       ELSE {Present(c.name, n) : n \in {n \in 1 .. MaxItems : c.min <= n /\ n <= max}})

Content(c, MaxItems) ==
  IF c.class # "choice" THEN Occurrences(c, MaxItems)
  ELSE (IF c.min = 0 THEN {<<>>} ELSE {})
         \cup UNION {Occurrences(a, MaxItems) : a \in ToSet(c.alternatives)}

Valid(t, MaxItems) ==
  FoldLeft(LAMBDA objects, c : {o \o content : o \in objects, content \in Content(c, MaxItems)},
           {<<>>}, t.base \o t.own \o (IF t.simple_base THEN <<XsdAttribute("value", TRUE)>> ELSE <<>>))
=============================================================================
