------------------------------ MODULE Transfer ------------------------------
(***************************************************************************)
(* What encoding a value and decoding the result promises: the elements of *)
(* the value arrive, each once, in order, with their contents, and all of  *)
(* them do.  A value the schema does not allow may be refused instead.     *)
(***************************************************************************)
EXTENDS Naturals, Sequences

VARIABLES
  document,   \* the elements of the value, in the order of its type
  allowed,    \* whether the schema allows the value
  delivered,  \* the elements that have arrived
  refused     \* TRUE when the value was refused

vars == <<document, allowed, delivered, refused>>

Init == delivered = <<>> /\ refused = FALSE

Deliver == /\ ~refused
           /\ Len(delivered) < Len(document)
           /\ delivered' = Append(delivered, document[Len(delivered) + 1])
           /\ UNCHANGED <<document, allowed, refused>>

Refuse == /\ ~allowed /\ delivered = <<>>
          /\ refused' = TRUE
          /\ UNCHANGED <<document, allowed, delivered>>

Next == Deliver \/ Refuse

Spec == Init /\ [][Next]_vars /\ WF_vars(Next)
=============================================================================
