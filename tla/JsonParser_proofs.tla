--------------------------- MODULE JsonParser_proofs ---------------------------
(***************************************************************************)
(* Proofs about JsonParser, whatever the texts: that the calls in progress *)
(* are the ones that go on building the items and the position stays on    *)
(* the text, TypeOK; and that a function that returns has consumed exactly *)
(* the brackets of its item, ItemsEndWithTheirBracket.                     *)
(*                                                                         *)
(* The invariant IInv says what may stand behind a statement in todo       *)
(* (Follows), so that a call that ends is followed by the one that goes on *)
(* building the item around it, and which bracket an item still asks for.  *)
(*                                                                         *)
(* The invariant BInv follows the brackets.  In the text, those that       *)
(* count stand outside of the strings; on the stack, the item at depth i   *)
(* has as many of them open as there are items from it to the innermost    *)
(* one, until its function has consumed the last of them and is about to   *)
(* return.                                                                 *)
(***************************************************************************)
EXTENDS JsonParser, Induction, SequenceTheorems, FiniteSetTheorems, TLAPS

(* The statements that go on building an item.                             *)
Marker == {"further_member", "further_item", "first_item", "return"}

Chars     == {"", Quote, ":", "{", "}", "[", "]"}
Statement == [op : {"object", "key", "value", "string", "int", "array", "jp_check_control_char"} \cup Marker,
              char : Chars]

(* What may come after a statement in todo.                                *)
Follows(a, b) ==
  \/ a = Require("{") /\ b = Require(Quote)
  \/ a = Require(Quote) /\ b.op \in {"key", "string"}
  \/ a.op = "key" /\ b = Require(":")
  \/ a = Require(":") /\ b.op = "value"
  \/ a.op \in {"value", "int", "array"} /\ b.op = "further_member"
  \/ a.op \in {"string", "object"} /\ b.op \in {"further_member", "further_item"}
  \/ a = Require("[") /\ b.op = "first_item"
  \/ a \in {Require("}"), Require("]")} /\ b.op = "return"
  \/ a.op \in Marker /\ b.op \in {"further_member", "further_item"}

(* Which calls build an item of the class.                                 *)
Builds(op, class) == IF class = "JObject" THEN op \in {"further_member", "return"}
                     ELSE op \in {"first_item", "further_item", "return"}

(* The brackets of the class.                                              *)
Opening(class) == IF class = "JObject" THEN "{" ELSE "["
Closing(class) == IF class = "JObject" THEN "}" ELSE "]"

(* The calls in progress: above those that build the n items, innermost    *)
(* first, are the statements that the innermost of them still has to run.  *)
WellNested(t, its) ==
  /\ Len(its) <= Len(t)
  /\ \A j \in DOMAIN t : t[j].op \in Marker <=> j > Len(t) - Len(its)
  /\ \A j \in 1 .. Len(t) - 1 : Follows(t[j], t[j + 1])
  /\ \A i \in DOMAIN its : Builds(t[Len(t) + 1 - i].op, its[i].class)
  /\ its = <<>> => t = <<Do("object")>>
  /\ \A j \in DOMAIN t : t[j] \in {Require("{"), Require("}"), Require("["), Require("]")} =>
       /\ its # <<>>
       /\ t[j] \in {Require(Opening(its[Len(its)].class)), Require(Closing(its[Len(its)].class))}

(* An object or an array that is being built.                              *)
IsItem(x) ==
  /\ x.class \in {"JObject", "JArray"}
  /\ x.start \in Nat
  /\ \E content, key : x = [class |-> x.class, content |-> content, key |-> key, start |-> x.start]

IsSequence(s) == \E S : s \in Seq(S)

IInv ==
  /\ input \in Inputs
  /\ current_pos \in 1 .. Len(Text) + 1
  /\ todo \in Seq(Statement)
  /\ IsSequence(items)
  /\ \A i \in DOMAIN items : IsItem(items[i]) /\ items[i].start \in 1 .. current_pos + 1
  /\ items # <<>> => items[1].class = "JObject"
  /\ result.class \in {"running", "exception", "JObject"}
  /\ result = Running <=> todo # <<>>
  /\ todo # <<>> => WellNested(todo, items)

(* SMT is not given the string of a quote, so what differs from it is said *)
(* here.                                                                   *)
LEMMA QuoteIsNoOther ==
  Quote \notin {"\\", " ", ":", ",", "{", "}", "[", "]", "end"}
  BY Zenon DEF Quote

(***************************************************************************)
(* The text.                                                               *)
(***************************************************************************)
(* A position is on the text exactly if it has a character.                *)
LEMMA Characters ==
  ASSUME input \in Inputs
  PROVE  /\ Text \in Seq(STRING \ {"end"})
         /\ Len(Text) \in Nat /\ DOMAIN Text = 1 .. Len(Text)
         /\ \A p : At(p) # "end" <=> p \in DOMAIN Text
         /\ \A p \in DOMAIN Text : At(p) = Text[p]
<1>1. Text \in Seq(STRING \ {"end"})
  BY InputsAssumption DEF Text
<1>2. Len(Text) \in Nat /\ DOMAIN Text = 1 .. Len(Text)
  BY <1>1
<1>3. \A p \in DOMAIN Text : Text[p] # "end"
  BY <1>1
<1> QED
  BY <1>1, <1>2, <1>3 DEF At

(* One space at most is skipped.                                           *)
LEMMA ControlPositions ==
  ASSUME input \in Inputs, NEW p \in Nat \ {0}
  PROVE  /\ control_pos(p) \in {p, p + 1}
         /\ control_pos(p) = p + 1 => p \in DOMAIN Text /\ At(p) = " "
         /\ control_pos(p) = p => At(p) # " "
         /\ control_char(p) # "end" => control_pos(p) \in DOMAIN Text
         /\ control_char(p) = At(control_pos(p))
<1>1. At(control_pos(p)) # "end" <=> control_pos(p) \in DOMAIN Text
  BY Characters
<1>2. At(p) = " " => p \in DOMAIN Text
  BY Characters
<1>3. control_char(p) = At(control_pos(p))
  BY DEF control_char
<1>4. control_pos(p) = IF At(p) = " " THEN p + 1 ELSE p
  BY DEF control_pos
<1>5. p + 1 # p
  OBVIOUS
<1> QED
  BY <1>1, <1>2, <1>3, <1>4, <1>5

(* find_first_of returns the first position, if there is one.              *)
LEMMA FindFirstOf ==
  ASSUME input \in Inputs, NEW chars, NEW p \in Int
  PROVE  LET found == find_first_of(chars, p)
         IN  \/ /\ found = 0
                /\ \A q \in 1 .. Len(Text) : q >= p => Text[q] \notin chars
             \/ /\ found \in 1 .. Len(Text) /\ found >= p /\ Text[found] \in chars
                /\ \A q \in 1 .. Len(Text) : q >= p /\ q < found => Text[q] \notin chars
<1> DEFINE all == {q \in DOMAIN Text : q >= p /\ Text[q] \in chars}
<1>1. DOMAIN Text = 1 .. Len(Text) /\ DOMAIN Text \subseteq Nat
  BY Characters
<1>2. CASE all = {}
  <2>1. find_first_of(chars, p) = 0
    BY <1>2 DEF find_first_of
  <2>2. \A q \in DOMAIN Text : q >= p => Text[q] \notin chars
    BY <1>2
  <2> QED
    BY <2>1, <2>2
<1>3. CASE all # {}
  <2>1. all \subseteq Nat
    BY <1>1
  <2>2. \E n \in all : \A m \in all : n <= m
    <3> HIDE DEF all
    <3> QED BY <1>3, <2>1, LeastNumber
  <2>3. find_first_of(chars, p) = Min(all)
    BY <1>3 DEF find_first_of
  <2>4. Min(all) \in all /\ \A m \in all : Min(all) <= m
    <3> HIDE DEF all
    <3> QED BY <2>2 DEF Min
  <2>5. ASSUME NEW q \in DOMAIN Text, q >= p, q < Min(all) PROVE Text[q] \notin chars
    <3>1. q \notin all
      <4>1. Min(all) \in Nat /\ q \in Nat
        BY <2>1, <2>4, <1>1
      <4> HIDE DEF all
      <4> QED BY <2>4, <2>5, <4>1
    <3> QED
      BY <2>5, <3>1
  <2>6. Min(all) \in DOMAIN Text /\ Min(all) >= p /\ Text[Min(all)] \in chars
    BY <2>4
  <2> HIDE DEF all
  <2> QED
    BY <2>3, <2>5, <2>6
<1> QED
  BY <1>1, <1>2, <1>3

(* closing_quote is defined by recursion from the end of the text.         *)
Scan(end, p) ==
  [q \in p .. Len(Text) + 2 |->
     LET found == find_first_of({Quote, "\\"}, q)
     IN  IF found # 0 /\ Text[found] = "\\" THEN end[found + 2] ELSE found]

(* There is such a function: by induction from the end of the text.        *)
LEMMA ScanExists ==
  ASSUME input \in Inputs, NEW p \in Nat
  PROVE  \E end : end = Scan(end, p)
<1> DEFINE From(n) == Len(Text) + 3 - n
           S == {n \in Nat : \E end : end = Scan(end, From(n))}
<1>0. Len(Text) \in Nat
  BY Characters
<1>1. 0 \in S
  <2> DEFINE none == [q \in From(0) .. Len(Text) + 2 |-> 0]
  <2>1. From(0) .. Len(Text) + 2 = {}
    BY <1>0
  <2>2. none = Scan(none, From(0))
    BY <2>1 DEF Scan
  <2> QED
    BY <2>2
<1>2. ASSUME NEW n \in Nat, n \in S PROVE n + 1 \in S
  <2>1. PICK end : end = Scan(end, From(n))
    BY <1>2
  <2> DEFINE first == From(n + 1)
             Found(q) == find_first_of({Quote, "\\"}, q)
             Value(g, q) == IF Found(q) # 0 /\ Text[Found(q)] = "\\" THEN g[Found(q) + 2] ELSE Found(q)
             longer == [q \in first .. Len(Text) + 2 |-> IF q = first THEN Value(end, q) ELSE end[q]]
  <2>2. first \in Int /\ From(n) = first + 1 /\ first <= Len(Text) + 2
    BY <1>0
  <2>3. ASSUME NEW q \in first .. Len(Text) + 2 PROVE longer[q] = Value(longer, q)
    <3>1. ASSUME NEW r \in From(n) .. Len(Text) + 2 PROVE longer[r] = end[r]
      <4>1. r \in first .. Len(Text) + 2 /\ r # first
        <5> HIDE DEF From, first
        <5> QED BY <2>2, <1>0
      <4> HIDE DEF first
      <4> QED
        BY <4>1
    <3>2. Found(q) # 0 => Found(q) + 2 \in From(n) .. Len(Text) + 2
      <4>1. q \in Int
        BY <2>2, <1>0
      <4>2. Found(q) = 0 \/ (Found(q) \in DOMAIN Text /\ Found(q) >= q)
        BY <4>1, FindFirstOf, Characters
      <4>3. q >= first /\ DOMAIN Text = 1 .. Len(Text)
        BY <4>1, Characters
      <4> HIDE DEF Found, first, From, longer
      <4> QED
        BY <4>1, <4>2, <4>3, <2>2, <1>0
    <3>3. Value(longer, q) = Value(end, q)
      <4> HIDE DEF longer, Found
      <4> QED BY <3>1, <3>2
    <3>4. CASE q = first
      <4>1. longer[q] = Value(end, q)
        BY <3>4
      <4> QED BY <3>3, <4>1
    <3>5. CASE q # first
      <4>1. q \in From(n) .. Len(Text) + 2
        BY <2>2, <1>0, <3>5
      <4>2. end[q] = Value(end, q)
        BY <2>1, <4>1 DEF Scan
      <4>3. longer[q] = end[q]
        BY <3>1, <4>1
      <4> QED BY <3>3, <4>2, <4>3
    <3> QED
      BY <3>4, <3>5
  <2>4. longer = Scan(longer, first)
    <3>1. longer = [q \in first .. Len(Text) + 2 |-> longer[q]]
      OBVIOUS
    <3> HIDE DEF longer
    <3>2. [q \in first .. Len(Text) + 2 |-> longer[q]] = [q \in first .. Len(Text) + 2 |-> Value(longer, q)]
      BY <2>3
    <3> QED
      BY <3>1, <3>2 DEF Scan
  <2>5. \E g : g = Scan(g, From(n + 1))
    BY <2>4
  <2> HIDE DEF From
  <2> QED
    BY <2>5
<1>3. \A n \in Nat : n \in S
  <2> HIDE DEF S
  <2> QED BY <1>1, <1>2, Induction
<1>4. CASE p <= Len(Text) + 3
  <2>1. Len(Text) + 3 - p \in Nat /\ From(Len(Text) + 3 - p) = p
    BY <1>0, <1>4
  <2>2. Len(Text) + 3 - p \in S
    BY <1>3, <2>1
  <2> QED
    BY <2>1, <2>2
<1>5. CASE p > Len(Text) + 3
  <2> DEFINE none == [q \in p .. Len(Text) + 2 |-> 0]
  <2>1. p .. Len(Text) + 2 = {}
    BY <1>0, <1>5
  <2>2. none = Scan(none, p)
    BY <2>1 DEF Scan
  <2> QED
    BY <2>2
<1> QED
  BY <1>0, <1>4, <1>5

(* An even number of backslashes, maybe none, stands before q.             *)
Plain(q) == \E k \in 0 .. q - 1 : /\ k % 2 = 0
                                  /\ \A j \in q - k .. q - 1 : Text[j] = "\\"
                                  /\ At(q - k - 1) # "\\"

(* No odd number of backslashes stands before the character after another  *)
(* one.                                                                    *)
LEMMA PlainAfterOther ==
  ASSUME NEW q \in Nat \ {0}, At(q - 1) # "\\"
  PROVE  Plain(q)
<1>1. 0 \in 0 .. q - 1 /\ 0 % 2 = 0 /\ q - 0 - 1 = q - 1 /\ q - 0 .. q - 1 = {}
  OBVIOUS
<1> QED
  BY <1>1 DEF Plain

(* A backslash takes the next character along, but not the one behind it.  *)
LEMMA BackslashHides ==
  ASSUME input \in Inputs, NEW q \in 1 .. Len(Text), Plain(q), Text[q] = "\\"
  PROVE  ~Plain(q + 1) /\ Plain(q + 2)
<1>0. q \in Nat \ {0} /\ DOMAIN Text = 1 .. Len(Text) /\ Len(Text) \in Nat
  BY Characters
<1>1. PICK k \in 0 .. q - 1 : /\ k % 2 = 0
                              /\ \A j \in q - k .. q - 1 : Text[j] = "\\"
                              /\ At(q - k - 1) # "\\"
  BY DEF Plain
<1>2. k \in Nat
  BY <1>0
<1>3. ASSUME NEW m \in 0 .. q, m % 2 = 0, \A j \in q + 1 - m .. q : Text[j] = "\\", At(q - m) # "\\"
      PROVE  FALSE
  <2>1. m \in Nat
    BY <1>0
  <2>2. m # k + 1
    BY <1>1, <1>2, <1>3, <2>1
  <2>3. At(q) = "\\"
    BY Characters
  <2>4. m # 0
    BY <1>0, <1>3, <2>3
  <2>5. CASE m < k + 1
    <3>1. q - m \in q - k .. q - 1 /\ q - m \in 1 .. Len(Text)
      BY <1>0, <1>2, <2>1, <2>4, <2>5
    <3>2. At(q - m) = Text[q - m]
      BY <3>1, Characters
    <3> QED
      BY <1>1, <1>3, <3>1, <3>2
  <2>6. CASE m > k + 1
    <3>1. q - k - 1 \in q + 1 - m .. q /\ q - k - 1 \in 1 .. Len(Text)
      BY <1>0, <1>2, <2>1, <2>6
    <3>2. At(q - k - 1) = Text[q - k - 1]
      BY <3>1, Characters
    <3> QED
      BY <1>1, <1>3, <3>1, <3>2
  <2> QED
    BY <1>2, <2>1, <2>2, <2>5, <2>6
<1>4. ~Plain(q + 1)
  <2> SUFFICES ASSUME Plain(q + 1) PROVE FALSE
    OBVIOUS
  <2>1. PICK m \in 0 .. q + 1 - 1 : /\ m % 2 = 0
                                    /\ \A j \in q + 1 - m .. q + 1 - 1 : Text[j] = "\\"
                                    /\ At(q + 1 - m - 1) # "\\"
    BY DEF Plain
  <2>2. q + 1 - 1 = q /\ q + 1 - m - 1 = q - m
    BY <1>0
  <2> QED
    BY <1>3, <2>1, <2>2
<1>5. Plain(q + 2)
  <2>1. CASE At(q + 1) # "\\"
    <3>1. q + 2 \in Nat \ {0} /\ q + 2 - 1 = q + 1
      BY <1>0
    <3> QED
      BY <2>1, <3>1, PlainAfterOther
  <2>2. CASE At(q + 1) = "\\"
    <3>1. q + 1 \in 1 .. Len(Text) /\ Text[q + 1] = "\\"
      BY <2>2, Characters
    <3>2. k + 2 \in 0 .. q + 2 - 1 /\ (k + 2) % 2 = 0 /\ q + 2 - (k + 2) - 1 = q - k - 1
      BY <1>0, <1>1, <1>2
    <3>3. ASSUME NEW j \in q + 2 - (k + 2) .. q + 2 - 1 PROVE Text[j] = "\\"
      <4>1. j \in q - k .. q - 1 \/ j = q \/ j = q + 1
        BY <1>0, <1>2
      <4> QED
        BY <1>1, <3>1, <4>1
    <3>4. \E m \in 0 .. q + 2 - 1 : /\ m % 2 = 0
                                    /\ \A j \in q + 2 - m .. q + 2 - 1 : Text[j] = "\\"
                                    /\ At(q + 2 - m - 1) # "\\"
      BY <1>1, <3>2, <3>3, Zenon
    <3> QED
      BY <3>4 DEF Plain
  <2> QED
    BY <2>1, <2>2
<1> QED
  BY <1>4, <1>5

(* The quote found is the first one that no backslash takes along, if the  *)
(* search does not start behind such a backslash.                          *)
LEMMA ClosingQuote ==
  ASSUME input \in Inputs, NEW p \in Nat \ {0}, p <= Len(Text) + 2
  PROVE  LET quote == closing_quote(p)
         IN  /\ quote = 0 \/ (quote \in 1 .. Len(Text) /\ quote >= p /\ Text[quote] = Quote)
             /\ Plain(p) => /\ quote = 0 \/ quote \in Quotes
                            /\ \A r \in Quotes : r >= p => quote # 0 /\ quote <= r
<1> DEFINE end == CHOOSE g : g = Scan(g, p)
           Ends(q, e) ==
             /\ e = 0 \/ (e \in 1 .. Len(Text) /\ e >= q /\ Text[e] = Quote)
             /\ Plain(q) => /\ e = 0 \/ e \in Quotes
                            /\ \A r \in Quotes : r >= q => e # 0 /\ e <= r
           S == {n \in Nat : \A q \in p .. Len(Text) + 2 : Len(Text) + 2 - q < n => Ends(q, end[q])}
<1>0. Len(Text) \in Nat /\ DOMAIN Text = 1 .. Len(Text)
  BY Characters
<1>d. Quote # "\\"
  BY QuoteIsNoOther
<1>1. end = Scan(end, p)
  BY ScanExists
<1>2. closing_quote(p) = end[p]
  BY DEF closing_quote, Scan
<1>q. \A r : r \in Quotes <=> r \in 1 .. Len(Text) /\ Text[r] = Quote /\ Plain(r)
  BY DEF Quotes, Plain
<1> HIDE DEF end
<1>3. 0 \in S
  BY <1>0
<1>4. ASSUME NEW n \in Nat, n \in S PROVE n + 1 \in S
  <2> SUFFICES ASSUME NEW q \in p .. Len(Text) + 2, Len(Text) + 2 - q < n + 1
               PROVE  Ends(q, end[q])
    BY DEF Ends
  <2> DEFINE found == find_first_of({Quote, "\\"}, q)
  <2>1. q \in Nat \ {0}
    BY <1>0
  <2>2. end[q] = IF found # 0 /\ Text[found] = "\\" THEN end[found + 2] ELSE found
    BY <1>1 DEF Scan
  <2>3. \/ /\ found = 0
           /\ \A r \in 1 .. Len(Text) : r >= q => Text[r] \notin {Quote, "\\"}
        \/ /\ found \in 1 .. Len(Text) /\ found >= q /\ Text[found] \in {Quote, "\\"}
           /\ \A r \in 1 .. Len(Text) : r >= q /\ r < found => Text[r] \notin {Quote, "\\"}
    BY <2>1, FindFirstOf
  <2> HIDE DEF found
  <2>4. CASE found = 0
    <3>1. \A r \in 1 .. Len(Text) : r >= q => Text[r] # Quote
      BY <1>0, <2>3, <2>4
    <3> QED
      BY <1>q, <2>2, <2>4, <3>1
  <2>5. ASSUME found # 0 PROVE found \in 1 .. Len(Text) /\ found \in Nat \ {0} /\ (Plain(q) => Plain(found))
    <3>1. found \in 1 .. Len(Text) /\ found \in Nat \ {0} /\ found >= q
      BY <1>0, <2>3, <2>5
    <3>2. CASE found = q
      BY <3>1, <3>2
    <3>3. CASE found > q
      <4>1. found - 1 \in 1 .. Len(Text) /\ found - 1 >= q /\ found - 1 < found
        BY <1>0, <2>1, <3>1, <3>3
      <4>2. Text[found - 1] # "\\"
        BY <2>3, <2>5, <4>1
      <4>3. At(found - 1) # "\\"
        BY <4>1, <4>2, Characters
      <4> QED
        BY <3>1, <4>3, PlainAfterOther
    <3> QED
      BY <2>1, <3>1, <3>2, <3>3
  <2>6. CASE found # 0 /\ Text[found] # "\\"
    <3>1. end[q] = found /\ Text[found] = Quote /\ found \in 1 .. Len(Text) /\ found >= q
      BY <2>2, <2>3, <2>6
    <3>2. ASSUME NEW r \in Quotes, r >= q PROVE found <= r
      <4>1. r \in 1 .. Len(Text) /\ Text[r] = Quote /\ r \in Nat
        BY <1>0, <1>q
      <4>2. ~(r < found)
        BY <2>3, <2>6, <3>2, <4>1
      <4> QED
        BY <2>5, <2>6, <4>1, <4>2
    <3>3. Plain(q) => found \in Quotes
      BY <1>q, <2>5, <2>6, <3>1
    <3> QED
      BY <2>6, <3>1, <3>2, <3>3
  <2>7. CASE found # 0 /\ Text[found] = "\\"
    <3>0. found \in 1 .. Len(Text) /\ found \in Nat /\ found >= q
      BY <2>3, <2>5, <2>7
    <3>1. end[q] = end[found + 2]
      BY <2>2, <2>7
    <3>2. found + 2 \in p .. Len(Text) + 2 /\ Len(Text) + 2 - (found + 2) < n
      BY <1>0, <2>1, <3>0
    <3>3. Ends(found + 2, end[found + 2])
      <4>1. \A x \in p .. Len(Text) + 2 : Len(Text) + 2 - x < n => Ends(x, end[x])
        BY <1>4
      <4> HIDE DEF Ends
      <4> QED BY <3>2, <4>1
    <3>4. Plain(q) => ~Plain(found + 1) /\ Plain(found + 2)
      BY <2>5, <2>7, BackslashHides
    <3>5. ASSUME Plain(q), NEW r \in Quotes, r >= q PROVE r >= found + 2
      <4>1. r \in 1 .. Len(Text) /\ Text[r] = Quote /\ Plain(r) /\ r \in Nat
        BY <1>0, <1>q
      <4>2. ~(r < found)
        BY <2>3, <2>7, <3>5, <4>1
      <4>3. r # found
        BY <1>d, <2>7, <4>1
      <4>4. r # found + 1
        BY <3>4, <3>5, <4>1
      <4> QED
        BY <3>0, <4>1, <4>2, <4>3, <4>4
    <3>6. end[q] = 0 \/ (end[q] \in 1 .. Len(Text) /\ end[q] >= q /\ Text[end[q]] = Quote)
      BY <1>0, <2>1, <3>0, <3>1, <3>3
    <3>7. ASSUME Plain(q)
          PROVE  /\ end[q] = 0 \/ end[q] \in Quotes
                 /\ \A r \in Quotes : r >= q => end[q] # 0 /\ end[q] <= r
      BY <3>1, <3>3, <3>4, <3>5, <3>7
    <3> QED
      BY <3>6, <3>7
  <2> QED
    BY <2>4, <2>6, <2>7
<1>5. \A n \in Nat : n \in S
  <2> HIDE DEF S
  <2> QED BY <1>3, <1>4, Induction
<1>6. Ends(p, end[p])
  <2>1. p \in p .. Len(Text) + 2 /\ Len(Text) + 2 - p < Len(Text) + 3 /\ Len(Text) + 3 \in Nat
    BY <1>0
  <2>2. Len(Text) + 3 \in S
    BY <1>5, <2>1
  <2> HIDE DEF Ends
  <2> QED
    BY <2>1, <2>2
<1> QED
  BY <1>2, <1>6

(***************************************************************************)
(* The calls in progress.                                                  *)
(***************************************************************************)
(* Of a statement that has run, statements s may take the place.           *)
LEMMA InPlaceOfHead ==
  ASSUME NEW t \in Seq(Statement), t # <<>>, NEW s \in Seq(Statement)
  PROVE  /\ s \o Tail(t) \in Seq(Statement)
         /\ Len(s \o Tail(t)) = Len(s) + Len(t) - 1
         /\ \A j \in 1 .. Len(s) : (s \o Tail(t))[j] = s[j]
         /\ \A j \in Len(s) + 1 .. Len(s) + Len(t) - 1 : (s \o Tail(t))[j] = t[j - Len(s) + 1]
<1>1. Tail(t) \in Seq(Statement) /\ Len(Tail(t)) = Len(t) - 1
      /\ \A j \in 1 .. Len(t) - 1 : Tail(t)[j] = t[j + 1]
  BY HeadTailProperties
<1>2. Len(s) \in Nat /\ Len(t) \in Nat /\ Len(t) > 0
  BY EmptySeq, LenProperties
<1>3. s \o Tail(t) \in Seq(Statement)
  BY <1>1, ConcatProperties
<1>4. Len(s \o Tail(t)) = Len(s) + Len(t) - 1
  BY <1>1, <1>2, ConcatProperties
<1>5. ASSUME NEW j \in 1 .. Len(s) PROVE (s \o Tail(t))[j] = s[j]
  BY <1>1, <1>2
<1>6. ASSUME NEW j \in Len(s) + 1 .. Len(s) + Len(t) - 1 PROVE (s \o Tail(t))[j] = t[j - Len(s) + 1]
  <2>1. (s \o Tail(t))[j] = Tail(t)[j - Len(s)]
    BY <1>1, <1>2
  <2>2. j - Len(s) \in 1 .. Len(t) - 1
    BY <1>2
  <2> QED
    BY <1>1, <2>1, <2>2
<1> QED
  BY <1>3, <1>4, <1>5, <1>6

Brackets == {Require("{"), Require("}"), Require("["), Require("]")}
BracketOf(class) == {Require(Opening(class)), Require(Closing(class))}

(* A bracket is required first or not at all.                              *)
LEMMA NothingBeforeABracket ==
  ASSUME NEW a, NEW b, Follows(a, b)
  PROVE  b \notin Brackets
<1>1. \A c : Require(c).op = "jp_check_control_char" /\ Require(c).char = c
  BY DEF Require
<1>2. Quote \notin {"{", "}", "[", "]"}
  BY QuoteIsNoOther
<1>3. b \in Brackets => b.op = "jp_check_control_char" /\ b.char \in {"{", "}", "[", "]"}
  BY <1>1 DEF Brackets
<1>4. b = Require(Quote) \/ b = Require(":") \/ b.op # "jp_check_control_char"
  BY DEF Follows, Marker
<1> QED
  BY <1>1, <1>2, <1>3, <1>4

(* The statements s of a function that builds an item of the class; m is 1 *)
(* if the last of them goes on building it.                                *)
Block(s, m, class) ==
  /\ s \in Seq(Statement)
  /\ \A j \in 1 .. Len(s) : s[j].op \in Marker <=> j > Len(s) - m
  /\ \A j \in 1 .. Len(s) - 1 : Follows(s[j], s[j + 1])
  /\ m = 1 => Len(s) > 0 /\ Builds(s[Len(s)].op, class)
  /\ \A j \in 1 .. Len(s) : s[j] \in Brackets => s[j] \in BracketOf(class)

(* its and its2 are the items before and after the step.                   *)
LEMMA StaysNested ==
  ASSUME NEW t \in Seq(Statement), t # <<>>, NEW s, NEW m \in {0, 1},
         NEW its, IsSequence(its), NEW its2, IsSequence(its2),
         WellNested(t, its),
         t[1].op \in Marker => Len(its2) = Len(its) + m - 1,
         t[1].op \notin Marker => Len(its2) = Len(its) + m,
         \A i \in 1 .. Len(its2) : i <= Len(its) => its2[i].class = its[i].class,
         Block(s, m, its2[Len(its2)].class),
         Len(s) > 0 /\ Len(t) > 1 => Follows(s[Len(s)], t[2]),
         its2 # <<>>
  PROVE  WellNested(s \o Tail(t), its2)
<1> DEFINE u == s \o Tail(t)
           n == Len(its)
           n2 == Len(its2)
           ls == Len(s)
           lt == Len(t)
           lu == Len(u)
<1>1. /\ u \in Seq(Statement) /\ lu = ls + lt - 1
      /\ \A j \in 1 .. ls : u[j] = s[j]
      /\ \A j \in ls + 1 .. ls + lt - 1 : u[j] = t[j - ls + 1]
  BY InPlaceOfHead DEF Block
<1>2. /\ ls \in Nat /\ lt \in Nat \ {0} /\ n \in Nat /\ n2 \in Nat \ {0} /\ lu \in Nat /\ m \in Nat
      /\ DOMAIN its = 1 .. n /\ DOMAIN its2 = 1 .. n2 /\ DOMAIN u = 1 .. lu /\ DOMAIN t = 1 .. lt
  <2>1. ls \in Nat /\ lt \in Nat \ {0} /\ m \in Nat /\ DOMAIN t = 1 .. lt
    BY EmptySeq, LenProperties DEF Block
  <2>2. n \in Nat /\ DOMAIN its = 1 .. n
    BY LenProperties DEF IsSequence
  <2>3. n2 \in Nat \ {0} /\ DOMAIN its2 = 1 .. n2
    BY EmptySeq, LenProperties DEF IsSequence
  <2>4. lu \in Nat /\ DOMAIN u = 1 .. lu
    <3> HIDE DEF u
    <3> QED BY <1>1, LenProperties
  <2> QED
    BY <2>1, <2>2, <2>3, <2>4
<1>3. /\ n <= lt
      /\ \A j \in 1 .. lt : t[j].op \in Marker <=> j > lt - n
      /\ \A j \in 1 .. lt - 1 : Follows(t[j], t[j + 1])
      /\ \A i \in 1 .. n : Builds(t[lt + 1 - i].op, its[i].class)
  BY <1>2 DEF WellNested
<1>h. /\ t[1].op \in Marker => n2 = n + m - 1
      /\ t[1].op \notin Marker => n2 = n + m
      /\ \A i \in 1 .. n2 : i <= n => its2[i].class = its[i].class
      /\ \A j \in 1 .. ls : s[j].op \in Marker <=> j > ls - m
      /\ \A j \in 1 .. ls - 1 : Follows(s[j], s[j + 1])
      /\ ls > 0 /\ lt > 1 => Follows(s[ls], t[2])
      /\ m = 1 => ls > 0 /\ Builds(s[ls].op, its2[n2].class)
      /\ \A j \in 1 .. ls : s[j] \in Brackets => s[j] \in BracketOf(its2[n2].class)
  BY DEF Block
<1> HIDE DEF u, n, n2, ls, lt, lu
<1>t. ASSUME NEW j \in Int, NEW k \in 2 .. lt, j = ls + k - 1 PROVE u[j] = t[k]
  <2>1. j \in ls + 1 .. ls + lt - 1 /\ j - ls + 1 = k
    <3>1. k \in Nat /\ k >= 2 /\ k <= lt /\ ls \in Nat /\ lt \in Nat
      BY <1>2
    <3> QED
      BY <1>t, <3>1
  <2> QED
    BY <1>1, <2>1
<1>5. (t[1].op \in Marker => n = lt) /\ (t[1].op \notin Marker => n < lt)
  <2>1. 1 \in 1 .. lt
    BY <1>2
  <2>2. t[1].op \in Marker <=> 1 > lt - n
    BY <1>3, <2>1
  <2> QED
    BY <1>2, <1>3, <2>2
<1>4. t[1].op \notin Marker /\ m = 1 => lt = n + 1
  <2> SUFFICES ASSUME t[1].op \notin Marker, m = 1, lt > 1 PROVE lt = n + 1
    BY <1>2, <1>5
  <2>1. s[ls].op \in Marker
    <3>1. ls \in 1 .. ls /\ ls > ls - m
      BY <1>2, <1>h
    <3> QED
      BY <1>h, <3>1
  <2>2. Follows(s[ls], t[2])
    BY <1>h
  <2>3. t[2].op \in Marker
    <3>1. \A c : Require(c).op \notin Marker
      BY DEF Require, Marker
    <3>2. s[ls] \notin {Require("{"), Require(Quote), Require(":"), Require("["), Require("}"), Require("]")}
      BY <2>1, <3>1
    <3> QED
      BY <2>1, <2>2, <3>2 DEF Follows, Marker
  <2>4. 2 > lt - n
    <3>1. 2 \in 1 .. lt
      BY <1>2
    <3> QED
      BY <1>3, <2>3, <3>1
  <2> QED
    BY <1>2, <1>5, <2>4
<1>6. m = 1 => ls > 0 /\ n2 = lu - ls + 1
  BY <1>1, <1>2, <1>4, <1>5, <1>h
<1>7. n2 <= lu
  BY <1>1, <1>2, <1>4, <1>5, <1>h
<1>8. ASSUME NEW j \in 1 .. lu PROVE u[j].op \in Marker <=> j > lu - n2
  <2>0. j \in Nat
    BY <1>2
  <2>1. CASE j \in 1 .. ls
    <3>1. u[j].op \in Marker <=> j > ls - m
      BY <1>1, <1>h, <2>1
    <3>2. j > ls - m <=> j > lu - n2
      BY <1>1, <1>2, <1>4, <1>5, <1>h, <2>0, <2>1
    <3> QED
      BY <3>1, <3>2
  <2>2. CASE j \notin 1 .. ls
    <3>1. j - ls + 1 \in 2 .. lt /\ u[j] = t[j - ls + 1]
      BY <1>1, <1>2, <2>0, <2>2
    <3>2. u[j].op \in Marker <=> j - ls + 1 > lt - n
      BY <1>2, <1>3, <3>1
    <3>3. j - ls + 1 > lt - n <=> j > lu - n2
      BY <1>1, <1>2, <1>4, <1>5, <1>h, <2>0, <2>2
    <3> QED
      BY <3>2, <3>3
  <2> QED
    BY <2>1, <2>2
<1>9. ASSUME NEW j \in 1 .. lu - 1 PROVE Follows(u[j], u[j + 1])
  <2>0. j \in Nat
    BY <1>2
  <2>1. CASE j \in 1 .. ls - 1
    <3>1. j \in 1 .. ls /\ j + 1 \in 1 .. ls
      BY <1>2, <2>0, <2>1
    <3> QED
      BY <1>1, <1>h, <2>1, <3>1
  <2>2. CASE j = ls
    <3>1. ls \in 1 .. ls /\ ls > 0 /\ lt > 1 /\ ls + 1 \in ls + 1 .. ls + lt - 1 /\ ls + 1 - ls + 1 = 2
      BY <1>1, <1>2, <2>0, <2>2
    <3>2. u[ls + 1] = t[2]
      BY <1>2, <1>t, <3>1
    <3>3. u[ls] = s[ls]
      BY <1>1, <3>1
    <3> QED
      BY <1>h, <2>2, <3>1, <3>2, <3>3
  <2>3. CASE j > ls
    <3>0. j <= lu - 1
      BY <1>2
    <3>1. /\ j - ls + 1 \in 1 .. lt - 1
          /\ j \in ls + 1 .. ls + lt - 1 /\ j + 1 \in ls + 1 .. ls + lt - 1
      BY <1>1, <1>2, <2>0, <2>3, <3>0
    <3>2. u[j] = t[j - ls + 1]
      BY <1>1, <3>1
    <3>3. u[j + 1] = t[j - ls + 1 + 1]
      <4>1. j + 1 \in Int /\ j - ls + 1 + 1 \in 2 .. lt /\ j + 1 = ls + (j - ls + 1 + 1) - 1
        BY <1>2, <2>0, <2>3, <3>1
      <4> QED
        BY <1>t, <4>1, Zenon
    <3> QED
      BY <1>3, <3>1, <3>2, <3>3
  <2> QED
    BY <1>2, <2>0, <2>1, <2>2, <2>3
<1>10. ASSUME NEW i \in 1 .. n2 PROVE Builds(u[lu + 1 - i].op, its2[i].class)
  <2>0. i \in Nat
    BY <1>2
  <2>1. CASE m = 1 /\ i = n2
    <3>1. lu + 1 - i = ls /\ ls \in 1 .. ls
      BY <1>2, <1>6, <2>1
    <3>2. u[lu + 1 - i] = s[ls]
      BY <1>1, <3>1
    <3> QED
      BY <1>h, <2>1, <3>2
  <2>2. CASE ~(m = 1 /\ i = n2)
    <3>1. i <= n /\ i < lt
      BY <1>2, <1>3, <1>5, <1>h, <2>0, <2>2
    <3>2. lu + 1 - i \in ls + 1 .. ls + lt - 1 /\ lu + 1 - i - ls + 1 = lt + 1 - i /\ i \in 1 .. n
      BY <1>1, <1>2, <2>0, <3>1
    <3>3. u[lu + 1 - i] = t[lt + 1 - i]
      <4>1. lu + 1 - i \in Int /\ lt + 1 - i \in 2 .. lt /\ lu + 1 - i = ls + (lt + 1 - i) - 1
        BY <1>1, <1>2, <2>0, <3>1, <3>2
      <4> QED
        BY <1>t, <4>1, Zenon
    <3> QED
      BY <1>3, <1>h, <3>1, <3>2, <3>3
  <2> QED
    BY <2>1, <2>2
<1>11. ASSUME NEW j \in 1 .. lu, u[j] \in Brackets PROVE u[j] \in BracketOf(its2[n2].class)
  <2>0. j \in Nat
    BY <1>2
  <2>1. CASE j \in 1 .. ls
    BY <1>1, <1>h, <1>11, <2>1
  <2>2. CASE j \notin 1 .. ls
    <3>1. j - ls \in 1 .. lt - 1 /\ u[j] = t[j - ls + 1]
      BY <1>1, <1>2, <2>0, <2>2
    <3>2. Follows(t[j - ls], t[j - ls + 1])
      BY <1>3, <3>1
    <3> QED
      BY <1>11, <3>1, <3>2, NothingBeforeABracket
  <2> QED
    BY <2>1, <2>2
<1>12. WellNested(u, its2)
  <2>1. n2 # 0
    BY <1>2
  <2> QED
    BY <1>2, <1>7, <1>8, <1>9, <1>10, <1>11 DEF WellNested, Brackets, BracketOf, n2, lu
<1> QED
  BY <1>12 DEF u

(* What the statements are made of.                                        *)
LEMMA Statements ==
  /\ \A op : Do(op).op = op /\ Do(op) \notin Brackets
  /\ \A op \in {"object", "key", "value", "string", "int", "array"} \cup Marker : Do(op) \in Statement
  /\ \A c : Require(c).op = "jp_check_control_char" /\ Require(c).char = c
  /\ \A c \in {Quote, ":", "{", "}", "[", "]"} : Require(c) \in Statement
  /\ \A c : Further(c).op = "further_item" /\ Further(c).char = c /\ Further(c) \notin Brackets
  /\ \A c \in Chars : Further(c) \in Statement
  /\ Require(Quote) \notin Brackets /\ Require(":") \notin Brackets
<1>1. \A op : Do(op).op = op
  BY DEF Do
<1>2. \A c : Require(c).op = "jp_check_control_char" /\ Require(c).char = c
  BY DEF Require
<1>3. \A c : Further(c).op = "further_item" /\ Further(c).char = c
  BY DEF Further
<1>4. \A op \in {"object", "key", "value", "string", "int", "array"} \cup Marker : Do(op) \in Statement
  BY DEF Do, Statement, Chars
<1>5. \A c \in {Quote, ":", "{", "}", "[", "]"} : Require(c) \in Statement
  BY DEF Require, Statement, Chars
<1>6. \A c \in Chars : Further(c) \in Statement
  BY DEF Further, Statement, Marker
<1>7. \A b \in Brackets : b.char \in {"{", "}", "[", "]"} /\ b.op = "jp_check_control_char"
  BY <1>2 DEF Brackets
<1>8. \A op : Do(op) \notin Brackets
  <2>1. \A op : Do(op).char = ""
    BY DEF Do
  <2> QED
    BY <1>7, <2>1
<1>9. \A c : Further(c) \notin Brackets
  BY <1>3, <1>7
<1>10. Require(Quote) \notin Brackets /\ Require(":") \notin Brackets
  BY <1>2, <1>7, QuoteIsNoOther
<1> QED
  BY <1>1, <1>2, <1>3, <1>4, <1>5, <1>6, <1>8, <1>9, <1>10

(* A block of one statement, and a block with one more before it.          *)
LEMMA BlockOfOne ==
  ASSUME NEW a \in Statement, a \notin Brackets, NEW m \in {0, 1}, NEW class,
         \/ m = 0 /\ a.op \notin Marker
         \/ m = 1 /\ a.op \in Marker /\ Builds(a.op, class)
  PROVE  Block(<<a>>, m, class)
<1> DEFINE s == <<a>>
<1>1. s \in Seq(Statement) /\ Len(s) = 1 /\ s[1] = a
  OBVIOUS
<1> HIDE DEF s
<1>2. \A j \in 1 .. Len(s) : j = 1
  BY <1>1
<1> QED
  <2>1. Block(s, m, class)
    BY <1>1, <1>2 DEF Block
  <2> QED
    BY <2>1 DEF s

(* A block of one function with another one behind it.                     *)
LEMMA LongerBlock ==
  ASSUME NEW a \in Statement, NEW s, NEW m \in {0, 1}, NEW class, Block(s, m, class), s # <<>>,
         a.op \notin Marker, Follows(a, s[1]), a \in Brackets => a \in BracketOf(class)
  PROVE  Block(<<a>> \o s, m, class) /\ <<a>> \o s # <<>> /\ (<<a>> \o s)[1] = a
<1> DEFINE one == <<a>>
           b == one \o s
<1>1. one \in Seq(Statement) /\ Len(one) = 1 /\ one[1] = a /\ s \in Seq(Statement)
  BY DEF Block
<1>2. Len(s) \in Nat \ {0}
  BY <1>1, EmptySeq, LenProperties
<1> HIDE DEF one
<1>3. b \in Seq(Statement) /\ Len(b) = Len(s) + 1 /\ b[1] = a /\ \A i \in 1 .. Len(s) : b[i + 1] = s[i]
  <2>1. b \in Seq(Statement) /\ Len(b) = Len(s) + 1
    BY <1>1, <1>2, ConcatProperties
  <2>e. \A i \in 1 .. Len(one) + Len(s) : b[i] = IF i <= Len(one) THEN one[i] ELSE s[i - Len(one)]
    BY <1>1, ConcatProperties
  <2>2. b[1] = a
    <3>1. 1 \in 1 .. Len(one) + Len(s) /\ 1 <= Len(one)
      BY <1>1, <1>2
    <3> QED
      BY <1>1, <2>e, <3>1
  <2>3. ASSUME NEW i \in 1 .. Len(s) PROVE b[i + 1] = s[i]
    <3>1. i + 1 \in 1 .. Len(one) + Len(s) /\ ~(i + 1 <= Len(one)) /\ i + 1 - Len(one) = i
      BY <1>1, <1>2
    <3> QED
      BY <2>e, <3>1
  <2> QED
    BY <2>1, <2>2, <2>3
<1> HIDE DEF b
<1>4. ASSUME NEW j \in 1 .. Len(b) PROVE j = 1 \/ (j - 1 \in 1 .. Len(s) /\ b[j] = s[j - 1])
  BY <1>2, <1>3
<1>5. ASSUME NEW j \in 1 .. Len(b) PROVE b[j].op \in Marker <=> j > Len(b) - m
  <2>1. CASE j = 1
    BY <1>2, <1>3, <2>1
  <2>2. CASE j # 1
    <3>1. b[j].op \in Marker <=> j - 1 > Len(s) - m
      BY <1>4, <2>2 DEF Block
    <3> QED
      BY <1>2, <1>3, <3>1
  <2> QED
    BY <2>1, <2>2
<1>6. ASSUME NEW j \in 1 .. Len(b) - 1 PROVE Follows(b[j], b[j + 1])
  <2>1. CASE j = 1
    <3>1. 1 \in 1 .. Len(s)
      BY <1>2
    <3>2. b[j + 1] = s[1]
      BY <1>3, <2>1, <3>1
    <3> QED
      BY <1>3, <2>1, <3>2
  <2>2. CASE j # 1
    <3>1. j \in 1 .. Len(b) /\ j \in 1 .. Len(s) /\ j - 1 \in 1 .. Len(s) - 1 /\ j - 1 + 1 = j
      BY <1>2, <1>3, <2>2
    <3>2. b[j] = s[j - 1] /\ b[j + 1] = s[j]
      BY <1>3, <1>4, <2>2, <3>1
    <3>3. Follows(s[j - 1], s[j - 1 + 1])
      BY <3>1 DEF Block
    <3> QED
      BY <3>1, <3>2, <3>3
  <2> QED
    BY <2>1, <2>2
<1>7. m = 1 => Builds(b[Len(b)].op, class)
  <2>1. Len(s) \in 1 .. Len(s)
    BY <1>2
  <2>2. b[Len(b)] = s[Len(s)]
    BY <1>3, <2>1
  <2> QED
    BY <2>2 DEF Block
<1>8. ASSUME NEW j \in 1 .. Len(b), b[j] \in Brackets PROVE b[j] \in BracketOf(class)
  BY <1>3, <1>4, <1>8 DEF Block
<1>9. Block(b, m, class)
  BY <1>2, <1>3, <1>5, <1>6, <1>7, <1>8 DEF Block
<1> QED
  BY <1>2, <1>3, <1>9, EmptySeq DEF b, one

(* Statements that are put together one after the other.                   *)
LEMMA PairAndOne ==
  ASSUME NEW a, NEW b, NEW c
  PROVE  <<a, b>> \o <<c>> = <<a>> \o (<<b>> \o <<c>>)
<1> DEFINE S == {a, b, c}
           l == <<a, b>> \o <<c>>
           r == <<a>> \o (<<b>> \o <<c>>)
<1>1. l \in Seq(S) /\ r \in Seq(S) /\ Len(l) = 3 /\ Len(r) = 3
  OBVIOUS
<1>2. \A i \in 1 .. 3 : l[i] = r[i]
  OBVIOUS
<1> HIDE DEF l, r
<1>3. l = r
  BY <1>1, <1>2, SeqEqual
<1> QED
  BY <1>3 DEF l, r

(* Tuples as sequences put together.                                       *)
LEMMA Concatenations ==
  /\ \A a, b : <<a, b>> = <<a>> \o <<b>>
  /\ \A a, b, c : <<a, b>> \o <<c>> = <<a>> \o (<<b>> \o <<c>>)
  /\ \A a, b, c, d, e : <<a, b, c, d>> \o <<e>> = <<a>> \o (<<b>> \o (<<c>> \o (<<d>> \o <<e>>)))
<1>1. ASSUME NEW a, NEW b PROVE <<a, b>> = <<a>> \o <<b>>
  <2>1. <<a>> \o <<b>> \in Seq({a, b}) /\ <<a, b>> \in Seq({a, b}) /\ Len(<<a>> \o <<b>>) = 2
    OBVIOUS
  <2>2. \A i \in 1 .. 2 : (<<a>> \o <<b>>)[i] = <<a, b>>[i]
    OBVIOUS
  <2> QED
    BY <2>1, <2>2, SeqEqual
<1>2. \A a, b, c : <<a, b>> \o <<c>> = <<a>> \o (<<b>> \o <<c>>)
  BY PairAndOne
<1>3. ASSUME NEW a, NEW b, NEW c, NEW d, NEW e
      PROVE  <<a, b, c, d>> \o <<e>> = <<a>> \o (<<b>> \o (<<c>> \o (<<d>> \o <<e>>)))
  <2> DEFINE S == {a, b, c, d, e}
             l == <<a, b, c, d>> \o <<e>>
             r == <<a>> \o (<<b>> \o (<<c>> \o (<<d>> \o <<e>>)))
  <2>1. l \in Seq(S) /\ r \in Seq(S) /\ Len(l) = 5 /\ Len(r) = 5
    OBVIOUS
  <2>2. \A i \in 1 .. 5 : l[i] = r[i]
    OBVIOUS
  <2> HIDE DEF l, r
  <2>3. l = r
    BY <2>1, <2>2, SeqEqual
  <2> QED
    BY <2>3 DEF l, r
<1> QED
  BY <1>1, <1>2, <1>3

(* What the functions run are blocks.                                      *)
LEMMA Blocks ==
  /\ \A class : Block(<<>>, 0, class)
  /\ \A class : Block(value_string, 0, class)
  /\ \A class : \A op \in {"object", "array", "int"} : Block(<<Do(op)>>, 0, class)
  /\ Block(<<Require("{")>> \o single_object \o <<Do("further_member")>>, 1, "JObject")
  /\ Block(single_object \o <<Do("further_member")>>, 1, "JObject")
  /\ Block(<<Require("}"), Do("return")>>, 1, "JObject")
  /\ Block(<<Require("["), Do("first_item")>>, 1, "JArray")
  /\ Block(<<Require("]"), Do("return")>>, 1, "JArray")
  /\ \A c \in Chars : Block(array_item(c), 1, "JArray")
<1>1. ASSUME NEW class PROVE Block(<<>>, 0, class)
  BY DEF Block
<1>o. ASSUME NEW m \in {0, 1}, NEW class, NEW op \in {"object", "value", "string", "int", "array"} \cup Marker,
             \/ m = 0 /\ op \notin Marker
             \/ m = 1 /\ op \in Marker /\ Builds(op, class)
      PROVE  Block(<<Do(op)>>, m, class) /\ <<Do(op)>> # <<>> /\ <<Do(op)>>[1] = Do(op)
  BY <1>o, Statements, BlockOfOne
<1>r. ASSUME NEW c \in {Quote, ":", "{", "}", "[", "]"}, NEW s, NEW m \in {0, 1}, NEW class, Block(s, m, class),
             s # <<>>, Follows(Require(c), s[1]),
             c \in {Quote, ":"} \/ Require(c) \in BracketOf(class)
      PROVE  Block(<<Require(c)>> \o s, m, class) /\ <<Require(c)>> \o s # <<>> /\ (<<Require(c)>> \o s)[1] = Require(c)
  <2>1. Require(c) \in Statement /\ Require(c).op \notin Marker
    BY Statements DEF Marker
  <2>2. Require(c) \in Brackets => Require(c) \in BracketOf(class)
    BY <1>r, Statements
  <2> QED
    BY <1>r, <2>1, <2>2, LongerBlock
<1>2. ASSUME NEW class PROVE Block(value_string, 0, class)
  <2>1. Follows(Require(Quote), Do("string"))
    BY Statements DEF Follows
  <2>2. Block(<<Do("string")>>, 0, class) /\ <<Do("string")>> # <<>> /\ <<Do("string")>>[1] = Do("string")
    <3>1. "string" \notin Marker
      BY DEF Marker
    <3> QED
      BY <1>o, <3>1, Zenon
  <2>3. Block(<<Require(Quote)>> \o <<Do("string")>>, 0, class)
    BY <1>r, <2>1, <2>2, Zenon
  <2> QED
    BY <2>3, Concatenations, Zenon DEF value_string
<1>3. ASSUME NEW class, NEW op \in {"object", "array", "int"} PROVE Block(<<Do(op)>>, 0, class)
  <2>1. op \notin Marker
    BY DEF Marker
  <2> QED
    BY <1>o, <2>1, Zenon
<1>5. LET s == single_object \o <<Do("further_member")>>
      IN  Block(s, 1, "JObject") /\ s # <<>> /\ s[1] = Require(Quote)
  <2> DEFINE s1 == <<Do("further_member")>>
             s2 == <<Do("value")>> \o s1
             s3 == <<Require(":")>> \o s2
             s4 == <<Do("key")>> \o s3
             s5 == <<Require(Quote)>> \o s4
  <2>1. /\ Follows(Do("value"), Do("further_member")) /\ Follows(Require(":"), Do("value"))
        /\ Follows(Do("key"), Require(":")) /\ Follows(Require(Quote), Do("key"))
    BY Statements DEF Follows
  <2>2. Do("value") \in Statement /\ Do("key") \in Statement /\ Do("value").op \notin Marker /\ Do("key").op \notin Marker
    BY Statements DEF Marker
  <2>3. Do("value") \notin Brackets /\ Do("key") \notin Brackets
    BY Statements
  <2>4. Block(s1, 1, "JObject") /\ s1 # <<>> /\ s1[1] = Do("further_member")
    <3>1. "further_member" \in Marker /\ Builds("further_member", "JObject")
      BY DEF Builds, Marker
    <3> QED
      BY <1>o, <3>1, Zenon
  <2> HIDE DEF s1
  <2>5. Block(s2, 1, "JObject") /\ s2 # <<>> /\ s2[1] = Do("value")
    BY <2>1, <2>2, <2>3, <2>4, LongerBlock, Zenon
  <2> HIDE DEF s2
  <2>6. Block(s3, 1, "JObject") /\ s3 # <<>> /\ s3[1] = Require(":")
    BY <1>r, <2>1, <2>5, Zenon
  <2> HIDE DEF s3
  <2>7. Block(s4, 1, "JObject") /\ s4 # <<>> /\ s4[1] = Do("key")
    BY <2>1, <2>2, <2>3, <2>6, LongerBlock, Zenon
  <2> HIDE DEF s4
  <2>8. Block(s5, 1, "JObject") /\ s5 # <<>> /\ s5[1] = Require(Quote)
    BY <1>r, <2>1, <2>7, Zenon
  <2>9. single_object \o <<Do("further_member")>> = s5
    <3> DEFINE r1 == Require(Quote)
               r2 == Do("key")
               r3 == Require(":")
               r4 == Do("value")
               r5 == Do("further_member")
    <3>1. single_object = <<r1, r2, r3, r4>>
      BY DEF single_object
    <3>2. s5 = <<r1>> \o (<<r2>> \o (<<r3>> \o (<<r4>> \o <<r5>>)))
      BY DEF s1, s2, s3, s4
    <3> HIDE DEF r1, r2, r3, r4, r5, s5
    <3>3. single_object \o <<r5>> = s5
      BY <3>1, <3>2, Concatenations
    <3> QED
      BY <3>3 DEF r5
  <2> HIDE DEF s5
  <2> QED
    BY <2>8, <2>9
<1>4. Block(<<Require("{")>> \o single_object \o <<Do("further_member")>>, 1, "JObject")
  <2> DEFINE s == single_object \o <<Do("further_member")>>
             b == <<Require("{")>> \o s
  <2>1. Require("{") \in BracketOf("JObject") /\ Follows(Require("{"), Require(Quote))
    BY DEF BracketOf, Opening, Follows
  <2>2. Block(s, 1, "JObject") /\ s # <<>> /\ s[1] = Require(Quote)
    BY <1>5
  <2>3. <<Require("{")>> \o single_object \o <<Do("further_member")>> = b
    <3> DEFINE all == {Require("{"), Require(Quote), Do("key"), Require(":"), Do("value"), Do("further_member")}
    <3>1. <<Require("{")>> \in Seq(all) /\ single_object \in Seq(all) /\ <<Do("further_member")>> \in Seq(all)
      BY DEF single_object
    <3> DEFINE first == <<Require("{")>>
               last == <<Do("further_member")>>
    <3>2. first \in Seq(all) /\ single_object \in Seq(all) /\ last \in Seq(all)
      BY <3>1
    <3> HIDE DEF first, last, all
    <3>3. (first \o single_object) \o last = first \o (single_object \o last)
      BY <3>2, ConcatAssociative
    <3> QED
      BY <3>3 DEF first, last
  <2> HIDE DEF s
  <2>4. Block(b, 1, "JObject")
    BY <1>r, <2>1, <2>2, Zenon
  <2> HIDE DEF b
  <2> QED
    BY <2>3, <2>4
<1>b. ASSUME NEW class, NEW c, NEW op, op \in Marker, Builds(op, class), Follows(Require(c), Do(op)),
             c \in {"{", "}", "[", "]"}, Require(c) \in BracketOf(class)
      PROVE  Block(<<Require(c), Do(op)>>, 1, class)
  <2>1. Block(<<Do(op)>>, 1, class) /\ <<Do(op)>> # <<>> /\ <<Do(op)>>[1] = Do(op)
    BY <1>b, <1>o, Zenon
  <2>2. Block(<<Require(c)>> \o <<Do(op)>>, 1, class)
    BY <1>b, <1>r, <2>1, Zenon
  <2> QED
    BY <2>2, Concatenations, Zenon
<1>6. Block(<<Require("}"), Do("return")>>, 1, "JObject")
  <2>1. Follows(Require("}"), Do("return"))
    BY Statements DEF Follows
  <2> QED
    BY <1>b, <2>1 DEF Marker, Builds, BracketOf, Closing
<1>7. Block(<<Require("["), Do("first_item")>>, 1, "JArray")
  <2>1. Follows(Require("["), Do("first_item"))
    BY Statements DEF Follows
  <2> QED
    BY <1>b, <2>1 DEF Marker, Builds, BracketOf, Opening
<1>8. Block(<<Require("]"), Do("return")>>, 1, "JArray")
  <2>1. Follows(Require("]"), Do("return"))
    BY Statements DEF Follows
  <2> QED
    BY <1>b, <2>1 DEF Marker, Builds, BracketOf, Closing
<1>9. ASSUME NEW c \in Chars PROVE Block(array_item(c), 1, "JArray")
  <2> DEFINE s == <<Further(c)>>
  <2>1. Further(c) \in Statement /\ Further(c) \notin Brackets /\ Further(c).op = "further_item"
    BY Statements
  <2>2. Block(s, 1, "JArray") /\ s # <<>> /\ s[1] = Further(c)
    <3>1. "further_item" \in Marker /\ Builds("further_item", "JArray")
      BY DEF Builds, Marker
    <3>2. s # <<>> /\ s[1] = Further(c)
      OBVIOUS
    <3> QED
      BY <2>1, <3>1, <3>2, BlockOfOne, Zenon
  <2> HIDE DEF s
  <2>3. ASSUME NEW op \in {"object", "string"}
        PROVE  Block(<<Do(op)>> \o s, 1, "JArray") /\ <<Do(op)>> \o s # <<>> /\ (<<Do(op)>> \o s)[1] = Do(op)
    <3>1. Do(op) \in Statement /\ Do(op) \notin Brackets /\ Do(op).op = op
      BY Statements
    <3>2. Follows(Do(op), s[1])
      BY <2>1, <2>2, <3>1 DEF Follows
    <3>3. op \notin Marker
      BY DEF Marker
    <3> QED
      BY <2>2, <3>1, <3>2, <3>3, LongerBlock, Zenon
  <2>4. CASE c = "{"
    BY <2>3, <2>4 DEF array_item, s
  <2>5. CASE c # "{"
    <3>1. array_item(c) = <<Require(Quote)>> \o (<<Do("string")>> \o s)
      <4>1. array_item(c) = value_string \o s
        BY <2>5, Zenon DEF array_item, s
      <4> DEFINE r1 == Require(Quote)
                 r2 == Do("string")
                 r3 == Further(c)
      <4>2. value_string = <<r1, r2>> /\ s = <<r3>>
        BY DEF value_string, s
      <4> HIDE DEF r1, r2, r3
      <4>3. value_string \o s = <<r1>> \o (<<r2>> \o s)
        <5>1. <<r1, r2>> \o <<r3>> = <<r1>> \o (<<r2>> \o <<r3>>)
          BY PairAndOne
        <5> QED
          BY <4>2, <5>1
      <4> QED
        BY <4>1, <4>3 DEF r1, r2
    <3>2. Follows(Require(Quote), Do("string"))
      BY Statements DEF Follows
    <3>3. Block(<<Require(Quote)>> \o (<<Do("string")>> \o s), 1, "JArray")
      BY <1>r, <2>3, <3>2, Zenon
    <3> QED
      BY <3>1, <3>3
  <2> QED
    BY <2>4, <2>5
<1> QED
  BY <1>1, <1>2, <1>3, <1>4, <1>5, <1>6, <1>7, <1>8, <1>9

(* Handing a value to the innermost item changes neither what it is nor    *)
(* where it starts.                                                        *)
LEMMA HandedKeeps ==
  ASSUME NEW its, IsSequence(its), its # <<>>, \A i \in DOMAIN its : IsItem(its[i]),
         NEW its2, \/ \E item : its2 = Handed(its, item)
                   \/ \E text : its2 = [its EXCEPT ![Len(its)].key = text]
  PROVE  /\ IsSequence(its2) /\ its2 # <<>> /\ Len(its2) = Len(its)
         /\ \A i \in 1 .. Len(its2) : /\ IsItem(its2[i]) /\ its2[i].class = its[i].class
                                      /\ its2[i].start = its[i].start
<1> DEFINE n == Len(its)
<1>1. PICK S : its \in Seq(S)
  BY DEF IsSequence
<1>2. n \in Nat /\ DOMAIN its = 1 .. n /\ n > 0
  BY <1>1, EmptySeq, LenProperties
<1>3. PICK x : /\ its2 = [its EXCEPT ![n] = x]
               /\ \/ \E v : x = [its[n] EXCEPT !.content = v]
                  \/ \E v : x = [its[n] EXCEPT !.key = v]
  BY DEF Handed
<1>4. PICK content, key : its[n] = [class |-> its[n].class, content |-> content, key |-> key, start |-> its[n].start]
  <2>1. IsItem(its[n])
    BY <1>2
  <2> QED
    BY <2>1 DEF IsItem
<1>5. \E c, k : x = [class |-> its[n].class, content |-> c, key |-> k, start |-> its[n].start]
  BY <1>3, <1>4
<1>6. IsItem(x) /\ x.class = its[n].class /\ x.start = its[n].start
  <2>1. IsItem(its[n])
    BY <1>2
  <2>2. x.class = its[n].class /\ x.start = its[n].start
    BY <1>5
  <2> QED
    BY <1>5, <2>1, <2>2 DEF IsItem
<1>7. its2 \in Seq(S \cup {x}) /\ Len(its2) = n /\ \A i \in 1 .. n : its2[i] = IF i = n THEN x ELSE its[i]
  <2>1. its \in Seq(S \cup {x})
    BY <1>1
  <2> QED
    BY <1>2, <1>3, <2>1, ExceptSeq
<1> QED
  BY <1>2, <1>6, <1>7, EmptySeq DEF IsSequence

(* The last of some statements.                                            *)
Ends(s, a) == Len(s) > 0 /\ s[Len(s)] = a

(* What some statements end with.                                          *)
LEMMA LastStatements ==
  /\ \A a : Ends(<<a>>, a)
  /\ \A a, b : Ends(<<a, b>>, b)
  /\ \A s \in Seq(Statement) : \A a \in Statement : Ends(s \o <<a>>, a)
<1>1. ASSUME NEW a PROVE Ends(<<a>>, a)
  BY DEF Ends
<1>2. ASSUME NEW a, NEW b PROVE Ends(<<a, b>>, b)
  BY DEF Ends
<1>3. ASSUME NEW s \in Seq(Statement), NEW a \in Statement PROVE Ends(s \o <<a>>, a)
  <2>1. s \o <<a>> = Append(s, a)
    BY AppendIsConcat
  <2>2. Len(Append(s, a)) = Len(s) + 1 /\ Append(s, a)[Len(s) + 1] = a /\ Len(s) \in Nat
    BY AppendProperties, LenProperties
  <2> DEFINE b == s \o <<a>>
             n == Len(s)
  <2>3. Len(b) = n + 1 /\ b[n + 1] = a /\ n \in Nat
    BY <2>1, <2>2
  <2> HIDE DEF b, n
  <2>4. Len(b) > 0 /\ b[Len(b)] = a
    BY <2>3
  <2> QED
    BY <2>4 DEF b, Ends
<1> QED
  BY <1>1, <1>2, <1>3

(* What may follow a statement may follow the ones in its place.           *)
LEMMA FollowsInPlace ==
  ASSUME NEW a, NEW b, Follows(a, b), NEW d,
         \/ a.op \in {"object", "array"} \cup Marker /\ d.op \in Marker
         \/ a.op = "value" /\ d.op \in {"string", "object", "array", "int"}
  PROVE  Follows(d, b)
<1>1. \A c : Require(c).op = "jp_check_control_char"
  BY Statements
<1>2. a.op # "jp_check_control_char"
  BY DEF Marker
<1> QED
  BY <1>1, <1>2 DEF Follows, Marker

(* The statements of jp_extract_single_object.                             *)
LEMMA SingleObject == single_object \in Seq(Statement) /\ <<Require("{")>> \o single_object \in Seq(Statement)
<1> DEFINE r0 == Require("{")
           r1 == Require(Quote)
           r2 == Do("key")
           r3 == Require(":")
           r4 == Do("value")
<1>1. r0 \in Statement /\ r1 \in Statement /\ r2 \in Statement /\ r3 \in Statement /\ r4 \in Statement
  BY Statements
<1>2. single_object = <<r1, r2, r3, r4>> /\ <<Require("{")>> = <<r0>>
  BY Zenon DEF single_object
<1> HIDE DEF r0, r1, r2, r3, r4
<1>3. <<r0>> \in Seq(Statement) /\ <<r1, r2, r3, r4>> \in Seq(Statement)
  BY <1>1
<1>4. <<r0>> \o <<r1, r2, r3, r4>> \in Seq(Statement)
  BY <1>3, ConcatProperties
<1> QED
  BY <1>2, <1>3, <1>4, Zenon

(* A function that is done.                                                *)
LEMMA NoStatements == \A class : Block(<<>>, 0, class) /\ Len(<<>>) = 0
  BY Blocks, Zenon DEF Block

(* What IInv says of the statement that is run next.                       *)
LEMMA NextStatement ==
  ASSUME IInv, todo # <<>>
  PROVE  /\ Head(todo) = todo[1] /\ todo[1] \in Statement /\ Len(todo) \in Nat \ {0}
         /\ Len(items) \in Nat /\ DOMAIN items = 1 .. Len(items)
         /\ Len(todo) > 1 => Follows(todo[1], todo[2])
         /\ todo[1].op # "object" => items # <<>>
         /\ todo[1].op \in Marker => Len(items) = Len(todo) /\ Builds(todo[1].op, items[Len(items)].class)
         /\ todo[1].op \notin Marker => Len(items) < Len(todo)
<1>1. todo \in Seq(Statement) /\ Len(todo) \in Nat \ {0} /\ DOMAIN todo = 1 .. Len(todo)
  BY EmptySeq, LenProperties DEF IInv
<1>2. Len(items) \in Nat /\ DOMAIN items = 1 .. Len(items)
  BY LenProperties DEF IInv, IsSequence
<1>3. WellNested(todo, items)
  BY DEF IInv
<1>4. 1 \in 1 .. Len(todo) /\ todo[1] \in Statement /\ Head(todo) = todo[1]
  BY <1>1
<1>5. Len(todo) > 1 => Follows(todo[1], todo[2])
  <2>1. Len(todo) > 1 => 1 \in 1 .. Len(todo) - 1
    BY <1>1
  <2>2. Len(todo) > 1 => Follows(todo[1], todo[1 + 1])
    BY <1>3, <2>1 DEF WellNested
  <2>3. 1 + 1 = 2
    OBVIOUS
  <2> QED
    BY <2>2, <2>3
<1>6. todo[1].op # "object" => items # <<>>
  <2> SUFFICES ASSUME items = <<>> PROVE todo[1].op = "object"
    OBVIOUS
  <2>1. todo = <<Do("object")>>
    BY <1>3 DEF WellNested
  <2>2. todo[1] = Do("object")
    BY <2>1
  <2> QED
    BY <2>2, Statements
<1>7. Len(items) <= Len(todo) /\ (todo[1].op \in Marker <=> 1 > Len(todo) - Len(items))
  BY <1>1, <1>3, <1>4 DEF WellNested
<1>8. (todo[1].op \in Marker => Len(items) = Len(todo)) /\ (todo[1].op \notin Marker => Len(items) < Len(todo))
  <2> DEFINE n == Len(items)
             lt == Len(todo)
  <2>1. n \in Nat /\ lt \in Nat /\ n <= lt /\ (todo[1].op \in Marker <=> 1 > lt - n)
    BY <1>1, <1>2, <1>7
  <2> HIDE DEF n, lt
  <2>2. (todo[1].op \in Marker => n = lt) /\ (todo[1].op \notin Marker => n < lt)
    BY <2>1
  <2> QED
    BY <2>2 DEF n, lt
<1>9. todo[1].op \in Marker => Builds(todo[1].op, items[Len(items)].class)
  <2> SUFFICES ASSUME todo[1].op \in Marker PROVE Builds(todo[1].op, items[Len(items)].class)
    OBVIOUS
  <2>0. Len(items) = Len(todo)
    BY <1>8
  <2>1. Len(items) \in DOMAIN items /\ Len(todo) + 1 - Len(items) = 1
    <3> DEFINE n == Len(items)
    <3>1. n \in Nat \ {0} /\ DOMAIN items = 1 .. n /\ Len(todo) = n
      BY <1>1, <1>2, <2>0
    <3> HIDE DEF n
    <3>2. n \in DOMAIN items /\ Len(todo) + 1 - n = 1
      BY <3>1
    <3> QED
      BY <3>2 DEF n
  <2>2. Builds(todo[Len(todo) + 1 - Len(items)].op, items[Len(items)].class)
    BY <1>3, <2>1 DEF WellNested
  <2> QED
    BY <2>1, <2>2
<1> QED
  BY <1>1, <1>2, <1>4, <1>5, <1>6, <1>8, <1>9, Zenon

(* its2 are the items after a step that runs op at p with the items its,   *)
(* and m is 1 if the step leaves a call that builds the last of them.      *)
Succeeds(its2, its, op, m, p) ==
  /\ IsSequence(its2) /\ its2 # <<>> /\ its2[1].class = "JObject"
  /\ op \in Marker => Len(its2) = Len(its) + m - 1
  /\ op \notin Marker => Len(its2) = Len(its) + m
  /\ \A i \in 1 .. Len(its2) : /\ IsItem(its2[i]) /\ its2[i].start \in 1 .. p + 1
                               /\ i <= Len(its) => its2[i].class = its[i].class

(* A step that goes on, with the items as they are or with others.         *)
LEMMA GoingOn ==
  ASSUME IInv, todo # <<>>, NEW s, NEW m \in {0, 1}, NEW p \in current_pos .. Len(Text) + 1,
         Goes(s, p), UNCHANGED result,
         Succeeds(items', items, todo[1].op, m, current_pos),
         Block(s, m, items'[Len(items')].class),
         Len(s) > 0 /\ Len(todo) > 1 => Follows(s[Len(s)], todo[2])
  PROVE  IInv'
<1>1. todo \in Seq(Statement) /\ IsSequence(items) /\ WellNested(todo, items)
  BY DEF IInv
<1>s. /\ IsSequence(items') /\ items' # <<>> /\ items'[1].class = "JObject"
      /\ todo[1].op \in Marker => Len(items') = Len(items) + m - 1
      /\ todo[1].op \notin Marker => Len(items') = Len(items) + m
      /\ \A i \in 1 .. Len(items') : /\ IsItem(items'[i]) /\ items'[i].start \in 1 .. current_pos + 1
                                     /\ i <= Len(items) => items'[i].class = items[i].class
  BY DEF Succeeds
<1>2. todo' = s \o Tail(todo) /\ current_pos' = p /\ input' = input
  BY DEF Goes
<1>3. WellNested(todo', items')
  <2>1. WellNested(s \o Tail(todo), items')
    BY <1>1, <1>s, StaysNested
  <2> QED
    BY <1>2, <2>1
<1>4. Text' = Text
  BY <1>2 DEF Text
<1>5. current_pos \in Nat \ {0} /\ Len(Text) \in Nat /\ input \in Inputs
  BY Characters DEF IInv
<1>6. current_pos' \in (1 .. Len(Text) + 1)' /\ current_pos' \in Nat /\ current_pos <= current_pos'
  BY <1>2, <1>4, <1>5
<1>7. Len(items') \in Nat \ {0} /\ DOMAIN items' = 1 .. Len(items')
  BY <1>s, EmptySeq, LenProperties DEF IsSequence
<1>8. todo' \in Seq(Statement) /\ todo' # <<>>
  <2>1. s \in Seq(Statement) /\ Tail(todo) \in Seq(Statement)
    BY <1>1, HeadTailProperties DEF Block
  <2>2. todo' \in Seq(Statement)
    BY <1>2, <2>1, ConcatProperties
  <2>3. Len(items') <= Len(todo')
    BY <1>3 DEF WellNested
  <2>4. Len(todo') # 0
    <3> DEFINE n == Len(items')
               lt == Len(todo')
    <3>1. n \in Nat \ {0} /\ lt \in Nat /\ n <= lt
      BY <1>7, <2>2, <2>3, LenProperties
    <3> HIDE DEF n, lt
    <3>2. lt # 0
      BY <3>1
    <3> QED
      BY <3>2 DEF lt
  <2>5. Len(<<>>) = 0
    OBVIOUS
  <2> QED
    BY <2>2, <2>4, <2>5
<1>9. ASSUME NEW i \in DOMAIN items' PROVE items'[i].start \in (1 .. current_pos + 1)'
  <2>1. items'[i].start \in 1 .. current_pos + 1
    BY <1>7, <1>s
  <2> QED
    BY <1>5, <1>6, <2>1
<1>10. result = Running /\ result' = result
  BY DEF IInv
<1> QED
  BY <1>s, <1>2, <1>3, <1>5, <1>6, <1>7, <1>8, <1>9, <1>10 DEF IInv, Running

(* The items that a step leaves as they are, or hands a value.             *)
LEMMA GoingOnWithTheSame ==
  ASSUME IInv, todo # <<>>, items # <<>>, NEW s, NEW p \in current_pos .. Len(Text) + 1,
         Goes(s, p), UNCHANGED result,
         NEW m \in {0, 1}, todo[1].op \in Marker <=> m = 1,
         \/ items' = items
         \/ \E item : items' = Handed(items, item)
         \/ \E text : items' = [items EXCEPT ![Len(items)].key = text],
         Block(s, m, items[Len(items)].class),
         Len(s) > 0 /\ Len(todo) > 1 => Follows(s[Len(s)], todo[2])
  PROVE  IInv'
<1>1. IsSequence(items) /\ Len(items) \in Nat \ {0} /\ DOMAIN items = 1 .. Len(items)
      /\ \A i \in 1 .. Len(items) : IsItem(items[i]) /\ items[i].start \in 1 .. current_pos + 1
  BY NextStatement, EmptySeq DEF IInv, IsSequence
<1>2. /\ IsSequence(items') /\ items' # <<>> /\ Len(items') = Len(items)
      /\ \A i \in 1 .. Len(items') : /\ IsItem(items'[i]) /\ items'[i].class = items[i].class
                                     /\ items'[i].start = items[i].start
  <2>1. CASE items' = items
    BY <1>1, <2>1
  <2>2. CASE items' # items
    BY <1>1, <2>2, HandedKeeps
  <2> QED
    BY <2>1, <2>2
<1>3. items'[1].class = "JObject" /\ Len(items) \in 1 .. Len(items) /\ 1 \in 1 .. Len(items)
  BY <1>1, <1>2 DEF IInv
<1>4. items'[Len(items')].class = items[Len(items)].class
  BY <1>2, <1>3
<1>5. /\ todo[1].op \in Marker => Len(items') = Len(items) + m - 1
      /\ todo[1].op \notin Marker => Len(items') = Len(items) + m
  BY <1>1, <1>2
<1>6. \A i \in 1 .. Len(items') : /\ IsItem(items'[i]) /\ items'[i].start \in 1 .. current_pos + 1
                                  /\ i <= Len(items) => items'[i].class = items[i].class
  BY <1>1, <1>2
<1>7. Succeeds(items', items, todo[1].op, m, current_pos)
  BY <1>2, <1>3, <1>5, <1>6 DEF Succeeds
<1>8. Block(s, m, items'[Len(items')].class)
  BY <1>4
<1> QED
  BY <1>7, <1>8, GoingOn

(* The parser starts well.                                                 *)
LEMMA Initially == Init => IInv
<1> SUFFICES ASSUME Init PROVE IInv
  OBVIOUS
<1> DEFINE first == Do("object")
<1>1. input \in Inputs /\ current_pos = 1 /\ todo = <<first>> /\ items = <<>> /\ result = Running
  BY DEF Init
<1>2. first \in Statement /\ first.op \notin Marker /\ first \notin Brackets
  BY Statements DEF Marker
<1> HIDE DEF first
<1>3. current_pos \in 1 .. Len(Text) + 1
  BY <1>1, Characters
<1>4. todo \in Seq(Statement) /\ Len(todo) = 1 /\ DOMAIN todo = 1 .. 1 /\ todo[1] = first
  BY <1>1, <1>2
<1>5. Len(items) = 0 /\ DOMAIN items = {} /\ items \in Seq({})
  BY <1>1
<1>6. WellNested(todo, items)
  <2>1. \A j \in DOMAIN todo : j = 1
    BY <1>4
  <2>2. todo = <<Do("object")>>
    BY <1>1 DEF first
  <2>3. \A j \in DOMAIN todo : todo[j].op \notin Marker /\ todo[j] \notin Brackets /\ ~(j > Len(todo) - Len(items))
    BY <1>2, <1>4, <1>5, <2>1
  <2>4. Len(items) <= Len(todo) /\ 1 .. Len(todo) - 1 = {}
    BY <1>4, <1>5
  <2> QED
    BY <1>5, <2>2, <2>3, <2>4, Zenon DEF WellNested, Brackets
<1> QED
  BY <1>1, <1>3, <1>4, <1>5, <1>6 DEF IInv, Running, IsSequence

(* What is thrown leaves the loop.                                         *)
LEMMA AfterAnException == ASSUME IInv, Throw PROVE IInv'
<1>1. result' = Thrown /\ todo' = <<>> /\ input' = input /\ current_pos' = current_pos /\ items' = items
  BY DEF Throw
<1>2. Thrown.class = "exception" /\ Thrown # Running
  BY DEF Thrown, Running
<1>3. Text' = Text
  BY <1>1 DEF Text
<1> QED
  BY <1>1, <1>2, <1>3 DEF IInv

(* Each function keeps IInv.                                               *)
LEMMA Preserved == ASSUME IInv, Next PROVE IInv'
<1>p. /\ input \in Inputs /\ current_pos \in Nat \ {0} /\ current_pos <= Len(Text) + 1
      /\ Len(Text) \in Nat /\ DOMAIN Text = 1 .. Len(Text)
  BY Characters DEF IInv
<1> DEFINE p == current_pos
           q == control_pos(p)
           c == control_char(p)
           op == todo[1].op
           class == items[Len(items)].class
<1>c. /\ q \in {p, p + 1} /\ (q = p + 1 => p \in DOMAIN Text) /\ c = At(q)
      /\ c # "end" => q \in DOMAIN Text
  BY <1>p, ControlPositions
<1>q. /\ q \in 1 .. p + 1
      /\ q \in p .. Len(Text) + 1
      /\ c # "end" => q \in p .. Len(Text) /\ q + 1 \in p .. Len(Text) + 1
  <2> HIDE DEF p, q, c
  <2>1. p \in Nat \ {0} /\ p <= Len(Text) + 1
    BY <1>p DEF p
  <2> QED
    BY <1>c, <1>p, <2>1
<1>r. ASSUME NEW o, Runs(o)
      PROVE  /\ todo # <<>> /\ op = o
             /\ o # "object" => items # <<>>
             /\ o \in Marker => Builds(o, class)
             /\ Len(todo) > 1 => Follows(todo[1], todo[2])
             /\ Head(todo) = todo[1]
  BY <1>r, NextStatement DEF Runs
<1>i. items # <<>> => class \in {"JObject", "JArray"}
  <2> SUFFICES ASSUME items # <<>> PROVE class \in {"JObject", "JArray"}
    OBVIOUS
  <2>1. Len(items) \in DOMAIN items
    BY EmptySeq, LenProperties DEF IInv, IsSequence
  <2> QED
    BY <2>1 DEF IInv, IsItem
<1>1. CASE jp_check_control_char
  <2>1. Runs("jp_check_control_char") /\ "jp_check_control_char" \notin Marker
    BY <1>1 DEF jp_check_control_char, Marker
  <2>2. CASE c = Head(todo).char
    <3>1. Head(todo).char # "end"
      <4>1. Head(todo) \in Statement
        BY <2>1, <1>r, NextStatement
      <4> QED
        BY <4>1, QuoteIsNoOther DEF Statement, Chars
    <3>2. Goes(<<>>, q + 1) /\ UNCHANGED <<items, result>>
      BY <1>1, <2>2 DEF jp_check_control_char
    <3>3. Len(<<>>) = 0 /\ Block(<<>>, 0, class) /\ q + 1 \in p .. Len(Text) + 1
      BY <1>q, <2>2, <3>1, NoStatements
    <3> QED
      BY <1>r, <2>1, <3>2, <3>3, GoingOnWithTheSame
  <2>3. CASE c # Head(todo).char
    BY <1>1, <2>3, AfterAnException DEF jp_check_control_char
  <2> QED
    BY <2>2, <2>3
<1>2. CASE end_of_text
  BY <1>2, AfterAnException DEF end_of_text
<1>m. ASSUME NEW s, NEW a, Ends(s, a), a.op \in Marker, Block(s, 1, class), op \in Marker, todo # <<>>,
             NEW r \in p .. Len(Text) + 1, Goes(s, r), UNCHANGED <<items, result>>
      PROVE  IInv'
  <2>1. Len(todo) > 1 => Follows(todo[1], todo[2])
    BY <1>m, NextStatement
  <2>2. Len(todo) > 1 => Follows(a, todo[2])
    BY <1>m, <2>1, FollowsInPlace
  <2>3. Len(s) > 0 /\ Len(todo) > 1 => Follows(s[Len(s)], todo[2])
    BY <1>m, <2>2 DEF Ends
  <2>4. items # <<>>
    <3>1. "object" \notin Marker
      BY DEF Marker
    <3> QED
      BY <1>m, <3>1, NextStatement
  <2> QED
    BY <1>m, <2>3, <2>4, GoingOnWithTheSame
(* An item is begun, with a call that goes on building it.                 *)
<1>b. ASSUME NEW cl \in {"JObject", "JArray"}, items' = Begun(cl), NEW s, NEW a, Ends(s, a), a.op \in Marker,
             Block(s, 1, cl), Goes(s, p), UNCHANGED result, todo # <<>>, op \in {"object", "array"},
             items = <<>> => cl = "JObject"
      PROVE  IInv'
  <2> DEFINE x == [class |-> cl, content |-> <<>>, key |-> <<>>, start |-> q]
             n == Len(items)
  <2>1. x.class = cl /\ x.start = q /\ IsItem(x)
    <3>1. q \in Nat
      BY <1>q
    <3> QED
      BY <3>1 DEF IsItem
  <2>2. items' = Append(items, x)
    BY <1>b DEF Begun
  <2> HIDE DEF x
  <2>3. PICK S : items \in Seq(S)
    BY DEF IInv, IsSequence
  <2>4. n \in Nat /\ DOMAIN items = 1 .. n
    BY <2>3, LenProperties
  <2>5. items \in Seq(S \cup {x})
    BY <2>3
  <2>6. /\ items' \in Seq(S \cup {x}) /\ Len(items') = n + 1 /\ items'[n + 1] = x
        /\ \A i \in 1 .. n : items'[i] = items[i]
    BY <2>2, <2>5, AppendProperties
  <2> HIDE DEF n
  <2>7. ASSUME NEW i \in 1 .. n + 1 PROVE i = n + 1 \/ i \in 1 .. n
    BY <2>4
  <2>8. \A i \in 1 .. n + 1 : /\ IsItem(items'[i]) /\ items'[i].start \in 1 .. current_pos + 1
                              /\ i <= n => items'[i].class = items[i].class
    <3>1. ASSUME NEW i \in 1 .. n PROVE /\ IsItem(items'[i]) /\ items'[i].start \in 1 .. current_pos + 1
                                       /\ items'[i].class = items[i].class
      BY <2>4, <2>6 DEF IInv
    <3>2. IsItem(items'[n + 1]) /\ items'[n + 1].start \in 1 .. current_pos + 1 /\ ~(n + 1 <= n)
      BY <1>q, <2>1, <2>4, <2>6
    <3> QED
      BY <2>7, <3>1, <3>2
  <2>9. items'[1].class = "JObject"
    <3>1. CASE items = <<>>
      <4>1. n = 0
        BY <3>1 DEF n
      <4> QED
        BY <1>b, <2>1, <2>6, <3>1, <4>1
    <3>2. CASE items # <<>>
      <4>1. 1 \in 1 .. n
        BY <2>3, <2>4, <3>2, EmptySeq DEF n
      <4> QED
        BY <2>6, <3>2, <4>1 DEF IInv
    <3> QED
      BY <3>1, <3>2
  <2>10. Len(s) > 0 /\ Len(todo) > 1 => Follows(s[Len(s)], todo[2])
    <3>1. Len(todo) > 1 => Follows(todo[1], todo[2])
      BY <1>b, NextStatement
    <3>2. Len(todo) > 1 => Follows(a, todo[2])
      BY <1>b, <3>1, FollowsInPlace
    <3> QED
      BY <1>b, <3>2 DEF Ends
  <2>11. op \notin Marker /\ Len(items') = Len(items) + 1
    BY <1>b, <2>6 DEF Marker, n
  <2>12. items' # <<>> /\ IsSequence(items')
    BY <2>4, <2>6, EmptySeq DEF IsSequence
  <2>13. Block(s, 1, items'[Len(items')].class)
    BY <1>b, <2>1, <2>6
  <2>14. p \in current_pos .. Len(Text) + 1
    BY <1>p
  <2> DEFINE m == 1
  <2>16. /\ m \in {0, 1}
         /\ todo[1].op \in Marker => Len(items') = Len(items) + m - 1
         /\ todo[1].op \notin Marker => Len(items') = Len(items) + m
         /\ Block(s, m, items'[Len(items')].class)
    BY <2>11, <2>13
  <2> HIDE DEF m
  <2>15. \A i \in 1 .. Len(items') : /\ IsItem(items'[i]) /\ items'[i].start \in 1 .. current_pos + 1
                                     /\ i <= Len(items) => items'[i].class = items[i].class
    BY <2>6, <2>8 DEF n
  <2>17. Succeeds(items', items, op, m, p)
    <3>1. IsSequence(items') /\ items' # <<>> /\ items'[1].class = "JObject"
      BY <2>9, <2>12
    <3>2. op \in Marker => Len(items') = Len(items) + m - 1
      BY <2>16
    <3>3. op \notin Marker => Len(items') = Len(items) + m
      BY <2>16
    <3>4. \A i \in 1 .. Len(items') : /\ IsItem(items'[i]) /\ items'[i].start \in 1 .. p + 1
                                      /\ i <= Len(items) => items'[i].class = items[i].class
      BY <2>15
    <3> HIDE DEF op, p
    <3> QED
      BY <3>1, <3>2, <3>3, <3>4 DEF Succeeds
  <2> QED
    BY <1>b, <2>10, <2>14, <2>16, <2>17, GoingOn
<1>3. CASE jp_extract_object
  <2> DEFINE s == <<Require("{")>> \o single_object \o <<Do("further_member")>>
  <2>1. Runs("object") /\ items' = Begun("JObject") /\ Goes(s, p) /\ UNCHANGED result
    BY <1>3 DEF jp_extract_object
  <2>2. Block(s, 1, "JObject")
    BY Blocks, Zenon
  <2>3. Ends(s, Do("further_member"))
    <3> DEFINE a == Do("further_member")
               first == <<Require("{")>> \o single_object
    <3>1. a \in Statement
      BY Statements, Zenon DEF Marker
    <3>2. first \in Seq(Statement)
      BY SingleObject
    <3> HIDE DEF a, first
    <3>3. Ends(first \o <<a>>, a)
      BY <3>1, <3>2, LastStatements
    <3> QED
      BY <3>3 DEF a, first
  <2>4. Do("further_member").op \in Marker
    BY Statements DEF Marker
  <2>5. todo # <<>> /\ op = "object"
    BY <1>r, <2>1
  <2> HIDE DEF s
  <2> QED
    BY <1>b, <2>1, <2>2, <2>3, <2>4, <2>5
<1>4. CASE further_member
  <2>1. Runs("further_member") /\ UNCHANGED <<items, result>> /\ "further_member" \in Marker
    BY <1>4 DEF further_member, Marker
  <2>2. class = "JObject"
    <3>1. class \in {"JObject", "JArray"}
      <4>1. items # <<>>
        BY <1>r, <2>1
      <4> QED
        BY <1>i, <4>1
    <3> QED
      BY <1>r, <2>1, <3>1 DEF Builds
  <2>3. CASE c = "," /\ Goes(single_object \o <<Do("further_member")>>, after_separator(p))
    <3> DEFINE a == Do("further_member")
               s == single_object \o <<a>>
    <3>1. Block(s, 1, class)
      BY <2>2, Blocks, Zenon
    <3>2. a \in Statement /\ a.op \in Marker
      BY Statements DEF Marker
    <3>3. single_object \in Seq(Statement)
      BY SingleObject
    <3> HIDE DEF a
    <3>4. Ends(s, a)
      BY <3>2, <3>3, LastStatements
    <3>5. after_separator(p) \in p .. Len(Text) + 1
      BY <1>q, <2>3 DEF after_separator
    <3>6. Goes(s, after_separator(p))
      BY <2>3 DEF a
    <3> HIDE DEF s
    <3> QED
      BY <1>m, <1>r, <2>1, <3>1, <3>2, <3>4, <3>5, <3>6
  <2>4. CASE c \notin {",", "end"} /\ Goes(<<Require("}"), Do("return")>>, q)
    <3> DEFINE a == Do("return")
               s == <<Require("}"), a>>
    <3>1. Block(s, 1, class)
      BY <2>2, Blocks, Zenon
    <3>2. a.op \in Marker
      BY Statements DEF Marker
    <3>3. Ends(s, a)
      BY LastStatements, Zenon
    <3>4. Goes(s, q)
      BY <2>4
    <3> HIDE DEF s, a
    <3> QED
      BY <1>m, <1>q, <1>r, <2>1, <3>1, <3>2, <3>3, <3>4
  <2> QED
    BY <1>4, <2>3, <2>4 DEF further_member
<1>5. CASE jp_extract_string
  <2>1. Runs("key") \/ Runs("string")
    BY <1>5 DEF jp_extract_string
  <2>2. CASE closing_quote(p) = 0
    BY <1>5, <2>2, AfterAnException DEF jp_extract_string
  <2>3. CASE closing_quote(p) # 0
    <3>1. closing_quote(p) + 1 \in p .. Len(Text) + 1
      <4>1. p <= Len(Text) + 2
        BY <1>p
      <4>2. closing_quote(p) \in 1 .. Len(Text) /\ closing_quote(p) >= p
        BY <1>p, <2>3, <4>1, ClosingQuote
      <4> QED
        BY <1>p, <4>2
    <3>2. /\ Goes(<<>>, closing_quote(p) + 1) /\ UNCHANGED result
          /\ \/ \E item : items' = Handed(items, item)
             \/ \E text : items' = [items EXCEPT ![Len(items)].key = text]
      BY <1>5, <2>3 DEF jp_extract_string
    <3>3. Len(<<>>) = 0 /\ Block(<<>>, 0, class) /\ op \notin Marker /\ todo # <<>> /\ items # <<>>
      BY <1>r, <2>1, NoStatements DEF Marker
    <3> QED
      BY <3>1, <3>2, <3>3, GoingOnWithTheSame
  <2> QED
    BY <2>2, <2>3
<1>6. CASE extract_value
  <2>1. Runs("value") /\ UNCHANGED <<items, result>>
    BY <1>6 DEF extract_value
  <2>2. todo # <<>> /\ op = "value" /\ items # <<>> /\ op \notin Marker
    BY <1>r, <2>1 DEF Marker
  <2>3. ASSUME NEW s, NEW a, Ends(s, a), a.op \in {"string", "object", "array", "int"}, Block(s, 0, class), Goes(s, q)
        PROVE  IInv'
    <3>1. Len(todo) > 1 => Follows(todo[1], todo[2])
      BY <2>2, NextStatement
    <3>2. Len(todo) > 1 => Follows(a, todo[2])
      BY <2>2, <2>3, <3>1, FollowsInPlace
    <3>3. Len(s) > 0 /\ Len(todo) > 1 => Follows(s[Len(s)], todo[2])
      BY <2>3, <3>2 DEF Ends
    <3> QED
      BY <1>q, <2>1, <2>2, <2>3, <3>3, GoingOnWithTheSame
  <2>4. ASSUME NEW o \in {"object", "array", "int"}, Goes(<<Do(o)>>, q) PROVE IInv'
    <3>1. Block(<<Do(o)>>, 0, class)
      BY Blocks, Zenon
    <3>2. Ends(<<Do(o)>>, Do(o)) /\ Do(o).op = o
      BY LastStatements, Statements, Zenon
    <3> DEFINE s == <<Do(o)>>
               a == Do(o)
    <3>3. Goes(s, q) /\ Block(s, 0, class) /\ Ends(s, a) /\ a.op = o
      BY <2>4, <3>1, <3>2
    <3> HIDE DEF s, a
    <3> QED
      BY <2>3, <3>3
  <2>5. ASSUME Goes(value_string, q) PROVE IInv'
    <3>1. Block(value_string, 0, class)
      BY Blocks, Zenon
    <3>2. Ends(value_string, Do("string")) /\ Do("string").op = "string"
      BY LastStatements, Statements, Zenon DEF value_string
    <3> DEFINE a == Do("string")
    <3>3. Ends(value_string, a) /\ a.op = "string"
      BY <3>2
    <3> HIDE DEF a
    <3> QED
      BY <2>3, <2>5, <3>1, <3>3
  <2>6. Goes(value_string, q) \/ \E o \in {"object", "array", "int"} : Goes(<<Do(o)>>, q)
    BY <1>6, Zenon DEF extract_value
  <2> QED
    BY <2>4, <2>5, <2>6
<1>7. CASE extract_empty
  <2>0. Runs("value")
    BY <1>7 DEF extract_empty
  <2>1. c = "{"
    BY <1>7 DEF extract_empty
  <2>5. Goes(<<>>, q + 1) /\ UNCHANGED result
    BY <1>7 DEF extract_empty
  <2>2. Len(<<>>) = 0 /\ Block(<<>>, 0, class) /\ op \notin Marker /\ todo # <<>> /\ items # <<>>
    <3>1. op = "value" /\ todo # <<>> /\ items # <<>>
      BY <1>r, <2>0
    <3> QED
      BY <3>1, NoStatements DEF Marker
  <2>4. \E item : items' = Handed(items, item)
    BY <1>7 DEF extract_empty
  <2>3. q + 1 \in p .. Len(Text) + 1
    BY <1>q, <2>1
  <2> QED
    BY <2>2, <2>3, <2>4, <2>5, GoingOnWithTheSame
<1>8. CASE jp_extract_value_int
  <2> DEFINE end == find_first_of({"}", "]", ","}, p)
  <2>1. Runs("int")
    BY <1>8 DEF jp_extract_value_int
  <2>2. CASE end = 0
    BY <1>8, <2>2, AfterAnException DEF jp_extract_value_int
  <2>3. CASE end # 0
    <3>1. end \in p .. Len(Text) + 1
      <4>1. end \in 1 .. Len(Text) /\ end >= p
        <5>1. p \in Int
          BY <1>p
        <5> QED
          BY <1>p, <2>3, <5>1, FindFirstOf
      <4> HIDE DEF end
      <4> QED
        BY <1>p, <4>1
    <3>2. (\E item : items' = Handed(items, item)) /\ Goes(<<>>, end) /\ UNCHANGED result
      BY <1>8, <2>3 DEF jp_extract_value_int
    <3>3. Len(<<>>) = 0 /\ Block(<<>>, 0, class) /\ op \notin Marker /\ todo # <<>> /\ items # <<>>
      BY <1>r, <2>1, NoStatements DEF Marker
    <3> HIDE DEF end
    <3> QED
      BY <3>1, <3>2, <3>3, GoingOnWithTheSame
  <2> QED
    BY <2>2, <2>3
<1>9. CASE jp_extract_array
  <2> DEFINE a == Do("first_item")
             s == <<Require("["), a>>
  <2>1. Runs("array") /\ items' = Begun("JArray") /\ Goes(s, p) /\ UNCHANGED result
    BY <1>9 DEF jp_extract_array
  <2>2. Block(s, 1, "JArray")
    BY Blocks, Zenon
  <2>3. Ends(s, a)
    BY LastStatements, Zenon
  <2>4. a.op \in Marker
    BY Statements DEF Marker
  <2>5. todo # <<>> /\ op = "array" /\ items # <<>>
    BY <1>r, <2>1
  <2> HIDE DEF s, a
  <2> QED
    BY <1>b, <2>1, <2>2, <2>3, <2>4, <2>5
<1>a. ASSUME class = "JArray", NEW ch \in Chars, NEW r \in p .. Len(Text) + 1, Goes(array_item(ch), r),
             UNCHANGED <<items, result>>, op \in Marker, todo # <<>>
      PROVE  IInv'
  <2> DEFINE a == Further(ch)
             s == array_item(ch)
  <2>1. Block(s, 1, class)
    BY <1>a, Blocks, Zenon
  <2>2. a.op \in Marker
    BY Statements DEF Marker
  <2>3. Ends(s, a)
    <3> DEFINE first == IF ch = "{" THEN <<Do("object")>> ELSE value_string
    <3>1. first \in Seq(Statement)
      <4>1. Block(<<Do("object")>>, 0, class) /\ Block(value_string, 0, class)
        BY Blocks, Zenon
      <4> QED
        BY <4>1, Zenon DEF Block
    <3>2. a \in Statement
      BY Statements
    <3>3. s = first \o <<a>>
      BY Zenon DEF array_item
    <3> HIDE DEF first, a, s
    <3> QED
      BY <3>1, <3>2, <3>3, LastStatements
  <2>4. Goes(s, r)
    BY <1>a
  <2> HIDE DEF s, a
  <2> QED
    BY <1>a, <1>m, <2>1, <2>2, <2>3, <2>4
<1>e. ASSUME class = "JArray", Goes(<<Require("]"), Do("return")>>, q),
             UNCHANGED <<items, result>>, op \in Marker, todo # <<>>
      PROVE  IInv'
  <2> DEFINE a == Do("return")
             s == <<Require("]"), a>>
  <2>1. Block(s, 1, class)
    BY <1>e, Blocks, Zenon
  <2>2. a.op \in Marker
    BY Statements DEF Marker
  <2>3. Ends(s, a)
    BY LastStatements, Zenon
  <2>4. Goes(s, q)
    BY <1>e
  <2> HIDE DEF s, a
  <2> QED
    BY <1>e, <1>m, <1>q, <2>1, <2>2, <2>3, <2>4
<1>10. CASE first_item
  <2>1. Runs("first_item") /\ "first_item" \in Marker
    BY <1>10 DEF first_item, Marker
  <2>2. class = "JArray" /\ op \in Marker /\ todo # <<>>
    BY <1>r, <1>i, <2>1 DEF Builds
  <2>3. CASE c \in {"{", Quote} /\ Goes(array_item(c), q) /\ UNCHANGED <<items, result>>
    BY <1>a, <1>q, <2>2, <2>3 DEF Chars
  <2>4. CASE Goes(<<Require("]"), Do("return")>>, q) /\ UNCHANGED <<items, result>>
    BY <1>e, <2>2, <2>4, Zenon
  <2>5. CASE Throw
    BY <2>5, AfterAnException
  <2> QED
    BY <1>10, <2>3, <2>4, <2>5, Zenon DEF first_item
<1>11. CASE further_item
  <2>1. Runs("further_item") /\ "further_item" \in Marker /\ UNCHANGED <<items, result>>
    BY <1>11 DEF further_item, Marker
  <2>2. class = "JArray" /\ op \in Marker /\ todo # <<>> /\ Head(todo) = todo[1]
    BY <1>r, <1>i, <2>1 DEF Builds
  <2>3. CASE c = "," /\ Goes(array_item(Head(todo).char), after_separator(p))
    <3> DEFINE ch == Head(todo).char
    <3>1. ch \in Chars
      <4>1. Head(todo) \in Statement
        BY <2>2, NextStatement
      <4> QED
        BY <4>1 DEF Statement
    <3>2. after_separator(p) \in p .. Len(Text) + 1
      BY <1>q, <2>3 DEF after_separator
    <3>3. Goes(array_item(ch), after_separator(p))
      BY <2>3
    <3> HIDE DEF ch
    <3> QED
      BY <1>a, <2>1, <2>2, <3>1, <3>2, <3>3
  <2>4. CASE Goes(<<Require("]"), Do("return")>>, q)
    BY <1>e, <2>1, <2>2, <2>4, Zenon
  <2> QED
    BY <1>11, <2>3, <2>4, Zenon DEF further_item
<1>12. CASE return_item
  <2> DEFINE item == [class |-> Last(items).class, content |-> Last(items).content]
             callers == Front(items)
             n == Len(items)
  <2>1. Runs("return") /\ "return" \in Marker /\ Goes(<<>>, p)
    BY <1>12 DEF return_item, Marker
  <2>2. op \in Marker /\ todo # <<>> /\ items # <<>> /\ Len(todo) = n
    <3>1. op = "return" /\ todo # <<>>
      BY <1>r, <2>1
    <3>2. items # <<>>
      BY <1>r, <2>1
    <3> QED
      BY <2>1, <3>1, <3>2, NextStatement
  <2>3. PICK S : items \in Seq(S)
    BY DEF IInv, IsSequence
  <2>4. n \in Nat \ {0} /\ DOMAIN items = 1 .. n
    BY <2>2, <2>3, EmptySeq, LenProperties
  <2>5. callers \in Seq(S) /\ Len(callers) = n - 1 /\ \A i \in 1 .. n - 1 : callers[i] = items[i]
    BY <2>3, <2>4, SubSeqProperties DEF Front
  <2>6. Last(items) = items[n]
    BY DEF Last
  <2> HIDE DEF n
  <2>7. CASE callers = <<>>
    <3>1. items' = <<>> /\ result' = item
      BY <1>12, <2>7 DEF return_item
    <3>2. n = 1
      BY <2>4, <2>5, <2>7
    <3>3. item.class = "JObject"
      BY <2>2, <2>6, <3>2 DEF IInv
    <3>4. item # Running
      BY <3>3 DEF Running
    <3>5. todo' = <<>>
      <4>1. todo \in Seq(Statement) /\ Len(todo) = 1
        BY <2>2, <3>2 DEF IInv
      <4>2. Tail(todo) = <<>>
        <5>1. Tail(todo) \in Seq(Statement) /\ Len(Tail(todo)) = 0
          BY <4>1, <2>2, HeadTailProperties
        <5> QED
          BY <5>1, EmptySeq
      <4> QED
        BY <2>1, <4>2 DEF Goes
    <3>6. current_pos' = p /\ input' = input
      BY <2>1 DEF Goes
    <3>7. Text' = Text
      BY <3>6 DEF Text
    <3>8. IsSequence(items') /\ DOMAIN items' = {} /\ ~(items' # <<>>)
      <4>1. <<>> \in Seq({})
        OBVIOUS
      <4> QED
        BY <3>1, <4>1 DEF IsSequence
    <3> HIDE DEF item
    <3> QED
      BY <3>1, <3>3, <3>4, <3>5, <3>6, <3>7, <3>8 DEF IInv
  <2>8. CASE callers # <<>>
    <3>1. items' = Handed(callers, item) /\ UNCHANGED result
      BY <1>12, <2>8 DEF return_item
    <3>2. IsSequence(callers) /\ DOMAIN callers = 1 .. n - 1 /\ n - 1 \in Nat \ {0}
      BY <2>4, <2>5, <2>8, EmptySeq, LenProperties DEF IsSequence
    <3>3. ASSUME NEW i \in 1 .. n - 1
          PROVE  IsItem(callers[i]) /\ callers[i].start \in 1 .. current_pos + 1 /\ callers[i].class = items[i].class
      <4>1. i \in DOMAIN items /\ callers[i] = items[i]
        BY <2>4, <2>5
      <4> QED
        BY <4>1 DEF IInv
    <3>4. /\ IsSequence(items') /\ items' # <<>> /\ Len(items') = Len(callers)
          /\ \A i \in 1 .. Len(items') : /\ IsItem(items'[i]) /\ items'[i].class = callers[i].class
                                         /\ items'[i].start = callers[i].start
      <4> HIDE DEF callers, item
      <4> QED
        BY <2>8, <3>1, <3>2, <3>3, HandedKeeps
    <3>5. Len(items') = n - 1
      BY <2>5, <3>4
    <3>6. \A i \in 1 .. n - 1 : /\ IsItem(items'[i]) /\ items'[i].start \in 1 .. current_pos + 1
                                /\ items'[i].class = items[i].class
      BY <3>3, <3>4, <3>5
    <3>7. items'[1].class = "JObject"
      <4>1. 1 \in 1 .. n - 1
        BY <2>4, <3>2
      <4> QED
        BY <2>2, <3>6, <4>1 DEF IInv
    <3> DEFINE m == 0
    <3>8. /\ m \in {0, 1}
          /\ todo[1].op \in Marker => Len(items') = Len(items) + m - 1
          /\ todo[1].op \notin Marker => Len(items') = Len(items) + m
      BY <2>2, <2>4, <3>5 DEF n
    <3>9. Len(<<>>) = 0 /\ Block(<<>>, m, items'[Len(items')].class)
      BY NoStatements
    <3> HIDE DEF m
    <3>10. p \in current_pos .. Len(Text) + 1
      BY <1>p
    <3>12. Len(<<>>) > 0 /\ Len(todo) > 1 => Follows(<<>>[Len(<<>>)], todo[2])
      <4>1. ~(Len(<<>>) > 0)
        BY <3>9
      <4> QED
        BY <4>1, Zenon
    <3>11. \A i \in 1 .. Len(items') : /\ IsItem(items'[i]) /\ items'[i].start \in 1 .. current_pos + 1
                                       /\ i <= Len(items) => items'[i].class = items[i].class
      BY <3>5, <3>6
    <3> HIDE DEF callers, item
    <3>13. Succeeds(items', items, op, m, p)
      BY <3>4, <3>7, <3>8, <3>11, Zenon DEF Succeeds
    <3> QED
      BY <2>1, <2>2, <3>1, <3>8, <3>9, <3>10, <3>12, <3>13, GoingOn
  <2> QED
    BY <2>7, <2>8
<1>13. CASE Ended
  <2>1. UNCHANGED vars
    BY <1>13 DEF Ended
  <2> QED
    BY <2>1 DEF vars, IInv, Text
<1> QED
  BY <1>1, <1>2, <1>3, <1>4, <1>5, <1>6, <1>7, <1>8, <1>9, <1>10, <1>11, <1>12, <1>13 DEF Next

(* IInv says more than TypeOK.                                             *)
LEMMA Implied == IInv => TypeOK
<1> SUFFICES ASSUME IInv PROVE TypeOK
  OBVIOUS
<1>1. ASSUME todo # <<>> PROVE Len(items) = Cardinality({i \in DOMAIN todo : todo[i].op \in Marker})
  <2> DEFINE n == Len(items)
             lt == Len(todo)
             C == {i \in DOMAIN todo : todo[i].op \in Marker}
  <2>1. n \in Nat /\ lt \in Nat /\ DOMAIN todo = 1 .. lt
    BY <1>1, NextStatement, LenProperties DEF IInv
  <2>2. n <= lt /\ \A j \in DOMAIN todo : todo[j].op \in Marker <=> j > lt - n
    BY <1>1 DEF IInv, WellNested
  <2> HIDE DEF n, lt
  <2>3. C = lt - n + 1 .. lt
    BY <2>1, <2>2
  <2>4. Cardinality(lt - n + 1 .. lt) = n
    <3>1. Cardinality(lt - n + 1 .. lt) = IF lt - n + 1 > lt THEN 0 ELSE lt - (lt - n + 1) + 1
      <4>1. lt - n + 1 \in Int /\ lt \in Int
        BY <2>1
      <4> QED
        BY <4>1, FS_Interval
    <3> QED
      BY <2>1, <3>1
  <2> QED
    BY <2>3, <2>4 DEF n
<1> QED
  BY <1>1 DEF IInv, TypeOK, IsItem, Marker

(* TypeOK of MCJsonParser, for every set of texts.                         *)
THEOREM TypeCorrect == Spec => []TypeOK
<1>1. Init => IInv
  BY Initially
<1>2. IInv /\ [Next]_vars => IInv'
  <2>1. IInv /\ UNCHANGED vars => IInv'
    BY DEF vars, IInv, Text
  <2> QED
    BY <2>1, Preserved
<1>3. IInv => TypeOK
  BY Implied
<1> QED
  BY <1>1, <1>2, <1>3, PTL DEF Spec

(***************************************************************************)
(* The brackets.                                                           *)
(***************************************************************************)
Left  == {"{", "["}
Right == {"}", "]"}
Depth(a, b) == Count(Left, a, b) - Count(Right, a, b)

IsBracket(p) == Text[p] \in Left \cup Right /\ Outside(p)

(* From the bracket that opens the item x to before p, d brackets are open. *)
Open(x, p, d) ==
  /\ x.start \in Nat \ {0} /\ x.start < p
  /\ Text[x.start] = Opening(x.class)
  /\ Depth(x.start, p - 1) = d
  /\ \A q \in x.start .. p - 1 : Depth(x.start, q) >= 1

(* The bracket before p closes the item x.                                 *)
Closed(x, p) ==
  /\ x.start \in Nat \ {0} /\ x.start < p
  /\ Text[x.start] = Opening(x.class)
  /\ Text[p - 1] = Closing(x.class)
  /\ Depth(x.start, p - 1) = 0
  /\ \A q \in x.start .. p - 2 : Depth(x.start, q) >= 1

(* The statement h is about to read the bracket of the last item, or has   *)
(* passed over the one that ends it; the other items are open.             *)
Opens(h) == h \in {Require("{"), Require("[")}
Nesting(h, its) == IF Opens(h) \/ h.op = "return" THEN Len(its) - 1 ELSE Len(its)

Placed(h, its, p) ==
  /\ \A i \in 1 .. Nesting(h, its) : Open(its[i], p, Nesting(h, its) - i + 1)
  /\ Opens(h) => its[Len(its)].start = control_pos(p)
  /\ h.op = "return" => Closed(its[Len(its)], p)

(* The statements that a quote may follow.                                 *)
BeforeQuote(h) == h = Require(Quote) \/ h.op \in {"key", "string", "value", "first_item"}

BInv ==
  todo # <<>> =>
    /\ Outside(current_pos) <=> todo[1].op \notin {"key", "string"}
    /\ BeforeQuote(todo[1]) => At(current_pos - 1) # "\\"
    /\ Placed(todo[1], items, current_pos)

(* The text of a number has no quote and no bracket that opens.            *)
NumbersArePlain ==
  Runs("int") => \A q \in current_pos .. find_first_of({"}", "]", ","}, current_pos) - 1 :
                   Text[q] \notin {"{", "[", Quote}

(* No bracket opens and closes.                                            *)
LEMMA LeftIsNotRight ==
  /\ Left \cap Right = {}
  /\ \A class : Opening(class) \in Left /\ Closing(class) \in Right
  BY Zenon DEF Left, Right, Opening, Closing

(* The text of a step is the text after it, and with it everything that is *)
(* said of positions.                                                      *)
LEMMA SameText ==
  ASSUME input' = input
  PROVE  /\ Text' = Text
         /\ \A p : At(p)' = At(p)
         /\ Quotes' = Quotes
         /\ \A p : Outside(p)' <=> Outside(p)
         /\ \A S, a, b : Count(S, a, b)' = Count(S, a, b)
<1>1. Text' = Text
  BY DEF Text
<1>2. \A p : At(p)' = At(p)
  BY <1>1 DEF At
<1>3. Quotes' = Quotes
  BY <1>1, <1>2 DEF Quotes
<1>4. \A p : Outside(p)' <=> Outside(p)
  BY <1>3 DEF Outside
<1>5. \A S, a, b : Count(S, a, b)' = Count(S, a, b)
  BY <1>1, <1>4 DEF Count
<1> QED
  BY <1>1, <1>2, <1>3, <1>4, <1>5

(* So is what is said of the brackets of an item.                          *)
LEMMA SameItems ==
  ASSUME input' = input
  PROVE  /\ \A x, p, d : Open(x, p, d)' <=> Open(x, p, d)
         /\ \A x, p : Closed(x, p)' <=> Closed(x, p)
         /\ \A h, its, p : Placed(h, its, p)' <=> Placed(h, its, p)
         /\ EmptyObject' <=> EmptyObject
<1>0. \A a, b : Depth(a, b)' = Depth(a, b)
  BY SameText DEF Depth
<1>1. \A x, p, d : Open(x, p, d)' <=> Open(x, p, d)
  BY <1>0, SameText DEF Open
<1>2. \A x, p : Closed(x, p)' <=> Closed(x, p)
  BY <1>0, SameText DEF Closed
<1>c. ASSUME NEW p PROVE control_pos(p)' = control_pos(p)
  <2>1. control_pos(p)' = IF At(p)' = " " THEN p + 1 ELSE p
    BY DEF control_pos
  <2>2. control_pos(p) = IF At(p) = " " THEN p + 1 ELSE p
    BY DEF control_pos
  <2>3. At(p)' = At(p)
    BY SameText
  <2>4. control_pos(p)' = IF At(p) = " " THEN p + 1 ELSE p
    BY <2>1, <2>3, Zenon
  <2> QED
    BY <2>2, <2>4, Zenon
<1>3. \A p : control_pos(p)' = control_pos(p) /\ control_char(p)' = control_char(p)
  BY <1>c, SameText DEF control_char
<1>4. \A h, its, p : Placed(h, its, p)' <=> Placed(h, its, p)
  BY <1>1, <1>2, <1>3 DEF Placed
<1>5. EmptyObject' <=> EmptyObject
  BY <1>3, SameText DEF EmptyObject
<1> QED
  BY <1>1, <1>2, <1>4, <1>5

(* Counting goes on by one position.                                       *)
LEMMA CountSteps ==
  ASSUME NEW S, NEW a \in Nat \ {0}, NEW q \in Nat, a <= q + 1
  PROVE  /\ Count(S, a, q) \in Nat
         /\ Count(S, a, q + 1) = Count(S, a, q) + (IF Text[q + 1] \in S /\ Outside(q + 1) THEN 1 ELSE 0)
<1> DEFINE C(b) == {p \in a .. b : Text[p] \in S /\ Outside(p)}
<1>1. IsFiniteSet(C(q)) /\ Cardinality(C(q)) \in Nat
  <2>1. IsFiniteSet(a .. q)
    BY FS_Interval
  <2>2. C(q) \subseteq a .. q
    OBVIOUS
  <2> HIDE DEF C
  <2> QED
    BY <2>1, <2>2, FS_Subset, FS_CardinalityType
<1>2. Count(S, a, q) = Cardinality(C(q)) /\ Count(S, a, q + 1) = Cardinality(C(q + 1))
  BY DEF Count
<1>3. q + 1 \notin C(q)
  OBVIOUS
<1>4. CASE Text[q + 1] \in S /\ Outside(q + 1)
  <2>1. C(q + 1) = C(q) \cup {q + 1}
    BY <1>4
  <2> HIDE DEF C
  <2>2. Cardinality(C(q) \cup {q + 1}) = Cardinality(C(q)) + 1
    BY <1>1, <1>3, FS_AddElement
  <2> QED
    BY <1>1, <1>2, <1>4, <2>1, <2>2
<1>5. CASE ~(Text[q + 1] \in S /\ Outside(q + 1))
  <2>1. C(q + 1) = C(q)
    BY <1>5
  <2> HIDE DEF C
  <2> QED
    BY <1>1, <1>2, <1>5, <2>1
<1> QED
  BY <1>4, <1>5

(* Positions that do not count are passed over.                            *)
LEMMA NoneBetween ==
  ASSUME NEW S, NEW a \in Nat \ {0}, NEW p \in Nat, NEW q \in Nat, a <= p + 1, p <= q,
         \A r \in p + 1 .. q : ~(Text[r] \in S /\ Outside(r))
  PROVE  Count(S, a, q) = Count(S, a, p)
<1> DEFINE C(b) == {r \in a .. b : Text[r] \in S /\ Outside(r)}
<1>1. ASSUME NEW r \in C(q) PROVE r \in C(p)
  <2>1. r \in a .. q /\ Text[r] \in S /\ Outside(r)
    OBVIOUS
  <2>2. r \notin p + 1 .. q
    BY <2>1
  <2>3. r \in a .. p
    BY <2>1, <2>2
  <2> QED
    BY <2>1, <2>3
<1>2. ASSUME NEW r \in C(p) PROVE r \in C(q)
  OBVIOUS
<1>3. C(q) = C(p)
  <2> HIDE DEF C
  <2> QED
    BY <1>1, <1>2
<1>4. Count(S, a, q) = Cardinality(C(q)) /\ Count(S, a, p) = Cardinality(C(p))
  BY DEF Count
<1> QED
  BY <1>3, <1>4

(* Without a quote between them, two positions are both outside or both    *)
(* inside of a string.                                                     *)
LEMMA SameSide ==
  ASSUME NEW p \in Nat, NEW q \in Nat, p <= q, \A r \in p .. q - 1 : r \notin Quotes, input \in Inputs
  PROVE  Outside(q) <=> Outside(p)
<1> DEFINE B(b) == {r \in Quotes : r < b}
<1>1. Quotes \subseteq Nat
  BY Characters DEF Quotes
<1>2. B(q) = B(p)
  <2> SUFFICES ASSUME NEW r \in Quotes PROVE r < q <=> r < p
    OBVIOUS
  <2>1. r \in Nat
    BY <1>1
  <2>2. r \notin p .. q - 1
    OBVIOUS
  <2> QED
    BY <2>1, <2>2
<1> QED
  BY <1>2 DEF Outside

(* A quote leads from the outside to the inside and back.                  *)
LEMMA OtherSide ==
  ASSUME NEW q \in Quotes, input \in Inputs
  PROVE  Outside(q + 1) <=> ~Outside(q)
<1> DEFINE B(b) == {r \in Quotes : r < b}
<1>1. Quotes \subseteq 1 .. Len(Text) /\ Len(Text) \in Nat
  BY Characters DEF Quotes
<1>2. IsFiniteSet(Quotes)
  <2>1. IsFiniteSet(1 .. Len(Text))
    BY <1>1, FS_Interval
  <2> QED
    BY <1>1, <2>1, FS_Subset
<1>3. IsFiniteSet(B(q)) /\ Cardinality(B(q)) \in Nat
  <2>1. B(q) \subseteq Quotes
    OBVIOUS
  <2> QED
    BY <1>2, <2>1, FS_Subset, FS_CardinalityType
<1>4. q \in Nat
  BY <1>1
<1>5. B(q + 1) = B(q) \cup {q}
  <2> SUFFICES ASSUME NEW r \in Quotes PROVE r < q + 1 <=> r < q \/ r = q
    OBVIOUS
  <2>1. r \in Nat
    BY <1>1
  <2> QED
    BY <1>4, <2>1
<1>6. q \notin B(q)
  BY <1>4
<1>7. Outside(q + 1) <=> Cardinality(B(q + 1)) % 2 = 0
  BY DEF Outside
<1>8. Outside(q) <=> Cardinality(B(q)) % 2 = 0
  BY DEF Outside
<1> HIDE DEF B
<1>9. Cardinality(B(q + 1)) = Cardinality(B(q)) + 1
  BY <1>3, <1>5, <1>6, FS_AddElement
<1> QED
  BY <1>3, <1>7, <1>8, <1>9

(* A bracket changes the depth by one.                                     *)
LEMMA DepthSteps ==
  ASSUME NEW a \in Nat \ {0}, NEW q \in Nat, a <= q + 1
  PROVE  /\ Depth(a, q) \in Int
         /\ ~IsBracket(q + 1) => Depth(a, q + 1) = Depth(a, q)
         /\ Outside(q + 1) /\ Text[q + 1] \in Left => Depth(a, q + 1) = Depth(a, q) + 1
         /\ Outside(q + 1) /\ Text[q + 1] \in Right => Depth(a, q + 1) = Depth(a, q) - 1
<1>1. \A S : /\ Count(S, a, q) \in Nat
             /\ Count(S, a, q + 1) = Count(S, a, q) + (IF Text[q + 1] \in S /\ Outside(q + 1) THEN 1 ELSE 0)
  BY CountSteps
<1> QED
  BY <1>1, LeftIsNotRight DEF Depth, IsBracket

(* Where no bracket is the depth stays.                                    *)
LEMMA DepthKept ==
  ASSUME NEW a \in Nat \ {0}, NEW p \in Nat, NEW q \in Nat, a <= p + 1, p <= q,
         \A r \in p + 1 .. q : ~IsBracket(r)
  PROVE  Depth(a, q) = Depth(a, p)
<1>1. \A r \in p + 1 .. q : ~(Text[r] \in Left /\ Outside(r)) /\ ~(Text[r] \in Right /\ Outside(r))
  BY DEF IsBracket
<1>2. Count(Left, a, q) = Count(Left, a, p)
  BY <1>1, NoneBetween
<1>3. Count(Right, a, q) = Count(Right, a, p)
  BY <1>1, NoneBetween
<1> QED
  BY <1>2, <1>3 DEF Depth

(* An open item stays open where no bracket is.                            *)
LEMMA StaysOpen ==
  ASSUME NEW x, NEW p \in Nat, NEW q \in Nat, NEW d, p <= q, Open(x, p, d), \A r \in p .. q - 1 : ~IsBracket(r)
  PROVE  Open(x, q, d)
<1> DEFINE a == x.start
<1>1. a \in Nat \ {0} /\ a < p /\ Depth(a, p - 1) = d /\ \A r \in a .. p - 1 : Depth(a, r) >= 1
  BY DEF Open
<1>2. Text[a] = Opening(x.class)
  BY DEF Open
<1> HIDE DEF a
<1>3. ASSUME NEW r \in p - 1 .. q - 1 PROVE Depth(a, r) = d
  <2>1. p - 1 \in Nat /\ r \in Nat /\ p - 1 <= r /\ a <= p - 1 + 1 /\ \A s \in p - 1 + 1 .. r : ~IsBracket(s)
    BY <1>1
  <2>2. Depth(a, r) = Depth(a, p - 1)
    BY <1>1, <2>1, DepthKept
  <2> QED
    BY <1>1, <2>2
<1>4. d >= 1
  BY <1>1
<1>5. ASSUME NEW r \in a .. q - 1 PROVE Depth(a, r) >= 1
  BY <1>1, <1>3, <1>4
<1>6. Depth(a, q - 1) = d /\ a < q
  BY <1>1, <1>3
<1> QED
  BY <1>1, <1>2, <1>5, <1>6 DEF Open, a

(* What a bracket does to an open item.                                    *)
LEMMA AcrossABracket ==
  ASSUME NEW x, NEW p \in Nat, NEW d \in Nat, Open(x, p, d), Outside(p)
  PROVE  /\ Text[p] \in Left => Open(x, p + 1, d + 1)
         /\ Text[p] \in Right /\ d > 1 => Open(x, p + 1, d - 1)
         /\ Text[p] \in Right /\ d = 1 /\ Text[p] = Closing(x.class) => Closed(x, p + 1)
<1> DEFINE a == x.start
<1>1. a \in Nat \ {0} /\ a < p /\ Depth(a, p - 1) = d /\ \A r \in a .. p - 1 : Depth(a, r) >= 1
  BY DEF Open
<1>2. Text[a] = Opening(x.class)
  BY DEF Open
<1>3. p - 1 \in Nat /\ a <= p - 1 + 1 /\ p - 1 + 1 = p /\ p + 1 - 1 = p /\ p + 1 - 2 = p - 1
  BY <1>1
<1> HIDE DEF a
<1>4. /\ Text[p] \in Left => Depth(a, p) = d + 1
      /\ Text[p] \in Right => Depth(a, p) = d - 1
  BY <1>1, <1>3, DepthSteps
<1>5. CASE Text[p] \in Left
  <2>1. Depth(a, p) = d + 1 /\ Text[p] \notin Right
    BY <1>4, <1>5, LeftIsNotRight
  <2>2. \A r \in a .. p : Depth(a, r) >= 1
    BY <1>1, <2>1
  <2>3. Open(x, p + 1, d + 1)
    BY <1>1, <1>2, <1>3, <2>1, <2>2 DEF Open, a
  <2> QED
    BY <2>1, <2>3
<1>6. CASE Text[p] \in Right
  <2>1. Depth(a, p) = d - 1 /\ Text[p] \notin Left
    BY <1>4, <1>6, LeftIsNotRight
  <2>2. ASSUME d > 1 PROVE Open(x, p + 1, d - 1)
    <3>1. \A r \in a .. p : Depth(a, r) >= 1
      BY <1>1, <2>1, <2>2
    <3> QED
      BY <1>1, <1>2, <1>3, <2>1, <3>1 DEF Open, a
  <2>3. ASSUME d = 1, Text[p] = Closing(x.class) PROVE Closed(x, p + 1)
    BY <1>1, <1>2, <1>3, <2>1, <2>3 DEF Closed, a
  <2> QED
    BY <2>1, <2>2, <2>3
<1> QED
  BY <1>5, <1>6

(* The bracket at p opens an item.                                         *)
LEMMA BracketOpens ==
  ASSUME NEW x, NEW p \in Nat \ {0}, x.start = p, Outside(p), Text[p] \in Left, Text[p] = Opening(x.class)
  PROVE  Open(x, p + 1, 1)
<1>1. p - 1 \in Nat /\ p - 1 + 1 = p /\ p <= p - 1 + 1 /\ p + 1 - 1 = p
  OBVIOUS
<1>2. \A S : Count(S, p, p - 1) = 0
  <2> SUFFICES ASSUME NEW S PROVE Count(S, p, p - 1) = 0
    OBVIOUS
  <2> DEFINE C == {r \in p .. p - 1 : Text[r] \in S /\ Outside(r)}
  <2>1. C = {}
    OBVIOUS
  <2>2. Count(S, p, p - 1) = Cardinality(C)
    BY DEF Count
  <2> HIDE DEF C
  <2> QED
    BY <2>1, <2>2, FS_EmptySet
<1>3. Depth(p, p - 1) = 0
  BY <1>2 DEF Depth
<1>4. Depth(p, p) = 0 + 1
  BY <1>1, <1>3, DepthSteps
<1> QED
  BY <1>1, <1>4 DEF Open

(* An item that is closed stands between its brackets.                     *)
LEMMA ClosedEncloses ==
  ASSUME NEW x, NEW p \in Nat, Closed(x, p)
  PROVE  Encloses(x.start, p - 1)
<1> DEFINE a == x.start
<1>1. /\ a \in Nat \ {0} /\ a < p
      /\ Depth(a, p - 1) = 0 /\ \A r \in a .. p - 2 : Depth(a, r) >= 1
  BY DEF Closed
<1>2. Text[a] = Opening(x.class) /\ Text[p - 1] = Closing(x.class)
  BY DEF Closed
<1>3. <<Text[a], Text[p - 1]>> \in {<<"{", "}">>, <<"[", "]">>}
  BY <1>2, Zenon DEF Opening, Closing
<1> HIDE DEF a
<1>4. ASSUME NEW r \in a .. p - 1
      PROVE  Count(Left, a, r) = Count(Right, a, r) <=> r = p - 1
  <2>1. r \in Nat /\ a <= r + 1
    BY <1>1
  <2>2. Count(Left, a, r) \in Nat /\ Count(Right, a, r) \in Nat
    BY <1>1, <2>1, CountSteps
  <2>3. Depth(a, r) = 0 <=> r = p - 1
    <3>1. r # p - 1 => r \in a .. p - 2
      BY <1>1
    <3> QED
      BY <1>1, <3>1
  <2> QED
    BY <2>2, <2>3 DEF Depth
<1>5. \A r \in a .. p - 1 : Count({"{", "["}, a, r) = Count({"}", "]"}, a, r) <=> r = p - 1
  BY <1>4, Zenon DEF Left, Right
<1> QED
  BY <1>3, <1>5, Zenon DEF Encloses, a

(* The first of some statements.                                           *)
Starts(s, a) == s \in Seq(Statement) /\ Len(s) > 0 /\ s[1] = a

(* What starts some statements starts them with others behind them.        *)
LEMMA FirstStatements ==
  /\ \A a \in Statement : Starts(<<a>>, a)
  /\ \A a, b \in Statement : Starts(<<a, b>>, a)
  /\ \A s, t \in Seq(Statement), a \in Statement : Starts(s, a) => Starts(s \o t, a)
<1>1. ASSUME NEW a \in Statement PROVE Starts(<<a>>, a)
  BY DEF Starts
<1>2. ASSUME NEW a \in Statement, NEW b \in Statement PROVE Starts(<<a, b>>, a)
  BY DEF Starts
<1>3. ASSUME NEW s \in Seq(Statement), NEW t \in Seq(Statement), NEW a \in Statement, Starts(s, a)
      PROVE  Starts(s \o t, a)
  <2> DEFINE n == Len(s)
             m == Len(t)
  <2>1. n \in Nat /\ m \in Nat /\ n > 0 /\ s[1] = a
    BY <1>3, LenProperties DEF Starts
  <2>2. s \o t \in Seq(Statement) /\ Len(s \o t) = n + m
    BY ConcatProperties
  <2>3. (s \o t)[1] = s[1]
    BY <2>1
  <2> HIDE DEF n, m
  <2>4. n + m > 0
    BY <2>1
  <2> QED
    BY <2>1, <2>2, <2>3, <2>4 DEF Starts
<1> QED
  BY <1>1, <1>2, <1>3

(* What the functions run first.                                           *)
LEMMA FirstOfFunctions ==
  /\ Starts(<<Require("{")>> \o single_object \o <<Do("further_member")>>, Require("{"))
  /\ Starts(single_object \o <<Do("further_member")>>, Require(Quote))
  /\ Starts(<<Require("["), Do("first_item")>>, Require("["))
  /\ Starts(<<Require("}"), Do("return")>>, Require("}"))
  /\ Starts(<<Require("]"), Do("return")>>, Require("]"))
  /\ Starts(value_string, Require(Quote))
  /\ \A o \in {"object", "array", "int"} : Starts(<<Do(o)>>, Do(o))
  /\ \A c \in Chars : Starts(array_item(c), IF c = "{" THEN Do("object") ELSE Require(Quote))
<1> DEFINE r0 == Require("{")
           r1 == Require(Quote)
           r2 == Do("key")
           r3 == Require(":")
           r4 == Do("value")
           more == Do("further_member")
           string == Do("string")
           object == Do("object")
           a0 == Require("[")
           a1 == Do("first_item")
           return == Do("return")
           e0 == Require("}")
           e1 == Require("]")
<1>1. /\ r0 \in Statement /\ r1 \in Statement /\ r2 \in Statement /\ r3 \in Statement /\ r4 \in Statement
      /\ more \in Statement /\ string \in Statement /\ object \in Statement
      /\ a0 \in Statement /\ a1 \in Statement /\ return \in Statement /\ e0 \in Statement /\ e1 \in Statement
  BY Statements DEF Marker
<1>2. single_object = <<r1, r2, r3, r4>> /\ value_string = <<r1, string>>
  BY Zenon DEF single_object, value_string
<1>3. \A o \in {"object", "array", "int"} : Do(o) \in Statement
  BY Statements
<1>4. \A c \in Chars : /\ Further(c) \in Statement
                       /\ array_item(c) = (IF c = "{" THEN <<object>> ELSE value_string) \o <<Further(c)>>
  BY Statements, Zenon DEF array_item
<1> HIDE DEF r0, r1, r2, r3, r4, more, string, object, a0, a1, return, e0, e1
<1>5. Starts(<<r1, r2, r3, r4>>, r1)
  BY <1>1 DEF Starts
<1>6. single_object \in Seq(Statement) /\ Starts(single_object, r1)
  BY <1>2, <1>5 DEF Starts
<1>7. <<r0>> \in Seq(Statement) /\ Starts(<<r0>>, r0) /\ <<more>> \in Seq(Statement)
  BY <1>1, FirstStatements
<1>8. Starts(<<r0>> \o single_object, r0) /\ <<r0>> \o single_object \in Seq(Statement)
  BY <1>1, <1>6, <1>7, FirstStatements, ConcatProperties
<1>9. Starts(<<r0>> \o single_object \o <<more>>, r0) /\ Starts(single_object \o <<more>>, r1)
  BY <1>1, <1>6, <1>7, <1>8, FirstStatements
<1>10. Starts(<<a0, a1>>, a0) /\ Starts(<<e0, return>>, e0) /\ Starts(<<e1, return>>, e1)
  BY <1>1, FirstStatements
<1>11. Starts(value_string, r1)
  BY <1>1, <1>2, FirstStatements
<1>12. \A o \in {"object", "array", "int"} : Starts(<<Do(o)>>, Do(o))
  BY <1>3, FirstStatements
<1>13. ASSUME NEW c \in Chars PROVE Starts(array_item(c), IF c = "{" THEN object ELSE r1)
  <2>1. Starts(<<object>>, object) /\ <<object>> \in Seq(Statement)
    BY <1>1, FirstStatements
  <2>2. value_string \in Seq(Statement) /\ <<Further(c)>> \in Seq(Statement)
    BY <1>4, <1>11, FirstStatements DEF Starts
  <2>3. Starts(<<object>> \o <<Further(c)>>, object) /\ Starts(value_string \o <<Further(c)>>, r1)
    BY <1>1, <1>11, <2>1, <2>2, FirstStatements
  <2> QED
    BY <1>4, <2>3, Zenon
<1> QED
  BY <1>9, <1>10, <1>11, <1>12, <1>13, Zenon DEF r0, r1, more, object, a0, a1, return, e0, e1

(* The statement that is run after the ones s in place of the first.       *)
LEMMA AfterAStep ==
  ASSUME IInv, todo # <<>>, NEW s \in Seq(Statement), NEW p, Goes(s, p), todo' # <<>>
  PROVE  /\ \A a : Starts(s, a) => todo'[1] = a
         /\ Len(s) = 0 => Follows(todo[1], todo'[1])
<1>1. todo \in Seq(Statement) /\ Len(todo) \in Nat \ {0}
  BY NextStatement DEF IInv
<1>2. todo' = s \o Tail(todo)
  BY DEF Goes
<1>3. /\ todo' \in Seq(Statement) /\ Len(todo') = Len(s) + Len(todo) - 1
      /\ \A j \in 1 .. Len(s) : todo'[j] = s[j]
      /\ \A j \in Len(s) + 1 .. Len(s) + Len(todo) - 1 : todo'[j] = todo[j - Len(s) + 1]
  BY <1>1, <1>2, InPlaceOfHead
<1>4. ASSUME NEW a, Starts(s, a) PROVE todo'[1] = a
  <2>1. Len(s) \in Nat /\ Len(s) > 0 /\ s[1] = a
    BY <1>4, LenProperties DEF Starts
  <2>2. 1 \in 1 .. Len(s)
    BY <2>1
  <2> QED
    BY <1>3, <2>1, <2>2
<1>5. ASSUME Len(s) = 0 PROVE Follows(todo[1], todo'[1])
  <2>1. Len(todo') > 0 /\ Len(todo') \in Nat
    BY <1>3, EmptySeq, LenProperties
  <2> DEFINE n == Len(todo)
  <2>2. n - 1 > 0 /\ n \in Nat /\ \A j \in 1 .. n - 1 : todo'[j] = todo[j - 0 + 1]
    <3>1. Len(todo') = n - 1
      BY <1>1, <1>3, <1>5
    <3>2. \A j \in 0 + 1 .. 0 + n - 1 : todo'[j] = todo[j - 0 + 1]
      BY <1>3, <1>5
    <3> HIDE DEF n
    <3> QED
      BY <1>1, <2>1, <3>1, <3>2 DEF n
  <2>3. todo'[1] = todo[2] /\ n > 1
    <3> HIDE DEF n
    <3>1. 1 \in 1 .. n - 1 /\ 1 - 0 + 1 = 2
      BY <2>2
    <3> QED
      BY <2>2, <3>1
  <2> QED
    BY <2>3, NextStatement
<1> QED
  BY <1>4, <1>5

(* What the statements after the check of a character do.                  *)
LEMMA AfterACheck ==
  ASSUME NEW a, NEW b, Follows(a, b), a.op = "jp_check_control_char"
  PROVE  \/ a = Require("{") /\ b = Require(Quote)
         \/ a = Require(Quote) /\ b.op \in {"key", "string"}
         \/ a = Require(":") /\ b.op = "value"
         \/ a = Require("[") /\ b.op = "first_item"
         \/ a \in {Require("}"), Require("]")} /\ b.op = "return"
  BY Zenon DEF Follows, Marker

(* Only the check of an opening bracket opens an item.                     *)
LEMMA NoBracket ==
  /\ \A h : h.op # "jp_check_control_char" => ~Opens(h) /\ h # Require(Quote)
  /\ \A c : c \notin Left => ~Opens(Require(c))
  /\ \A c : c \in Left => Opens(Require(c))
<1>1. \A c : Require(c).op = "jp_check_control_char" /\ Require(c).char = c
  BY Statements
<1> QED
  BY <1>1, Zenon DEF Opens, Left

(* Behind a statement that checks no character come neither a string nor a *)
(* bracket that opens, nor a return.                                       *)
LEMMA AfterOthers ==
  ASSUME NEW a, NEW b, Follows(a, b), a.op # "jp_check_control_char"
  PROVE  b.op \notin {"key", "string", "return"} /\ ~Opens(b) /\ ~BeforeQuote(b)
<1>1. b = Require(":") \/ b.op \in {"further_member", "further_item"}
  <2>1. \A c : Require(c).op = "jp_check_control_char"
    BY Statements
  <2> QED
    BY <2>1, Zenon DEF Follows
<1>2. CASE b = Require(":")
  <2>1. b.op = "jp_check_control_char" /\ b.char = ":"
    BY <1>2, Statements
  <2>2. Require(Quote).char = Quote /\ Quote # ":"
    BY Statements, QuoteIsNoOther
  <2>3. ":" \notin Left
    BY Zenon DEF Left
  <2>4. ~Opens(b)
    BY <1>2, <2>3, NoBracket
  <2>5. b # Require(Quote)
    BY <2>1, <2>2
  <2>6. b.op \notin {"key", "string", "return", "value", "first_item"}
    BY <2>1
  <2> QED
    BY <2>4, <2>5, <2>6 DEF BeforeQuote
<1>3. CASE b.op \in {"further_member", "further_item"}
  <2>1. b.op \notin {"key", "string", "return", "value", "first_item", "jp_check_control_char"}
    BY <1>3
  <2>2. ~Opens(b) /\ b # Require(Quote)
    BY <2>1, NoBracket
  <2> QED
    BY <2>1, <2>2 DEF BeforeQuote
<1> QED
  BY <1>1, <1>2, <1>3

SameKinds(its2, its) ==
  /\ Len(its2) = Len(its)
  /\ \A i \in 1 .. Len(its) : its2[i].class = its[i].class /\ its2[i].start = its[i].start

(* A statement that neither opens an item nor returns one.                 *)
Quiet(h) == ~Opens(h) /\ h.op # "return"

(* Whether an item is open depends on its class and on where it starts.    *)
LEMMA SameKindOpen ==
  ASSUME NEW x, NEW y, x.class = y.class, x.start = y.start, NEW p, NEW d
  PROVE  Open(x, p, d) <=> Open(y, p, d)
  BY DEF Open

(* No bracket between two quiet statements.                                *)
LEMMA PlacedAsBefore ==
  ASSUME NEW h, NEW h2, Quiet(h), Quiet(h2), NEW its, NEW its2, SameKinds(its2, its),
         NEW p \in Nat, NEW p2 \in Nat, p <= p2, \A r \in p .. p2 - 1 : ~IsBracket(r),
         Placed(h, its, p)
  PROVE  Placed(h2, its2, p2)
<1> DEFINE n == Len(its)
<1>1. Nesting(h, its) = n /\ Nesting(h2, its2) = n
  BY DEF Quiet, Nesting, SameKinds
<1>2. \A i \in 1 .. n : Open(its[i], p, n - i + 1)
  BY <1>1 DEF Placed
<1>3. ASSUME NEW i \in 1 .. n PROVE Open(its2[i], p2, n - i + 1)
  <2>1. Open(its[i], p2, n - i + 1)
    BY <1>2, StaysOpen
  <2> QED
    BY <2>1, SameKindOpen DEF SameKinds
<1> QED
  BY <1>1, <1>3 DEF Placed, Quiet

(* The characters between brackets and quotes. SMT takes no string of a    *)
(* bracket or a comma, so Zenon says what differs.                         *)
LEMMA Neutral == /\ " " \notin Left \cup Right /\ " " # Quote /\ " " # "\\"
                 /\ "," \notin Left \cup Right /\ "," # Quote /\ "," # "\\" /\ "," # "end"
                 /\ ":" \notin Left \cup Right /\ ":" # Quote /\ ":" # "\\" /\ ":" # "end"
                 /\ Quote \notin Left \cup Right /\ Quote # "\\" /\ Quote # "end"
                 /\ \A c \in Left \cup Right : c # "end" /\ c # "\\"
<1>1. Quote \notin Left \cup Right /\ Quote # "\\" /\ Quote # "end" /\ Quote # " " /\ Quote # "," /\ Quote # ":"
  BY QuoteIsNoOther, Zenon DEF Left, Right
<1>2. " " \notin Left \cup Right /\ "," \notin Left \cup Right /\ ":" \notin Left \cup Right
  BY Zenon DEF Left, Right
<1>3. " " # "\\" /\ "," # "\\" /\ ":" # "\\" /\ "," # "end" /\ ":" # "end"
  BY Zenon
<1>4. \A c \in Left \cup Right : c # "end" /\ c # "\\"
  BY Zenon DEF Left, Right
<1> QED
  BY <1>1, <1>2, <1>3, <1>4, Zenon

(* A space that is skipped changes nothing, and neither does a control     *)
(* character that is no quote and no bracket.                              *)
LEMMA OverSpace ==
  ASSUME input \in Inputs, NEW p \in Nat \ {0}
  PROVE  LET q == control_pos(p)
         IN  /\ q \in Nat \ {0} /\ p <= q
             /\ \A r \in p .. q - 1 : r \notin Quotes /\ ~IsBracket(r)
             /\ Outside(q) <=> Outside(p)
             /\ At(p - 1) # "\\" => At(q - 1) # "\\"
             /\ At(q) # "end" => At(q) = Text[q]
             /\ At(q) \notin {"end", Quote} => Outside(q + 1) <=> Outside(p)
             /\ At(q) \notin {"end", Quote} \cup Left \cup Right => \A r \in p .. q : ~IsBracket(r)
             /\ At(q) = Quote => \A r \in p .. q : ~IsBracket(r)
<1> DEFINE q == control_pos(p)
<1>1. q \in {p, p + 1}
  BY ControlPositions
<1>s. q = p + 1 => p \in DOMAIN Text /\ At(p) = " "
  BY ControlPositions
<1>2. \A r \in DOMAIN Text : At(r) = Text[r]
  BY Characters
<1>3. At(q) # "end" => At(q) = Text[q]
  BY Characters
<1> HIDE DEF q
<1>4. ASSUME NEW r \in p .. q - 1 PROVE r \notin Quotes /\ ~IsBracket(r)
  <2>1. r = p /\ q = p + 1
    BY <1>1
  <2>2. Text[r] = " "
    BY <1>s, <1>2, <2>1
  <2> QED
    BY <2>2, Neutral DEF Quotes, IsBracket
<1>5. q \in Nat \ {0} /\ p <= q
  BY <1>1
<1>6. Outside(q) <=> Outside(p)
  BY <1>4, <1>5, SameSide
<1>7. ASSUME At(q) \notin {"end", Quote} PROVE Outside(q + 1) <=> Outside(p)
  <2>1. q \notin Quotes
    BY <1>3, <1>7 DEF Quotes
  <2>2. q + 1 \in Nat /\ q <= q + 1 /\ \A r \in q .. q + 1 - 1 : r = q
    BY <1>5
  <2>3. Outside(q + 1) <=> Outside(q)
    BY <1>5, <2>1, <2>2, SameSide
  <2> QED
    BY <1>6, <2>3
<1>8. ASSUME At(q) # "end", At(q) \notin Left \cup Right PROVE \A r \in p .. q : ~IsBracket(r)
  <2>1. ~IsBracket(q)
    BY <1>3, <1>8 DEF IsBracket
  <2>2. \A r \in p .. q : r = q \/ r \in p .. q - 1
    BY <1>5
  <2> QED
    BY <1>4, <2>1, <2>2
<1>9. At(p - 1) # "\\" => At(q - 1) # "\\"
  <2>1. CASE q = p
    BY <2>1
  <2>2. CASE q = p + 1
    <3>1. q - 1 = p
      BY <2>2
    <3> QED
      BY <1>s, <2>2, <3>1, Neutral
  <2> QED
    BY <1>1, <2>1, <2>2
<1>10. At(q) = Quote => \A r \in p .. q : ~IsBracket(r)
  BY <1>8, Neutral
<1> QED
  BY <1>3, <1>4, <1>5, <1>6, <1>7, <1>8, <1>9, <1>10 DEF q

(* What BInv asks for after a step.                                        *)
LEMMA Tracked ==
  ASSUME input' = input,
         todo' # <<>> => /\ Outside(current_pos') <=> todo'[1].op \notin {"key", "string"}
                         /\ BeforeQuote(todo'[1]) => At(current_pos' - 1) # "\\"
                         /\ Placed(todo'[1], items', current_pos')
  PROVE  BInv'
  BY SameText, SameItems DEF BInv

(* What is known before a step of the function that runs op.               *)
LEMMA BeforeAStep ==
  ASSUME IInv, BInv, NEW op, Runs(op)
  PROVE  /\ input \in Inputs /\ current_pos \in Nat \ {0} /\ current_pos <= Len(Text) + 1
         /\ todo # <<>> /\ Head(todo) = todo[1] /\ todo[1].op = op /\ todo[1] \in Statement
         /\ Outside(current_pos) <=> op \notin {"key", "string"}
         /\ BeforeQuote(todo[1]) => At(current_pos - 1) # "\\"
         /\ Placed(todo[1], items, current_pos)
         /\ op \notin {"return", "jp_check_control_char"} => Quiet(todo[1])
         /\ SameKinds(items, items)
         /\ op # "object" => /\ IsSequence(items) /\ items # <<>> /\ \A i \in DOMAIN items : IsItem(items[i])
                             /\ Len(items) \in Nat \ {0}
<1>1. todo # <<>> /\ Head(todo).op = op
  BY DEF Runs
<1>2. Head(todo) = todo[1] /\ todo[1] \in Statement /\ (op # "object" => items # <<>>)
      /\ Len(items) \in Nat /\ DOMAIN items = 1 .. Len(items)
  BY <1>1, NextStatement
<1>3. input \in Inputs /\ current_pos \in Nat \ {0} /\ current_pos <= Len(Text) + 1
  BY Characters DEF IInv
<1>4. op # "jp_check_control_char" => ~Opens(todo[1])
  BY <1>1, <1>2, NoBracket
<1>5. IsSequence(items) /\ (items # <<>> => Len(items) # 0) /\ \A i \in DOMAIN items : IsItem(items[i])
  BY EmptySeq DEF IInv, IsSequence
<1> QED
  BY <1>1, <1>2, <1>3, <1>4, <1>5 DEF BInv, Quiet, SameKinds

(* A character that is checked: a bracket opens the innermost item or      *)
(* closes it, a quote starts a string, a colon is passed over.             *)
LEMMA TracksCheck == ASSUME IInv, BInv, jp_check_control_char PROVE BInv'
<1> DEFINE p == current_pos
           q == control_pos(p)
           h == todo[1]
           h2 == todo'[1]
           n == Len(items)
<1>1. Runs("jp_check_control_char") /\ input' = input
  BY DEF jp_check_control_char, Goes, Throw
<1>2. /\ input \in Inputs /\ p \in Nat \ {0} /\ todo # <<>> /\ Head(todo) = h /\ h.op = "jp_check_control_char"
      /\ Outside(p) /\ (BeforeQuote(h) => At(p - 1) # "\\") /\ Placed(h, items, p)
      /\ SameKinds(items, items) /\ n \in Nat \ {0} /\ DOMAIN items = 1 .. n
  BY <1>1, BeforeAStep, NextStatement
<1>3. CASE control_char(p) # h.char
  <2>1. todo' = <<>>
    BY <1>2, <1>3 DEF jp_check_control_char, Throw
  <2> QED
    BY <1>1, <2>1, Tracked
<1>4. CASE control_char(p) = h.char /\ todo' # <<>>
  <2>1. Goes(<<>>, q + 1) /\ items' = items
    BY <1>2, <1>4 DEF jp_check_control_char
  <2>2. current_pos' = q + 1
    BY <2>1 DEF Goes
  <2>3. <<>> \in Seq(Statement) /\ Len(<<>>) = 0
    OBVIOUS
  <2>4. Follows(h, h2)
    BY <1>2, <1>4, <2>1, <2>3, AfterAStep
  <2>c. At(q) = h.char
    BY <1>4 DEF control_char
  <2>5. /\ q \in Nat \ {0} /\ p <= q
        /\ \A r \in p .. q - 1 : r \notin Quotes /\ ~IsBracket(r)
        /\ Outside(q)
        /\ At(p - 1) # "\\" => At(q - 1) # "\\"
        /\ At(q) # "end" => At(q) = Text[q]
        /\ At(q) \notin {"end", Quote} => Outside(q + 1)
        /\ At(q) \notin {"end", Quote} \cup Left \cup Right => \A r \in p .. q : ~IsBracket(r)
        /\ At(q) = Quote => \A r \in p .. q : ~IsBracket(r)
    BY <1>2, OverSpace, Zenon
  <2>6. \A c : Require(c).char = c
    BY Statements
  <2> HIDE DEF p, q, h, h2, n
  <2>r. q \in Nat /\ q + 1 - 1 = q /\ q + 1 \in Nat \ {0} /\ p <= q + 1
    BY <1>2, <2>5
  <2>q. Quiet(Require(Quote)) /\ Quiet(Require(":"))
    BY Neutral, NoBracket, Statements DEF Quiet
  <2>s. current_pos' - 1 = q
    BY <2>2, <2>r
  <2>7. SUFFICES /\ Outside(q + 1) <=> h2.op \notin {"key", "string"}
                 /\ At(q) # "\\"
                 /\ Placed(h2, items, q + 1)
    <3>1. At(current_pos' - 1) = At(q)
      BY <2>s, Zenon
    <3>2. /\ Outside(current_pos') <=> todo'[1].op \notin {"key", "string"}
          /\ BeforeQuote(todo'[1]) => At(current_pos' - 1) # "\\"
          /\ Placed(todo'[1], items', current_pos')
      BY <2>1, <2>2, <2>7, <3>1, Zenon DEF h2
    <3> QED
      BY <1>1, <3>2, Tracked
  <2>8. CASE h \in {Require("{"), Require("[")}
    <3>1. /\ h2 = Require(Quote) \/ h2.op = "first_item"
          /\ h \notin {Require(Quote), Require(":"), Require("}"), Require("]")}
      <4>1. "{" \notin {"[", "}", "]", ":", Quote} /\ "[" \notin {"}", "]", ":", Quote}
        BY QuoteIsNoOther, Zenon
      <4>2. h.char \in {"{", "["}
        BY <2>6, <2>8, Zenon
      <4>3. h \notin {Require(Quote), Require(":"), Require("}"), Require("]")}
        BY <2>6, <4>1, <4>2, Zenon
      <4> QED
        BY <1>2, <2>4, <4>3, AfterACheck, Zenon
    <3>2. Quiet(h2) /\ h2.op \notin {"key", "string"}
      <4>1. CASE h2 = Require(Quote)
        BY <2>q, <4>1, Statements
      <4>2. CASE h2.op = "first_item"
        BY <4>2, NoBracket DEF Quiet
      <4> QED
        BY <3>1, <4>1, <4>2
    <3>3. Opens(h) /\ h.char \in Left
      BY <2>6, <2>8, Zenon DEF Opens, Left
    <3>4. At(q) \in Left /\ At(q) \notin {"end", Quote, "\\"} /\ Text[q] \in Left /\ Text[q] = h.char
      BY <2>c, <2>5, <3>3, Neutral
    <3>5. Nesting(h, items) = n - 1 /\ Nesting(h2, items) = n
      BY <3>2, <3>3 DEF Nesting, Quiet, n
    <3>6. /\ \A i \in 1 .. n - 1 : Open(items[i], p, n - 1 - i + 1)
          /\ items[n].start = q
      BY <1>2, <3>3, <3>5 DEF Placed, n, p, q
    <3>7. ASSUME NEW i \in 1 .. n - 1 PROVE Open(items[i], q + 1, n - i + 1)
      <4>1. n - 1 - i + 1 = n - i /\ n - i \in Nat
        BY <1>2
      <4>2. Open(items[i], p, n - i)
        BY <3>6, <4>1
      <4>3. Open(items[i], q, n - i)
        BY <1>2, <2>5, <4>2, StaysOpen
      <4> QED
        BY <2>5, <3>4, <4>1, <4>3, AcrossABracket
    <3>8. Text[q] = Opening(items[n].class)
      <4>1. h \in BracketOf(items[n].class)
        <5>1. 1 \in DOMAIN todo /\ WellNested(todo, items)
          BY <1>2, NextStatement DEF IInv
        <5> QED
          BY <2>8, <5>1, Zenon DEF WellNested, h, n, BracketOf
      <4>2. h.char \in {Opening(items[n].class), Closing(items[n].class)}
        BY <2>6, <4>1 DEF BracketOf
      <4> QED
        BY <3>3, <3>4, <4>2, LeftIsNotRight
    <3>9. Open(items[n], q + 1, 1)
      BY <2>5, <3>4, <3>6, <3>8, BracketOpens DEF Left
    <3>10. \A i \in 1 .. n : Open(items[i], q + 1, n - i + 1)
      <4>1. n - n + 1 = 1 /\ \A i \in 1 .. n : i = n \/ i \in 1 .. n - 1
        BY <1>2
      <4> QED
        BY <3>7, <3>9, <4>1
    <3>11. Placed(h2, items, q + 1)
      BY <3>2, <3>5, <3>10 DEF Placed, Quiet
    <3> QED
      BY <2>5, <3>2, <3>4, <3>11
  <2>9. CASE h = Require(Quote)
    <3>1. h2.op \in {"key", "string"}
      <4>1. Quote \notin {"{", "[", "}", "]", ":"}
        BY QuoteIsNoOther, Zenon
      <4>2. h.char = Quote
        BY <2>6, <2>9
      <4>3. h \notin {Require("{"), Require("["), Require(":"), Require("}"), Require("]")}
        BY <2>6, <4>1, <4>2, Zenon
      <4> QED
        BY <1>2, <2>4, <4>3, AfterACheck, Zenon
    <3>2. At(q) = Quote /\ Text[q] = Quote /\ At(q) # "\\" /\ At(q) # "end"
      BY <2>c, <2>5, <2>6, <2>9, Neutral
    <3>3. q \in Quotes
      <4>1. At(q - 1) # "\\"
        BY <1>2, <2>5, <2>9 DEF BeforeQuote
      <4>2. Plain(q)
        BY <2>5, <4>1, PlainAfterOther
      <4>3. q \in DOMAIN Text
        BY <1>2, <3>2, Characters
      <4> QED
        BY <3>2, <4>2, <4>3, Zenon DEF Quotes, Plain
    <3>4. ~Outside(q + 1)
      BY <1>2, <2>5, <3>3, OtherSide
    <3>5. Quiet(h2)
      BY <3>1, NoBracket DEF Quiet
    <3>6. Placed(h2, items, q + 1)
      BY <1>2, <2>5, <2>9, <2>q, <2>r, <3>2, <3>5, PlacedAsBefore
    <3> QED
      BY <3>1, <3>2, <3>4, <3>6
  <2>10. CASE h = Require(":")
    <3>1. h2.op = "value"
      <4>1. ":" \notin {"{", "[", "}", "]", Quote}
        BY QuoteIsNoOther, Zenon
      <4>2. h.char = ":"
        BY <2>6, <2>10
      <4>3. h \notin {Require("{"), Require("["), Require(Quote), Require("}"), Require("]")}
        BY <2>6, <4>1, <4>2, Zenon
      <4> QED
        BY <1>2, <2>4, <4>3, AfterACheck, Zenon
    <3>2. At(q) = ":" /\ At(q) # "\\" /\ At(q) \notin {"end", Quote} \cup Left \cup Right
      BY <2>c, <2>6, <2>10, Neutral
    <3>3. Outside(q + 1) /\ Quiet(h2) /\ h2.op \notin {"key", "string"}
      BY <2>5, <3>1, <3>2, NoBracket DEF Quiet
    <3>4. Placed(h2, items, q + 1)
      BY <1>2, <2>5, <2>10, <2>q, <2>r, <3>2, <3>3, PlacedAsBefore
    <3> QED
      BY <3>2, <3>3, <3>4
  <2>11. CASE h \in {Require("}"), Require("]")}
    <3>1. h2.op = "return" /\ h.char \in Right /\ h \notin {Require("{"), Require("[")}
      <4>1. "}" \notin {"{", "[", ":", Quote} /\ "]" \notin {"{", "[", ":", Quote}
        BY QuoteIsNoOther, Zenon
      <4>2. h.char \in {"}", "]"}
        BY <2>6, <2>11, Zenon
      <4>3. h \notin {Require(Quote), Require(":"), Require("{"), Require("[")}
        BY <2>6, <4>1, <4>2, Zenon
      <4> QED
        BY <1>2, <2>4, <4>2, <4>3, AfterACheck, Zenon DEF Right
    <3>2. ~Opens(h) /\ h.op # "return"
      BY <1>2, <3>1, Zenon DEF Opens
    <3>3. ~Opens(h2)
      BY <3>1, NoBracket
    <3>4. At(q) \in Right /\ At(q) \notin {"end", Quote, "\\"} /\ Text[q] \in Right /\ Text[q] = h.char
      BY <2>c, <2>5, <3>1, Neutral
    <3>5. Nesting(h, items) = n /\ Nesting(h2, items) = n - 1
      BY <3>1, <3>2 DEF Nesting, n
    <3>6. \A i \in 1 .. n : Open(items[i], p, n - i + 1)
      BY <1>2, <3>5 DEF Placed
    <3>7. ASSUME NEW i \in 1 .. n PROVE Open(items[i], q, n - i + 1) /\ n - i + 1 \in Nat
      <4>1. n - i + 1 \in Nat
        BY <1>2
      <4> QED
        BY <1>2, <2>5, <3>6, <4>1, StaysOpen
    <3>8. ASSUME NEW i \in 1 .. n - 1 PROVE Open(items[i], q + 1, n - 1 - i + 1)
      <4> DEFINE d == n - i + 1
      <4>1. i \in 1 .. n /\ d > 1 /\ d - 1 = n - 1 - i + 1
        BY <1>2
      <4>2. Open(items[i], q, d) /\ d \in Nat
        BY <3>7, <4>1
      <4> HIDE DEF d
      <4>3. Open(items[i], q + 1, d - 1)
        BY <2>5, <3>4, <4>1, <4>2, AcrossABracket
      <4> QED
        BY <4>1, <4>3
    <3>9. Text[q] = Closing(items[n].class)
      <4>1. h \in BracketOf(items[n].class)
        <5>1. 1 \in DOMAIN todo /\ WellNested(todo, items)
          BY <1>2, NextStatement DEF IInv
        <5> QED
          BY <2>11, <5>1, Zenon DEF WellNested, h, n, BracketOf
      <4>2. h.char \in {Opening(items[n].class), Closing(items[n].class)}
        BY <2>6, <4>1 DEF BracketOf
      <4> QED
        BY <3>1, <3>4, <4>2, LeftIsNotRight
    <3>10. Closed(items[n], q + 1)
      <4>1. n \in 1 .. n /\ n - n + 1 = 1
        BY <1>2
      <4>2. Open(items[n], q, 1)
        BY <3>7, <4>1
      <4> QED
        BY <2>5, <3>4, <3>9, <4>2, AcrossABracket
    <3>11. Placed(h2, items, q + 1)
      BY <3>3, <3>5, <3>8, <3>10 DEF Placed, n
    <3> QED
      BY <2>5, <3>1, <3>4, <3>11
  <2> QED
    <3>1. h \in {Require("{"), Require("["), Require(Quote), Require(":"), Require("}"), Require("]")}
      BY <1>2, <2>4, AfterACheck, Zenon
    <3> QED
      BY <2>8, <2>9, <2>10, <2>11, <3>1, Zenon
<1>5. CASE todo' = <<>>
  BY <1>1, <1>5, Tracked
<1> QED
  BY <1>3, <1>4, <1>5

(* A step that goes on at p with the items of the same kinds, when both    *)
(* the statement before and the one after it are quiet.                    *)
LEMMA TracksQuiet ==
  ASSUME IInv, BInv, todo # <<>>, input' = input, Quiet(todo[1]),
         SameKinds(items', items),
         current_pos' \in Nat, current_pos <= current_pos', \A r \in current_pos .. current_pos' - 1 : ~IsBracket(r),
         Outside(current_pos'),
         todo' # <<>> => /\ Quiet(todo'[1]) /\ todo'[1].op \notin {"key", "string"}
                         /\ BeforeQuote(todo'[1]) => At(current_pos' - 1) # "\\"
  PROVE  BInv'
<1>1. Placed(todo[1], items, current_pos) /\ current_pos \in Nat
  BY Characters DEF BInv, IInv
<1>2. todo' # <<>> => Placed(todo'[1], items', current_pos')
  BY <1>1, PlacedAsBefore
<1> QED
  BY <1>2, Tracked

(* The values that are handed to the innermost item.                       *)
LEMMA SameKindsHanded ==
  ASSUME IInv, items # <<>>,
         \/ items' = items
         \/ \E item : items' = Handed(items, item)
         \/ \E text : items' = [items EXCEPT ![Len(items)].key = text]
  PROVE  SameKinds(items', items)
<1>1. CASE items' = items
  BY <1>1 DEF SameKinds
<1>2. CASE items' # items
  <2>1. IsSequence(items) /\ \A i \in DOMAIN items : IsItem(items[i])
    BY DEF IInv
  <2> QED
    BY <1>2, <2>1, HandedKeeps DEF SameKinds
<1> QED
  BY <1>1, <1>2

(* The string ends at the first quote that is not taken along, and the     *)
(* brackets in it do not count.                                            *)
LEMMA TracksString == ASSUME IInv, BInv, jp_extract_string PROVE BInv'
<1> DEFINE p == current_pos
           quote == closing_quote(p)
           h == todo[1]
           h2 == todo'[1]
           text == SubSeq(Text, p, quote - 1)
<1>1. PICK op \in {"key", "string"} : Runs(op)
  BY DEF jp_extract_string
<1>2. /\ input \in Inputs /\ p \in Nat \ {0} /\ p <= Len(Text) + 1 /\ todo # <<>> /\ h.op = op
      /\ ~Outside(p) /\ (BeforeQuote(h) => At(p - 1) # "\\")
      /\ Quiet(h) /\ items # <<>>
  BY <1>1, BeforeAStep
<1>3. CASE quote = 0
  <2>1. todo' = <<>> /\ input' = input
    BY <1>3 DEF jp_extract_string, Throw
  <2> QED
    BY <2>1, Tracked
<1>4. CASE quote # 0
  <2>1. /\ items' = [items EXCEPT ![Len(items)].key = text] \/ items' = Handed(items, JValue(text))
        /\ Goes(<<>>, quote + 1)
    BY <1>4 DEF jp_extract_string
  <2>2. current_pos' = quote + 1 /\ input' = input
    BY <2>1 DEF Goes
  <2>3. SameKinds(items', items)
    <3> HIDE DEF text
    <3> QED
      BY <1>2, <2>1, SameKindsHanded
  <2>4. /\ quote \in 1 .. Len(Text) /\ quote >= p /\ quote \in Quotes
        /\ \A r \in Quotes : r >= p => quote <= r
    <3>1. Plain(p)
      <4>1. BeforeQuote(h)
        BY <1>2 DEF BeforeQuote
      <4>2. At(p - 1) # "\\"
        BY <1>2, <4>1
      <4> QED
        BY <1>2, <4>2, PlainAfterOther
    <3>2. p <= Len(Text) + 2 /\ Len(Text) \in Nat
      BY <1>2, Characters
    <3> QED
      BY <1>2, <1>4, <3>1, <3>2, ClosingQuote
  <2> HIDE DEF p, quote
  <2>5. p \in Nat /\ quote \in Nat /\ quote + 1 \in Nat /\ p <= quote + 1 /\ quote + 1 - 1 = quote
    BY <1>2, <2>4, Characters
  <2>6. ASSUME NEW r \in p .. quote PROVE Outside(r) <=> Outside(p)
    <3>1. r \in Nat /\ p <= r
      BY <2>5
    <3>2. \A s \in p .. r - 1 : s \notin Quotes
      BY <2>4, <2>5, <3>1
    <3> QED
      BY <1>2, <2>5, <3>1, <3>2, SameSide
  <2>7. \A r \in p .. quote + 1 - 1 : ~IsBracket(r)
    BY <1>2, <2>5, <2>6 DEF IsBracket
  <2>8. Outside(quote + 1)
    <3>1. Outside(quote) <=> Outside(p)
      BY <2>4, <2>5, <2>6
    <3> QED
      BY <1>2, <2>4, <3>1, OtherSide
  <2>9. todo' # <<>> => h2.op \notin {"key", "string", "return"} /\ ~Opens(h2) /\ ~BeforeQuote(h2)
    <3>1. <<>> \in Seq(Statement) /\ Len(<<>>) = 0
      OBVIOUS
    <3>2. todo' # <<>> => Follows(h, h2)
      BY <1>2, <2>1, <3>1, AfterAStep
    <3>3. h.op # "jp_check_control_char"
      BY <1>2
    <3> QED
      BY <3>2, <3>3, AfterOthers
  <2> QED
    BY <1>2, <2>2, <2>3, <2>5, <2>7, <2>8, <2>9, TracksQuiet DEF Quiet, p
<1> QED
  BY <1>3, <1>4

(* The text of a number is passed over.                                    *)
LEMMA TracksInt == ASSUME IInv, BInv, NumbersArePlain, jp_extract_value_int PROVE BInv'
<1> DEFINE p == current_pos
           end == find_first_of({"}", "]", ","}, p)
           h == todo[1]
           h2 == todo'[1]
<1>1. Runs("int")
  BY DEF jp_extract_value_int
<1>2. /\ input \in Inputs /\ p \in Nat \ {0} /\ todo # <<>> /\ h.op = "int"
      /\ Outside(p) /\ Quiet(h) /\ items # <<>>
  BY <1>1, BeforeAStep
<1>3. CASE end = 0
  <2>1. todo' = <<>> /\ input' = input
    BY <1>3 DEF jp_extract_value_int, Throw
  <2> QED
    BY <2>1, Tracked
<1>4. CASE end # 0
  <2>1. /\ \E item : items' = Handed(items, item)
        /\ Goes(<<>>, end)
    BY <1>4 DEF jp_extract_value_int
  <2>2. current_pos' = end /\ input' = input
    BY <2>1 DEF Goes
  <2>3. SameKinds(items', items)
    BY <1>2, <2>1, SameKindsHanded
  <2>4. /\ end \in 1 .. Len(Text) /\ end >= p
        /\ \A q \in 1 .. Len(Text) : q >= p /\ q < end => Text[q] \notin {"}", "]", ","}
    <3> DEFINE chars == {"}", "]", ","}
    <3> HIDE DEF chars
    <3>1. end = find_first_of(chars, p)
      BY Zenon DEF chars
    <3>2. p \in Int
      BY <1>2
    <3>3. /\ end \in 1 .. Len(Text) /\ end >= p
          /\ \A q \in 1 .. Len(Text) : q >= p /\ q < end => Text[q] \notin chars
      BY <1>2, <1>4, <3>1, <3>2, FindFirstOf
    <3> QED
      BY <3>3, Zenon DEF chars
  <2>5. \A q \in p .. end - 1 : Text[q] \notin {"{", "[", Quote}
    BY <1>1 DEF NumbersArePlain
  <2>6. \A c : c \notin {"}", "]", ","} /\ c \notin {"{", "[", Quote} => c \notin Left \cup Right /\ c # Quote
    BY Zenon DEF Left, Right
  <2> DEFINE ends == {"}", "]", ","}
             others == {"{", "[", Quote}
  <2>7. /\ \A q \in 1 .. Len(Text) : q >= p /\ q < end => Text[q] \notin ends
        /\ \A q \in p .. end - 1 : Text[q] \notin others
        /\ \A c : c \notin ends /\ c \notin others => c \notin Left \cup Right /\ c # Quote
    BY <2>4, <2>5, <2>6, Zenon
  <2>r. end \in 1 .. Len(Text) /\ end >= p
    BY <2>4, Zenon
  <2> HIDE DEF p, end, ends, others
  <2>8. p \in Nat /\ end \in Nat /\ p <= end /\ Len(Text) \in Nat
    BY <1>2, <2>r, Characters
  <2>9. ASSUME NEW r \in p .. end - 1 PROVE ~IsBracket(r) /\ r \notin Quotes
    <3>1. r \in 1 .. Len(Text) /\ r >= p /\ r < end
      BY <1>2, <2>8, <2>r
    <3> QED
      BY <2>7, <3>1 DEF IsBracket, Quotes
  <2>10. Outside(end)
    BY <1>2, <2>8, <2>9, SameSide
  <2>11. todo' # <<>> => h2.op \notin {"key", "string", "return"} /\ ~Opens(h2) /\ ~BeforeQuote(h2)
    <3>1. <<>> \in Seq(Statement) /\ Len(<<>>) = 0
      OBVIOUS
    <3>2. todo' # <<>> => Follows(h, h2)
      BY <1>2, <2>1, <3>1, AfterAStep
    <3>3. h.op # "jp_check_control_char"
      BY <1>2
    <3> QED
      BY <3>2, <3>3, AfterOthers
  <2> QED
    BY <1>2, <2>2, <2>3, <2>8, <2>9, <2>10, <2>11, TracksQuiet DEF Quiet, p
<1> QED
  BY <1>3, <1>4

Comma == ","

(* A function goes on with the statements s at its control character, or   *)
(* behind it if that is a comma.                                           *)
LEMMA TracksOnwards ==
  ASSUME IInv, BInv, NEW op, op \notin {"key", "string", "return", "jp_check_control_char", "object"}, Runs(op),
         items' = items, NEW s \in Seq(Statement), NEW a, Starts(s, a), NEW p2, Goes(s, p2),
         \/ p2 = control_pos(current_pos) /\ (BeforeQuote(a) => op \in {"value", "first_item"})
         \/ p2 = control_pos(current_pos) + 1 /\ control_char(current_pos) = Comma,
         Quiet(a), a.op \notin {"key", "string"}
  PROVE  BInv'
<1> DEFINE p == current_pos
           q == control_pos(p)
           h == todo[1]
<1>1. /\ input \in Inputs /\ p \in Nat \ {0} /\ todo # <<>> /\ h.op = op
      /\ Outside(p) /\ (BeforeQuote(h) => At(p - 1) # "\\")
      /\ Quiet(h) /\ SameKinds(items, items)
  BY BeforeAStep
<1>2. /\ q \in Nat \ {0} /\ p <= q
      /\ \A r \in p .. q - 1 : r \notin Quotes /\ ~IsBracket(r)
      /\ Outside(q)
      /\ At(p - 1) # "\\" => At(q - 1) # "\\"
      /\ At(q) \notin {"end", Quote} => Outside(q + 1)
      /\ At(q) \notin {"end", Quote} \cup Left \cup Right => \A r \in p .. q : ~IsBracket(r)
  BY <1>1, OverSpace, Zenon
<1>3. current_pos' = p2 /\ input' = input
  BY DEF Goes
<1>4. todo' # <<>> => todo'[1] = a
  BY <1>1, AfterAStep
<1>5. \/ p2 = q /\ (BeforeQuote(a) => op \in {"value", "first_item"})
      \/ p2 = q + 1 /\ At(q) \notin {"end", Quote} \cup Left \cup Right /\ At(q) # "\\"
  <2>1. control_char(p) = At(q)
    BY DEF control_char
  <2>2. Comma \notin {"end", Quote} \cup Left \cup Right /\ Comma # "\\"
    BY Neutral, Zenon DEF Comma
  <2> QED
    BY <2>1, <2>2, Zenon
<1> HIDE DEF p, q, h
<1>6. CASE p2 = q /\ (BeforeQuote(a) => op \in {"value", "first_item"})
  <2>1. current_pos' \in Nat /\ p <= current_pos' /\ \A r \in p .. current_pos' - 1 : ~IsBracket(r)
    BY <1>1, <1>2, <1>3, <1>6
  <2>2. Outside(current_pos')
    BY <1>2, <1>3, <1>6
  <2>3. BeforeQuote(a) => At(current_pos' - 1) # "\\"
    <3> SUFFICES ASSUME BeforeQuote(a) PROVE At(q - 1) # "\\"
      BY <1>3, <1>6
    <3>1. op \in {"value", "first_item"}
      BY <1>6
    <3> QED
      BY <1>1, <1>2, <3>1 DEF BeforeQuote
  <2> QED
    BY <1>1, <1>3, <1>4, <2>1, <2>2, <2>3, TracksQuiet DEF p, h
<1>7. CASE p2 = q + 1 /\ At(q) \notin {"end", Quote} \cup Left \cup Right /\ At(q) # "\\"
  <2>1. At(q) \notin {"end", Quote} \cup Left \cup Right /\ At(q) # "\\"
    BY <1>7
  <2>2. q + 1 - 1 = q /\ q + 1 \in Nat /\ p <= q + 1 /\ p \in Nat
    BY <1>1, <1>2
  <2>3. current_pos' \in Nat /\ p <= current_pos' /\ \A r \in p .. current_pos' - 1 : ~IsBracket(r)
    BY <1>2, <1>3, <1>7, <2>1, <2>2
  <2>4. Outside(current_pos')
    BY <1>2, <1>3, <1>7, <2>1
  <2>5. At(current_pos' - 1) # "\\"
    <3>1. q \in Nat
      BY <1>2
    <3>2. current_pos' - 1 = q
      BY <1>3, <1>7, <3>1
    <3> QED
      BY <2>1, <3>2, Zenon
  <2> QED
    BY <1>1, <1>3, <1>4, <2>3, <2>4, <2>5, TracksQuiet DEF p, h
<1> QED
  BY <1>5, <1>6, <1>7

(* The statements that neither open an item nor return one.                *)
LEMMA QuietHeads ==
  /\ Quiet(Require(Quote)) /\ Quiet(Require("}")) /\ Quiet(Require("]"))
  /\ Require(Quote).op = "jp_check_control_char"
  /\ \A c \in {"}", "]"} : ~BeforeQuote(Require(c)) /\ Require(c).op = "jp_check_control_char"
  /\ \A o \in {"object", "array", "int"} : Quiet(Do(o)) /\ ~BeforeQuote(Do(o)) /\ Do(o).op = o
<1>1. Quote \notin Left /\ "}" \notin Left /\ "]" \notin Left /\ Quote # "}" /\ Quote # "]"
  BY QuoteIsNoOther, Zenon DEF Left
<1>2. \A c : Require(c).op = "jp_check_control_char" /\ Require(c).char = c
  BY Statements
<1>3. ~Opens(Require(Quote)) /\ ~Opens(Require("}")) /\ ~Opens(Require("]"))
  BY <1>1, NoBracket, Zenon
<1>4. \A c : Require(c).op \notin {"return", "key", "string", "value", "first_item"}
  BY <1>2
<1>5. Quiet(Require(Quote)) /\ Quiet(Require("}")) /\ Quiet(Require("]"))
  BY <1>3, <1>4, Zenon DEF Quiet
<1>6. Require("}") # Require(Quote) /\ Require("]") # Require(Quote)
  BY <1>1, <1>2, Zenon
<1>7. ~BeforeQuote(Require("}")) /\ ~BeforeQuote(Require("]"))
  BY <1>4, <1>6, Zenon DEF BeforeQuote
<1>8. ASSUME NEW o \in {"object", "array", "int"} PROVE Quiet(Do(o)) /\ ~BeforeQuote(Do(o)) /\ Do(o).op = o
  <2>1. Do(o).op = o
    BY Statements
  <2>2. Do(o).op \notin {"return", "key", "string", "value", "first_item", "jp_check_control_char"}
    BY <2>1
  <2> QED
    BY <2>1, <2>2, NoBracket DEF Quiet, BeforeQuote
<1> QED
  BY <1>2, <1>5, <1>7, <1>8, Zenon

(* The separator, or the end of the object or array.                       *)
LEMMA TracksFurther == ASSUME IInv, BInv, further_member \/ further_item PROVE BInv'
<1> DEFINE p == current_pos
           q == control_pos(p)
           c == control_char(p)
<1>m. ASSUME further_member PROVE BInv'
  <2>1. Runs("further_member") /\ items' = items
    BY <1>m DEF further_member
  <2>2. CASE c = "," /\ Goes(single_object \o <<Do("further_member")>>, q + 1)
    <3> DEFINE s == single_object \o <<Do("further_member")>>
               a == Require(Quote)
    <3>1. Starts(s, a) /\ Goes(s, q + 1) /\ s \in Seq(Statement)
      BY <2>2, FirstOfFunctions, Zenon DEF Starts
    <3>2. Quiet(a) /\ a.op \notin {"key", "string"}
      BY QuietHeads
    <3>3. c = Comma
      BY <2>2, Zenon DEF Comma
    <3> HIDE DEF s, a
    <3> QED
      BY <2>1, <3>1, <3>2, <3>3, TracksOnwards
  <2>3. CASE Goes(<<Require("}"), Do("return")>>, q)
    <3> DEFINE s == <<Require("}"), Do("return")>>
               a == Require("}")
    <3>1. Starts(s, a) /\ Goes(s, q) /\ s \in Seq(Statement)
      BY <2>3, FirstOfFunctions, Zenon DEF Starts
    <3>2. Quiet(a) /\ ~BeforeQuote(a) /\ a.op = "jp_check_control_char"
      BY QuietHeads, Zenon
    <3> HIDE DEF s, a
    <3>3. a.op \notin {"key", "string"}
      BY <3>2
    <3> QED
      BY <2>1, <3>1, <3>2, <3>3, TracksOnwards
  <2> QED
    BY <1>m, <2>2, <2>3, Zenon DEF further_member, after_separator
<1>i. ASSUME further_item PROVE BInv'
  <2>1. Runs("further_item") /\ items' = items
    BY <1>i DEF further_item
  <2>2. CASE c = "," /\ Goes(array_item(Head(todo).char), q + 1)
    <3> DEFINE ch == Head(todo).char
               s == array_item(ch)
               a == IF ch = "{" THEN Do("object") ELSE Require(Quote)
    <3>0. ch \in Chars
      <4>1. Head(todo) \in Statement
        BY <2>1, BeforeAStep
      <4> QED
        BY <4>1 DEF Statement
    <3>1. Starts(s, a) /\ Goes(s, q + 1) /\ s \in Seq(Statement)
      BY <2>2, <3>0, FirstOfFunctions, Zenon DEF Starts
    <3>2. Quiet(a) /\ a.op \in {"object", "jp_check_control_char"}
      BY QuietHeads, Zenon
    <3>3. c = Comma
      BY <2>2, Zenon DEF Comma
    <3> HIDE DEF s, a
    <3>4. a.op \notin {"key", "string"}
      BY <3>2
    <3> QED
      BY <2>1, <3>1, <3>2, <3>3, <3>4, TracksOnwards
  <2>3. CASE Goes(<<Require("]"), Do("return")>>, q)
    <3> DEFINE s == <<Require("]"), Do("return")>>
               a == Require("]")
    <3>1. Starts(s, a) /\ Goes(s, q) /\ s \in Seq(Statement)
      BY <2>3, FirstOfFunctions, Zenon DEF Starts
    <3>2. Quiet(a) /\ ~BeforeQuote(a) /\ a.op = "jp_check_control_char"
      BY QuietHeads, Zenon
    <3> HIDE DEF s, a
    <3>3. a.op \notin {"key", "string"}
      BY <3>2
    <3> QED
      BY <2>1, <3>1, <3>2, <3>3, TracksOnwards
  <2> QED
    BY <1>i, <2>2, <2>3, Zenon DEF further_item, after_separator
<1> QED
  BY <1>m, <1>i

(* What an array starts with.                                              *)
LEMMA TracksFirstItem == ASSUME IInv, BInv, first_item PROVE BInv'
<1> DEFINE p == current_pos
           q == control_pos(p)
           c == control_char(p)
<1>1. Runs("first_item")
  BY DEF first_item
<1>2. CASE c \in {"{", Quote} /\ Goes(array_item(c), q) /\ items' = items
  <2> DEFINE s == array_item(c)
             a == IF c = "{" THEN Do("object") ELSE Require(Quote)
  <2>0. c \in Chars
    BY <1>2, Zenon DEF Chars
  <2>1. Starts(s, a) /\ Goes(s, q) /\ s \in Seq(Statement) /\ items' = items
    BY <1>2, <2>0, FirstOfFunctions, Zenon DEF Starts
  <2>2. Quiet(a) /\ a.op \in {"object", "jp_check_control_char"}
    BY QuietHeads, Zenon
  <2> HIDE DEF s, a
  <2>3. a.op \notin {"key", "string"}
    BY <2>2
  <2> QED
    BY <1>1, <2>1, <2>2, <2>3, TracksOnwards
<1>3. CASE Goes(<<Require("]"), Do("return")>>, q) /\ items' = items
  <2> DEFINE s == <<Require("]"), Do("return")>>
             a == Require("]")
  <2>1. Starts(s, a) /\ Goes(s, q) /\ s \in Seq(Statement) /\ items' = items
    BY <1>3, FirstOfFunctions, Zenon DEF Starts
  <2>2. Quiet(a) /\ ~BeforeQuote(a) /\ a.op = "jp_check_control_char"
    BY QuietHeads, Zenon
  <2> HIDE DEF s, a
  <2>3. a.op \notin {"key", "string"}
    BY <2>2
  <2> QED
    BY <1>1, <2>1, <2>2, <2>3, TracksOnwards
<1>4. CASE Throw
  <2>1. todo' = <<>> /\ input' = input
    BY <1>4 DEF Throw
  <2> QED
    BY <2>1, Tracked
<1> QED
  BY <1>2, <1>3, <1>4, Zenon DEF first_item

(* What a value starts with.                                               *)
LEMMA TracksValue == ASSUME IInv, BInv, extract_value PROVE BInv'
<1> DEFINE p == current_pos
           q == control_pos(p)
<1>1. Runs("value") /\ items' = items
  BY DEF extract_value
<1>2. CASE Goes(value_string, q)
  <2> DEFINE a == Require(Quote)
  <2>1. Starts(value_string, a) /\ value_string \in Seq(Statement)
    BY FirstOfFunctions, Zenon DEF Starts
  <2>2. Quiet(a) /\ a.op \notin {"key", "string"}
    BY QuietHeads
  <2> HIDE DEF a
  <2> QED
    BY <1>1, <1>2, <2>1, <2>2, TracksOnwards
<1>3. ASSUME NEW o \in {"object", "array", "int"}, Goes(<<Do(o)>>, q) PROVE BInv'
  <2> DEFINE a == Do(o)
             s == <<a>>
  <2>1. Starts(s, a) /\ Goes(s, q) /\ s \in Seq(Statement)
    BY <1>3, FirstOfFunctions, Zenon DEF Starts
  <2>2. Quiet(a) /\ ~BeforeQuote(a) /\ a.op = o
    BY QuietHeads, Zenon
  <2> HIDE DEF s, a
  <2>3. a.op \notin {"key", "string"}
    BY <2>2
  <2> QED
    BY <1>1, <2>1, <2>2, <2>3, TracksOnwards
<1> QED
  BY <1>2, <1>3, Zenon DEF extract_value

(* An empty object ends what is tracked.                                   *)
LEMMA TracksEmpty == ASSUME IInv, BInv, extract_empty PROVE EmptyObject
<1> DEFINE p == current_pos
           q == control_pos(p)
<1>1. control_char(p) = "{" /\ control_char(q + 1) = "}"
  BY DEF extract_empty
<1>2. input \in Inputs /\ p \in Nat \ {0} /\ Outside(p)
  <2>1. Runs("value")
    BY DEF extract_empty
  <2> QED
    BY <2>1, BeforeAStep
<1>3. Outside(q)
  BY <1>2, OverSpace, Zenon
<1>4. At(q) = "{"
  BY <1>1, Zenon DEF control_char
<1>5. q \in DOMAIN Text
  <2>1. At(q) # "end"
    BY <1>4, Zenon
  <2> QED
    BY <1>2, <2>1, Characters
<1> QED
  BY <1>1, <1>3, <1>4, <1>5, Zenon DEF EmptyObject

(* An item is begun, its bracket is not consumed yet.                      *)
LEMMA TracksBegin == ASSUME IInv, BInv, jp_extract_object \/ jp_extract_array PROVE BInv'
<1> DEFINE p == current_pos
           q == control_pos(p)
           h == todo[1]
           n == Len(items)
<1>b. ASSUME NEW op \in {"object", "array"}, Runs(op), NEW class, items' = Begun(class),
             NEW s, NEW a, Starts(s, a), Goes(s, p), Opens(a), a.op = "jp_check_control_char"
      PROVE  BInv'
  <2>1. /\ input \in Inputs /\ p \in Nat \ {0} /\ todo # <<>> /\ h.op = op
        /\ Outside(p) /\ Placed(h, items, p) /\ Quiet(h)
    BY <1>b, BeforeAStep
  <2>2. current_pos' = p /\ input' = input
    BY <1>b DEF Goes
  <2>3. todo' # <<>> => todo'[1] = a
    BY <1>b, <2>1, AfterAStep DEF Starts
  <2> DEFINE x == [class |-> class, content |-> <<>>, key |-> <<>>, start |-> q]
  <2>4. items' = Append(items, x) /\ x.start = q
    BY <1>b DEF Begun
  <2> HIDE DEF x
  <2>5. PICK S : items \in Seq(S)
    BY DEF IInv, IsSequence
  <2>6. items \in Seq(S \cup {x}) /\ n \in Nat
    BY <2>5, LenProperties
  <2>7. Len(items') = n + 1 /\ items'[n + 1] = x /\ \A i \in 1 .. n : items'[i] = items[i]
    BY <2>4, <2>6, AppendProperties
  <2>8. Nesting(h, items) = n /\ Nesting(a, items') = n + 1 - 1 /\ n + 1 - 1 = n
    BY <1>b, <2>1, <2>6, <2>7 DEF Nesting, Quiet
  <2>9. \A i \in 1 .. n : Open(items[i], p, n - i + 1)
    BY <2>1, <2>8 DEF Placed
  <2>10. Placed(a, items', p)
    <3>1. \A i \in 1 .. n : Open(items'[i], p, n - i + 1)
      BY <2>7, <2>9
    <3>2. items'[Len(items')].start = q /\ a.op # "return"
      BY <1>b, <2>4, <2>7
    <3> QED
      BY <2>8, <3>1, <3>2 DEF Placed
  <2>11. ~BeforeQuote(a) /\ a.op \notin {"key", "string"}
    <3>1. ~Opens(Require(Quote))
      BY QuietHeads DEF Quiet
    <3> QED
      BY <1>b, <3>1 DEF BeforeQuote
  <2> QED
    BY <2>1, <2>2, <2>3, <2>10, <2>11, Tracked
<1>h. Opens(Require("{")) /\ Opens(Require("["))
  BY Zenon DEF Opens
<1>1. CASE jp_extract_object
  <2> DEFINE s == <<Require("{")>> \o single_object \o <<Do("further_member")>>
             a == Require("{")
  <2>1. Runs("object") /\ items' = Begun("JObject") /\ Goes(s, p)
    BY <1>1, Zenon DEF jp_extract_object
  <2>2. Starts(s, a) /\ a.op = "jp_check_control_char" /\ Opens(a)
    BY <1>h, FirstOfFunctions, Statements, Zenon
  <2> HIDE DEF s, a
  <2> QED
    BY <1>b, <2>1, <2>2
<1>2. CASE jp_extract_array
  <2> DEFINE s == <<Require("["), Do("first_item")>>
             a == Require("[")
  <2>1. Runs("array") /\ items' = Begun("JArray") /\ Goes(s, p)
    BY <1>2, Zenon DEF jp_extract_array
  <2>2. Starts(s, a) /\ a.op = "jp_check_control_char" /\ Opens(a)
    BY <1>h, FirstOfFunctions, Statements, Zenon
  <2> HIDE DEF s, a
  <2> QED
    BY <1>b, <2>1, <2>2
<1> QED
  BY <1>1, <1>2

(* A function that returns hands over an item that is closed.              *)
LEMMA TracksReturn ==
  ASSUME IInv, BInv, return_item
  PROVE  BInv' /\ Closed(Last(items), current_pos)
<1> DEFINE p == current_pos
           h == todo[1]
           h2 == todo'[1]
           n == Len(items)
           callers == Front(items)
<1>1. Runs("return") /\ Goes(<<>>, p)
  BY DEF return_item
<1>2. /\ input \in Inputs /\ p \in Nat \ {0} /\ todo # <<>> /\ h.op = "return"
      /\ Outside(p) /\ Placed(h, items, p)
      /\ IsSequence(items) /\ items # <<>> /\ n \in Nat \ {0}
      /\ \A i \in DOMAIN items : IsItem(items[i])
  BY <1>1, BeforeAStep
<1>3. ~Opens(h) /\ Nesting(h, items) = n - 1
  BY <1>2, NoBracket DEF Nesting
<1>4. Closed(Last(items), p)
  <2>1. Closed(items[n], p)
    BY <1>2 DEF Placed
  <2> QED
    BY <2>1 DEF Last
<1>5. input' = input /\ current_pos' = p
  BY <1>1 DEF Goes
<1>6. CASE todo' = <<>>
  BY <1>4, <1>5, <1>6, Tracked
<1>7. CASE todo' # <<>>
  <2>1. Follows(h, h2)
    <3>1. <<>> \in Seq(Statement) /\ Len(<<>>) = 0
      OBVIOUS
    <3> QED
      BY <1>1, <1>2, <1>7, <3>1, AfterAStep
  <2>2. h2.op \notin {"key", "string", "return"} /\ ~Opens(h2) /\ ~BeforeQuote(h2)
    <3>1. h.op # "jp_check_control_char"
      BY <1>2
    <3> QED
      BY <2>1, <3>1, AfterOthers
  <2>3. PICK S : items \in Seq(S)
    BY <1>2 DEF IsSequence
  <2>4. DOMAIN items = 1 .. n
    BY <2>3, LenProperties
  <2>5. callers \in Seq(S) /\ Len(callers) = n - 1 /\ \A i \in 1 .. n - 1 : callers[i] = items[i]
    <3>1. n \in Nat \ {0} /\ DOMAIN items = 1 .. n
      BY <1>2, <2>4
    <3> QED
      BY <2>3, <3>1, SubSeqProperties DEF Front
  <2>6. Len(items') = n - 1 /\ \A i \in 1 .. n - 1 : items'[i].class = items[i].class /\ items'[i].start = items[i].start
    <3>1. CASE callers = <<>>
      <4>1. items' = <<>>
        BY <3>1 DEF return_item
      <4> HIDE DEF n
      <4>2. n - 1 = 0
        BY <2>5, <3>1
      <4>3. Len(items') = 0 /\ 1 .. n - 1 = {}
        BY <4>1, <4>2
      <4> QED
        BY <4>2, <4>3
    <3>2. CASE callers # <<>>
      <4>1. \E item : items' = Handed(callers, item)
        BY <3>2 DEF return_item
      <4>2. IsSequence(callers) /\ DOMAIN callers = 1 .. n - 1
        BY <2>5, LenProperties DEF IsSequence
      <4>3. \A i \in DOMAIN callers : IsItem(callers[i])
        BY <1>2, <2>4, <2>5, <4>2
      <4> HIDE DEF callers
      <4>4. Len(items') = Len(callers) /\ \A i \in 1 .. Len(items') : /\ items'[i].class = callers[i].class
                                                                      /\ items'[i].start = callers[i].start
        BY <3>2, <4>1, <4>2, <4>3, HandedKeeps
      <4> QED
        BY <2>5, <4>4
    <3> QED
      BY <3>1, <3>2
  <2>7. \A i \in 1 .. n - 1 : Open(items[i], p, n - 1 - i + 1)
    BY <1>2, <1>3 DEF Placed
  <2>8. \A i \in 1 .. n - 1 : Open(items'[i], p, n - 1 - i + 1)
    BY <2>6, <2>7, SameKindOpen
  <2>9. Placed(h2, items', p)
    <3>1. Nesting(h2, items') = n - 1
      BY <2>2, <2>6 DEF Nesting
    <3> QED
      BY <2>2, <2>8, <3>1 DEF Placed
  <2> QED
    BY <1>2, <1>4, <1>5, <2>2, <2>9, Tracked
<1> QED
  BY <1>6, <1>7

(* Each step.                                                              *)
LEMMA TrackedByAll == ASSUME IInv, BInv, NumbersArePlain, ~EmptyObject, Next PROVE BInv'
<1>1. CASE jp_check_control_char
  BY <1>1, TracksCheck
<1>2. CASE end_of_text
  <2>1. todo' = <<>> /\ input' = input
    BY <1>2 DEF end_of_text, Throw
  <2> QED
    BY <2>1, Tracked
<1>3. CASE jp_extract_string
  BY <1>3, TracksString
<1>4. CASE extract_value
  BY <1>4, TracksValue
<1>5. CASE extract_empty
  BY <1>5, TracksEmpty
<1>6. CASE jp_extract_value_int
  BY <1>6, TracksInt
<1>7. CASE jp_extract_object \/ jp_extract_array
  BY <1>7, TracksBegin
<1>8. CASE further_member \/ further_item
  BY <1>8, TracksFurther
<1>9. CASE first_item
  BY <1>9, TracksFirstItem
<1>10. CASE return_item
  BY <1>10, TracksReturn
<1>11. CASE Ended
  <2>1. todo' = todo /\ input' = input /\ items' = items /\ current_pos' = current_pos
    BY <1>11 DEF Ended, vars
  <2>2. current_pos' - 1 = current_pos - 1
    BY <2>1
  <2> QED
    BY <2>1, <2>2, Tracked DEF BInv
<1> QED
  BY <1>1, <1>2, <1>3, <1>4, <1>5, <1>6, <1>7, <1>8, <1>9, <1>10, <1>11 DEF Next

(* Nothing is open at first.                                               *)
LEMMA TrackedInitially == ASSUME Init PROVE BInv
<1>1. /\ input \in Inputs /\ current_pos = 1 /\ todo = <<Do("object")>> /\ items = <<>>
  BY DEF Init
<1>2. todo[1] = Do("object")
  BY <1>1
<1>3. todo[1].op = "object" /\ ~Opens(todo[1]) /\ ~BeforeQuote(todo[1])
  BY <1>2, QuietHeads DEF Quiet
<1>4. Outside(current_pos)
  <2> DEFINE before == {q \in Quotes : q < 1}
  <2>1. before = {}
    <3>1. Quotes \subseteq 1 .. Len(Text) /\ Len(Text) \in Nat
      BY <1>1, Characters DEF Quotes
    <3>2. \A q \in Quotes : ~(q < 1)
      BY <3>1
    <3> QED
      BY <3>2
  <2>2. Outside(1) <=> Cardinality(before) % 2 = 0
    BY DEF Outside
  <2> HIDE DEF before
  <2>3. Cardinality(before) = 0
    BY <2>1, FS_EmptySet
  <2> QED
    BY <1>1, <2>2, <2>3
<1>5. Placed(todo[1], items, current_pos)
  <2>1. Len(items) = 0 /\ Nesting(todo[1], items) = Len(items)
    BY <1>1, <1>3 DEF Nesting
  <2> QED
    BY <1>3, <2>1 DEF Placed
<1> QED
  BY <1>3, <1>4, <1>5 DEF BInv

(* Only a function that returns leaves fewer items.                        *)
LEMMA OnlyReturnsLeaveFewer ==
  ASSUME IInv, Next, Len(items') < Len(items)
  PROVE  return_item /\ current_pos' = current_pos
<1> DEFINE n == Len(items)
<1>1. n \in Nat
  BY LenProperties DEF IInv, IsSequence
<1>2. items' # items
  BY <1>1
<1>3. ~Throw
  BY <1>2 DEF Throw
<1>4. ~(\E class : items' = Begun(class))
  <2> SUFFICES ASSUME NEW class, items' = Begun(class) PROVE FALSE
    OBVIOUS
  <2> DEFINE x == [class |-> class, content |-> <<>>, key |-> <<>>, start |-> control_pos(current_pos)]
  <2>1. items' = Append(items, x)
    BY DEF Begun
  <2> HIDE DEF x
  <2>2. PICK S : items \in Seq(S)
    BY DEF IInv, IsSequence
  <2>3. items \in Seq(S \cup {x})
    BY <2>2
  <2>4. Len(items') = n + 1
    BY <2>1, <2>3, AppendProperties
  <2> QED
    BY <1>1, <2>4
<1>5. ASSUME items # <<>>, \/ \E item : items' = Handed(items, item)
                           \/ \E text : items' = [items EXCEPT ![Len(items)].key = text]
      PROVE  FALSE
  <2>1. SameKinds(items', items)
    BY <1>5, SameKindsHanded
  <2> QED
    BY <1>1, <2>1 DEF SameKinds
<1>6. \A op \in {"key", "string", "int", "value"} : Runs(op) => items # <<>>
  BY NextStatement DEF Runs
<1>7. ~jp_extract_string
  <2> SUFFICES ASSUME jp_extract_string PROVE FALSE
    OBVIOUS
  <2>1. Runs("key") \/ Runs("string")
    BY DEF jp_extract_string
  <2>2. \/ \E item : items' = Handed(items, item)
        \/ \E text : items' = [items EXCEPT ![Len(items)].key = text]
    BY <1>3, Zenon DEF jp_extract_string
  <2> QED
    BY <1>5, <1>6, <2>1, <2>2
<1>8. ~jp_extract_value_int
  <2> SUFFICES ASSUME jp_extract_value_int PROVE FALSE
    OBVIOUS
  <2>1. Runs("int")
    BY DEF jp_extract_value_int
  <2>2. \E item : items' = Handed(items, item)
    BY <1>3, Zenon DEF jp_extract_value_int
  <2> QED
    BY <1>5, <1>6, <2>1, <2>2
<1>9. ~extract_empty
  <2> SUFFICES ASSUME extract_empty PROVE FALSE
    OBVIOUS
  <2>1. Runs("value")
    BY DEF extract_empty
  <2>2. \E item : items' = Handed(items, item)
    BY Zenon DEF extract_empty
  <2> QED
    BY <1>5, <1>6, <2>1, <2>2
<1>10. ~(jp_check_control_char \/ end_of_text \/ extract_value \/ further_member \/ first_item \/ further_item)
  BY <1>2, <1>3, Zenon
  DEF jp_check_control_char, end_of_text, extract_value, further_member, first_item, further_item
<1>11. ~(jp_extract_object \/ jp_extract_array)
  BY <1>4, Zenon DEF jp_extract_object, jp_extract_array
<1>12. ~Ended
  BY <1>2 DEF Ended, vars
<1>13. return_item
  BY <1>7, <1>8, <1>9, <1>10, <1>11, <1>12, Zenon DEF Next
<1> QED
  BY <1>13 DEF return_item, Goes

(* ItemsEndWithTheirBracket, for every text in which a number holds no     *)
(* quote and no bracket that opens.                                        *)
THEOREM BracketsMatch == Spec /\ []NumbersArePlain => ItemsEndWithTheirBracket
<1> DEFINE J == IInv /\ (EmptyObject \/ BInv)
           Fewer == Len(items') < Len(items) /\ ~EmptyObject => Encloses(Last(items).start, current_pos - 1)
<1>1. Init => J
  BY Initially, TrackedInitially
<1>2. J /\ NumbersArePlain /\ [Next]_vars => J' /\ [Fewer]_vars
  <2> SUFFICES ASSUME J, NumbersArePlain, [Next]_vars PROVE J' /\ [Fewer]_vars
    OBVIOUS
  <2>1. CASE UNCHANGED vars
    <3>1. IInv'
      BY <2>1 DEF vars, IInv, Text
    <3>2. input' = input /\ todo' = todo /\ items' = items /\ current_pos' = current_pos
      BY <2>1 DEF vars
    <3>3. BInv => BInv'
      <4>1. current_pos' - 1 = current_pos - 1
        BY <3>2
      <4> QED
        BY <3>2, <4>1, Tracked DEF BInv
    <3> QED
      BY <2>1, <3>1, <3>2, <3>3, SameItems
  <2>2. CASE Next
    <3>1. IInv'
      BY <2>2, Preserved
    <3>2. input' = input
      BY <2>2, Zenon
      DEF Next, jp_check_control_char, end_of_text, jp_extract_string, extract_value, extract_empty,
          jp_extract_value_int, jp_extract_object, further_member, jp_extract_array, first_item, further_item,
          return_item, Ended, vars, Goes, Throw
    <3>3. EmptyObject' \/ BInv'
      BY <2>2, <3>2, SameItems, TrackedByAll
    <3>4. Fewer
      <4> SUFFICES ASSUME Len(items') < Len(items), ~EmptyObject
                   PROVE  Encloses(Last(items).start, current_pos - 1)
        OBVIOUS
      <4>1. return_item
        BY <2>2, OnlyReturnsLeaveFewer
      <4>2. Closed(Last(items), current_pos)
        BY <4>1, TracksReturn
      <4>3. current_pos \in Nat
        BY Characters DEF IInv
      <4> QED
        BY <4>2, <4>3, ClosedEncloses
    <3> QED
      BY <3>1, <3>3, <3>4
  <2> QED
    BY <2>1, <2>2
<1>3. ItemsEndWithTheirBracket <=> [][Fewer]_vars
  BY DEF ItemsEndWithTheirBracket
<1> QED
  BY <1>1, <1>2, <1>3, PTL DEF Spec
=============================================================================
