---------------------- MODULE OutputStringStream_proofs ----------------------
(***************************************************************************)
(* For texts of any length and nesting: the last command always tells what *)
(* the innermost frame waits for, start_list never throws, and the text is *)
(* the one that JsonText grows.                                            *)
(***************************************************************************)
EXTENDS OutputStringStream, SequenceTheorems, TLAPS

Stack == [kind : Kinds, has : Contents]

(* A frame put on a well-nested stack in place of its innermost frame.      *)
LEMMA ReplacedFrame ==
  ASSUME NEW frames \in Seq(Stack), frames # <<>>, Nested(frames), NEW f \in Stack,
         f.kind \in Types => f.has \in {"nothing", "members"},
         f.kind \notin Types => f.has # "members",
         \/ Len(frames) = 1 /\ f.kind = "root"
         \/ Len(frames) # 1 /\ LiesOn(f, frames[2])
  PROVE  <<f>> \o Tail(frames) \in Seq(Stack) /\ Nested(<<f>> \o Tail(frames))
  BY DEF Nested

(* A frame put on top of a well-nested stack.                               *)
LEMMA PushedFrame ==
  ASSUME NEW frames \in Seq(Stack), frames # <<>>, Nested(frames), NEW f \in Stack,
         f.kind \in Types => f.has \in {"nothing", "members"},
         f.kind \notin Types => f.has # "members",
         LiesOn(f, Head(frames))
  PROVE  <<f>> \o frames \in Seq(Stack) /\ Nested(<<f>> \o frames)
  BY DEF Nested

(* The innermost frame taken off.                                           *)
LEMMA PoppedFrame ==
  ASSUME NEW frames \in Seq(Stack), frames # <<>>, Nested(frames)
  PROVE  /\ Tail(frames) \in Seq(Stack) /\ Nested(Tail(frames))
         /\ Tail(frames) # <<>> => Head(Tail(frames)) = frames[2]
         /\ Len(frames) # 1 => Tail(frames) # <<>>
<1>1. /\ Tail(frames) \in Seq(Stack) /\ Len(Tail(frames)) = Len(frames) - 1
      /\ \A i \in 1 .. Len(Tail(frames)) : Tail(frames)[i] = frames[i + 1]
  BY HeadTailProperties
<1>2. Nested(Tail(frames))
  BY DEF Nested
<1>3. Len(frames) # 1 => Tail(frames) # <<>>
  <2>1. Len(frames) \in Nat
    BY LenProperties
  <2>2. Len(frames) # 1 => Len(Tail(frames)) # 0
    BY <1>1, <2>1
  <2> QED
    BY <2>2
<1>4. ASSUME Tail(frames) # <<>> PROVE Head(Tail(frames)) = frames[2]
  BY <1>1, <1>4
<1> QED
  BY <1>1, <1>2, <1>3, <1>4

(* Two frames in place of one: the member under construction and its owner. *)
LEMMA TwoFrames ==
  ASSUME NEW a, NEW b, NEW rest \in Seq(Stack), a \in Stack, b \in Stack
  PROVE  <<a, b>> \o rest = <<a>> \o (<<b>> \o rest)
<1>1. <<a>> \in Seq(Stack) /\ <<b>> \in Seq(Stack) /\ <<a, b>> \in Seq(Stack)
  OBVIOUS
<1>2. PICK ab \in Seq(Stack) : ab = <<a>> \o <<b>>
  BY <1>1, ConcatProperties
<1>3. Len(ab) = 2 /\ ab[1] = a /\ ab[2] = b
  BY <1>1, <1>2, ConcatProperties
<1>4. ab = <<a, b>>
  BY <1>1, <1>3, SeqEqual
<1>5. (<<a>> \o <<b>>) \o rest = <<a>> \o (<<b>> \o rest)
  BY <1>1, ConcatAssociative
<1> QED
  BY <1>2, <1>4, <1>5

Tokens == Keys \cup {"{", "}", "[", "]", ",", Scalar}

(* A call writes one or two tokens or none, and records itself.             *)
LEMMA Emitted ==
  ASSUME output_data \in Seq(Tokens), NEW tokens \in Seq(Tokens), NEW command, Emit(tokens, command)
  PROVE  output_data' \in Seq(Tokens) /\ last_command' = command /\ thrown' = thrown
  BY ConcatProperties DEF Emit

(* The tokens of a call keep the text a sequence of tokens.                 *)
LEMMA TokenSequences ==
  ASSUME NEW a \in Tokens, NEW b \in Tokens
  PROVE  <<>> \in Seq(Tokens) /\ <<a>> \in Seq(Tokens) /\ <<a, b>> \in Seq(Tokens)
  OBVIOUS

(* The token sequences the calls write.                                     *)
LEMMA SomeTokens ==
  /\ "{" \in Tokens /\ "}" \in Tokens /\ "[" \in Tokens /\ "]" \in Tokens
  /\ "," \in Tokens /\ Scalar \in Tokens /\ \A key \in Keys : key \in Tokens
  BY DEF Tokens

IInv == TypeOK /\ LastCommandTellsContext /\ NeverThrows

(* The invariant holds before the first call.                               *)
LEMMA InitEstablishesIInv == Init => IInv
<1> SUFFICES ASSUME Init PROVE IInv
  OBVIOUS
<1>1. PICK f \in Stack : f = Frame("root", "nothing")
  BY DEF Stack, Frame, Kinds, Types, Contents
<1>2. open = <<f>> /\ open \in Seq(Stack) /\ Head(open) = f /\ Len(open) = 1 /\ open[1] = f
  BY <1>1 DEF Init
<1>3. f.kind = "root" /\ f.has = "nothing"
  BY <1>1 DEF Frame
<1>4. Nested(open)
  BY <1>2, <1>3 DEF Nested, Types
<1>5. CommandsIn(f) = {"nocmd"}
  BY <1>3 DEF CommandsIn
<1>6. LastCommandTellsContext
  BY <1>2, <1>5 DEF Init, LastCommandTellsContext
<1>7. TypeOK
  <2>1. output_data \in Seq(Keys \cup {"{", "}", "[", "]", ",", Scalar})
    BY EmptySeq DEF Init
  <2>2. open \in Seq([kind : Kinds, has : Contents]) /\ Nested(open)
    BY <1>2, <1>4 DEF Stack
  <2> QED
    BY <2>1, <2>2 DEF Init, TypeOK, Commands
<1> QED
  BY <1>6, <1>7 DEF Init, IInv, NeverThrows

(* Every call of the decoder keeps it.                                      *)
LEMMA NextKeepsIInv == IInv /\ [Next]_vars => IInv'
<1> SUFFICES ASSUME IInv, [Next]_vars PROVE IInv'
  OBVIOUS
<1> USE DEF IInv
<1>0. /\ open \in Seq(Stack) /\ Nested(open) /\ output_data \in Seq(Tokens)
      /\ last_command \in Commands /\ thrown = FALSE
  BY DEF TypeOK, Stack, Tokens, NeverThrows
<1>h. ASSUME open # <<>>
      PROVE  /\ Head(open) \in Stack /\ Head(open) = open[1]
             /\ Tail(open) \in Seq(Stack)
             /\ last_command \in CommandsIn(Head(open))
             /\ Head(open).kind \in Types => Head(open).has \in {"nothing", "members"}
             /\ Head(open).kind \notin Types => Head(open).has # "members"
             /\ Len(open) = 1 => Head(open).kind = "root"
             /\ Len(open) # 1 => LiesOn(Head(open), open[2]) /\ open[2] \in Stack
  <2>1. Head(open) \in Stack /\ Head(open) = open[1] /\ Tail(open) \in Seq(Stack) /\ Len(open) >= 1
    BY <1>0, <1>h
  <2>4. 1 \in 1 .. Len(open)
    BY <1>0, <2>1
  <2>2. /\ 1 = Len(open) => open[1].kind = "root"
        /\ 1 # Len(open) => LiesOn(open[1], open[1 + 1])
        /\ open[1].kind \in Types => open[1].has \in {"nothing", "members"}
        /\ open[1].kind \notin Types => open[1].has # "members"
    BY <1>0, <2>4 DEF Nested
  <2>3. Len(open) # 1 => open[2] \in Stack
    <3>1. Len(open) # 1 => 2 \in 1 .. Len(open)
      <4>1. PICK n \in Nat : n = Len(open)
        BY <1>0, LenProperties
      <4>2. n >= 1
        BY <2>1, <4>1
      <4>3. n # 1 => 2 \in 1 .. n
        BY <4>2
      <4> QED BY <4>1, <4>3
    <3> QED BY <1>0, <3>1, ElementOfSeq
  <2> QED
    BY <1>h, <2>1, <2>2, <2>3 DEF LastCommandTellsContext
(* What is left to show of an action: its output, its command and its stack. *)
<1>c. ASSUME output_data' \in Seq(Tokens), last_command' \in Commands, thrown' = FALSE,
             open' \in Seq(Stack), Nested(open)',
             open' # <<>> => last_command' \in CommandsIn(Head(open'))
      PROVE  IInv'
  BY <1>c DEF TypeOK, LastCommandTellsContext, NeverThrows, Stack, Tokens
(* A frame that may stand where the innermost one stands.                    *)
<1>r. ASSUME NEW f \in Stack, open # <<>>,
             f.kind \in Types => f.has \in {"nothing", "members"},
             f.kind \notin Types => f.has # "members",
             f.kind = Head(open).kind \/ (/\ f.kind \in {"type", "element", "list"}
                                         /\ Head(open).kind \in {"type", "element", "list"})
      PROVE  /\ <<f>> \o Tail(open) \in Seq(Stack) /\ Nested(<<f>> \o Tail(open))
             /\ <<f>> \o Tail(open) # <<>> /\ Head(<<f>> \o Tail(open)) = f
  <2>1. Len(open) = 1 => f.kind = "root"
    BY <1>h, <1>r
  <2>2. Len(open) # 1 => LiesOn(f, open[2])
    BY <1>h, <1>r DEF LiesOn
  <2>3. <<f>> \o Tail(open) \in Seq(Stack) /\ Nested(<<f>> \o Tail(open))
    BY <1>0, <1>r, <2>1, <2>2, ReplacedFrame
  <2> QED
    BY <1>h, <1>r, <2>3
<1>1. ASSUME NEW key \in Keys, StartElement(key) PROVE IInv'
  <2>1. open # <<>> /\ Head(open).kind \in Types
    BY <1>1 DEF StartElement, InA
  <2>2. PICK a \in Stack, b \in Stack : a = Frame("element", "nothing") /\ b = Holding("members")
    BY <1>h, <2>1 DEF Stack, Frame, Holding, Kinds, Contents
  <2>3. /\ <<b>> \o Tail(open) \in Seq(Stack) /\ Nested(<<b>> \o Tail(open))
        /\ <<b>> \o Tail(open) # <<>> /\ Head(<<b>> \o Tail(open)) = b
    BY <1>r, <2>1, <2>2 DEF Holding, Frame
  <2>4. LiesOn(a, b)
    BY <2>1, <2>2 DEF LiesOn, Frame, Holding
  <2>5. <<a>> \o (<<b>> \o Tail(open)) \in Seq(Stack) /\ Nested(<<a>> \o (<<b>> \o Tail(open)))
    BY <2>2, <2>3, <2>4, PushedFrame DEF Frame, Types
  <2>6. open' = <<a>> \o (<<b>> \o Tail(open))
    BY <1>1, <1>h, <2>1, <2>2, TwoFrames DEF StartElement, Becomes
  <2>7. Head(open') = a
    BY <2>3, <2>6
  <2>8. PICK tokens \in Seq(Tokens) : Emit(tokens, "startkey")
    BY <1>1, SomeTokens, TokenSequences DEF StartElement, start_key
  <2>9. output_data' \in Seq(Tokens) /\ last_command' = "startkey" /\ thrown' = FALSE
    BY <1>0, <2>8, Emitted
  <2>10. "startkey" \in CommandsIn(a)
    BY <2>2 DEF CommandsIn, Frame, Types
  <2> QED
    BY <1>c, <2>5, <2>6, <2>7, <2>9, <2>10 DEF Commands
<1>2. ASSUME SimpleValue PROVE IInv'
  <2>1. open # <<>> /\ Head(open).kind \in {"element", "list"} /\ Head(open).has = "nothing"
    BY <1>2 DEF SimpleValue, InA
  <2>2. PICK f \in Stack : f = Holding("scalar")
    BY <1>h, <2>1 DEF Stack, Frame, Holding, Kinds, Types, Contents
  <2>3. open' = <<f>> \o Tail(open)
    BY <1>2, <2>2 DEF SimpleValue, Becomes
  <2>4. open' \in Seq(Stack) /\ Nested(open)' /\ Head(open') = f
    BY <1>r, <2>1, <2>2, <2>3 DEF Holding, Frame, Types
  <2>5. PICK tokens \in Seq(Tokens) : Emit(tokens, "addvalue")
    BY <1>h, <1>2, <2>1, SomeTokens, TokenSequences DEF SimpleValue, add_value, CommandsIn, Types
  <2>6. output_data' \in Seq(Tokens) /\ last_command' = "addvalue" /\ thrown' = FALSE
    BY <1>0, <2>5, Emitted
  <2>7. "addvalue" \in CommandsIn(f)
    BY <2>1, <2>2 DEF CommandsIn, Holding, Frame, Types
  <2> QED
    BY <1>c, <2>4, <2>6, <2>7 DEF Commands
<1>3. ASSUME EnterType PROVE IInv'
  <2>1. /\ open # <<>> /\ Head(open).kind \in {"element", "list"} /\ Head(open).has = "nothing"
        /\ UNCHANGED <<output_data, last_command, thrown>>
    BY <1>3 DEF EnterType, InA
  <2>2. CASE Head(open).kind = "element"
    <3>1. PICK f \in Stack : f = Frame("type", "nothing")
      BY DEF Stack, Frame, Kinds, Types, Contents
    <3>2. open' = <<f>> \o Tail(open)
      BY <1>3, <2>2, <3>1 DEF EnterType, Becomes
    <3>3. open' \in Seq(Stack) /\ Nested(open)' /\ Head(open') = f
      BY <1>r, <2>1, <2>2, <3>1, <3>2 DEF Frame, Types
    <3>4. last_command' = "startkey"
      BY <1>h, <2>1, <2>2 DEF CommandsIn
    <3>5. CommandsIn(f) = {"startkey"}
      BY <3>1 DEF CommandsIn, Frame, Types
    <3> QED
      BY <1>0, <1>c, <2>1, <3>3, <3>4, <3>5
  <2>3. CASE Head(open).kind = "list"
    <3>1. PICK a \in Stack, b \in Stack : a = Frame("item", "nothing") /\ b = Holding("type")
      BY <1>h, <2>1 DEF Stack, Frame, Holding, Kinds, Types, Contents
    <3>2. /\ <<b>> \o Tail(open) \in Seq(Stack) /\ Nested(<<b>> \o Tail(open))
          /\ <<b>> \o Tail(open) # <<>> /\ Head(<<b>> \o Tail(open)) = b
      BY <1>r, <2>1, <2>3, <3>1 DEF Holding, Frame, Types
    <3>3. LiesOn(a, b)
      BY <2>3, <3>1 DEF LiesOn, Frame, Holding
    <3>4. <<a>> \o (<<b>> \o Tail(open)) \in Seq(Stack) /\ Nested(<<a>> \o (<<b>> \o Tail(open)))
      BY <3>1, <3>2, <3>3, PushedFrame DEF Frame, Types
    <3>5. open' = <<a>> \o (<<b>> \o Tail(open))
      BY <1>3, <1>h, <2>1, <2>3, <3>1, TwoFrames DEF EnterType, Becomes
    <3>6. Head(open') = a
      BY <3>2, <3>5
    <3>7. last_command' \in {"startlist", "nextitem"}
      BY <1>h, <2>1, <2>3 DEF CommandsIn, Types
    <3>8. CommandsIn(a) = {"startlist", "nextitem"}
      BY <3>1 DEF CommandsIn, Frame, Types
    <3> QED
      BY <1>0, <1>c, <2>1, <3>4, <3>5, <3>6, <3>7, <3>8
  <2> QED
    BY <2>1, <2>2, <2>3
<1>4. ASSUME LeaveType PROVE IInv'
  <2>1. /\ open # <<>> /\ Head(open).kind \in {"type", "item"} /\ Head(open).has \in {"nothing", "members"}
        /\ UNCHANGED <<output_data, last_command, thrown>>
    BY <1>4 DEF LeaveType, InA
  <2>2. PICK has \in Contents : has = IF Head(open).has = "members" THEN "type" ELSE "empty type"
    BY DEF Contents
  <2>3. CASE Head(open).kind = "type"
    <3>1. PICK f \in Stack : f = Frame("element", has)
      BY <2>2 DEF Stack, Frame, Kinds
    <3>2. open' = <<f>> \o Tail(open)
      BY <1>4, <2>2, <2>3, <3>1 DEF LeaveType, Becomes
    <3>3. open' \in Seq(Stack) /\ Nested(open)' /\ Head(open') = f
      BY <1>r, <2>1, <2>2, <2>3, <3>1, <3>2 DEF Frame, Types
    <3>4. last_command' = IF has = "type" THEN "endkey" ELSE "startkey"
      BY <1>h, <2>1, <2>2, <2>3 DEF CommandsIn, Types
    <3>5. last_command' \in CommandsIn(f)
      BY <2>2, <3>1, <3>4 DEF CommandsIn, Frame, Types
    <3> QED
      BY <1>0, <1>c, <2>1, <3>3, <3>5
  <2>4. CASE Head(open).kind = "item"
    <3>1. PICK f \in Stack : f = Frame("list", has)
      BY <2>2 DEF Stack, Frame, Kinds
    <3>2. open' = <<f>> \o Tail(Tail(open))
      BY <1>4, <2>2, <2>4, <3>1 DEF LeaveType
    <3>3. /\ Tail(open) \in Seq(Stack) /\ Nested(Tail(open)) /\ Tail(open) # <<>>
          /\ Head(Tail(open)) = Frame("list", "type")
      <4>1. Len(open) # 1 /\ LiesOn(Head(open), open[2])
        BY <1>h, <2>1, <2>4
      <4>2. Tail(open) # <<>>
        BY <1>0, <2>1, <4>1, PoppedFrame
      <4> QED
        BY <1>0, <2>1, <2>4, <4>1, <4>2, PoppedFrame DEF LiesOn
    <3>4. PICK below \in Seq(Stack) : below = Tail(open)
      BY <3>3
    <3>5. /\ Nested(below) /\ below # <<>> /\ Head(below).kind = "list"
          /\ below[1] = Head(below)
      BY <3>3, <3>4 DEF Frame
    <3>6. Len(below) # 1 /\ LiesOn(f, below[2])
      BY <3>1, <3>5 DEF Nested, LiesOn, Frame
    <3>7. f.kind \notin Types /\ f.has # "members"
      BY <2>2, <3>1 DEF Frame, Types
    <3>8. <<f>> \o Tail(below) \in Seq(Stack) /\ Nested(<<f>> \o Tail(below))
      BY <3>5, <3>6, <3>7, ReplacedFrame
    <3>9. open' \in Seq(Stack) /\ Nested(open)' /\ Head(open') = f
      BY <3>2, <3>4, <3>5, <3>8
    <3>10. IF has = "type" THEN last_command' = "endkey" ELSE last_command' \in {"startlist", "nextitem"}
      BY <1>h, <2>1, <2>2, <2>4 DEF CommandsIn, Types
    <3>11. last_command' \in CommandsIn(f)
      BY <2>2, <3>1, <3>10 DEF CommandsIn, Frame, Types
    <3> QED
      BY <1>0, <1>c, <2>1, <3>9, <3>11
  <2> QED
    BY <2>1, <2>3, <2>4
<1>5. ASSUME EndElement PROVE IInv'
  <2>1. open # <<>> /\ Head(open).kind = "element" /\ open' = Tail(open)
    BY <1>5 DEF EndElement, InA
  <2>2. Len(open) # 1 /\ LiesOn(Head(open), open[2])
    BY <1>h, <2>1
  <2>3. Tail(open) # <<>>
    BY <1>0, <2>1, <2>2, PoppedFrame
  <2>4. /\ open' \in Seq(Stack) /\ Nested(open)' /\ Head(open') = open[2]
    BY <1>0, <2>1, <2>3, PoppedFrame
  <2>5. Head(open').kind \in Types /\ Head(open').has = "members"
    BY <2>1, <2>2, <2>4 DEF LiesOn
  <2>6. PICK tokens \in Seq(Tokens) : Emit(tokens, "endkey")
    BY <1>5, SomeTokens, TokenSequences DEF EndElement, end_key
  <2>7. output_data' \in Seq(Tokens) /\ last_command' = "endkey" /\ thrown' = FALSE
    BY <1>0, <2>6, Emitted
  <2>8. "endkey" \in CommandsIn(Head(open'))
    BY <2>5 DEF CommandsIn, Types
  <2> QED
    BY <1>c, <2>4, <2>7, <2>8 DEF Commands
<1>6. ASSUME StartList PROVE IInv'
  <2>1. open # <<>> /\ Head(open).kind \in {"element"} /\ Head(open).has = "nothing"
    BY <1>6 DEF StartList, InA
  <2>2. PICK f \in Stack : f = Frame("list", "nothing")
    BY <1>h, <2>1 DEF Stack, Frame, Holding, Kinds, Types, Contents
  <2>3. open' = <<f>> \o Tail(open)
    BY <1>6, <2>2 DEF StartList, Becomes
  <2>4. open' \in Seq(Stack) /\ Nested(open)' /\ Head(open') = f
    BY <1>r, <2>1, <2>2, <2>3 DEF Holding, Frame, Types
  <2>5. PICK tokens \in Seq(Tokens) : Emit(tokens, "startlist")
    BY <1>h, <1>6, <2>1, SomeTokens, TokenSequences DEF StartList, start_list, CommandsIn, Types
  <2>6. output_data' \in Seq(Tokens) /\ last_command' = "startlist" /\ thrown' = FALSE
    BY <1>0, <2>5, Emitted
  <2>7. "startlist" \in CommandsIn(f)
    BY <2>1, <2>2 DEF CommandsIn, Holding, Frame, Types
  <2> QED
    BY <1>c, <2>4, <2>6, <2>7 DEF Commands
<1>7. ASSUME NextItem PROVE IInv'
  <2>1. open # <<>> /\ Head(open).kind \in {"list"} /\ Head(open).has # "nothing"
    BY <1>7 DEF NextItem, InA
  <2>2. PICK f \in Stack : f = Holding("nothing")
    BY <1>h, <2>1 DEF Stack, Frame, Holding, Kinds, Types, Contents
  <2>3. open' = <<f>> \o Tail(open)
    BY <1>7, <2>2 DEF NextItem, Becomes
  <2>4. open' \in Seq(Stack) /\ Nested(open)' /\ Head(open') = f
    BY <1>r, <2>1, <2>2, <2>3 DEF Holding, Frame, Types
  <2>5. PICK tokens \in Seq(Tokens) : Emit(tokens, "nextitem")
    BY <1>h, <1>7, <2>1, SomeTokens, TokenSequences DEF NextItem, next_item, CommandsIn, Types
  <2>6. output_data' \in Seq(Tokens) /\ last_command' = "nextitem" /\ thrown' = FALSE
    BY <1>0, <2>5, Emitted
  <2>7. "nextitem" \in CommandsIn(f)
    BY <2>1, <2>2 DEF CommandsIn, Holding, Frame, Types
  <2> QED
    BY <1>c, <2>4, <2>6, <2>7 DEF Commands
<1>8. ASSUME EndList PROVE IInv'
  <2>1. open # <<>> /\ Head(open).kind \in {"list"} /\ Head(open).has # "nothing"
    BY <1>8 DEF EndList, InA
  <2>2. PICK f \in Stack : f = Frame("element", "list")
    BY <1>h, <2>1 DEF Stack, Frame, Holding, Kinds, Types, Contents
  <2>3. open' = <<f>> \o Tail(open)
    BY <1>8, <2>2 DEF EndList, Becomes
  <2>4. open' \in Seq(Stack) /\ Nested(open)' /\ Head(open') = f
    BY <1>r, <2>1, <2>2, <2>3 DEF Holding, Frame, Types
  <2>5. PICK tokens \in Seq(Tokens) : Emit(tokens, "endlist")
    BY <1>h, <1>8, <2>1, SomeTokens, TokenSequences DEF EndList, end_list, CommandsIn, Types
  <2>6. output_data' \in Seq(Tokens) /\ last_command' = "endlist" /\ thrown' = FALSE
    BY <1>0, <2>5, Emitted
  <2>7. "endlist" \in CommandsIn(f)
    BY <2>1, <2>2 DEF CommandsIn, Holding, Frame, Types
  <2> QED
    BY <1>c, <2>4, <2>6, <2>7 DEF Commands
<1>9. ASSUME get_full_stream PROVE IInv'
  <2>1. /\ output_data' = output_data \o <<"}">> /\ open' = <<>>
        /\ UNCHANGED <<last_command, thrown>>
    BY <1>9 DEF get_full_stream
  <2>2. output_data' \in Seq(Tokens)
    BY <1>0, <2>1, SomeTokens, TokenSequences, ConcatProperties
  <2>3. open' \in Seq(Stack) /\ Nested(open)'
    <3>1. open' \in Seq(Stack) /\ Len(open') = 0
      BY <2>1, EmptySeq
    <3>2. \A i \in 1 .. Len(open') : FALSE
      BY <3>1
    <3> QED
      BY <3>1, <3>2 DEF Nested
  <2> QED
    BY <1>0, <1>c, <2>1, <2>2, <2>3
<1>10. CASE UNCHANGED vars
  BY <1>10 DEF vars, TypeOK, LastCommandTellsContext, NeverThrows
<1> QED
  BY <1>1, <1>2, <1>3, <1>4, <1>5, <1>6, <1>7, <1>8, <1>9, <1>10 DEF Next

(* The invariant holds in every reachable state.                            *)
LEMMA InvariantHolds == Spec => []IInv
<1> QED
  BY InitEstablishesIInv, NextKeepsIInv, PTL DEF Spec

(* The variables keep their types, and the frames their nesting.            *)
THEOREM TypeCorrect == Spec => []TypeOK
<1>1. IInv => TypeOK
  BY DEF IInv
<1> QED
  BY <1>1, InvariantHolds, PTL

(* However deep elements, lists and types are nested, the one command the   *)
(* class remembers says what the innermost of them waits for.               *)
THEOREM LastCommandAlwaysTellsContext == Spec => []LastCommandTellsContext
<1>1. IInv => LastCommandTellsContext
  BY DEF IInv
<1> QED
  BY <1>1, InvariantHolds, PTL

(* No call of the decoder makes start_list throw.                           *)
THEOREM StartListNeverThrows == Spec => []NeverThrows
<1>1. IInv => NeverThrows
  BY DEF IInv
<1> QED
  BY <1>1, InvariantHolds, PTL

(***************************************************************************)
(* The refinement.  For members, values and lists of any number and        *)
(* nesting: what the class writes is the JSON text of what the decoder     *)
(* decoded.                                                                *)
(*                                                                         *)
(* Each call of the decoder is a step of JsonText or none.  The nesting of *)
(* JsonText is read off the decoder's call stack, and its text is the      *)
(* output with the braces that the class has put off.                      *)
(***************************************************************************)
ContextNames == {"first", "next", "value", "item", "items"}

(* The contexts of a stack of frames, and what JsonText sees of them: an    *)
(* element whose value is complete is no context.                           *)
ContextsOf(frames) == [i \in 1 .. Len(frames) |-> Context(frames[i])]
Complete(frame)    == frame.kind = "element" /\ frame.has # "nothing"
NestOf(frames)     == ContextsOf(IF frames # <<>> /\ Complete(Head(frames)) THEN Tail(frames) ELSE frames)
TextOf(output, frames) == IF frames = <<>> THEN output ELSE output \o Deferred(Head(frames))

(* A list gets scalars or types with members.  (A list in a list cannot be  *)
(* written in a schema, and an item without members is lost by next_item.)  *)
ListHas(frame)   == frame.kind = "list" => frame.has \in {"nothing", "scalar", "type"}
ListsIn(frames)  == \A i \in 1 .. Len(frames) : ListHas(frames[i])
ListsHold        == ListsIn(open)

(* What the refinement needs to know of the states it is about.             *)
RInv == IInv /\ ListsHold

(* A frame has one context.                                                 *)
LEMMA ContextOfFrame ==
  ASSUME NEW f \in Stack
  PROVE  /\ f.kind = "element" => Context(f) = "value"
         /\ f.kind \in Types => Context(f) = IF f.has = "nothing" THEN "first" ELSE "next"
         /\ f.kind = "list" => Context(f) = IF f.has = "nothing" THEN "item" ELSE "items"
         /\ Context(f) \in ContextNames
  BY DEF Stack, Kinds, Types, Context, ContextNames

(* The contexts of a stack, one frame at a time.                            *)
LEMMA ContextsOnTop ==
  ASSUME NEW f \in Stack, NEW rest \in Seq(Stack)
  PROVE  /\ ContextsOf(rest) \in Seq(ContextNames)
         /\ ContextsOf(<<f>> \o rest) = <<Context(f)>> \o ContextsOf(rest)
         /\ ContextsOf(<<f>> \o rest) # <<>>
         /\ Head(ContextsOf(<<f>> \o rest)) = Context(f)
         /\ Tail(ContextsOf(<<f>> \o rest)) = ContextsOf(rest)
<1>1. ContextsOf(rest) \in Seq(ContextNames)
  <2>1. Len(rest) \in Nat
    BY LenProperties
  <2>2. \A i \in 1 .. Len(rest) : Context(rest[i]) \in ContextNames
    BY ElementOfSeq, ContextOfFrame
  <2> QED
    BY <2>1, <2>2 DEF ContextsOf
<1>2. PICK c \in ContextNames : c = Context(f)
  BY ContextOfFrame
<1>3. ContextsOf(<<f>> \o rest) = <<c>> \o ContextsOf(rest)
  BY <1>1, <1>2 DEF ContextsOf
<1>4. /\ <<c>> \o ContextsOf(rest) # <<>>
      /\ Head(<<c>> \o ContextsOf(rest)) = c
      /\ Tail(<<c>> \o ContextsOf(rest)) = ContextsOf(rest)
  BY <1>1, <1>2
<1> QED
  BY <1>1, <1>2, <1>3, <1>4

(* The stack with its innermost frame apart.                                *)
LEMMA HeadAndTail ==
  ASSUME NEW frames \in Seq(Stack), frames # <<>>
  PROVE  /\ Head(frames) \in Stack /\ Tail(frames) \in Seq(Stack)
         /\ frames = <<Head(frames)>> \o Tail(frames)
  OBVIOUS

(* Putting frames on a stack.                                               *)
LEMMA OnTop ==
  ASSUME NEW f \in Stack, NEW rest \in Seq(Stack)
  PROVE  /\ <<f>> \o rest \in Seq(Stack) /\ <<f>> \o rest # <<>>
         /\ Head(<<f>> \o rest) = f /\ Tail(<<f>> \o rest) = rest
  OBVIOUS

(* What JsonText sees of a stack, with a frame that is complete or not.     *)
LEMMA NestOnTop ==
  ASSUME NEW f \in Stack, NEW rest \in Seq(Stack)
  PROVE  /\ Complete(f) => NestOf(<<f>> \o rest) = ContextsOf(rest)
         /\ ~Complete(f) => NestOf(<<f>> \o rest) = <<Context(f)>> \o ContextsOf(rest)
         /\ \A output : TextOf(output, <<f>> \o rest) = output \o Deferred(f)
  BY OnTop, ContextsOnTop DEF NestOf, TextOf

(* The text grows by the tokens that are not put off.                       *)
LEMMA Regrouped ==
  ASSUME NEW output \in Seq(Tokens), NEW a \in Seq(Tokens), NEW b \in Seq(Tokens)
  PROVE  (output \o a) \o b = output \o (a \o b)
  BY ConcatAssociative

(* Two tokens one behind the other, and none.                               *)
LEMMA TokenPairs ==
  ASSUME NEW a \in Tokens, NEW b \in Tokens, NEW output \in Seq(Tokens)
  PROVE  /\ output \o <<>> = output
         /\ <<a>> \in Seq(Tokens) /\ <<a, b>> \in Seq(Tokens)
         /\ (output \o <<a>>) \o <<b>> = output \o <<a, b>>
<1>1. <<a>> \in Seq(Tokens) /\ <<b>> \in Seq(Tokens) /\ <<a, b>> \in Seq(Tokens)
  OBVIOUS
<1>2. <<a>> \o <<b>> = <<a, b>>
  <2>1. PICK ab \in Seq(Tokens) : ab = <<a>> \o <<b>>
    BY <1>1, ConcatProperties
  <2>2. Len(ab) = 2 /\ ab[1] = a /\ ab[2] = b
    BY <1>1, <2>1, ConcatProperties
  <2>3. ab = <<a, b>>
    BY <1>1, <2>2, SeqEqual
  <2> QED
    BY <2>1, <2>3
<1>3. (output \o <<a>>) \o <<b>> = output \o (<<a>> \o <<b>>)
  BY <1>1, Regrouped
<1>4. output \o <<>> = output
  OBVIOUS
<1> QED
  BY <1>1, <1>2, <1>3, <1>4

(* The lists of a stack, one frame at a time.                               *)
LEMMA ListsOnTop ==
  ASSUME NEW f \in Stack, NEW rest \in Seq(Stack)
  PROVE  ListsIn(<<f>> \o rest) <=> ListHas(f) /\ ListsIn(rest)
<1>1. /\ Len(rest) \in Nat /\ Len(<<f>> \o rest) = Len(rest) + 1
      /\ (<<f>> \o rest)[1] = f
      /\ \A i \in 1 .. Len(rest) : (<<f>> \o rest)[i + 1] = rest[i]
  OBVIOUS
<1>2. ASSUME ListsIn(<<f>> \o rest) PROVE ListHas(f) /\ ListsIn(rest)
  <2>1. ListHas(f)
    BY <1>1, <1>2 DEF ListsIn
  <2>2. ASSUME NEW i \in 1 .. Len(rest) PROVE ListHas(rest[i])
    <3>1. i + 1 \in 1 .. Len(<<f>> \o rest)
      BY <1>1
    <3> QED
      BY <1>1, <1>2, <3>1 DEF ListsIn
  <2> QED
    BY <2>1, <2>2 DEF ListsIn
<1>3. ASSUME ListHas(f), ListsIn(rest) PROVE ListsIn(<<f>> \o rest)
  <2> SUFFICES ASSUME NEW i \in 1 .. Len(<<f>> \o rest) PROVE ListHas((<<f>> \o rest)[i])
    BY DEF ListsIn
  <2>1. CASE i = 1
    BY <1>1, <1>3, <2>1
  <2>2. CASE i # 1
    <3>1. i - 1 \in 1 .. Len(rest) /\ i = (i - 1) + 1
      BY <1>1, <2>2
    <3>2. (<<f>> \o rest)[i] = rest[i - 1]
      BY <1>1, <3>1
    <3> QED
      BY <1>3, <3>1, <3>2 DEF ListsIn
  <2> QED
    BY <2>1, <2>2
<1> QED
  BY <1>2, <1>3

(* Before the first call JsonText has the brace of the root object, which   *)
(* the class has put off.                                                   *)
LEMMA InitRefines == Init => Text!Init /\ ListsHold
<1> SUFFICES ASSUME Init PROVE Text!Init /\ ListsHold
  OBVIOUS
<1>1. PICK f \in Stack : f = Frame("root", "nothing")
  BY DEF Stack, Frame, Kinds, Types, Contents
<1>2. f.kind = "root" /\ f.has = "nothing"
  BY <1>1 DEF Frame
<1>3. open = <<f>> /\ Len(open) = 1 /\ open[1] = f /\ Head(open) = f /\ open # <<>>
  BY <1>1 DEF Init
<1>4. Deferred(f) = <<"{">> /\ output_data \o <<"{">> = <<"{">>
  <2>1. Deferred(f) = <<"{">>
    BY <1>2 DEF Deferred, Types
  <2>2. <<"{">> \in Seq(Tokens) /\ output_data = <<>>
    BY SomeTokens, TokenSequences DEF Init
  <2>3. <<>> \o <<"{">> = <<"{">>
    BY <2>2, ConcatEmptySeq
  <2> QED
    BY <2>1, <2>2, <2>3
<1>5. Context(f) = "first"
  BY <1>2, ContextOfFrame DEF Types
<1>6. ~InA({"element"}, Contents \ {"nothing"})
  BY <1>2, <1>3 DEF InA
<1>7. Contexts = <<"first">>
  BY <1>3, <1>5, <1>6 DEF Contexts
<1>8. ListsHold
  BY <1>2, <1>3 DEF ListsHold, ListsIn, ListHas
<1> QED
  BY <1>3, <1>4, <1>7, <1>8 DEF Text!Init

(* A context and the one below it.                                          *)
LEMMA TwoContexts ==
  ASSUME NEW a \in ContextNames, NEW b \in ContextNames, NEW rest \in Seq(ContextNames)
  PROVE  /\ <<a>> \o (<<b>> \o rest) = <<a, b>> \o rest
         /\ <<a>> \o rest # <<>> /\ Head(<<a>> \o rest) = a /\ Tail(<<a>> \o rest) = rest
         /\ <<>> \o rest = rest
         /\ <<a>> \o <<b>> = <<a, b>>
<1>1. <<a>> \in Seq(ContextNames) /\ <<b>> \in Seq(ContextNames) /\ <<a, b>> \in Seq(ContextNames)
  OBVIOUS
<1>2. <<a>> \o <<b>> = <<a, b>>
  <2>1. PICK ab \in Seq(ContextNames) : ab = <<a>> \o <<b>>
    BY <1>1, ConcatProperties
  <2>2. Len(ab) = 2 /\ ab[1] = a /\ ab[2] = b
    BY <1>1, <2>1, ConcatProperties
  <2>3. ab = <<a, b>>
    BY <1>1, <2>2, SeqEqual
  <2> QED
    BY <2>1, <2>3
<1>3. (<<a>> \o <<b>>) \o rest = <<a>> \o (<<b>> \o rest)
  BY <1>1, ConcatAssociative
<1>4. <<a>> \o rest # <<>> /\ Head(<<a>> \o rest) = a /\ Tail(<<a>> \o rest) = rest
  OBVIOUS
<1>5. <<>> \o rest = rest
  BY ConcatEmptySeq
<1> QED
  BY <1>2, <1>3, <1>4, <1>5

(* What JsonText sees of a state.                                           *)
LEMMA Seen ==
  open \in Seq(Stack) /\ thrown = FALSE =>
    /\ Contexts = NestOf(open)
    /\ (IF open = <<>> THEN output_data ELSE output_data \o Deferred(Head(open))) = TextOf(output_data, open)
<1> SUFFICES ASSUME open \in Seq(Stack), thrown = FALSE
             PROVE  /\ Contexts = NestOf(open)
                    /\ (IF open = <<>> THEN output_data ELSE output_data \o Deferred(Head(open)))
                         = TextOf(output_data, open)
  OBVIOUS
<1>1. ASSUME open # <<>>
      PROVE  InA({"element"}, Contents \ {"nothing"}) <=> Complete(Head(open))
  BY <1>1, HeadAndTail DEF InA, Complete, Stack
<1>2. Contexts = ContextsOf(IF InA({"element"}, Contents \ {"nothing"}) THEN Tail(open) ELSE open)
  BY DEF Contexts, ContextsOf
<1>3. InA({"element"}, Contents \ {"nothing"}) => open # <<>>
  BY DEF InA
<1>4. Contexts = NestOf(open)
  BY <1>1, <1>2, <1>3, Zenon DEF NestOf
<1> QED
  BY <1>4 DEF TextOf

(***************************************************************************)
(* The steps.  A value takes the place of the "value" or the "item" that   *)
(* was due, and the rest of JsonText's steps open and close what it is in. *)
(***************************************************************************)
LEMMA StepRefines ==
  ASSUME ItemsMayBeEmpty = FALSE, IInv, ListsHold, [Next]_vars
  PROVE  [Text!Next]_(Text!vars) /\ ListsHold'
<1> DEFINE nest == NestOf(open)
           text == TextOf(output_data, open)
           h    == Head(open)
           r    == Tail(open)
           low  == ContextsOf(r)
<1>0. /\ open \in Seq(Stack) /\ Nested(open) /\ output_data \in Seq(Tokens) /\ thrown = FALSE
      /\ open # <<>> => last_command \in CommandsIn(h)
  BY DEF IInv, TypeOK, Stack, Tokens, NeverThrows, LastCommandTellsContext
<1>p. open' \in Seq(Stack) /\ output_data' \in Seq(Tokens) /\ thrown' = FALSE
  <2>1. IInv'
    BY NextKeepsIInv
  <2> QED
    BY <2>1 DEF IInv, TypeOK, Stack, Tokens, NeverThrows
<1>s. /\ Contexts = nest
      /\ (IF open = <<>> THEN output_data ELSE output_data \o Deferred(Head(open))) = text
  BY <1>0, Seen
<1>t. /\ Contexts' = NestOf(open')
      /\ (IF open' = <<>> THEN output_data' ELSE output_data' \o Deferred(Head(open'))) = TextOf(output_data', open')
  <2>1. (open \in Seq(Stack) /\ thrown = FALSE =>
          /\ Contexts = NestOf(open)
          /\ (IF open = <<>> THEN output_data ELSE output_data \o Deferred(Head(open))) = TextOf(output_data, open))'
    BY Seen, PTL
  <2> QED
    BY <1>p, <2>1
<1>h. ASSUME open # <<>>
      PROVE  /\ h \in Stack /\ r \in Seq(Stack) /\ open = <<h>> \o r
             /\ low \in Seq(ContextNames)
             /\ Complete(h) => nest = low
             /\ ~Complete(h) => nest = <<Context(h)>> \o low /\ nest # <<>> /\ Head(nest) = Context(h) /\ Tail(nest) = low
             /\ text = output_data \o Deferred(h)
             /\ ListHas(h) /\ ListsIn(r)
  <2>1. h \in Stack /\ r \in Seq(Stack) /\ open = <<h>> \o r
    BY <1>0, <1>h, HeadAndTail
  <2>2. /\ Complete(h) => nest = low
        /\ ~Complete(h) => nest = <<Context(h)>> \o low
        /\ text = output_data \o Deferred(h)
    BY <2>1, NestOnTop
  <2>3. low \in Seq(ContextNames) /\ Context(h) \in ContextNames
    BY <2>1, ContextsOnTop, ContextOfFrame
  <2>4. ListHas(h) /\ ListsIn(r)
    BY <2>1, ListsOnTop DEF ListsHold
  <2> QED
    BY <2>1, <2>2, <2>3, <2>4, TwoContexts
(* A frame on the old rest of the stack.                                     *)
<1>f. ASSUME open # <<>>, NEW f \in Stack, open' = <<f>> \o r
      PROVE  /\ Complete(f) => NestOf(open') = low
             /\ ~Complete(f) => NestOf(open') = <<Context(f)>> \o low
             /\ TextOf(output_data', open') = output_data' \o Deferred(f)
             /\ ListHas(f) => ListsHold'
  BY <1>f, <1>h, NestOnTop, ListsOnTop DEF ListsHold
(* Two frames on it.                                                         *)
<1>g. ASSUME open # <<>>, NEW a \in Stack, NEW b \in Stack, open' = <<a>> \o (<<b>> \o r)
      PROVE  /\ ~Complete(a) => NestOf(open') = <<Context(a), Context(b)>> \o low
             /\ TextOf(output_data', open') = output_data' \o Deferred(a)
             /\ ListHas(a) /\ ListHas(b) => ListsHold'
  <2>1. <<b>> \o r \in Seq(Stack) /\ ContextsOf(<<b>> \o r) = <<Context(b)>> \o low
    BY <1>g, <1>h, OnTop, ContextsOnTop
  <2>2. /\ ~Complete(a) => NestOf(open') = <<Context(a)>> \o (<<Context(b)>> \o low)
        /\ TextOf(output_data', open') = output_data' \o Deferred(a)
    BY <1>g, <2>1, NestOnTop
  <2>3. Context(a) \in ContextNames /\ Context(b) \in ContextNames
    BY <1>g, ContextOfFrame
  <2>4. ListHas(a) /\ ListHas(b) => ListsHold'
    BY <1>g, <1>h, <2>1, ListsOnTop DEF ListsHold
  <2> QED
    BY <1>g, <1>h, <2>2, <2>3, <2>4, TwoContexts
<1>1. ASSUME NEW key \in Keys, StartElement(key) PROVE Text!Member(key) /\ ListsHold'
  <2>1. open # <<>> /\ h.kind \in Types /\ h.has \in {"nothing", "members"}
    BY <1>1 DEF StartElement, InA
  <2>2. PICK a \in Stack, b \in Stack : a = Frame("element", "nothing") /\ b = Holding("members")
    BY <1>h, <2>1 DEF Stack, Frame, Holding, Kinds, Contents
  <2>3. a.kind = "element" /\ a.has = "nothing" /\ b.kind = h.kind /\ b.has = "members"
    BY <2>2 DEF Frame, Holding
  <2>4. open' = <<a>> \o (<<b>> \o r)
    BY <1>1, <1>h, <2>1, <2>2, TwoFrames DEF StartElement, Becomes
  <2>5. Context(a) = "value" /\ Context(b) = "next" /\ ~Complete(a) /\ ~Complete(h)
    BY <2>1, <2>3, ContextOfFrame DEF Complete, Types
  <2>6. NestOf(open') = <<"value", "next">> \o low /\ ListsHold'
    BY <1>g, <2>1, <2>3, <2>4, <2>5 DEF ListHas, Types
  <2>7. TextOf(output_data', open') = output_data'
    <3>1. Deferred(a) = <<>>
      BY <2>3 DEF Deferred, Types
    <3> QED
      BY <1>g, <1>p, <2>1, <2>4, <3>1, TokenPairs, SomeTokens
  <2>8. CASE h.has = "nothing"
    <3>1. last_command # "endkey"
      BY <1>0, <2>1, <2>8 DEF CommandsIn, Types
    <3>2. output_data' = output_data \o <<"{", key>>
      BY <1>1, <3>1 DEF StartElement, start_key, Emit
    <3>3. text = output_data \o <<"{">>
      BY <1>h, <2>1, <2>8 DEF Deferred
    <3>4. TextOf(output_data', open') = text \o <<key>>
      <4>1. "{" \in Tokens /\ key \in Tokens
        BY SomeTokens
      <4>2. (output_data \o <<"{">>) \o <<key>> = output_data \o <<"{", key>>
        BY <1>0, <4>1, TokenPairs
      <4> QED
        BY <2>7, <3>2, <3>3, <4>2
    <3>5. nest # <<>> /\ Head(nest) = "first" /\ Tail(nest) = low
      BY <1>h, <2>1, <2>5, <2>8, ContextOfFrame
    <3> QED
      BY <1>s, <1>t, <2>6, <3>4, <3>5 DEF Text!Member, Text!Top, Text!Write, Text!Below
  <2>9. CASE h.has = "members"
    <3>1. last_command = "endkey"
      BY <1>0, <2>1, <2>9 DEF CommandsIn, Types
    <3>2. output_data' = output_data \o <<",", key>>
      BY <1>1, <3>1 DEF StartElement, start_key, Emit
    <3>3. text = output_data
      <4>1. Deferred(h) = <<>>
        BY <2>9 DEF Deferred
      <4> QED
        BY <1>0, <1>h, <2>1, <4>1, TokenPairs, SomeTokens
    <3>4. TextOf(output_data', open') = text \o <<",", key>>
      BY <2>7, <3>2, <3>3
    <3>5. nest # <<>> /\ Head(nest) = "next" /\ Tail(nest) = low
      BY <1>h, <2>1, <2>5, <2>9, ContextOfFrame
    <3> QED
      BY <1>s, <1>t, <2>6, <3>4, <3>5 DEF Text!Member, Text!Top, Text!Write, Text!Below
  <2> QED
    BY <2>1, <2>6, <2>8, <2>9
(* The context of an element or a list that waits for its value.             *)
<1>w. ASSUME open # <<>>, h.kind \in {"element", "list"}, h.has = "nothing"
      PROVE  /\ text = output_data
             /\ nest # <<>> /\ Tail(nest) = low
             /\ Head(nest) = IF h.kind = "element" THEN "value" ELSE "item"
  <2>1. Deferred(h) = <<>>
    BY <1>w DEF Deferred, Types
  <2>2. text = output_data
    BY <1>0, <1>h, <1>w, <2>1, TokenPairs, SomeTokens
  <2> QED
    BY <1>h, <1>w, <2>2, ContextOfFrame DEF Complete
<1>2. ASSUME SimpleValue PROVE Text!PutScalar /\ ListsHold'
  <2>1. open # <<>> /\ h.kind \in {"element", "list"} /\ h.has = "nothing"
    BY <1>2 DEF SimpleValue, InA
  <2>2. PICK f \in Stack : f = Holding("scalar")
    BY <1>h, <2>1 DEF Stack, Frame, Holding, Kinds, Types, Contents
  <2>3. f.kind = h.kind /\ f.has = "scalar" /\ open' = <<f>> \o r
    BY <1>2, <2>2 DEF SimpleValue, Becomes, Holding, Frame
  <2>4. ListsHold'
    BY <1>f, <2>1, <2>3 DEF ListHas
  <2>5. TextOf(output_data', open') = text \o <<Scalar>>
    <3>1. Deferred(f) = <<>>
      BY <2>1, <2>3 DEF Deferred, Types
    <3>2. output_data' = output_data \o <<Scalar>>
      BY <1>2 DEF SimpleValue, add_value, Emit
    <3>3. output_data' \o <<>> = output_data'
      BY <1>p, TokenPairs, SomeTokens
    <3> QED
      BY <1>f, <1>w, <2>1, <2>3, <3>1, <3>2, <3>3
  <2>6. NestOf(open') = IF h.kind = "element" THEN low ELSE <<"items">> \o low
    BY <1>f, <2>1, <2>3, ContextOfFrame DEF Complete
  <2>7. <<>> \o low = low
    BY <1>h, <2>1, TwoContexts DEF ContextNames
  <2>8. Text!Write(<<Scalar>>)
    BY <1>s, <1>t, <2>5 DEF Text!Write
  <2>9. Text!Given(<<>>)
    <3>1. CASE h.kind = "element"
      BY <1>s, <1>t, <1>w, <2>1, <2>6, <2>7, <3>1 DEF Text!Given, Text!Top, Text!Below
    <3>2. CASE h.kind = "list"
      <4>1. <<>> \o <<"items">> = <<"items">>
        OBVIOUS
      <4> QED
        BY <1>s, <1>t, <1>w, <2>1, <2>6, <3>2, <4>1 DEF Text!Given, Text!Top, Text!Below
    <3> QED
      BY <2>1, <3>1, <3>2
  <2> QED
    BY <2>4, <2>8, <2>9 DEF Text!PutScalar, Text!Scalar, Scalar
<1>3. ASSUME EnterType PROVE Text!BeginObject /\ ListsHold'
  <2>1. open # <<>> /\ h.kind \in {"element", "list"} /\ h.has = "nothing" /\ output_data' = output_data
    BY <1>3 DEF EnterType, InA
  <2>2. CASE h.kind = "element"
    <3>1. PICK f \in Stack : f = Frame("type", "nothing")
      BY DEF Stack, Frame, Kinds, Types, Contents
    <3>2. f.kind = "type" /\ f.has = "nothing" /\ open' = <<f>> \o r
      BY <1>3, <2>2, <3>1 DEF EnterType, Becomes, Frame
    <3>3. NestOf(open') = <<"first">> \o low /\ ListsHold'
      BY <1>f, <2>1, <3>2, ContextOfFrame DEF Complete, ListHas, Types
    <3>4. TextOf(output_data', open') = text \o <<"{">>
      BY <1>f, <1>w, <2>1, <3>2 DEF Deferred, Types
    <3> QED
      BY <1>s, <1>t, <1>w, <2>1, <2>2, <3>3, <3>4 DEF Text!BeginObject, Text!Given, Text!Top, Text!Below, Text!Write
  <2>3. CASE h.kind = "list"
    <3>1. PICK a \in Stack, b \in Stack : a = Frame("item", "nothing") /\ b = Holding("type")
      BY <1>h, <2>1 DEF Stack, Frame, Holding, Kinds, Types, Contents
    <3>2. a.kind = "item" /\ a.has = "nothing" /\ b.kind = "list" /\ b.has = "type"
      BY <2>3, <3>1 DEF Frame, Holding
    <3>3. open' = <<a>> \o (<<b>> \o r)
      BY <1>3, <1>h, <2>1, <2>3, <3>1, TwoFrames DEF EnterType, Becomes
    <3>4. Context(a) = "first" /\ Context(b) = "items" /\ ~Complete(a) /\ ListHas(a) /\ ListHas(b)
      BY <3>2, ContextOfFrame DEF Complete, ListHas, Types
    <3>5. NestOf(open') = <<"first", "items">> \o low /\ ListsHold'
      BY <1>g, <2>1, <3>3, <3>4
    <3>6. TextOf(output_data', open') = text \o <<"{">>
      BY <1>g, <1>w, <2>1, <3>2, <3>3 DEF Deferred, Types
    <3>7. <<"first">> \o <<"items">> = <<"first", "items">>
      BY <1>h, <2>1, TwoContexts DEF ContextNames
    <3> QED
      BY <1>s, <1>t, <1>w, <2>1, <2>3, <3>5, <3>6, <3>7 DEF Text!BeginObject, Text!Given, Text!Top, Text!Below, Text!Write
  <2> QED
    BY <2>1, <2>2, <2>3
(* What a type that returns leaves to be written: its brace, or both.        *)
<1>4. ASSUME LeaveType PROVE Text!EndObject /\ ListsHold'
  <2>1. /\ open # <<>> /\ h.kind \in {"type", "item"} /\ h.has \in {"nothing", "members"}
        /\ output_data' = output_data
    BY <1>4 DEF LeaveType, InA
  <2>2. /\ nest # <<>> /\ Tail(nest) = low
        /\ Head(nest) = "first" \/ Head(nest) = "next"
    BY <1>h, <2>1, ContextOfFrame DEF Complete, Types
  <2>3. PICK has \in Contents : has = IF h.has = "members" THEN "type" ELSE "empty type"
    BY DEF Contents
  <2>4. ASSUME NEW f \in Stack, f.has = has, f.kind \in {"element", "list"}
        PROVE  output_data' \o Deferred(f) = text \o <<"}">>
    <3>1. CASE h.has = "members"
      <4>1. Deferred(f) = <<"}">> /\ Deferred(h) = <<>>
        BY <2>3, <2>4, <3>1 DEF Deferred, Types
      <4>2. output_data \o <<>> = output_data
        BY <1>0, TokenPairs, SomeTokens
      <4> QED
        BY <1>h, <2>1, <4>1, <4>2
    <3>2. CASE h.has = "nothing"
      <4>1. Deferred(f) = <<"{", "}">> /\ Deferred(h) = <<"{">>
        BY <2>1, <2>3, <2>4, <3>2 DEF Deferred, Types
      <4>2. (output_data \o <<"{">>) \o <<"}">> = output_data \o <<"{", "}">>
        BY <1>0, TokenPairs, SomeTokens
      <4> QED
        BY <1>h, <2>1, <4>1, <4>2
    <3> QED
      BY <2>1, <3>1, <3>2
  <2>5. CASE h.kind = "type"
    <3>1. PICK f \in Stack : f = Frame("element", has)
      BY <2>3 DEF Stack, Frame, Kinds
    <3>2. f.kind = "element" /\ f.has = has /\ open' = <<f>> \o r /\ Complete(f) /\ ListHas(f)
      BY <1>4, <2>3, <2>5, <3>1 DEF LeaveType, Becomes, Frame, Complete, ListHas
    <3>3. NestOf(open') = low /\ TextOf(output_data', open') = text \o <<"}">> /\ ListsHold'
      BY <1>f, <2>1, <2>4, <3>2
    <3> QED
      BY <1>s, <1>t, <2>2, <3>3 DEF Text!EndObject, Text!Top, Text!Below, Text!Write
  <2>6. CASE h.kind = "item"
    <3>1. has = "type"
      BY <1>4, <2>3, <2>6 DEF LeaveType
    <3>2. PICK f \in Stack : f = Frame("list", has)
      BY <2>3 DEF Stack, Frame, Kinds
    <3>3. f.kind = "list" /\ f.has = "type" /\ open' = <<f>> \o Tail(r)
      BY <1>4, <2>3, <2>6, <3>1, <3>2 DEF LeaveType, Frame
    <3>4. r # <<>> /\ Head(r) = f
      <4>1. LiesOn(h, open[2]) /\ Len(open) # 1
        <5>1. 1 \in 1 .. Len(open) /\ h = open[1]
          BY <1>0, <2>1
        <5>2. /\ 1 = Len(open) => open[1].kind = "root"
              /\ 1 # Len(open) => LiesOn(open[1], open[1 + 1])
          BY <1>0, <5>1 DEF Nested
        <5> QED
          BY <2>6, <5>1, <5>2
      <4> QED
        BY <1>0, <2>1, <2>6, <3>1, <3>2, <4>1, PoppedFrame DEF LiesOn
    <3>5. open' = r
      BY <1>h, <2>1, <3>3, <3>4, HeadAndTail
    <3>6. NestOf(r) = low /\ TextOf(output_data', r) = output_data' \o Deferred(f)
      BY <3>3, <3>4 DEF NestOf, TextOf, Complete
    <3>7. NestOf(open') = low /\ TextOf(output_data', open') = text \o <<"}">>
      BY <2>3, <2>4, <3>1, <3>3, <3>5, <3>6
    <3>8. ListsHold'
      BY <1>h, <2>1, <3>5 DEF ListsHold
    <3> QED
      BY <1>s, <1>t, <2>2, <3>7, <3>8 DEF Text!EndObject, Text!Top, Text!Below, Text!Write
  <2> QED
    BY <2>1, <2>5, <2>6
(* end_key writes what was put off, and says nothing new.                     *)
<1>5. ASSUME EndElement PROVE UNCHANGED Text!vars /\ ListsHold'
  <2>1. open # <<>> /\ h.kind = "element" /\ h.has # "nothing" /\ open' = r
    BY <1>5 DEF EndElement, InA
  <2>2. nest = low
    BY <1>h, <2>1 DEF Complete
  <2>3. r # <<>> /\ Head(r).kind \in Types /\ Head(r).has = "members"
    <3>1. 1 \in 1 .. Len(open) /\ h = open[1]
      BY <1>0, <2>1
    <3>2. /\ 1 = Len(open) => open[1].kind = "root"
          /\ 1 # Len(open) => LiesOn(open[1], open[1 + 1])
      BY <1>0, <3>1 DEF Nested
    <3>3. Len(open) # 1 /\ LiesOn(h, open[2])
      BY <2>1, <3>1, <3>2
    <3>4. r # <<>> /\ Head(r) = open[2]
      BY <1>0, <2>1, <3>3, PoppedFrame
    <3> QED
      BY <2>1, <3>3, <3>4 DEF LiesOn
  <2>4. NestOf(open') = low
    BY <2>1, <2>3 DEF NestOf, Complete, Types
  <2>5. TextOf(output_data', open') = output_data'
    <3>1. Deferred(Head(r)) = <<>>
      BY <2>3 DEF Deferred
    <3>2. output_data' \o <<>> = output_data'
      BY <1>p, TokenPairs, SomeTokens
    <3> QED
      BY <2>1, <2>3, <3>1, <3>2 DEF TextOf
  <2>6. output_data' = text
    <3>1. output_data \o <<>> = output_data
      BY <1>0, TokenPairs, SomeTokens
    <3>2. h \in Stack /\ text = output_data \o Deferred(h) /\ last_command \in CommandsIn(h)
      BY <1>0, <1>h, <2>1
    <3>3. output_data' = output_data \o (IF last_command = "endkey" THEN <<"}">>
                                        ELSE IF last_command = "startkey" THEN <<"{", "}">> ELSE <<>>)
      BY <1>5 DEF EndElement, end_key, Emit
    <3>4. h.has # "members"
      <4>1. 1 \in 1 .. Len(open) /\ h = open[1]
        BY <1>0, <2>1
      <4> QED
        BY <1>0, <2>1, <4>1 DEF Nested, Types
    <3>5. CASE h.has \in {"scalar", "list"}
      <4>1. last_command \in {"addvalue", "endlist"} /\ Deferred(h) = <<>>
        BY <2>1, <3>2, <3>5 DEF CommandsIn, Deferred, Types
      <4> QED
        BY <3>1, <3>2, <3>3, <4>1
    <3>6. CASE h.has = "type"
      <4>1. last_command = "endkey" /\ Deferred(h) = <<"}">>
        BY <2>1, <3>2, <3>6 DEF CommandsIn, Deferred, Types
      <4> QED
        BY <3>2, <3>3, <4>1
    <3>7. CASE h.has = "empty type"
      <4>1. last_command = "startkey" /\ Deferred(h) = <<"{", "}">>
        BY <2>1, <3>2, <3>7 DEF CommandsIn, Deferred, Types
      <4> QED
        BY <3>2, <3>3, <4>1
    <3> QED
      BY <2>1, <3>2, <3>4, <3>5, <3>6, <3>7 DEF Stack, Contents
  <2>7. ListsHold'
    BY <1>h, <2>1 DEF ListsHold
  <2> QED
    BY <1>s, <1>t, <2>2, <2>4, <2>5, <2>6, <2>7 DEF Text!vars
<1>6. ASSUME StartList PROVE Text!BeginList /\ ListsHold'
  <2>1. open # <<>> /\ h.kind = "element" /\ h.has = "nothing"
    BY <1>6 DEF StartList, InA
  <2>2. PICK f \in Stack : f = Frame("list", "nothing")
    BY DEF Stack, Frame, Kinds, Types, Contents
  <2>3. f.kind = "list" /\ f.has = "nothing" /\ open' = <<f>> \o r
    BY <1>6, <2>2 DEF StartList, Becomes, Frame
  <2>4. output_data' = output_data \o <<"[">>
    BY <1>0, <1>6, <1>p, <2>1 DEF StartList, start_list, Emit
  <2>5. NestOf(open') = <<"item">> \o low /\ ListsHold'
    BY <1>f, <2>1, <2>3, ContextOfFrame DEF Complete, ListHas
  <2>6. TextOf(output_data', open') = text \o <<"[">>
    <3>1. Deferred(f) = <<>>
      BY <2>3 DEF Deferred, Types
    <3>2. output_data' \o <<>> = output_data'
      BY <1>p, TokenPairs, SomeTokens
    <3> QED
      BY <1>f, <1>w, <2>1, <2>3, <2>4, <3>1, <3>2
  <2> QED
    BY <1>s, <1>t, <1>w, <2>1, <2>5, <2>6 DEF Text!BeginList, Text!Given, Text!Top, Text!Below, Text!Write
(* A list that has an item: its brace is still to be written, or not.        *)
<1>i. ASSUME open # <<>>, h.kind = "list", h.has # "nothing"
      PROVE  /\ nest # <<>> /\ Tail(nest) = low /\ Head(nest) = "items"
             /\ \/ last_command = "addvalue" /\ text = output_data
                \/ last_command = "endkey" /\ text = output_data \o <<"}">>
  <2>1. h.has \in {"scalar", "type"}
    BY <1>h, <1>i DEF ListHas
  <2>2. nest # <<>> /\ Tail(nest) = low /\ Head(nest) = "items"
    BY <1>h, <1>i, ContextOfFrame DEF Complete
  <2>3. CASE h.has = "scalar"
    <3>1. last_command = "addvalue" /\ Deferred(h) = <<>>
      BY <1>0, <1>i, <2>3 DEF CommandsIn, Deferred, Types
    <3>2. output_data \o <<>> = output_data
      BY <1>0, TokenPairs, SomeTokens
    <3> QED
      BY <1>h, <1>i, <2>2, <3>1, <3>2
  <2>4. CASE h.has = "type"
    <3>1. last_command = "endkey" /\ Deferred(h) = <<"}">>
      BY <1>0, <1>i, <2>4 DEF CommandsIn, Deferred, Types
    <3> QED
      BY <1>h, <1>i, <2>2, <3>1
  <2> QED
    BY <2>1, <2>3, <2>4
<1>7. ASSUME NextItem PROVE Text!NextItem /\ ListsHold'
  <2>1. open # <<>> /\ h.kind = "list" /\ h.has # "nothing"
    BY <1>7 DEF NextItem, InA
  <2>2. PICK f \in Stack : f = Holding("nothing")
    BY <1>h, <2>1 DEF Stack, Frame, Holding, Kinds, Types, Contents
  <2>3. f.kind = "list" /\ f.has = "nothing" /\ open' = <<f>> \o r
    BY <1>7, <2>1, <2>2 DEF NextItem, Becomes, Frame, Holding
  <2>4. NestOf(open') = <<"item">> \o low /\ ListsHold'
    BY <1>f, <2>1, <2>3, ContextOfFrame DEF Complete, ListHas
  <2>5. output_data' = text \o <<",">>
    <3>1. output_data' = output_data \o (IF last_command = "endkey" THEN <<"}", ",">>
                                        ELSE IF last_command = "addvalue" THEN <<",">> ELSE <<>>)
      BY <1>7 DEF NextItem, next_item, Emit
    <3>2. (output_data \o <<"}">>) \o <<",">> = output_data \o <<"}", ",">>
      BY <1>0, TokenPairs, SomeTokens
    <3> QED
      BY <1>i, <2>1, <3>1, <3>2
  <2>6. TextOf(output_data', open') = text \o <<",">>
    <3>1. Deferred(f) = <<>>
      BY <2>3 DEF Deferred, Types
    <3>2. output_data' \o <<>> = output_data'
      BY <1>p, TokenPairs, SomeTokens
    <3> QED
      BY <1>f, <2>1, <2>3, <2>5, <3>1, <3>2
  <2> QED
    BY <1>i, <1>s, <1>t, <2>1, <2>4, <2>6 DEF Text!NextItem, Text!Top, Text!Below, Text!Write
<1>8. ASSUME EndList PROVE Text!EndList /\ ListsHold'
  <2>1. open # <<>> /\ h.kind = "list" /\ h.has # "nothing"
    BY <1>8 DEF EndList, InA
  <2>2. PICK f \in Stack : f = Frame("element", "list")
    BY DEF Stack, Frame, Kinds, Types, Contents
  <2>3. f.kind = "element" /\ f.has = "list" /\ open' = <<f>> \o r
    BY <1>8, <2>2 DEF EndList, Becomes, Frame
  <2>4. NestOf(open') = low /\ ListsHold'
    BY <1>f, <2>1, <2>3 DEF Complete, ListHas
  <2>5. output_data' = text \o <<"]">>
    <3>1. output_data' = output_data \o (IF last_command = "endkey" THEN <<"}", "]">> ELSE <<"]">>)
      BY <1>8 DEF EndList, end_list, Emit
    <3>2. (output_data \o <<"}">>) \o <<"]">> = output_data \o <<"}", "]">>
      BY <1>0, TokenPairs, SomeTokens
    <3> QED
      BY <1>i, <2>1, <3>1, <3>2
  <2>6. TextOf(output_data', open') = text \o <<"]">>
    <3>1. Deferred(f) = <<>>
      BY <2>3 DEF Deferred, Types
    <3>2. output_data' \o <<>> = output_data'
      BY <1>p, TokenPairs, SomeTokens
    <3> QED
      BY <1>f, <2>1, <2>3, <2>5, <3>1, <3>2
  <2> QED
    BY <1>i, <1>s, <1>t, <2>1, <2>4, <2>6 DEF Text!EndList, Text!Top, Text!Below, Text!Write
<1>9. ASSUME get_full_stream PROVE Text!EndObject /\ ListsHold'
  <2>1. /\ open # <<>> /\ h.kind = "root" /\ h.has = "members"
        /\ output_data' = output_data \o <<"}">> /\ open' = <<>>
    BY <1>9 DEF get_full_stream, InA
  <2>2. Len(open) = 1
    <3>1. 1 \in 1 .. Len(open) /\ h = open[1]
      <4>1. open # <<>>
        BY <2>1
      <4> QED
        BY <1>0, <4>1
    <3> QED
      BY <1>0, <2>1, <3>1 DEF Nested, LiesOn
  <2>3. low = <<>> /\ NestOf(open') = <<>>
    <3>1. r = <<>>
      <4>1. r \in Seq(Stack)
        BY <1>h, <2>1
      <4>2. Len(r) = 0
        <5>1. open # <<>>
          BY <2>1
        <5>2. Len(r) = Len(open) - 1
          BY <1>0, <5>1, HeadTailProperties
        <5> QED
          BY <2>2, <5>2
      <4> QED
        BY <4>1, <4>2, EmptySeq
    <3>2. ContextsOf(<<>>) = <<>>
      BY DEF ContextsOf
    <3> QED
      BY <2>1, <3>1, <3>2 DEF NestOf
  <2>4. nest # <<>> /\ Tail(nest) = low /\ Head(nest) = "next"
    BY <1>h, <2>1, ContextOfFrame DEF Complete, Types
  <2>5. TextOf(output_data', open') = text \o <<"}">>
    <3>1. Deferred(h) = <<>>
      BY <2>1 DEF Deferred
    <3>2. output_data \o <<>> = output_data
      BY <1>0, TokenPairs, SomeTokens
    <3> QED
      BY <1>h, <2>1, <3>1, <3>2 DEF TextOf
  <2>6. ListsHold'
    <3>1. Len(<<>>) = 0
      OBVIOUS
    <3>2. \A i \in 1 .. Len(<<>>) : ListHas(<<>>[i])
      BY <3>1
    <3> QED
      BY <2>1, <3>2 DEF ListsHold, ListsIn
  <2> QED
    BY <1>s, <1>t, <2>3, <2>4, <2>5, <2>6 DEF Text!EndObject, Text!Top, Text!Below, Text!Write
<1>10. CASE UNCHANGED vars
  <2>1. Contexts' = Contexts
    BY <1>0, <1>p, <1>s, <1>t, <1>10 DEF vars
  <2> QED
    BY <1>10, <2>1 DEF vars, Text!vars, ListsHold
<1> QED
  BY <1>1, <1>2, <1>3, <1>4, <1>5, <1>6, <1>7, <1>8, <1>9, <1>10 DEF Next, Text!Next

(* The decoder's text is the JSON text of what it decoded, however many     *)
(* members and items it has and however deep they are nested, if every item *)
(* of a list has a member (complex_types.py, output_string_stream.cpp).     *)
THEOREM TextIsJson ==
  ASSUME ItemsMayBeEmpty = FALSE
  PROVE  Spec => ImplementsJsonText
<1>1. Init => RInv /\ Text!Init
  BY InitEstablishesIInv, InitRefines DEF RInv
<1>2. RInv /\ [Next]_vars => RInv' /\ [Text!Next]_(Text!vars)
  BY NextKeepsIInv, StepRefines DEF RInv
<1> QED
  BY <1>1, <1>2, PTL DEF Spec, ImplementsJsonText, Text!Spec
=============================================================================
