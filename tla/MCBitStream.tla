----------------------------- MODULE MCBitStream -----------------------------
(***************************************************************************)
(* Small instances of BitStream: a writer with fields of every width, and  *)
(* readers of messages of one to nine bytes (up to three 32-bit words).    *)
(***************************************************************************)
EXTENDS BitStream

ByteOf(n) == [i \in 0 .. 7 |-> (n \div (2 ^ (7 - i))) % 2]
Bytes(s)  == [i \in DOMAIN s |-> ByteOf(s[i])]

(* Fields that use their width's first and last bit, and the two widths    *)
(* add_max_8bits refuses.                                                  *)
FittingCalls ==
  {<<ByteOf(p[1]), p[2]>> : p \in
     {<<1, 1>>, <<2, 2>>, <<5, 3>>, <<33, 6>>, <<76, 7>>, <<129, 8>>, <<171, 0>>, <<171, 9>>}}
NoEffect   == {<<ByteOf(171), 0>>}
SomeBytes  == {<<>>, Bytes(<<173, 238>>)}

(* The byte sequences of bitstream_test.cpp and prefixes of them.          *)
TestMessage == Bytes(<<240, 95, 189, 42, 147, 92, 142, 197, 23>>)
SomeMessages == {SubSeq(TestMessage, 1, k) : k \in {0, 1, 4, 5, 9}} \cup {Bytes(<<222, 173, 190, 175, 35>>)}
NineBytes    == {TestMessage}

SomeJunk == {[k \in 0 .. 7 |-> ByteOf(0)], [k \in 0 .. 7 |-> ByteOf(255)]}
=============================================================================
