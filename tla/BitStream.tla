------------------------------ MODULE BitStream ------------------------------
(***************************************************************************)
(* class BitStream of lib/base/bitstream.{h,cpp}: the byte vector that the *)
(* encoder fills bit by bit and that the decoder reads back through 32-bit *)
(* words.                                                                  *)
(*                                                                         *)
(* One instance is one object.  A default-constructed object (num_bits =   *)
(* 0) is written, an object constructed from bytes is read; the library    *)
(* never does both on one object (lib/library.cpp:110-125 and 212-229).    *)
(* The loops of add_bytes and get_next_n_bits are taken one iteration per  *)
(* step, "pending" and "fetch" being their local variables; no other call  *)
(* can start in between.                                                   *)
(***************************************************************************)
EXTENDS Bits

CONSTANTS
  Calls,      \* <<data, num_bits>> pairs passed to add_max_8bits
  Payloads,   \* byte arrays passed to add_bytes
  Messages,   \* byte sequences a reader is constructed from
  Requests,   \* bitsrequested arguments of get_max_4bytes
  Fetches,    \* bitsrequested arguments of get_next_n_bits
  Junk,       \* what the memory after the last byte of the vector may hold
  MaxWritten, \* bound: no call starts that would write past this bit
  MaxRead     \* bound: no call starts that would read past this bit

ASSUME CallsAssumption    == Calls \subseteq Byte \X Nat
ASSUME PayloadsAssumption == Payloads \subseteq Seq(Byte)
ASSUME MessagesAssumption == Messages \subseteq Seq(Byte)
ASSUME RequestsAssumption == Requests \subseteq 0 .. 32
ASSUME FetchesAssumption  == Fetches \subseteq Nat
ASSUME JunkAssumption     == Junk \subseteq [0 .. 7 -> Byte]

VARIABLES
  exi_data,      \* std::vector<uint8_t>
  bit_counter,   \* next bit to write or to read
  num_bits,      \* number of bits of the message being read, 0 when writing
  pending,       \* the add_bytes call in progress
  fetch,         \* the get_next_n_bits call in progress
  last           \* the last completed call, its arguments and its result

stream == <<exi_data, bit_counter, num_bits>>
vars == <<exi_data, bit_counter, num_bits, pending, fetch, last>>

NoCall  == [op |-> "none", n |-> 0, status |-> "ok", value |-> <<>>]
NoBytes == [data |-> <<>>, added |-> 0]
NoFetch == [n |-> 0, taken |-> 0, buffer |-> <<>>]

Returns(op, n, status, value) ==
  last' = [op |-> op, n |-> n, status |-> status, value |-> value]

(* Construction: BitStream() for the encoder, BitStream(input_data) for    *)
(* the decoder, which refuses an empty vector.                             *)
Init == /\ \/ exi_data = <<>>
           \/ exi_data \in Messages /\ Len(exi_data) >= 1
        /\ num_bits = 8 * Len(exi_data)
        /\ bit_counter = 0
        /\ pending = NoBytes
        /\ fetch = NoFetch
        /\ last = NoCall

(***************************************************************************)
(* Writing.                                                                *)
(***************************************************************************)

(* Mutant: "<=" for "<".                                                    *)
SpillsWhenFull(left, n) == left <= n

(* A field of n bits does not fit into the bits left in the current byte.   *)
Spills(left, n) == left < n

(* Mutant: the rest of the field is not shifted to the top of the new byte. *)
NextByteUnshifted(data, spill) == LowBits(data, 8, spill)

(* The new byte of a field whose last "spill" bits do not fit.              *)
NextByte(data, spill) == ShiftLeft(LowBits(data, 8, spill), 8, 8 - spill)

(* Mutant: "=" for "|=".                                                    *)
Replaced(byte, part) == part

(* exi_data[addr] | part.                                                   *)
Merged(byte, part) == BitOr(byte, part, 8)

(* The vector after the low n bits of data are added at bit position       *)
(* counter.  Only the branch that spills into a new byte masks data.       *)
Added(bytes, counter, data, n) ==
  LET addr  == (counter \div 8) + 1
      pos   == counter % 8
      left  == 8 - pos
      spill == n - left
      shifted == ShiftLeft(data, 8, left - n)
  IN  IF Spills(left, n)
      THEN Append([bytes EXCEPT ![addr] = Merged(@, LowBits(ShiftRight(data, 8, spill), 8, left))],
                  NextByte(data, spill))
      ELSE IF pos = 0
      THEN Append(bytes, shifted)
      ELSE [bytes EXCEPT ![addr] = Merged(@, shifted)]

Add(data, n) == /\ exi_data' = Added(exi_data, bit_counter, data, n)
                /\ bit_counter' = bit_counter + n

Idle == pending = NoBytes /\ fetch = NoFetch

add_max_8bits(data, n) ==
  /\ num_bits = 0 /\ Idle
  /\ bit_counter + n <= MaxWritten
  /\ \/ n = 0 /\ Returns("add_max_8bits", n, "invalid_argument", data) /\ UNCHANGED stream
     \/ n > 8 /\ Returns("add_max_8bits", n, "range_error", data) /\ UNCHANGED stream
     \/ n \in 1 .. 8 /\ Add(data, n) /\ Returns("add_max_8bits", n, "ok", data) /\ UNCHANGED num_bits
  /\ UNCHANGED <<pending, fetch>>

add_bytes(data) ==
  /\ num_bits = 0 /\ Idle
  /\ bit_counter + 8 * Len(data) <= MaxWritten
  /\ IF data = <<>>
     THEN Returns("add_bytes", 0, "ok", data) /\ UNCHANGED pending
     ELSE pending' = [data |-> data, added |-> 0] /\ UNCHANGED last
  /\ UNCHANGED <<exi_data, bit_counter, num_bits, fetch>>

(* Mutant: data[0] for data[byte].                                          *)
FirstByteToAdd == pending.data[1]

(* data[byte], the byte this turn of the loop of add_bytes adds.            *)
ByteToAdd == pending.data[pending.added + 1]

(* Mutant: "<=" in the condition of the loop.                               *)
MoreToAddInclusive == pending.added + 1 <= Len(pending.data)

(* byte < num_bytes after byte++.                                           *)
MoreToAdd == pending.added + 1 < Len(pending.data)

add_bytes_iteration ==
  /\ pending # NoBytes
  /\ Add(ByteToAdd, 8)
  /\ IF MoreToAdd
     THEN pending' = [pending EXCEPT !.added = @ + 1] /\ UNCHANGED last
     ELSE pending' = NoBytes /\ Returns("add_bytes", 8 * Len(pending.data), "ok", pending.data)
  /\ UNCHANGED <<num_bits, fetch>>

(***************************************************************************)
(* Reading.  The vector is read as 32-bit words; the last word may reach   *)
(* past the vector's end, into memory whose contents nothing determines.   *)
(***************************************************************************)

WordAt(address, junk) ==
  [i \in 0 .. 31 |-> LET k == 4 * address + (i \div 8)
                     IN  IF k < Len(exi_data) THEN exi_data[k + 1][i % 8] ELSE junk[k % 8][i % 8]]

(* The bits of the current word that are not consumed yet.                  *)
Front(word, available) == LowBits(word, 32, available)

(* What get_max_4bytes(n) returns at bit position bit_counter.             *)
Extracted(n, junk) ==
  LET address   == bit_counter \div 32
      available == 32 - (bit_counter - 32 * address)
      remaining == n - available
      value1    == WordAt(address, junk)
      value2    == WordAt(address + 1, junk)
  IN  IF n <= available
      THEN LowBits(ShiftRight(value1, 32, available - n), 32, n)
      ELSE BitOr(ShiftLeft(Front(value1, available), 32, remaining),
                 LowBits(ShiftRight(value2, 32, 32 - remaining), 32, remaining), 32)

get_max_4bytes(n) ==
  /\ num_bits # 0 /\ Idle
  /\ bit_counter + n <= MaxRead
  /\ \E junk \in Junk : Returns("get_max_4bytes", n, "ok", Extracted(n, junk))
  /\ bit_counter' = bit_counter + n
  /\ UNCHANGED <<exi_data, num_bits, pending, fetch>>

(* The bytes the caller's array needs for n bits.                          *)
BufferSize(n) == (n + 7) \div 8

get_next_n_bits(n, data_is_null) ==
  /\ num_bits # 0 /\ Idle
  /\ bit_counter + n <= MaxRead
  /\ \/ /\ data_is_null \/ n = 0
        /\ Returns("get_next_n_bits", n, "invalid_argument", <<>>)
        /\ UNCHANGED fetch
     \/ /\ ~data_is_null /\ n # 0 /\ n > num_bits
        /\ Returns("get_next_n_bits", n, "range_error", <<>>)
        /\ UNCHANGED fetch
     \/ /\ ~data_is_null /\ n # 0 /\ n <= num_bits
        /\ \E junk \in Junk : fetch' = [n |-> n, taken |-> 0,
                                         buffer |-> [k \in 0 .. (BufferSize(n) - 1) |-> junk[0]]]
        /\ UNCHANGED last
  /\ UNCHANGED <<exi_data, bit_counter, num_bits, pending>>

(* Mutant: the rest modulo the word size, which is 0 for a whole word.      *)
BitsToTakeModulo == (fetch.n - fetch.taken) % 32

(* One turn of the loop: up to 32 bits are taken and stored big-endian     *)
(* with the store of the matching size.  The index of the three-byte store *)
(* is bits_taken >> 5 although data is indexed in bytes there.             *)
BitsToTake == IF fetch.n - fetch.taken < 32 THEN fetch.n - fetch.taken ELSE 32

Stored(buffer, taken, take, value) ==
  LET size  == IF take \in 1 .. 24 THEN ((take - 1) \div 8) + 1 ELSE 4
      first == CASE size = 1 -> taken \div 8
                 [] size = 2 -> 2 * (taken \div 16)
                 [] size = 3 -> taken \div 32
                 [] size = 4 -> 4 * (taken \div 32)
  IN  [k \in DOMAIN buffer |->
         IF k \in first .. (first + size - 1)
         THEN [i \in 0 .. 7 |-> value[32 - 8 * size + 8 * (k - first) + i]]
         ELSE buffer[k]]

get_next_n_bits_iteration ==
  /\ fetch # NoFetch
  /\ bit_counter' = bit_counter + BitsToTake
  /\ \E junk \in Junk :
       LET buffer == Stored(fetch.buffer, fetch.taken, BitsToTake, Extracted(BitsToTake, junk))
           taken  == fetch.taken + BitsToTake
       IN  IF taken < fetch.n
           THEN fetch' = [n |-> fetch.n, taken |-> taken, buffer |-> buffer] /\ UNCHANGED last
           ELSE fetch' = NoFetch /\ Returns("get_next_n_bits", fetch.n, "ok", buffer)
  /\ UNCHANGED <<exi_data, num_bits, pending>>

-----------------------------------------------------------------------------
Next == \/ \E call \in Calls : add_max_8bits(call[1], call[2])
        \/ \E data \in Payloads : add_bytes(data)
        \/ add_bytes_iteration
        \/ \E n \in Requests : get_max_4bytes(n)
        \/ \E n \in Fetches, data_is_null \in BOOLEAN : get_next_n_bits(n, data_is_null)
        \/ get_next_n_bits_iteration

Spec == Init /\ [][Next]_vars

(* A call that entered its loop runs on; whether a new call is made is the *)
(* caller's business.                                                      *)
Fairness == WF_vars(get_next_n_bits_iteration)
FairSpec == Spec /\ Fairness
-----------------------------------------------------------------------------
(* Bit k of the stream, counted from the first byte's most significant bit. *)
BitAt(k) == exi_data[(k \div 8) + 1][k % 8]

(* Types of the variables.  num_bits is 0 for a writer and otherwise the    *)
(* size of the message, which no call of the reader changes; an add_bytes   *)
(* call in progress has bytes left to add.                                  *)
TypeOK ==
  /\ exi_data \in Seq(Byte)
  /\ bit_counter \in Nat
  /\ num_bits = 0 \/ num_bits = 8 * Len(exi_data)
  /\ pending \in [data : Seq(Byte), added : Nat]
  /\ pending # NoBytes => pending.added < Len(pending.data)
  /\ DOMAIN fetch = {"n", "taken", "buffer"}
  /\ fetch.n \in Nat /\ fetch.taken \in Nat

(* While writing, the vector holds exactly the bytes the written bits need: *)
(* the byte add_max_8bits ors into exists, and encode() returns no byte     *)
(* that was never written (bitstream.cpp:105-124).                          *)
BytesMatchBits ==
  num_bits = 0 => Len(exi_data) = (bit_counter + 7) \div 8

(* The bits of the last byte that are not written yet are zero, which both  *)
(* the "|" of the next call and the padding of the finished message need.   *)
PaddingIsZero ==
  num_bits = 0 => \A k \in bit_counter .. (8 * Len(exi_data) - 1) : BitAt(k) = 0

(* A field that was written is never changed by a later call: every call    *)
(* extends the bit sequence at its end.                                     *)
WrittenBitsStay ==
  [][num_bits = 0 => \A k \in 0 .. (bit_counter - 1) : BitAt(k)' = BitAt(k)]_vars

(* The stream as a sequence of bits: add_bytes appends its bytes and        *)
(* get_next_n_bits consumes its bits when it returns.                       *)
BitsOfStream ==
  [k \in 1 .. (IF num_bits = 0 THEN bit_counter - 8 * pending.added ELSE num_bits) |-> BitAt(k - 1)]

Sequence == INSTANCE BitSequence WITH
  bits <- BitsOfStream,
  pos <- IF num_bits = 0 THEN 0 ELSE bit_counter - fetch.taken,
  sealed <- num_bits # 0,
  Values <- {call[1] : call \in Calls},
  Widths <- Requests \cup Fetches

(* Bytes, masks, shifts and 32-bit reads past the end of the vector are     *)
(* invisible: callers see bits appended at the end and consumed in order.   *)
ImplementsBitSequence == Sequence!Spec

(* The bytes get_next_n_bits stores for a request of whole bytes are the    *)
(* bytes of the message (bitstream_test.cpp, Returns4Byte, Returns8Byte).   *)
FetchedBytesAreMessageBytes ==
  last.op = "get_next_n_bits" /\ last.status = "ok" /\ last.n % 8 = 0 /\ fetch = NoFetch =>
    \A k \in 0 .. (last.n - 1) :
      bit_counter <= num_bits => last.value[k \div 8][k % 8] = BitAt(bit_counter - last.n + k)

(* The loop of get_next_n_bits ends: an accepted request is answered.       *)
RequestsReturn == fetch # NoFetch ~> fetch = NoFetch
=============================================================================
