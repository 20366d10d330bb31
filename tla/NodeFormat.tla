------------------------------ MODULE NodeFormat ------------------------------
(***************************************************************************)
(* The bytes of a node in a file (c/tree.c, encode_node) and how a reader  *)
(* takes them apart (MaxMind::DB::Reader).  A record has 24, 28 or 32 bits:*)
(* three bytes, three and a half, four.  The size of half a byte is a      *)
(* parameter, so that records of every size are full in small instances.   *)
(***************************************************************************)
EXTENDS Integers, Sequences

CONSTANT Nibble            \* values of half a byte: 2^4

ASSUME NibbleAssumption == Nibble \in Nat \ {0, 1}

Byte == Nibble * Nibble

RecordSize == {24, 28, 32}

\* MAX_RECORD_VALUE
MaxRecordValue(size) == CASE size = 24 -> Byte * Byte * Byte - 1
                          [] size = 28 -> Nibble * Byte * Byte * Byte - 1
                          [] size = 32 -> Byte * Byte * Byte * Byte - 1

\* htonl: four bytes, the highest first; here counted from 1.
Bytes(value) ==
  LET rest[k \in 0..3] == IF k = 0 THEN value ELSE rest[k-1] \div Byte
  IN [i \in 1..4 |-> rest[4-i] % Byte]

MiddleByte(left, right) == left[1] * Nibble + (right[1] % Nibble)

EncodeNode(size, leftValue, rightValue) ==
  LET left == Bytes(leftValue)  right == Bytes(rightValue) IN
  CASE size = 24 -> Tail(left) \o Tail(right)
    [] size = 28 -> Tail(left) \o <<MiddleByte(left, right) % Byte>> \o Tail(right)
    [] OTHER -> left \o right

NodeBytes(size) == IF size = 24 THEN 6 ELSE IF size = 28 THEN 7 ELSE 8

Number3(high, bytes) ==
  ((high * Byte + bytes[1]) * Byte + bytes[2]) * Byte + bytes[3]

\* The reader: one record of node n (counted from 0).
ReadRecord(size, bytes, n, side) ==
  LET node == SubSeq(bytes, n * NodeBytes(size) + 1, (n + 1) * NodeBytes(size))
      middle == node[4]
  IN CASE size = 24 -> Number3(0, SubSeq(node, 3 * side + 1, 3 * side + 3))
       [] size = 28 -> IF side = 0 THEN Number3(middle \div Nibble, SubSeq(node, 1, 3))
                       ELSE Number3(middle % Nibble, SubSeq(node, 5, 7))
       [] OTHER -> Number3(node[4 * side + 1], SubSeq(node, 4 * side + 2, 4 * side + 4))
===============================================================================
