------------------------------ MODULE DataFormat ------------------------------
(***************************************************************************)
(* The bytes of the data section (Serializer.pm: control bytes, pointers,  *)
(* integers) and how a reader takes them apart (MaxMind::DB::Reader::      *)
(* Decoder).  The sizes of a byte and of the fields of the control byte    *)
(* are parameters, so that every class of sizes and of pointers occurs in  *)
(* small instances: the code has Byte = 256 and PointerHigh = 8.           *)
(***************************************************************************)
EXTENDS Integers, Sequences, SequencesExt

CONSTANTS
  Byte,                    \* values of a byte: 2^8
  PointerHigh              \* values of the bits of a pointer in its first byte: 2^3

ASSUME FormatAssumption == Byte \in Nat \ {0, 1} /\ PointerHigh \in 1..Byte

\* The low bits of a control byte are two for the length of a pointer and three
\* of its value (2^5 in all), or a size; three values of a size are codes.
SizeField == 4 * PointerHigh
Direct == SizeField - 3

TypeNumber ==
  [pointer |-> 1, utf8_string |-> 2, double |-> 3, bytes |-> 4, uint16 |-> 5,
   uint32 |-> 6, map |-> 7, int32 |-> 8, uint64 |-> 9, uint128 |-> 10,
   array |-> 11, end_marker |-> 13, boolean |-> 14, float |-> 15]

\* The number of values of n bytes.
Power(n) == CASE n = 1 -> Byte
              [] n = 2 -> Byte * Byte
              [] n = 3 -> Byte * Byte * Byte
              [] n = 4 -> Byte * Byte * Byte * Byte

\* pack: the lower n bytes of a number, highest first; and unpack.
Packed(v, n) ==
  LET rest[k \in 0 .. n - 1] == IF k = 0 THEN v ELSE rest[k-1] \div Byte
  IN [i \in 1..n |-> rest[n-i] % Byte]
Unpacked(bytes) ==
  LET upTo[n \in 0..Len(bytes)] == IF n = 0 THEN 0 ELSE upTo[n-1] * Byte + bytes[n]
  IN upTo[Len(bytes)]

\* s/^\x00+//
Stripped(bytes) ==
  IF \A i \in 1..Len(bytes) : bytes[i] = 0 THEN <<>>
  ELSE SubSeq(bytes, CHOOSE i \in 1..Len(bytes) :
                       bytes[i] # 0 /\ \A j \in 1 .. i-1 : bytes[j] = 0, Len(bytes))

-------------------------------------------------------------------------------
(* Control bytes *)

\* ThresholdSize: "the threshold for needing another byte".
ThresholdSize(n) == CASE n = 1 -> Direct
                      [] n = 2 -> Direct + Byte
                      [] n = 3 -> Direct + Byte + Power(2)
                      [] n = 4 -> Direct + Byte + Power(2) + Power(3)

Storable(size) == size < ThresholdSize(4)

\* How many bytes of size follow.  A size that is equal to the second or third
\* threshold gets one byte less than its value needs.
SizeBytes(size) == CASE size < ThresholdSize(1) -> 0
                     [] size \in ThresholdSize(1) .. ThresholdSize(2) -> 1
                     [] size \in ThresholdSize(2) + 1 .. ThresholdSize(3) -> 2
                     [] OTHER -> 3

ControlBytes(type, size) ==
  LET n == SizeBytes(size)
      high == IF type < 8 THEN type ELSE 0
      extended == IF type < 8 THEN <<>> ELSE <<type - 7>>
  IN IF n = 0 THEN <<high * SizeField + size>> \o extended
     ELSE <<high * SizeField + Direct + n - 1>> \o extended
          \o Packed(size - ThresholdSize(n), n)

\* The reader: type, size and the place after the control bytes at place p.
Control(buffer, p) ==
  LET type == buffer[p] \div SizeField
      low == buffer[p] % SizeField
      q == IF type = 0 THEN p + 2 ELSE p + 1
      n == IF low < Direct THEN 0 ELSE low - Direct + 1
  IN [type |-> IF type = 0 THEN buffer[p+1] + 7 ELSE type,
      size |-> IF n = 0 THEN low
               ELSE ThresholdSize(n) + Unpacked(SubSeq(buffer, q, q + n - 1)),
      next |-> q + n]

-------------------------------------------------------------------------------
(* Pointers *)

\* @pointer_thresholds
Cutoff(n) == CASE n = 0 -> PointerHigh * Byte
               [] n = 1 -> PointerHigh * Power(2) + PointerHigh * Byte
               [] n = 2 -> PointerHigh * Power(3) + PointerHigh * Power(2) + PointerHigh * Byte
               [] n = 3 -> Power(4)
Offset(n) == IF n \in {1, 2} THEN Cutoff(n - 1) ELSE 0

PointerBytes(value) == CHOOSE n \in 0..3 : value < Cutoff(n) /\ \A m \in 0 .. n-1 : value >= Cutoff(m)

EncodePointer(value) ==
  LET n == PointerBytes(value)
      bytes == Packed(value - Offset(n), IF n = 3 THEN 4 ELSE n + 2)
      control == TypeNumber.pointer * SizeField + n * PointerHigh
  IN IF n = 3 THEN <<control>> \o bytes
     ELSE <<control + bytes[1]>> \o Tail(bytes)

\* The reader: the value and the place after the pointer at place p.
Pointer(buffer, p) ==
  LET n == (buffer[p] % SizeField) \div PointerHigh
      bytes == SubSeq(buffer, p + 1, p + n + 1)
      high == buffer[p] % PointerHigh
  IN [value |-> IF n = 3 THEN Unpacked(bytes)
                ELSE Offset(n) + Unpacked(<<high>> \o bytes),
      next |-> p + n + 2]

-------------------------------------------------------------------------------
(* Integers *)

\* _require_x_bits_unsigned_integer.  (Above 32 bits only values that are not
\* less than twice the first one too large are refused.)
Fits(type, value) == CASE type = "uint16" -> value < Power(2)
                       [] type = "uint32" -> value < Power(4)
                       [] type = "uint64" -> value \div (Power(4) * Power(4)) <= 1
                       [] type = "uint128" -> TRUE

EncodeUnsigned(type, value) ==
  LET bytes == Stripped(Packed(value, IF type \in {"uint16", "uint32"} THEN 4 ELSE 16))
  IN ControlBytes(TypeNumber[type], Len(bytes)) \o bytes

\* pack 'N!'
EncodeInt32(value) ==
  LET bytes == Stripped(Packed(value % Power(4), 4))
  IN ControlBytes(TypeNumber.int32, Len(bytes)) \o bytes

\* The reader.
Signed(bytes) == IF Len(bytes) = 4 /\ 2 * bytes[1] >= Byte
                 THEN Unpacked(bytes) - Power(4) ELSE Unpacked(bytes)
===============================================================================
