------------------------------ MODULE FormatProofs ------------------------------
(***************************************************************************)
(* What the reader gets back of what the serializer encodes, for every size*)
(* of a byte and of the fields of a control byte: pointers, sizes and      *)
(* integers.  (The code has Byte = 256 and PointerHigh = 8.)               *)
(*                                                                         *)
(* Packed and Unpacked compute with recursive functions.  That they exist, *)
(* and what holds of each of their values, is proved for the least number  *)
(* for which it would fail.                                                *)
(***************************************************************************)
EXTENDS DataFormat, SequenceTheorems, NaturalsInduction, WellFoundedInduction, TLAPS

-------------------------------------------------------------------------------
(* Arithmetic *)

LEMMA DivMod ==
  ASSUME NEW x \in Nat, NEW b \in Nat \ {0}
  PROVE  x \div b \in Nat /\ x % b \in 0 .. b-1 /\ x = (x \div b) * b + (x % b)
OBVIOUS

LEMMA DivModUnique ==
  ASSUME NEW q \in Nat, NEW b \in Nat \ {0}, NEW r \in 0 .. b-1
  PROVE  q * b + r \in Nat /\ (q * b + r) \div b = q /\ (q * b + r) % b = r
OBVIOUS

LEMMA ModNegative ==
  ASSUME NEW x \in Int, NEW b \in Nat \ {0}, -b <= x, x < b
  PROVE  x % b = IF x >= 0 THEN x ELSE x + b
<1>. DEFINE q == x \div b
            r == x % b
<1>1. q \in Int /\ r \in 0 .. b-1 /\ x = q * b + r
  BY Z3
<1>2. r = x - q * b
  BY <1>1
<1>. HIDE DEF q, r
<1>3. CASE q >= 1
  <2>1. q * b >= b
    BY <1>1, <1>3
  <2>. QED
    BY <1>1, <1>3, <2>1
<1>4. CASE q <= -2
  <2>1. q * b <= (-2) * b
    BY <1>1, <1>4
  <2>. QED
    BY <1>1, <1>4, <2>1
<1>5. CASE q = 0
  BY <1>1, <1>5 DEF r
<1>6. CASE q = -1
  <2>1. q * b = -b
    BY <1>6
  <2>. QED
    BY <1>1, <1>6, <2>1 DEF r
<1>. QED
  BY <1>1, <1>3, <1>4, <1>5, <1>6

LEMMA TimesMonotonic ==
  ASSUME NEW a \in Nat, NEW b \in Nat, NEW c \in Nat, a <= b
  PROVE  a * c <= b * c
OBVIOUS

LEMMA DivBound ==
  ASSUME NEW x \in Nat, NEW b \in Nat \ {0}, NEW y \in Nat
  PROVE  x \div b < y <=> x < y * b
<1>. DEFINE q == x \div b
<1>1. q \in Nat /\ x % b \in 0 .. b-1 /\ x = q * b + (x % b)
  BY DivMod
<1>2. q * b \in Nat /\ y * b \in Nat
  BY <1>1
<1>3. CASE q < y
  <2>1. (q + 1) * b <= y * b
    BY <1>1, <1>3, TimesMonotonic
  <2>2. (q + 1) * b = q * b + b
    BY <1>1
  <2>. HIDE DEF q
  <2>. QED
    BY <1>1, <1>2, <1>3, <2>1, <2>2 DEF q
<1>4. CASE ~(q < y)
  <2>1. y * b <= q * b
    BY <1>1, <1>4, TimesMonotonic
  <2>. HIDE DEF q
  <2>. QED
    BY <1>1, <1>2, <1>4, <2>1 DEF q
<1>. QED
  BY <1>3, <1>4

LEMMA Least ==
  ASSUME NEW S \in SUBSET Nat, S # {}
  PROVE  \E m \in S : \A k \in S : m <= k
<1>. DEFINE R == OpToRel(<, Nat)
<1>1. IsWellFoundedOn(R, Nat)
  BY NatLessThanWellFounded
<1>. HIDE DEF R
<1>2. PICK m \in S : \A k \in S : ~(<<k, m>> \in R)
  BY <1>1, WFMin
<1>3. ASSUME NEW k \in S PROVE m <= k
  <2>1. ~(k < m)
    BY <1>2 DEF R, OpToRel
  <2>. QED
    BY <2>1
<1>. QED
  BY <1>3

\* The first number outside a set that has 0.
LEMMA FirstOutside ==
  ASSUME NEW S, 0 \in S, NEW n \in Nat, n \notin S
  PROVE  \E m \in 1..n : m \notin S /\ \A k \in 0 .. m-1 : k \in S
<1>. DEFINE Out == {k \in Nat : k \notin S}
<1>1. Out \in SUBSET Nat /\ Out # {}
  OBVIOUS
<1>. HIDE DEF Out
<1>2. PICK m \in Out : \A k \in Out : m <= k
  BY <1>1, Least
<1>3. m \in Nat /\ m \notin S /\ n \in Out
  BY <1>2 DEF Out
<1>4. ASSUME NEW k \in 0 .. m-1 PROVE k \in S
  <2>1. k \notin Out
    BY <1>2, <1>3, <1>4
  <2>. QED
    BY <2>1, <1>3 DEF Out
<1>5. m # 0 /\ m <= n
  BY <1>2, <1>3
<1>. QED
  BY <1>3, <1>4, <1>5

-------------------------------------------------------------------------------
(* Packed and Unpacked *)

\* q[k] is what is left of v when its k lowest bytes are taken away.
Quotients(q, v, n) ==
  /\ q \in [0..n -> Nat]
  /\ q[0] = v
  /\ \A k \in 1..n : q[k] = q[k-1] \div Byte

\* u[k] is the number that the first k bytes make.
PartialSums(u, bytes) ==
  /\ u \in [0..Len(bytes) -> Nat]
  /\ u[0] = 0
  /\ \A k \in 1..Len(bytes) : u[k] = u[k-1] * Byte + bytes[k]

LEMMA ByteType == Byte \in Nat /\ Byte > 1 /\ Byte \in Nat \ {0} /\ PointerHigh \in 1..Byte
BY FormatAssumption

LEMMA QuotientsExist ==
  ASSUME NEW v \in Nat, NEW n \in Nat
  PROVE  \E q : Quotients(q, v, n)
<1>. DEFINE S == {m \in Nat : \E q : Quotients(q, v, m)}
<1>1. 0 \in S
  <2>. DEFINE q == [k \in 0..0 |-> v]
  <2>1. Quotients(q, v, 0)
    BY DEF Quotients
  <2>. QED
    BY <2>1
<1>2. ASSUME NEW m \in 1..n, m-1 \in S PROVE m \in S
  <2>1. PICK f : Quotients(f, v, m-1)
    BY <1>2
  <2>. DEFINE q == [k \in 0..m |-> IF k < m THEN f[k] ELSE f[m-1] \div Byte]
  <2>2. f[m-1] \in Nat /\ \A k \in 0 .. m-1 : f[k] \in Nat
    BY <2>1 DEF Quotients
  <2>3. f[m-1] \div Byte \in Nat
    BY <2>2, ByteType, DivMod
  <2>4. q \in [0..m -> Nat]
    BY <2>2, <2>3
  <2>5. q[0] = v /\ q[m] = q[m-1] \div Byte
    BY <2>1 DEF Quotients
  <2>6. ASSUME NEW k \in 1 .. m-1 PROVE q[k] = q[k-1] \div Byte
    BY <2>1 DEF Quotients
  <2>. HIDE DEF q
  <2>7. Quotients(q, v, m)
    BY <2>4, <2>5, <2>6 DEF Quotients
  <2>. QED
    BY <2>7
<1>. HIDE DEF S
<1>3. n \in S
  <2>. SUFFICES ASSUME n \notin S PROVE FALSE
    OBVIOUS
  <2>1. PICK m \in 1..n : m \notin S /\ \A k \in 0 .. m-1 : k \in S
    BY <1>1, FirstOutside
  <2>. QED
    BY <1>2, <2>1
<1>. QED
  BY <1>3 DEF S

LEMMA PrefixesExist ==
  ASSUME NEW bytes \in Seq(Nat)
  PROVE  \E u : PartialSums(u, bytes)
<1>. DEFINE Upto(u, m) == /\ u \in [0..m -> Nat]
                          /\ u[0] = 0
                          /\ \A k \in 1..m : u[k] = u[k-1] * Byte + bytes[k]
            S == {m \in Nat : m <= Len(bytes) => \E u : Upto(u, m)}
            n == Len(bytes)
<1>1. 0 \in S
  <2>. DEFINE u == [k \in 0..0 |-> 0]
  <2>1. Upto(u, 0)
    OBVIOUS
  <2>. HIDE DEF Upto
  <2>. QED
    BY <2>1
<1>2. ASSUME NEW m \in 1..n, m-1 \in S PROVE m \in S
  <2>1. PICK f : Upto(f, m-1)
    <3>1. m-1 <= Len(bytes)
      OBVIOUS
    <3>. HIDE DEF Upto
    <3>. QED
      BY <1>2, <3>1
  <2>. DEFINE u == [k \in 0..m |-> IF k < m THEN f[k] ELSE f[m-1] * Byte + bytes[m]]
  <2>2. f[m-1] \in Nat /\ (\A k \in 0 .. m-1 : f[k] \in Nat) /\ bytes[m] \in Nat
    BY <2>1
  <2>3. f[m-1] * Byte + bytes[m] \in Nat
    BY <2>2, ByteType
  <2>4. u \in [0..m -> Nat]
    BY <2>2, <2>3
  <2>5. u[0] = 0 /\ u[m] = u[m-1] * Byte + bytes[m]
    BY <2>1
  <2>6. ASSUME NEW k \in 1 .. m-1 PROVE u[k] = u[k-1] * Byte + bytes[k]
    BY <2>1
  <2>. HIDE DEF u
  <2>7. Upto(u, m)
    BY SMTT(30), <2>4, <2>5, <2>6
  <2>. HIDE DEF Upto
  <2>8. \E g : Upto(g, m)
    BY <2>7
  <2>. QED
    BY <2>8
<1>3. n \in Nat
  OBVIOUS
<1>. HIDE DEF S
<1>4. n \in S
  <2>. SUFFICES ASSUME n \notin S PROVE FALSE
    OBVIOUS
  <2>1. PICK m \in 1..n : m \notin S /\ \A k \in 0 .. m-1 : k \in S
    BY <1>1, <1>3, FirstOutside
  <2>. QED
    BY <1>2, <2>1
<1>5. \E u : Upto(u, n)
  <2>. HIDE DEF Upto
  <2>. QED
    BY <1>3, <1>4 DEF S
<1>. QED
  BY <1>5 DEF PartialSums


LEMMA PackedBytes ==
  ASSUME NEW v \in Nat, NEW n \in Nat
  PROVE  \E q : /\ Quotients(q, v, n)
                /\ Packed(v, n) = [i \in 1..n |-> q[n-i] % Byte]
<1>. DEFINE rest[k \in 0 .. n-1] == IF k = 0 THEN v ELSE rest[k-1] \div Byte
<1>1. Packed(v, n) = [i \in 1..n |-> rest[n-i] % Byte]
  BY DEF Packed
<1>2. \E f : f = [k \in 0 .. n-1 |-> IF k = 0 THEN v ELSE f[k-1] \div Byte]
  <2>1. PICK q : Quotients(q, v, n)
    BY QuotientsExist
  <2>. DEFINE f == [k \in 0 .. n-1 |-> q[k]]
  <2>2. ASSUME NEW k \in 0 .. n-1
        PROVE  f[k] = IF k = 0 THEN v ELSE f[k-1] \div Byte
    BY <2>1 DEF Quotients
  <2>3. f = [k \in 0 .. n-1 |-> f[k]]
    OBVIOUS
  <2>. HIDE DEF f
  <2>4. f = [k \in 0 .. n-1 |-> IF k = 0 THEN v ELSE f[k-1] \div Byte]
    BY <2>2, <2>3
  <2>. QED
    BY <2>4
<1>3. rest = [k \in 0 .. n-1 |-> IF k = 0 THEN v ELSE rest[k-1] \div Byte]
  BY <1>2
<1>. HIDE DEF rest
<1>. DEFINE q == [k \in 0..n |-> IF k < n THEN rest[k]
                                  ELSE IF n = 0 THEN v ELSE rest[n-1] \div Byte]
<1>4. ASSUME NEW k \in 1..n PROVE q[k] = q[k-1] \div Byte
  BY <1>3
<1>5. q[0] = v
  BY <1>3
<1>6. \A k \in 0..n : q[k] \in Nat
  <2>. DEFINE S == {k \in Nat : k <= n => q[k] \in Nat}
  <2>1. 0 \in S
    BY <1>5
  <2>. HIDE DEF q
  <2>2. ASSUME NEW m \in 1..n, m-1 \in S PROVE m \in S
    <3>1. q[m-1] \in Nat /\ q[m] = q[m-1] \div Byte
      BY <1>4, <2>2
    <3>2. q[m] \in Nat
      BY <3>1, ByteType, DivMod
    <3>. QED
      BY <3>2
  <2>. HIDE DEF S
  <2>3. ASSUME NEW k \in 0..n, k \notin S PROVE FALSE
    <3>1. PICK m \in 1..k : m \notin S /\ \A j \in 0 .. m-1 : j \in S
      BY <2>1, <2>3, FirstOutside
    <3>. QED
      BY <2>2, <3>1
  <2>. QED
    BY <2>3 DEF S
<1>7. q \in [0..n -> Nat]
  <2>1. q = [k \in 0..n |-> q[k]]
    OBVIOUS
  <2>. HIDE DEF q
  <2>. QED
    BY <1>6, <2>1
<1>8. Packed(v, n) = [i \in 1..n |-> q[n-i] % Byte]
  <2>1. \A i \in 1..n : q[n-i] = rest[n-i]
    OBVIOUS
  <2>. HIDE DEF q
  <2>. QED
    BY <1>1, <2>1
<1>9. Quotients(q, v, n)
  <2>. HIDE DEF q
  <2>. QED
    BY <1>4, <1>5, <1>7 DEF Quotients
<1>. HIDE DEF q
<1>. QED
  BY <1>8, <1>9

LEMMA UnpackedBytes ==
  ASSUME NEW bytes \in Seq(Nat)
  PROVE  \E u : PartialSums(u, bytes) /\ Unpacked(bytes) = u[Len(bytes)]
<1>. DEFINE upTo[n \in 0..Len(bytes)] == IF n = 0 THEN 0 ELSE upTo[n-1] * Byte + bytes[n]
<1>1. Unpacked(bytes) = upTo[Len(bytes)]
  BY DEF Unpacked
<1>2. PICK u : PartialSums(u, bytes)
  BY PrefixesExist
<1>3. \E f : f = [n \in 0..Len(bytes) |-> IF n = 0 THEN 0 ELSE f[n-1] * Byte + bytes[n]]
  <2>1. u = [n \in 0..Len(bytes) |-> u[n]]
    BY <1>2 DEF PartialSums
  <2>2. ASSUME NEW n \in 0..Len(bytes)
        PROVE  u[n] = IF n = 0 THEN 0 ELSE u[n-1] * Byte + bytes[n]
    BY <1>2 DEF PartialSums
  <2>3. u = [n \in 0..Len(bytes) |-> IF n = 0 THEN 0 ELSE u[n-1] * Byte + bytes[n]]
    BY <2>1, <2>2
  <2>. QED
    BY <2>3
<1>4. upTo = [n \in 0..Len(bytes) |-> IF n = 0 THEN 0 ELSE upTo[n-1] * Byte + bytes[n]]
  BY <1>3
<1>. HIDE DEF upTo
<1>5. \A k \in 0..Len(bytes) : upTo[k] = u[k]
  <2>. DEFINE S == {k \in Nat : k <= Len(bytes) => upTo[k] = u[k]}
  <2>1. 0 \in S
    BY <1>2, <1>4 DEF PartialSums
  <2>2. ASSUME NEW m \in 1..Len(bytes), m-1 \in S PROVE m \in S
    BY SMTT(30), <1>2, <1>4, <2>2 DEF PartialSums
  <2>. HIDE DEF S
  <2>3. ASSUME NEW k \in 0..Len(bytes), k \notin S PROVE FALSE
    <3>1. PICK m \in 1..k : m \notin S /\ \A j \in 0 .. m-1 : j \in S
      BY <2>1, <2>3, FirstOutside
    <3>2. m \in 1..Len(bytes)
      BY <3>1
    <3>. QED
      BY <2>2, <3>1, <3>2
  <2>. QED
    BY <2>3 DEF S
<1>6. Unpacked(bytes) = u[Len(bytes)]
  BY <1>1, <1>5
<1>. QED
  BY <1>2, <1>6

\* v has at most n bytes.
HasBytes(v, n) == \E q : Quotients(q, v, n) /\ q[n] = 0

LEMMA QuotientsUnique ==
  ASSUME NEW v \in Nat, NEW n \in Nat, NEW q, NEW r, Quotients(q, v, n), Quotients(r, v, n)
  PROVE  \A k \in 0..n : q[k] = r[k]
<1>. DEFINE S == {k \in Nat : k <= n => q[k] = r[k]}
<1>1. 0 \in S
  BY DEF Quotients
<1>2. ASSUME NEW m \in 1..n, m-1 \in S PROVE m \in S
  BY <1>2 DEF Quotients
<1>. HIDE DEF S
<1>3. ASSUME NEW k \in 0..n, k \notin S PROVE FALSE
  <2>1. PICK m \in 1..k : m \notin S /\ \A j \in 0 .. m-1 : j \in S
    BY <1>1, <1>3, FirstOutside
  <2>. QED
    BY <1>2, <2>1
<1>. QED
  BY <1>3 DEF S

\* Bytes that are those of v, if v has no more, are read as v.
LEMMA ReadBack ==
  ASSUME NEW v \in Nat, NEW n \in Nat, HasBytes(v, n),
         NEW bytes \in Seq(Nat), Len(bytes) = n, \A i \in 1..n : bytes[i] = Packed(v, n)[i]
  PROVE  Unpacked(bytes) = v
<1>1. PICK q : Quotients(q, v, n) /\ Packed(v, n) = [i \in 1..n |-> q[n-i] % Byte]
  BY PackedBytes
<1>2. q[n] = 0
  BY <1>1, QuotientsUnique DEF HasBytes
<1>3. PICK u : PartialSums(u, bytes) /\ Unpacked(bytes) = u[n]
  BY UnpackedBytes
<1>4. \A m \in 0..n : u[m] = q[n-m]
  <2>. DEFINE S == {m \in Nat : m <= n => u[m] = q[n-m]}
  <2>1. 0 \in S
    BY <1>2, <1>3 DEF PartialSums
  <2>2. ASSUME NEW m \in 1..n, m-1 \in S PROVE m \in S
    <3>1. u[m-1] = q[n-m+1] /\ n-m+1 \in 1..n /\ n-m \in 0..n
      BY <2>2
    <3>2. q[n-m+1] = q[n-m] \div Byte /\ q[n-m] \in Nat
      BY <1>1, <3>1 DEF Quotients
    <3>3. bytes[m] = q[n-m] % Byte
      BY <1>1
    <3>4. u[m] = u[m-1] * Byte + bytes[m]
      BY <1>3 DEF PartialSums
    <3>5. q[n-m] = (q[n-m] \div Byte) * Byte + (q[n-m] % Byte)
      BY <3>2, ByteType, DivMod
    <3>. QED
      BY <3>1, <3>2, <3>3, <3>4, <3>5
  <2>. HIDE DEF S
  <2>3. ASSUME NEW k \in 0..n, k \notin S PROVE FALSE
    <3>1. PICK m \in 1..k : m \notin S /\ \A j \in 0 .. m-1 : j \in S
      BY <2>1, <2>3, FirstOutside
    <3>. QED
      BY <2>2, <3>1
  <2>. QED
    BY <2>3 DEF S
<1>. QED
  BY <1>1, <1>3, <1>4 DEF Quotients

\* What the last byte but k leaves, and how many bytes a number has.
LEMMA QuotientBound ==
  ASSUME NEW q, NEW v \in Nat, NEW n \in Nat, Quotients(q, v, n), NEW y \in Nat
  PROVE  /\ n >= 1 => (q[1] < y <=> v < y * Byte)
         /\ n >= 2 => (q[2] < y <=> v < y * Power(2))
         /\ n >= 3 => (q[3] < y <=> v < y * Power(3))
         /\ n >= 4 => (q[4] < y <=> v < y * Power(4))
<1>1. ASSUME NEW k \in 1..n, NEW z \in Nat, NEW x, x = z * Byte
      PROVE  q[k] < z <=> q[k-1] < x
  BY <1>1, ByteType, DivBound DEF Quotients
<1>2. \A x \in Nat : x * Byte \in Nat
  BY ByteType
<1>3. PICK y1 \in Nat : y1 = y * Byte
  BY <1>2
<1>4. PICK y2 \in Nat : y2 = y1 * Byte
  BY <1>2
<1>5. PICK y3 \in Nat : y3 = y2 * Byte
  BY <1>2
<1>6. PICK y4 \in Nat : y4 = y3 * Byte
  BY <1>2
<1>7. y * Power(2) = y2 /\ y * Power(3) = y3 /\ y * Power(4) = y4
  BY <1>3, <1>4, <1>5, <1>6, ByteType DEF Power
<1>8. q[0] = v
  BY DEF Quotients
<1>9. ASSUME NEW k \in 1..n
      PROVE  /\ q[k] < y <=> q[k-1] < y1
             /\ q[k] < y1 <=> q[k-1] < y2
             /\ q[k] < y2 <=> q[k-1] < y3
             /\ q[k] < y3 <=> q[k-1] < y4
  BY <1>1, <1>3, <1>4, <1>5, <1>6
<1>10. n >= 1 => (q[1] < y <=> v < y1)
  BY <1>8, <1>9
<1>11. n >= 2 => (q[2] < y <=> v < y2)
  BY <1>8, <1>9
<1>12. n >= 3 => (q[3] < y <=> v < y3)
  BY <1>8, <1>9
<1>13. n >= 4 => (q[4] < y <=> v < y4)
  BY <1>8, <1>9
<1>. QED
  BY <1>3, <1>7, <1>10, <1>11, <1>12, <1>13


LEMMA PowerType == \A n \in 1..4 : Power(n) \in Nat /\ Power(n) > 0
<1>1. ASSUME NEW x \in Nat, x > 0 PROVE x * Byte \in Nat /\ x * Byte > 0
  <2>1. 1 * x <= Byte * x
    BY ByteType, TimesMonotonic
  <2>. QED
    BY <2>1, <1>1, ByteType
<1>2. Power(1) \in Nat /\ Power(1) > 0
  BY ByteType DEF Power
<1>3. Power(2) \in Nat /\ Power(2) > 0
  BY <1>1, ByteType DEF Power
<1>4. Power(3) \in Nat /\ Power(3) > 0
  BY <1>1, ByteType DEF Power
<1>5. Power(4) \in Nat /\ Power(4) > 0
  BY <1>1, ByteType DEF Power
<1>. QED
  BY <1>2, <1>3, <1>4, <1>5

LEMMA BytesOfSmall ==
  ASSUME NEW n \in 1..4, NEW v \in Nat, v < Power(n)
  PROVE  HasBytes(v, n)
<1>1. PICK q : Quotients(q, v, n)
  BY QuotientsExist
<1>2. q[n] \in Nat
  BY <1>1 DEF Quotients
<1>3. 1 * Byte = Power(1) /\ \A k \in 1..4 : 1 * Power(k) = Power(k)
  BY ByteType, PowerType DEF Power
<1>4. q[n] < 1
  <2>1. CASE n = 1
    BY <1>1, <1>3, <2>1, QuotientBound
  <2>2. CASE n = 2
    BY <1>1, <1>3, <2>2, QuotientBound
  <2>3. CASE n = 3
    BY <1>1, <1>3, <2>3, QuotientBound
  <2>4. CASE n = 4
    BY <1>1, <1>3, <2>4, QuotientBound
  <2>. QED
    BY <2>1, <2>2, <2>3, <2>4
<1>. QED
  BY <1>1, <1>2, <1>4 DEF HasBytes

LEMMA PackedType ==
  ASSUME NEW v \in Nat, NEW n \in Nat
  PROVE  /\ Packed(v, n) \in Seq(0 .. Byte - 1) /\ Packed(v, n) \in Seq(Nat)
         /\ Len(Packed(v, n)) = n
<1>1. PICK q : Quotients(q, v, n) /\ Packed(v, n) = [i \in 1..n |-> q[n-i] % Byte]
  BY PackedBytes
<1>2. ASSUME NEW i \in 1..n PROVE q[n-i] % Byte \in 0 .. Byte - 1
  <2>1. q[n-i] \in Nat
    BY <1>1 DEF Quotients
  <2>. QED
    BY <2>1, ByteType, DivMod
<1>3. Packed(v, n) \in [1..n -> 0 .. Byte - 1]
  BY <1>1, <1>2
<1>. DEFINE s == Packed(v, n)
            S == 0 .. Byte - 1
<1>4. S \subseteq Nat
  BY ByteType
<1>5. s \in [1..n -> S]
  BY <1>3
<1>. HIDE DEF s, S
<1>6. s \in Seq(S) /\ Len(s) = n
  BY <1>5
<1>7. s \in Seq(Nat)
  <2>1. s \in [1..n -> Nat]
    BY <1>4, <1>5
  <2>. QED
    BY <2>1
<1>. QED
  BY <1>6, <1>7 DEF s, S

\* The first byte of a number that does not fill it.
LEMMA FirstByte ==
  ASSUME NEW n \in 2..4, NEW y \in Nat, y <= Byte, NEW v \in Nat, v < y * Power(n - 1)
  PROVE  Packed(v, n)[1] \in 0 .. y-1
<1>. n \in Nat
  OBVIOUS
<1>1. PICK q : Quotients(q, v, n) /\ Packed(v, n) = [i \in 1..n |-> q[n-i] % Byte]
  BY PackedBytes
<1>2. q[n-1] \in Nat
  BY <1>1 DEF Quotients
<1>3. Power(1) = Byte
  BY DEF Power
<1>4. q[n-1] < y
  <2>1. CASE n = 2
    BY <1>1, <1>3, <2>1, QuotientBound
  <2>2. CASE n = 3
    BY <1>1, <2>2, QuotientBound
  <2>3. CASE n = 4
    BY <1>1, <2>3, QuotientBound
  <2>. QED
    BY <2>1, <2>2, <2>3
<1>5. q[n-1] % Byte = q[n-1]
  BY <1>2, <1>4, ByteType
<1>. QED
  BY <1>1, <1>2, <1>4, <1>5

-------------------------------------------------------------------------------
(* Bytes in the data section *)

Holds(buffer, p, bytes) ==
  /\ p \in Nat \ {0} /\ p + Len(bytes) - 1 <= Len(buffer)
  /\ \A i \in 1..Len(bytes) : buffer[p + i - 1] = bytes[i]

\* What a reader cuts out: bytes p up to q - 1.
LEMMA CutOut ==
  ASSUME NEW buffer \in Seq(Nat), NEW p \in Nat \ {0}, NEW q \in Nat, p <= q, q <= Len(buffer) + 1
  PROVE  /\ SubSeq(buffer, p, q - 1) \in Seq(Nat)
         /\ Len(SubSeq(buffer, p, q - 1)) = q - p
         /\ \A i \in 1 .. q - p : SubSeq(buffer, p, q - 1)[i] = buffer[p + i - 1]
<1>1. \A i \in p .. q - 1 : buffer[i] \in Nat
  OBVIOUS
<1>2. p \in Int /\ q - 1 \in Int
  OBVIOUS
<1>3. /\ SubSeq(buffer, p, q - 1) \in Seq(Nat)
      /\ Len(SubSeq(buffer, p, q - 1)) = IF p <= q - 1 THEN (q - 1) - p + 1 ELSE 0
      /\ \A i \in 1 .. (q - 1) - p + 1 : SubSeq(buffer, p, q - 1)[i] = buffer[p + i - 1]
  BY <1>1, <1>2, SubSeqProperties
<1>. QED
  BY <1>3

\* A byte and more.
LEMMA ByteAndMore ==
  ASSUME NEW b \in Nat, NEW s \in Seq(Nat)
  PROVE  /\ <<b>> \o s \in Seq(Nat)
         /\ Len(<<b>> \o s) = Len(s) + 1
         /\ (<<b>> \o s)[1] = b
         /\ \A i \in 1..Len(s) : (<<b>> \o s)[i + 1] = s[i]
<1>1. /\ <<b>> \in Seq(Nat) /\ Len(<<b>>) = 1 /\ <<b>>[1] = b
  OBVIOUS
<1>. DEFINE t == <<b>>
<1>. HIDE DEF t
<1>2. t \in Seq(Nat) /\ Len(t) = 1 /\ t[1] = b
  BY <1>1 DEF t
<1>3. /\ t \o s \in Seq(Nat) /\ Len(t \o s) = Len(t) + Len(s)
      /\ \A i \in 1 .. Len(t) + Len(s) : (t \o s)[i] = IF i <= Len(t) THEN t[i] ELSE s[i - Len(t)]
  BY <1>2, ConcatProperties
<1>4. ASSUME NEW i \in 1..Len(s) PROVE (t \o s)[i + 1] = s[i]
  <2>1. i + 1 \in 1 .. Len(t) + Len(s) /\ ~(i + 1 <= Len(t)) /\ i + 1 - Len(t) = i
    BY <1>2
  <2>. QED
    BY <1>3, <2>1
<1>5. (t \o s)[1] = b /\ Len(t \o s) = Len(s) + 1
  BY <1>2, <1>3
<1>. QED
  BY <1>3, <1>4, <1>5 DEF t


-------------------------------------------------------------------------------
(* Pointers *)

\* The fields of the first byte of a pointer.
LEMMA PointerFields ==
  ASSUME NEW n \in 0..3, NEW high \in 0 .. PointerHigh - 1
  PROVE  LET first == TypeNumber.pointer * SizeField + n * PointerHigh + high
         IN /\ first \in Nat
            /\ (first % SizeField) \div PointerHigh = n
            /\ first % PointerHigh = high
<1>. DEFINE h == PointerHigh
            first == 1 * SizeField + n * PointerHigh + high
<1>1. h \in Nat /\ h > 0 /\ high \in Nat /\ high < h /\ n \in {0, 1, 2, 3}
  BY ByteType
<1>2. first = 4 * h + n * h + high /\ SizeField = 4 * h
  BY <1>1 DEF SizeField
<1>. HIDE DEF h
<1>3. first \in Nat
  BY <1>1, <1>2
<1>4. first % (4 * h) = n * h + high /\ (n * h + high) \div h = n /\ first % h = high
  BY <1>1, <1>2
<1>5. TypeNumber.pointer = 1
  BY DEF TypeNumber
<1>. QED
  BY <1>2, <1>3, <1>4, <1>5 DEF h

LEMMA CutoffType == \A n \in 0..3 : Cutoff(n) \in Nat
<1>1. ASSUME NEW x \in Nat PROVE PointerHigh * x \in Nat
  BY ByteType
<1>2. Power(2) \in Nat /\ Power(3) \in Nat /\ Power(4) \in Nat
  BY PowerType
<1>. QED
  BY <1>1, <1>2, ByteType DEF Cutoff

\* A pointer has the least number of bytes that its value allows.
LEMMA PointerClass ==
  ASSUME NEW value \in Nat, value < Cutoff(3)
  PROVE  /\ PointerBytes(value) \in 0..3
         /\ value < Cutoff(PointerBytes(value))
         /\ \A m \in 0 .. PointerBytes(value) - 1 : value >= Cutoff(m)
<1>. DEFINE Fit(m) == value < Cutoff(m) /\ \A l \in 0 .. m-1 : value >= Cutoff(l)
<1>1. PointerBytes(value) = CHOOSE m \in 0..3 : Fit(m)
  BY DEF PointerBytes
<1>2. \E m \in 0..3 : Fit(m)
  <2>1. CASE value < Cutoff(0)
    <3>1. Fit(0)
      BY <2>1
    <3>. QED
      BY <3>1
  <2>2. CASE ~(value < Cutoff(0)) /\ value < Cutoff(1)
    <3>1. Fit(1)
      BY <2>2, CutoffType
    <3>. QED
      BY <3>1
  <2>3. CASE ~(value < Cutoff(0)) /\ ~(value < Cutoff(1)) /\ value < Cutoff(2)
    <3>1. Fit(2)
      BY <2>3, CutoffType
    <3>. QED
      BY <3>1
  <2>4. CASE ~(value < Cutoff(0)) /\ ~(value < Cutoff(1)) /\ ~(value < Cutoff(2))
    <3>1. Fit(3)
      BY <2>4, CutoffType
    <3>. QED
      BY <3>1
  <2>. QED
    BY <2>1, <2>2, <2>3, <2>4
<1>. DEFINE n == PointerBytes(value)
<1>3. n \in 0..3 /\ Fit(n)
  <2>. HIDE DEF Fit
  <2>. QED
    BY <1>1, <1>2
<1>. QED
  BY <1>3

\* The bytes of a pointer of fewer than four: the first gives its high bits to
\* the control byte.
LEMMA ShortPointer ==
  ASSUME NEW value \in Nat, value < Cutoff(3), PointerBytes(value) # 3
  PROVE  LET n == PointerBytes(value)  rest == value - Offset(n) IN
         /\ n \in 0..2 /\ rest \in Nat
         /\ HasBytes(rest, n + 2)
         /\ Packed(rest, n + 2)[1] \in 0 .. PointerHigh - 1
<1>. DEFINE n == PointerBytes(value)
            rest == value - Offset(n)
            room == PointerHigh * Power(n + 1)
<1>1. n \in 0..2
  BY PointerClass
<1>2. rest \in Nat /\ rest < room
  <2>1. Power(1) = Byte
    BY DEF Power
  <2>2. \A m \in 1..3 : PointerHigh * Power(m) \in Nat
    <3>1. ASSUME NEW x \in Nat PROVE PointerHigh * x \in Nat
      BY ByteType
    <3>. QED
      BY <3>1, PowerType
  <2>3. CASE n = 0
    <3>1. Offset(n) = 0 /\ Cutoff(n) = PointerHigh * Power(1)
      BY <2>1, <2>3 DEF Offset, Cutoff
    <3>. QED
      BY <2>3, <3>1, PointerClass
  <2>4. CASE n = 1
    <3>1. Offset(n) = Cutoff(0) /\ Cutoff(0) = PointerHigh * Power(1)
          /\ Cutoff(1) = PointerHigh * Power(2) + PointerHigh * Power(1)
      BY <2>1, <2>4 DEF Offset, Cutoff
    <3>2. value >= Cutoff(0) /\ value < Cutoff(1)
      BY <2>4, PointerClass
    <3>. QED
      BY <2>2, <2>4, <3>1, <3>2
  <2>5. CASE n = 2
    <3>1. Offset(n) = Cutoff(1)
          /\ Cutoff(1) = PointerHigh * Power(2) + PointerHigh * Power(1)
          /\ Cutoff(2) = PointerHigh * Power(3) + PointerHigh * Power(2) + PointerHigh * Power(1)
      BY <2>1, <2>5 DEF Offset, Cutoff
    <3>2. value >= Cutoff(1) /\ value < Cutoff(2)
      BY <2>5, PointerClass
    <3>. QED
      BY <2>2, <2>5, <3>1, <3>2
  <2>. QED
    BY <1>1, <2>3, <2>4, <2>5
<1>. HIDE DEF n, rest
<1>3. room <= Byte * Power(n + 1) /\ Byte * Power(n + 1) = Power(n + 2) /\ Power(n + 1) \in Nat
  <2>1. n + 1 \in 1..3
    BY <1>1
  <2>2. Power(n + 1) \in Nat
    BY <2>1, PowerType
  <2>3. room <= Byte * Power(n + 1)
    BY <2>2, ByteType, TimesMonotonic
  <2>4. Byte * Power(n + 1) = Power(n + 2)
    <3>1. Byte * Power(1) = Power(2) /\ Byte * Power(2) = Power(3) /\ Byte * Power(3) = Power(4)
      BY ByteType DEF Power
    <3>. QED
      BY <1>1, <3>1
  <2>. QED
    BY <2>2, <2>3, <2>4
<1>4. HasBytes(rest, n + 2)
  <2>1. n + 2 \in 1..4 /\ Power(n + 2) \in Nat
    BY <1>1, PowerType
  <2>2. room \in Nat
    BY <1>3, ByteType
  <2>3. rest < Power(n + 2)
    <3>. HIDE DEF room
    <3>. QED
      BY <1>2, <1>3, <2>1, <2>2
  <2>. QED
    BY <1>2, <2>1, <2>3, BytesOfSmall
<1>5. Packed(rest, n + 2)[1] \in 0 .. PointerHigh - 1
  <2>1. n + 2 \in 2..4 /\ (n + 2) - 1 = n + 1
    BY <1>1
  <2>2. PointerHigh \in Nat /\ PointerHigh <= Byte
    BY ByteType
  <2>. QED
    BY <1>2, <2>1, <2>2, FirstByte
<1>. QED
  BY <1>1, <1>2, <1>4, <1>5 DEF n, rest


LEMMA TailBytes ==
  ASSUME NEW b \in Seq(Nat), b # <<>>
  PROVE  /\ Tail(b) \in Seq(Nat) /\ Len(Tail(b)) = Len(b) - 1
         /\ \A i \in 1 .. Len(b) - 1 : Tail(b)[i] = b[i + 1]
BY HeadTailProperties

\* The bytes of a pointer.
LEMMA PointerShape ==
  ASSUME NEW value \in Nat, value < Cutoff(3)
  PROVE  LET n == PointerBytes(value)
             k == IF n = 3 THEN 4 ELSE n + 2
             b == Packed(value - Offset(n), k)
             e == EncodePointer(value)
             control == TypeNumber.pointer * SizeField + n * PointerHigh
         IN /\ e \in Seq(Nat) /\ Len(e) = n + 2
            /\ n = 3 => e[1] = control /\ \A i \in 1..4 : e[i + 1] = b[i]
            /\ n # 3 => e[1] = control + b[1] /\ \A i \in 2 .. n + 2 : e[i] = b[i]
            /\ b \in Seq(Nat) /\ Len(b) = k /\ HasBytes(value - Offset(n), k)
            /\ value - Offset(n) \in Nat
<1>. DEFINE n == PointerBytes(value)
            k == IF n = 3 THEN 4 ELSE n + 2
            rest == value - Offset(n)
            b == Packed(rest, k)
            e == EncodePointer(value)
            control == TypeNumber.pointer * SizeField + n * PointerHigh
<1>1. e = IF n = 3 THEN <<control>> \o b ELSE <<control + b[1]>> \o Tail(b)
  BY DEF EncodePointer
<1>2. n \in 0..3
  BY PointerClass
<1>3. control \in Nat
  <2>1. 0 \in 0 .. PointerHigh - 1
    BY ByteType
  <2>2. TypeNumber.pointer * SizeField + n * PointerHigh + 0 \in Nat
    BY <1>2, <2>1, PointerFields
  <2>3. TypeNumber.pointer * SizeField \in Nat /\ n * PointerHigh \in Nat
    BY <1>2, ByteType DEF SizeField, TypeNumber
  <2>. QED
    BY <2>2, <2>3
<1>4. rest \in Nat /\ HasBytes(rest, k)
  <2>1. CASE n # 3
    BY <2>1, ShortPointer
  <2>2. CASE n = 3
    <3>1. Offset(n) = 0 /\ value < Power(4)
      BY <2>2 DEF Offset, Cutoff
    <3>2. rest = value
      BY <3>1
    <3>. QED
      BY <2>2, <3>1, <3>2, BytesOfSmall
  <2>. QED
    BY <2>1, <2>2
<1>5. k \in Nat /\ k > 0
  BY <1>2
<1>. HIDE DEF rest
<1>6. b \in Seq(Nat) /\ Len(b) = k
  BY <1>4, <1>5, PackedType
<1>. HIDE DEF n, control
<1>7. CASE n = 3
  <2>. HIDE DEF b, e
  <2>1. e = <<control>> \o b /\ Len(b) = 4
    BY <1>1, <1>6, <1>7
  <2>2. /\ <<control>> \o b \in Seq(Nat) /\ Len(<<control>> \o b) = Len(b) + 1
        /\ (<<control>> \o b)[1] = control
        /\ \A i \in 1..Len(b) : (<<control>> \o b)[i + 1] = b[i]
    BY <1>3, <1>6, ByteAndMore
  <2>3. /\ e \in Seq(Nat) /\ Len(e) = n + 2
        /\ e[1] = control /\ \A i \in 1..4 : e[i + 1] = b[i]
    BY <1>7, <2>1, <2>2
  <2>. QED
    BY <1>4, <1>6, <1>7, <2>3 DEF n, control, b, e, rest
<1>8. CASE n # 3
  <2>. DEFINE first == control + b[1]
  <2>1. k = n + 2 /\ n \in 0..2
    BY <1>2, <1>8
  <2>. HIDE DEF b, e, k
  <2>2. first \in Nat
    BY <1>3, <1>5, <1>6
  <2>3. b # <<>>
    BY <1>5, <1>6
  <2>4. /\ Tail(b) \in Seq(Nat) /\ Len(Tail(b)) = k - 1
        /\ \A i \in 1 .. k - 1 : Tail(b)[i] = b[i + 1]
    BY <1>6, <2>3, TailBytes
  <2>5. e = <<first>> \o Tail(b)
    BY <1>1, <1>8
  <2>. HIDE DEF first
  <2>6. /\ <<first>> \o Tail(b) \in Seq(Nat)
        /\ Len(<<first>> \o Tail(b)) = Len(Tail(b)) + 1
        /\ (<<first>> \o Tail(b))[1] = first
        /\ \A i \in 1..Len(Tail(b)) : (<<first>> \o Tail(b))[i + 1] = Tail(b)[i]
    BY <2>2, <2>4, ByteAndMore
  <2>7. e \in Seq(Nat) /\ Len(e) = n + 2 /\ e[1] = first
    BY <1>5, <2>1, <2>4, <2>5, <2>6
  <2>8. ASSUME NEW i \in 2 .. n + 2 PROVE e[i] = b[i]
    <3>1. i - 1 \in 1 .. k - 1 /\ (i - 1) + 1 = i
      BY <2>1
    <3>2. e[(i - 1) + 1] = Tail(b)[i - 1] /\ Tail(b)[i - 1] = b[(i - 1) + 1]
      BY <2>4, <2>5, <2>6, <3>1
    <3>. QED
      BY <3>1, <3>2
  <2>. QED
    BY <1>4, <1>6, <1>8, <2>7, <2>8 DEF n, control, b, e, rest, k, first
<1>. QED
  BY <1>7, <1>8

\* A pointer is read as the position that was encoded, wherever it stands in the
\* data section: for every position that _encode_pointer does not refuse, and
\* across the thresholds where it takes another byte.
THEOREM PointersReadBack ==
  ASSUME NEW value \in Nat, value < Cutoff(3), NEW buffer \in Seq(Nat), NEW p,
         Holds(buffer, p, EncodePointer(value))
  PROVE  Pointer(buffer, p) = [value |-> value, next |-> p + Len(EncodePointer(value))]
<1>. DEFINE n == PointerBytes(value)
            k == IF n = 3 THEN 4 ELSE n + 2
            rest == value - Offset(n)
            b == Packed(rest, k)
            e == EncodePointer(value)
            control == TypeNumber.pointer * SizeField + n * PointerHigh
            sub == SubSeq(buffer, p + 1, p + n + 1)
            high == IF n = 3 THEN 0 ELSE b[1]
<1>1. n \in 0..3
  BY PointerClass
<1>2. /\ e \in Seq(Nat) /\ Len(e) = n + 2
      /\ n = 3 => e[1] = control /\ \A i \in 1..4 : e[i + 1] = b[i]
      /\ n # 3 => e[1] = control + b[1] /\ \A i \in 2 .. n + 2 : e[i] = b[i]
      /\ b \in Seq(Nat) /\ Len(b) = k /\ HasBytes(rest, k) /\ rest \in Nat
  BY PointerShape
<1>3. /\ p \in Nat \ {0} /\ p + Len(e) - 1 <= Len(buffer)
      /\ \A i \in 1..Len(e) : buffer[p + i - 1] = e[i]
  BY DEF Holds
<1>4. high \in 0 .. PointerHigh - 1
  <2>1. CASE n = 3
    BY <2>1, ByteType
  <2>2. CASE n # 3
    BY <2>2, ShortPointer
  <2>. QED
    BY <2>1, <2>2
<1>5. control \in Nat
  BY <1>1, ByteType DEF SizeField, TypeNumber
<1>6. n = 3 => rest = value
  BY DEF Offset
<1>. HIDE DEF e, b, rest
<1>7. buffer[p] = control + high
  <2>1. buffer[p + 1 - 1] = e[1]
    <3>. HIDE DEF n, k, high, sub, control
    <3>1. 1 \in 1..Len(e)
      BY <1>1, <1>2
    <3>. QED
      BY <1>3, <3>1
  <2>2. p + 1 - 1 = p
    BY <1>3
  <2>. HIDE DEF control
  <2>. QED
    BY <1>2, <1>5, <2>1, <2>2
<1>8. (buffer[p] % SizeField) \div PointerHigh = n /\ buffer[p] % PointerHigh = high
  <2>. HIDE DEF n, high
  <2>. QED
    BY <1>1, <1>4, <1>7, PointerFields
<1>. HIDE DEF n, control
<1>9. /\ sub \in Seq(Nat) /\ Len(sub) = n + 1
      /\ \A i \in 1 .. n + 1 : sub[i] = e[i + 1]
  <2>1. p + 1 \in Nat \ {0} /\ p + n + 2 \in Nat /\ p + 1 <= p + n + 2
        /\ p + n + 2 <= Len(buffer) + 1
    <3>. HIDE DEF k, high, sub
    <3>1. Len(e) = n + 2 /\ Len(buffer) \in Nat
      BY <1>2
    <3>. QED
      BY <1>1, <1>3, <3>1
  <2>2. (p + n + 2) - 1 = p + n + 1 /\ (p + n + 2) - (p + 1) = n + 1
    BY <1>1, <1>3
  <2>3. /\ SubSeq(buffer, p + 1, (p + n + 2) - 1) \in Seq(Nat)
        /\ Len(SubSeq(buffer, p + 1, (p + n + 2) - 1)) = (p + n + 2) - (p + 1)
        /\ \A i \in 1 .. (p + n + 2) - (p + 1) :
             SubSeq(buffer, p + 1, (p + n + 2) - 1)[i] = buffer[p + 1 + i - 1]
    BY <2>1, CutOut
  <2>4. /\ sub \in Seq(Nat) /\ Len(sub) = n + 1
        /\ \A i \in 1 .. n + 1 : sub[i] = buffer[p + 1 + i - 1]
    BY <2>2, <2>3
  <2>. HIDE DEF sub
  <2>5. ASSUME NEW i \in 1 .. n + 1 PROVE sub[i] = e[i + 1]
    <3>1. i + 1 \in 1..Len(e) /\ p + 1 + i - 1 = p + (i + 1) - 1
      BY <1>1, <1>2, <1>3
    <3>. QED
      BY <1>3, <2>4, <3>1
  <2>. QED
    BY <2>4, <2>5
<1>. DEFINE found == Pointer(buffer, p)
<1>10. Pointer(buffer, p) = [value |-> IF n = 3 THEN Unpacked(sub)
                                       ELSE Offset(n) + Unpacked(<<high>> \o sub),
                             next |-> p + n + 2]
  <2>. HIDE DEF high
  <2>. QED
    BY <1>8 DEF Pointer
<1>. HIDE DEF sub
<1>11. CASE n = 3
  <2>1. \A i \in 1..4 : sub[i] = b[i]
    BY <1>2, <1>9, <1>11
  <2>2. k \in Nat /\ k = 4 /\ Len(sub) = 4
    BY <1>9, <1>11
  <2>3. Unpacked(sub) = rest
    <3>. HIDE DEF k
    <3>1. HasBytes(rest, k) /\ rest \in Nat /\ sub \in Seq(Nat) /\ Len(sub) = k
      BY <1>2, <1>9, <2>2
    <3>2. \A i \in 1..k : sub[i] = Packed(rest, k)[i]
      BY <2>1, <2>2 DEF b
    <3>. QED
      BY <2>2, <3>1, <3>2, ReadBack
  <2>. QED
    BY <1>2, <1>3, <1>6, <1>10, <1>11, <2>3 DEF e
<1>12. CASE n # 3
  <2>. DEFINE bytes == <<high>> \o sub
  <2>0. high = b[1] /\ high \in Nat /\ k = n + 2 /\ k \in Nat
    BY <1>1, <1>4, <1>12, ByteType
  <2>. HIDE DEF high
  <2>1. /\ bytes \in Seq(Nat) /\ Len(bytes) = Len(sub) + 1
        /\ bytes[1] = high /\ \A i \in 1..Len(sub) : bytes[i + 1] = sub[i]
    BY <1>9, <2>0, ByteAndMore
  <2>. HIDE DEF bytes
  <2>2. ASSUME NEW i \in 1..k PROVE bytes[i] = b[i]
    <3>1. CASE i = 1
      BY <2>0, <2>1, <3>1
    <3>2. CASE i # 1
      <4>1. i - 1 \in 1..Len(sub) /\ (i - 1) + 1 = i /\ i \in 2 .. n + 2
        BY <1>1, <1>9, <2>0, <3>2
      <4>2. bytes[(i - 1) + 1] = sub[i - 1] /\ sub[i - 1] = e[(i - 1) + 1]
        BY <1>9, <2>1, <4>1
      <4>. QED
        BY <1>2, <1>12, <4>1, <4>2
    <3>. QED
      BY <3>1, <3>2
  <2>3. Len(bytes) = k
    BY <1>1, <1>9, <2>0, <2>1
  <2>4. Unpacked(bytes) = rest
    BY <1>2, <2>0, <2>1, <2>2, <2>3, ReadBack DEF b
  <2>5. Offset(n) + rest = value
    <3>1. Offset(n) \in Nat
      BY CutoffType, <1>1 DEF Offset
    <3>. QED
      BY <3>1 DEF rest
  <2>6. Len(e) = n + 2
    BY <1>2
  <2>. HIDE DEF k
  <2>. QED
    BY <1>1, <1>3, <1>10, <1>12, <2>4, <2>5, <2>6 DEF bytes, e
<1>. QED
  BY <1>11, <1>12


-------------------------------------------------------------------------------
(* Control bytes *)

LEMMA FieldSizes == SizeField \in Nat /\ Direct \in Nat /\ SizeField = Direct + 3 /\ Byte \in Nat
BY FormatAssumption DEF SizeField, Direct

\* The two fields of a control byte.
LEMMA HighField ==
  ASSUME NEW high \in 0..7, NEW low \in Nat, low < SizeField
  PROVE  /\ high * SizeField + low \in Nat
         /\ (high * SizeField + low) \div SizeField = high
         /\ (high * SizeField + low) % SizeField = low
<1>. DEFINE n == SizeField
            v == high * n + low
<1>1. n \in Nat /\ n > 0 /\ low \in Nat /\ low < n /\ high \in Nat
  BY FieldSizes
<1>. HIDE DEF n
<1>2. high \in {0, 1, 2, 3, 4, 5, 6, 7}
  OBVIOUS
<1>3. v \in Nat
  BY <1>1, <1>2
<1>4. v \div n = high /\ v % n = low
  BY <1>1, <1>2
<1>. QED
  BY <1>3, <1>4 DEF n

LEMMA SizeBytesRange ==
  ASSUME NEW size \in Nat
  PROVE  /\ SizeBytes(size) \in 0..3
         /\ SizeBytes(size) = 0 <=> size < Direct
<1>1. ThresholdSize(1) = Direct /\ ThresholdSize(2) = Direct + Byte
  BY DEF ThresholdSize
<1>2. CASE size < Direct
  BY <1>1, <1>2, FieldSizes DEF SizeBytes
<1>3. CASE ~(size < Direct)
  BY <1>1, <1>3, FieldSizes DEF SizeBytes
<1>. QED
  BY <1>2, <1>3

LEMMA ThresholdValues ==
  /\ ThresholdSize(1) = Direct /\ ThresholdSize(2) = ThresholdSize(1) + Power(1)
  /\ ThresholdSize(3) = ThresholdSize(2) + Power(2)
  /\ ThresholdSize(4) = ThresholdSize(3) + Power(3)
  /\ \A n \in 1..4 : ThresholdSize(n) \in Nat
<1>1. Power(1) = Byte /\ Power(1) \in Nat /\ Power(2) \in Nat /\ Power(3) \in Nat /\ Direct \in Nat
  <2>1. Power(1) = Byte
    BY DEF Power
  <2>. QED
    BY <2>1, PowerType, FieldSizes
<1>2. /\ ThresholdSize(1) = Direct /\ ThresholdSize(2) = Direct + Byte
      /\ ThresholdSize(3) = Direct + Byte + Power(2)
      /\ ThresholdSize(4) = Direct + Byte + Power(2) + Power(3)
  BY DEF ThresholdSize
<1>. QED
  BY <1>1, <1>2

\* How many bytes of a size follow the control byte, and how much they hold: the
\* two thresholds are one too large for them.
LEMMA SizeClass ==
  ASSUME NEW size \in Nat, Storable(size), SizeBytes(size) # 0
  PROVE  LET n == SizeBytes(size)  rest == size - ThresholdSize(n) IN
         /\ n \in 1..3 /\ rest \in Nat
         /\ size \notin {ThresholdSize(2), ThresholdSize(3)} => rest < Power(n)
         /\ size \in {ThresholdSize(2), ThresholdSize(3)} => n \in 1..2 /\ rest = Power(n)
<1>. DEFINE n == SizeBytes(size)
            rest == size - ThresholdSize(n)
            t1 == ThresholdSize(1)
            t2 == ThresholdSize(2)
            t3 == ThresholdSize(3)
            t4 == ThresholdSize(4)
            p1 == Power(1)
            p2 == Power(2)
            p3 == Power(3)
<1>1. /\ t2 = t1 + p1 /\ t3 = t2 + p2 /\ t4 = t3 + p3
      /\ t1 \in Nat /\ t2 \in Nat /\ t3 \in Nat /\ t4 \in Nat
  BY ThresholdValues
<1>2. p1 \in Nat /\ p2 \in Nat /\ p3 \in Nat /\ p1 > 0 /\ p2 > 0 /\ p3 > 0
  BY PowerType
<1>3. size < t4
  BY DEF Storable
<1>4. ~(size < t1)
  BY SizeBytesRange, ThresholdValues
<1>. HIDE DEF t1, t2, t3, t4, p1, p2, p3
<1>5. n = CASE size < t1 -> 0 [] size \in t1..t2 -> 1 [] size \in t2 + 1 .. t3 -> 2 [] OTHER -> 3
  BY DEF SizeBytes, t1, t2, t3
<1>. HIDE DEF n
<1>6. CASE size \in t1..t2
  <2>1. n = 1
    BY <1>1, <1>4, <1>6, <1>5
  <2>2. rest = size - t1
    BY <2>1 DEF t1
  <2>3. n \in 1..2 /\ rest \in Nat
        /\ (size \notin {t2, t3} => rest < p1) /\ (size \in {t2, t3} => rest = p1)
    BY <1>1, <1>2, <1>6, <2>1, <2>2
  <2>. QED
    BY <2>1, <2>3 DEF t2, t3, p1, n
<1>7. CASE size \in t2 + 1 .. t3
  <2>1. n = 2
    <3>1. ~(size \in t1..t2)
      BY <1>1, <1>7
    <3>. QED
      BY <1>4, <1>7, <1>5, <3>1
  <2>2. rest = size - t2
    BY <2>1 DEF t2
  <2>3. n \in 1..2 /\ rest \in Nat
        /\ (size \notin {t2, t3} => rest < p2) /\ (size \in {t2, t3} => rest = p2)
    BY <1>1, <1>2, <1>7, <2>1, <2>2
  <2>. QED
    BY <2>1, <2>3 DEF t2, t3, p2, n
<1>8. CASE ~(size \in t1..t2) /\ ~(size \in t2 + 1 .. t3)
  <2>1. n = 3
    BY <1>4, <1>8, <1>5
  <2>2. rest = size - t3
    BY <2>1 DEF t3
  <2>3. rest \in Nat /\ rest < p3 /\ size \notin {t2, t3}
    BY <1>1, <1>2, <1>3, <1>4, <1>8, <2>2
  <2>. QED
    BY <2>1, <2>3 DEF t2, t3, p3, n
<1>. QED
  BY <1>6, <1>7, <1>8

\* Control bytes: the first, the type if it is not in the first, and the size if
\* it is not.
LEMMA ControlShape ==
  ASSUME NEW type \in 1..15, NEW size \in Nat, Storable(size)
  PROVE  LET n == SizeBytes(size)
             high == IF type < 8 THEN type ELSE 0
             m == IF type < 8 THEN 1 ELSE 2
             low == IF n = 0 THEN size ELSE Direct + n - 1
             rest == size - ThresholdSize(n)
             e == ControlBytes(type, size)
         IN /\ e \in Seq(Nat) /\ Len(e) = m + n /\ n \in 0..3
            /\ low \in Nat /\ low < SizeField /\ high \in 0..7
            /\ e[1] = high * SizeField + low
            /\ type >= 8 => e[2] = type - 7
            /\ n # 0 => \A i \in 1..n : e[m + i] = Packed(rest, n)[i]
<1>. DEFINE n == SizeBytes(size)
            high == IF type < 8 THEN type ELSE 0
            m == IF type < 8 THEN 1 ELSE 2
            low == IF n = 0 THEN size ELSE Direct + n - 1
            rest == size - ThresholdSize(n)
            e == ControlBytes(type, size)
            first == high * SizeField + low
            extended == IF type < 8 THEN <<>> ELSE <<type - 7>>
            start == <<first>> \o extended
<1>1. n \in 0..3 /\ (n = 0 <=> size < Direct)
  BY SizeBytesRange
<1>2. low \in Nat /\ low < SizeField
  BY <1>1, FieldSizes
<1>3. high \in 0..7
  OBVIOUS
<1>4. first \in Nat
  BY <1>2, <1>3, HighField
<1>5. /\ n = 0 => e = start
      /\ n # 0 => e = start \o Packed(rest, n)
  <2>1. n = 0 => e = start
    BY DEF ControlBytes
  <2>2. n # 0 => e = <<high * SizeField + Direct + n - 1>> \o extended \o Packed(rest, n)
    BY DEF ControlBytes
  <2>3. n # 0 => high * SizeField + Direct + n - 1 = first
    <3>1. high * SizeField \in Nat
      BY <1>3, FieldSizes
    <3>. QED
      BY <1>1, <3>1, FieldSizes
  <2>. QED
    BY <2>1, <2>2, <2>3
<1>. HIDE DEF n, first, e
<1>6. start \in Seq(Nat) /\ Len(start) = m /\ start[1] = first /\ (type >= 8 => start[2] = type - 7)
  <2>1. extended \in Seq(Nat) /\ Len(extended) = m - 1 /\ (type >= 8 => extended[1] = type - 7)
    <3>1. CASE type < 8
      <4>1. <<>> \in Seq(Nat) /\ Len(<<>>) = 0
        OBVIOUS
      <4>. QED
        BY <3>1, <4>1
    <3>2. CASE ~(type < 8)
      <4>1. type - 7 \in Nat
        BY <3>2
      <4>2. <<type - 7>> \in Seq(Nat) /\ Len(<<type - 7>>) = 1 /\ <<type - 7>>[1] = type - 7
        BY <4>1
      <4>. QED
        BY <3>2, <4>2
    <3>. QED
      BY <3>1, <3>2
  <2>. HIDE DEF extended
  <2>2. /\ start \in Seq(Nat) /\ Len(start) = Len(extended) + 1 /\ start[1] = first
        /\ \A i \in 1..Len(extended) : start[i + 1] = extended[i]
    BY <1>4, <2>1, ByteAndMore
  <2>. HIDE DEF start
  <2>3. type >= 8 => 1 \in 1..Len(extended) /\ start[1 + 1] = extended[1]
    BY <2>1, <2>2
  <2>. QED
    BY <2>1, <2>2, <2>3
<1>. HIDE DEF start
<1>7. CASE n = 0
  <2>1. e = start
    BY <1>5, <1>7
  <2>. QED
    BY <1>1, <1>2, <1>3, <1>6, <1>7, <2>1 DEF n, e, first
<1>8. CASE n # 0
  <2>. DEFINE t == Packed(rest, n)
  <2>1. rest \in Nat /\ n \in Nat
    BY <1>1, <1>8, SizeClass DEF n
  <2>2. t \in Seq(Nat) /\ Len(t) = n
    BY <2>1, PackedType
  <2>3. e = start \o t
    BY <1>5, <1>8
  <2>. HIDE DEF t
  <2>4. /\ start \o t \in Seq(Nat) /\ Len(start \o t) = Len(start) + Len(t)
        /\ \A i \in 1 .. Len(start) + Len(t) :
             (start \o t)[i] = IF i <= Len(start) THEN start[i] ELSE t[i - Len(start)]
    BY <1>6, <2>2, ConcatProperties
  <2>5. m \in 1..2 /\ (type >= 8 => m = 2)
    OBVIOUS
  <2>. HIDE DEF m
  <2>6. e \in Seq(Nat) /\ Len(e) = m + n
    BY <1>6, <2>2, <2>3, <2>4
  <2>7. e[1] = first
    BY <1>6, <2>1, <2>2, <2>3, <2>4, <2>5
  <2>8. type >= 8 => e[2] = type - 7
    BY <1>6, <2>1, <2>2, <2>3, <2>4, <2>5
  <2>9. ASSUME NEW i \in 1..n PROVE e[m + i] = t[i]
    <3>1. m + i \in 1 .. Len(start) + Len(t) /\ ~(m + i <= Len(start)) /\ m + i - Len(start) = i
      BY <1>6, <2>1, <2>2, <2>5
    <3>2. (start \o t)[m + i] = t[m + i - Len(start)]
      BY <2>1, <2>4, <2>5, <3>1
    <3>. QED
      BY <2>3, <3>1, <3>2
  <2>. QED
    BY <1>1, <1>2, <1>3, <2>6, <2>7, <2>8, <2>9 DEF n, e, first, t, m
<1>. QED
  BY <1>7, <1>8


\* No bytes of a power of the size of a byte are set but one that is cut off.
LEMMA PackedPower ==
  ASSUME NEW n \in 1..2
  PROVE  \A i \in 1..n : Packed(Power(n), n)[i] = 0 /\ Packed(0, n)[i] = 0
<1>. n \in Nat /\ Power(n) \in Nat
  BY PowerType
<1>1. Byte \in Nat \ {0} /\ Power(1) = Byte /\ Power(2) = Byte * Byte + 0 /\ Byte = 1 * Byte + 0
  BY ByteType DEF Power
<1>2. /\ (Byte * Byte + 0) \div Byte = Byte /\ (Byte * Byte + 0) % Byte = 0
      /\ (1 * Byte + 0) % Byte = 0
  <2>1. 0 \in 0 .. Byte - 1
    BY <1>1
  <2>2. (Byte * Byte + 0) \div Byte = Byte /\ (Byte * Byte + 0) % Byte = 0
    BY <1>1, <2>1, DivModUnique
  <2>3. (1 * Byte + 0) % Byte = 0
    BY <1>1, <2>1, DivModUnique
  <2>. QED
    BY <2>2, <2>3
<1>3. 0 % Byte = 0 /\ 0 \div Byte = 0
  BY <1>1
<1>4. PICK q : Quotients(q, Power(n), n) /\ Packed(Power(n), n) = [i \in 1..n |-> q[n-i] % Byte]
  BY PackedBytes
<1>5. PICK z : Quotients(z, 0, n) /\ Packed(0, n) = [i \in 1..n |-> z[n-i] % Byte]
  BY PackedBytes
<1>6. CASE n = 1
  <2>1. q[0] = Power(1) /\ z[0] = 0
    BY <1>4, <1>5, <1>6 DEF Quotients
  <2>. QED
    BY <1>1, <1>2, <1>3, <1>4, <1>5, <1>6, <2>1
<1>7. CASE n = 2
  <2>1. q[0] = Power(2) /\ q[1] = q[0] \div Byte /\ z[0] = 0 /\ z[1] = z[0] \div Byte
    BY <1>4, <1>5, <1>7 DEF Quotients
  <2>2. q[1] = Byte /\ q[0] % Byte = 0 /\ q[1] % Byte = 0 /\ z[1] % Byte = 0 /\ z[0] % Byte = 0
    BY <1>1, <1>2, <1>3, <2>1
  <2>. QED
    BY <1>4, <1>5, <1>7, <2>2
<1>. QED
  BY <1>6, <1>7

\* What a reader finds at the start of a value.
LEMMA ControlRead ==
  ASSUME NEW type \in 1..15, NEW size \in Nat, Storable(size), NEW buffer \in Seq(Nat), NEW p,
         Holds(buffer, p, ControlBytes(type, size))
  PROVE  LET n == SizeBytes(size)
             rest == IF size \in {ThresholdSize(2), ThresholdSize(3)} THEN 0
                     ELSE size - ThresholdSize(n)
         IN Control(buffer, p) =
              [type |-> type,
               size |-> IF n = 0 THEN size ELSE ThresholdSize(n) + rest,
               next |-> p + Len(ControlBytes(type, size))]
<1>. DEFINE n == SizeBytes(size)
            high == IF type < 8 THEN type ELSE 0
            m == IF type < 8 THEN 1 ELSE 2
            low == IF n = 0 THEN size ELSE Direct + n - 1
            rest == size - ThresholdSize(n)
            read == IF size \in {ThresholdSize(2), ThresholdSize(3)} THEN 0 ELSE rest
            e == ControlBytes(type, size)
            q == p + m
            sub == SubSeq(buffer, q, q + n - 1)
<1>1. /\ e \in Seq(Nat) /\ Len(e) = m + n /\ n \in 0..3
      /\ low \in Nat /\ low < SizeField /\ high \in 0..7
      /\ e[1] = high * SizeField + low
      /\ type >= 8 => e[2] = type - 7
      /\ n # 0 => \A i \in 1..n : e[m + i] = Packed(rest, n)[i]
  BY ControlShape
<1>2. /\ p \in Nat \ {0} /\ p + Len(e) - 1 <= Len(buffer)
      /\ \A i \in 1..Len(e) : buffer[p + i - 1] = e[i]
  BY DEF Holds
<1>3. m \in 1..2 /\ (type >= 8 <=> m = 2) /\ (type >= 8 <=> high = 0)
  OBVIOUS
<1>4. n = 0 <=> size < Direct
  BY SizeBytesRange
<1>5. low < Direct <=> n = 0
  BY <1>1, <1>4, FieldSizes
<1>. HIDE DEF e, m, high, n
<1>6. buffer[p] = e[1] /\ (type >= 8 => buffer[p + 1] = e[2])
  <2>1. 1 \in 1..Len(e) /\ p + 1 - 1 = p /\ p + 2 - 1 = p + 1
    BY <1>1, <1>2, <1>3
  <2>2. type >= 8 => 2 \in 1..Len(e)
    BY <1>1, <1>3
  <2>. QED
    BY <1>2, <2>1, <2>2
<1>7. buffer[p] \div SizeField = high /\ buffer[p] % SizeField = low
  <2>. HIDE DEF low
  <2>1. high \in 0..7 /\ low \in Nat /\ low < SizeField
    BY <1>1
  <2>2. /\ (high * SizeField + low) \div SizeField = high
        /\ (high * SizeField + low) % SizeField = low
    BY <2>1, HighField
  <2>3. buffer[p] = high * SizeField + low
    BY <1>1, <1>6
  <2>. QED
    BY <2>2, <2>3
<1>8. (IF high = 0 THEN buffer[p + 1] + 7 ELSE high) = type
  BY <1>1, <1>3, <1>6 DEF high
<1>9. (IF low < Direct THEN 0 ELSE low - Direct + 1) = n
  BY <1>1, <1>5, FieldSizes
<1>10. (IF high = 0 THEN p + 2 ELSE p + 1) = q
  BY <1>2, <1>3 DEF m
<1>11. Control(buffer, p) = [type |-> type,
                             size |-> IF n = 0 THEN low ELSE ThresholdSize(n) + Unpacked(sub),
                             next |-> q + n]
  <2>. DEFINE h == buffer[p] \div SizeField
              l == buffer[p] % SizeField
              a == IF h = 0 THEN p + 2 ELSE p + 1
              k == IF l < Direct THEN 0 ELSE l - Direct + 1
  <2>1. Control(buffer, p) = [type |-> IF h = 0 THEN buffer[p + 1] + 7 ELSE h,
                              size |-> IF k = 0 THEN l
                                       ELSE ThresholdSize(k) + Unpacked(SubSeq(buffer, a, a + k - 1)),
                              next |-> a + k]
    BY DEF Control
  <2>2. h = high /\ l = low
    BY <1>7
  <2>. HIDE DEF h, l, low, q
  <2>3. a = q /\ k = n
    BY <1>9, <1>10, <2>2
  <2>. HIDE DEF a, k
  <2>. QED
    BY <1>8, <2>1, <2>2, <2>3
<1>12. q + n = p + Len(e)
  BY <1>1, <1>2, <1>3
<1>13. CASE n = 0
  <2>1. low = size
    BY <1>13
  <2>. HIDE DEF low, sub, q, read
  <2>. QED
    BY <1>11, <1>12, <1>13, <2>1 DEF n, e
<1>14. CASE n # 0
  <2>1. /\ n \in 1..3 /\ rest \in Nat
        /\ size \notin {ThresholdSize(2), ThresholdSize(3)} => rest < Power(n)
        /\ size \in {ThresholdSize(2), ThresholdSize(3)} => n \in 1..2 /\ rest = Power(n)
    BY <1>14, SizeClass DEF n
  <2>. HIDE DEF rest
  <2>2. /\ sub \in Seq(Nat) /\ Len(sub) = n
        /\ \A i \in 1..n : sub[i] = Packed(rest, n)[i]
    <3>. HIDE DEF low, read
    <3>1. q \in Nat \ {0} /\ q + n \in Nat /\ q <= q + n /\ q + n <= Len(buffer) + 1
          /\ (q + n) - 1 = q + n - 1 /\ (q + n) - q = n
      BY <1>1, <1>2, <1>3, <2>1
    <3>2. /\ sub \in Seq(Nat) /\ Len(sub) = n
          /\ \A i \in 1..n : sub[i] = buffer[q + i - 1]
      <4>. HIDE DEF q
      <4>1. /\ SubSeq(buffer, q, (q + n) - 1) \in Seq(Nat)
            /\ Len(SubSeq(buffer, q, (q + n) - 1)) = (q + n) - q
            /\ \A i \in 1 .. (q + n) - q : SubSeq(buffer, q, (q + n) - 1)[i] = buffer[q + i - 1]
        BY <3>1, CutOut
      <4>. QED
        BY <3>1, <4>1
    <3>. HIDE DEF sub
    <3>3. ASSUME NEW i \in 1..n PROVE buffer[q + i - 1] = e[m + i]
      <4>1. m + i \in 1..Len(e) /\ q + i - 1 = p + (m + i) - 1
        BY <1>1, <1>2, <1>3, <2>1
      <4>. QED
        BY <1>2, <4>1
    <3>. QED
      BY <1>1, <1>14, <3>2, <3>3
  <2>. HIDE DEF sub
  <2>3. n \in 1..4 /\ n \in Nat
    BY <2>1
  <2>4. Unpacked(sub) = read
    <3>1. CASE size \notin {ThresholdSize(2), ThresholdSize(3)}
      <4>1. HasBytes(rest, n)
        BY <2>1, <2>3, <3>1, BytesOfSmall
      <4>. QED
        BY <2>1, <2>2, <2>3, <3>1, <4>1, ReadBack
    <3>2. CASE size \in {ThresholdSize(2), ThresholdSize(3)}
      <4>1. HasBytes(0, n)
        <5>1. 0 < Power(n) /\ 0 \in Nat
          BY <2>3, PowerType
        <5>. QED
          BY <2>3, <5>1, BytesOfSmall
      <4>2. \A i \in 1..n : sub[i] = Packed(0, n)[i]
        BY <2>1, <2>2, <3>2, PackedPower
      <4>3. Unpacked(sub) = 0
        BY SMTT(30), <2>2, <2>3, <4>1, <4>2, ReadBack
      <4>. QED
        BY <3>2, <4>3
    <3>. QED
      BY <3>1, <3>2
  <2>. HIDE DEF low, q, read
  <2>. QED
    BY <1>11, <1>12, <1>14, <2>4 DEF n, e, rest, read
<1>. QED
  BY <1>13, <1>14

\* A size is read as it was written, with the type, wherever the value stands,
\* but for two sizes: _control_bytes gives a value whose size is the second or the
\* third threshold one byte too few, and the reader takes it for a smaller one.
THEOREM SizesReadBack ==
  ASSUME NEW type \in 1..15, NEW size \in Nat, Storable(size), NEW buffer \in Seq(Nat), NEW p,
         Holds(buffer, p, ControlBytes(type, size))
  PROVE  /\ Control(buffer, p).type = type
         /\ Control(buffer, p).next = p + Len(ControlBytes(type, size))
         /\ Control(buffer, p).size = size <=> size \notin {ThresholdSize(2), ThresholdSize(3)}
<1>. DEFINE n == SizeBytes(size)
            odd == size \in {ThresholdSize(2), ThresholdSize(3)}
            rest == IF odd THEN 0 ELSE size - ThresholdSize(n)
            found == IF n = 0 THEN size ELSE ThresholdSize(n) + rest
<1>1. Control(buffer, p) = [type |-> type, size |-> found,
                            next |-> p + Len(ControlBytes(type, size))]
  BY ControlRead
<1>2. found = size <=> ~odd
  <2>1. CASE n = 0
    <3>1. size < ThresholdSize(1)
      BY <2>1, SizeBytesRange, ThresholdValues
    <3>2. /\ ThresholdSize(1) \in Nat /\ ThresholdSize(2) \in Nat /\ ThresholdSize(3) \in Nat
          /\ ThresholdSize(2) > ThresholdSize(1) /\ ThresholdSize(3) > ThresholdSize(1)
      <4>1. Power(1) \in Nat /\ Power(1) > 0 /\ Power(2) \in Nat /\ Power(2) > 0
        BY PowerType
      <4>. HIDE DEF n, odd, rest, found
      <4>. QED
        BY <4>1, ThresholdValues
    <3>. QED
      BY <2>1, <3>1, <3>2
  <2>2. CASE n # 0
    <3>1. /\ n \in 1..3
          /\ odd => size - ThresholdSize(n) = Power(n)
      BY <2>2, SizeClass
    <3>2. ThresholdSize(n) \in Nat /\ Power(n) \in Nat /\ Power(n) > 0
      <4>1. n \in 1..4
        BY <3>1
      <4>. HIDE DEF n
      <4>. QED
        BY <4>1, ThresholdValues, PowerType
    <3>. HIDE DEF n, odd
    <3>. QED
      BY <2>2, <3>1, <3>2
  <2>. QED
    BY <2>1, <2>2
<1>. QED
  BY <1>1, <1>2


-------------------------------------------------------------------------------
(* Integers *)

LEMMA HoldsParts ==
  ASSUME NEW buffer \in Seq(Nat), NEW p, NEW e \in Seq(Nat), NEW b \in Seq(Nat),
         Holds(buffer, p, e \o b), Len(e) > 0
  PROVE  Holds(buffer, p, e) /\ Holds(buffer, p + Len(e), b) /\ Len(e \o b) = Len(e) + Len(b)
<1>1. /\ Len(e \o b) = Len(e) + Len(b) /\ Len(e) \in Nat /\ Len(b) \in Nat
      /\ \A i \in 1 .. Len(e) + Len(b) : (e \o b)[i] = IF i <= Len(e) THEN e[i] ELSE b[i - Len(e)]
  BY ConcatProperties
<1>2. /\ p \in Nat \ {0} /\ p + Len(e \o b) - 1 <= Len(buffer)
      /\ \A i \in 1..Len(e \o b) : buffer[p + i - 1] = (e \o b)[i]
  BY DEF Holds
<1>3. Len(buffer) \in Nat
  OBVIOUS
<1>. DEFINE w == e \o b
<1>. HIDE DEF w
<1>4. /\ Len(w) = Len(e) + Len(b)
      /\ \A i \in 1 .. Len(e) + Len(b) : w[i] = IF i <= Len(e) THEN e[i] ELSE b[i - Len(e)]
      /\ p + Len(w) - 1 <= Len(buffer)
      /\ \A i \in 1..Len(w) : buffer[p + i - 1] = w[i]
  BY <1>1, <1>2 DEF w
<1>5. ASSUME NEW i \in 1..Len(e) PROVE buffer[p + i - 1] = e[i]
  <2>1. i \in 1..Len(w) /\ i <= Len(e) /\ i \in 1 .. Len(e) + Len(b)
    BY <1>1, <1>4
  <2>2. buffer[p + i - 1] = w[i] /\ w[i] = e[i]
    BY <1>4, <2>1
  <2>. QED
    BY <2>2
<1>6. ASSUME NEW i \in 1..Len(b) PROVE buffer[p + Len(e) + i - 1] = b[i]
  <2>1. Len(e) + i \in 1..Len(w) /\ ~(Len(e) + i <= Len(e)) /\ Len(e) + i - Len(e) = i
        /\ p + (Len(e) + i) - 1 = p + Len(e) + i - 1
    <3>1. Len(w) = Len(e) + Len(b) /\ Len(e) \in Nat /\ Len(b) \in Nat /\ p \in Nat
      BY ONLY <1>1, <1>2, <1>4
    <3>2. \A k \in Nat, l \in Nat, m \in Nat, q \in Nat :
            m \in 1..l => /\ k + m \in 1 .. k + l /\ ~(k + m <= k) /\ k + m - k = m
                         /\ q + (k + m) - 1 = q + k + m - 1
      BY ONLY TRUE
    <3>. QED
      BY ONLY <3>1, <3>2, i \in 1..Len(b)
  <2>2. buffer[p + (Len(e) + i) - 1] = w[Len(e) + i] /\ w[Len(e) + i] = b[Len(e) + i - Len(e)]
    BY <1>1, <1>4, <2>1
  <2>. QED
    BY <2>1, <2>2
<1>7. Holds(buffer, p, e)
  BY <1>1, <1>2, <1>3, <1>4, <1>5 DEF Holds
<1>8. Holds(buffer, p + Len(e), b)
  BY <1>1, <1>2, <1>3, <1>4, <1>6 DEF Holds
<1>. QED
  BY <1>1, <1>7, <1>8

\* Leading zeros do not count.
LEMMA StrippedSame ==
  ASSUME NEW s \in Seq(Nat)
  PROVE  /\ Stripped(s) \in Seq(Nat) /\ Len(Stripped(s)) <= Len(s)
         /\ Unpacked(Stripped(s)) = Unpacked(s)
         /\ Len(s) > 0 /\ s[1] # 0 => Stripped(s) = s
         /\ Len(Stripped(s)) = Len(s) => Stripped(s) = s
<1>1. PICK u : PartialSums(u, s) /\ Unpacked(s) = u[Len(s)]
  BY UnpackedBytes
<1>2. ASSUME NEW n \in 0..Len(s), \A i \in 1..n : s[i] = 0 PROVE \A k \in 0..n : u[k] = 0
  <2>. DEFINE S == {k \in Nat : k <= n => u[k] = 0}
  <2>1. 0 \in S
    BY <1>1 DEF PartialSums
  <2>2. ASSUME NEW m \in 1..n, m-1 \in S PROVE m \in S
    <3>1. u[m] = u[m-1] * Byte + s[m] /\ u[m-1] = 0 /\ s[m] = 0
      BY <1>1, <1>2, <2>2 DEF PartialSums
    <3>2. u[m] = 0
      BY <3>1, ByteType
    <3>. QED
      BY <3>2
  <2>. HIDE DEF S
  <2>3. ASSUME NEW k \in 0..n, k \notin S PROVE FALSE
    <3>1. PICK m \in 1..k : m \notin S /\ \A j \in 0 .. m-1 : j \in S
      BY <2>1, <2>3, FirstOutside
    <3>. QED
      BY <2>2, <3>1
  <2>. QED
    BY <2>3 DEF S
<1>3. CASE \A i \in 1..Len(s) : s[i] = 0
  <2>1. Stripped(s) = <<>> /\ <<>> \in Seq(Nat) /\ Len(<<>>) = 0
    BY <1>3 DEF Stripped
  <2>2. Unpacked(s) = 0
    BY <1>1, <1>2, <1>3
  <2>3. PICK e : PartialSums(e, <<>>) /\ Unpacked(<<>>) = e[Len(<<>>)]
    BY <2>1, UnpackedBytes
  <2>4. Unpacked(<<>>) = 0
    BY <2>1, <2>3 DEF PartialSums
  <2>5. Len(s) = 0 => s = <<>>
    OBVIOUS
  <2>. QED
    BY <1>3, <2>1, <2>2, <2>4, <2>5
<1>4. CASE ~(\A i \in 1..Len(s) : s[i] = 0)
  <2>. DEFINE First(i) == s[i] # 0 /\ \A j \in 1 .. i-1 : s[j] = 0
              k == CHOOSE i \in 1..Len(s) : First(i)
              t == SubSeq(s, k, Len(s))
  <2>1. Stripped(s) = t
    BY <1>4 DEF Stripped
  <2>2. \E i \in 1..Len(s) : First(i)
    <3>. DEFINE NonZero == {i \in 1..Len(s) : s[i] # 0}
    <3>1. NonZero # {} /\ NonZero \in SUBSET Nat
      BY <1>4
    <3>. HIDE DEF NonZero
    <3>2. PICK i \in NonZero : \A j \in NonZero : i <= j
      BY <3>1, Least
    <3>. USE DEF NonZero
    <3>3. i \in 1..Len(s) /\ \A j \in 1 .. i-1 : j \notin NonZero
      <4>1. i \in 1..Len(s)
        OBVIOUS
      <4>. HIDE DEF NonZero
      <4>. QED
        BY <3>2, <4>1
    <3>. QED
      BY <3>3
  <2>3. k \in 1..Len(s) /\ First(k)
    <3>. HIDE DEF First
    <3>. QED
      BY <2>2
  <2>. HIDE DEF k
  <2>4. /\ t \in Seq(Nat) /\ Len(t) = Len(s) - k + 1
        /\ \A i \in 1 .. Len(s) - k + 1 : t[i] = s[k + i - 1]
    <3>1. k \in Nat \ {0} /\ Len(s) + 1 \in Nat /\ k <= Len(s) + 1 /\ (Len(s) + 1) - 1 = Len(s)
          /\ (Len(s) + 1) - k = Len(s) - k + 1
      BY <2>3
    <3>2. /\ SubSeq(s, k, (Len(s) + 1) - 1) \in Seq(Nat)
          /\ Len(SubSeq(s, k, (Len(s) + 1) - 1)) = (Len(s) + 1) - k
          /\ \A i \in 1 .. (Len(s) + 1) - k : SubSeq(s, k, (Len(s) + 1) - 1)[i] = s[k + i - 1]
      BY <3>1, CutOut
    <3>. QED
      BY <3>1, <3>2
  <2>. HIDE DEF t
  <2>5. PICK w : PartialSums(w, t) /\ Unpacked(t) = w[Len(t)]
    BY <2>4, UnpackedBytes
  <2>6. \A m \in 0..Len(t) : w[m] = u[k - 1 + m]
    <3>. DEFINE S == {m \in Nat : m <= Len(t) => w[m] = u[k - 1 + m]}
    <3>1. 0 \in S
      <4>1. u[k - 1] = 0
        BY <1>2, <2>3
      <4>. QED
        BY <2>3, <2>5, <4>1 DEF PartialSums
    <3>2. ASSUME NEW m \in 1..Len(t), m-1 \in S PROVE m \in S
      <4>1. w[m] = w[m-1] * Byte + t[m] /\ t[m] = s[k + m - 1]
        BY <2>4, <2>5 DEF PartialSums
      <4>2. k - 1 + m \in 1..Len(s) /\ (k - 1 + m) - 1 = k - 1 + (m - 1) /\ k - 1 + m = k + m - 1
        BY <2>3, <2>4
      <4>3. u[k - 1 + m] = u[(k - 1 + m) - 1] * Byte + s[k - 1 + m]
        BY <1>1, <4>2 DEF PartialSums
      <4>4. w[m-1] = u[k - 1 + (m - 1)]
        BY <3>2
      <4>. QED
        BY <4>1, <4>2, <4>3, <4>4
    <3>. HIDE DEF S
    <3>3. ASSUME NEW n \in 0..Len(t), n \notin S PROVE FALSE
      <4>1. PICK m \in 1..n : m \notin S /\ \A j \in 0 .. m-1 : j \in S
        BY <3>1, <3>3, FirstOutside
      <4>2. m \in 1..Len(t)
        BY <4>1, <2>4
      <4>. QED
        BY <3>2, <4>1, <4>2
    <3>. QED
      BY <3>3 DEF S
  <2>7. Unpacked(t) = Unpacked(s)
    <3>1. Len(t) \in 0..Len(t) /\ k - 1 + Len(t) = Len(s)
      BY <2>3, <2>4
    <3>. QED
      BY <1>1, <2>5, <2>6, <3>1
  <2>8. Len(t) <= Len(s) /\ (Len(t) = Len(s) => k = 1) /\ (k # 1 => s[1] = 0)
    BY <2>3, <2>4
  <2>9. k = 1 => t = s
    <3>. SUFFICES ASSUME k = 1 PROVE t = s
      OBVIOUS
    <3>1. Len(t) = Len(s) /\ \A i \in 1..Len(s) : t[i] = s[i]
      BY <2>4
    <3>. QED
      BY <2>4, <3>1, SeqEqual
  <2>10. k = 1 => Len(t) = Len(s)
    BY <2>4
  <2>. QED
    BY <2>1, <2>4, <2>7, <2>8, <2>9, <2>10
<1>. QED
  BY <1>3, <1>4


LEMMA BytesOfSixteen ==
  ASSUME NEW v \in Nat, v < Power(4) * Power(4) * Power(4) * Power(4)
  PROVE  HasBytes(v, 16)
<1>. DEFINE y1 == Power(4)
<1>1. \A x \in Nat : x * y1 \in Nat
  BY PowerType
<1>2. PICK y2 \in Nat : y2 = y1 * y1
  BY <1>1, PowerType
<1>3. PICK y3 \in Nat : y3 = y2 * y1
  BY <1>1
<1>4. v < y3 * y1 /\ y1 \in Nat /\ y1 = 1 * y1
  BY <1>2, <1>3, PowerType
<1>5. PICK q : Quotients(q, v, 16)
  BY QuotientsExist
<1>6. ASSUME NEW k \in 0..12, NEW y \in Nat, q[k] < y * y1 PROVE q[k + 4] < y
  <2>. DEFINE r == [i \in 0..4 |-> q[k + i]]
  <2>1. Quotients(r, q[k], 4)
    <3>1. \A i \in 0..4 : q[k + i] \in Nat
      BY <1>5 DEF Quotients
    <3>2. \A i \in 1..4 : k + i \in 1..16 /\ (k + i) - 1 = k + (i - 1)
      OBVIOUS
    <3>3. \A i \in 1..4 : q[k + i] = q[k + (i - 1)] \div Byte
      BY <1>5, <3>2 DEF Quotients
    <3>4. r \in [0..4 -> Nat] /\ r[0] = q[k] /\ \A i \in 1..4 : r[i] = r[i-1] \div Byte
      BY <3>1, <3>3
    <3>. HIDE DEF r
    <3>. QED
      BY <3>4 DEF Quotients
  <2>2. q[k] \in Nat /\ r[4] = q[k + 4]
    BY <1>5 DEF Quotients
  <2>. HIDE DEF r
  <2>3. 4 \in Nat /\ (4 >= 4 => (r[4] < y <=> q[k] < y * Power(4)))
    BY <2>1, <2>2, QuotientBound
  <2>. QED
    BY <1>6, <2>2, <2>3
<1>. HIDE DEF y1
<1>7. q[0] = v
  BY <1>5 DEF Quotients
<1>8. q[4] < y3
  BY <1>4, <1>6, <1>7
<1>9. q[8] < y2
  BY <1>3, <1>6, <1>8
<1>10. q[12] < y1
  BY <1>2, <1>4, <1>6, <1>9
<1>11. q[16] < 1
  BY <1>4, <1>6, <1>10
<1>12. q[16] \in Nat
  BY <1>5 DEF Quotients
<1>13. q[16] = 0
  BY <1>11, <1>12
<1>. QED
  BY <1>5, <1>13 DEF HasBytes

\* A reader finds an integer at p: its type, its bytes and the place after them.
IntegerAt(buffer, p, type, bytes, v) ==
  LET c == Control(buffer, p) IN
  /\ c.type = type
  /\ SubSeq(buffer, c.next, c.next + c.size - 1) = bytes
  /\ Unpacked(bytes) = v
  /\ c.next + c.size = p + Len(ControlBytes(type, Len(bytes)) \o bytes)

LEMMA StrippedRead ==
  ASSUME NEW type \in 1..15, NEW n \in 1..16, n < Direct, NEW v \in Nat, HasBytes(v, n),
         NEW buffer \in Seq(Nat), NEW p,
         Holds(buffer, p, ControlBytes(type, Len(Stripped(Packed(v, n)))) \o Stripped(Packed(v, n)))
  PROVE  IntegerAt(buffer, p, type, Stripped(Packed(v, n)), v)
<1>. DEFINE s == Packed(v, n)
            bytes == Stripped(s)
            size == Len(bytes)
            e == ControlBytes(type, size)
            c == Control(buffer, p)
<1>. n \in Nat
  OBVIOUS
<1>1. s \in Seq(Nat) /\ Len(s) = n
  BY PackedType
<1>2. Unpacked(s) = v
  BY <1>1, ReadBack
<1>3. bytes \in Seq(Nat) /\ size \in Nat /\ size <= n /\ Unpacked(bytes) = v
  <2>. HIDE DEF s
  <2>1. /\ Stripped(s) \in Seq(Nat) /\ Len(Stripped(s)) <= Len(s)
        /\ Unpacked(Stripped(s)) = Unpacked(s)
    BY <1>1, StrippedSame
  <2>2. bytes \in Seq(Nat) /\ size <= n
    BY <1>1, <2>1
  <2>. HIDE DEF bytes
  <2>3. size \in Nat
    BY <2>2
  <2>. QED
    BY <1>2, <2>1, <2>2, <2>3 DEF bytes
<1>. HIDE DEF s, bytes
<1>4. Storable(size) /\ size \notin {ThresholdSize(2), ThresholdSize(3)} /\ SizeBytes(size) = 0
  <2>1. /\ Power(1) \in Nat /\ Power(1) > 0 /\ Power(2) \in Nat /\ Power(2) > 0
        /\ Power(3) \in Nat /\ Power(3) > 0
    BY PowerType
  <2>2. size < Direct
    BY <1>3, FieldSizes
  <2>. HIDE DEF size, e, c
  <2>3. SizeBytes(size) = 0
    BY <1>3, <2>2, SizeBytesRange
  <2>4. /\ ThresholdSize(1) = Direct /\ Direct \in Nat
        /\ ThresholdSize(2) = ThresholdSize(1) + Power(1)
        /\ ThresholdSize(3) = ThresholdSize(2) + Power(2)
        /\ ThresholdSize(4) = ThresholdSize(3) + Power(3)
    BY ThresholdValues, FieldSizes
  <2>5. size < ThresholdSize(2) /\ size < ThresholdSize(3) /\ size < ThresholdSize(4)
    BY SMTT(30), <1>3, <2>1, <2>2, <2>4
  <2>. QED
    BY SMTT(30), <1>3, <2>1, <2>3, <2>4, <2>5 DEF Storable
<1>5. e \in Seq(Nat) /\ Len(e) > 0
  <2>1. e \in Seq(Nat) /\ Len(e) = (IF type < 8 THEN 1 ELSE 2) + SizeBytes(size)
    BY <1>3, <1>4, ControlShape
  <2>. HIDE DEF e, size
  <2>. QED
    BY <1>4, <2>1
<1>6. /\ Holds(buffer, p, e) /\ Holds(buffer, p + Len(e), bytes)
      /\ Len(e \o bytes) = Len(e) + size
  <2>1. Holds(buffer, p, e \o bytes)
    BY DEF bytes, s
  <2>. HIDE DEF e
  <2>. QED
    BY <1>3, <1>5, <2>1, HoldsParts
<1>7. c.type = type /\ c.next = p + Len(e) /\ c.size = size
  <2>1. Holds(buffer, p, ControlBytes(type, size))
    BY <1>6
  <2>2. size \in Nat /\ Storable(size)
    BY <1>3, <1>4
  <2>. HIDE DEF size, e, c
  <2>3. /\ Control(buffer, p).type = type
        /\ Control(buffer, p).next = p + Len(ControlBytes(type, size))
        /\ Control(buffer, p).size = size <=> size \notin {ThresholdSize(2), ThresholdSize(3)}
    BY ONLY SMTT(60), <2>2, <2>1, SizesReadBack
  <2>. USE DEF e, c
  <2>. QED
    BY <1>4, <2>3
<1>. HIDE DEF c, e
<1>8. SubSeq(buffer, c.next, c.next + c.size - 1) = bytes
  <2>. DEFINE a == p + Len(e)
  <2>1. /\ a \in Nat \ {0} /\ a + size - 1 <= Len(buffer)
        /\ \A i \in 1..size : buffer[a + i - 1] = bytes[i]
    BY <1>6 DEF Holds
  <2>. HIDE DEF a
  <2>2. a + size \in Nat /\ a <= a + size /\ a + size <= Len(buffer) + 1
        /\ (a + size) - 1 = a + size - 1 /\ (a + size) - a = size
    BY <1>3, <2>1
  <2>3. /\ SubSeq(buffer, a, (a + size) - 1) \in Seq(Nat)
        /\ Len(SubSeq(buffer, a, (a + size) - 1)) = (a + size) - a
        /\ \A i \in 1 .. (a + size) - a : SubSeq(buffer, a, (a + size) - 1)[i] = buffer[a + i - 1]
    BY <2>1, <2>2, CutOut
  <2>. DEFINE sub == SubSeq(buffer, a, a + size - 1)
  <2>4. sub \in Seq(Nat) /\ Len(sub) = size /\ \A i \in 1..size : sub[i] = bytes[i]
    BY <2>1, <2>2, <2>3
  <2>. HIDE DEF sub
  <2>5. sub = bytes
    BY <1>3, <2>4, SeqEqual
  <2>. QED
    BY <1>7, <2>5 DEF sub, a
<1>9. c.next + c.size = p + Len(e \o bytes)
  <2>1. p \in Nat /\ Len(e) \in Nat
    BY <1>5, <1>6 DEF Holds
  <2>. QED
    BY <1>3, <1>6, <1>7, <2>1
<1>. QED
  BY <1>3, <1>7, <1>8, <1>9 DEF IntegerAt, bytes, s, c, e


\* An unsigned integer is read as it was written, with its type, if it has no more
\* bytes than its type: the leading zeros that the serializer strips do not count.
\* (A control byte has room for the sizes of integers: 16 < 29 in the code.)
THEOREM UnsignedReadBack ==
  ASSUME NEW type \in {"uint16", "uint32", "uint64", "uint128"}, NEW value \in Nat, 16 < Direct,
         IF type \in {"uint16", "uint32"} THEN Fits(type, value)
         ELSE value < Power(4) * Power(4) * Power(4) * Power(4),
         NEW buffer \in Seq(Nat), NEW p, Holds(buffer, p, EncodeUnsigned(type, value))
  PROVE  LET c == Control(buffer, p) IN
         /\ c.type = TypeNumber[type]
         /\ Unpacked(SubSeq(buffer, c.next, c.next + c.size - 1)) = value
         /\ c.next + c.size = p + Len(EncodeUnsigned(type, value))
<1>. DEFINE n == IF type \in {"uint16", "uint32"} THEN 4 ELSE 16
            t == TypeNumber[type]
            bytes == Stripped(Packed(value, n))
<1>1. EncodeUnsigned(type, value) = ControlBytes(t, Len(bytes)) \o bytes
  BY DEF EncodeUnsigned
<1>2. t \in 1..15
  BY DEF TypeNumber
<1>3. n \in 1..16 /\ n < Direct /\ n \in Nat
  BY FieldSizes
<1>4. HasBytes(value, n)
  <2>1. CASE type = "uint16"
    <3>1. value < Power(2)
      BY <2>1 DEF Fits
    <3>2. Power(2) <= Power(4)
      <4>1. /\ Power(2) = Byte * Byte /\ Power(3) = Power(2) * Byte /\ Power(4) = Power(3) * Byte
            /\ Power(2) \in Nat /\ Power(3) \in Nat
        BY PowerType DEF Power
      <4>2. 1 * Power(2) <= Byte * Power(2) /\ 1 * Power(3) <= Byte * Power(3)
        BY <4>1, ByteType, TimesMonotonic
      <4>. QED
        BY SMTT(30), <4>1, <4>2, ByteType, PowerType
    <3>3. value < Power(4)
      BY <3>1, <3>2, PowerType
    <3>. QED
      BY <2>1, <3>3, BytesOfSmall
  <2>2. CASE type = "uint32"
    <3>1. value < Power(4)
      BY <2>2 DEF Fits
    <3>. QED
      BY <2>2, <3>1, BytesOfSmall
  <2>3. CASE type \in {"uint64", "uint128"}
    BY <2>3, BytesOfSixteen
  <2>. QED
    BY <2>1, <2>2, <2>3
<1>. HIDE DEF n, t
<1>5. IntegerAt(buffer, p, t, bytes, value)
  <2>1. Holds(buffer, p, ControlBytes(t, Len(bytes)) \o bytes)
    BY <1>1
  <2>. QED
    BY <1>2, <1>3, <1>4, <2>1, StrippedRead
<1>. QED
  BY <1>1, <1>5 DEF IntegerAt, t


\* The first of four bytes.
LEMMA TopByte ==
  ASSUME NEW v \in Nat, v < Power(4), NEW y \in Nat
  PROVE  Packed(v, 4)[1] \in Nat /\ (Packed(v, 4)[1] < y <=> v < y * Power(3))
<1>. 4 \in Nat
  OBVIOUS
<1>1. PICK q : Quotients(q, v, 4) /\ Packed(v, 4) = [i \in 1..4 |-> q[4-i] % Byte]
  BY PackedBytes
<1>2. q[3] \in Nat
  BY <1>1 DEF Quotients
<1>3. Byte * Power(3) = Power(4)
  <2>1. Power(4) = Power(3) * Byte /\ Power(3) \in Nat
    BY PowerType DEF Power
  <2>. QED
    BY <2>1, ByteType
<1>4. \A z \in Nat : q[3] < z <=> v < z * Power(3)
  BY <1>1, QuotientBound
<1>5. q[3] < Byte
  BY <1>3, <1>4, ByteType
<1>6. q[3] % Byte = q[3]
  BY <1>2, <1>5, ByteType
<1>7. Packed(v, 4)[1] = q[3]
  BY <1>1, <1>6
<1>. QED
  BY <1>2, <1>4, <1>7

\* A signed integer is read as it was written if it has 32 bits (four bytes), of
\* both signs.
THEOREM SignedReadBack ==
  ASSUME NEW value \in Int, -Power(4) <= 2 * value, 2 * value < Power(4), Byte % 2 = 0, 4 < Direct,
         NEW buffer \in Seq(Nat), NEW p, Holds(buffer, p, EncodeInt32(value))
  PROVE  LET c == Control(buffer, p) IN
         /\ c.type = TypeNumber.int32
         /\ Signed(SubSeq(buffer, c.next, c.next + c.size - 1)) = value
         /\ c.next + c.size = p + Len(EncodeInt32(value))
<1>. DEFINE v == value % Power(4)
            s == Packed(v, 4)
            bytes == Stripped(s)
            t == TypeNumber.int32
<1>. 4 \in Nat
  OBVIOUS
<1>1. Power(4) \in Nat /\ Power(4) > 0 /\ Power(3) \in Nat
  BY PowerType
<1>2. v \in Nat /\ v < Power(4) /\ v = IF value >= 0 THEN value ELSE value + Power(4)
  <2>. DEFINE w == Power(4)
  <2>1. w \in Nat \ {0} /\ -w <= value /\ value < w
    BY <1>1
  <2>. HIDE DEF w
  <2>2. value % w = IF value >= 0 THEN value ELSE value + w
    BY <2>1, ModNegative
  <2>3. -w < value
    BY <1>1, <2>1 DEF w
  <2>. QED
    BY <2>1, <2>2, <2>3 DEF w
<1>3. EncodeInt32(value) = ControlBytes(t, Len(bytes)) \o bytes
  BY DEF EncodeInt32
<1>4. t \in 1..15
  BY DEF TypeNumber
<1>. HIDE DEF v, t
<1>5. HasBytes(v, 4)
  BY <1>2, BytesOfSmall
<1>6. IntegerAt(buffer, p, t, bytes, v)
  <2>1. Holds(buffer, p, ControlBytes(t, Len(bytes)) \o bytes)
    BY <1>3
  <2>2. 4 \in 1..16 /\ 4 < Direct
    OBVIOUS
  <2>. QED
    BY <1>2, <1>4, <1>5, <2>1, <2>2, StrippedRead
<1>7. s \in Seq(Nat) /\ Len(s) = 4
  BY <1>2, PackedType
<1>8. Unpacked(bytes) = v
  BY <1>6 DEF IntegerAt
<1>9. s[1] \in Nat /\ (2 * s[1] >= Byte <=> value < 0)
  <2>1. PICK h \in Nat : Byte = 2 * h
    BY ByteType
  <2>2. s[1] \in Nat /\ (s[1] < h <=> v < h * Power(3))
    BY <1>2, TopByte
  <2>3. Power(4) = 2 * (h * Power(3)) /\ h * Power(3) \in Nat
    <3>1. Power(4) = Power(3) * Byte
      BY <1>1 DEF Power
    <3>. QED
      BY <1>1, <2>1, <3>1
  <2>4. v < h * Power(3) <=> value >= 0
    <3>. DEFINE half == h * Power(3)
    <3>1. half \in Nat /\ Power(4) = 2 * half
      BY <2>3
    <3>. HIDE DEF half
    <3>2. v < half <=> value >= 0
      BY <1>2, <3>1
    <3>. QED
      BY <3>2 DEF half
  <2>. QED
    BY <2>1, <2>2, <2>4
<1>10. Signed(bytes) = value
  <2>. HIDE DEF s
  <2>1. bytes \in Seq(Nat) /\ (Len(s) > 0 /\ s[1] # 0 => bytes = s) /\ (Len(bytes) = Len(s) => bytes = s)
    BY <1>7, StrippedSame
  <2>. HIDE DEF bytes
  <2>2. CASE value < 0
    <3>1. bytes = s
      BY <1>7, <1>9, <2>1, <2>2, ByteType
    <3>2. Signed(bytes) = v - Power(4)
      BY <1>7, <1>8, <1>9, <2>2, <3>1 DEF Signed
    <3>. QED
      BY <1>1, <1>2, <2>2, <3>2
  <2>3. CASE value >= 0
    <3>1. ~(Len(bytes) = 4 /\ 2 * bytes[1] >= Byte)
      BY <1>7, <1>9, <2>1, <2>3
    <3>2. Signed(bytes) = v
      BY <1>8, <3>1 DEF Signed
    <3>. QED
      BY <1>2, <2>3, <3>2
  <2>. QED
    BY <2>2, <2>3
<1>. QED
  BY <1>3, <1>6, <1>10 DEF IntegerAt, t
===============================================================================
