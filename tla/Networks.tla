------------------------------- MODULE Networks -------------------------------
(***************************************************************************)
(* IP addresses and networks as the tree sees them.  An address is a       *)
(* sequence of Width bits, most significant first (32 or 128 in the code); *)
(* a network is the pair of its first address and its mask length; the     *)
(* place of a record in the tree is the bit string that leads to it from   *)
(* the root.                                                               *)
(***************************************************************************)
EXTENDS Integers, Sequences

CONSTANT Width             \* max_depth0 + 1: 32 or 128

ASSUME WidthAssumption == Width \in Nat \ {0}

Bit == {0, 1}

Address == [1..Width -> Bit]

\* The places a record can have: the strings of 1 to Width bits.  (The root
\* node has no record of its own that leads to it.)
Prefix == UNION {[1..n -> Bit] : n \in 1..Width}

\* The place n bits down the path to address a.
Cut(a, n) == SubSeq(a, 1, n)

\* The two records of the node that the record at p points to, and the other
\* record of the node that holds the record at p.
Children(p) == {Append(p, b) : b \in Bit}
Sibling(p) == [p EXCEPT ![Len(p)] = 1 - @]

\* right_bytes: the same address with the n-th bit set.
SetBit(a, n) == [a EXCEPT ![n] = 1]

\* Networks are handed to the tree by their first address.
Network == {net \in Address \X (0..Width) :
              \A i \in net[2]+1 .. Width : net[1][i] = 0}

\* Address a belongs to the network of the first mask bits of bytes.
Covers(bytes, mask, a) == \A i \in 1..mask : a[i] = bytes[i]

\* Numeric order of addresses.
Before(a, b) == \E i \in 1..Width : a[i] < b[i] /\ \A j \in 1..i-1 : a[j] = b[j]
===============================================================================
