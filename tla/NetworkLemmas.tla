----------------------------- MODULE NetworkLemmas -----------------------------
(***************************************************************************)
(* Facts about the places of records - what a place is, when two paths     *)
(* share one, and which places lie below another -, about mask lengths and *)
(* payloads, and the least number of a set, which stands in for induction. *)
(***************************************************************************)
EXTENDS MaskLengths, Payloads, SequencesExt, SequenceTheorems, WellFoundedInduction, TLAPS

\* The place n bits down the path to an address.
LEMMA CutProperties ==
  ASSUME NEW a \in Address, NEW n \in 1..Width
  PROVE  /\ Cut(a, n) \in Prefix
         /\ Cut(a, n) \in Seq(Bit)
         /\ Len(Cut(a, n)) = n
         /\ \A i \in 1..n : Cut(a, n)[i] = a[i]
<1>1. Width \in Nat \ {0}
  BY WidthAssumption
<1>2. \A i \in 1..n : a[i] \in Bit
  BY <1>1 DEF Address
<1>3. /\ Cut(a, n) \in Seq(Bit)
      /\ Len(Cut(a, n)) = n
      /\ \A i \in 1..n : Cut(a, n)[i] = a[i]
  BY <1>1, <1>2, SubSeqProperties DEF Cut
<1>4. Cut(a, n) \in [1..n -> Bit]
  BY <1>3, LenProperties
<1>. QED
  BY <1>3, <1>4 DEF Prefix

\* Two paths share the place n bits down exactly when their first n bits agree.
LEMMA CutEqual ==
  ASSUME NEW a \in Address, NEW b \in Address, NEW n \in 1..Width
  PROVE  Cut(a, n) = Cut(b, n) <=> \A i \in 1..n : a[i] = b[i]
<1>1. ASSUME \A i \in 1..n : a[i] = b[i]
      PROVE  Cut(a, n) = Cut(b, n)
  BY <1>1, CutProperties, SeqEqual
<1>. QED
  BY <1>1, CutProperties

\* The path determines the depth of its places.
LEMMA CutDepth ==
  ASSUME NEW a \in Address, NEW b \in Address, NEW m \in 1..Width, NEW n \in 1..Width,
         Cut(a, m) = Cut(b, n)
  PROVE  m = n
BY CutProperties

\* Every place lies on the path to some address.
LEMMA PrefixIsCut ==
  ASSUME NEW p \in Prefix
  PROVE  \E a \in Address, n \in 1..Width : p = Cut(a, n) /\ Len(p) = n
<1>1. PICK n \in 1..Width : p \in [1..n -> Bit]
  BY DEF Prefix
<1> DEFINE a == [i \in 1..Width |-> IF i \in 1..n THEN p[i] ELSE 0]
<1>2. a \in Address
  BY <1>1 DEF Address, Bit
<1>3. n \in Nat /\ p \in Seq(Bit) /\ Len(p) = n
  BY <1>1, WidthAssumption
<1>4. \A i \in 1..n : a[i] = p[i]
  BY <1>1, WidthAssumption
<1>5. p = Cut(a, n)
  BY ZenonT(30), <1>2, <1>3, <1>4, CutProperties, SeqEqual
<1>. QED
  BY <1>2, <1>3, <1>5

\* The places of a node's two records are one bit further down.
LEMMA CutChildren ==
  ASSUME NEW a \in Address, NEW b \in Address, NEW m \in 1..Width, NEW n \in 1..Width
  PROVE  Cut(a, m) \in Children(Cut(b, n)) <=> m = n + 1 /\ Cut(a, n) = Cut(b, n)
<1>. DEFINE p == Cut(b, n)
<1>1. \A c \in Bit : /\ Append(p, c) \in Seq(Bit)
                     /\ Len(Append(p, c)) = n + 1
                     /\ \A i \in 1..n : Append(p, c)[i] = b[i]
                     /\ Append(p, c)[n+1] = c
  BY CutProperties
<1>2. ASSUME NEW c \in Bit, Cut(a, m) = Append(p, c)
      PROVE  m = n + 1 /\ Cut(a, n) = p
  <2>1. m = n + 1
    BY <1>1, <1>2, CutProperties
  <2>2. \A i \in 1..n : a[i] = b[i]
    BY <1>1, <1>2, <2>1, CutProperties
  <2>. QED
    BY <2>1, <2>2, CutEqual
<1>3. ASSUME m = n + 1, Cut(a, n) = p
      PROVE  Cut(a, m) = Append(p, a[m])
  <2>1. a[m] \in Bit
    BY DEF Address
  <2>2. \A i \in 1..n : a[i] = b[i]
    BY <1>3, CutEqual
  <2>3. \A i \in 1..m : Cut(a, m)[i] = Append(p, a[m])[i]
    BY <1>1, <1>3, <2>1, <2>2, CutProperties
  <2>. QED
    BY <1>1, <1>3, <2>1, <2>3, CutProperties, SeqEqual
<1>4. \A c : c = a[m] => c \in Bit
  BY DEF Address
<1>. QED
  BY <1>2, <1>3, <1>4 DEF Children

\* A place is strictly below another on the same path only.
LEMMA CutBelow ==
  ASSUME NEW a \in Address, NEW b \in Address, NEW m \in 1..Width, NEW n \in 1..Width
  PROVE  IsStrictPrefix(Cut(b, n), Cut(a, m)) <=> n < m /\ Cut(a, n) = Cut(b, n)
<1>. DEFINE s == Cut(b, n)
            t == Cut(a, m)
<1>1. /\ s \in Seq(Bit) /\ Len(s) = n /\ t \in Seq(Bit) /\ Len(t) = m
  BY CutProperties
<1>2. SubSeq(s, 1, Len(s)) = s
  BY <1>1, SubSeqFull
<1>3. n <= m => SubSeq(t, 1, n) = Cut(a, n)
  <2>. SUFFICES ASSUME n <= m PROVE SubSeq(t, 1, n) = Cut(a, n)
    OBVIOUS
  <2>0. \A i \in 1..m : t[i] = a[i]
    BY CutProperties
  <2>1. \A i \in 1..n : t[i] = a[i] /\ t[i] \in Bit
    <3>. HIDE DEF t
    <3>. QED
      BY <2>0, WidthAssumption DEF Address
  <2>2. /\ SubSeq(t, 1, n) \in Seq(Bit)
        /\ Len(SubSeq(t, 1, n)) = n
        /\ \A i \in 1..n : SubSeq(t, 1, n)[i] = a[i]
    BY <2>1, SubSeqProperties
  <2>. QED
    BY <2>2, CutProperties, SeqEqual
<1>4. IsPrefix(s, t) <=> n <= m /\ s = Cut(a, n)
  BY <1>1, <1>2, <1>3 DEF IsPrefix
<1>5. n = m => t = Cut(a, n)
  OBVIOUS
<1>. QED
  BY <1>1, <1>4, <1>5 DEF IsStrictPrefix

-------------------------------------------------------------------------------
(* Mask lengths and payloads *)

\* Every mask length, whatever it wrapped to, selects a record of the tree.
LEMMA DepthType ==
  ASSUME NEW mask \in MaskLength
  PROVE  Depth(mask) \in 1..Width
BY WidthAssumption, MaskAssumption DEF MaskLength, Depth, LastBit

\* Within the tree a mask length is the depth of its record.
LEMMA DepthInTree ==
  ASSUME NEW mask \in 1..Width
  PROVE  Depth(mask) = mask
BY WidthAssumption, MaskAssumption DEF Depth, LastBit

\* Merging two hashes gives a hash.
LEMMA MergedType ==
  ASSUME NEW from, NEW into, Mergeable(from, into)
  PROVE  Merged(from, into) \in Hash
<1>1. PICK F \in SUBSET Fields, I \in SUBSET Fields :
        from \in [F -> Values] /\ into \in [I -> Values]
  BY DEF Mergeable, Hash
<1>2. Merged(from, into) \in [I \cup F -> Values]
  BY <1>1 DEF Merged, MergeHash
<1>. QED
  BY <1>2 DEF Hash

-------------------------------------------------------------------------------
(* Least and greatest numbers *)

LEMMA Least ==
  ASSUME NEW S \in SUBSET Nat, S # {}
  PROVE  \E m \in S : \A k \in S : m <= k
<1>. DEFINE R == OpToRel(<, Nat)
<1>1. IsWellFoundedOn(R, Nat)
  BY NatLessThanWellFounded
<1>. HIDE DEF R
<1>2. PICK m \in S : \A k \in S : ~(<<k, m>> \in R)
  BY <1>1, WFMin
<1>3. ASSUME NEW k \in S PROVE m <= k
  <2>1. ~(k < m)
    BY <1>2 DEF R, OpToRel
  <2>. QED
    BY <2>1
<1>. QED
  BY <1>3

LEMMA Greatest ==
  ASSUME NEW S \in SUBSET (1..Width), S # {}
  PROVE  \E m \in S : \A k \in S : k <= m
<1>. DEFINE T == {Width - k : k \in S}
<1>1. T \in SUBSET Nat /\ T # {}
  BY WidthAssumption
<1>2. PICK t \in T : \A u \in T : t <= u
  <2>. HIDE DEF T
  <2>. QED
    BY <1>1, Least
<1>3. PICK m \in S : t = Width - m
  OBVIOUS
<1>4. ASSUME NEW k \in S PROVE k <= m
  <2>1. Width - k \in T
    OBVIOUS
  <2>2. Width - m <= Width - k
    <3>. HIDE DEF T
    <3>. QED
      BY <1>2, <1>3, <2>1
  <2>3. k \in Nat /\ m \in Nat /\ Width \in Nat
    BY WidthAssumption
  <2>. QED
    BY <2>2, <2>3
<1>. QED
  BY <1>4

\* The order of addresses is strict.
LEMMA BeforeIsStrict ==
  ASSUME NEW a \in Address, NEW b \in Address, Before(a, b)
  PROVE  ~Before(b, a) /\ a # b
<1>1. PICK i \in 1..Width : a[i] < b[i] /\ \A j \in 1..i-1 : a[j] = b[j]
  BY DEF Before
<1>2. \A j \in 1..Width : a[j] \in Int /\ b[j] \in Int
  BY DEF Address, Bit
<1>3. ASSUME Before(b, a) PROVE FALSE
  <2>1. PICK k \in 1..Width : b[k] < a[k] /\ \A j \in 1..k-1 : b[j] = a[j]
    BY <1>3 DEF Before
  <2>2. ~(i < k) /\ ~(k < i) /\ i # k
    BY <1>1, <1>2, <2>1, WidthAssumption
  <2>. QED
    BY <2>2, WidthAssumption
<1>. QED
  BY <1>1, <1>2, <1>3

\* A network is its two halves, and the left half comes before the right one.
LEMMA Halves ==
  ASSUME NEW bytes \in Address, NEW n \in 0 .. Width-1, bytes[n+1] = 0, NEW a \in Address
  PROVE  /\ Covers(bytes, n, a)
              <=> Covers(bytes, n+1, a) \/ Covers(SetBit(bytes, n+1), n+1, a)
         /\ \A b \in Address :
              Covers(bytes, n+1, a) /\ Covers(SetBit(bytes, n+1), n+1, b) => Before(a, b)
<1>1. n+1 \in 1..Width /\ n \in Nat /\ a[n+1] \in Bit
  BY WidthAssumption DEF Address
<1>2. /\ SetBit(bytes, n+1)[n+1] = 1
      /\ \A i \in 1..n : SetBit(bytes, n+1)[i] = bytes[i]
  BY <1>1, WidthAssumption DEF SetBit, Address
<1>3. \A b : Covers(bytes, n+1, b) <=> Covers(bytes, n, b) /\ b[n+1] = 0
  BY <1>1 DEF Covers
<1>4. \A b : Covers(SetBit(bytes, n+1), n+1, b) <=> Covers(bytes, n, b) /\ b[n+1] = 1
  BY <1>1, <1>2 DEF Covers
<1>5. ASSUME NEW b \in Address,
             Covers(bytes, n+1, a), Covers(SetBit(bytes, n+1), n+1, b)
      PROVE  Before(a, b)
  <2>1. a[n+1] < b[n+1]
    BY <1>3, <1>4, <1>5
  <2>2. \A i \in 1 .. (n+1)-1 : a[i] = b[i]
    BY <1>1, <1>3, <1>4, <1>5 DEF Covers
  <2>. QED
    BY <1>1, <2>1, <2>2 DEF Before
<1>. QED
  BY <1>1, <1>3, <1>4, <1>5 DEF Bit

===============================================================================
