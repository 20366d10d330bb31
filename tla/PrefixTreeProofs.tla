---------------------------- MODULE PrefixTreeProofs ----------------------------
(***************************************************************************)
(* Theorems about the tree of records by place, for every width, set of    *)
(* payloads, set of inserted networks and option of the tree:              *)
(*                                                                         *)
(*  - inserts keep it well formed: TypeOK and OneRecordPerAddress are      *)
(*    invariants of Spec, and of GapSpec;                                  *)
(*  - it implements the map it promises, ImplementsMap, and between inserts*)
(*    is the smallest tree of that map, CanonicalWhenIdle: both for        *)
(*    GapSpec, if callers insert no network of mask length 0.              *)
(***************************************************************************)
EXTENDS PrefixTree, NetworkLemmas

\* Both specifications take the same kinds of step.
LEMMA GapNextIsNext == GapNext => Next
BY DEF GapNext, Next

\* The current call has found its record at the depth of its mask.
LEMMA CurrentProperties ==
  ASSUME TypeOK, Running
  PROVE  /\ Current \in Call
         /\ Tail(calls) \in Seq(Call)
         /\ Depth(Current.mask) \in 1..Width
         /\ Place(Current) = Cut(Current.bytes, Depth(Current.mask))
         /\ Place(Current) \in Prefix
<1>1. Current \in Call /\ Tail(calls) \in Seq(Call)
  BY HeadTailProperties DEF TypeOK, Running, Current
<1>2. Depth(Current.mask) \in 1..Width
  BY <1>1, DepthType DEF Call
<1>. QED
  BY <1>1, <1>2, CutProperties DEF Place, Call

\* What the current call would store is a payload.
LEMMA NewDataType ==
  ASSUME TypeOK, Running, ~Croaks
  PROVE  NewData \in Data
<1>1. CASE Merges
  BY <1>1, MergedType DEF Croaks, NewData, Data
<1>2. CASE ~Merges
  BY <1>2, CurrentProperties DEF NewData, Call
<1>. QED
  BY <1>1, <1>2

\* What a new node's records hold is no node.
LEMMA NewNodeType == ASSUME NEW old PROVE NewNode(old) \in Leaf
BY DEF NewNode, Leaf

-------------------------------------------------------------------------------
(* Type correctness *)

LEMMA TypeOKInit == Init => TypeOK
<1>. SUFFICES ASSUME Init PROVE TypeOK
  OBVIOUS
<1>1. record \in [Prefix -> Leaf \cup {Node, Absent}]
  BY DEF Init, Leaf
<1>2. calls \in Seq(Call)
  BY DEF Init
<1>. QED
  BY <1>1, <1>2 DEF TypeOK

LEMMA TypeOKNext == TypeOK /\ [Next]_vars => TypeOK'
<1>. SUFFICES ASSUME TypeOK, [Next]_vars PROVE TypeOK'
  OBVIOUS
<1>. USE DEF TypeOK
<1>1. ASSUME NEW net \in Insertable, NEW data \in Inputs,
             InsertNetwork(net[1], net[2], data)
      PROVE  TypeOK'
  <2>. DEFINE new == [bytes |-> net[1], mask |-> net[2], data |-> data,
                      merge |-> MergeRecordCollisions]
  <2>1. new \in Call
    BY TreeAssumption, MaskAssumption, WidthAssumption DEF Network, Call, MaskLength
  <2>. QED
    BY <1>1, <2>1 DEF InsertNetwork
<1>2. CASE MakeNextNode
  <2>1. \A old : NewNode(old) \in Leaf \cup {Node, Absent}
    BY NewNodeType
  <2>2. record' \in [Prefix -> Leaf \cup {Node, Absent}]
    BY <1>2, <2>1 DEF MakeNextNode
  <2>. QED
    BY <1>2, <2>2 DEF MakeNextNode
<1>3. CASE MergeIntoNode
  <2>. DEFINE left == [Current EXCEPT !.mask = @ + 1]
              right == [left EXCEPT !.bytes = SetBit(@, left.mask)]
  <2>0. Current \in Call /\ Tail(calls) \in Seq(Call)
    BY <1>3, CurrentProperties DEF MergeIntoNode, Found
  <2>1. Current.mask \in MaskLength /\ ~(Current.mask >= Width)
    BY <1>3, <2>0 DEF MergeIntoNode, Croaks, Call
  <2>2. left \in Call
    BY <2>0, <2>1, MaskAssumption, WidthAssumption DEF Call, MaskLength
  <2>3. SetBit(left.bytes, left.mask) \in Address
    BY <2>2 DEF SetBit, Call, Address, Bit
  <2>4. right \in Call
    BY <2>2, <2>3 DEF Call
  <2>5. <<left, right>> \in Seq(Call)
    BY <2>2, <2>4
  <2>6. <<left, right>> \o Tail(calls) \in Seq(Call)
    BY <2>0, <2>5, ConcatProperties
  <2>. QED
    BY <1>3, <2>6 DEF MergeIntoNode
<1>4. CASE InsertIntoParent
  <2>. DEFINE parent == [Current EXCEPT !.mask = ParentMask(@), !.data = NewData,
                                        !.merge = FALSE]
  <2>1. Current \in Call /\ Tail(calls) \in Seq(Call) /\ NewData \in Data
    BY <1>4, CurrentProperties, NewDataType DEF InsertIntoParent, Found
  <2>2. ParentMask(Current.mask) \in MaskLength
    BY <2>1, MaskAssumption DEF ParentMask, Call, MaskLength
  <2>3. parent \in Call
    BY <2>1, <2>2 DEF Call
  <2>4. <<parent>> \o Tail(calls) \in Seq(Call)
    BY <2>1, <2>3, ConcatProperties
  <2>. QED
    BY <1>4, <2>4 DEF InsertIntoParent
<1>5. CASE SetRecord
  <2>1. NewData \in Data /\ Tail(calls) \in Seq(Call)
    BY <1>5, CurrentProperties, NewDataType DEF SetRecord, Found
  <2>2. record' \in [Prefix -> Leaf \cup {Node, Absent}]
    BY <1>5, <2>1 DEF SetRecord, Leaf
  <2>. QED
    BY <1>5, <2>1, <2>2 DEF SetRecord
<1>6. CASE Croak
  BY <1>6 DEF Croak
<1>7. CASE UNCHANGED vars
  BY <1>7 DEF vars
<1>. QED
  BY <1>1, <1>2, <1>3, <1>4, <1>5, <1>6, <1>7 DEF Next, Step

\* The records and the pending calls always have their types: in particular no
\* mask length leaves the range of a uint8_t.
THEOREM TypeCorrect == Spec => []TypeOK
BY TypeOKInit, TypeOKNext, PTL DEF Spec

-------------------------------------------------------------------------------
(* Every address has one record *)

\* Only the place of its record on the path of an address is empty or data.
LEMMA LeafIsRecord ==
  ASSUME NEW a \in Address, NEW n \in 1..Width, RecordAt(a, n),
         NEW m \in 1..Width, record[Cut(a, m)] \in Leaf
  PROVE  m = n
<1>1. Node \notin Leaf /\ Absent \notin Leaf
  BY TreeAssumption DEF Leaf
<1>2. m \in Nat /\ n \in Nat
  BY WidthAssumption
<1>3. ~(m < n) /\ ~(n < m)
  BY <1>1, <1>2 DEF RecordAt
<1>. QED
  BY <1>2, <1>3

\* At and above the record of an address its path exists.
LEMMA PresentIsAbove ==
  ASSUME NEW a \in Address, NEW n \in 1..Width, RecordAt(a, n),
         NEW m \in 1..Width, record[Cut(a, m)] # Absent
  PROVE  m <= n
BY WidthAssumption DEF RecordAt

LEMMA OneRecordInit == Init => OneRecordPerAddress
<1>. SUFFICES ASSUME Init, NEW a \in Address
              PROVE  RecordAt(a, 1)
  BY WidthAssumption DEF OneRecordPerAddress
<1>1. \A m \in 1..Width : record[Cut(a, m)] = IF m = 1 THEN Empty ELSE Absent
  BY CutProperties DEF Init
<1>. QED
  BY <1>1, WidthAssumption DEF RecordAt, Leaf

\* What making a node does to the records on the path of an address.
LEMMA MakeNextNodeAt ==
  ASSUME TypeOK, MakeNextNode
  PROVE  \E n \in 1 .. Depth(Current.mask) - 1 :
           /\ n \in 1 .. Width-1
           /\ record[Cut(Current.bytes, n)] \in Leaf
           /\ \A a \in Address, m \in 1..Width :
                record'[Cut(a, m)] = IF Cut(a, n) # Cut(Current.bytes, n) THEN record[Cut(a, m)]
                                     ELSE IF m = n THEN Node
                                     ELSE IF m = n+1 THEN record[Cut(Current.bytes, n)]
                                     ELSE record[Cut(a, m)]
<1>1. Running /\ Current \in Call /\ Depth(Current.mask) \in 1..Width
  BY CurrentProperties DEF MakeNextNode
<1>. DEFINE bytes == Current.bytes
<1>2. PICK n \in 1 .. Depth(Current.mask) - 1 :
        /\ record[Cut(bytes, n)] \in Leaf
        /\ record' = [q \in Prefix |-> IF q = Cut(bytes, n) THEN Node
                                       ELSE IF q \in Children(Cut(bytes, n))
                                            THEN NewNode(record[Cut(bytes, n)])
                                       ELSE record[q]]
  BY DEF MakeNextNode
<1>3. bytes \in Address /\ n \in 1..Width /\ n \in 1 .. Width-1
  BY <1>1, <1>2, WidthAssumption DEF Call
<1>. HIDE DEF bytes
<1>4. NewNode(record[Cut(bytes, n)]) = record[Cut(bytes, n)]
  BY <1>2 DEF NewNode, Leaf
<1>5. ASSUME NEW a \in Address, NEW m \in 1..Width
      PROVE  record'[Cut(a, m)] = IF Cut(a, n) # Cut(bytes, n) THEN record[Cut(a, m)]
                                  ELSE IF m = n THEN Node
                                  ELSE IF m = n+1 THEN record[Cut(bytes, n)]
                                  ELSE record[Cut(a, m)]
  <2>1. record'[Cut(a, m)] =
          IF Cut(a, m) = Cut(bytes, n) THEN Node
          ELSE IF Cut(a, m) \in Children(Cut(bytes, n)) THEN record[Cut(bytes, n)]
          ELSE record[Cut(a, m)]
    BY <1>2, <1>4, CutProperties
  <2>2. Cut(a, m) = Cut(bytes, n) => m = n
    BY <1>3, CutDepth
  <2>3. Cut(a, m) \in Children(Cut(bytes, n)) <=> m = n+1 /\ Cut(a, n) = Cut(bytes, n)
    BY <1>3, CutChildren
  <2>. QED
    BY <1>3, <2>1, <2>2, <2>3, WidthAssumption
<1>. QED
  BY <1>2, <1>3, <1>5 DEF bytes

\* Making a node moves the record of every address below it one bit down.
LEMMA MakeNextNodeMoves ==
  ASSUME TypeOK, MakeNextNode, NEW a \in Address, NEW k \in 1..Width, RecordAt(a, k)
  PROVE  \E m \in 1..Width : RecordAt(a, m)' /\ record'[Cut(a, m)] = record[Cut(a, k)]
<1>. DEFINE bytes == Current.bytes
<1>1. PICK n \in 1 .. Width-1 :
        /\ record[Cut(bytes, n)] \in Leaf
        /\ \A m \in 1..Width :
             record'[Cut(a, m)] = IF Cut(a, n) # Cut(bytes, n) THEN record[Cut(a, m)]
                                  ELSE IF m = n THEN Node
                                  ELSE IF m = n+1 THEN record[Cut(bytes, n)]
                                  ELSE record[Cut(a, m)]
  BY MakeNextNodeAt
<1>2. n \in 1..Width /\ n+1 \in 1..Width /\ n \in Nat
  BY WidthAssumption
<1>. HIDE DEF bytes
<1>3. CASE Cut(a, n) = Cut(bytes, n)
  <2>1. k = n
    BY <1>1, <1>2, <1>3, LeafIsRecord
  <2>2. \A m \in 1..Width : record'[Cut(a, m)] = IF m = n THEN Node
                                                 ELSE IF m = n+1 THEN record[Cut(a, k)]
                                                 ELSE record[Cut(a, m)]
    BY <1>1, <1>3, <2>1
  <2>3. record'[Cut(a, n+1)] = record[Cut(a, k)] /\ record[Cut(a, k)] \in Leaf
    BY <1>2, <2>2 DEF RecordAt
  <2>4. \A m \in 1 .. (n+1)-1 : record'[Cut(a, m)] = Node
    BY <1>2, <2>1, <2>2, WidthAssumption DEF RecordAt
  <2>5. \A m \in (n+1)+1 .. Width : record'[Cut(a, m)] = Absent
    BY <1>2, <2>1, <2>2, WidthAssumption DEF RecordAt
  <2>6. RecordAt(a, n+1)'
    BY <2>3, <2>4, <2>5 DEF RecordAt
  <2>. QED
    BY <1>2, <2>3, <2>6
<1>4. CASE Cut(a, n) # Cut(bytes, n)
  <2>1. \A m \in 1..Width : record'[Cut(a, m)] = record[Cut(a, m)]
    BY <1>1, <1>4
  <2>2. RecordAt(a, k)'
    BY <2>1, WidthAssumption DEF RecordAt
  <2>. QED
    BY <2>1, <2>2
<1>. QED
  BY <1>3, <1>4

LEMMA OneRecordMakeNextNode ==
  ASSUME TypeOK, OneRecordPerAddress, MakeNextNode
  PROVE  OneRecordPerAddress'
BY MakeNextNodeMoves DEF OneRecordPerAddress

\* What setting a record does to the records on the path of an address.
LEMMA SetRecordAt ==
  ASSUME TypeOK, SetRecord, NEW a \in Address, NEW m \in 1..Width,
         NEW d, d = Depth(Current.mask)
  PROVE  record'[Cut(a, m)] = IF Cut(a, d) # Place(Current) THEN record[Cut(a, m)]
                              ELSE IF m = d THEN NewData
                              ELSE IF d < m THEN Absent
                              ELSE record[Cut(a, m)]
<1>. DEFINE bytes == Current.bytes
<1>1. bytes \in Address /\ d \in 1..Width /\ Place(Current) = Cut(bytes, d)
  BY CurrentProperties DEF SetRecord, Found, Call
<1>2. record' = [q \in Prefix |-> IF q = Cut(bytes, d) THEN NewData
                                  ELSE IF IsStrictPrefix(Cut(bytes, d), q) THEN Absent
                                  ELSE record[q]]
  BY <1>1 DEF SetRecord
<1>. HIDE DEF bytes
<1>3. record'[Cut(a, m)] = IF Cut(a, m) = Cut(bytes, d) THEN NewData
                           ELSE IF IsStrictPrefix(Cut(bytes, d), Cut(a, m)) THEN Absent
                           ELSE record[Cut(a, m)]
  BY <1>2, CutProperties
<1>4. Cut(a, m) = Cut(bytes, d) => m = d
  BY <1>1, CutDepth
<1>5. IsStrictPrefix(Cut(bytes, d), Cut(a, m)) <=> d < m /\ Cut(a, d) = Cut(bytes, d)
  BY <1>1, CutBelow
<1>. QED
  BY <1>1, <1>3, <1>4, <1>5

\* Setting a record makes it the record of every address below it, and of no other.
LEMMA SetRecordSets ==
  ASSUME TypeOK, SetRecord, NEW a \in Address, NEW k \in 1..Width, RecordAt(a, k),
         NEW d, d = Depth(Current.mask)
  PROVE  IF Cut(a, d) = Place(Current)
         THEN RecordAt(a, d)' /\ record'[Cut(a, d)] = NewData
         ELSE RecordAt(a, k)' /\ record'[Cut(a, k)] = record[Cut(a, k)]
<1>1. NewData \in Leaf
  BY NewDataType DEF SetRecord, Found, Leaf
<1>2. d \in 1..Width /\ record[Place(Current)] # Absent
  BY CurrentProperties DEF SetRecord, Found, RecordToSet
<1>3. CASE Cut(a, d) = Place(Current)
  <2>1. d <= k
    BY <1>2, <1>3, PresentIsAbove
  <2>2. \A m \in 1..Width : record'[Cut(a, m)] = IF m = d THEN NewData
                                                 ELSE IF d < m THEN Absent
                                                 ELSE record[Cut(a, m)]
    BY <1>3, SetRecordAt
  <2>3. record'[Cut(a, d)] = NewData
    BY <1>2, <2>2
  <2>4. \A m \in 1 .. d-1 : record'[Cut(a, m)] = Node
    BY <1>2, <2>1, <2>2, WidthAssumption DEF RecordAt
  <2>5. \A m \in d+1 .. Width : record'[Cut(a, m)] = Absent
    BY <1>2, <2>2, WidthAssumption
  <2>. QED
    BY <1>1, <1>3, <2>3, <2>4, <2>5 DEF RecordAt
<1>4. CASE Cut(a, d) # Place(Current)
  <2>1. \A m \in 1..Width : record'[Cut(a, m)] = record[Cut(a, m)]
    BY <1>4, SetRecordAt
  <2>2. RecordAt(a, k)'
    BY <2>1, WidthAssumption DEF RecordAt
  <2>. QED
    BY <1>4, <2>1, <2>2
<1>. QED
  BY <1>3, <1>4

LEMMA OneRecordSetRecord ==
  ASSUME TypeOK, OneRecordPerAddress, SetRecord
  PROVE  OneRecordPerAddress'
<1>1. PICK d \in 1..Width : d = Depth(Current.mask)
  BY CurrentProperties DEF SetRecord, Found
<1>. QED
  BY <1>1, SetRecordSets DEF OneRecordPerAddress

LEMMA OneRecordNext == TypeOK /\ OneRecordPerAddress /\ [Next]_vars => OneRecordPerAddress'
<1>. SUFFICES ASSUME TypeOK, OneRecordPerAddress, [Next]_vars
              PROVE  OneRecordPerAddress'
  OBVIOUS
<1>1. ASSUME UNCHANGED record PROVE OneRecordPerAddress'
  BY <1>1 DEF OneRecordPerAddress, RecordAt
<1>2. CASE \E net \in Insertable, data \in Inputs : InsertNetwork(net[1], net[2], data)
  BY <1>1, <1>2 DEF InsertNetwork
<1>3. CASE MakeNextNode
  BY <1>3, OneRecordMakeNextNode
<1>4. CASE MergeIntoNode
  BY <1>1, <1>4 DEF MergeIntoNode
<1>5. CASE InsertIntoParent
  BY <1>1, <1>5 DEF InsertIntoParent
<1>6. CASE SetRecord
  BY <1>6, OneRecordSetRecord
<1>7. CASE Croak
  BY <1>1, <1>7 DEF Croak
<1>8. CASE UNCHANGED vars
  BY <1>1, <1>8 DEF vars
<1>. QED
  BY <1>2, <1>3, <1>4, <1>5, <1>6, <1>7, <1>8 DEF Next, Step

\* After any inserts, prunings and failed merges - a mask length that wrapped
\* included - every address has exactly one record.
THEOREM OneRecord == Spec => []OneRecordPerAddress
BY TypeOKInit, TypeOKNext, OneRecordInit, OneRecordNext, PTL DEF Spec

-------------------------------------------------------------------------------
(* The map.                                                                *)
(*                                                                         *)
(* The inductive invariant is about the calls that are still to run: they  *)
(* are those for the right halves of the networks that merge_records split,*)
(* in the order of their addresses, below a first one that may have been   *)
(* pruned upwards over addresses that have its data already.               *)

\* The addresses that a call is for, and what it gives an address that has old.
Reaches(call, a) == Covers(call.bytes, Depth(call.mask), a)
Wanted(call, old) ==
  IF ~call.merge \/ old = Empty THEN call.data
  ELSE IF Mergeable(old, call.data) THEN Merged(old, call.data)
  ELSE Clash

\* No mask length has wrapped, and merges start at the first address of a network.
CallsInTree ==
  \A i \in 1..Len(calls) :
    /\ calls[i].mask \in 1..Width
    /\ calls[i].merge => \A k \in calls[i].mask + 1 .. Width : calls[i].bytes[k] = 0

LaterCallsMerge == \A i \in 2..Len(calls) : calls[i].merge

\* A call comes before the later ones, but for addresses that have its data.
CallsInOrder ==
  \A i, j \in 1..Len(calls) : \A a, b \in Address :
    i < j /\ Reaches(calls[i], a) /\ Reaches(calls[j], b)
      => Before(a, b) \/ (~calls[i].merge /\ Lookup(a) = calls[i].data)

\* Merging e into d once more changes nothing.
Absorbs(d, e) == d = e \/ (d \in Hash /\ e \in Hash /\ Merged(d, e) = d)

DataAbsorbed ==
  \A i, j \in 1..Len(calls) : i < j => Absorbs(calls[i].data, calls[j].data)

\* What an address has when the insert in progress has returned or failed.
Final(a) == IF Target(a) = Clash THEN Lookup(a) ELSE Target(a)

NotFilled == Running => \A d \in Data : \E a \in Address : Final(a) # d

Queue == /\ CallsInTree
         /\ LaterCallsMerge
         /\ CallsInOrder
         /\ DataAbsorbed

MapInv == TypeOK /\ OneRecordPerAddress /\ Queue /\ NotFilled

-------------------------------------------------------------------------------
(* Networks and places *)

\* An address belongs to a network if its path goes through the network's place.
LEMMA CoversIsCut ==
  ASSUME NEW a \in Address, NEW b \in Address, NEW n \in 1..Width
  PROVE  Covers(b, n, a) <=> Cut(a, n) = Cut(b, n)
BY CutEqual DEF Covers

\* The place beside another: the last bit differs.
LEMMA SiblingIsCut ==
  ASSUME NEW a \in Address, NEW b \in Address, NEW n \in 1..Width
  PROVE  /\ Sibling(Cut(b, n)) \in Prefix
         /\ Cut(a, n) = Sibling(Cut(b, n)) <=> Covers(b, n-1, a) /\ a[n] # b[n]
<1>. DEFINE p == Cut(b, n)
            s == Sibling(p)
<1>1. p \in Seq(Bit) /\ Len(p) = n /\ \A i \in 1..n : p[i] = b[i]
  BY CutProperties
<1>2. n \in Nat /\ n >= 1 /\ b[n] \in Bit /\ a[n] \in Bit
  BY WidthAssumption DEF Address
<1>3. /\ s \in [1..n -> Bit]
      /\ \A i \in 1..n : s[i] = IF i = n THEN 1 - b[n] ELSE b[i]
  <2>1. p \in [1..n -> Bit]
    BY <1>1, LenProperties
  <2>2. s = [p EXCEPT ![n] = 1 - p[n]]
    BY <1>1 DEF Sibling
  <2>3. 1 - p[n] \in Bit /\ p[n] = b[n]
    BY <1>1, <1>2 DEF Bit
  <2>. HIDE DEF p, s
  <2>. QED
    BY <1>1, <1>2, <2>1, <2>2, <2>3
<1>4. s \in Prefix
  BY <1>3 DEF Prefix
<1>5. s \in Seq(Bit) /\ Len(s) = n
  BY <1>2, <1>3
<1>6. Cut(a, n) = s <=> \A i \in 1..n : a[i] = s[i]
  <2>. HIDE DEF s
  <2>. QED
    BY <1>5, CutProperties, SeqEqual
<1>7. a[n] # b[n] <=> a[n] = 1 - b[n]
  BY <1>2 DEF Bit
<1>. HIDE DEF s, p
<1>8. Cut(a, n) = s <=> (\A i \in 1 .. n-1 : a[i] = b[i]) /\ a[n] = 1 - b[n]
  BY <1>2, <1>3, <1>6
<1>. QED
  BY <1>4, <1>7, <1>8 DEF Covers, s, p

\* The network of the parent is that of a place and of the one beside it.
LEMMA ParentCovers ==
  ASSUME NEW a \in Address, NEW b \in Address, NEW n \in 1..Width
  PROVE  Covers(b, n-1, a) <=> Covers(b, n, a) \/ Cut(a, n) = Sibling(Cut(b, n))
<1>1. Covers(b, n, a) <=> Covers(b, n-1, a) /\ a[n] = b[n]
  BY WidthAssumption DEF Covers
<1>. QED
  BY <1>1, SiblingIsCut

-------------------------------------------------------------------------------
(* What a lookup finds *)

LookupAt ==
  \A a \in Address, n \in 1..Width : RecordAt(a, n) => Lookup(a) = record[Cut(a, n)]

LEMMA LookupIsRecord == LookupAt
<1>. SUFFICES ASSUME NEW a \in Address, NEW n \in 1..Width, RecordAt(a, n)
              PROVE  Lookup(a) = record[Cut(a, n)]
  BY DEF LookupAt
<1>1. Node \notin Leaf /\ Absent \notin Leaf
  BY TreeAssumption DEF Leaf
<1>2. \A m \in 1..Width : record[Cut(a, m)] \notin {Node, Absent} <=> m = n
  BY <1>1, WidthAssumption DEF RecordAt
<1>. QED
  BY <1>2 DEF Lookup

LEMMA LookupIsRecordNext == LookupAt'
BY LookupIsRecord, PTL

\* A leaf anywhere on the path of an address is what a lookup finds.
LEMMA LookupFindsLeaf ==
  ASSUME OneRecordPerAddress, NEW a \in Address, NEW n \in 1..Width,
         record[Cut(a, n)] \in Leaf
  PROVE  Lookup(a) = record[Cut(a, n)]
BY LeafIsRecord, LookupIsRecord DEF OneRecordPerAddress, LookupAt

LEMMA LookupType ==
  ASSUME OneRecordPerAddress, NEW a \in Address
  PROVE  Lookup(a) \in Leaf /\ Lookup(a) # Clash
<1>1. Lookup(a) \in Leaf
  BY LookupIsRecord DEF OneRecordPerAddress, LookupAt, RecordAt
<1>. QED
  BY <1>1, PayloadAssumption DEF Leaf

\* Splitting a record changes no lookup.
LEMMA MakeNextNodeLookup ==
  ASSUME TypeOK, OneRecordPerAddress, MakeNextNode, NEW a \in Address
  PROVE  Lookup(a)' = Lookup(a)
<1>1. PICK k \in 1..Width : RecordAt(a, k)
  BY DEF OneRecordPerAddress
<1>2. PICK m \in 1..Width : RecordAt(a, m)' /\ record'[Cut(a, m)] = record[Cut(a, k)]
  BY <1>1, MakeNextNodeMoves
<1>3. Lookup(a) = record[Cut(a, k)]
  BY <1>1, LookupIsRecord DEF LookupAt
<1>4. Lookup(a)' = record'[Cut(a, m)]
  BY <1>2, LookupIsRecordNext DEF LookupAt
<1>. QED
  BY <1>2, <1>3, <1>4

\* An address goes through the current call's place if the call reaches it.
LEMMA ReachesIsPlace ==
  ASSUME TypeOK, Running, NEW a \in Address
  PROVE  Reaches(Current, a) <=> Cut(a, Depth(Current.mask)) = Place(Current)
<1>1. /\ Current.bytes \in Address /\ Depth(Current.mask) \in 1..Width
      /\ Place(Current) = Cut(Current.bytes, Depth(Current.mask))
  BY CurrentProperties DEF Call
<1>. QED
  BY <1>1, CoversIsCut DEF Reaches

\* Setting a record changes the lookups in its network and no other.
LEMMA SetRecordLookup ==
  ASSUME TypeOK, OneRecordPerAddress, SetRecord, NEW a \in Address
  PROVE  Lookup(a)' = IF Reaches(Current, a) THEN NewData ELSE Lookup(a)
<1>1. PICK k \in 1..Width : RecordAt(a, k)
  BY DEF OneRecordPerAddress
<1>2. PICK d \in 1..Width : d = Depth(Current.mask)
  BY CurrentProperties DEF SetRecord, Found
<1>3. Reaches(Current, a) <=> Cut(a, d) = Place(Current)
  BY <1>2, ReachesIsPlace DEF SetRecord, Found
<1>4. CASE Reaches(Current, a)
  <2>1. RecordAt(a, d)' /\ record'[Cut(a, d)] = NewData
    BY <1>1, <1>2, <1>3, <1>4, SetRecordSets
  <2>2. Lookup(a)' = record'[Cut(a, d)]
    BY <2>1, LookupIsRecordNext DEF LookupAt
  <2>. QED
    BY <1>4, <2>1, <2>2
<1>5. CASE ~Reaches(Current, a)
  <2>1. RecordAt(a, k)' /\ record'[Cut(a, k)] = record[Cut(a, k)]
    BY <1>1, <1>2, <1>3, <1>5, SetRecordSets
  <2>2. Lookup(a)' = record'[Cut(a, k)]
    BY <2>1, LookupIsRecordNext DEF LookupAt
  <2>3. Lookup(a) = record[Cut(a, k)]
    BY <1>1, LookupIsRecord DEF LookupAt
  <2>. QED
    BY <1>5, <2>1, <2>2, <2>3
<1>. QED
  BY <1>4, <1>5

\* What the current call sets is what it wants its addresses to have.
LEMMA CurrentGives ==
  ASSUME TypeOK, OneRecordPerAddress, Found, ~Descends, ~Croaks,
         NEW a \in Address, Reaches(Current, a)
  PROVE  Wanted(Current, Lookup(a)) = NewData
<1>1. CASE ~Current.merge
  BY <1>1 DEF Wanted, NewData, Merges
<1>2. CASE Current.merge
  <2>1. PICK n \in 1..Width : n = Depth(Current.mask) /\ Cut(a, n) = Place(Current)
    BY CurrentProperties, ReachesIsPlace DEF Found
  <2>2. RecordToSet = record[Cut(a, n)] /\ RecordToSet \in Leaf
    BY <1>2, <2>1, CutProperties DEF TypeOK, RecordToSet, Found, Descends
  <2>3. Lookup(a) = RecordToSet
    BY <2>2, LookupFindsLeaf
  <2>4. Merges <=> RecordToSet # Empty
    BY <1>2, <2>2, PayloadAssumption DEF Leaf, Merges
  <2>. QED
    BY <1>2, <2>3, <2>4 DEF Wanted, NewData, Croaks
<1>. QED
  BY <1>1, <1>2

\* The addresses beside a place that is pruned have the same data.
LEMMA PrunesEqual ==
  ASSUME TypeOK, OneRecordPerAddress, Found, ~Croaks, Prunes,
         NEW a \in Address, Cut(a, Depth(Current.mask)) = Sibling(Place(Current))
  PROVE  Lookup(a) = NewData
<1>1. NewData \in Leaf
  BY NewDataType DEF Found, Leaf
<1>2. PICK n \in 1..Width : n = Depth(Current.mask)
  BY CurrentProperties DEF Found
<1>3. record[Cut(a, n)] = NewData
  BY <1>2 DEF Prunes, OtherRecord
<1>. QED
  BY <1>1, <1>3, LookupFindsLeaf

-------------------------------------------------------------------------------
(* What an address is to get *)

\* The last call that reaches an address.
ReachesLast(i, a) ==
  /\ Reaches(calls[i], a)
  /\ \A j \in i+1 .. Len(calls) : ~Reaches(calls[j], a)

TargetAt ==
  \A a \in Address :
    /\ \A i \in 1..Len(calls) : ReachesLast(i, a) => Target(a) = Wanted(calls[i], Lookup(a))
    /\ (\A i \in 1..Len(calls) : ~Reaches(calls[i], a)) => Target(a) = Lookup(a)

LEMMA TargetIsWanted == TypeOK => TargetAt
<1>. SUFFICES ASSUME TypeOK, NEW a \in Address
              PROVE  /\ \A i \in 1..Len(calls) :
                          ReachesLast(i, a) => Target(a) = Wanted(calls[i], Lookup(a))
                     /\ (\A i \in 1..Len(calls) : ~Reaches(calls[i], a))
                          => Target(a) = Lookup(a)
  BY DEF TargetAt
<1>. DEFINE over == {i \in 1..Len(calls) : Covers(calls[i].bytes, Depth(calls[i].mask), a)}
            last == CHOOSE i \in over : \A j \in over : j <= i
<1>1. Len(calls) \in Nat
  BY DEF TypeOK
<1>2. Target(a) = IF over = {} THEN Lookup(a) ELSE Wanted(calls[last], Lookup(a))
  BY DEF Target, Wanted
<1>3. ASSUME NEW i \in 1..Len(calls), ReachesLast(i, a)
      PROVE  i \in over /\ last = i
  <2>1. i \in over /\ \A j \in over : j <= i
    BY <1>1, <1>3 DEF ReachesLast, Reaches
  <2>2. \A k \in over : (\A j \in over : j <= k) => k = i
    BY <1>1, <2>1
  <2>. HIDE DEF over
  <2>. QED
    BY <2>1, <2>2
<1>4. (\A i \in 1..Len(calls) : ~Reaches(calls[i], a)) => over = {}
  BY DEF Reaches
<1>. HIDE DEF over, last
<1>. QED
  BY <1>2, <1>3, <1>4

LEMMA TargetIsWantedNext == TypeOK' => TargetAt'
BY TargetIsWanted, PTL

\* Some call is the last one that reaches an address, or none reaches it; only
\* the first call can be followed by another one.
LEMMA OneLast ==
  ASSUME TypeOK, LaterCallsMerge, CallsInOrder, NEW a \in Address
  PROVE  \/ \A i \in 1..Len(calls) : ~Reaches(calls[i], a)
         \/ /\ Running /\ Reaches(Current, a)
            /\ \A i \in 2..Len(calls) : ~Reaches(calls[i], a)
         \/ \E i \in 2..Len(calls) : ReachesLast(i, a)
<1>1. Len(calls) \in Nat
  BY DEF TypeOK
<1>2. Len(calls) >= 1 => Running /\ Current = calls[1]
  BY DEF Current, Running, TypeOK
<1>3. ASSUME NEW i \in 2..Len(calls), NEW j \in 2..Len(calls), i < j,
             Reaches(calls[i], a), Reaches(calls[j], a)
      PROVE  FALSE
  <2>1. calls[i].merge
    BY DEF LaterCallsMerge
  <2>2. Before(a, a)
    BY <1>1, <1>3, <2>1 DEF CallsInOrder
  <2>. QED
    BY <2>2, BeforeIsStrict
<1>4. \A i \in 2..Len(calls) : Reaches(calls[i], a) => ReachesLast(i, a)
  BY <1>1, <1>3 DEF ReachesLast
<1>. QED
  BY <1>1, <1>2, <1>4


-------------------------------------------------------------------------------
(* Steps that change the calls *)

\* What a step that replaces the current call leaves of the stack.
LEMMA Replaced ==
  ASSUME TypeOK, Running, NEW new \in Seq(Call), calls' = new \o Tail(calls)
  PROVE  /\ Len(calls) \in Nat \ {0} /\ Current = calls[1]
         /\ Len(calls') = Len(new) + Len(calls) - 1
         /\ \A i \in 1..Len(new) : calls'[i] = new[i]
         /\ \A i \in 2..Len(calls) : calls'[i + Len(new) - 1] = calls[i]
         /\ \A i \in Len(new) + 1 .. Len(calls') : calls'[i] = calls[i - Len(new) + 1]
<1>1. /\ Len(calls) \in Nat \ {0} /\ Current = calls[1]
      /\ Tail(calls) \in Seq(Call) /\ Len(Tail(calls)) = Len(calls) - 1
      /\ \A i \in 1 .. Len(calls) - 1 : Tail(calls)[i] = calls[i+1]
  BY HeadTailProperties, EmptySeq DEF TypeOK, Running, Current
<1>2. /\ Len(calls') = Len(new) + Len(Tail(calls))
      /\ \A i \in 1..Len(new) : calls'[i] = new[i]
      /\ \A i \in 1..Len(Tail(calls)) : calls'[i + Len(new)] = Tail(calls)[i]
  BY <1>1, ConcatProperties
<1>3. Len(new) \in Nat
  OBVIOUS
<1>4. ASSUME NEW i \in 2..Len(calls)
      PROVE  calls'[i + Len(new) - 1] = calls[i]
  <2>1. i - 1 \in 1..Len(Tail(calls)) /\ (i - 1) + Len(new) = i + Len(new) - 1 /\ (i - 1) + 1 = i
    BY <1>1, <1>3
  <2>2. calls'[(i - 1) + Len(new)] = Tail(calls)[i - 1] /\ Tail(calls)[i - 1] = calls[(i - 1) + 1]
    BY <1>1, <1>2, <2>1
  <2>. QED
    BY <2>1, <2>2
<1>5. ASSUME NEW i \in Len(new) + 1 .. Len(calls')
      PROVE  calls'[i] = calls[i - Len(new) + 1]
  <2>1. /\ i - Len(new) + 1 \in 2..Len(calls)
        /\ (i - Len(new) + 1) + Len(new) - 1 = i
    BY <1>1, <1>2, <1>3
  <2>. QED
    BY <1>4, <2>1
<1>. QED
  BY <1>1, <1>2, <1>4, <1>5

\* No lookup and no target changes.
Kept == \A a \in Address : Lookup(a)' = Lookup(a) /\ Target(a)' = Target(a)

LEMMA MakeNextNodeKept ==
  ASSUME TypeOK, OneRecordPerAddress, Queue, MakeNextNode
  PROVE  Kept /\ Queue'
<1>1. calls' = calls /\ \A a \in Address : Lookup(a)' = Lookup(a)
  BY MakeNextNodeLookup DEF MakeNextNode
<1>2. ASSUME NEW a \in Address PROVE Target(a)' = Target(a)
  <2>1. Lookup(a)' = Lookup(a)
    BY <1>1
  <2>. QED
    BY <1>1, <2>1 DEF Target
<1>3. CallsInTree' /\ LaterCallsMerge' /\ DataAbsorbed'
  BY <1>1 DEF Queue, CallsInTree, LaterCallsMerge, DataAbsorbed
<1>4. CallsInOrder'
  BY <1>1 DEF Queue, CallsInOrder
<1>. QED
  BY <1>1, <1>2, <1>3, <1>4 DEF Kept, Queue

\* Lookups depend on the records only.
LEMMA UnchangedLookup ==
  ASSUME UNCHANGED record, NEW a
  PROVE  Lookup(a)' = Lookup(a)
BY DEF Lookup

\* A step that replaces the current call by new ones keeps the target of an
\* address if a later call reaches it, or else the new calls, or what a lookup
\* now finds, give it what the current call was to give it.
LEMMA TargetKept ==
  ASSUME TypeOK, TypeOK', LaterCallsMerge, CallsInOrder, Running,
         NEW new \in Seq(Call), calls' = new \o Tail(calls),
         NEW a \in Address, NEW old, old = Lookup(a)',
         (\E i \in 2..Len(calls) : Reaches(calls[i], a)) => old = Lookup(a),
         (\A i \in 2..Len(calls) : ~Reaches(calls[i], a)) =>
           \/ \E i \in 1..Len(new) : /\ Reaches(new[i], a)
                                     /\ \A j \in i+1 .. Len(new) : ~Reaches(new[j], a)
                                     /\ Target(a) = Wanted(new[i], old)
           \/ (\A i \in 1..Len(new) : ~Reaches(new[i], a)) /\ Target(a) = old
  PROVE  Target(a)' = Target(a)
<1>1. /\ Len(calls) \in Nat \ {0} /\ Len(new) \in Nat
      /\ Len(calls') = Len(new) + Len(calls) - 1
      /\ \A i \in 1..Len(new) : calls'[i] = new[i]
      /\ \A i \in 2..Len(calls) : calls'[i + Len(new) - 1] = calls[i]
      /\ \A i \in Len(new) + 1 .. Len(calls') : calls'[i] = calls[i - Len(new) + 1]
  BY Replaced
<1>2. ASSUME NEW i \in 1..Len(calls'), Reaches(calls'[i], a),
             \A j \in i+1 .. Len(calls') : ~Reaches(calls'[j], a)
      PROVE  Target(a)' = Wanted(calls'[i], old)
  BY <1>2, TargetIsWantedNext DEF TargetAt, ReachesLast
<1>3. (\A i \in 1..Len(calls') : ~Reaches(calls'[i], a)) => Target(a)' = old
  BY TargetIsWantedNext DEF TargetAt
<1>4. CASE \E i \in 2..Len(calls) : Reaches(calls[i], a)
  <2>1. PICK i \in 2..Len(calls) : ReachesLast(i, a)
    BY <1>4, OneLast
  <2>2. Target(a) = Wanted(calls[i], old)
    BY <1>1, <1>4, <2>1, TargetIsWanted DEF TargetAt
  <2>3. PICK k \in 1..Len(calls') : k = i + Len(new) - 1 /\ calls'[k] = calls[i]
    BY <1>1
  <2>4. \A j \in k+1 .. Len(calls') :
          /\ calls'[j] = calls[j - Len(new) + 1]
          /\ j - Len(new) + 1 \in i+1 .. Len(calls)
    BY <1>1, <2>3
  <2>5. Reaches(calls'[k], a) /\ \A j \in k+1 .. Len(calls') : ~Reaches(calls'[j], a)
    BY <2>1, <2>3, <2>4 DEF ReachesLast
  <2>. QED
    BY <1>2, <2>2, <2>3, <2>5
<1>5. CASE \A i \in 2..Len(calls) : ~Reaches(calls[i], a)
  <2>1. \A j \in Len(new) + 1 .. Len(calls') : ~Reaches(calls'[j], a)
    <3>1. \A j \in Len(new) + 1 .. Len(calls') : j - Len(new) + 1 \in 2..Len(calls)
      BY <1>1
    <3>. QED
      BY <1>1, <1>5, <3>1
  <2>2. CASE \E i \in 1..Len(new) : /\ Reaches(new[i], a)
                                    /\ \A j \in i+1 .. Len(new) : ~Reaches(new[j], a)
                                    /\ Target(a) = Wanted(new[i], old)
    <3>1. PICK i \in 1..Len(new) : /\ Reaches(new[i], a)
                                   /\ \A j \in i+1 .. Len(new) : ~Reaches(new[j], a)
                                   /\ Target(a) = Wanted(new[i], old)
      BY <2>2
    <3>2. i \in 1..Len(calls') /\ calls'[i] = new[i]
      BY <1>1
    <3>3. \A j \in i+1 .. Len(calls') : ~Reaches(calls'[j], a)
      <4>1. \A j \in i+1 .. Len(calls') : j \in i+1 .. Len(new) \/ j \in Len(new) + 1 .. Len(calls')
        BY <1>1
      <4>2. \A j \in i+1 .. Len(new) : calls'[j] = new[j]
        BY <1>1
      <4>. QED
        BY <2>1, <3>1, <4>1, <4>2
    <3>. QED
      BY <1>2, <3>1, <3>2, <3>3
  <2>3. CASE (\A i \in 1..Len(new) : ~Reaches(new[i], a)) /\ Target(a) = old
    <3>1. \A j \in 1..Len(calls') : j \in 1..Len(new) \/ j \in Len(new) + 1 .. Len(calls')
      BY <1>1
    <3>2. \A j \in 1..Len(calls') : ~Reaches(calls'[j], a)
      BY <1>1, <2>1, <2>3, <3>1
    <3>. QED
      BY <1>3, <2>3, <3>2
  <2>. QED
    BY <1>5, <2>2, <2>3
<1>. QED
  BY <1>4, <1>5

\* Splitting an insert in two halves.
LEMMA MergeIntoNodeKept ==
  ASSUME TypeOK, TypeOK', Queue, MergeIntoNode
  PROVE  Kept /\ Queue'
<1>. DEFINE n == Current.mask
            left == [Current EXCEPT !.mask = @ + 1]
            right == [left EXCEPT !.bytes = SetBit(@, left.mask)]
            new == <<left, right>>
<1>0. /\ Running /\ Current \in Call /\ Current.merge
      /\ ~(n >= Width)
      /\ calls' = new \o Tail(calls) /\ UNCHANGED record
  BY CurrentProperties DEF MergeIntoNode, Found, Descends, Croaks
<1>1. /\ n \in 1 .. Width-1
      /\ \A k \in n+1 .. Width : Current.bytes[k] = 0
      /\ Current = calls[1] /\ 1 \in 1..Len(calls)
  <2>1. Current = calls[1] /\ 1 \in 1..Len(calls)
    BY <1>0, EmptySeq DEF Current, Running, TypeOK
  <2>. QED
    BY <1>0, <2>1, WidthAssumption DEF Queue, CallsInTree
<1>2. /\ left.bytes = Current.bytes /\ left.mask = n+1
      /\ left.data = Current.data /\ left.merge
      /\ right.bytes = SetBit(Current.bytes, n+1) /\ right.mask = n+1
      /\ right.data = Current.data /\ right.merge
  BY <1>0 DEF Call
<1>3. /\ Current.bytes \in Address /\ Current.bytes[n+1] = 0
      /\ n+1 \in 1..Width /\ n \in 1..Width
      /\ SetBit(Current.bytes, n+1) \in Address
      /\ Depth(n) = n /\ Depth(n+1) = n+1
  BY <1>0, <1>1, WidthAssumption, DepthInTree DEF Call, SetBit, Address, Bit
<1>4. left \in Call /\ right \in Call
  <2>1. Current.mask + 1 \in MaskLength
    BY <1>1, MaskAssumption, WidthAssumption DEF MaskLength
  <2>2. left \in Call
    BY <1>0, <2>1 DEF Call
  <2>3. SetBit(left.bytes, left.mask) \in Address
    BY <1>2, <1>3
  <2>. QED
    BY <2>2, <2>3 DEF Call
<1>5. new \in Seq(Call) /\ Len(new) = 2 /\ new[1] = left /\ new[2] = right
  <2>. HIDE DEF left, right
  <2>. QED
    BY <1>4
<1>. HIDE DEF n, left, right, new
<1>6. \A a \in Address : Reaches(Current, a) <=> Reaches(left, a) \/ Reaches(right, a)
  BY <1>1, <1>2, <1>3, Halves DEF Reaches, n
<1>7. \A a, b \in Address : Reaches(left, a) /\ Reaches(right, b) => Before(a, b)
  BY <1>1, <1>2, <1>3, Halves DEF Reaches, n
<1>8. \A old : /\ Wanted(left, old) = Wanted(Current, old)
               /\ Wanted(right, old) = Wanted(Current, old)
  BY <1>0, <1>2 DEF Wanted
<1>9. \A a \in Address : Lookup(a)' = Lookup(a)
  BY <1>0, UnchangedLookup
<1>10. /\ Len(calls) \in Nat \ {0} /\ Len(calls') = Len(calls) + 1
       /\ calls'[1] = left /\ calls'[2] = right
       /\ \A i \in 3..Len(calls') : calls'[i] = calls[i-1] /\ i-1 \in 2..Len(calls)
  <2>1. /\ Len(calls) \in Nat \ {0} /\ Len(calls') = Len(new) + Len(calls) - 1
        /\ \A i \in 1..Len(new) : calls'[i] = new[i]
        /\ \A i \in Len(new) + 1 .. Len(calls') : calls'[i] = calls[i - Len(new) + 1]
    BY <1>0, <1>5, Replaced
  <2>2. \A i \in 3..Len(calls') : calls'[i] = calls[i - 2 + 1]
    BY <1>5, <2>1
  <2>3. \A i \in 3..Len(calls') : i - 2 + 1 = i - 1 /\ i-1 \in 2..Len(calls)
    BY <1>5, <2>1
  <2>. QED
    BY <1>5, <2>1, <2>2, <2>3
<1>11. Kept
  <2>. SUFFICES ASSUME NEW a \in Address PROVE Target(a)' = Target(a)
    BY <1>9 DEF Kept
  <2>1. ASSUME \A i \in 2..Len(calls) : ~Reaches(calls[i], a)
        PROVE  \/ Reaches(left, a) /\ ~Reaches(right, a) /\ Target(a) = Wanted(left, Lookup(a))
               \/ Reaches(right, a) /\ Target(a) = Wanted(right, Lookup(a))
               \/ ~Reaches(left, a) /\ ~Reaches(right, a) /\ Target(a) = Lookup(a)
    <3>1. CASE Reaches(Current, a)
      <4>1. Target(a) = Wanted(Current, Lookup(a))
        BY <1>1, <2>1, <3>1, TargetIsWanted DEF TargetAt, ReachesLast
      <4>2. ~(Reaches(left, a) /\ Reaches(right, a))
        BY <1>7, BeforeIsStrict
      <4>. QED
        BY <1>6, <1>8, <3>1, <4>1, <4>2
    <3>2. CASE ~Reaches(Current, a)
      <4>1. \A i \in 1..Len(calls) : ~Reaches(calls[i], a)
        BY <1>1, <1>10, <2>1, <3>2
      <4>. QED
        BY <1>6, <3>2, <4>1, TargetIsWanted DEF TargetAt
    <3>. QED
      BY <3>1, <3>2
  <2>2. (\A i \in 2..Len(calls) : ~Reaches(calls[i], a)) =>
           \/ \E i \in 1..Len(new) : /\ Reaches(new[i], a)
                                     /\ \A j \in i+1 .. Len(new) : ~Reaches(new[j], a)
                                     /\ Target(a) = Wanted(new[i], Lookup(a))
           \/ (\A i \in 1..Len(new) : ~Reaches(new[i], a)) /\ Target(a) = Lookup(a)
    BY <1>5, <2>1
  <2>. QED
    BY <1>0, <1>5, <1>9, <2>2, TargetKept DEF Queue
<1>12. CallsInTree'
  <2>. SUFFICES ASSUME NEW i \in 1..Len(calls')
                PROVE  /\ calls'[i].mask \in 1..Width
                       /\ calls'[i].merge =>
                            \A k \in calls'[i].mask + 1 .. Width : calls'[i].bytes[k] = 0
    BY DEF CallsInTree
  <2>1. CASE i = 1
    BY <1>1, <1>2, <1>3, <1>10, <2>1, WidthAssumption
  <2>2. CASE i = 2
    <3>1. \A k \in n+2 .. Width : SetBit(Current.bytes, n+1)[k] = 0
      BY <1>1, <1>3, WidthAssumption DEF SetBit, Address
    <3>. QED
      BY <1>1, <1>2, <1>3, <1>10, <2>2, <3>1, WidthAssumption
  <2>3. CASE i \in 3..Len(calls')
    BY <1>10, <2>3 DEF Queue, CallsInTree
  <2>. QED
    BY <1>10, <2>1, <2>2, <2>3
<1>13. LaterCallsMerge'
  <2>1. \A i \in 2..Len(calls') : i = 2 \/ i \in 3..Len(calls')
    BY <1>10
  <2>. QED
    BY <1>2, <1>10, <2>1 DEF Queue, LaterCallsMerge
<1>14. CallsInOrder'
  <2>. SUFFICES ASSUME NEW i \in 1..Len(calls'), NEW j \in 1..Len(calls'),
                       NEW a \in Address, NEW b \in Address,
                       i < j, Reaches(calls'[i], a), Reaches(calls'[j], b)
                PROVE  Before(a, b) \/ (~calls'[i].merge /\ Lookup(a)' = calls'[i].data)
    BY DEF CallsInOrder
  <2>1. CASE i = 1 /\ j = 2
    BY <1>7, <1>10, <2>1
  <2>2. CASE i \in {1, 2} /\ j \in 3..Len(calls')
    <3>1. Reaches(Current, a) /\ Reaches(calls[j-1], b)
      BY <1>6, <1>10, <2>2
    <3>2. 1 \in 1..Len(calls) /\ j-1 \in 1..Len(calls) /\ 1 < j-1
      BY <1>10, <2>2
    <3>. QED
      BY <1>0, <1>1, <3>1, <3>2 DEF Queue, CallsInOrder
  <2>3. CASE i \in 3..Len(calls') /\ j \in 3..Len(calls')
    <3>1. i-1 \in 1..Len(calls) /\ j-1 \in 1..Len(calls) /\ i-1 < j-1
      BY <1>10, <2>3
    <3>. QED
      BY <1>9, <1>10, <2>3, <3>1 DEF Queue, CallsInOrder
  <2>. QED
    BY <1>10, <2>1, <2>2, <2>3
<1>15. DataAbsorbed'
  <2>. SUFFICES ASSUME NEW i \in 1..Len(calls'), NEW j \in 1..Len(calls'), i < j
                PROVE  Absorbs(calls'[i].data, calls'[j].data)
    BY DEF DataAbsorbed
  <2>1. CASE i = 1 /\ j = 2
    BY <1>2, <1>10, <2>1 DEF Absorbs
  <2>2. CASE i \in {1, 2} /\ j \in 3..Len(calls')
    <3>1. 1 \in 1..Len(calls) /\ j-1 \in 1..Len(calls) /\ 1 < j-1
      BY <1>10, <2>2
    <3>. QED
      BY SMTT(30), <1>1, <1>2, <1>10, <2>2, <3>1 DEF Queue, DataAbsorbed
  <2>3. CASE i \in 3..Len(calls') /\ j \in 3..Len(calls')
    <3>1. i-1 \in 1..Len(calls) /\ j-1 \in 1..Len(calls) /\ i-1 < j-1
      BY <1>10, <2>3
    <3>. QED
      BY <1>10, <2>3, <3>1 DEF Queue, DataAbsorbed
  <2>. QED
    BY <1>10, <2>1, <2>2, <2>3
<1>. QED
  BY <1>11, <1>12, <1>13, <1>14, <1>15 DEF Queue

\* Merging into what was merged already.
LEMMA MergedAbsorbs ==
  ASSUME NEW from \in Hash, NEW into \in Hash, NEW e, Absorbs(into, e)
  PROVE  Absorbs(Merged(from, into), e)
<1>. DEFINE m == Merged(from, into)
<1>1. /\ m = [k \in DOMAIN into \cup DOMAIN from |->
                IF k \in DOMAIN into THEN into[k] ELSE from[k]]
      /\ m \in Hash
  BY MergedType DEF Mergeable, Merged, MergeHash
<1>2. e \in Hash
  BY DEF Absorbs
<1>3. DOMAIN e \subseteq DOMAIN into /\ \A k \in DOMAIN e : e[k] = into[k]
  <2>1. CASE into = e
    BY <2>1
  <2>2. CASE Merged(into, e) = into
    <3>1. into = [k \in DOMAIN e \cup DOMAIN into |->
                    IF k \in DOMAIN e THEN e[k] ELSE into[k]]
      BY <2>2 DEF Merged, MergeHash
    <3>2. DOMAIN into = DOMAIN e \cup DOMAIN into
      BY <3>1
    <3>3. \A k \in DOMAIN e : into[k] = e[k]
      BY <3>1
    <3>. QED
      BY <3>2, <3>3
  <2>. QED
    BY <2>1, <2>2 DEF Absorbs
<1>4. Merged(m, e) = m
  <2>1. Merged(m, e) = [k \in DOMAIN e \cup DOMAIN m |-> IF k \in DOMAIN e THEN e[k] ELSE m[k]]
    BY DEF Merged, MergeHash
  <2>2. DOMAIN e \cup DOMAIN m = DOMAIN into \cup DOMAIN from
    BY <1>1, <1>3
  <2>3. \A k \in DOMAIN e : e[k] = m[k]
    BY <1>1, <1>3
  <2>. HIDE DEF m
  <2>4. Merged(m, e) = [k \in DOMAIN m |-> m[k]]
    BY <1>1, <2>1, <2>2, <2>3
  <2>. QED
    BY <1>1, <2>4
<1>. QED
  BY <1>1, <1>2, <1>4 DEF Absorbs

\* What the current call stores has absorbed what later calls insert.
LEMMA NewDataAbsorbs ==
  ASSUME TypeOK, Running, ~Croaks, DataAbsorbed, NEW j \in 2..Len(calls)
  PROVE  Absorbs(NewData, calls[j].data)
<1>1. Len(calls) \in Nat /\ Current = calls[1]
  BY DEF TypeOK, Running, Current
<1>2. Absorbs(Current.data, calls[j].data)
  BY <1>1 DEF DataAbsorbed
<1>3. CASE Merges
  BY <1>2, <1>3, MergedAbsorbs DEF Croaks, Mergeable, NewData
<1>4. CASE ~Merges
  BY <1>2, <1>4 DEF NewData
<1>. QED
  BY <1>3, <1>4

\* A later call gives an address that has the stored data nothing new.
LEMMA AbsorbedWanted ==
  ASSUME NEW call, call.merge, NEW d \in Data, Absorbs(d, call.data)
  PROVE  Wanted(call, d) \in {d, Clash}
<1>1. d # Empty
  BY PayloadAssumption
<1>2. CASE Mergeable(d, call.data)
  <2>1. CASE d = call.data
    <3>1. Merged(d, d) = [k \in DOMAIN d |-> d[k]]
      BY DEF Merged, MergeHash
    <3>2. \E S : d = [k \in S |-> d[k]]
      BY <1>2 DEF Mergeable, Hash
    <3>3. Merged(d, d) = d
      BY <3>1, <3>2
    <3>. QED
      BY <1>1, <1>2, <2>1, <3>3 DEF Wanted
  <2>2. CASE Merged(d, call.data) = d
    BY <1>1, <1>2, <2>2 DEF Wanted
  <2>. QED
    BY <2>1, <2>2 DEF Absorbs
<1>3. CASE ~Mergeable(d, call.data)
  BY <1>1, <1>3 DEF Wanted
<1>. QED
  BY <1>2, <1>3

\* If all addresses that the parent network covers have the data of a record that
\* is pruned, and that is all there are, the insert fills the address space.
LEMMA PruningStops ==
  ASSUME MapInv, InsertIntoParent
  PROVE  Current.mask \in 2..Width
<1>0. /\ Found /\ Running /\ ~Descends /\ ~Croaks /\ Prunes /\ TypeOK /\ Queue
      /\ OneRecordPerAddress
  BY DEF InsertIntoParent, Found, MapInv
<1>1. Current = calls[1] /\ Len(calls) \in Nat \ {0}
  BY <1>0, EmptySeq DEF TypeOK, Running, Current
<1>2. Current.mask \in 1..Width
  BY <1>0, <1>1 DEF Queue, CallsInTree
<1>3. ASSUME Current.mask = 1, NEW a \in Address
      PROVE  Final(a) = NewData
  <2>1. /\ Current.bytes \in Address /\ Depth(Current.mask) = 1
        /\ Place(Current) = Cut(Current.bytes, 1)
    BY <1>0, <1>2, <1>3, CurrentProperties, DepthInTree DEF Call
  <2>2. Covers(Current.bytes, 1-1, a)
    BY DEF Covers
  <2>3. Reaches(Current, a) \/ Cut(a, 1) = Sibling(Place(Current))
    BY <2>1, <2>2, ParentCovers, WidthAssumption DEF Reaches
  <2>4. ~Reaches(Current, a) => Lookup(a) = NewData
    BY <1>0, <2>1, <2>3, PrunesEqual
  <2>5. CASE \A i \in 1..Len(calls) : ~Reaches(calls[i], a)
    <3>1. Lookup(a) = NewData /\ Target(a) = Lookup(a)
      BY <1>0, <1>1, <2>4, <2>5, TargetIsWanted DEF TargetAt
    <3>. QED
      BY <3>1 DEF Final
  <2>6. CASE Reaches(Current, a) /\ \A i \in 2..Len(calls) : ~Reaches(calls[i], a)
    <3>1. Target(a) = Wanted(Current, Lookup(a))
      BY <1>0, <1>1, <2>6, TargetIsWanted DEF TargetAt, ReachesLast
    <3>2. Target(a) = NewData
      BY <1>0, <2>6, <3>1, CurrentGives
    <3>3. NewData # Clash
      BY <1>0, NewDataType, PayloadAssumption
    <3>. QED
      BY <3>2, <3>3 DEF Final
  <2>7. ASSUME NEW j \in 2..Len(calls), ReachesLast(j, a)
        PROVE  Final(a) = NewData
    <3>1. Lookup(a) = NewData
      <4>1. CASE Reaches(Current, a)
        <5>1. ~Before(a, a)
          BY BeforeIsStrict
        <5>2. ~Current.merge /\ Lookup(a) = Current.data
          BY <1>0, <1>1, <2>7, <4>1, <5>1 DEF Queue, CallsInOrder, ReachesLast
        <5>. QED
          BY <5>2 DEF NewData, Merges
      <4>. QED
        BY <2>4, <4>1
    <3>2. Target(a) = Wanted(calls[j], NewData)
      BY <1>0, <1>1, <2>7, <3>1, TargetIsWanted DEF TargetAt
    <3>3. calls[j].merge /\ Absorbs(NewData, calls[j].data)
      BY <1>0, NewDataAbsorbs DEF Queue, LaterCallsMerge
    <3>4. Target(a) \in {NewData, Clash}
      BY <1>0, <3>2, <3>3, AbsorbedWanted, NewDataType
    <3>. QED
      BY <3>1, <3>4 DEF Final
  <2>. QED
    BY <1>0, <2>5, <2>6, <2>7, OneLast DEF Queue
<1>4. Current.mask # 1
  BY <1>0, <1>3, NewDataType DEF MapInv, NotFilled
<1>. QED
  BY <1>2, <1>4, WidthAssumption

\* Inserting the parent network instead of a pruned record.
LEMMA InsertIntoParentKept ==
  ASSUME MapInv, TypeOK', InsertIntoParent
  PROVE  Kept /\ Queue'
<1>. DEFINE n == Current.mask
            parent == [Current EXCEPT !.mask = ParentMask(@), !.data = NewData,
                                      !.merge = FALSE]
            new == <<parent>>
<1>0. /\ TypeOK /\ Queue /\ OneRecordPerAddress
      /\ Found /\ Running /\ ~Descends /\ ~Croaks /\ Prunes
      /\ Current \in Call /\ NewData \in Data
      /\ calls' = new \o Tail(calls) /\ UNCHANGED record
  BY CurrentProperties, NewDataType DEF InsertIntoParent, Found, MapInv
<1>1. n \in 2..Width /\ n-1 \in 1..Width /\ n \in 1..Width /\ ParentMask(n) = n-1
  BY PruningStops, MaskAssumption, WidthAssumption DEF ParentMask
<1>2. /\ parent.bytes = Current.bytes /\ parent.mask = n-1
      /\ parent.data = NewData /\ ~parent.merge
  BY <1>0, <1>1 DEF Call
<1>3. /\ Current.bytes \in Address /\ Depth(n) = n /\ Depth(n-1) = n-1
      /\ Place(Current) = Cut(Current.bytes, n)
  BY <1>0, <1>1, DepthInTree DEF Call, Place
<1>4. parent \in Call
  <2>1. ParentMask(Current.mask) \in MaskLength
    BY <1>1, MaskAssumption, WidthAssumption DEF MaskLength
  <2>. QED
    BY <1>0, <2>1 DEF Call
<1>5. new \in Seq(Call) /\ Len(new) = 1 /\ new[1] = parent
  <2>. HIDE DEF parent
  <2>. QED
    BY <1>4
<1>. HIDE DEF n, parent, new
<1>6. \A a \in Address : Reaches(Current, a) => Reaches(parent, a)
  BY <1>1, <1>2, <1>3, ParentCovers DEF Reaches, n
<1>7. \A a \in Address : Reaches(parent, a) /\ ~Reaches(Current, a) => Lookup(a) = NewData
  <2>. SUFFICES ASSUME NEW a \in Address, Reaches(parent, a), ~Reaches(Current, a)
                PROVE  Lookup(a) = NewData
    OBVIOUS
  <2>1. Cut(a, n) = Sibling(Cut(Current.bytes, n))
    BY <1>1, <1>2, <1>3, ParentCovers DEF Reaches, n
  <2>. QED
    BY <1>0, <1>3, <2>1, PrunesEqual DEF n
<1>8. \A old : Wanted(parent, old) = NewData
  BY <1>2 DEF Wanted
<1>9. \A a \in Address : Lookup(a)' = Lookup(a)
  BY <1>0, UnchangedLookup
<1>10. /\ Len(calls) \in Nat \ {0} /\ Len(calls') = Len(calls)
       /\ Current = calls[1] /\ 1 \in 1..Len(calls)
       /\ calls'[1] = parent
       /\ \A i \in 2..Len(calls') : calls'[i] = calls[i]
  <2>1. /\ Len(calls) \in Nat \ {0} /\ Current = calls[1]
        /\ Len(calls') = Len(new) + Len(calls) - 1
        /\ \A i \in 1..Len(new) : calls'[i] = new[i]
        /\ \A i \in 2..Len(calls) : calls'[i + Len(new) - 1] = calls[i]
    BY <1>0, <1>5, Replaced
  <2>2. \A i \in 2..Len(calls) : i + Len(new) - 1 = i
    BY <1>5
  <2>. QED
    BY <1>5, <2>1, <2>2
<1>11. Kept
  <2>. SUFFICES ASSUME NEW a \in Address PROVE Target(a)' = Target(a)
    BY <1>9 DEF Kept
  <2>1. ASSUME \A i \in 2..Len(calls) : ~Reaches(calls[i], a)
        PROVE  \/ Reaches(parent, a) /\ Target(a) = Wanted(parent, Lookup(a))
               \/ ~Reaches(parent, a) /\ Target(a) = Lookup(a)
    <3>1. CASE Reaches(Current, a)
      <4>1. Target(a) = Wanted(Current, Lookup(a))
        BY <1>0, <1>10, <2>1, <3>1, TargetIsWanted DEF TargetAt, ReachesLast
      <4>2. Target(a) = NewData
        BY <1>0, <3>1, <4>1, CurrentGives
      <4>. QED
        BY <1>6, <1>8, <3>1, <4>2
    <3>2. CASE ~Reaches(Current, a)
      <4>1. \A i \in 1..Len(calls) : ~Reaches(calls[i], a)
        BY <1>10, <2>1, <3>2
      <4>2. Target(a) = Lookup(a)
        BY <1>0, <4>1, TargetIsWanted DEF TargetAt
      <4>. QED
        BY <1>7, <1>8, <3>2, <4>2
    <3>. QED
      BY <3>1, <3>2
  <2>2. (\A i \in 2..Len(calls) : ~Reaches(calls[i], a)) =>
           \/ \E i \in 1..Len(new) : /\ Reaches(new[i], a)
                                     /\ \A j \in i+1 .. Len(new) : ~Reaches(new[j], a)
                                     /\ Target(a) = Wanted(new[i], Lookup(a))
           \/ (\A i \in 1..Len(new) : ~Reaches(new[i], a)) /\ Target(a) = Lookup(a)
    BY <1>5, <2>1
  <2>. QED
    BY <1>0, <1>5, <1>9, <2>2, TargetKept DEF Queue
<1>12. CallsInTree' /\ LaterCallsMerge'
  <2>1. \A i \in 1..Len(calls') : i = 1 \/ i \in 2..Len(calls')
    BY <1>10
  <2>2. CallsInTree'
    BY <1>0, <1>1, <1>2, <1>10, <2>1 DEF Queue, CallsInTree
  <2>. QED
    BY <1>0, <1>10, <2>2 DEF Queue, LaterCallsMerge
<1>13. CallsInOrder'
  <2>. SUFFICES ASSUME NEW i \in 1..Len(calls'), NEW j \in 1..Len(calls'),
                       NEW a \in Address, NEW b \in Address,
                       i < j, Reaches(calls'[i], a), Reaches(calls'[j], b)
                PROVE  Before(a, b) \/ (~calls'[i].merge /\ Lookup(a)' = calls'[i].data)
    BY DEF CallsInOrder
  <2>0. j \in 2..Len(calls') /\ calls'[j] = calls[j]
    BY <1>10
  <2>1. CASE i = 1 /\ Reaches(Current, a)
    <3>1. Before(a, b) \/ (~Current.merge /\ Lookup(a) = Current.data)
      BY <1>0, <1>10, <2>0, <2>1 DEF Queue, CallsInOrder
    <3>2. ~Current.merge => NewData = Current.data
      BY DEF NewData, Merges
    <3>. QED
      BY <1>2, <1>9, <1>10, <2>1, <3>1, <3>2
  <2>2. CASE i = 1 /\ ~Reaches(Current, a)
    BY <1>2, <1>7, <1>9, <1>10, <2>2
  <2>3. CASE i # 1
    <3>1. i \in 2..Len(calls') /\ calls'[i] = calls[i]
      BY <1>10, <2>3
    <3>2. i \in 1..Len(calls) /\ j \in 1..Len(calls)
      BY <1>10
    <3>. QED
      BY <1>0, <1>9, <2>0, <3>1, <3>2 DEF Queue, CallsInOrder
  <2>. QED
    BY <2>1, <2>2, <2>3
<1>14. DataAbsorbed'
  <2>. SUFFICES ASSUME NEW i \in 1..Len(calls'), NEW j \in 1..Len(calls'), i < j
                PROVE  Absorbs(calls'[i].data, calls'[j].data)
    BY DEF DataAbsorbed
  <2>0. j \in 2..Len(calls) /\ calls'[j] = calls[j]
    BY <1>10
  <2>1. CASE i = 1
    BY <1>0, <1>2, <1>10, <2>0, <2>1, NewDataAbsorbs DEF Queue
  <2>2. CASE i # 1
    <3>1. i \in 2..Len(calls') /\ calls'[i] = calls[i]
      BY <1>10, <2>2
    <3>2. i \in 1..Len(calls) /\ j \in 1..Len(calls)
      BY <1>10
    <3>. QED
      BY <1>0, <2>0, <3>1, <3>2 DEF Queue, DataAbsorbed
  <2>. QED
    BY <2>1, <2>2
<1>. QED
  BY <1>11, <1>12, <1>13, <1>14 DEF Queue

-------------------------------------------------------------------------------
(* Steps that change what addresses have *)

\* Some addresses get their target, in order; no target changes.
Applied ==
  \A a \in Address :
    /\ Target(a)' = Target(a)
    /\ Lookup(a)' = Lookup(a) \/ (Lookup(a)' = Target(a) /\ Target(a) # Clash)
    /\ Lookup(a)' # Lookup(a) =>
         \A b \in Address : Before(b, a) => Lookup(b)' = Target(b)

\* A record is set: addresses that a later call reaches as well have their data
\* already.
LEMMA SetRecordApplied ==
  ASSUME MapInv, TypeOK', SetRecord
  PROVE  Applied /\ Queue'
<1>0. /\ TypeOK /\ Queue /\ OneRecordPerAddress
      /\ Found /\ Running /\ ~Descends /\ ~Croaks
      /\ NewData \in Data
      /\ calls' = <<>> \o Tail(calls)
  <2>1. Tail(calls) \in Seq(Call)
    BY CurrentProperties DEF SetRecord, Found, MapInv
  <2>. QED
    BY <2>1, NewDataType, ConcatEmptySeq DEF SetRecord, Found, MapInv
<1>1. /\ Len(calls) \in Nat \ {0} /\ Current = calls[1]
      /\ 1 \in 1..Len(calls)
      /\ Len(calls') = Len(calls) - 1
      /\ \A i \in 1..Len(calls') : calls'[i] = calls[i+1] /\ i+1 \in 2..Len(calls)
  <2>. DEFINE new == <<>>
  <2>1. new \in Seq(Call) /\ Len(new) = 0
    OBVIOUS
  <2>. HIDE DEF new
  <2>2. /\ Len(calls) \in Nat \ {0} /\ Current = calls[1]
        /\ Len(calls') = Len(new) + Len(calls) - 1
        /\ \A i \in Len(new) + 1 .. Len(calls') : calls'[i] = calls[i - Len(new) + 1]
    BY <1>0, <2>1, Replaced DEF new
  <2>. QED
    BY <2>1, <2>2
<1>2. ASSUME NEW a \in Address, Reaches(Current, a),
             NEW j \in 2..Len(calls), NEW b \in Address, Reaches(calls[j], b)
      PROVE  Before(a, b) \/ Lookup(a) = NewData
  <2>1. Before(a, b) \/ (~Current.merge /\ Lookup(a) = Current.data)
    BY <1>0, <1>1, <1>2 DEF Queue, CallsInOrder
  <2>. QED
    BY <2>1 DEF NewData, Merges
<1>3. \A a \in Address : Lookup(a)' = IF Reaches(Current, a) THEN NewData ELSE Lookup(a)
  BY <1>0, SetRecordLookup
<1>4. ASSUME NEW a \in Address, NEW j \in 2..Len(calls), Reaches(calls[j], a)
      PROVE  Lookup(a)' = Lookup(a)
  <2>1. ~Before(a, a)
    BY BeforeIsStrict
  <2>. QED
    BY <1>2, <1>3, <1>4, <2>1
<1>5. ASSUME NEW a \in Address, \A j \in 2..Len(calls) : ~Reaches(calls[j], a)
      PROVE  Target(a) = Lookup(a)'
  <2>1. CASE Reaches(Current, a)
    <3>1. Target(a) = Wanted(Current, Lookup(a))
      BY <1>0, <1>1, <1>5, <2>1, TargetIsWanted DEF TargetAt, ReachesLast
    <3>. QED
      BY <1>0, <1>3, <2>1, <3>1, CurrentGives
  <2>2. CASE ~Reaches(Current, a)
    <3>1. \A i \in 1..Len(calls) : ~Reaches(calls[i], a)
      BY <1>1, <1>5, <2>2
    <3>. QED
      BY <1>0, <1>3, <2>2, <3>1, TargetIsWanted DEF TargetAt
  <2>. QED
    BY <2>1, <2>2
<1>6. ASSUME NEW a \in Address PROVE Target(a)' = Target(a)
  <2>. DEFINE new == <<>>
  <2>1. new \in Seq(Call) /\ Len(new) = 0
    OBVIOUS
  <2>2. calls' = new \o Tail(calls)
    BY <1>0
  <2>. HIDE DEF new
  <2>3. (\A i \in 2..Len(calls) : ~Reaches(calls[i], a)) =>
           \/ \E i \in 1..Len(new) : /\ Reaches(new[i], a)
                                     /\ \A j \in i+1 .. Len(new) : ~Reaches(new[j], a)
                                     /\ Target(a) = Wanted(new[i], Lookup(a)')
           \/ (\A i \in 1..Len(new) : ~Reaches(new[i], a)) /\ Target(a) = Lookup(a)'
    BY <1>5, <2>1
  <2>4. (\E i \in 2..Len(calls) : Reaches(calls[i], a)) => Lookup(a)' = Lookup(a)
    BY <1>4
  <2>. QED
    BY <1>0, <2>1, <2>2, <2>3, <2>4, TargetKept DEF Queue
<1>7. ASSUME NEW a \in Address, Lookup(a)' # Lookup(a)
      PROVE  /\ Lookup(a)' = Target(a) /\ Target(a) # Clash
             /\ \A b \in Address : Before(b, a) => Lookup(b)' = Target(b)
  <2>1. Reaches(Current, a) /\ Lookup(a)' = NewData /\ Lookup(a) # NewData
    BY <1>3, <1>7
  <2>2. Lookup(a)' = Target(a) /\ NewData # Clash
    BY <1>0, <1>4, <1>5, <1>7, PayloadAssumption
  <2>3. ASSUME NEW b \in Address, Before(b, a)
        PROVE  Lookup(b)' = Target(b)
    <3>1. \A j \in 2..Len(calls) : ~Reaches(calls[j], b)
      BY <1>2, <2>1, <2>3, BeforeIsStrict
    <3>. QED
      BY <1>5, <3>1
  <2>. QED
    BY <2>1, <2>2, <2>3
<1>8. Applied
  BY <1>6, <1>7 DEF Applied
<1>9. \A i \in 1..Len(calls') : i+1 \in 1..Len(calls) /\ i \in Int
  BY <1>1
<1>10. CallsInTree'
  BY <1>0, <1>1, <1>9 DEF Queue, CallsInTree
<1>11. \A i \in 1..Len(calls') : calls'[i].merge
  BY <1>0, <1>1 DEF Queue, LaterCallsMerge
<1>12. LaterCallsMerge'
  BY <1>1, <1>11 DEF LaterCallsMerge
<1>13. CallsInOrder'
  <2>. SUFFICES ASSUME NEW i \in 1..Len(calls'), NEW j \in 1..Len(calls'),
                       NEW a \in Address, NEW b \in Address,
                       i < j, Reaches(calls'[i], a), Reaches(calls'[j], b)
                PROVE  Before(a, b)
    BY DEF CallsInOrder
  <2>1. i+1 \in 1..Len(calls) /\ j+1 \in 1..Len(calls) /\ i+1 < j+1
    BY <1>9
  <2>2. calls'[i] = calls[i+1] /\ calls'[j] = calls[j+1] /\ calls[i+1].merge
    BY <1>1, <1>11
  <2>. QED
    BY <1>0, <2>1, <2>2 DEF Queue, CallsInOrder
<1>14. DataAbsorbed'
  <2>. SUFFICES ASSUME NEW i \in 1..Len(calls'), NEW j \in 1..Len(calls'), i < j
                PROVE  Absorbs(calls'[i].data, calls'[j].data)
    BY DEF DataAbsorbed
  <2>1. i+1 \in 1..Len(calls) /\ j+1 \in 1..Len(calls) /\ i+1 < j+1
    BY <1>9
  <2>2. calls'[i] = calls[i+1] /\ calls'[j] = calls[j+1]
    BY <1>1
  <2>. QED
    BY <1>0, <2>1, <2>2 DEF Queue, DataAbsorbed
<1>. QED
  BY <1>8, <1>10, <1>12, <1>13, <1>14 DEF Queue

\* Steps of an insert do not change what it leaves in the end.
LEMMA NotFilledApplied ==
  ASSUME NotFilled, Applied, Running' => Running
  PROVE  NotFilled'
<1>1. ASSUME NEW a \in Address PROVE Final(a)' = Final(a)
  <2>1. /\ Target(a)' = Target(a)
        /\ Lookup(a)' = Lookup(a) \/ (Lookup(a)' = Target(a) /\ Target(a) # Clash)
    BY DEF Applied
  <2>2. Final(a)' = IF Target(a)' = Clash THEN Lookup(a)' ELSE Target(a)'
    BY DEF Final
  <2>. QED
    BY <2>1, <2>2 DEF Final
<1>. QED
  BY <1>1 DEF NotFilled

\* Addresses keep what they have, and nothing is wanted of them any more.
Dropped == \A a \in Address : Lookup(a)' = Lookup(a) /\ Target(a)' = Lookup(a)

\* A merge fails at the first address whose data it cannot merge.
Fails ==
  \E a \in Address :
    /\ Target(a) = Clash
    /\ \A b \in Address : Before(b, a) => Lookup(b) = Target(b)

\* No address comes before the first one of a network and belongs to it.
LEMMA FirstOfNetwork ==
  ASSUME NEW bytes \in Address, NEW n \in 1..Width,
         \A k \in n+1 .. Width : bytes[k] = 0,
         NEW a \in Address, Covers(bytes, n, a)
  PROVE  ~Before(a, bytes)
<1>. SUFFICES ASSUME NEW i \in 1..Width, a[i] < bytes[i] PROVE FALSE
  BY DEF Before
<1>1. a[i] \in Bit /\ bytes[i] \in Bit
  BY DEF Address
<1>2. i \in 1..n \/ i \in n+1 .. Width
  BY WidthAssumption
<1>. QED
  BY <1>1, <1>2 DEF Covers, Bit

\* No merge goes down below the last bit: what fails is a merge with other data.
LEMMA CroakIsClash ==
  ASSUME MapInv, Croak
  PROVE  Merges /\ ~Mergeable(RecordToSet, Current.data)
<1>0. TypeOK /\ CallsInTree /\ OneRecordPerAddress /\ Running /\ Croaks
  BY DEF Croak, Found, MapInv, Queue
<1>. SUFFICES ASSUME Descends, Current.mask >= Width PROVE FALSE
  BY <1>0 DEF Croaks
<1>1. Current = calls[1] /\ 1 \in 1..Len(calls)
  BY <1>0, EmptySeq DEF TypeOK, Running, Current
<1>2. Current.mask \in 1..Width /\ Current.mask = Width
  BY <1>0, <1>1, WidthAssumption DEF CallsInTree
<1>3. Current.bytes \in Address /\ record[Cut(Current.bytes, Width)] = Node
  BY <1>0, <1>2, CurrentProperties, DepthInTree DEF Call, Descends, RecordToSet
<1>4. PICK k \in 1..Width : RecordAt(Current.bytes, k)
  BY <1>0, <1>3 DEF OneRecordPerAddress
<1>5. record[Cut(Current.bytes, Width)] \in Leaf \cup {Absent}
  BY <1>4, WidthAssumption DEF RecordAt
<1>. QED
  BY <1>3, <1>5, TreeAssumption DEF Leaf

LEMMA CroakFails ==
  ASSUME MapInv, TypeOK', Croak
  PROVE  Fails /\ Dropped /\ Queue'
<1>. DEFINE first == Current.bytes
<1>0. /\ TypeOK /\ Queue /\ OneRecordPerAddress
      /\ Found /\ Running /\ Croaks /\ Current.merge
      /\ calls' = <<>> /\ UNCHANGED record
  BY DEF Croak, Found, MapInv, Croaks, Descends, Merges
<1>1. /\ Current = calls[1] /\ Len(calls) \in Nat \ {0} /\ 1 \in 1..Len(calls)
      /\ Current.mask \in 1..Width
      /\ \A k \in Current.mask + 1 .. Width : first[k] = 0
  <2>1. Current = calls[1] /\ Len(calls) \in Nat \ {0} /\ 1 \in 1..Len(calls)
    BY <1>0, EmptySeq DEF TypeOK, Running, Current
  <2>. QED
    BY <1>0, <2>1 DEF Queue, CallsInTree
<1>2. /\ first \in Address /\ Depth(Current.mask) = Current.mask
      /\ Place(Current) = Cut(first, Current.mask) /\ RecordToSet = record[Place(Current)]
  BY <1>0, <1>1, CurrentProperties, DepthInTree DEF Call, Place, RecordToSet
<1>3. Reaches(Current, first)
  BY <1>1, <1>2, CoversIsCut DEF Reaches
<1>4. ASSUME NEW j \in 2..Len(calls), NEW b \in Address, Reaches(calls[j], b)
      PROVE  Before(first, b)
  BY <1>0, <1>1, <1>2, <1>3, <1>4 DEF Queue, CallsInOrder
<1>5. ~Before(first, first)
  BY <1>2, BeforeIsStrict
<1>6. Target(first) = Wanted(Current, Lookup(first))
  BY <1>0, <1>1, <1>2, <1>3, <1>4, <1>5, TargetIsWanted DEF TargetAt, ReachesLast
<1>7. Merges /\ ~Mergeable(RecordToSet, Current.data)
  BY CroakIsClash
<1>8. Target(first) = Clash
  <2>1. RecordToSet \in Leaf /\ RecordToSet # Empty
    BY <1>7, PayloadAssumption DEF Merges, Leaf
  <2>2. Lookup(first) = RecordToSet
    BY <1>0, <1>1, <1>2, <2>1, LookupFindsLeaf
  <2>. QED
    BY <1>0, <1>6, <1>7, <2>1, <2>2 DEF Wanted
<1>9. ASSUME NEW b \in Address, Before(b, first)
       PROVE  Lookup(b) = Target(b)
  <2>1. ~Reaches(Current, b)
    BY <1>1, <1>2, <1>9, FirstOfNetwork DEF Reaches
  <2>2. \A j \in 2..Len(calls) : ~Reaches(calls[j], b)
    BY <1>2, <1>4, <1>9, BeforeIsStrict
  <2>3. \A i \in 1..Len(calls) : ~Reaches(calls[i], b)
    BY <1>1, <2>1, <2>2
  <2>. QED
    BY <1>0, <2>3, TargetIsWanted DEF TargetAt
<1>10. Fails
  BY <1>2, <1>8, <1>9 DEF Fails
<1>11. Dropped
  <2>. SUFFICES ASSUME NEW a \in Address
                PROVE  Lookup(a)' = Lookup(a) /\ Target(a)' = Lookup(a)
    BY DEF Dropped
  <2>1. Lookup(a)' = Lookup(a)
    BY <1>0, UnchangedLookup
  <2>2. \A i \in 1..Len(calls') : ~Reaches(calls'[i], a)
    BY <1>0
  <2>3. Target(a)' = Lookup(a)'
    BY <2>2, TargetIsWantedNext DEF TargetAt
  <2>. QED
    BY <2>1, <2>3
<1>12. Queue'
  BY <1>0 DEF Queue, CallsInTree, LaterCallsMerge, CallsInOrder, DataAbsorbed
<1>. QED
  BY <1>10, <1>11, <1>12

\* What an insert wants is fixed when it is called.
Inserted(bytes, mask, data) ==
  \A a \in Address :
    /\ Target(a) = Lookup(a) /\ Lookup(a)' = Lookup(a)
    /\ Target(a)' = IF Covers(bytes, mask, a) THEN Combine(Lookup(a), data) ELSE Lookup(a)

LEMMA InsertNetworkInserts ==
  ASSUME MapInv, TypeOK', NEW net \in Insertable, net[2] > 0, NEW data \in Inputs,
         ~Fills(net[1], net[2], data), InsertNetwork(net[1], net[2], data)
  PROVE  Inserted(net[1], net[2], data) /\ Queue' /\ NotFilled'
<1>. DEFINE new == [bytes |-> net[1], mask |-> net[2], data |-> data,
                    merge |-> MergeRecordCollisions]
<1>1. /\ net[1] \in Address /\ net[2] \in 1..Width
      /\ \A k \in net[2] + 1 .. Width : net[1][k] = 0
      /\ data \in Data
  BY TreeAssumption, WidthAssumption DEF Network
<1>2. /\ calls = <<>> /\ calls' = <<new>> /\ UNCHANGED record
      /\ Len(calls) = 0 /\ Len(calls') = 1 /\ calls'[1] = new
  BY DEF InsertNetwork, Running
<1>3. /\ new.bytes = net[1] /\ new.mask = net[2] /\ new.data = data
      /\ new.merge = MergeRecordCollisions /\ Depth(new.mask) = net[2]
  BY <1>1, DepthInTree
<1>. HIDE DEF new
<1>4. Queue'
  <2>1. CallsInTree' /\ LaterCallsMerge'
    BY <1>1, <1>2, <1>3 DEF CallsInTree, LaterCallsMerge
  <2>2. \A i, j \in 1..Len(calls') : ~(i < j)
    BY <1>2
  <2>3. CallsInOrder' /\ DataAbsorbed'
    BY <2>2 DEF CallsInOrder, DataAbsorbed
  <2>. QED
    BY <2>1, <2>3 DEF Queue
<1>5. ASSUME NEW a \in Address
      PROVE  /\ Target(a) = Lookup(a) /\ Lookup(a)' = Lookup(a)
             /\ Target(a)' = IF Covers(net[1], net[2], a) THEN Combine(Lookup(a), data)
                             ELSE Lookup(a)
  <2>1. Lookup(a)' = Lookup(a)
    BY <1>2, UnchangedLookup
  <2>2. Target(a) = Lookup(a)
    BY <1>2, TargetIsWanted DEF TargetAt, MapInv
  <2>3. Reaches(new, a) <=> Covers(net[1], net[2], a)
    BY <1>3 DEF Reaches
  <2>4. Wanted(new, Lookup(a)) = Combine(Lookup(a), data)
    BY <1>3, TreeAssumption DEF Wanted, Combine
  <2>5. Reaches(new, a) => Target(a)' = Wanted(new, Lookup(a)')
    <3>1. \A j \in 1+1 .. Len(calls') : ~Reaches(calls'[j], a)
      BY <1>2
    <3>. QED
      BY <1>2, <3>1, TargetIsWantedNext DEF TargetAt, ReachesLast
  <2>6. ~Reaches(new, a) => Target(a)' = Lookup(a)'
    BY <1>2, TargetIsWantedNext DEF TargetAt
  <2>. QED
    BY <2>1, <2>2, <2>3, <2>4, <2>5, <2>6
<1>6. Inserted(net[1], net[2], data)
  BY <1>5 DEF Inserted
<1>7. NotFilled'
  <2>. DEFINE After(a) == LET new1 == Combine(Lookup(a), data)
                          IN IF Covers(net[1], net[2], a) /\ new1 # Clash THEN new1
                             ELSE Lookup(a)
  <2>1. \A d \in Data : \E a \in Address : After(a) # d
    BY DEF Fills
  <2>2. ASSUME NEW a \in Address PROVE Final(a)' = After(a)
    <3>1. Final(a)' = IF Target(a)' = Clash THEN Lookup(a)' ELSE Target(a)'
      BY DEF Final
    <3>2. Lookup(a) # Clash
      BY LookupType DEF MapInv
    <3>. QED
      BY <1>5, <3>1, <3>2
  <2>. HIDE DEF After
  <2>. QED
    BY <2>1, <2>2 DEF NotFilled
<1>. QED
  BY <1>4, <1>6, <1>7

-------------------------------------------------------------------------------
(* The map *)

\* Callers insert no network of mask length 0.  (Merged into a whole tree, such
\* an insert may prune up to the root without having filled the address space;
\* the run any_network is about that.)
NoWholeSpace == \A net \in Insertable : net[2] > 0

LEMMA MapInvInit == Init => MapInv
<1>. SUFFICES ASSUME Init PROVE MapInv
  OBVIOUS
<1>1. TypeOK /\ OneRecordPerAddress
  BY TypeOKInit, OneRecordInit
<1>2. Len(calls) = 0 /\ ~Running
  BY DEF Init, Running
<1>3. Queue /\ NotFilled
  BY <1>2 DEF Queue, CallsInTree, LaterCallsMerge, CallsInOrder, DataAbsorbed, NotFilled
<1>. QED
  BY <1>1, <1>3 DEF MapInv

\* What every step does to what the addresses have and are to get.
MapStep ==
  \/ \E net \in Insertable, data \in Inputs : Inserted(net[1], net[2], data)
  \/ Applied
  \/ Fails /\ Dropped

\* A step gives addresses what they are to have, or fails.
LEMMA StepApplies ==
  ASSUME MapInv, Step
  PROVE  /\ MapInv'
         /\ Applied \/ (Fails /\ Dropped)
         /\ Croak => Fails /\ Dropped
<1>0. TypeOK /\ OneRecordPerAddress /\ Queue /\ NotFilled /\ TypeOK' /\ OneRecordPerAddress'
  BY TypeOKNext, OneRecordNext DEF MapInv, Next
<1>1. Kept => Applied
  BY DEF Kept, Applied
<1>2. CASE Croak
  <2>1. NotFilled'
    BY <1>2 DEF Croak, NotFilled, Running
  <2>2. Fails /\ Dropped /\ Queue'
    BY <1>0, <1>2, CroakFails
  <2>. QED
    BY <1>0, <2>1, <2>2 DEF MapInv
<1>3. CASE ~Croak
  <2>1. Step => MakeNextNode \/ MergeIntoNode \/ InsertIntoParent \/ SetRecord
    BY <1>3 DEF Step
  <2>2. Applied /\ Queue' /\ Running
    <3>1. CASE MakeNextNode
      BY <1>0, <1>1, <3>1, MakeNextNodeKept DEF MakeNextNode
    <3>2. CASE MergeIntoNode
      BY <1>0, <1>1, <3>2, MergeIntoNodeKept DEF MergeIntoNode, Found
    <3>3. CASE InsertIntoParent
      BY <1>0, <1>1, <3>3, InsertIntoParentKept DEF InsertIntoParent, Found
    <3>4. CASE SetRecord
      BY <1>0, <3>4, SetRecordApplied DEF SetRecord, Found
    <3>. QED
      BY <2>1, <3>1, <3>2, <3>3, <3>4
  <2>3. NotFilled'
    BY <1>0, <2>2, NotFilledApplied
  <2>. QED
    BY <1>0, <1>3, <2>2, <2>3 DEF MapInv
<1>. QED
  BY <1>2, <1>3

LEMMA MapInvSame ==
  ASSUME MapInv, UNCHANGED vars
  PROVE  MapInv' /\ Kept
<1>0. TypeOK /\ OneRecordPerAddress /\ Queue /\ NotFilled /\ TypeOK' /\ OneRecordPerAddress'
  BY TypeOKNext, OneRecordNext DEF MapInv
<1>1. calls' = calls /\ record' = record
  BY DEF vars
<1>2. \A a \in Address : Lookup(a)' = Lookup(a)
  BY <1>1, UnchangedLookup
<1>3. Kept
  BY <1>1, <1>2 DEF Kept, Target
<1>4. Queue'
  BY <1>0, <1>1, <1>2 DEF Queue, CallsInTree, LaterCallsMerge, CallsInOrder, DataAbsorbed
<1>5. Applied
  BY <1>3 DEF Kept, Applied
<1>6. NotFilled'
  BY <1>0, <1>1, <1>5, NotFilledApplied DEF Running
<1>. QED
  BY <1>0, <1>3, <1>4, <1>6 DEF MapInv

LEMMA MapInvNext ==
  NoWholeSpace /\ MapInv /\ [GapNext]_vars => MapInv' /\ MapStep
<1>. SUFFICES ASSUME NoWholeSpace, MapInv, [GapNext]_vars PROVE MapInv' /\ MapStep
  OBVIOUS
<1>0. TypeOK /\ OneRecordPerAddress /\ Queue /\ NotFilled /\ TypeOK' /\ OneRecordPerAddress'
  BY GapNextIsNext, TypeOKNext, OneRecordNext DEF MapInv
<1>1. ASSUME NEW net \in Insertable, NEW data \in Inputs,
             ~Fills(net[1], net[2], data), InsertNetwork(net[1], net[2], data)
      PROVE  MapInv' /\ MapStep
  BY <1>0, <1>1, InsertNetworkInserts DEF MapInv, MapStep, NoWholeSpace
<1>2. CASE Step
  BY <1>2, StepApplies DEF MapStep
<1>3. CASE UNCHANGED vars
  BY <1>3, MapInvSame DEF MapStep, Kept, Applied
<1>. QED
  BY <1>1, <1>2, <1>3 DEF GapNext

\* The map speaks of the same addresses and payloads.
LEMMA SameMap ==
  /\ Map!Address = Address
  /\ \A b, n, a : Map!Covers(b, n, a) = Covers(b, n, a)
  /\ \A a, b : Map!Before(a, b) = Before(a, b)
  /\ \A old, new : Map!Combine(MergeRecordCollisions, old, new) = Combine(old, new)
<1>1. Map!Address = Address
  BY DEF Map!Address, Address, Map!Bit, Bit
<1>2. \A b, n, a : Map!Covers(b, n, a) = Covers(b, n, a)
  BY DEF Map!Covers, Covers
<1>3. \A a, b : Map!Before(a, b) = Before(a, b)
  BY DEF Map!Before, Before
<1>4. \A old, new : Map!Mergeable(old, new) = Mergeable(old, new)
  BY DEF Map!Mergeable, Mergeable, Map!Hash, Hash
<1>5. \A old, new : Map!Merged(old, new) = Merged(old, new)
  BY DEF Map!Merged, Merged, Map!MergeHash, MergeHash
<1>6. \A old, new : Map!Combine(MergeRecordCollisions, old, new) = Combine(old, new)
  BY <1>4, <1>5 DEF Map!Combine, Combine
<1>. QED
  BY <1>1, <1>2, <1>3, <1>6

LEMMA MapStepIsNext == MapInv /\ MapInv' /\ MapStep => [Map!Next]_(Map!vars)
<1>. DEFINE db == [a \in Address |-> Lookup(a)]
            target == [a \in Address |-> Target(a)]
<1>. SUFFICES ASSUME MapInv, MapInv', MapStep PROVE Map!Next
  OBVIOUS
<1>1. \A a \in Address : db[a] = Lookup(a) /\ target[a] = Target(a)
  OBVIOUS
<1>2. \A a \in Address : db'[a] = Lookup(a)' /\ target'[a] = Target(a)'
  OBVIOUS
<1>3. ASSUME NEW net \in Insertable, NEW data \in Inputs, Inserted(net[1], net[2], data)
      PROVE  Map!Insert(net[1], net[2], data)
  <2>1. target = db /\ db' = db
    BY <1>3 DEF Inserted
  <2>2. target' = [a \in Map!Address |->
                     IF Map!Covers(net[1], net[2], a)
                     THEN Map!Combine(MergeRecordCollisions, db[a], data) ELSE db[a]]
    BY <1>1, <1>3, SameMap DEF Inserted
  <2>. QED
    BY <2>1, <2>2 DEF Map!Insert, Map!Idle
<1>4. CASE Applied
  <2>1. target' = target
    BY <1>4 DEF Applied
  <2>2. ASSUME NEW a \in Address
        PROVE  /\ db'[a] \in {db[a], target[a]} \ {Clash}
               /\ db'[a] # db[a] => \A b \in Address : Before(b, a) => db'[b] = target[b]
    BY <1>1, <1>2, <1>4, LookupType DEF Applied, MapInv
  <2>. HIDE DEF db, target
  <2>3. \A a \in Map!Address :
          /\ db'[a] \in {db[a], target[a]} \ {Clash}
          /\ db'[a] # db[a] =>
               \A b \in Map!Address : Map!Before(b, a) => db'[b] = target[b]
    BY <2>2, SameMap
  <2>. QED
    BY <2>1, <2>3 DEF Map!Next, Map!Apply, db, target
<1>5. CASE Fails /\ Dropped
  <2>1. target' = db /\ db' = db
    BY <1>5 DEF Dropped
  <2>2. \E a \in Map!Address :
          /\ target[a] = Clash
          /\ \A b \in Map!Address : Map!Before(b, a) => db[b] = target[b]
    BY <1>1, <1>5, SameMap DEF Fails
  <2>. QED
    BY <2>1, <2>2 DEF Map!Next, Map!Fail
<1>. QED
  BY <1>3, <1>4, <1>5 DEF MapStep, Map!Next

LEMMA MapInit == Init => Map!Init
<1>. SUFFICES ASSUME Init PROVE Map!Init
  OBVIOUS
<1>1. calls = <<>> /\ Len(calls) = 0 /\ TypeOK
  BY TypeOKInit DEF Init
<1>2. ASSUME NEW a \in Address PROVE Target(a) = Lookup(a) /\ Lookup(a) = Empty
  <2>1. Target(a) = Lookup(a)
    BY <1>1, TargetIsWanted DEF TargetAt
  <2>2. RecordAt(a, 1) /\ record[Cut(a, 1)] = Empty
    <3>1. \A m \in 1..Width : record[Cut(a, m)] = IF m = 1 THEN Empty ELSE Absent
      BY CutProperties DEF Init
    <3>. QED
      BY <3>1, WidthAssumption DEF RecordAt, Leaf
  <2>. QED
    BY <2>1, <2>2, LookupIsRecord, WidthAssumption DEF LookupAt
<1>. QED
  BY <1>2, SameMap DEF Map!Init

\* The calls of an insert are those for the right halves of the networks that
\* merges split, in the order of their addresses, and no mask length wraps.
THEOREM CallsQueue == NoWholeSpace => (GapSpec => []MapInv)
<1>. SUFFICES ASSUME NoWholeSpace PROVE GapSpec => []MapInv
  OBVIOUS
<1>1. MapInv /\ [GapNext]_vars => MapInv'
  BY MapInvNext
<1>. QED
  BY <1>1, MapInvInit, PTL DEF GapSpec

\* Inserts - split into halves, merged record by record, pruned upwards - do to
\* the addresses of their network what insert_network promises, from the lowest
\* up, and to no other; one that croaks leaves those before the clash done.
THEOREM MapImplemented == NoWholeSpace => (GapSpec => ImplementsMap)
<1>. SUFFICES ASSUME NoWholeSpace PROVE GapSpec => ImplementsMap
  OBVIOUS
<1>1. MapInv /\ [GapNext]_vars => MapInv' /\ [Map!Next]_(Map!vars)
  BY MapInvNext, MapStepIsNext
<1>. QED
  BY <1>1, MapInvInit, MapInit, PTL DEF GapSpec, ImplementsMap

-------------------------------------------------------------------------------
(* Between inserts the tree is the smallest one for its map, if no merge   *)
(* can fail: CanonicalWhenIdle.  The invariant says where two equal records *)
(* of one node can be while an insert runs: on the path of the current      *)
(* call, which will find them and prune their node.                         *)

\* The paths to a and b part at bit n, and the two records there are equal.
EqualPair(a, b, n) ==
  /\ Covers(a, n-1, b) /\ a[n] # b[n]
  /\ record[Cut(a, n)] \in Leaf
  /\ record[Cut(b, n)] = record[Cut(a, n)]

PairsOnPath ==
  \A a, b \in Address, n \in 2..Width :
    EqualPair(a, b, n) => /\ Running
                          /\ Covers(Current.bytes, n-1, a)
                          /\ n <= Current.mask \/ ~Current.merge

\* No merge can fail: the tree does not merge, or callers insert hashes only.
\* (A merge that croaks leaves the nodes it made on its way.)
NoClash == ~MergeRecordCollisions \/ Inputs \subseteq Hash

OverwriteCall == {call \in Call : ~call.merge}
HashCall == {call \in Call : call.data \in Hash}

MergesHashes ==
  IF MergeRecordCollisions
  THEN /\ calls \in Seq(HashCall)
       /\ \A p \in Prefix : record[p] \in Data => record[p] \in Hash
  ELSE calls \in Seq(OverwriteCall)

CanonicalInv == MapInv /\ MergesHashes /\ PairsOnPath

-------------------------------------------------------------------------------
(* No insert fails *)

LEMMA MergesHashesNext ==
  ASSUME NoClash, MapInv, MergesHashes, [GapNext]_vars
  PROVE  MergesHashes'
<1>. DEFINE Kind == IF MergeRecordCollisions THEN HashCall ELSE OverwriteCall
<1>0. TypeOK /\ TypeOK' /\ calls \in Seq(Kind)
  BY GapNextIsNext, TypeOKNext DEF MapInv, MergesHashes
<1>1. ASSUME Running
      PROVE  Current \in Kind /\ Current \in Call /\ Tail(calls) \in Seq(Kind)
  <2>. HIDE DEF Kind
  <2>. QED
    BY <1>0, <1>1, CurrentProperties, HeadTailProperties DEF Running, Current
<1>2. ASSUME calls' \in Seq(Kind), record' = record
      PROVE  MergesHashes'
  BY <1>2 DEF MergesHashes
<1>3. ASSUME Running, MergeRecordCollisions, ~Croaks
      PROVE  NewData \in Hash
  <2>1. CASE Merges
    BY <1>3, <2>1, MergedType DEF Croaks, NewData
  <2>2. CASE ~Merges
    BY <1>1, <1>3, <2>2 DEF NewData, HashCall
  <2>. QED
    BY <2>1, <2>2
<1>4. ASSUME NEW net \in Insertable, NEW data \in Inputs, InsertNetwork(net[1], net[2], data)
      PROVE  MergesHashes'
  <2>. DEFINE new == [bytes |-> net[1], mask |-> net[2], data |-> data,
                      merge |-> MergeRecordCollisions]
  <2>1. new \in Call
    BY TreeAssumption, MaskAssumption, WidthAssumption DEF Network, Call, MaskLength
  <2>2. new \in Kind
    BY <2>1 DEF NoClash, HashCall, OverwriteCall
  <2>3. calls' = <<new>> /\ record' = record
    BY <1>4 DEF InsertNetwork
  <2>. HIDE DEF new, Kind
  <2>. QED
    BY <1>2, <2>2, <2>3
<1>5. CASE MakeNextNode
  <2>1. PICK n \in 1 .. Depth(Current.mask) - 1 :
            record' = [q \in Prefix |->
                         IF q = Cut(Current.bytes, n) THEN Node
                         ELSE IF q \in Children(Cut(Current.bytes, n))
                              THEN NewNode(record[Cut(Current.bytes, n)])
                         ELSE record[q]]
    BY <1>5 DEF MakeNextNode
  <2>2. PICK p \in Prefix : p = Cut(Current.bytes, n)
    BY <1>0, <1>5, CurrentProperties, CutProperties, WidthAssumption DEF MakeNextNode, Call
  <2>3. \A q \in Prefix : record'[q] \in {Node, NewNode(record[p]), record[q]}
    BY <2>1, <2>2
  <2>4. Node \notin Data /\ (NewNode(record[p]) \in Data => NewNode(record[p]) = record[p])
    BY TreeAssumption, PayloadAssumption DEF NewNode
  <2>5. calls' = calls
    BY <1>5 DEF MakeNextNode
  <2>. QED
    BY <2>2, <2>3, <2>4, <2>5 DEF MergesHashes
<1>6. CASE MergeIntoNode
  <2>. DEFINE left == [Current EXCEPT !.mask = @ + 1]
              right == [left EXCEPT !.bytes = SetBit(@, left.mask)]
              new == <<left, right>>
  <2>1. Running /\ record' = record /\ calls' = new \o Tail(calls)
    BY <1>6 DEF MergeIntoNode, Found
  <2>2. /\ left.data = Current.data /\ right.data = Current.data
        /\ left.merge = Current.merge /\ right.merge = Current.merge
    BY <1>1, <2>1 DEF Call
  <2>. HIDE DEF left, right
  <2>3. left \in Call /\ right \in Call
    <3>1. calls' \in Seq(Call) /\ Len(calls') = 2 + Len(Tail(calls))
          /\ calls'[1] = left /\ calls'[2] = right
      BY <1>0, <1>1, <2>1, ConcatProperties DEF TypeOK
    <3>. QED
      BY <1>1, <2>1, <3>1
  <2>4. left \in Kind /\ right \in Kind
    BY <1>1, <2>1, <2>2, <2>3 DEF HashCall, OverwriteCall
  <2>. HIDE DEF Kind
  <2>5. new \in Seq(Kind)
    BY <2>4
  <2>6. new \o Tail(calls) \in Seq(Kind)
    BY <1>1, <2>1, <2>5, ConcatProperties
  <2>. QED
    BY <1>2, <2>1, <2>6
<1>7. CASE InsertIntoParent
  <2>. DEFINE parent == [Current EXCEPT !.mask = ParentMask(@), !.data = NewData,
                                        !.merge = FALSE]
  <2>1. Running /\ ~Croaks /\ record' = record /\ calls' = <<parent>> \o Tail(calls)
    BY <1>7 DEF InsertIntoParent, Found
  <2>2. parent.data = NewData /\ parent.merge = FALSE
    BY <1>1, <2>1 DEF Call
  <2>3. parent \in Call
    <3>1. ParentMask(Current.mask) \in MaskLength
      BY <1>1, <2>1, MaskAssumption DEF ParentMask, Call, MaskLength
    <3>. QED
      BY <1>0, <1>1, <2>1, <3>1, NewDataType DEF Call
  <2>. HIDE DEF parent
  <2>4. parent \in Kind
    BY <1>3, <2>1, <2>2, <2>3 DEF HashCall, OverwriteCall
  <2>. HIDE DEF Kind
  <2>5. <<parent>> \o Tail(calls) \in Seq(Kind)
    BY <1>1, <2>1, <2>4, ConcatProperties
  <2>. QED
    BY <1>2, <2>1, <2>5
<1>8. CASE SetRecord
  <2>1. Running /\ ~Croaks /\ calls' = Tail(calls)
        /\ \A q \in Prefix : record'[q] \in {NewData, Absent, record[q]}
    BY <1>8 DEF SetRecord, Found
  <2>2. Absent \notin Data
    BY TreeAssumption
  <2>. QED
    BY <1>1, <1>3, <2>1, <2>2 DEF MergesHashes
<1>9. CASE Croak
  BY <1>2, <1>9 DEF Croak
<1>10. CASE UNCHANGED vars
  BY <1>10 DEF vars, MergesHashes
<1>. QED
  BY <1>4, <1>5, <1>6, <1>7, <1>8, <1>9, <1>10 DEF GapNext, Step

LEMMA NoCroak ==
  ASSUME MapInv, MergesHashes
  PROVE  ~Croak
<1>. SUFFICES ASSUME Croak PROVE FALSE
  OBVIOUS
<1>1. Running /\ Merges /\ ~Mergeable(RecordToSet, Current.data) /\ TypeOK
  BY CroakIsClash DEF Croak, Found, MapInv
<1>2. CASE MergeRecordCollisions
  <2>1. Current \in HashCall
    BY <1>1, <1>2, HeadTailProperties DEF MergesHashes, Running, Current
  <2>2. RecordToSet \in Hash
    BY <1>1, <1>2, CurrentProperties DEF MergesHashes, Merges, RecordToSet
  <2>. QED
    BY <1>1, <2>1, <2>2 DEF HashCall, Mergeable
<1>3. CASE ~MergeRecordCollisions
  <2>1. Current \in OverwriteCall
    BY <1>1, <1>3, HeadTailProperties DEF MergesHashes, Running, Current
  <2>. QED
    BY <1>1, <2>1 DEF OverwriteCall, Merges
<1>. QED
  BY <1>2, <1>3

-------------------------------------------------------------------------------
(* Where equal records are *)

\* Equal records are the records of all the addresses below their node.
LEMMA PairBelow ==
  ASSUME TypeOK, OneRecordPerAddress, NEW a \in Address, NEW b \in Address, NEW n \in 2..Width,
         EqualPair(a, b, n), NEW c \in Address, Covers(c, n-1, a)
  PROVE  RecordAt(c, n)
<1>1. n \in 1..Width /\ n-1 \in 1..Width /\ n \in Int
  BY WidthAssumption
<1>2. a[n] \in Bit /\ b[n] \in Bit /\ c[n] \in Bit
  BY <1>1 DEF Address
<1>3. c[n] = a[n] \/ c[n] = b[n]
  BY <1>2 DEF EqualPair, Bit
<1>4. \A i \in 1..n : i \in 1 .. n-1 \/ i = n
  BY <1>1
<1>5. Cut(c, n) = Cut(a, n) \/ Cut(c, n) = Cut(b, n)
  <2>1. CASE c[n] = a[n]
    <3>1. \A i \in 1..n : c[i] = a[i]
      BY <1>4, <2>1 DEF Covers
    <3>. QED
      BY <1>1, <3>1, CutEqual
  <2>2. CASE c[n] = b[n]
    <3>1. \A i \in 1..n : c[i] = b[i]
      BY <1>4, <2>2 DEF Covers, EqualPair
    <3>. QED
      BY <1>1, <3>1, CutEqual
  <2>. QED
    BY <1>3, <2>1, <2>2
<1>6. record[Cut(c, n)] \in Leaf
  BY <1>5 DEF EqualPair
<1>7. PICK k \in 1..Width : RecordAt(c, k)
  BY DEF OneRecordPerAddress
<1>. QED
  BY <1>1, <1>6, <1>7, LeafIsRecord

\* Equal records that a call finds on its path are at its place, or below a place
\* that it is going to overwrite.
LEMMA FoundPair ==
  ASSUME MapInv, PairsOnPath, Found,
         NEW a \in Address, NEW b \in Address, NEW n \in 2..Width, EqualPair(a, b, n)
  PROVE  /\ Current.bytes \in Address /\ Current.mask \in 1..Width
         /\ Depth(Current.mask) = Current.mask
         /\ Place(Current) = Cut(Current.bytes, Current.mask)
         /\ Covers(Current.bytes, n-1, a)
         /\ RecordAt(Current.bytes, n)
         /\ Current.mask <= n /\ (Current.mask = n \/ ~Current.merge)
<1>0. TypeOK /\ OneRecordPerAddress /\ Running /\ CallsInTree
  BY DEF MapInv, Queue, Found
<1>1. Current = calls[1] /\ 1 \in 1..Len(calls)
  BY <1>0, EmptySeq DEF TypeOK, Running, Current
<1>2. /\ Current.bytes \in Address /\ Current.mask \in 1..Width
      /\ Depth(Current.mask) = Current.mask
      /\ Place(Current) = Cut(Current.bytes, Current.mask)
  BY <1>0, <1>1, CurrentProperties, DepthInTree DEF CallsInTree, Call
<1>3. Covers(Current.bytes, n-1, a) /\ (n <= Current.mask \/ ~Current.merge)
  BY DEF PairsOnPath
<1>4. RecordAt(Current.bytes, n)
  BY <1>0, <1>2, <1>3, PairBelow
<1>5. Current.mask <= n
  BY <1>2, <1>4, PresentIsAbove DEF Found, RecordToSet
<1>. QED
  BY <1>2, <1>3, <1>4, <1>5

LEMMA PairsMakeNextNode ==
  ASSUME MapInv, PairsOnPath, MakeNextNode
  PROVE  PairsOnPath'
<1>0. TypeOK /\ CallsInTree /\ Running /\ calls' = calls
  BY DEF MapInv, Queue, MakeNextNode
<1>1. Current = calls[1] /\ 1 \in 1..Len(calls)
  BY <1>0, EmptySeq DEF TypeOK, Running, Current
<1>2. Current.bytes \in Address /\ Current.mask \in 1..Width /\ Depth(Current.mask) = Current.mask
  BY <1>0, <1>1, CurrentProperties, DepthInTree DEF CallsInTree, Call
<1>3. PICK k \in 1 .. Current.mask - 1 :
        /\ k \in 1 .. Width-1
        /\ \A a \in Address, m \in 1..Width :
             record'[Cut(a, m)] =
               IF Cut(a, k) # Cut(Current.bytes, k) THEN record[Cut(a, m)]
               ELSE IF m = k THEN Node
               ELSE IF m = k+1 THEN record[Cut(Current.bytes, k)]
               ELSE record[Cut(a, m)]
  BY <1>0, <1>2, MakeNextNodeAt
<1>. SUFFICES ASSUME NEW a \in Address, NEW b \in Address, NEW n \in 2..Width,
                     EqualPair(a, b, n)'
              PROVE  Covers(Current.bytes, n-1, a) /\ (n <= Current.mask \/ ~Current.merge)
  BY <1>0 DEF PairsOnPath, Running, Current
<1>4. /\ Covers(a, n-1, b) /\ a[n] # b[n]
      /\ record'[Cut(a, n)] \in Leaf /\ record'[Cut(b, n)] = record'[Cut(a, n)]
  BY DEF EqualPair
<1>5. n \in 1..Width /\ n-1 \in 1..Width /\ k \in Int /\ n \in Int /\ k \in 1..Width
  BY <1>3, WidthAssumption
<1>6. Node \notin Leaf
  BY TreeAssumption DEF Leaf
<1>7. CASE n = k+1 /\ Cut(a, k) = Cut(Current.bytes, k)
  <2>1. Covers(Current.bytes, n-1, a)
    BY <1>2, <1>5, <1>7, CoversIsCut
  <2>. QED
    BY <1>2, <1>5, <1>7, <2>1
<1>8. CASE ~(n = k+1 /\ Cut(a, k) = Cut(Current.bytes, k))
  <2>1. k <= n-1 => (Cut(a, k) = Cut(b, k))
    <3>. SUFFICES ASSUME k <= n-1 PROVE Cut(a, k) = Cut(b, k)
      OBVIOUS
    <3>1. \A i \in 1..k : a[i] = b[i]
      BY <1>4, <1>5 DEF Covers
    <3>. QED
      BY <1>5, <3>1, CutEqual
  <2>2. record'[Cut(a, n)] = record[Cut(a, n)]
    BY <1>3, <1>4, <1>5, <1>6, <1>8
  <2>3. record'[Cut(b, n)] = record[Cut(b, n)]
    BY <1>3, <1>4, <1>5, <1>6, <1>8, <2>1
  <2>4. EqualPair(a, b, n)
    BY <1>4, <2>2, <2>3 DEF EqualPair
  <2>. QED
    BY <2>4 DEF PairsOnPath
<1>. QED
  BY <1>7, <1>8

\* No pair is left when a call sets its record.
LEMMA PairsSetRecord ==
  ASSUME MapInv, PairsOnPath, SetRecord
  PROVE  PairsOnPath'
<1>0. TypeOK /\ Running /\ Found /\ ~Prunes /\ CallsInTree /\ OneRecordPerAddress
  BY DEF MapInv, SetRecord, Found, Queue
<1>. SUFFICES ASSUME NEW a \in Address, NEW b \in Address, NEW n \in 2..Width,
                     EqualPair(a, b, n)'
              PROVE  FALSE
  BY DEF PairsOnPath
<1>. DEFINE bytes == Current.bytes
            d == Current.mask
<1>1. Current = calls[1] /\ 1 \in 1..Len(calls)
  BY <1>0, EmptySeq DEF TypeOK, Running, Current
<1>2. bytes \in Address /\ d \in 1..Width /\ Depth(d) = d /\ Place(Current) = Cut(bytes, d)
  BY <1>0, <1>1, CurrentProperties, DepthInTree DEF CallsInTree, Call
<1>. HIDE DEF bytes
<1>3. \A c \in Address, m \in 1..Width :
        record'[Cut(c, m)] = IF Cut(c, d) # Place(Current) THEN record[Cut(c, m)]
                             ELSE IF m = d THEN NewData
                             ELSE IF d < m THEN Absent
                             ELSE record[Cut(c, m)]
  BY <1>0, <1>2, SetRecordAt
<1>4. /\ Covers(a, n-1, b) /\ a[n] # b[n]
      /\ record'[Cut(a, n)] \in Leaf /\ record'[Cut(b, n)] = record'[Cut(a, n)]
  BY DEF EqualPair
<1>. HIDE DEF d
<1>5. n \in 1..Width /\ d \in Int /\ n \in Int /\ Absent \notin Leaf /\ Absent # NewData
  BY <1>0, <1>2, NewDataType, TreeAssumption DEF Leaf, SetRecord
<1>6. \A c, e \in Address : Covers(c, n-1, e) /\ c[n] # e[n] /\ Cut(c, n) = Place(Current)
        => n = d /\ Cut(e, d) # Place(Current) /\ record[Cut(e, n)] # NewData
  <2>. SUFFICES ASSUME NEW c \in Address, NEW e \in Address,
                       Covers(c, n-1, e), c[n] # e[n], Cut(c, n) = Place(Current)
                PROVE  n = d /\ Cut(e, d) # Place(Current) /\ record[Cut(e, n)] # NewData
    OBVIOUS
  <2>1. n = d
    BY <1>2, <1>5, CutDepth
  <2>2. Cut(e, n) = Sibling(Place(Current))
    BY <1>5, SiblingIsCut
  <2>3. Cut(e, n) # Cut(c, n)
    BY <1>5, CutEqual
  <2>. QED
    BY <1>0, <2>1, <2>2, <2>3 DEF Prunes, OtherRecord
<1>7. Covers(b, n-1, a)
  BY <1>4 DEF Covers
<1>8. Cut(a, n) # Place(Current) /\ Cut(b, n) # Place(Current)
  BY <1>3, <1>4, <1>5, <1>6, <1>7
<1>9. ASSUME d < n
      PROVE  Cut(a, d) = Cut(b, d) /\ Cut(a, d) # Place(Current)
  <2>1. \A i \in 1..d : a[i] = b[i]
    BY <1>4, <1>5, <1>9 DEF Covers
  <2>. QED
    BY <1>2, <1>3, <1>4, <1>5, <1>9, <2>1, CutEqual
<1>10. record'[Cut(a, n)] = record[Cut(a, n)] /\ record'[Cut(b, n)] = record[Cut(b, n)]
  BY <1>3, <1>5, <1>8, <1>9
<1>11. EqualPair(a, b, n)
  BY <1>4, <1>10 DEF EqualPair
<1>12. Covers(bytes, n-1, a) /\ d <= n
  BY <1>0, <1>11, FoundPair DEF bytes, d
<1>13. CASE d < n
  <2>1. \A i \in 1..d : a[i] = bytes[i]
    BY <1>5, <1>12, <1>13 DEF Covers
  <2>. QED
    BY <1>2, <1>9, <1>13, <2>1, CutEqual
<1>14. CASE d = n
  <2>1. bytes[n] \in Bit /\ a[n] \in Bit /\ b[n] \in Bit
    BY <1>2, <1>5 DEF Address
  <2>2. bytes[n] = a[n] \/ bytes[n] = b[n]
    BY <1>4, <2>1 DEF Bit
  <2>3. \A i \in 1..n : i \in 1 .. n-1 \/ i = n
    BY <1>5
  <2>4. (\A i \in 1..n : bytes[i] = a[i]) \/ (\A i \in 1..n : bytes[i] = b[i])
    BY <1>4, <1>12, <2>2, <2>3 DEF Covers
  <2>. QED
    BY <1>2, <1>5, <1>8, <1>14, <2>4, CutEqual
<1>. QED
  BY <1>5, <1>12, <1>13, <1>14

LEMMA PairsNext ==
  ASSUME MapInv, MergesHashes, PairsOnPath, [GapNext]_vars
  PROVE  PairsOnPath'
<1>0. TypeOK
  BY DEF MapInv
<1>1. CASE MakeNextNode
  BY <1>1, PairsMakeNextNode
<1>2. CASE SetRecord
  BY <1>2, PairsSetRecord
<1>3. ~Croak
  BY NoCroak
<1>4. ASSUME record' = record, NEW a \in Address, NEW b \in Address, NEW n \in 2..Width,
             EqualPair(a, b, n)'
      PROVE  EqualPair(a, b, n)
  BY <1>4 DEF EqualPair
<1>5. CASE \E net \in Insertable, data \in Inputs : InsertNetwork(net[1], net[2], data)
  BY <1>4, <1>5 DEF PairsOnPath, InsertNetwork
<1>6. CASE MergeIntoNode
  <2>. SUFFICES ASSUME NEW a \in Address, NEW b \in Address, NEW n \in 2..Width,
                       EqualPair(a, b, n)
                PROVE  FALSE
    BY <1>4, <1>6 DEF PairsOnPath, MergeIntoNode
  <2>1. record[Cut(Current.bytes, n)] = Node
    BY <1>6, FoundPair DEF MergeIntoNode, Descends, RecordToSet
  <2>2. RecordAt(Current.bytes, n)
    BY <1>6, FoundPair DEF MergeIntoNode
  <2>. QED
    BY <2>1, <2>2, TreeAssumption DEF RecordAt, Leaf
<1>7. CASE InsertIntoParent
  <2>1. /\ record' = record /\ Current \in Call /\ Tail(calls) \in Seq(Call)
        /\ calls' = <<[Current EXCEPT !.mask = ParentMask(@), !.data = NewData,
                                      !.merge = FALSE]>> \o Tail(calls)
    BY <1>0, <1>7, CurrentProperties DEF InsertIntoParent, Found
  <2>2. Running' /\ Current'.bytes = Current.bytes /\ ~Current'.merge
    <3>. DEFINE parent == [Current EXCEPT !.mask = ParentMask(@), !.data = NewData,
                                          !.merge = FALSE]
    <3>1. parent.bytes = Current.bytes /\ parent.merge = FALSE
      BY <2>1 DEF Call
    <3>. HIDE DEF parent
    <3>2. calls' # <<>> /\ Head(calls') = parent
      <4>1. parent \in {parent} \cup Call /\ Tail(calls) \in Seq({parent} \cup Call)
        BY <2>1
      <4>. QED
        BY <2>1, <4>1, ConcatProperties DEF parent
    <3>. QED
      BY <3>1, <3>2 DEF Running, Current
  <2>. QED
    BY <1>4, <2>1, <2>2 DEF PairsOnPath
<1>8. CASE UNCHANGED vars
  BY <1>4, <1>8 DEF vars, PairsOnPath, Running, Current
<1>. QED
  BY <1>1, <1>2, <1>3, <1>5, <1>6, <1>7, <1>8 DEF GapNext, Step

LEMMA CanonicalInvInit == Init => CanonicalInv
<1>. SUFFICES ASSUME Init PROVE MergesHashes /\ PairsOnPath
  BY MapInvInit DEF CanonicalInv
<1>1. MergesHashes
  <2>1. \A p \in Prefix : record[p] \in {Empty, Absent}
    BY DEF Init
  <2>2. calls = <<>>
    BY DEF Init
  <2>. QED
    BY <2>1, <2>2, PayloadAssumption, TreeAssumption DEF MergesHashes
<1>2. \A a \in Address, n \in 2..Width : record[Cut(a, n)] = Absent
  BY CutProperties, WidthAssumption DEF Init
<1>3. PairsOnPath
  BY <1>2, TreeAssumption DEF PairsOnPath, EqualPair, Leaf
<1>. QED
  BY <1>1, <1>3

-------------------------------------------------------------------------------
(* The smallest tree *)

\* The records of the addresses below a node are not all equal: two of the
\* deepest would be a pair.
LEMMA NodesSplit ==
  ASSUME OneRecordPerAddress, PairsOnPath, ~Running,
         NEW a \in Address, NEW n \in 1..Width, record[Cut(a, n)] = Node, NEW d
  PROVE  \E b \in Address : Cut(b, n) = Cut(a, n) /\ Lookup(b) # d
<1>. SUFFICES ASSUME \A b \in Address : Cut(b, n) = Cut(a, n) => Lookup(b) = d
              PROVE  FALSE
  OBVIOUS
<1>. DEFINE Depths == {k \in 1..Width : \E b \in Address : Cut(b, n) = Cut(a, n) /\ RecordAt(b, k)}
<1>1. Node \notin Leaf /\ Absent \notin Leaf /\ Node # Absent
  BY TreeAssumption DEF Leaf
<1>2. ASSUME NEW b \in Address, Cut(b, n) = Cut(a, n), NEW k \in 1..Width, RecordAt(b, k)
      PROVE  k > n
  <2>1. record[Cut(b, n)] = Node
    BY <1>2
  <2>. QED
    BY <1>1, <1>2, <2>1, WidthAssumption DEF RecordAt
<1>3. PICK k0 \in 1..Width : RecordAt(a, k0)
  BY DEF OneRecordPerAddress
<1>4. k0 \in Depths
  BY <1>3
<1>5. PICK m \in Depths : \A k \in Depths : k <= m
  <2>1. Depths \in SUBSET (1..Width) /\ Depths # {}
    BY <1>4
  <2>. HIDE DEF Depths
  <2>. QED
    BY <2>1, Greatest
<1>6. PICK b \in Address : Cut(b, n) = Cut(a, n) /\ RecordAt(b, m)
  OBVIOUS
<1>7. m \in 2..Width /\ n < m /\ m \in 1..Width
  BY <1>2, <1>6, WidthAssumption
<1>. DEFINE c == [b EXCEPT ![m] = 1 - b[m]]
<1>8. c \in Address /\ c[m] # b[m] /\ \A i \in 1 .. m-1 : c[i] = b[i]
  <2>1. b[m] \in Bit /\ 1 - b[m] \in Bit /\ 1 - b[m] # b[m]
    BY <1>7 DEF Address, Bit
  <2>. QED
    BY <1>7, <2>1 DEF Address
<1>. HIDE DEF c
<1>9. \A i \in 1 .. m-1 : i \in 1..Width /\ Cut(c, i) = Cut(b, i)
  BY <1>7, <1>8, CutEqual, WidthAssumption
<1>10. PICK k \in 1..Width : RecordAt(c, k)
  BY <1>8 DEF OneRecordPerAddress
<1>11. Cut(c, n) = Cut(a, n)
  BY <1>6, <1>7, <1>9, WidthAssumption
<1>12. k <= m
  BY <1>5, <1>8, <1>10, <1>11
<1>13. k = m
  <2>. SUFFICES ASSUME k < m PROVE FALSE
    BY <1>7, <1>12
  <2>1. record[Cut(b, k)] = Node
    BY <1>6, <1>7 DEF RecordAt
  <2>2. Cut(c, k) = Cut(b, k)
    BY <1>7, <1>9
  <2>. QED
    BY <1>1, <1>10, <2>1, <2>2 DEF RecordAt
<1>14. record[Cut(c, m)] = d /\ record[Cut(b, m)] = d
  BY <1>6, <1>8, <1>10, <1>11, <1>13, LookupIsRecord DEF LookupAt
<1>15. EqualPair(b, c, m)
  BY <1>6, <1>8, <1>14 DEF EqualPair, Covers, RecordAt
<1>. QED
  BY <1>7, <1>8, <1>15 DEF PairsOnPath

\* All addresses below the record of an address have what a lookup of it finds.
LEMMA BelowRecord ==
  ASSUME OneRecordPerAddress, NEW a \in Address, NEW k \in 1..Width, RecordAt(a, k),
         NEW n \in k..Width, NEW b \in Address, Cut(b, n) = Cut(a, n)
  PROVE  Lookup(b) = record[Cut(a, k)]
<1>1. n \in 1..Width /\ \A i \in 1..k : i \in 1..n
  BY WidthAssumption
<1>2. \A i \in 1..k : b[i] = a[i]
  BY <1>1, CutEqual
<1>3. Cut(b, k) = Cut(a, k)
  BY <1>2, CutEqual
<1>. QED
  BY <1>3, LookupFindsLeaf DEF RecordAt

LEMMA PairsGiveCanonical ==
  ASSUME OneRecordPerAddress, PairsOnPath, ~Running, NEW p \in Prefix
  PROVE  record[p] = Canonical(p)
<1>1. PICK a \in Address, n \in 1..Width : p = Cut(a, n) /\ Len(p) = n
  BY PrefixIsCut
<1>2. PICK k \in 1..Width : RecordAt(a, k)
  BY DEF OneRecordPerAddress
<1>3. k \in Nat /\ n \in Nat /\ n >= 1 /\ k >= 1
  BY WidthAssumption
<1>. DEFINE Under(q) == {b \in Address : Cut(b, Len(q)) = q}
            Uniform(q) == \E d \in Leaf : \A b \in Under(q) : Lookup(b) = d
            common == CHOOSE d \in Leaf : \A b \in Under(p) : Lookup(b) = d
<1>4. ASSUME NEW m \in 1..Width
      PROVE  Uniform(Cut(a, m)) <=> k <= m
  <2>0. Len(Cut(a, m)) = m
    BY CutProperties
  <2>1. CASE k <= m
    <3>1. m \in k..Width
      BY <1>3, <2>1
    <3>2. \A b \in Under(Cut(a, m)) : Lookup(b) = record[Cut(a, k)]
      BY <1>2, <2>0, <3>1, BelowRecord
    <3>. QED
      BY <1>2, <2>1, <3>2 DEF RecordAt
  <2>2. CASE ~(k <= m)
    <3>1. record[Cut(a, m)] = Node
      BY <1>2, <1>3, <2>2 DEF RecordAt
    <3>2. \A d : \E b \in Address : Cut(b, m) = Cut(a, m) /\ Lookup(b) # d
      BY <3>1, NodesSplit
    <3>. QED
      BY <2>0, <2>2, <3>2
  <2>. QED
    BY <2>1, <2>2
<1>5. Canonical(p) = IF Len(p) > 1 /\ Uniform(Cut(p, Len(p) - 1)) THEN Absent
                     ELSE IF Uniform(p) THEN common ELSE Node
  BY DEF Canonical
<1>6. n > 1 => Cut(p, n-1) = Cut(a, n-1)
  <2>. SUFFICES ASSUME n > 1 PROVE Cut(p, n-1) = Cut(a, n-1)
    OBVIOUS
  <2>1. p \in Seq(Bit) /\ Len(p) = n /\ \A i \in 1..n : p[i] = a[i]
    BY <1>1, CutProperties
  <2>2. /\ Cut(p, n-1) \in Seq(Bit) /\ Len(Cut(p, n-1)) = n-1
        /\ \A i \in 1 .. n-1 : Cut(p, n-1)[i] = p[i]
    <3>1. \A i \in 1 .. n-1 : p[i] \in Bit
      BY <1>3, <2>1 DEF Address
    <3>. QED
      BY <1>3, <2>1, <3>1, SubSeqProperties DEF Cut
  <2>3. n-1 \in 1..Width
    BY <1>3, WidthAssumption
  <2>4. /\ Cut(a, n-1) \in Seq(Bit) /\ Len(Cut(a, n-1)) = n-1
        /\ \A i \in 1 .. n-1 : Cut(a, n-1)[i] = a[i]
    BY <2>3, CutProperties
  <2>5. \A i \in 1 .. n-1 : Cut(p, n-1)[i] = Cut(a, n-1)[i]
    BY <1>3, <2>1, <2>2, <2>4
  <2>. QED
    BY <2>2, <2>4, <2>5, SeqEqual
<1>7. Len(p) > 1 /\ Uniform(Cut(p, Len(p) - 1)) <=> k < n
  <2>1. n > 1 => n-1 \in 1..Width /\ (k <= n-1 <=> k < n)
    BY <1>3, WidthAssumption
  <2>. HIDE DEF Uniform
  <2>. QED
    BY <1>1, <1>3, <1>4, <1>6, <2>1
<1>8. Uniform(p) <=> k <= n
  BY <1>1, <1>4
<1>9. CASE k < n
  BY <1>1, <1>2, <1>3, <1>5, <1>7, <1>9 DEF RecordAt
<1>10. CASE k > n
  <2>1. record[Cut(a, n)] = Node
    BY <1>2, <1>3, <1>10 DEF RecordAt
  <2>. HIDE DEF Uniform
  <2>. QED
    BY <1>1, <1>3, <1>5, <1>7, <1>8, <1>10, <2>1
<1>11. CASE k = n
  <2>1. n \in k..Width
    BY <1>11
  <2>2. \A b \in Under(p) : Lookup(b) = record[p]
    BY <1>1, <1>2, <1>11, <2>1, BelowRecord
  <2>3. a \in Under(p) /\ record[p] \in Leaf
    BY <1>1, <1>2, <1>11 DEF RecordAt
  <2>. HIDE DEF Under
  <2>4. common = record[p]
    BY <2>2, <2>3
  <2>. HIDE DEF Uniform, common
  <2>. QED
    BY <1>3, <1>5, <1>7, <1>8, <1>11, <2>4
<1>. QED
  BY <1>3, <1>9, <1>10, <1>11

\* Whatever was inserted in whatever order and pieces, between inserts no node
\* has two equal records: the tree depends on its map only.
THEOREM CanonicalTree == NoWholeSpace /\ NoClash => (GapSpec => []CanonicalWhenIdle)
<1>. SUFFICES ASSUME NoWholeSpace, NoClash PROVE GapSpec => []CanonicalWhenIdle
  OBVIOUS
<1>1. CanonicalInv /\ [GapNext]_vars => CanonicalInv'
  BY MapInvNext, MergesHashesNext, PairsNext DEF CanonicalInv
<1>2. CanonicalInv => CanonicalWhenIdle
  BY PairsGiveCanonical DEF CanonicalInv, MapInv, CanonicalWhenIdle
<1>. QED
  BY <1>1, <1>2, CanonicalInvInit, PTL DEF GapSpec
===============================================================================
