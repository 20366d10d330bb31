------------------------------- MODULE HeapProofs -------------------------------
(***************************************************************************)
(* Theorems about the nodes and pointers of the tree, for every width, set *)
(* of payloads and of networks, list of aliases and number of nodes:       *)
(*                                                                         *)
(*  - they stay well formed when networks are inserted and IPv4 networks   *)
(*    aliased: HeapTypeOK and NodesFormTree are invariants of AliasSpec;   *)
(*  - without aliases they implement the tree of records by place, and so  *)
(*    what is proved of that tree holds of them: ImplementsTree (but for   *)
(*    its fairness) and LookupFindsRecord for InsertSpec.                  *)
(***************************************************************************)
EXTENDS TreeHeap, NetworkLemmas

\* The records of the tree, and the calls that are to set them.
NoPointer == {EmptyRecord} \cup {DataRecord(d) : d \in Data}
HeapRecord == [type : {"node", "alias"}, value : 1..Len(node)] \cup NoPointer
Call == [bytes : Address, mask : MaskLength, new : HeapRecord, merge : BOOLEAN]

\* Calls set alias records and data; only make_next_node makes a node's owner.
NoOwningCall == \A i \in 1..Len(calls) : calls[i].new.type # "node"

HeapInv == /\ node \in Seq([Bit -> HeapRecord])
           /\ Len(node) \in Nat \ {0}
           /\ calls \in Seq(Call)
           /\ NoOwningCall
           /\ NodesFormTree

AliasNext == Insert \/ AliasIpv4Networks \/ Step

-------------------------------------------------------------------------------
(* Records *)

LEMMA RecordKinds ==
  ASSUME NEW r \in HeapRecord
  PROVE  /\ Points(r) => r.value \in 1..Len(node)
         /\ IsData(r) => r.value \in Data
         /\ ~Points(r) => r \in NoPointer
         /\ \A i : r = NodeRecord(i) => Points(r)
BY DEF HeapRecord, NoPointer, Points, IsData, EmptyRecord, DataRecord, NodeRecord

LEMMA DataIsRecord ==
  ASSUME NEW d \in Data
  PROVE  DataRecord(d) \in HeapRecord /\ DataRecord(d).type = "data"
BY DEF HeapRecord, NoPointer, DataRecord

\* The payload that a call comes to set is data or an alias record.
LEMMA NewRecordType ==
  ASSUME HeapInv, Running, ~Croaks, RecordToSet \in HeapRecord
  PROVE  /\ Current \in Call /\ Tail(calls) \in Seq(Call)
         /\ NewRecord \in HeapRecord
         /\ NewRecord.type # "node"
<1>1. Current \in Call /\ Tail(calls) \in Seq(Call)
  BY HeadTailProperties DEF HeapInv, Running, Current
<1>2. Current.new.type # "node"
  <2>1. 1 \in 1..Len(calls) /\ Current = calls[1]
    BY HeadTailProperties, LenProperties DEF HeapInv, Running, Current
  <2>. QED
    BY <2>1 DEF HeapInv, NoOwningCall
<1>3. CASE Merges
  <2>1. Merged(RecordToSet.value, Current.new.value) \in Data
    BY <1>3, MergedType DEF Croaks, Data
  <2>. QED
    BY <1>1, <1>3, <2>1, DataIsRecord DEF NewRecord
<1>4. CASE ~Merges
  BY <1>1, <1>2, <1>4 DEF NewRecord, Call
<1>. QED
  BY <1>1, <1>3, <1>4

-------------------------------------------------------------------------------
(* The way along an address *)

\* The recursive definition of the way has a solution, which Way takes.
LEMMA WayEquation ==
  ASSUME NEW bits, Len(bits) \in Nat \ {0}
  PROVE  Way(bits) = [n \in 0 .. Len(bits) - 1 |->
                        IF n = 0 THEN Root ELSE Down(Way(bits)[n-1], bits[n])]
<1>. DEFINE IsWay(w, k) ==
              w = [n \in 0..k |-> IF n = 0 THEN Root ELSE Down(w[n-1], bits[n])]
            Without == {k \in 0 .. Len(bits) - 1 : ~ \E w : IsWay(w, k)}
<1>1. ASSUME NEW k \in Without, \A j \in Without : k <= j
      PROVE  FALSE
  <2>1. CASE k = 0
    <3>. DEFINE w == [n \in 0..0 |-> Root]
    <3>1. w = [n \in 0..0 |-> IF n = 0 THEN Root ELSE Down(w[n-1], bits[n])]
      OBVIOUS
    <3>. QED
      BY <2>1, <3>1
  <2>2. CASE k # 0
    <3>1. k - 1 \in 0 .. Len(bits) - 1 /\ k - 1 \notin Without
      BY SMTT(30), <1>1, <2>2
    <3>2. PICK u : IsWay(u, k - 1)
      BY <3>1
    <3>. DEFINE w == [n \in 0..k |-> IF n = 0 THEN Root ELSE Down(u[n-1], bits[n])]
    <3>3. \A n \in 0..k : n # 0 => w[n-1] = u[n-1]
      <4>. SUFFICES ASSUME NEW n \in 0..k, n # 0 PROVE w[n-1] = u[n-1]
        OBVIOUS
      <4>1. n - 1 \in 0..k /\ n - 1 \in 0..k-1
        BY <1>1
      <4>2. u[n-1] = IF n - 1 = 0 THEN Root ELSE Down(u[n-1-1], bits[n-1])
        BY <3>2, <4>1
      <4>. QED
        BY <4>1, <4>2
    <3>4. w = [n \in 0..k |-> IF n = 0 THEN Root ELSE Down(w[n-1], bits[n])]
      BY <3>3
    <3>. QED
      BY <3>4
  <2>. QED
    BY <2>1, <2>2
<1>2. Without = {}
  <2>. HIDE DEF IsWay
  <2>1. Without \in SUBSET Nat
    OBVIOUS
  <2>. HIDE DEF Without
  <2>. QED
    BY <1>1, <2>1, Least
<1>3. \E w : IsWay(w, Len(bits) - 1)
  <2>1. Len(bits) - 1 \in 0 .. Len(bits) - 1
    OBVIOUS
  <2>. HIDE DEF IsWay
  <2>. QED
    BY <1>2, <2>1
<1>. QED
  BY <1>3 DEF Way

\* The way leads through nodes that exist, or has ended.
LEMMA WayType ==
  ASSUME HeapInv, NEW bits \in Address, NEW n \in 0 .. Width - 1
  PROVE  /\ Way(bits)[n] \in 0..Len(node)
         /\ n = 0 => Way(bits)[n] = Root
         /\ n # 0 => Way(bits)[n] = Down(Way(bits)[n-1], bits[n])
<1>1. Len(bits) = Width /\ Width \in Nat \ {0}
  BY WidthAssumption DEF Address
<1>. DEFINE way == Way(bits)
<1>2. way = [m \in 0 .. Width - 1 |-> IF m = 0 THEN Root ELSE Down(way[m-1], bits[m])]
  BY <1>1, WayEquation
<1>. HIDE DEF way
<1>3. \A m \in 0 .. Width - 1 : way[m] = IF m = 0 THEN Root ELSE Down(way[m-1], bits[m])
  BY <1>2
<1>. DEFINE Outside == {m \in 0 .. Width - 1 : way[m] \notin 0..Len(node)}
<1>4. ASSUME NEW m \in Outside, \A k \in Outside : m <= k
      PROVE  FALSE
  <2>1. CASE m = 0
    BY <1>3, <2>1 DEF Root, HeapInv
  <2>2. CASE m # 0
    <3>1. m - 1 \in 0 .. Width - 1 /\ m - 1 \notin Outside
      BY <1>1, <1>4, <2>2
    <3>2. way[m-1] \in 0..Len(node)
      BY <3>1
    <3>3. bits[m] \in Bit
      BY <1>1, <2>2 DEF Address
    <3>4. way[m] = Down(way[m-1], bits[m])
      BY <1>3, <2>2
    <3>5. way[m] \in 0..Len(node)
      <4>1. CASE way[m-1] = 0
        BY <3>4, <4>1 DEF Down, HeapInv
      <4>2. CASE way[m-1] # 0
        <5>1. way[m-1] \in 1..Len(node)
          BY <3>2, <4>2
        <5>2. node[way[m-1]][bits[m]] \in HeapRecord
          BY <3>3, <5>1 DEF HeapInv
        <5>. QED
          BY <3>4, <5>2, RecordKinds DEF Down, HeapInv
      <4>. QED
        BY <4>1, <4>2
    <3>. QED
      BY <3>5
  <2>. QED
    BY <2>1, <2>2
<1>5. Outside = {}
  <2>1. Outside \in SUBSET Nat
    OBVIOUS
  <2>. HIDE DEF Outside
  <2>. QED
    BY <1>4, <2>1, Least
<1>6. way[n] \in 0..Len(node)
  BY <1>5
<1>. QED
  BY <1>3, <1>6 DEF way

\* A call that has found its node stands on a record of it.
LEMMA FoundRecord ==
  ASSUME HeapInv, Found
  PROVE  /\ NodeToSet \in 1..Len(node)
         /\ Side \in Bit
         /\ RecordToSet \in HeapRecord
<1>1. Current \in Call
  BY HeadTailProperties DEF HeapInv, Found, Running, Current
<1>2. Depth(Current.mask) \in 1..Width
  BY <1>1, DepthType DEF Call
<1>3. NodeToSet \in 0..Len(node)
  <2>1. Depth(Current.mask) - 1 \in 0 .. Width - 1
    BY <1>2, WidthAssumption
  <2>. QED
    BY <1>1, <2>1, WayType DEF NodeToSet, Call
<1>4. NodeToSet \in 1..Len(node)
  BY <1>3 DEF Found, HeapInv
<1>5. Side \in Bit
  BY <1>1, <1>2 DEF Side, Call, Address
<1>. QED
  BY <1>4, <1>5 DEF RecordToSet, HeapInv

-------------------------------------------------------------------------------
(* The steps *)

LEMMA HeapInvInit == HeapInit => HeapInv
<1>. SUFFICES ASSUME HeapInit PROVE HeapInv
  OBVIOUS
<1>1. node = << [b \in Bit |-> EmptyRecord] >> /\ calls = <<>>
  BY DEF HeapInit
<1>2. [b \in Bit |-> EmptyRecord] \in [Bit -> HeapRecord]
  BY DEF HeapRecord, NoPointer
<1>3. node \in Seq([Bit -> HeapRecord]) /\ Len(node) = 1 /\ node[1] = [b \in Bit |-> EmptyRecord]
  BY <1>1, <1>2
<1>4. NodesFormTree
  <2>1. \A i : EmptyRecord # NodeRecord(i)
    BY DEF EmptyRecord, NodeRecord
  <2>2. \A o \in (1..Len(node)) \X Bit : node[o[1]][o[2]] = EmptyRecord
    BY <1>3
  <2>. QED
    BY <2>1, <2>2 DEF NodesFormTree, Owners
<1>. QED
  BY <1>1, <1>3, <1>4 DEF HeapInv, NoOwningCall

\* Replacing the pending calls by others of their type changes nothing else.
LEMMA CallsChange ==
  ASSUME HeapInv, UNCHANGED node,
         calls' \in Seq(Call), \A i \in 1..Len(calls') : calls'[i].new.type # "node"
  PROVE  HeapInv'
<1>1. HeapRecord' = HeapRecord /\ Call' = Call
  BY DEF HeapRecord, Call
<1>2. NodesFormTree'
  BY DEF HeapInv, NodesFormTree, Owners
<1>. QED
  BY <1>1, <1>2 DEF HeapInv, NoOwningCall

\* A call put in front of the calls after the current one.
LEMMA TailCalls ==
  ASSUME HeapInv, Running
  PROVE  /\ Current \in Call /\ Current.new.type # "node"
         /\ Tail(calls) \in Seq(Call)
         /\ \A i \in 1..Len(Tail(calls)) : Tail(calls)[i].new.type # "node"
<1>1. calls \in Seq(Call) /\ calls # <<>>
  BY DEF HeapInv, Running
<1>2. /\ Current \in Call /\ Current = calls[1]
      /\ Tail(calls) \in Seq(Call) /\ Len(Tail(calls)) = Len(calls) - 1
      /\ \A i \in 1..Len(Tail(calls)) : Tail(calls)[i] = calls[i+1]
  BY <1>1, HeadTailProperties DEF Current
<1>3. Len(calls) \in Nat \ {0}
  BY <1>1, LenProperties
<1>4. \A i \in 1..Len(Tail(calls)) : i + 1 \in 1..Len(calls)
  BY <1>2, <1>3
<1>5. 1 \in 1..Len(calls)
  BY <1>3
<1>. QED
  BY <1>2, <1>4, <1>5 DEF HeapInv, NoOwningCall

LEMMA CallsInFront ==
  ASSUME HeapInv, Running, UNCHANGED node, NEW front \in Seq(Call),
         calls' = front \o Tail(calls),
         \A i \in 1..Len(front) : front[i].new.type # "node"
  PROVE  HeapInv'
<1>1. /\ Tail(calls) \in Seq(Call)
      /\ \A i \in 1..Len(Tail(calls)) : Tail(calls)[i].new.type # "node"
  BY TailCalls
<1>2. /\ calls' \in Seq(Call) /\ Len(calls') = Len(front) + Len(Tail(calls))
      /\ \A i \in 1..Len(calls') :
           calls'[i] = IF i <= Len(front) THEN front[i] ELSE Tail(calls)[i - Len(front)]
  BY <1>1, ConcatProperties
<1>3. \A i \in 1..Len(calls') : calls'[i].new.type # "node"
  <2>. TAKE i \in 1..Len(calls')
  <2>1. Len(front) \in Nat /\ Len(Tail(calls)) \in Nat
    BY <1>1, LenProperties
  <2>2. CASE i <= Len(front)
    BY <1>2, <2>1, <2>2
  <2>3. CASE ~(i <= Len(front))
    <3>1. i - Len(front) \in 1..Len(Tail(calls))
      BY <1>2, <2>1, <2>3
    <3>. QED
      BY <1>1, <1>2, <2>3, <3>1
  <2>. QED
    BY <2>2, <2>3
<1>. QED
  BY <1>2, <1>3, CallsChange

LEMMA InsertKeeps ==
  ASSUME HeapInv, NEW net \in Insertable, NEW data \in Inputs,
         InsertNetwork(net[1], net[2], data)
  PROVE  HeapInv'
<1>. DEFINE new == [bytes |-> net[1], mask |-> net[2], new |-> DataRecord(data),
                    merge |-> MergeRecordCollisions]
<1>1. DataRecord(data) \in HeapRecord /\ DataRecord(data).type = "data"
  BY DataIsRecord, HeapAssumption
<1>2. new \in Call /\ new.new.type # "node"
  <2>1. net[1] \in Address /\ net[2] \in MaskLength
    BY HeapAssumption, MaskAssumption, WidthAssumption DEF Network, MaskLength
  <2>. QED
    BY <1>1, <2>1, HeapAssumption DEF Call
<1>3. calls' = <<new>> /\ UNCHANGED node
  BY DEF InsertNetwork
<1>. HIDE DEF new
<1>. QED
  BY <1>2, <1>3, CallsChange

\* The aliases point to the node of the IPv4 network.
LEMMA AliasKeeps ==
  ASSUME HeapInv, AliasIpv4Networks
  PROVE  HeapInv'
<1>. DEFINE zeros == [i \in 1..Width |-> 0]
            parent == Way(zeros)[Ipv4Bits - 1]
            root4 == node[parent][0].value
<1>1. parent \in 0..Len(node)
  <2>1. zeros \in Address
    BY DEF Address, Bit
  <2>2. Ipv4Bits - 1 \in 0 .. Width - 1
    BY HeapAssumption, WidthAssumption
  <2>. HIDE DEF zeros
  <2>. QED
    BY <2>1, <2>2, WayType
<1>2. parent # 0 /\ node[parent][0].type = "node"
  BY DEF AliasIpv4Networks, HasIpv4Node
<1>3. calls' = [i \in 1..Len(Ipv4Aliases) |->
                  [bytes |-> Ipv4Aliases[i][1], mask |-> Ipv4Aliases[i][2],
                   new |-> AliasRecord(root4), merge |-> FALSE]]
      /\ UNCHANGED node
  BY DEF AliasIpv4Networks, AliasCalls
<1>. HIDE DEF parent
<1>4. root4 \in 1..Len(node)
  <2>1. node[parent][0] \in HeapRecord
    BY <1>1, <1>2 DEF HeapInv, Bit
  <2>. QED
    BY <1>2, <2>1, RecordKinds DEF Points
<1>. HIDE DEF root4
<1>5. AliasRecord(root4) \in HeapRecord /\ AliasRecord(root4).type = "alias"
  BY <1>4 DEF AliasRecord, HeapRecord
<1>6. Len(Ipv4Aliases) \in Nat /\ \A i \in 1..Len(Ipv4Aliases) : Ipv4Aliases[i] \in Network
  BY HeapAssumption
<1>7. \A i \in 1..Len(Ipv4Aliases) :
        [bytes |-> Ipv4Aliases[i][1], mask |-> Ipv4Aliases[i][2],
         new |-> AliasRecord(root4), merge |-> FALSE] \in Call
  <2>. TAKE i \in 1..Len(Ipv4Aliases)
  <2>1. Ipv4Aliases[i][1] \in Address /\ Ipv4Aliases[i][2] \in MaskLength
    BY <1>6, MaskAssumption, WidthAssumption DEF Network, MaskLength
  <2>. QED
    BY <1>5, <2>1 DEF Call
<1>8. /\ calls' \in Seq(Call) /\ Len(calls') = Len(Ipv4Aliases)
      /\ \A i \in 1..Len(calls') : calls'[i].new = AliasRecord(root4)
  BY <1>3, <1>6, <1>7
<1>. QED
  BY <1>3, <1>5, <1>8, CallsChange

LEMMA MergeIntoNodeKeeps ==
  ASSUME HeapInv, MergeIntoNode
  PROVE  HeapInv'
<1>. DEFINE left == [Current EXCEPT !.mask = @ + 1]
            right == [left EXCEPT !.bytes = SetBit(@, left.mask)]
<1>1. Current \in Call /\ Current.new.type # "node"
  BY TailCalls DEF MergeIntoNode, Found
<1>2. Current.mask \in MaskLength /\ Current.mask < Width
  BY <1>1, MaskAssumption, WidthAssumption DEF MergeIntoNode, Croaks, Call, MaskLength
<1>3. left \in Call /\ left.new = Current.new
  BY <1>1, <1>2, MaskAssumption, WidthAssumption DEF Call, MaskLength
<1>4. right \in Call /\ right.new = Current.new
  <2>1. SetBit(left.bytes, left.mask) \in Address
    BY <1>3 DEF SetBit, Call, Address, Bit
  <2>. QED
    BY <1>3, <2>1 DEF Call
<1>5. calls' = <<left, right>> \o Tail(calls) /\ UNCHANGED node /\ Running
  BY DEF MergeIntoNode, Found
<1>. HIDE DEF left, right
<1>6. /\ <<left, right>> \in Seq(Call)
      /\ \A i \in 1..Len(<<left, right>>) : <<left, right>>[i].new.type # "node"
  BY <1>1, <1>3, <1>4
<1>. QED
  BY <1>5, <1>6, CallsInFront

LEMMA InsertIntoParentKeeps ==
  ASSUME HeapInv, InsertIntoParent
  PROVE  HeapInv'
<1>. DEFINE up == [Current EXCEPT !.mask = ParentMask(@), !.new = NewRecord,
                                  !.merge = FALSE]
<1>1. Current \in Call /\ NewRecord \in HeapRecord /\ NewRecord.type # "node"
  BY FoundRecord, NewRecordType DEF InsertIntoParent, Found
<1>2. ParentMask(Current.mask) \in MaskLength
  BY <1>1, MaskAssumption DEF ParentMask, Call, MaskLength
<1>3. up \in Call /\ up.new = NewRecord
  BY <1>1, <1>2 DEF Call
<1>4. calls' = <<up>> \o Tail(calls) /\ UNCHANGED node /\ Running
  BY DEF InsertIntoParent, Found
<1>. HIDE DEF up
<1>5. <<up>> \in Seq(Call) /\ \A i \in 1..Len(<<up>>) : <<up>>[i].new.type # "node"
  BY <1>1, <1>3
<1>. QED
  BY <1>4, <1>5, CallsInFront

\* A record is set to data or to an alias: a node may lose its owner.
LEMMA SetRecordKeeps ==
  ASSUME HeapInv, SetRecord
  PROVE  HeapInv'
<1>1. NodeToSet \in 1..Len(node) /\ Side \in Bit /\ RecordToSet \in HeapRecord
  BY FoundRecord DEF SetRecord
<1>2. NewRecord \in HeapRecord /\ NewRecord.type # "node"
  BY <1>1, NewRecordType DEF SetRecord, Found
<1>3. Len(node) \in Nat /\ node \in [1..Len(node) -> [Bit -> HeapRecord]]
  BY DEF HeapInv
<1>4. /\ node' = [node EXCEPT ![NodeToSet][Side] = NewRecord] /\ calls' = Tail(calls)
  BY DEF SetRecord
<1>5. node' \in [1..Len(node) -> [Bit -> HeapRecord]]
  BY <1>1, <1>2, <1>3, <1>4
<1>6. node' \in Seq([Bit -> HeapRecord]) /\ Len(node') = Len(node)
  BY <1>3, <1>5
<1>7. HeapRecord' = HeapRecord /\ Call' = Call
  BY <1>6 DEF HeapRecord, Call
<1>8. \A i : Owners(i)' \subseteq Owners(i)
  <2>. SUFFICES ASSUME NEW i, NEW o \in (1..Len(node)) \X Bit,
                       node'[o[1]][o[2]] = NodeRecord(i)
                PROVE  node[o[1]][o[2]] = NodeRecord(i)
    BY <1>6 DEF Owners
  <2>1. NewRecord # NodeRecord(i)
    BY <1>2 DEF NodeRecord
  <2>. QED
    BY <1>1, <1>3, <1>4, <2>1
<1>9. NodesFormTree'
  BY <1>6, <1>8 DEF HeapInv, NodesFormTree
<1>. QED
  BY <1>4, <1>6, <1>7, <1>9, TailCalls DEF HeapInv, NoOwningCall, SetRecord, Found

LEMMA CroakKeeps ==
  ASSUME HeapInv, Croak
  PROVE  HeapInv'
<1>1. calls' = <<>> /\ UNCHANGED node
  BY DEF Croak
<1>. QED
  BY <1>1, CallsChange

\* A new node is owned by the record it takes the place of, and owns none.
LEMMA MakeNextNodeKeeps ==
  ASSUME HeapInv, MakeNextNode
  PROVE  HeapInv'
<1>. DEFINE new == Len(node) + 1
<1>1. Current \in Call /\ Depth(Current.mask) \in 1..Width
  BY TailCalls, DepthType DEF MakeNextNode, Call
<1>2. PICK n \in 1 .. Depth(Current.mask) - 1 :
        /\ Way(Current.bytes)[n-1] # 0
        /\ ~Points(node[Way(Current.bytes)[n-1]][Current.bytes[n]])
        /\ node' = Append([node EXCEPT ![Way(Current.bytes)[n-1]][Current.bytes[n]] =
                                         NodeRecord(new)],
                          NewNode(node[Way(Current.bytes)[n-1]][Current.bytes[n]]))
  BY DEF MakeNextNode
<1>. DEFINE w == Way(Current.bytes)[n-1]
            b == Current.bytes[n]
            r == node[w][b]
            owner == [node EXCEPT ![w][b] = NodeRecord(new)]
<1>3. w \in 1..Len(node) /\ b \in Bit
  <2>1. n - 1 \in 0 .. Width - 1 /\ n \in 1..Width
    BY <1>1, WidthAssumption
  <2>2. w \in 0..Len(node)
    BY <1>1, <2>1, WayType DEF Call
  <2>3. w # 0
    BY <1>2
  <2>4. b \in Bit
    BY <1>1, <2>1 DEF Call, Address
  <2>. HIDE DEF w, b
  <2>. QED
    BY <2>2, <2>3, <2>4 DEF HeapInv
<1>4. w # 0 /\ ~Points(r) /\ node' = Append(owner, NewNode(r)) /\ calls' = calls
  BY <1>2 DEF MakeNextNode
<1>. HIDE DEF w, b
<1>5. Len(node) \in Nat \ {0} /\ node \in [1..Len(node) -> [Bit -> HeapRecord]]
  BY DEF HeapInv
<1>6. r \in HeapRecord /\ r \in NoPointer
  BY <1>3, <1>4, <1>5, RecordKinds
<1>7. NewNode(r) \in [Bit -> NoPointer]
  BY <1>6 DEF NewNode, NoPointer
<1>8. NoPointer' = NoPointer /\ NodeRecord(new) # r
  BY <1>4 DEF NoPointer, NodeRecord, Points
<1>9. /\ node' \in [1..new -> [Bit -> HeapRecord \cup {NodeRecord(new)}]]
      /\ Len(node') = new
      /\ node' \in Seq([Bit -> HeapRecord \cup {NodeRecord(new)}])
      /\ \A i \in 1..Len(node) : node'[i] = owner[i]
      /\ node'[new] = NewNode(r)
  <2>1. owner \in [1..Len(node) -> [Bit -> HeapRecord \cup {NodeRecord(new)}]]
    BY <1>3, <1>5
  <2>2. owner \in Seq([Bit -> HeapRecord \cup {NodeRecord(new)}]) /\ Len(owner) = Len(node)
    BY <1>5, <2>1
  <2>3. NewNode(r) \in [Bit -> HeapRecord \cup {NodeRecord(new)}]
    BY <1>7 DEF HeapRecord
  <2>. HIDE DEF owner, r
  <2>4. /\ Append(owner, NewNode(r)) \in Seq([Bit -> HeapRecord \cup {NodeRecord(new)}])
        /\ Len(Append(owner, NewNode(r))) = Len(node) + 1
        /\ \A i \in 1..Len(node) : Append(owner, NewNode(r))[i] = owner[i]
        /\ Append(owner, NewNode(r))[Len(node) + 1] = NewNode(r)
    BY <2>2, <2>3, AppendProperties
  <2>5. /\ node' \in Seq([Bit -> HeapRecord \cup {NodeRecord(new)}])
        /\ Len(node') = new
        /\ \A i \in 1..Len(node) : node'[i] = owner[i]
        /\ node'[new] = NewNode(r)
    BY <1>4, <2>4
  <2>. QED
    BY <2>5, LenProperties
<1>10. HeapRecord \cup {NodeRecord(new)} \subseteq HeapRecord'
  <2>1. HeapRecord \subseteq HeapRecord'
    BY <1>5, <1>8, <1>9 DEF HeapRecord
  <2>2. new \in 1..Len(node')
    BY <1>5, <1>9
  <2>. HIDE DEF new
  <2>3. NodeRecord(new) \in HeapRecord'
    BY <2>2 DEF NodeRecord, HeapRecord
  <2>. QED
    BY <2>1, <2>3
<1>11. node' \in Seq([Bit -> HeapRecord'])
  BY <1>9, <1>10
<1>12. calls' \in Seq(Call')
  <2>1. Call \subseteq Call'
    BY <1>10 DEF Call
  <2>. QED
    BY <1>4, <2>1 DEF HeapInv
<1>13. NoOwningCall'
  BY <1>4 DEF HeapInv, NoOwningCall
<1>14. \A i \in 1..new, o \in (1..new) \X Bit :
         node'[o[1]][o[2]] = NodeRecord(i) =>
           \/ i = new /\ o = <<w, b>>
           \/ i \in 1..Len(node) /\ o \in Owners(i)
  <2>. SUFFICES ASSUME NEW i \in 1..new, NEW o \in (1..new) \X Bit,
                       node'[o[1]][o[2]] = NodeRecord(i)
                PROVE  \/ i = new /\ o = <<w, b>>
                       \/ i \in 1..Len(node) /\ o \in Owners(i)
    OBVIOUS
  <2>1. CASE o[1] = new
    <3>1. node'[o[1]][o[2]] \in NoPointer
      BY <1>7, <1>9, <2>1
    <3>2. NodeRecord(i) \notin NoPointer
      BY DEF NoPointer, NodeRecord, EmptyRecord, DataRecord
    <3>. QED
      BY <3>1, <3>2
  <2>2. CASE o[1] # new /\ o = <<w, b>>
    <3>1. node'[o[1]][o[2]] = NodeRecord(new)
      BY <1>3, <1>5, <1>9, <2>2
    <3>. QED
      BY <2>2, <3>1 DEF NodeRecord
  <2>3. CASE o[1] # new /\ o # <<w, b>>
    <3>1. o[1] \in 1..Len(node) /\ o[2] \in Bit
      BY <1>5, <2>3
    <3>2. node[o[1]][o[2]] = NodeRecord(i)
      BY <1>3, <1>5, <1>9, <2>3, <3>1
    <3>3. node[o[1]][o[2]] \in HeapRecord
      BY <1>5, <3>1
    <3>4. i \in 1..Len(node)
      BY <3>2, <3>3, RecordKinds DEF NodeRecord
    <3>. QED
      BY <3>1, <3>2, <3>4 DEF Owners
  <2>. QED
    BY <2>1, <2>2, <2>3
<1>15. NodesFormTree'
  <2>. SUFFICES ASSUME NEW i \in 1..new, NEW o \in Owners(i)', NEW p \in Owners(i)'
                PROVE  o = p /\ o[1] < i
    BY <1>9 DEF NodesFormTree
  <2>1. /\ o \in (1..new) \X Bit /\ node'[o[1]][o[2]] = NodeRecord(i)
        /\ p \in (1..new) \X Bit /\ node'[p[1]][p[2]] = NodeRecord(i)
    BY <1>9 DEF Owners
  <2>2. CASE i = new
    <3>1. o = <<w, b>> /\ p = <<w, b>>
      BY <1>5, <1>14, <2>1, <2>2
    <3>. QED
      BY <1>3, <1>5, <2>2, <3>1
  <2>3. CASE i # new
    BY <1>14, <2>1, <2>3 DEF HeapInv, NodesFormTree
  <2>. QED
    BY <2>2, <2>3
<1>. QED
  BY <1>5, <1>9, <1>11, <1>12, <1>13, <1>15 DEF HeapInv

LEMMA HeapInvNext == HeapInv /\ [AliasNext]_heapVars => HeapInv'
<1>. SUFFICES ASSUME HeapInv, [AliasNext]_heapVars PROVE HeapInv'
  OBVIOUS
<1>1. CASE Insert
  BY <1>1, InsertKeeps DEF Insert
<1>2. CASE AliasIpv4Networks
  BY <1>2, AliasKeeps
<1>3. CASE Step
  BY <1>3, MakeNextNodeKeeps, MergeIntoNodeKeeps, InsertIntoParentKeeps, SetRecordKeeps,
     CroakKeeps DEF Step
<1>4. CASE UNCHANGED heapVars
  BY <1>4 DEF heapVars, HeapInv, NodesFormTree, Owners, NoOwningCall, HeapRecord, Call
<1>. QED
  BY <1>1, <1>2, <1>3, <1>4 DEF AliasNext

LEMMA HeapInvGivesTypeOK == HeapInv => HeapTypeOK
<1>. SUFFICES ASSUME HeapInv PROVE HeapTypeOK
  OBVIOUS
<1>1. \A i \in 1..Len(node) : node[i] \in [Bit -> HeapRecord]
  BY DEF HeapInv
<1>. QED
  BY <1>1 DEF HeapInv, HeapTypeOK, HeapRecord, Call, NoPointer

-------------------------------------------------------------------------------
\* Every record that points, points to a node that exists, and the pending calls
\* have their types: whatever is inserted before and after networks are aliased.
THEOREM HeapTypeCorrect == AliasSpec => []HeapTypeOK
BY HeapInvInit, HeapInvNext, HeapInvGivesTypeOK, PTL DEF AliasSpec, AliasNext

\* The node records form a tree, aliases or not: what finalize_tree numbers and
\* write_search_tree and free_tree walk has no node twice and no cycle.
THEOREM NodesAreTree == AliasSpec => []NodesFormTree
<1>1. HeapInv => NodesFormTree
  BY DEF HeapInv
<1>. QED
  BY <1>1, HeapInvInit, HeapInvNext, PTL DEF AliasSpec, AliasNext

-------------------------------------------------------------------------------
(* Without aliases.                                                        *)
(*                                                                         *)
(* Every step of InsertSpec is a step of PrefixTree, or none.  A node hangs*)
(* at one place, so what a step does to a record of a node it does to the  *)
(* record at one place, and what it cuts off is never seen again.          *)

\* Nothing is an alias: not a record, not what a call comes to set.
NoAlias == /\ \A i \in 1..Len(node), b \in Bit : node[i][b].type # "alias"
           /\ \A i \in 1..Len(calls) : calls[i].new.type = "data"

-------------------------------------------------------------------------------
(* Ways *)

\* The first n records on the way along a are no aliases: the node it comes to is
\* owned by what leads to it.
OwnWay(a, n) ==
  \A k \in 1..n : Way(a)[k-1] # 0 => node[Way(a)[k-1]][a[k]].type # "alias"

LEMMA OwnWayAbove ==
  ASSUME NEW a, NEW n \in Nat, OwnWay(a, n), NEW m \in Int, m <= n
  PROVE  OwnWay(a, m)
<1>1. \A k \in 1..m : k \in 1..n
  OBVIOUS
<1>. QED
  BY <1>1 DEF OwnWay

\* What leads to a node owns it.
LEMMA OwnWayOwner ==
  ASSUME HeapInv, NEW a \in Address, NEW n \in 1 .. Width - 1, OwnWay(a, n), Way(a)[n] # 0
  PROVE  /\ Way(a)[n-1] \in 1..Len(node) /\ Way(a)[n] \in 1..Len(node)
         /\ <<Way(a)[n-1], a[n]>> \in Owners(Way(a)[n])
<1>. DEFINE w == Way(a)[n-1]
            r == node[w][a[n]]
<1>1. n \in 0 .. Width - 1 /\ n - 1 \in 0 .. Width - 1 /\ n # 0 /\ n \in 1..Width
  BY WidthAssumption
<1>2. w \in 0..Len(node) /\ Way(a)[n] \in 0..Len(node) /\ Way(a)[n] = Down(w, a[n])
  BY <1>1, WayType
<1>. HIDE DEF w
<1>3. w # 0 /\ Points(r) /\ Way(a)[n] = r.value
  BY <1>2 DEF Down
<1>4. w \in 1..Len(node) /\ Way(a)[n] \in 1..Len(node) /\ a[n] \in Bit
  BY <1>1, <1>2, <1>3 DEF HeapInv, Address
<1>5. r \in HeapRecord /\ r.type # "alias"
  <2>1. r \in HeapRecord
    BY <1>4 DEF HeapInv
  <2>2. n \in 1..n
    BY <1>1
  <2>3. Way(a)[n-1] # 0
    BY <1>3 DEF w
  <2>4. node[Way(a)[n-1]][a[n]].type # "alias"
    BY <2>2, <2>3 DEF OwnWay
  <2>. QED
    BY <2>1, <2>4 DEF w
<1>6. r = NodeRecord(r.value)
  <2>0. \A s \in NoPointer : ~Points(s)
    BY DEF NoPointer, Points, EmptyRecord, DataRecord
  <2>1. r \notin NoPointer
    BY <1>3, <2>0
  <2>2. r \in [type : {"node", "alias"}, value : 1..Len(node)]
    BY <1>5, <2>1 DEF HeapRecord
  <2>. HIDE DEF r
  <2>3. r = [type |-> r.type, value |-> r.value] /\ r.type = "node"
    BY <1>5, <2>2
  <2>. QED
    BY <2>3 DEF NodeRecord
<1>. QED
  BY <1>3, <1>4, <1>6 DEF Owners, w

\* The root has no owner.
LEMMA RootNotOwned ==
  ASSUME HeapInv
  PROVE  Owners(Root) = {}
<1>1. Root \in 1..Len(node) /\ Len(node) \in Nat
  BY DEF HeapInv, Root
<1>2. \A o \in Owners(Root) : o[1] < 1 /\ o[1] \in 1..Len(node)
  BY <1>1 DEF HeapInv, NodesFormTree, Owners, Root
<1>. QED
  BY <1>2

\* A node hangs at one place: two ways that meet have been one so far.
LEMMA OwnWaysMeet ==
  ASSUME HeapInv, NEW a \in Address, NEW c \in Address,
         NEW m \in 0 .. Width - 1, NEW n \in 0 .. Width - 1,
         OwnWay(a, m), OwnWay(c, n), Way(a)[m] # 0, Way(a)[m] = Way(c)[n]
  PROVE  m = n /\ \A i \in 1..m : a[i] = c[i]
<1>. DEFINE Meet(j, k) == /\ Way(a)[j] # 0 /\ Way(a)[j] = Way(c)[k]
                          /\ OwnWay(a, j) /\ OwnWay(c, k)
                          /\ ~(j = k /\ \A i \in 1..j : a[i] = c[i])
            Apart == {j \in 0 .. Width - 1 : \E k \in 0 .. Width - 1 : Meet(j, k)}
<1>1. ASSUME NEW j \in Apart, \A h \in Apart : j <= h
      PROVE  FALSE
  <2>1. PICK k \in 0 .. Width - 1 : Meet(j, k)
    BY <1>1
  <2>2. \A h \in 1 .. Width - 1 : h - 1 \in 0 .. Width - 1
    BY WidthAssumption
  <2>3. j = 0 => k # 0
    BY <2>1
  <2>4. j # 0
    <3>. SUFFICES ASSUME j = 0 PROVE FALSE
      OBVIOUS
    <3>1. Way(a)[j] = Root
      BY <1>1, WayType
    <3>2. k \in 1 .. Width - 1
      BY <2>3
    <3>. QED
      BY <2>1, <3>1, <3>2, OwnWayOwner, RootNotOwned
  <2>5. k # 0
    <3>. SUFFICES ASSUME k = 0 PROVE FALSE
      OBVIOUS
    <3>1. Way(c)[k] = Root
      BY WayType
    <3>2. j \in 1 .. Width - 1
      BY <1>1, <2>4
    <3>. QED
      BY <2>1, <3>1, <3>2, OwnWayOwner, RootNotOwned
  <2>6. j \in 1 .. Width - 1 /\ k \in 1 .. Width - 1
    BY <1>1, <2>4, <2>5
  <2>7. /\ Way(a)[j-1] \in 1..Len(node) /\ Way(a)[j] \in 1..Len(node)
        /\ <<Way(a)[j-1], a[j]>> \in Owners(Way(a)[j])
        /\ <<Way(c)[k-1], c[k]>> \in Owners(Way(a)[j])
    BY <2>1, <2>6, OwnWayOwner
  <2>8. <<Way(a)[j-1], a[j]>> = <<Way(c)[k-1], c[k]>>
    BY <2>7 DEF HeapInv, NodesFormTree
  <2>9. j - 1 \notin Apart /\ j - 1 \in 0 .. Width - 1 /\ k - 1 \in 0 .. Width - 1
    BY <1>1, <2>2, <2>6
  <2>10. Way(a)[j-1] # 0 /\ Way(a)[j-1] = Way(c)[k-1] /\ a[j] = c[k]
    BY <2>7, <2>8 DEF HeapInv
  <2>13. OwnWay(a, j-1) /\ OwnWay(c, k-1)
    BY <2>1, <2>6, OwnWayAbove
  <2>11. j - 1 = k - 1 /\ \A i \in 1..j-1 : a[i] = c[i]
    BY <2>9, <2>10, <2>13
  <2>12. j = k /\ \A i \in 1..j : a[i] = c[i]
    <3>1. j = k
      BY <2>6, <2>11
    <3>2. \A i \in 1..j : i = j \/ i \in 1..j-1
      BY <2>6
    <3>. QED
      BY <2>10, <2>11, <3>1, <3>2
  <2>. QED
    BY <2>1, <2>12
<1>2. Apart = {}
  <2>1. Apart \in SUBSET Nat
    OBVIOUS
  <2>. HIDE DEF Apart
  <2>. QED
    BY <1>1, <2>1, Least
<1>3. ~Meet(m, n)
  <2>. HIDE DEF Meet
  <2>. QED
    BY <1>2
<1>. QED
  BY <1>3

LEMMA NoAliasOwnWay ==
  ASSUME HeapInv, NoAlias, NEW a \in Address, NEW n \in 0 .. Width
  PROVE  OwnWay(a, n)
<1>. SUFFICES ASSUME NEW k \in 1..n, Way(a)[k-1] # 0
              PROVE  node[Way(a)[k-1]][a[k]].type # "alias"
  BY DEF OwnWay
<1>1. k \in 1..Width /\ k - 1 \in 0 .. Width - 1
  BY WidthAssumption
<1>2. a[k] \in Bit /\ Way(a)[k-1] \in 1..Len(node)
  BY <1>1, WayType DEF Address, HeapInv
<1>. QED
  BY <1>2 DEF NoAlias

LEMMA WayOwner ==
  ASSUME HeapInv, NoAlias, NEW a \in Address, NEW n \in 1 .. Width - 1, Way(a)[n] # 0
  PROVE  /\ Way(a)[n-1] \in 1..Len(node) /\ Way(a)[n] \in 1..Len(node)
         /\ <<Way(a)[n-1], a[n]>> \in Owners(Way(a)[n])
<1>1. n \in 0..Width
  BY WidthAssumption
<1>. QED
  BY <1>1, NoAliasOwnWay, OwnWayOwner

LEMMA WaysMeet ==
  ASSUME HeapInv, NoAlias, NEW a \in Address, NEW c \in Address,
         NEW m \in 0 .. Width - 1, NEW n \in 0 .. Width - 1,
         Way(a)[m] # 0, Way(a)[m] = Way(c)[n]
  PROVE  m = n /\ \A i \in 1..m : a[i] = c[i]
<1>1. m \in 0..Width /\ n \in 0..Width
  BY WidthAssumption
<1>. QED
  BY <1>1, NoAliasOwnWay, OwnWaysMeet

\* As far as two bit strings agree, their ways do.
LEMMA WayPrefix ==
  ASSUME NEW bits, NEW other, Len(bits) \in Nat \ {0}, Len(other) \in Nat \ {0},
         NEW n \in Nat, n < Len(bits), n < Len(other), \A i \in 1..n : bits[i] = other[i]
  PROVE  Way(bits)[n] = Way(other)[n]
<1>. DEFINE v == Way(bits)
            w == Way(other)
            Apart == {j \in 0..n : v[j] # w[j]}
<1>1. /\ v = [j \in 0 .. Len(bits) - 1 |-> IF j = 0 THEN Root ELSE Down(v[j-1], bits[j])]
      /\ w = [j \in 0 .. Len(other) - 1 |-> IF j = 0 THEN Root ELSE Down(w[j-1], other[j])]
  BY WayEquation
<1>. HIDE DEF v, w
<1>2. \A j \in 0..n : /\ v[j] = IF j = 0 THEN Root ELSE Down(v[j-1], bits[j])
                      /\ w[j] = IF j = 0 THEN Root ELSE Down(w[j-1], other[j])
  <2>. TAKE j \in 0..n
  <2>1. j \in 0 .. Len(bits) - 1 /\ j \in 0 .. Len(other) - 1
    OBVIOUS
  <2>. QED
    BY <1>1, <2>1
<1>3. ASSUME NEW j \in Apart, \A k \in Apart : j <= k
      PROVE  FALSE
  <2>1. j # 0
    BY <1>2
  <2>2. j - 1 \in 0..n /\ j - 1 \notin Apart /\ j \in 1..n
    BY <1>3, <2>1
  <2>. QED
    BY <1>2, <2>1, <2>2
<1>4. Apart = {}
  <2>1. Apart \in SUBSET Nat
    OBVIOUS
  <2>. HIDE DEF Apart
  <2>. QED
    BY <1>3, <2>1, Least
<1>5. n \in 0..n
  OBVIOUS
<1>. QED
  BY <1>4, <1>5 DEF v, w

-------------------------------------------------------------------------------
(* The record at a place *)

\* The record n bits down the path to an address, as the mapping has it.
RecordOn(a, n) == LET i == Way(a)[n-1]
                  IN IF i = 0 THEN Absent ELSE RecordOf(node[i][a[n]])

RecordMap == [p \in Prefix |-> LET i == Way(p)[Len(p) - 1]
                               IN IF i = 0 THEN Absent ELSE RecordOf(node[i][p[Len(p)]])]

LEMMA RecordMapOn ==
  ASSUME NEW a \in Address, NEW n \in 1..Width
  PROVE  RecordMap[Cut(a, n)] = RecordOn(a, n)
<1>. DEFINE p == Cut(a, n)
<1>1. /\ p \in Prefix /\ Len(p) = n /\ n \in Nat \ {0} /\ Len(a) = Width
      /\ Width \in Nat \ {0} /\ n <= Width /\ \A i \in 1..n : p[i] = a[i]
  BY CutProperties, WidthAssumption DEF Address
<1>. HIDE DEF p
<1>2. Way(p)[n-1] = Way(a)[n-1]
  <2>1. n - 1 \in Nat /\ n - 1 < Len(p) /\ n - 1 < Len(a) /\ \A i \in 1..n-1 : p[i] = a[i]
    BY <1>1
  <2>. QED
    BY <1>1, <2>1, WayPrefix
<1>3. p[n] = a[n]
  BY <1>1
<1>. QED
  BY <1>1, <1>2, <1>3 DEF RecordMap, RecordOn, p

\* A record is a node, empty or data, as the mapping has it.
LEMMA RecordOfKinds ==
  \A r \in HeapRecord :
         /\ RecordOf(r) # Absent
         /\ RecordOf(r) = Node <=> Points(r)
         /\ RecordOf(r) \in Data <=> IsData(r)
         /\ RecordOf(r) \in Data \cup {Empty} <=> ~Points(r)
         /\ IsData(r) => RecordOf(r) = r.value
<1>. TAKE r \in HeapRecord
<1>1. CASE Points(r)
  BY <1>1, PlaceAssumption DEF RecordOf, Points, IsData
<1>2. CASE ~Points(r)
  <2>1. PICK d \in Data \cup {Empty} : 
             (r = EmptyRecord /\ d = Empty) \/ (r = DataRecord(d) /\ d \in Data)
    BY <1>2, RecordKinds DEF NoPointer
  <2>2. RecordOf(r) = d
    BY <1>2, <2>1 DEF RecordOf, EmptyRecord, DataRecord
  <2>3. IsData(r) <=> d \in Data
    BY <2>1, PayloadAssumption DEF IsData, EmptyRecord, DataRecord
  <2>4. IsData(r) => r.value = d
    BY <2>1 DEF IsData, EmptyRecord, DataRecord
  <2>. QED
    BY <1>2, <2>2, <2>3, <2>4, PlaceAssumption
<1>. QED
  BY <1>1, <1>2

NodesPoint == \A r \in HeapRecord : RecordOf(r) = Node <=> Points(r)

LEMMA NodesPointNext == NodesPoint /\ NodesPoint'
<1>1. NodesPoint
  BY RecordOfKinds DEF NodesPoint
<1>. QED
  BY <1>1, PTL

-------------------------------------------------------------------------------
(* What a step that changes one record does to ways and places *)

WaysGoDown ==
  \A a \in Address, n \in 0 .. Width - 1 :
    /\ Way(a)[n] \in 0..Len(node)
    /\ n = 0 => Way(a)[n] = Root
    /\ n # 0 => Way(a)[n] = Down(Way(a)[n-1], a[n])

LEMMA WaySteps == HeapInv => WaysGoDown
BY WayType DEF WaysGoDown

LEMMA WayStepsNext == HeapInv' => WaysGoDown'
BY WaySteps, PTL

\* The record n bits down the path to a is changed, and what it points to then
\* has no pointers: below it the ways end, elsewhere they are as before.
Changes(a, n, w) ==
  /\ w = Way(a)[n-1] /\ w # 0
  /\ Len(node') >= Len(node)
  /\ \A i \in 1..Len(node), b \in Bit :
       i # w \/ b # a[n] => node'[i][b] = node[i][b]
  /\ \A b \in Bit : Down(Down(w, a[n]), b)' = 0

LEMMA WayAfter ==
  ASSUME HeapInv, NoAlias, HeapInv', NEW a \in Address, NEW n \in 1..Width, NEW w,
         Changes(a, n, w), NEW c \in Address, NEW k \in 0 .. Width - 1
  PROVE  Way(c)'[k] = IF k < n \/ Cut(c, n) # Cut(a, n) THEN Way(c)[k]
                      ELSE IF k = n THEN Down(w, a[n])' ELSE 0
<1>01. PICK new : new = Down(w, a[n])'
  OBVIOUS
<1>02. \A b \in Bit : Down(new, b)' = 0
  BY <1>01 DEF Changes, Down
<1>. DEFINE below == Cut(c, n) = Cut(a, n)
            Expected(j) == IF j < n \/ ~below THEN Way(c)[j] ELSE IF j = n THEN new ELSE 0
            Wrong == {j \in 0 .. Width - 1 : Way(c)'[j] # Expected(j)}
<1>0. below <=> \A i \in 1..n : c[i] = a[i]
  BY CutEqual
<1>. HIDE DEF below
<1>1. ASSUME NEW j \in Wrong, \A h \in Wrong : j <= h
      PROVE  FALSE
  <2>1. j # 0
    <3>. SUFFICES ASSUME j = 0 PROVE FALSE
      OBVIOUS
    <3>1. Way(c)[j] = Root /\ Way(c)'[j] = Root
      BY WaySteps, WayStepsNext, <1>1 DEF WaysGoDown
    <3>. QED
      BY <1>1, <3>1
  <2>2. /\ j \in 1 .. Width - 1 /\ j - 1 \in 0 .. Width - 1 /\ n - 1 \in 0 .. Width - 1
        /\ j \in 1..Width
    BY <1>1, <2>1, WidthAssumption
  <2>. DEFINE u == Way(c)[j-1]
  <2>30. PICK v : v = Way(c)'[j-1]
    OBVIOUS
  <2>3. /\ u \in 0..Len(node) /\ v \in 0..Len(node')
        /\ Way(c)[j] = Down(u, c[j])
        /\ Way(c)'[j] = Down(v, c[j])'
    <3>1. Way(c)'[j] = Down(Way(c)[j-1], c[j])'
      BY <2>1, <2>2, WayStepsNext DEF WaysGoDown
    <3>2. Way(c)'[j] = Down(v, c[j])'
      BY <2>30, <3>1 DEF Down
    <3>. QED
      BY <2>1, <2>2, <2>30, <3>2, WaySteps, WayStepsNext DEF WaysGoDown
  <2>4. v = Expected(j-1)
    BY <1>1, <2>2, <2>30
  <2>5. c[j] \in Bit
    BY <2>2 DEF Address
  <2>. HIDE DEF u
  <2>6. CASE j - 1 < n \/ ~below
    <3>1. v = u
      BY <2>4, <2>6 DEF u
    <3>2. CASE u = 0
      <4>1. Way(c)[j] = 0 /\ Way(c)'[j] = 0
        BY <2>3, <3>1, <3>2 DEF Down
      <4>2. ~(j = n /\ below)
        <5>. SUFFICES ASSUME j = n, below PROVE FALSE
          OBVIOUS
        <5>1. \A i \in 1..n-1 : c[i] = a[i]
          BY <1>0
        <5>2. n - 1 \in Nat /\ n - 1 < Len(c) /\ n - 1 < Len(a) /\ Len(a) \in Nat \ {0}
              /\ Len(c) \in Nat \ {0}
          BY WidthAssumption DEF Address
        <5>3. Way(c)[n-1] = Way(a)[n-1]
          BY <5>1, <5>2, WayPrefix
        <5>. QED
          BY <3>2, <5>3 DEF Changes, u
      <4>3. Expected(j) = Way(c)[j] \/ Expected(j) = 0
        BY <2>2, <2>6, <4>2
      <4>. QED
        BY <1>1, <4>1, <4>3
    <3>3. CASE u # 0 /\ u = w /\ c[j] = a[n]
      <4>1. /\ Way(c)[j-1] # 0 /\ Way(c)[j-1] = Way(a)[n-1]
        BY <3>3 DEF u, Changes
      <4>2. j - 1 = n - 1 /\ \A i \in 1..j-1 : c[i] = a[i]
        BY <2>2, <4>1, WaysMeet
      <4>3. j = n
        BY <2>2, <4>2
      <4>4. \A i \in 1..n : i = n \/ i \in 1..j-1
        BY <4>3
      <4>5. below
        BY <1>0, <3>3, <4>2, <4>3, <4>4
      <4>6. Expected(j) = new
        BY <4>3, <4>5
      <4>7. Way(c)'[j] = new
        BY <1>01, <2>3, <3>1, <3>3, <4>3
      <4>. QED
        BY <1>1, <4>6, <4>7
    <3>4. CASE u # 0 /\ ~(u = w /\ c[j] = a[n])
      <4>1. u \in 1..Len(node)
        BY <2>3, <3>4 DEF HeapInv
      <4>2. node'[u][c[j]] = node[u][c[j]]
        BY <2>5, <3>4, <4>1 DEF Changes
      <4>3. Way(c)'[j] = Way(c)[j]
        BY <2>3, <3>1, <4>2 DEF Down
      <4>4. ~(j = n /\ below)
        <5>. SUFFICES ASSUME j = n, below PROVE FALSE
          OBVIOUS
        <5>1. \A i \in 1..n-1 : c[i] = a[i]
          BY <1>0
        <5>2. n - 1 \in Nat /\ n - 1 < Len(c) /\ n - 1 < Len(a) /\ Len(a) \in Nat \ {0}
              /\ Len(c) \in Nat \ {0}
          BY WidthAssumption DEF Address
        <5>3. Way(c)[n-1] = Way(a)[n-1]
          BY <5>1, <5>2, WayPrefix
        <5>4. c[n] = a[n]
          BY <1>0
        <5>. QED
          BY <3>4, <5>3, <5>4 DEF Changes, u
      <4>5. Expected(j) = Way(c)[j]
        BY <2>2, <2>6, <4>4
      <4>. QED
        BY <1>1, <4>3, <4>5
    <3>. QED
      BY <3>2, <3>3, <3>4
  <2>7. CASE ~(j - 1 < n \/ ~below)
    <3>1. v = new \/ v = 0
      BY <2>4, <2>7
    <3>2. Down(new, c[j])' = 0
      BY <1>02, <2>5
    <3>3. Way(c)'[j] = 0
      BY <2>3, <3>1, <3>2 DEF Down
    <3>4. Expected(j) = 0
      BY <2>2, <2>7
    <3>. QED
      BY <1>1, <3>3, <3>4
  <2>. QED
    BY <2>6, <2>7
<1>2. Wrong = {}
  <2>1. Wrong \in SUBSET Nat
    OBVIOUS
  <2>. HIDE DEF Wrong
  <2>. QED
    BY <1>1, <2>1, Least
<1>3. Way(c)'[k] = Expected(k)
  <2>. HIDE DEF Expected
  <2>. QED
    BY <1>2
<1>. QED
  BY <1>01, <1>3 DEF below

\* A way that has ended does not go on.
LEMMA WayEnds ==
  ASSUME HeapInv, NEW c \in Address, NEW m \in 0 .. Width - 1, NEW k \in m .. Width - 1,
         Way(c)[m] = 0
  PROVE  Way(c)[k] = 0
<1>. DEFINE GoesOn == {j \in m .. Width - 1 : Way(c)[j] # 0}
<1>1. ASSUME NEW j \in GoesOn, \A h \in GoesOn : j <= h
      PROVE  FALSE
  <2>1. j # m
    BY <1>1
  <2>2. j - 1 \in m .. Width - 1 /\ j \in 0 .. Width - 1 /\ j # 0 /\ j - 1 \notin GoesOn
    <3>1. j \in m .. Width - 1 /\ j \in Int
      OBVIOUS
    <3>2. j - 1 \notin GoesOn
      <4>. HIDE DEF GoesOn
      <4>. QED
        BY <1>1, <3>1
    <3>. QED
      BY <2>1, <3>1, <3>2, WidthAssumption
  <2>3. Way(c)[j] = Down(Way(c)[j-1], c[j])
    BY <2>2, WaySteps DEF WaysGoDown
  <2>. QED
    BY <1>1, <2>2, <2>3 DEF Down
<1>2. GoesOn = {}
  <2>1. GoesOn \in SUBSET Nat
    OBVIOUS
  <2>. HIDE DEF GoesOn
  <2>. QED
    BY <1>1, <2>1, Least
<1>. QED
  BY <1>2

\* No record is below one that does not point.
LEMMA NoneBelow ==
  ASSUME HeapInv, NEW a \in Address, NEW n \in 1..Width,
         Way(a)[n-1] = 0 \/ ~Points(node[Way(a)[n-1]][a[n]]),
         NEW c \in Address, NEW k \in 1..Width, n < k, Cut(c, n) = Cut(a, n)
  PROVE  RecordOn(c, k) = Absent
<1>1. n - 1 \in 0 .. Width - 1 /\ n \in 0 .. Width - 1 /\ n # 0 /\ k - 1 \in n .. Width - 1
  BY WidthAssumption
<1>2. \A i \in 1..n : c[i] = a[i]
  BY CutEqual
<1>3. Way(c)[n-1] = Way(a)[n-1]
  <2>1. n - 1 \in Nat /\ n - 1 < Len(c) /\ n - 1 < Len(a) /\ Len(a) \in Nat \ {0}
        /\ Len(c) \in Nat \ {0} /\ \A i \in 1..n-1 : c[i] = a[i]
    BY <1>2, WidthAssumption DEF Address
  <2>. QED
    BY <2>1, WayPrefix
<1>4. c[n] = a[n]
  BY <1>2
<1>5. Way(c)[n] = Down(Way(c)[n-1], c[n])
  BY <1>1, WaySteps DEF WaysGoDown
<1>6. Way(c)[n] = 0
  BY <1>3, <1>4, <1>5 DEF Down
<1>7. Way(c)[k-1] = 0
  BY <1>1, <1>6, WayEnds
<1>. QED
  BY <1>7 DEF RecordOn

LEMMA RecordOnAfter ==
  ASSUME HeapInv, NoAlias, HeapInv', NEW a \in Address, NEW n \in 1..Width, NEW w,
         Changes(a, n, w), NEW c \in Address, NEW k \in 1..Width
  PROVE  RecordOn(c, k)' =
           IF Cut(c, k) = Cut(a, n) THEN RecordOf(node'[w][a[n]])
           ELSE IF n < k /\ Cut(c, n) = Cut(a, n)
           THEN IF k = n + 1 /\ Down(w, a[n])' # 0
                THEN RecordOf(node'[Down(w, a[n])'][c[k]]) ELSE Absent
           ELSE RecordOn(c, k)
<1>0. k - 1 \in 0 .. Width - 1 /\ n - 1 \in 0 .. Width - 1 /\ c[k] \in Bit
  BY WidthAssumption DEF Address
<1>1. Way(c)'[k-1] = IF k - 1 < n \/ Cut(c, n) # Cut(a, n) THEN Way(c)[k-1]
                     ELSE IF k - 1 = n THEN Down(w, a[n])' ELSE 0
  BY <1>0, WayAfter
<1>2. RecordOn(c, k)' = IF Way(c)'[k-1] = 0 THEN Absent
                        ELSE RecordOf(node'[Way(c)'[k-1]][c[k]])
  BY DEF RecordOn, RecordOf
<1>3. CASE Cut(c, k) = Cut(a, n)
  <2>1. k = n /\ \A i \in 1..n : c[i] = a[i]
    BY <1>3, CutDepth, CutEqual
  <2>2. Way(c)[n-1] = Way(a)[n-1]
    <3>1. n - 1 \in Nat /\ n - 1 < Len(c) /\ n - 1 < Len(a) /\ Len(a) \in Nat \ {0}
          /\ Len(c) \in Nat \ {0} /\ \A i \in 1..n-1 : c[i] = a[i]
      BY <2>1, WidthAssumption DEF Address
    <3>. QED
      BY <3>1, WayPrefix
  <2>3. Way(c)'[k-1] = w /\ w # 0 /\ c[k] = a[n]
    BY <1>1, <2>1, <2>2 DEF Changes
  <2>. QED
    BY <1>2, <1>3, <2>3
<1>4. CASE Cut(c, k) # Cut(a, n) /\ n < k /\ Cut(c, n) = Cut(a, n)
  BY <1>1, <1>2, <1>4
<1>5. CASE Cut(c, k) # Cut(a, n) /\ ~(n < k /\ Cut(c, n) = Cut(a, n))
  <2>1. Way(c)'[k-1] = Way(c)[k-1]
    BY <1>1, <1>5
  <2>2. ASSUME Way(c)[k-1] # 0
        PROVE  node'[Way(c)[k-1]][c[k]] = node[Way(c)[k-1]][c[k]]
    <3>1. Way(c)[k-1] \in 1..Len(node)
      BY <1>0, <2>2, WaySteps DEF WaysGoDown, HeapInv
    <3>2. Way(c)[k-1] # w \/ c[k] # a[n]
      <4>. SUFFICES ASSUME Way(c)[k-1] = w, c[k] = a[n] PROVE FALSE
        OBVIOUS
      <4>1. k - 1 = n - 1 /\ \A i \in 1..k-1 : c[i] = a[i]
        BY <1>0, <2>2, WaysMeet DEF Changes
      <4>2. k = n /\ \A i \in 1..n : i = n \/ i \in 1..k-1
        BY <4>1
      <4>3. Cut(c, k) = Cut(a, n)
        BY <4>1, <4>2, CutEqual
      <4>. QED
        BY <1>5, <4>3
    <3>. QED
      BY <1>0, <3>1, <3>2 DEF Changes
  <2>3. RecordOn(c, k)' = RecordOn(c, k)
    BY <1>2, <2>1, <2>2 DEF RecordOn
  <2>. QED
    BY <1>5, <2>3
<1>. QED
  BY <1>3, <1>4, <1>5

-------------------------------------------------------------------------------
(* The steps that change records *)

\* No record at the last bit of an address is a node.
LastRecords == \A a \in Address : RecordOn(a, Width) # Node

InsertInv == HeapInv /\ NoAlias /\ LastRecords

InsertNext == Insert \/ Step

\* find_node_for_network makes a node n bits down the path of the current call.
MakesNode(n) ==
  LET a == Current.bytes
      w == Way(a)[n-1]
  IN /\ n \in 1 .. Depth(Current.mask) - 1
     /\ w \in 1..Len(node) /\ a[n] \in Bit
     /\ ~Points(node[w][a[n]])
     /\ Len(node') = Len(node) + 1
     /\ node'[w][a[n]] = NodeRecord(Len(node) + 1)
     /\ node'[Len(node) + 1] = NewNode(node[w][a[n]])
     /\ \A i \in 1..Len(node), b \in Bit : i # w \/ b # a[n] => node'[i][b] = node[i][b]

LEMMA MakeNextNodeMakes ==
  ASSUME HeapInv, MakeNextNode
  PROVE  \E n : MakesNode(n)
<1>1. Current \in Call /\ Depth(Current.mask) \in 1..Width
  BY TailCalls, DepthType DEF MakeNextNode, Call
<1>2. PICK n \in 1 .. Depth(Current.mask) - 1 :
        /\ Way(Current.bytes)[n-1] # 0
        /\ ~Points(node[Way(Current.bytes)[n-1]][Current.bytes[n]])
        /\ node' = Append([node EXCEPT ![Way(Current.bytes)[n-1]][Current.bytes[n]] =
                                         NodeRecord(Len(node) + 1)],
                          NewNode(node[Way(Current.bytes)[n-1]][Current.bytes[n]]))
  BY DEF MakeNextNode
<1>. DEFINE w == Way(Current.bytes)[n-1]
            b == Current.bytes[n]
            owner == [node EXCEPT ![w][b] = NodeRecord(Len(node) + 1)]
            made == NewNode(node[w][b])
<1>3. w \in 1..Len(node) /\ b \in Bit
  <2>1. n - 1 \in 0 .. Width - 1 /\ n \in 1..Width
    BY <1>1, WidthAssumption
  <2>2. w \in 0..Len(node)
    BY <1>1, <2>1, WayType DEF Call
  <2>3. w # 0
    BY <1>2
  <2>4. b \in Bit
    BY <1>1, <2>1 DEF Call, Address
  <2>. HIDE DEF w, b
  <2>. QED
    BY <2>2, <2>3, <2>4 DEF HeapInv
<1>4. ~Points(node[w][b]) /\ node' = Append(owner, made)
  BY <1>2
<1>. HIDE DEF w, b
<1>5. Len(node) \in Nat /\ node \in [1..Len(node) -> [Bit -> HeapRecord]]
  BY DEF HeapInv
<1>6. /\ owner \in [1..Len(node) -> [Bit -> HeapRecord \cup {NodeRecord(Len(node) + 1)}]]
      /\ owner[w][b] = NodeRecord(Len(node) + 1)
      /\ \A i \in 1..Len(node), c \in Bit : i # w \/ c # b => owner[i][c] = node[i][c]
  BY <1>3, <1>5
<1>. HIDE DEF owner, made
<1>7. /\ Len(node') = Len(node) + 1 /\ node'[Len(node) + 1] = made
      /\ \A i \in 1..Len(node) : node'[i] = owner[i]
  <2>. DEFINE S == [Bit -> HeapRecord \cup {NodeRecord(Len(node) + 1)}] \cup {made}
  <2>1. owner \in Seq(S) /\ Len(owner) = Len(node) /\ made \in S
    BY <1>5, <1>6
  <2>. HIDE DEF S
  <2>. QED
    BY <1>4, <2>1, AppendProperties
<1>8. MakesNode(n)
  BY <1>3, <1>4, <1>6, <1>7 DEF MakesNode, w, b, made
<1>. QED
  BY <1>8

LEMMA MakesNodeChanges ==
  ASSUME HeapInv, Current \in Call, NEW n, MakesNode(n),
         NEW a, a = Current.bytes, NEW w, w = Way(a)[n-1]
  PROVE  /\ a \in Address /\ n \in 1..Width /\ n < Width
         /\ Changes(a, n, w)
         /\ Down(w, a[n])' = Len(node) + 1 /\ Len(node) + 1 # 0
         /\ \A b \in Bit : /\ node'[Len(node) + 1][b] = NewNode(node[w][a[n]])[b]
                           /\ ~Points(node'[Len(node) + 1][b])
<1>1. a \in Address /\ Depth(Current.mask) \in 1..Width
  BY DepthType DEF Call
<1>2. n \in 1..Width /\ n < Width
  BY <1>1, WidthAssumption DEF MakesNode
<1>3. /\ w \in 1..Len(node) /\ ~Points(node[w][a[n]]) /\ Len(node') = Len(node) + 1
      /\ node'[w][a[n]] = NodeRecord(Len(node) + 1)
      /\ node'[Len(node) + 1] = NewNode(node[w][a[n]])
      /\ \A i \in 1..Len(node), b \in Bit : i # w \/ b # a[n] => node'[i][b] = node[i][b]
  BY DEF MakesNode
<1>4. Len(node) \in Nat /\ w # 0
  BY <1>3 DEF HeapInv
<1>5. Down(w, a[n])' = Len(node) + 1
  BY <1>3, <1>4 DEF Down, NodeRecord, Points
<1>6. \A b \in Bit : /\ node'[Len(node) + 1][b] = NewNode(node[w][a[n]])[b]
                     /\ ~Points(node'[Len(node) + 1][b])
  BY SMTT(30), <1>3 DEF NewNode, Points, EmptyRecord
<1>7. \A b \in Bit : Down(Down(w, a[n]), b)' = 0
  <2>. TAKE b \in Bit
  <2>1. PICK i : i = Len(node) + 1
    OBVIOUS
  <2>2. Down(i, b)' = 0
    BY <1>6, <2>1 DEF Down
  <2>. QED
    BY <1>5, <2>1, <2>2 DEF Down
<1>8. Changes(a, n, w)
  BY <1>3, <1>4, <1>7 DEF Changes
<1>. QED
  BY <1>1, <1>2, <1>4, <1>5, <1>6, <1>8

LEMMA NewRecordIsData ==
  ASSUME HeapInv, NoAlias, Found, ~Croaks
  PROVE  IsData(NewRecord) /\ NewRecord \in HeapRecord
<1>1. RecordToSet \in HeapRecord /\ Running
  BY FoundRecord DEF Found
<1>2. NewRecord \in HeapRecord /\ calls \in Seq(Call) /\ calls # <<>>
  BY <1>1, NewRecordType DEF HeapInv, Running
<1>3. Current = calls[1] /\ 1 \in 1..Len(calls)
  BY <1>2, HeadTailProperties, LenProperties DEF Current
<1>4. IsData(Current.new)
  BY <1>3 DEF NoAlias, IsData
<1>. QED
  BY <1>2, <1>4 DEF NewRecord, IsData, DataRecord

LEMMA SetRecordChanges ==
  ASSUME HeapInv, NoAlias, SetRecord, NEW a, a = Current.bytes,
         NEW n, n = Depth(Current.mask), NEW w, w = NodeToSet
  PROVE  /\ a \in Address /\ n \in 1..Width
         /\ Changes(a, n, w)
         /\ Down(w, a[n])' = 0
         /\ node'[w][a[n]] = NewRecord
         /\ IsData(NewRecord) /\ NewRecord \in HeapRecord
         /\ Len(node') = Len(node) /\ Side = a[n]
<1>1. Found /\ ~Croaks /\ Running /\ node' = [node EXCEPT ![NodeToSet][Side] = NewRecord]
  BY DEF SetRecord, Found
<1>2. Current \in Call
  BY <1>1, TailCalls
<1>3. a \in Address /\ n \in 1..Width /\ Side = a[n] /\ w = Way(a)[n-1]
  BY <1>2, DepthType DEF Call, Side, NodeToSet
<1>4. IsData(NewRecord) /\ NewRecord \in HeapRecord
  BY <1>1, NewRecordIsData
<1>5. w \in 1..Len(node) /\ Side \in Bit
  BY <1>1, FoundRecord
<1>6. Len(node) \in Nat /\ node \in [1..Len(node) -> [Bit -> HeapRecord]]
  BY DEF HeapInv
<1>7. /\ node'[w][a[n]] = NewRecord
      /\ \A i \in 1..Len(node), b \in Bit : i # w \/ b # a[n] => node'[i][b] = node[i][b]
  BY <1>1, <1>3, <1>5, <1>6
<1>8. Len(node') = Len(node)
  BY <1>1, <1>6
<1>9. Down(w, a[n])' = 0
  BY <1>4, <1>7 DEF Down, IsData, Points
<1>10. \A b \in Bit : Down(Down(w, a[n]), b)' = 0
  BY <1>9 DEF Down
<1>11. Changes(a, n, w)
  BY <1>3, <1>5, <1>6, <1>7, <1>8, <1>10 DEF Changes
<1>. QED
  BY <1>3, <1>4, <1>7, <1>8, <1>9, <1>11

\* Without a change of the nodes the ways and records stay.
LEMMA WaySame ==
  ASSUME UNCHANGED node
  PROVE  \A bits : Way(bits)' = Way(bits)
BY ZenonT(30) DEF Way, Down

LEMMA RecordOnSame ==
  ASSUME UNCHANGED node
  PROVE  \A a, n : RecordOn(a, n)' = RecordOn(a, n)
BY WaySame DEF RecordOn, RecordOf

LEMMA InsertInvInit == HeapInit => InsertInv
<1>. SUFFICES ASSUME HeapInit PROVE InsertInv
  OBVIOUS
<1>1. HeapInv
  BY HeapInvInit
<1>2. /\ calls = <<>> /\ Len(node) = 1
      /\ \A b \in Bit : node[1][b] = EmptyRecord
  BY DEF HeapInit
<1>3. NoAlias
  BY <1>2 DEF NoAlias, EmptyRecord
<1>4. ASSUME NEW a \in Address PROVE RecordOn(a, Width) # Node
  <2>1. Way(a)[Width - 1] \in 0..1 /\ a[Width] \in Bit
    BY <1>1, <1>2, WayType, WidthAssumption DEF Address
  <2>2. RecordOn(a, Width) \in {Absent, Empty}
    BY <1>2, <2>1 DEF RecordOn, RecordOf, EmptyRecord, Points
  <2>. QED
    BY <2>2, PlaceAssumption
<1>. QED
  BY <1>1, <1>3, <1>4 DEF InsertInv, LastRecords

LEMMA NoAliasNext ==
  ASSUME HeapInv, NoAlias, InsertNext
  PROVE  NoAlias'
<1>1. CASE Insert
  BY <1>1 DEF Insert, InsertNetwork, NoAlias, DataRecord
<1>0. ASSUME Running
      PROVE  /\ Current \in Call /\ Current.new.type = "data"
             /\ Tail(calls) \in Seq(Call)
             /\ \A i \in 1..Len(Tail(calls)) : Tail(calls)[i].new.type = "data"
  <2>1. calls \in Seq(Call) /\ calls # <<>>
    BY <1>0 DEF HeapInv, Running
  <2>2. /\ Current \in Call /\ Current = calls[1]
        /\ Tail(calls) \in Seq(Call) /\ Len(Tail(calls)) = Len(calls) - 1
        /\ \A i \in 1..Len(Tail(calls)) : Tail(calls)[i] = calls[i+1]
    BY <2>1, HeadTailProperties DEF Current
  <2>3. Len(calls) \in Nat \ {0}
    BY <2>1, LenProperties
  <2>4. \A i \in 1..Len(Tail(calls)) : i + 1 \in 1..Len(calls)
    BY <2>2, <2>3
  <2>5. 1 \in 1..Len(calls)
    BY <2>3
  <2>. QED
    BY <2>2, <2>4, <2>5 DEF NoAlias
<1>2. ASSUME Running, UNCHANGED node, NEW front \in Seq(Call),
             calls' = front \o Tail(calls),
             \A i \in 1..Len(front) : front[i].new.type = "data"
      PROVE  NoAlias'
  <2>0. /\ Tail(calls) \in Seq(Call)
        /\ \A i \in 1..Len(Tail(calls)) : Tail(calls)[i].new.type = "data"
    BY <1>0, <1>2
  <2>1. /\ Len(calls') = Len(front) + Len(Tail(calls))
        /\ \A i \in 1..Len(calls') :
             calls'[i] = IF i <= Len(front) THEN front[i] ELSE Tail(calls)[i - Len(front)]
    BY <1>2, <2>0, ConcatProperties
  <2>2. Len(front) \in Nat /\ Len(Tail(calls)) \in Nat
    BY <2>0, LenProperties
  <2>3. ASSUME NEW i \in 1..Len(calls')
        PROVE  calls'[i].new.type = "data"
    <3>1. CASE i <= Len(front)
      BY <1>2, <2>1, <2>2, <3>1
    <3>2. CASE ~(i <= Len(front))
      <4>1. i - Len(front) \in 1..Len(Tail(calls))
        BY <2>1, <2>2, <3>2
      <4>. QED
        BY <2>0, <2>1, <3>2, <4>1
    <3>. QED
      BY <3>1, <3>2
  <2>. QED
    BY <1>2, <2>3 DEF NoAlias
<1>3. CASE MergeIntoNode
  <2>. DEFINE left == [Current EXCEPT !.mask = @ + 1]
              right == [left EXCEPT !.bytes = SetBit(@, left.mask)]
  <2>1. Running /\ UNCHANGED node /\ calls' = <<left, right>> \o Tail(calls)
    BY <1>3 DEF MergeIntoNode, Found
  <2>2. Current \in Call /\ Current.new.type = "data"
    BY <1>0, <2>1
  <2>3. Current.mask \in MaskLength /\ Current.mask < Width
    BY <1>3, <2>2, MaskAssumption, WidthAssumption
      DEF MergeIntoNode, Croaks, Call, MaskLength
  <2>4. left \in Call /\ left.new = Current.new
    BY <2>2, <2>3, MaskAssumption, WidthAssumption DEF Call, MaskLength
  <2>5. right \in Call /\ right.new = Current.new
    <3>1. SetBit(left.bytes, left.mask) \in Address
      BY <2>4 DEF SetBit, Call, Address, Bit
    <3>. QED
      BY <2>4, <3>1 DEF Call
  <2>. HIDE DEF left, right
  <2>6. /\ <<left, right>> \in Seq(Call)
        /\ \A i \in 1..Len(<<left, right>>) : <<left, right>>[i].new.type = "data"
    BY <2>2, <2>4, <2>5
  <2>. QED
    BY <1>2, <2>1, <2>6
<1>4. CASE InsertIntoParent
  <2>. DEFINE up == [Current EXCEPT !.mask = ParentMask(@), !.new = NewRecord,
                                    !.merge = FALSE]
  <2>1. /\ Running /\ UNCHANGED node /\ calls' = <<up>> \o Tail(calls)
        /\ Found /\ ~Croaks
    BY <1>4 DEF InsertIntoParent, Found
  <2>2. Current \in Call /\ IsData(NewRecord) /\ NewRecord \in HeapRecord
    BY <1>0, <2>1, NewRecordIsData
  <2>3. ParentMask(Current.mask) \in MaskLength
    BY <2>2, MaskAssumption DEF ParentMask, Call, MaskLength
  <2>4. up \in Call /\ up.new = NewRecord
    BY <2>2, <2>3 DEF Call
  <2>. HIDE DEF up
  <2>5. <<up>> \in Seq(Call) /\ \A i \in 1..Len(<<up>>) : <<up>>[i].new.type = "data"
    BY <2>2, <2>4 DEF IsData
  <2>. QED
    BY <1>2, <2>1, <2>5
<1>5. CASE MakeNextNode
  <2>1. Running /\ calls' = calls
    BY <1>5 DEF MakeNextNode
  <2>2. PICK n : MakesNode(n)
    BY <1>5, MakeNextNodeMakes
  <2>. DEFINE w == Way(Current.bytes)[n-1]
              b == Current.bytes[n]
  <2>3. /\ ~Points(node[w][b])
        /\ Len(node') = Len(node) + 1 /\ Len(node) \in Nat
        /\ node'[w][b] = NodeRecord(Len(node) + 1)
        /\ node'[Len(node) + 1] = NewNode(node[w][b])
        /\ \A i \in 1..Len(node), c \in Bit : i # w \/ c # b => node'[i][c] = node[i][c]
    BY <2>2 DEF MakesNode, HeapInv
  <2>4. \A c \in Bit : node'[Len(node) + 1][c].type # "alias"
    BY SMTT(30), <2>3 DEF NewNode, Points, EmptyRecord
  <2>5. node'[w][b].type # "alias"
    BY <2>3 DEF NodeRecord
  <2>. HIDE DEF w, b
  <2>6. ASSUME NEW i \in 1..Len(node'), NEW c \in Bit
        PROVE  node'[i][c].type # "alias"
    <3>1. i = Len(node) + 1 \/ i \in 1..Len(node)
      BY <2>3
    <3>. QED
      BY <2>3, <2>4, <2>5, <3>1 DEF NoAlias
  <2>. QED
    BY <2>1, <2>6 DEF NoAlias
<1>6. CASE SetRecord
  <2>1. Running /\ calls' = Tail(calls)
    BY <1>6 DEF SetRecord, Found
  <2>. DEFINE a == Current.bytes
              n == Depth(Current.mask)
  <2>2. /\ Changes(a, n, NodeToSet) /\ node'[NodeToSet][a[n]] = NewRecord
        /\ IsData(NewRecord) /\ Len(node') = Len(node)
    BY <1>6, SetRecordChanges
  <2>3. \A i \in 1..Len(node'), c \in Bit : node'[i][c].type # "alias"
    BY <2>2 DEF Changes, IsData, NoAlias
  <2>. QED
    BY <1>0, <2>1, <2>3 DEF NoAlias
<1>7. CASE Croak
  BY <1>7 DEF Croak, NoAlias
<1>. QED
  BY <1>1, <1>3, <1>4, <1>5, <1>6, <1>7 DEF InsertNext, Step

\* The record at the last bit is changed by SetRecord only, which stores data.
LEMMA LastRecordsNext ==
  ASSUME InsertInv, HeapInv', InsertNext
  PROVE  LastRecords'
<1>0. HeapInv /\ NoAlias /\ LastRecords /\ Width \in 1..Width
  BY WidthAssumption DEF InsertInv
<1>1. CASE UNCHANGED node
  BY <1>0, <1>1, RecordOnSame DEF LastRecords
<1>2. CASE MakeNextNode
  <2>1. Current \in Call
    BY <1>0, <1>2, TailCalls DEF MakeNextNode
  <2>2. PICK n : MakesNode(n)
    BY <1>0, <1>2, MakeNextNodeMakes
  <2>3. PICK a, w, t : a = Current.bytes /\ w = Way(a)[n-1] /\ t = Len(node) + 1
    OBVIOUS
  <2>4. /\ a \in Address /\ n \in 1..Width /\ n < Width /\ Changes(a, n, w)
        /\ Down(w, a[n])' = t /\ \A b \in Bit : ~Points(node'[t][b])
    BY <1>0, <2>1, <2>2, <2>3, MakesNodeChanges
  <2>5. ASSUME NEW c \in Address PROVE RecordOn(c, Width)' # Node
    <3>1. Cut(c, Width) # Cut(a, n)
      BY <1>0, <2>4, CutDepth
    <3>2. \/ RecordOn(c, Width)' = RecordOf(node'[t][c[Width]])
          \/ RecordOn(c, Width)' = Absent
          \/ RecordOn(c, Width)' = RecordOn(c, Width)
      BY <1>0, <2>4, <3>1, RecordOnAfter
    <3>3. c[Width] \in Bit
      BY <1>0 DEF Address
    <3>4. RecordOf(node'[t][c[Width]]) # Node
      <4>1. t \in 1..Len(node')
        BY <1>0, <2>2, <2>3 DEF MakesNode, HeapInv
      <4>2. node'[t][c[Width]] \in HeapRecord'
        BY <1>0, <3>3, <4>1 DEF HeapInv
      <4>3. ~Points(node'[t][c[Width]])
        BY <2>4, <3>3
      <4>. QED
        BY <4>2, <4>3, NodesPointNext DEF NodesPoint
    <3>. QED
      BY <1>0, <3>2, <3>4, PlaceAssumption DEF LastRecords
  <2>. QED
    BY <2>5 DEF LastRecords
<1>3. CASE SetRecord
  <2>1. PICK a, n, w : a = Current.bytes /\ n = Depth(Current.mask) /\ w = NodeToSet
    OBVIOUS
  <2>2. /\ a \in Address /\ n \in 1..Width /\ Changes(a, n, w)
        /\ Down(w, a[n])' = 0 /\ node'[w][a[n]] = NewRecord
        /\ IsData(NewRecord) /\ NewRecord \in HeapRecord
    BY <1>0, <1>3, <2>1, SetRecordChanges
  <2>3. ASSUME NEW c \in Address PROVE RecordOn(c, Width)' # Node
    <3>1. \/ RecordOn(c, Width)' = RecordOf(NewRecord)
          \/ RecordOn(c, Width)' = Absent
          \/ RecordOn(c, Width)' = RecordOn(c, Width)
      BY <1>0, <2>2, RecordOnAfter
    <3>2. RecordOf(NewRecord) # Node
      BY <2>2, RecordOfKinds DEF IsData, Points
    <3>. QED
      BY <1>0, <3>1, <3>2, PlaceAssumption DEF LastRecords
  <2>. QED
    BY <2>3 DEF LastRecords
<1>. QED
  BY <1>1, <1>2, <1>3 DEF InsertNext, Insert, InsertNetwork, Step, MergeIntoNode,
     InsertIntoParent, Croak

LEMMA InsertInvNext == InsertInv /\ [InsertNext]_heapVars => InsertInv'
<1>. SUFFICES ASSUME InsertInv, [InsertNext]_heapVars PROVE InsertInv'
  OBVIOUS
<1>1. HeapInv'
  BY HeapInvNext DEF InsertInv, InsertNext, AliasNext
<1>2. CASE InsertNext
  BY <1>1, <1>2, NoAliasNext, LastRecordsNext DEF InsertInv
<1>3. CASE UNCHANGED heapVars
  BY <1>1, <1>3, RecordOnSame DEF heapVars, InsertInv, NoAlias, LastRecords
<1>. QED
  BY <1>2, <1>3

-------------------------------------------------------------------------------
(* The mapped tree *)

\* PrefixTree speaks of the same places, masks and payloads.
LEMMA SameTree ==
  /\ Tree!Prefix = Prefix /\ Tree!Data = Data
  /\ \A a, n : Tree!Cut(a, n) = Cut(a, n)
  /\ \A p : Tree!Children(p) = Children(p) /\ Tree!Sibling(p) = Sibling(p)
  /\ \A p, q : Tree!IsStrictPrefix(p, q) <=> IsStrictPrefix(p, q)
  /\ \A a, n : Tree!SetBit(a, n) = SetBit(a, n)
  /\ \A mask : Tree!Depth(mask) = Depth(mask) /\ Tree!ParentMask(mask) = ParentMask(mask)
  /\ \A d, e : (Tree!Mergeable(d, e) <=> Mergeable(d, e)) /\ Tree!Merged(d, e) = Merged(d, e)
<1>1. Tree!Bit = Bit /\ Tree!Hash = Hash
  BY DEF Tree!Bit, Bit, Tree!Hash, Hash
<1>2. Tree!Prefix = Prefix /\ Tree!Data = Data
  BY <1>1 DEF Tree!Prefix, Prefix, Tree!Data, Data
<1>3. \A a, n : Tree!Cut(a, n) = Cut(a, n)
  BY DEF Tree!Cut, Cut
<1>4. \A p : Tree!Children(p) = Children(p) /\ Tree!Sibling(p) = Sibling(p)
  BY <1>1 DEF Tree!Children, Children, Tree!Sibling, Sibling
<1>5. \A p, q : Tree!IsStrictPrefix(p, q) <=> IsStrictPrefix(p, q)
  BY DEF Tree!IsStrictPrefix, IsStrictPrefix, Tree!IsPrefix, IsPrefix
<1>6. \A a, n : Tree!SetBit(a, n) = SetBit(a, n)
  BY DEF Tree!SetBit, SetBit
<1>7. \A mask : Tree!LastBit(mask) = LastBit(mask)
  BY DEF Tree!LastBit, LastBit
<1>8. \A mask : Tree!Depth(mask) = Depth(mask) /\ Tree!ParentMask(mask) = ParentMask(mask)
  BY <1>7 DEF Tree!Depth, Depth, Tree!ParentMask, ParentMask
<1>9. \A d, e : (Tree!Mergeable(d, e) <=> Mergeable(d, e)) /\ Tree!Merged(d, e) = Merged(d, e)
  BY <1>1 DEF Tree!Mergeable, Mergeable, Tree!Merged, Merged, Tree!MergeHash, MergeHash
<1>. QED
  BY <1>2, <1>3, <1>4, <1>5, <1>6, <1>8, <1>9

\* The calls as the mapping has them.
CallOf(call) == [bytes |-> call.bytes, mask |-> call.mask, data |-> call.new.value,
                 merge |-> call.merge]

CallsOf(s) == [i \in 1..Len(s) |-> CallOf(s[i])]

LEMMA CallsOfSeq ==
  ASSUME NEW T, NEW s \in Seq(T)
  PROVE  /\ CallsOf(s) \in Seq({CallOf(c) : c \in T})
         /\ Len(CallsOf(s)) = Len(s)
         /\ \A i \in 1..Len(s) : CallsOf(s)[i] = CallOf(s[i])
<1>1. Len(s) \in Nat /\ \A i \in 1..Len(s) : s[i] \in T
  BY LenProperties
<1>. HIDE DEF CallOf
<1>. QED
  BY <1>1 DEF CallsOf

LEMMA CallsOfHead ==
  ASSUME NEW T, NEW s \in Seq(T), s # <<>>
  PROVE  /\ CallsOf(s) # <<>>
         /\ Head(CallsOf(s)) = CallOf(Head(s))
         /\ Tail(CallsOf(s)) = CallsOf(Tail(s))
<1>. DEFINE m == CallsOf(s)
            M == {CallOf(c) : c \in T}
<1>1. m \in Seq(M) /\ Len(m) = Len(s) /\ \A i \in 1..Len(s) : m[i] = CallOf(s[i])
  BY CallsOfSeq
<1>2. Len(s) \in Nat \ {0} /\ 1 \in 1..Len(s)
  BY LenProperties
<1>. HIDE DEF m, M
<1>3. m # <<>>
  BY <1>1, <1>2
<1>4. /\ Head(m) = m[1] /\ Tail(m) \in Seq(M) /\ Len(Tail(m)) = Len(m) - 1
      /\ \A i \in 1..Len(Tail(m)) : Tail(m)[i] = m[i+1]
  BY <1>1, <1>3, HeadTailProperties
<1>5. /\ Head(s) = s[1] /\ Tail(s) \in Seq(T) /\ Len(Tail(s)) = Len(s) - 1
      /\ \A i \in 1..Len(Tail(s)) : Tail(s)[i] = s[i+1]
  BY <1>3, HeadTailProperties
<1>6. /\ CallsOf(Tail(s)) \in Seq(M) /\ Len(CallsOf(Tail(s))) = Len(s) - 1
      /\ \A i \in 1..Len(Tail(s)) : CallsOf(Tail(s))[i] = CallOf(Tail(s)[i])
  BY <1>5, CallsOfSeq DEF M
<1>7. \A i \in 1..Len(Tail(s)) : i + 1 \in 1..Len(s)
  BY <1>2, <1>5
<1>8. \A i \in 1..Len(Tail(m)) : Tail(m)[i] = CallsOf(Tail(s))[i]
  BY <1>1, <1>4, <1>5, <1>6, <1>7
<1>9. Tail(m) = CallsOf(Tail(s))
  BY <1>1, <1>4, <1>6, <1>8, SeqEqual
<1>. QED
  BY <1>1, <1>2, <1>3, <1>4, <1>5, <1>9 DEF m

LEMMA CallsOfConcat ==
  ASSUME NEW T, NEW s \in Seq(T), NEW t \in Seq(T)
  PROVE  CallsOf(s \o t) = CallsOf(s) \o CallsOf(t)
<1>. DEFINE M == {CallOf(c) : c \in T}
<1>1. /\ CallsOf(s) \in Seq(M) /\ Len(CallsOf(s)) = Len(s)
      /\ \A i \in 1..Len(s) : CallsOf(s)[i] = CallOf(s[i])
  BY CallsOfSeq
<1>2. /\ CallsOf(t) \in Seq(M) /\ Len(CallsOf(t)) = Len(t)
      /\ \A i \in 1..Len(t) : CallsOf(t)[i] = CallOf(t[i])
  BY CallsOfSeq
<1>3. /\ s \o t \in Seq(T) /\ Len(s \o t) = Len(s) + Len(t)
      /\ \A i \in 1 .. Len(s) + Len(t) :
           (s \o t)[i] = IF i <= Len(s) THEN s[i] ELSE t[i - Len(s)]
  BY ConcatProperties
<1>4. /\ CallsOf(s \o t) \in Seq(M) /\ Len(CallsOf(s \o t)) = Len(s) + Len(t)
      /\ \A i \in 1 .. Len(s) + Len(t) : CallsOf(s \o t)[i] = CallOf((s \o t)[i])
  BY <1>3, CallsOfSeq
<1>. HIDE DEF M
<1>5. /\ CallsOf(s) \o CallsOf(t) \in Seq(M)
      /\ Len(CallsOf(s) \o CallsOf(t)) = Len(s) + Len(t)
      /\ \A i \in 1 .. Len(s) + Len(t) : (CallsOf(s) \o CallsOf(t))[i] =
           IF i <= Len(s) THEN CallsOf(s)[i] ELSE CallsOf(t)[i - Len(s)]
  <2>. DEFINE u == CallsOf(s)
              v == CallsOf(t)
  <2>1. u \in Seq(M) /\ v \in Seq(M) /\ Len(u) = Len(s) /\ Len(v) = Len(t)
    BY <1>1, <1>2
  <2>. HIDE DEF u, v
  <2>2. /\ u \o v \in Seq(M) /\ Len(u \o v) = Len(u) + Len(v)
        /\ \A i \in 1 .. Len(u) + Len(v) :
             (u \o v)[i] = IF i <= Len(u) THEN u[i] ELSE v[i - Len(u)]
    BY <2>1, ConcatProperties
  <2>. QED
    BY <2>1, <2>2 DEF u, v
<1>6. \A i \in 1 .. Len(s) + Len(t) : CallsOf(s \o t)[i] = (CallsOf(s) \o CallsOf(t))[i]
  <2>. TAKE i \in 1 .. Len(s) + Len(t)
  <2>1. Len(s) \in Nat /\ Len(t) \in Nat
    BY LenProperties
  <2>2. CASE i <= Len(s)
    <3>1. i \in 1..Len(s)
      BY <2>1, <2>2
    <3>. QED
      BY <1>1, <1>3, <1>4, <1>5, <2>2, <3>1
  <2>3. CASE ~(i <= Len(s))
    <3>1. i - Len(s) \in 1..Len(t)
      BY <2>1, <2>3
    <3>. QED
      BY <1>2, <1>3, <1>4, <1>5, <2>3, <3>1
  <2>. QED
    BY <2>2, <2>3
<1>. QED
  BY <1>4, <1>5, <1>6, SeqEqual

LEMMA TreeVars == Tree!vars = <<RecordMap, CallsOf(calls)>>
BY DEF Tree!vars, RecordMap, CallsOf, CallOf

\* The record of the current call, and the other record of its node.
LEMMA RecordMapSibling ==
  ASSUME NEW a \in Address, NEW n \in 1..Width
  PROVE  /\ Sibling(Cut(a, n)) \in Prefix
         /\ RecordMap[Sibling(Cut(a, n))] =
              LET i == Way(a)[n-1] IN IF i = 0 THEN Absent ELSE RecordOf(node[i][1 - a[n]])
<1>. DEFINE c == [a EXCEPT ![n] = 1 - @]
            p == Cut(a, n)
<1>1. c \in Address /\ c[n] = 1 - a[n] /\ \A i \in 1..n-1 : c[i] = a[i]
  BY WidthAssumption DEF Address, Bit
<1>2. p \in Seq(Bit) /\ Len(p) = n /\ p \in [1..n -> Bit] /\ \A i \in 1..n : p[i] = a[i]
  <2>1. p \in Seq(Bit) /\ Len(p) = n /\ \A i \in 1..n : p[i] = a[i]
    BY CutProperties
  <2>. QED
    BY <2>1, LenProperties
<1>3. Sibling(p) \in [1..n -> Bit] /\ \A i \in 1..n : Sibling(p)[i] = IF i = n THEN 1 - p[i] ELSE p[i]
  BY <1>2 DEF Sibling, Bit
<1>4. Cut(c, n) \in [1..n -> Bit] /\ \A i \in 1..n : Cut(c, n)[i] = c[i]
  <2>1. Cut(c, n) \in Seq(Bit) /\ Len(Cut(c, n)) = n /\ \A i \in 1..n : Cut(c, n)[i] = c[i]
    BY <1>1, CutProperties
  <2>. QED
    BY <2>1, LenProperties
<1>5. \A i \in 1..n : i = n \/ i \in 1..n-1
  BY WidthAssumption
<1>6. Sibling(p) = Cut(c, n)
  <2>. HIDE DEF c, p
  <2>1. \A i \in 1..n : Sibling(p)[i] = Cut(c, n)[i]
    BY <1>1, <1>2, <1>3, <1>4, <1>5
  <2>. QED
    BY <1>3, <1>4, <2>1
<1>7. Way(c)[n-1] = Way(a)[n-1]
  <2>. HIDE DEF c
  <2>1. n - 1 \in Nat /\ n - 1 < Len(c) /\ n - 1 < Len(a) /\ Len(a) \in Nat \ {0}
        /\ Len(c) \in Nat \ {0}
    BY <1>1, WidthAssumption DEF Address
  <2>. QED
    BY <1>1, <2>1, WayPrefix
<1>8. RecordMap[Sibling(p)] = RecordOn(c, n) /\ Sibling(p) \in Prefix
  <2>. HIDE DEF c, p
  <2>. QED
    BY <1>1, <1>6, RecordMapOn, CutProperties
<1>9. c[n] = 1 - a[n]
  BY <1>1
<1>. HIDE DEF c
<1>. QED
  BY <1>7, <1>8, <1>9 DEF RecordOn

\* The mapped tree's view of the current call.
LEMMA MappedCall ==
  ASSUME HeapInv, NoAlias, Running,
         NEW a, a = Current.bytes, NEW n, n = Depth(Current.mask)
  PROVE  /\ Tree!Running
         /\ Tree!Current = CallOf(Current)
         /\ a \in Address /\ n \in 1..Width
         /\ Tree!Place(Tree!Current) = Cut(a, n)
         /\ Tree!RecordToSet = RecordOn(a, n)
         /\ Tree!OtherRecord = LET i == Way(a)[n-1]
                               IN IF i = 0 THEN Absent ELSE RecordOf(node[i][1 - a[n]])
         /\ Tree!RecordToSet = IF NodeToSet = 0 THEN Absent ELSE RecordOf(RecordToSet)
         /\ Tree!OtherRecord = IF NodeToSet = 0 THEN Absent ELSE RecordOf(OtherRecord)
<1>1. calls \in Seq(Call) /\ calls # <<>> /\ Current \in Call
  BY TailCalls DEF HeapInv, Running
<1>2. CallsOf(calls) # <<>> /\ Head(CallsOf(calls)) = CallOf(Current)
  BY <1>1, CallsOfHead DEF Current
<1>3. Tree!Running /\ Tree!Current = CallOf(Current)
  BY <1>2 DEF Tree!Running, Tree!Current, CallsOf, CallOf
<1>4. a \in Address /\ n \in 1..Width
  BY <1>1, DepthType DEF Call
<1>5. Tree!Place(CallOf(Current)) = Cut(a, n)
  BY SameTree DEF Tree!Place, CallOf
<1>6. Tree!RecordToSet = RecordMap[Cut(a, n)]
  BY <1>3, <1>5 DEF Tree!RecordToSet, RecordMap
<1>7. Tree!OtherRecord = RecordMap[Sibling(Cut(a, n))]
  BY <1>3, <1>5, SameTree DEF Tree!OtherRecord, RecordMap
<1>8. Tree!RecordToSet = RecordOn(a, n)
  BY <1>4, <1>6, RecordMapOn
<1>9. Tree!OtherRecord = LET i == Way(a)[n-1]
                         IN IF i = 0 THEN Absent ELSE RecordOf(node[i][1 - a[n]])
  BY <1>4, <1>7, RecordMapSibling
<1>. QED
  BY <1>3, <1>4, <1>5, <1>8, <1>9 DEF RecordOn, NodeToSet, RecordToSet, OtherRecord, Side

\* Both trees find the same record, and do the same with it.
LEMMA SameDecisions ==
  ASSUME HeapInv, NoAlias, Found
  PROVE  /\ Tree!Found
         /\ Tree!Current = CallOf(Current) /\ Current \in Call
         /\ Tree!Descends <=> Descends
         /\ Tree!Croaks <=> Croaks
         /\ ~Croaks => /\ Tree!NewData = RecordOf(NewRecord)
                       /\ Tree!NewData = NewRecord.value
                       /\ Tree!Prunes <=> Prunes
<1>. PICK a, n : a = Current.bytes /\ n = Depth(Current.mask)
  OBVIOUS
<1>0. Running /\ NodeToSet # 0
  BY DEF Found
<1>1. /\ Tree!Running /\ Tree!Current = CallOf(Current)
      /\ Tree!RecordToSet = RecordOf(RecordToSet)
      /\ Tree!OtherRecord = RecordOf(OtherRecord)
  BY <1>0, MappedCall
<1>2. RecordToSet \in HeapRecord /\ OtherRecord \in HeapRecord /\ Current \in Call
  <2>1. NodeToSet \in 1..Len(node) /\ Side \in Bit /\ RecordToSet \in HeapRecord
    BY FoundRecord
  <2>2. OtherRecord \in HeapRecord
    BY <2>1 DEF OtherRecord, HeapInv, Bit
  <2>. QED
    BY <1>0, <2>1, <2>2, TailCalls
<1>3. Tree!Found
  BY <1>1, <1>2, RecordOfKinds DEF Tree!Found
<1>4. Tree!Current.merge = Current.merge /\ Tree!Current.mask = Current.mask
      /\ Tree!Current.data = Current.new.value
  BY <1>1 DEF CallOf
<1>5. Tree!Descends <=> Descends
  BY <1>1, <1>2, <1>4, RecordOfKinds DEF Tree!Descends, Descends
<1>6. Tree!Merges <=> Merges
  BY <1>1, <1>2, <1>4, RecordOfKinds, SameTree DEF Tree!Merges, Merges
<1>7. Merges => Tree!RecordToSet = RecordToSet.value
  BY <1>1, <1>2, RecordOfKinds DEF Merges
<1>8. Tree!Croaks <=> Croaks
  BY <1>4, <1>5, <1>6, <1>7, SameTree DEF Tree!Croaks, Croaks
<1>9. ASSUME ~Croaks
      PROVE  /\ Tree!NewData = RecordOf(NewRecord)
             /\ Tree!NewData = NewRecord.value
             /\ Tree!Prunes <=> Prunes
  <2>1. IsData(NewRecord) /\ NewRecord \in HeapRecord
    BY <1>9, NewRecordIsData
  <2>2. Tree!NewData = NewRecord.value
    BY <1>4, <1>6, <1>7, SameTree DEF Tree!NewData, NewRecord, DataRecord
  <2>3. RecordOf(NewRecord) = NewRecord.value /\ NewRecord.value \in Data
    BY <2>1, RecordOfKinds, RecordKinds
  <2>4. NewRecord = DataRecord(NewRecord.value)
    BY <2>1, RecordKinds DEF NoPointer, IsData, Points, EmptyRecord, DataRecord
  <2>5. OtherRecord = NewRecord <=> RecordOf(OtherRecord) = NewRecord.value
    <3>1. CASE OtherRecord = NewRecord
      BY <2>3, <3>1
    <3>2. CASE RecordOf(OtherRecord) = NewRecord.value
      <4>1. IsData(OtherRecord) /\ OtherRecord.value = NewRecord.value
        BY <1>2, <2>3, <3>2, RecordOfKinds
      <4>2. OtherRecord = DataRecord(OtherRecord.value)
        BY <1>2, <4>1, RecordKinds DEF NoPointer, IsData, Points, EmptyRecord, DataRecord
      <4>. QED
        BY <2>4, <3>2, <4>1, <4>2
    <3>. QED
      BY <3>1, <3>2
  <2>6. Tree!Prunes <=> Prunes
    BY <1>1, <2>1, <2>2, <2>5 DEF Tree!Prunes, Prunes
  <2>. QED
    BY <2>2, <2>3, <2>6
<1>. QED
  BY <1>1, <1>2, <1>3, <1>5, <1>8, <1>9

-------------------------------------------------------------------------------
(* The mapped steps *)

MapsPlaces == /\ RecordMap = [p \in Prefix |-> RecordMap[p]]
              /\ \A a \in Address, n \in 1..Width : RecordMap[Cut(a, n)] = RecordOn(a, n)

LEMMA MapsPlacesNext == MapsPlaces /\ MapsPlaces'
<1>1. MapsPlaces
  <2>1. RecordMap = [p \in Prefix |-> RecordMap[p]]
    BY DEF RecordMap
  <2>. QED
    BY <2>1, RecordMapOn DEF MapsPlaces
<1>. QED
  BY <1>1, PTL

\* The mapped tree after a step, from its records along every path.
LEMMA RecordMapNext ==
  ASSUME NEW R, R = [q \in Prefix |-> R[q]],
         \A c \in Address, k \in 1..Width : RecordOn(c, k)' = R[Cut(c, k)]
  PROVE  RecordMap' = R
<1>1. ASSUME NEW q \in Prefix PROVE RecordMap'[q] = R[q]
  <2>1. PICK c \in Address, k \in 1..Width : q = Cut(c, k)
    BY PrefixIsCut
  <2>. QED
    BY <2>1, MapsPlacesNext DEF MapsPlaces
<1>2. RecordMap' = [q \in Prefix |-> RecordMap'[q]]
  BY MapsPlacesNext DEF MapsPlaces
<1>. HIDE DEF RecordMap
<1>. QED
  BY <1>1, <1>2, Zenon

LEMMA RecordMapSame ==
  ASSUME UNCHANGED node
  PROVE  RecordMap' = RecordMap
<1>1. RecordMap = [q \in Prefix |-> RecordMap[q]]
  BY MapsPlacesNext DEF MapsPlaces
<1>2. \A c \in Address, k \in 1..Width : RecordOn(c, k)' = RecordMap[Cut(c, k)]
  BY RecordOnSame, MapsPlacesNext DEF MapsPlaces
<1>. QED
  BY <1>1, <1>2, RecordMapNext

LEMMA MapInsertNetwork ==
  ASSUME NEW net \in Insertable, NEW data \in Inputs, InsertNetwork(net[1], net[2], data)
  PROVE  Tree!InsertNetwork(net[1], net[2], data)
<1>. DEFINE new == [bytes |-> net[1], mask |-> net[2], new |-> DataRecord(data),
                    merge |-> MergeRecordCollisions]
<1>1. calls = <<>> /\ calls' = <<new>> /\ UNCHANGED node
  BY DEF InsertNetwork, Running
<1>2. CallsOf(calls) = <<>>
  BY <1>1 DEF CallsOf
<1>3. CallOf(new) = [bytes |-> net[1], mask |-> net[2], data |-> data,
                     merge |-> MergeRecordCollisions]
  BY DEF CallOf, DataRecord
<1>4. CallsOf(<<new>>) = <<CallOf(new)>>
  <2>. HIDE DEF new
  <2>. QED
    BY DEF CallsOf
<1>5. CallsOf(calls)' = <<CallOf(new)>>
  BY <1>1, <1>4 DEF CallsOf, CallOf
<1>6. RecordMap' = RecordMap
  BY <1>1, RecordMapSame
<1>. HIDE DEF new
<1>. QED
  BY <1>2, <1>3, <1>5, <1>6 DEF Tree!InsertNetwork, Tree!Running, CallsOf, CallOf, RecordMap

\* The calls after a step that puts calls in front of those after the current one.
LEMMA MapCallsInFront ==
  ASSUME HeapInv, Running, NEW front \in Seq(Call), calls' = front \o Tail(calls)
  PROVE  CallsOf(calls)' = CallsOf(front) \o Tail(CallsOf(calls))
<1>1. calls \in Seq(Call) /\ calls # <<>> /\ Tail(calls) \in Seq(Call)
  BY TailCalls DEF HeapInv, Running
<1>2. Tail(CallsOf(calls)) = CallsOf(Tail(calls))
  BY <1>1, CallsOfHead
<1>3. CallsOf(front \o Tail(calls)) = CallsOf(front) \o CallsOf(Tail(calls))
  BY <1>1, CallsOfConcat
<1>4. CallsOf(calls)' = CallsOf(front \o Tail(calls))
  BY DEF CallsOf, CallOf
<1>. QED
  BY <1>2, <1>3, <1>4

LEMMA MapMergeIntoNode ==
  ASSUME HeapInv, NoAlias, MergeIntoNode
  PROVE  Tree!MergeIntoNode
<1>. DEFINE left == [Current EXCEPT !.mask = @ + 1]
            right == [left EXCEPT !.bytes = SetBit(@, left.mask)]
            mleft == [CallOf(Current) EXCEPT !.mask = @ + 1]
            mright == [mleft EXCEPT !.bytes = Tree!SetBit(@, mleft.mask)]
<1>1. Found /\ Running /\ Descends /\ ~Croaks /\ UNCHANGED node
      /\ calls' = <<left, right>> \o Tail(calls)
  BY DEF MergeIntoNode, Found
<1>2. Tree!Found /\ Tree!Descends /\ ~Tree!Croaks /\ Tree!Current = CallOf(Current)
      /\ Current \in Call
  BY <1>1, SameDecisions
<1>3. Current.mask \in MaskLength /\ Current.mask < Width
  BY <1>1, <1>2, MaskAssumption, WidthAssumption DEF Croaks, Call, MaskLength
<1>4. left \in Call /\ CallOf(left) = mleft
  BY <1>2, <1>3, MaskAssumption, WidthAssumption DEF Call, MaskLength, CallOf
<1>5. right \in Call /\ CallOf(right) = mright
  <2>1. SetBit(left.bytes, left.mask) \in Address
    BY <1>4 DEF SetBit, Call, Address, Bit
  <2>2. right \in Call
    BY <1>4, <2>1 DEF Call
  <2>3. mleft.bytes = left.bytes /\ mleft.mask = left.mask
    BY <1>2 DEF CallOf, Call
  <2>4. Tree!SetBit(mleft.bytes, mleft.mask) = SetBit(left.bytes, left.mask)
    BY <2>3, SameTree
  <2>5. mright = [bytes |-> SetBit(left.bytes, left.mask), mask |-> left.mask,
                  data |-> left.new.value, merge |-> left.merge]
    <3>1. mright = [CallOf(left) EXCEPT !.bytes = SetBit(left.bytes, left.mask)]
      BY <1>4, <2>4
    <3>. HIDE DEF mright, left
    <3>. QED
      BY <3>1 DEF CallOf
  <2>6. /\ right.bytes = SetBit(left.bytes, left.mask) /\ right.mask = left.mask
        /\ right.new = left.new /\ right.merge = left.merge
    <3>. HIDE DEF left
    <3>. QED
      BY <1>4 DEF Call
  <2>. HIDE DEF right, mright, left
  <2>. QED
    BY <2>2, <2>5, <2>6 DEF CallOf
<1>. HIDE DEF left, right
<1>6. <<left, right>> \in Seq(Call)
  BY <1>4, <1>5
<1>7. CallsOf(<<left, right>>) = <<mleft, mright>>
  <2>1. CallsOf(<<left, right>>) = <<CallOf(left), CallOf(right)>>
    BY DEF CallsOf
  <2>. QED
    BY <1>4, <1>5, <2>1
<1>8. CallsOf(calls)' = <<mleft, mright>> \o Tail(CallsOf(calls))
  BY <1>1, <1>6, <1>7, MapCallsInFront
<1>9. RecordMap' = RecordMap
  BY <1>1, RecordMapSame
<1>10. /\ Tree!Found /\ Tree!Descends /\ ~Tree!Croaks
       /\ CallsOf(calls)' =
            LET l == [Tree!Current EXCEPT !.mask = @ + 1]
                r == [l EXCEPT !.bytes = Tree!SetBit(@, l.mask)]
            IN <<l, r>> \o Tail(CallsOf(calls))
       /\ RecordMap' = RecordMap
  BY <1>2, <1>8, <1>9
<1>. QED
  BY <1>10 DEF Tree!MergeIntoNode, CallsOf, CallOf, RecordMap

LEMMA MapInsertIntoParent ==
  ASSUME HeapInv, NoAlias, InsertIntoParent
  PROVE  Tree!InsertIntoParent
<1>. DEFINE up == [Current EXCEPT !.mask = ParentMask(@), !.new = NewRecord,
                                  !.merge = FALSE]
            mup == [Tree!Current EXCEPT !.mask = Tree!ParentMask(@),
                                        !.data = Tree!NewData,
                                        !.merge = FALSE]
<1>1. Found /\ Running /\ ~Descends /\ ~Croaks /\ Prunes /\ UNCHANGED node
      /\ calls' = <<up>> \o Tail(calls)
  BY DEF InsertIntoParent, Found
<1>2. Tree!Found /\ ~Tree!Descends /\ ~Tree!Croaks /\ Tree!Prunes
      /\ Tree!Current = CallOf(Current) /\ Current \in Call
      /\ Tree!NewData = NewRecord.value /\ NewRecord \in HeapRecord
  BY <1>1, SameDecisions, NewRecordIsData
<1>3. ParentMask(Current.mask) \in MaskLength
  BY <1>2, MaskAssumption DEF ParentMask, Call, MaskLength
<1>4. up \in Call
  BY <1>2, <1>3 DEF Call
<1>5. CallOf(up) = mup
  <2>1. mup = [CallOf(Current) EXCEPT !.mask = ParentMask(@), !.data = NewRecord.value,
                                      !.merge = FALSE]
    BY <1>2, SameTree
  <2>2. mup = [bytes |-> Current.bytes, mask |-> ParentMask(Current.mask),
               data |-> NewRecord.value, merge |-> FALSE]
    <3>. HIDE DEF mup
    <3>. QED
      BY <2>1 DEF CallOf
  <2>3. /\ up.bytes = Current.bytes /\ up.mask = ParentMask(Current.mask)
        /\ up.new = NewRecord /\ up.merge = FALSE
    BY <1>2 DEF Call
  <2>. HIDE DEF up, mup
  <2>. QED
    BY <2>2, <2>3 DEF CallOf
<1>. HIDE DEF up
<1>6. <<up>> \in Seq(Call) /\ CallsOf(<<up>>) = <<CallOf(up)>>
  BY <1>4 DEF CallsOf
<1>7. CallsOf(calls)' = <<mup>> \o Tail(CallsOf(calls))
  BY <1>1, <1>5, <1>6, MapCallsInFront
<1>8. RecordMap' = RecordMap
  BY <1>1, RecordMapSame
<1>. QED
  BY <1>2, <1>7, <1>8 DEF Tree!InsertIntoParent, CallsOf, CallOf, RecordMap

LEMMA MapCroak ==
  ASSUME HeapInv, NoAlias, Croak
  PROVE  Tree!Croak
<1>1. Tree!Found /\ Tree!Croaks /\ calls' = <<>> /\ RecordMap' = RecordMap
  BY SameDecisions, RecordMapSame DEF Croak
<1>2. CallsOf(calls)' = <<>>
  BY <1>1 DEF CallsOf
<1>. QED
  BY <1>1, <1>2 DEF Tree!Croak, CallsOf, CallOf, RecordMap

LEMMA MapMakeNextNode ==
  ASSUME HeapInv, NoAlias, HeapInv', MakeNextNode
  PROVE  Tree!MakeNextNode
<1>1. Running /\ calls' = calls /\ Current \in Call
  BY TailCalls DEF MakeNextNode
<1>2. PICK n : MakesNode(n)
  BY MakeNextNodeMakes
<1>3. PICK a, w, t : a = Current.bytes /\ w = Way(a)[n-1] /\ t = Len(node) + 1
  OBVIOUS
<1>. DEFINE old == node[w][a[n]]
            p == Cut(a, n)
            R == [q \in Prefix |-> IF q = p THEN Node
                                   ELSE IF q \in Children(p) THEN Tree!NewNode(RecordMap[p])
                                   ELSE RecordMap[q]]
<1>4. /\ a \in Address /\ n \in 1..Width /\ n < Width /\ Changes(a, n, w)
      /\ Down(w, a[n])' = t /\ t # 0
      /\ \A b \in Bit : node'[t][b] = NewNode(old)[b]
  BY <1>1, <1>2, <1>3, MakesNodeChanges
<1>5. /\ n \in 1 .. Depth(Current.mask) - 1
      /\ w \in 1..Len(node) /\ a[n] \in Bit /\ ~Points(old)
      /\ node'[w][a[n]] = NodeRecord(t)
  BY <1>2, <1>3 DEF MakesNode
<1>6. old \in HeapRecord /\ w # 0
  BY <1>5 DEF HeapInv
<1>7. RecordMap[p] = RecordOf(old)
  BY <1>3, <1>4, <1>6, RecordMapOn DEF RecordOn
<1>8. RecordMap[p] \in Tree!Leaf
  BY <1>5, <1>6, <1>7, RecordOfKinds, SameTree DEF Tree!Leaf
<1>9. \A b \in Bit : RecordOf(node'[t][b]) = Tree!NewNode(RecordMap[p])
  <2>. TAKE b \in Bit
  <2>1. NewNode(old)[b] = IF IsData(old) THEN old ELSE EmptyRecord
    BY DEF NewNode
  <2>2. RecordOf(EmptyRecord) = Empty
    BY DEF RecordOf, EmptyRecord, Points
  <2>3. RecordOf(old) \in Data <=> IsData(old)
    BY <1>6, RecordOfKinds
  <2>. QED
    BY <1>4, <1>7, <2>1, <2>2, <2>3, SameTree DEF Tree!NewNode
<1>10. RecordOf(NodeRecord(t)) = Node
  BY DEF RecordOf, NodeRecord, Points
<1>. HIDE DEF old
<1>11. ASSUME NEW c \in Address, NEW k \in 1..Width
       PROVE  RecordOn(c, k)' = R[Cut(c, k)]
  <2>1. /\ Cut(c, k) \in Prefix /\ RecordMap[Cut(c, k)] = RecordOn(c, k)
        /\ c[k] \in Bit /\ k \in Nat /\ n \in Nat
    BY <1>4, RecordMapOn, CutProperties, WidthAssumption DEF Address
  <2>2. Cut(c, k) \in Children(p) <=> k = n + 1 /\ Cut(c, n) = p
    BY <1>4, CutChildren
  <2>3. RecordOn(c, k)' =
           IF Cut(c, k) = p THEN RecordOf(node'[w][a[n]])
           ELSE IF n < k /\ Cut(c, n) = p
           THEN IF k = n + 1 THEN RecordOf(node'[t][c[k]]) ELSE Absent
           ELSE RecordOn(c, k)
    BY <1>4, RecordOnAfter
  <2>4. R[Cut(c, k)] = IF Cut(c, k) = p THEN Node
                       ELSE IF Cut(c, k) \in Children(p) THEN Tree!NewNode(RecordMap[p])
                       ELSE RecordOn(c, k)
    BY <2>1
  <2>5. n < k /\ Cut(c, n) = p => RecordOn(c, k) = Absent
    BY <1>3, <1>4, <1>5, NoneBelow DEF old
  <2>. HIDE DEF R, p
  <2>. QED
    BY <1>5, <1>9, <1>10, <2>1, <2>2, <2>3, <2>4, <2>5
<1>12. RecordMap' = R
  <2>1. R = [q \in Prefix |-> R[q]]
    OBVIOUS
  <2>. HIDE DEF R
  <2>. QED
    BY <1>11, <2>1, RecordMapNext
<1>13. Tree!Running /\ Tree!Current.bytes = a /\ Tree!Current.mask = Current.mask
  BY <1>1, <1>3, MappedCall DEF CallOf
<1>14. /\ Tree!Running
       /\ \E i \in 1 .. Tree!Depth(Tree!Current.mask) - 1 :
            LET s == Tree!Cut(Tree!Current.bytes, i) IN
            /\ RecordMap[s] \in Tree!Leaf
            /\ RecordMap' = [q \in Tree!Prefix |->
                               IF q = s THEN Node
                               ELSE IF q \in Tree!Children(s) THEN Tree!NewNode(RecordMap[s])
                               ELSE RecordMap[q]]
  BY <1>5, <1>8, <1>12, <1>13, SameTree
<1>15. CallsOf(calls)' = CallsOf(calls)
  BY <1>1 DEF CallsOf
<1>. QED
  BY <1>14, <1>15 DEF Tree!MakeNextNode, CallsOf, CallOf, RecordMap

LEMMA MapSetRecord ==
  ASSUME HeapInv, NoAlias, HeapInv', SetRecord
  PROVE  Tree!SetRecord
<1>1. Found /\ Running /\ ~Descends /\ ~Croaks /\ ~Prunes /\ calls' = Tail(calls)
  BY DEF SetRecord, Found
<1>2. PICK a, n, w : a = Current.bytes /\ n = Depth(Current.mask) /\ w = NodeToSet
  OBVIOUS
<1>3. /\ Tree!Found /\ ~Tree!Descends /\ ~Tree!Croaks /\ ~Tree!Prunes
      /\ Tree!NewData = RecordOf(NewRecord)
      /\ Tree!Place(Tree!Current) = Cut(a, n)
  BY <1>1, <1>2, SameDecisions, MappedCall
<1>4. /\ a \in Address /\ n \in 1..Width /\ Changes(a, n, w)
      /\ Down(w, a[n])' = 0 /\ node'[w][a[n]] = NewRecord
  BY <1>2, SetRecordChanges
<1>. DEFINE p == Cut(a, n)
            R == [q \in Prefix |-> IF q = p THEN Tree!NewData
                                   ELSE IF IsStrictPrefix(p, q) THEN Absent
                                   ELSE RecordMap[q]]
<1>5. ASSUME NEW c \in Address, NEW k \in 1..Width
      PROVE  RecordOn(c, k)' = R[Cut(c, k)]
  <2>1. Cut(c, k) \in Prefix /\ RecordMap[Cut(c, k)] = RecordOn(c, k)
    BY RecordMapOn, CutProperties
  <2>2. IsStrictPrefix(p, Cut(c, k)) <=> n < k /\ Cut(c, n) = p
    BY <1>4, CutBelow
  <2>3. RecordOn(c, k)' = IF Cut(c, k) = p THEN RecordOf(NewRecord)
                          ELSE IF n < k /\ Cut(c, n) = p THEN Absent ELSE RecordOn(c, k)
    BY <1>4, RecordOnAfter
  <2>. QED
    BY <1>3, <2>1, <2>2, <2>3
<1>6. RecordMap' = R
  <2>1. R = [q \in Prefix |-> R[q]]
    OBVIOUS
  <2>. HIDE DEF R
  <2>. QED
    BY <1>5, <2>1, RecordMapNext
<1>7. RecordMap' = [q \in Tree!Prefix |->
                      IF q = Tree!Place(Tree!Current) THEN Tree!NewData
                      ELSE IF Tree!IsStrictPrefix(Tree!Place(Tree!Current), q) THEN Absent
                      ELSE RecordMap[q]]
  BY <1>3, <1>6, SameTree
<1>8. CallsOf(calls)' = Tail(CallsOf(calls))
  <2>1. calls \in Seq(Call) /\ calls # <<>>
    BY <1>1 DEF HeapInv, Running
  <2>2. CallsOf(calls)' = CallsOf(Tail(calls))
    BY <1>1 DEF CallsOf, CallOf
  <2>. QED
    BY <2>1, <2>2, CallsOfHead
<1>. QED
  BY <1>3, <1>7, <1>8 DEF Tree!SetRecord, CallsOf, CallOf, RecordMap

LEMMA MapInit == HeapInit => Tree!Init
<1>. SUFFICES ASSUME HeapInit PROVE Tree!Init
  OBVIOUS
<1>1. calls = <<>> /\ HeapInv /\ \A b \in Bit : node[1][b] = EmptyRecord
  BY HeapInvInit DEF HeapInit
<1>. DEFINE R == [p \in Prefix |-> IF Len(p) = 1 THEN Empty ELSE Absent]
<1>2. ASSUME NEW a \in Address, NEW n \in 1..Width
      PROVE  RecordOn(a, n) = R[Cut(a, n)]
  <2>1. Cut(a, n) \in Prefix /\ Len(Cut(a, n)) = n
    BY CutProperties
  <2>2. 1 \in 1..Width /\ a[1] \in Bit /\ 1 - 1 \in 0 .. Width - 1
    BY WidthAssumption DEF Address
  <2>3. Way(a)[1 - 1] = 1 /\ node[1][a[1]] = EmptyRecord
    BY <1>1, <2>2, WayType DEF Root
  <2>4. n = 1 => RecordOn(a, n) = Empty
    BY <2>3 DEF RecordOn, RecordOf, EmptyRecord, Points
  <2>5. n # 1 => RecordOn(a, n) = Absent
    <3>. SUFFICES ASSUME n # 1 PROVE RecordOn(a, n) = Absent
      OBVIOUS
    <3>1. 1 < n
      BY WidthAssumption
    <3>2. ~Points(node[Way(a)[1-1]][a[1]])
      BY <2>3 DEF EmptyRecord, Points
    <3>. QED
      BY <1>1, <2>2, <3>1, <3>2, NoneBelow
  <2>. QED
    BY <2>1, <2>4, <2>5
<1>3. RecordMap = R
  <2>1. ASSUME NEW q \in Prefix PROVE RecordMap[q] = R[q]
    <3>1. PICK a \in Address, n \in 1..Width : q = Cut(a, n)
      BY PrefixIsCut
    <3>. QED
      BY <1>2, <3>1, RecordMapOn
  <2>2. RecordMap = [q \in Prefix |-> RecordMap[q]] /\ R = [q \in Prefix |-> R[q]]
    BY DEF RecordMap
  <2>. HIDE DEF R, RecordMap
  <2>. QED
    BY <2>1, <2>2, Zenon
<1>4. RecordMap = [p \in Tree!Prefix |-> IF Len(p) = 1 THEN Empty ELSE Absent]
  BY <1>3, SameTree
<1>5. CallsOf(calls) = <<>>
  BY <1>1 DEF CallsOf
<1>. QED
  BY <1>4, <1>5 DEF Tree!Init, CallsOf, CallOf, RecordMap

LEMMA MapNext == InsertInv /\ InsertInv' /\ [InsertNext]_heapVars => [Tree!Next]_(Tree!vars)
<1>. SUFFICES ASSUME InsertInv, InsertInv', [InsertNext]_heapVars
              PROVE  Tree!Next \/ UNCHANGED Tree!vars
  OBVIOUS
<1>. USE DEF InsertInv
<1>1. CASE Insert
  BY <1>1, MapInsertNetwork DEF Insert, Tree!Next
<1>2. CASE Step
  BY <1>2, MapMakeNextNode, MapMergeIntoNode, MapInsertIntoParent, MapSetRecord, MapCroak
    DEF Step, Tree!Next, Tree!Step
<1>3. CASE UNCHANGED heapVars
  <2>1. RecordMap' = RecordMap /\ CallsOf(calls)' = CallsOf(calls)
    BY <1>3, RecordMapSame DEF heapVars, CallsOf
  <2>. QED
    BY <2>1 DEF Tree!vars, CallsOf, CallOf, RecordMap
<1>. QED
  BY <1>1, <1>2, <1>3 DEF InsertNext

\* Until networks are aliased, every step on the nodes and pointers is one on the
\* tree of records by place, or none: find_node_for_network comes to the record
\* that the bits of the network name, and a node that an insert cuts off is never
\* seen again.  (That calls come to an end is left to the run.)
THEOREM TreeImplemented == InsertSpec => Tree!Init /\ [][Tree!Next]_(Tree!vars)
<1>1. InsertInv /\ [Insert \/ Step]_heapVars => InsertInv'
  BY InsertInvNext DEF InsertNext
<1>2. InsertInv /\ InsertInv' /\ [Insert \/ Step]_heapVars => [Tree!Next]_(Tree!vars)
  BY MapNext DEF InsertNext
<1>. QED
  BY <1>1, <1>2, InsertInvInit, MapInit, PTL DEF InsertSpec

-------------------------------------------------------------------------------
(* Lookups *)

\* A way that goes on to the last bit ends there.
LEMMA WalksEnd == InsertInv => LookupFindsRecord
<1>. SUFFICES ASSUME InsertInv, NEW a \in Address, ~LookupEnds(a) PROVE FALSE
  BY DEF LookupFindsRecord
<1>1. HeapInv /\ NoAlias /\ LastRecords /\ Width \in Nat \ {0}
  BY WidthAssumption DEF InsertInv
<1>2. \A n \in 1..Width : Way(a)[n-1] # 0 => Points(node[Way(a)[n-1]][a[n]])
  BY DEF LookupEnds, EndsAt
<1>. DEFINE Ended == {n \in 0 .. Width - 1 : Way(a)[n] = 0}
<1>3. ASSUME NEW n \in Ended, \A k \in Ended : n <= k
      PROVE  FALSE
  <2>1. n # 0
    BY <1>1, <1>3, WaySteps DEF WaysGoDown, Root
  <2>2. n - 1 \in 0 .. Width - 1 /\ n \in 1..Width
    BY <1>1, <1>3, <2>1
  <2>3. n - 1 \notin Ended
    BY <1>3, <2>2
  <2>4. /\ Way(a)[n-1] # 0 /\ Way(a)[n-1] \in 0..Len(node)
        /\ Way(a)[n] = Down(Way(a)[n-1], a[n])
    BY <1>1, <2>1, <2>2, <2>3, WaySteps DEF WaysGoDown
  <2>5. Way(a)[n-1] \in 1..Len(node) /\ a[n] \in Bit
    BY <1>1, <2>2, <2>4 DEF HeapInv, Address
  <2>6. node[Way(a)[n-1]][a[n]] \in HeapRecord
    BY <1>1, <2>5 DEF HeapInv
  <2>7. Way(a)[n] \in 1..Len(node)
    BY <1>2, <2>2, <2>4, <2>6, RecordKinds DEF Down
  <2>. QED
    BY <1>3, <2>7
<1>4. Ended = {}
  <2>1. Ended \in SUBSET Nat
    OBVIOUS
  <2>. HIDE DEF Ended
  <2>. QED
    BY <1>3, <2>1, Least
<1>5. Way(a)[Width - 1] # 0 /\ Width \in 1..Width
  BY <1>1, <1>4
<1>6. RecordOn(a, Width) = Node
  BY <1>2, <1>5 DEF RecordOn, RecordOf
<1>. QED
  BY <1>1, <1>6 DEF LastRecords

\* Until networks are aliased, the walk of lookup_ip_address comes to a record that
\* is empty or data, for every address: "WTF - found a node or alias record" never
\* is printed.
THEOREM LookupsFind == InsertSpec => []LookupFindsRecord
<1>1. InsertInv /\ [Insert \/ Step]_heapVars => InsertInv'
  BY InsertInvNext DEF InsertNext
<1>. QED
  BY <1>1, InsertInvInit, WalksEnd, PTL DEF InsertSpec

-------------------------------------------------------------------------------
(* What is proved of the tree of records by place *)

Places == INSTANCE PrefixTreeProofs WITH record <- RecordMap, calls <- CallsOf(calls)

PlacesAssumption == /\ Places!WidthAssumption /\ Places!MaskAssumption
                    /\ Places!PayloadAssumption /\ Places!TreeAssumption

LEMMA PlacesAssumed == PlacesAssumption
<1>1. Places!Data = Data /\ Places!Hash = Hash /\ Places!Network = Network
  BY DEF Places!Data, Data, Places!Hash, Hash, Places!Network, Network,
         Places!Address, Address, Places!Bit, Bit
<1>2. Places!WidthAssumption /\ Places!MaskAssumption
  BY WidthAssumption, MaskAssumption DEF Places!WidthAssumption, Places!MaskAssumption
<1>3. Places!PayloadAssumption
  BY <1>1, PayloadAssumption DEF Places!PayloadAssumption, PayloadAssumption
<1>4. Places!TreeAssumption
  BY <1>1, HeapAssumption, PlaceAssumption DEF Places!TreeAssumption
<1>. QED
  BY <1>2, <1>3, <1>4 DEF PlacesAssumption

LEMMA SameVars == Tree!vars = Places!vars
BY DEF Tree!vars, Places!vars, RecordMap, CallsOf, CallOf

LEMMA SameInit == Tree!Init <=> Places!Init
BY DEF Tree!Init, Places!Init, Tree!Prefix, Places!Prefix, Tree!Bit, Places!Bit,
   RecordMap, CallsOf, CallOf

LEMMA SameInsert ==
  ASSUME NEW bytes, NEW mask, NEW data
  PROVE  Tree!InsertNetwork(bytes, mask, data) <=> Places!InsertNetwork(bytes, mask, data)
BY DEF Tree!InsertNetwork, Places!InsertNetwork, Tree!Running, Places!Running,
   RecordMap, CallsOf, CallOf

LEMMA SameStep == Tree!Step <=> Places!Step
BY DEF Tree!Step, Places!Step, Tree!MakeNextNode, Places!MakeNextNode,
  Tree!MergeIntoNode, Places!MergeIntoNode, Tree!InsertIntoParent, Places!InsertIntoParent,
  Tree!SetRecord, Places!SetRecord, Tree!Croak, Places!Croak, Tree!Running, Places!Running,
  Tree!Current, Places!Current, Tree!RecordToSet, Places!RecordToSet,
  Tree!OtherRecord, Places!OtherRecord, Tree!Found, Places!Found,
  Tree!Descends, Places!Descends, Tree!Merges, Places!Merges, Tree!Croaks, Places!Croaks,
  Tree!NewData, Places!NewData, Tree!Prunes, Places!Prunes, Tree!Place, Places!Place,
  Tree!NewNode, Places!NewNode, Tree!Cut, Places!Cut, Tree!Prefix, Places!Prefix,
  Tree!Bit, Places!Bit, Tree!Children, Places!Children, Tree!Sibling, Places!Sibling,
  Tree!SetBit, Places!SetBit, Tree!Depth, Places!Depth, Tree!LastBit, Places!LastBit,
  Tree!ParentMask, Places!ParentMask, Tree!Data, Places!Data, Tree!Hash, Places!Hash,
  Tree!Mergeable, Places!Mergeable, Tree!Merged, Places!Merged,
  Tree!MergeHash, Places!MergeHash, Tree!Leaf, Places!Leaf,
  Tree!IsStrictPrefix, Places!IsStrictPrefix, Tree!IsPrefix, Places!IsPrefix,
  RecordMap, CallsOf, CallOf

\* Inserts that do not give the whole address space one payload.
GapInsert == \E net \in Insertable, data \in Inputs :
               ~Places!Fills(net[1], net[2], data) /\ InsertNetwork(net[1], net[2], data)

GapInsertSpec == HeapInit /\ [][GapInsert \/ Step]_heapVars

LEMMA GapInsertMaps ==
  InsertInv /\ [GapInsert \/ Step]_heapVars => InsertInv' /\ [Places!GapNext]_(Places!vars)
<1>. SUFFICES ASSUME InsertInv, [GapInsert \/ Step]_heapVars
              PROVE  InsertInv' /\ [Places!GapNext]_(Places!vars)
  OBVIOUS
<1>1. [InsertNext]_heapVars
  BY DEF GapInsert, InsertNext, Insert
<1>2. InsertInv'
  BY <1>1, InsertInvNext
<1>3. CASE GapInsert
  <2>1. PICK net \in Insertable, data \in Inputs :
          ~Places!Fills(net[1], net[2], data) /\ InsertNetwork(net[1], net[2], data)
    BY <1>3 DEF GapInsert
  <2>2. Places!InsertNetwork(net[1], net[2], data)
    BY <2>1, MapInsertNetwork, SameInsert
  <2>. QED
    BY <1>2, <2>1, <2>2 DEF Places!GapNext
<1>4. CASE Step
  <2>1. Tree!Step
    BY <1>2, <1>4, MapMakeNextNode, MapMergeIntoNode, MapInsertIntoParent, MapSetRecord,
       MapCroak DEF Step, Tree!Step, InsertInv
  <2>. QED
    BY <1>2, <2>1, SameStep DEF Places!GapNext
<1>5. CASE UNCHANGED heapVars
  <2>1. RecordMap' = RecordMap /\ CallsOf(calls)' = CallsOf(calls)
    BY <1>5, RecordMapSame DEF heapVars, CallsOf
  <2>. QED
    BY <1>2, <2>1 DEF Places!vars
<1>. QED
  BY <1>3, <1>4, <1>5

\* lookup_ip_address comes to the record that the places name.
LookupsAgree == \A a \in Address : Lookup(a) = Places!Lookup(a)

LEMMA SameLookup == InsertInv => LookupsAgree
<1>. SUFFICES ASSUME InsertInv, NEW a \in Address PROVE Lookup(a) = Places!Lookup(a)
  BY DEF LookupsAgree
<1>1. HeapInv /\ NoAlias
  BY DEF InsertInv
<1>2. PICK n \in 1..Width : EndsAt(a, n)
  BY WalksEnd DEF LookupFindsRecord, LookupEnds
<1>3. ASSUME NEW k \in 1..Width PROVE RecordMap[Places!Cut(a, k)] = RecordOn(a, k)
  BY RecordMapOn DEF Places!Cut, Cut
<1>4. Way(a)[n-1] \in 1..Len(node) /\ a[n] \in Bit
  <2>1. n - 1 \in 0 .. Width - 1
    BY WidthAssumption
  <2>2. Way(a)[n-1] \in 0..Len(node)
    BY <1>1, <2>1, WayType
  <2>. QED
    BY <1>1, <1>2, <2>2 DEF EndsAt, HeapInv, Address
<1>5. LET r == node[Way(a)[n-1]][a[n]]
      IN r \in HeapRecord /\ ~Points(r) /\ RecordOn(a, n) = r.value
  BY <1>1, <1>2, <1>4 DEF HeapInv, EndsAt, RecordOn, RecordOf
<1>6. RecordOn(a, n) \notin {Node, Absent}
  BY <1>5, RecordOfKinds, PlaceAssumption DEF RecordOf
<1>7. ASSUME NEW k \in 1..Width, EndsAt(a, k) \/ RecordOn(a, k) \notin {Node, Absent}
      PROVE  k = n
  <2>1. Way(a)[k-1] # 0 /\ ~Points(node[Way(a)[k-1]][a[k]])
    BY <1>7 DEF EndsAt, RecordOn, RecordOf
  <2>2. RecordOn(a, k) # Absent
    <3>1. k - 1 \in 0 .. Width - 1 /\ a[k] \in Bit
      BY WidthAssumption DEF Address
    <3>2. Way(a)[k-1] \in 1..Len(node)
      BY <1>1, <2>1, <3>1, WayType DEF HeapInv
    <3>3. node[Way(a)[k-1]][a[k]] \in HeapRecord
      BY <1>1, <3>1, <3>2 DEF HeapInv
    <3>. QED
      BY <2>1, <3>3, RecordOfKinds, PlaceAssumption DEF RecordOn, RecordOf
  <2>3. ~(n < k)
    BY <1>1, <1>2, <2>2, NoneBelow DEF EndsAt
  <2>4. ~(k < n)
    BY <1>1, <1>6, <2>1, NoneBelow
  <2>. QED
    BY <2>3, <2>4
<1>8. Lookup(a) = node[Way(a)[n-1]][a[n]].value
  BY <1>2, <1>7 DEF Lookup
<1>9. Places!Lookup(a) = RecordMap[Places!Cut(a, n)]
  BY <1>3, <1>6, <1>7 DEF Places!Lookup
<1>. QED
  BY <1>3, <1>5, <1>8, <1>9

LEMMA SameLookupNext == InsertInv' => LookupsAgree'
BY SameLookup, PTL

\* The map of a heap: what lookups find, and what the insert in progress wants.
Map == INSTANCE NetworkMap WITH db <- [a \in Address |-> Lookup(a)],
                                target <- [a \in Address |-> Places!Target(a)]

LEMMA SameMapVars ==
  LookupsAgree => Map!vars = Places!Map!vars /\ (Map!Init <=> Places!Map!Init)
<1>. SUFFICES ASSUME LookupsAgree
              PROVE  Map!vars = Places!Map!vars /\ (Map!Init <=> Places!Map!Init)
  OBVIOUS
<1>1. Places!Address = Address
  BY DEF Places!Address, Address, Places!Bit, Bit
<1>2. [a \in Address |-> Lookup(a)] = [a \in Places!Address |-> Places!Lookup(a)]
  BY <1>1 DEF LookupsAgree
<1>. QED
  BY <1>1, <1>2 DEF Map!vars, Places!Map!vars, Map!Init, Places!Map!Init,
     Map!Address, Places!Map!Address, Map!Bit, Places!Map!Bit

LEMMA SameMapNext ==
  LookupsAgree /\ LookupsAgree' /\ [Places!Map!Next]_(Places!Map!vars)
    => [Map!Next]_(Map!vars)
<1>. SUFFICES ASSUME LookupsAgree, LookupsAgree', [Places!Map!Next]_(Places!Map!vars)
              PROVE  [Map!Next]_(Map!vars)
  OBVIOUS
<1>1. Places!Address = Address
  BY DEF Places!Address, Address, Places!Bit, Bit
<1>2. PICK db : db = [a \in Places!Address |-> Places!Lookup(a)]
  OBVIOUS
<1>3. PICK dbAfter : dbAfter = [a \in Places!Address |-> Places!Lookup(a)]'
  OBVIOUS
<1>4. PICK target : target = [a \in Places!Address |-> Places!Target(a)]
  OBVIOUS
<1>5. PICK targetAfter : targetAfter = [a \in Places!Address |-> Places!Target(a)]'
  OBVIOUS
<1>6. /\ db = [a \in Address |-> Lookup(a)]
      /\ dbAfter = [a \in Address |-> Lookup(a)]'
      /\ target = [a \in Address |-> Places!Target(a)]
      /\ targetAfter = [a \in Address |-> Places!Target(a)]'
  BY <1>1, <1>2, <1>3, <1>4, <1>5 DEF LookupsAgree
<1>7. Map!Address = Places!Map!Address
  BY DEF Map!Address, Places!Map!Address, Map!Bit, Places!Map!Bit
<1>8. /\ \A old, new : Map!Combine(MergeRecordCollisions, old, new)
                       = Places!Map!Combine(MergeRecordCollisions, old, new)
      /\ \A bytes, mask, a : Map!Covers(bytes, mask, a) <=> Places!Map!Covers(bytes, mask, a)
      /\ \A a, b : Map!Before(a, b) <=> Places!Map!Before(a, b)
  BY DEF Map!Combine, Places!Map!Combine, Map!Mergeable, Places!Map!Mergeable,
     Map!Merged, Places!Map!Merged, Map!MergeHash, Places!Map!MergeHash,
     Map!Hash, Places!Map!Hash, Map!Covers, Places!Map!Covers, Map!Before, Places!Map!Before
<1>9. ASSUME NEW net \in Insertable, NEW new \in Inputs,
             Places!Map!Insert(net[1], net[2], new)
      PROVE  Map!Insert(net[1], net[2], new)
  <2>. DEFINE Wants(a) == IF Map!Covers(net[1], net[2], a)
                          THEN Map!Combine(MergeRecordCollisions, db[a], new) ELSE db[a]
              Asks(a) == IF Places!Map!Covers(net[1], net[2], a)
                         THEN Places!Map!Combine(MergeRecordCollisions, db[a], new) ELSE db[a]
  <2>1. /\ target = db /\ dbAfter = db
        /\ targetAfter = [a \in Places!Map!Address |-> Asks(a)]
    BY <1>2, <1>3, <1>4, <1>5, <1>9 DEF Places!Map!Insert, Places!Map!Idle
  <2>2. \A a : Wants(a) = Asks(a)
    BY <1>8
  <2>3. targetAfter = [a \in Map!Address |-> Wants(a)]
    <3>. HIDE DEF Wants, Asks
    <3>. QED
      BY <1>7, <2>1, <2>2
  <2>. QED
    BY <1>6, <2>1, <2>3 DEF Map!Insert, Map!Idle
<1>10. CASE Places!Map!Apply
  <2>1. /\ targetAfter = target
        /\ \A a \in Places!Map!Address :
             /\ dbAfter[a] \in {db[a], target[a]} \ {Clash}
             /\ dbAfter[a] # db[a] => \A b \in Places!Map!Address :
                  Places!Map!Before(b, a) => dbAfter[b] = target[b]
    BY <1>2, <1>3, <1>4, <1>5, <1>10 DEF Places!Map!Apply
  <2>2. Map!Apply
    BY <1>6, <1>7, <1>8, <2>1 DEF Map!Apply
  <2>. QED
    BY <2>2 DEF Map!Next
<1>11. CASE Places!Map!Fail
  <2>1. /\ targetAfter = db /\ dbAfter = db
        /\ \E a \in Places!Map!Address :
             /\ target[a] = Clash
             /\ \A b \in Places!Map!Address : Places!Map!Before(b, a) => db[b] = target[b]
    BY <1>2, <1>3, <1>4, <1>5, <1>11 DEF Places!Map!Fail
  <2>2. Map!Fail
    BY <1>6, <1>7, <1>8, <2>1 DEF Map!Fail
  <2>. QED
    BY <2>2 DEF Map!Next
<1>12. CASE UNCHANGED Places!Map!vars
  BY <1>2, <1>3, <1>4, <1>5, <1>6, <1>12 DEF Places!Map!vars, Map!vars
<1>. QED
  BY <1>9, <1>10, <1>11, <1>12 DEF Map!Next, Places!Map!Next

\* The nodes and pointers implement the map: what lookup_ip_address finds changes as
\* NetworkMap says, with a merge, a pruning or a croak half-way through an insert too.
THEOREM HeapImplementsMap ==
  Places!NoWholeSpace => (GapInsertSpec => Map!Init /\ [][Map!Next]_(Map!vars))
<1>. SUFFICES ASSUME Places!NoWholeSpace
              PROVE  GapInsertSpec => Map!Init /\ [][Map!Next]_(Map!vars)
  OBVIOUS
<1>. DEFINE Inv == InsertInv /\ Places!MapInv
<1>1. HeapInit => Inv /\ Map!Init
  <2>. SUFFICES ASSUME HeapInit PROVE Inv /\ Map!Init
    OBVIOUS
  <2>1. InsertInv /\ Places!Init
    BY InsertInvInit, MapInit, SameInit
  <2>2. Places!MapInv /\ Places!Map!Init
    BY <2>1, PlacesAssumed, Places!MapInvInit, Places!MapInit DEF PlacesAssumption
  <2>. QED
    BY <2>1, <2>2, SameLookup, SameMapVars
<1>2. Inv /\ [GapInsert \/ Step]_heapVars => Inv'
  BY GapInsertMaps, PlacesAssumed, Places!MapInvNext DEF PlacesAssumption
<1>3. Inv /\ Inv' /\ [GapInsert \/ Step]_heapVars => [Map!Next]_(Map!vars)
  <2>. SUFFICES ASSUME Inv, Inv', [GapInsert \/ Step]_heapVars PROVE [Map!Next]_(Map!vars)
    OBVIOUS
  <2>1. [Places!GapNext]_(Places!vars)
    BY GapInsertMaps
  <2>2. LookupsAgree /\ LookupsAgree'
    BY SameLookup, SameLookupNext
  <2>3. Places!MapStep
    BY <2>1, PlacesAssumed, Places!MapInvNext DEF PlacesAssumption
  <2>4. [Places!Map!Next]_(Places!Map!vars)
    BY <2>3, PlacesAssumed, Places!MapStepIsNext DEF PlacesAssumption
  <2>. QED
    BY <2>2, <2>4, SameMapNext
<1>. QED
  BY <1>1, <1>2, <1>3, PTL DEF GapInsertSpec

\* Between inserts no node on the way to a record has two equal records, whatever was
\* inserted before in whatever order and pieces: the nodes of a written file are as few
\* as its contents allow.
THEOREM HeapCanonical ==
  Places!NoWholeSpace /\ Places!NoClash => (GapInsertSpec => []Places!CanonicalWhenIdle)
<1>. SUFFICES ASSUME Places!NoWholeSpace, Places!NoClash
              PROVE  GapInsertSpec => []Places!CanonicalWhenIdle
  OBVIOUS
<1>. DEFINE Inv == InsertInv /\ Places!CanonicalInv
<1>1. HeapInit => Inv
  BY InsertInvInit, MapInit, SameInit, PlacesAssumed, Places!CanonicalInvInit
    DEF PlacesAssumption
<1>2. Inv /\ [GapInsert \/ Step]_heapVars => Inv'
  BY GapInsertMaps, PlacesAssumed, Places!MapInvNext, Places!MergesHashesNext,
     Places!PairsNext DEF PlacesAssumption, Places!CanonicalInv
<1>3. Inv => Places!CanonicalWhenIdle
  BY PlacesAssumed, Places!PairsGiveCanonical
    DEF PlacesAssumption, Places!CanonicalInv, Places!MapInv, Places!CanonicalWhenIdle
<1>. QED
  BY <1>1, <1>2, <1>3, PTL DEF GapInsertSpec

-------------------------------------------------------------------------------
(* With aliases.                                                           *)
(*                                                                         *)
(* A node has a level: how many node records lead to it.  Alias networks   *)
(* are set one after the other; as long as none lies in an earlier one, the*)
(* walk to its record follows node records only, and what it makes on its  *)
(* way has the level of its depth.                                         *)

\* Alias networks are at most as deep as the IPv4 network, and later ones are not in
\* earlier ones.  (Those of the code are apart, of 96, 32 and 16 bits: tree.c, 236.)
AliasesFit ==
  \A i \in 1..Len(Ipv4Aliases) :
    /\ Ipv4Aliases[i][2] \in 1..Ipv4Bits
    /\ \A j \in 1..Len(Ipv4Aliases) :
         i < j => ~Covers(Ipv4Aliases[i][1], Ipv4Aliases[i][2], Ipv4Aliases[j][1])

\* An alias record leads to a deeper node, a pending one will.
IsLevel(d) ==
  /\ d \in [1..Len(node) -> 0 .. Width - 1]
  /\ d[Root] = 0
  /\ \A i \in 1..Len(node), b \in Bit :
       LET r == node[i][b] IN
       /\ r.type = "node" => d[r.value] = d[i] + 1
       /\ r.type = "alias" => d[r.value] > d[i]
  /\ \A i \in 1..Len(calls) :
       calls[i].new.type = "alias" => d[calls[i].new.value] >= Depth(calls[i].mask)

Levels == \E d : IsLevel(d)

CallsOwn ==
  \A i \in 1..Len(calls) : OwnWay(calls[i].bytes, Depth(calls[i].mask) - 1)

\* On a way without aliases, a node's level is its depth.
LEMMA OwnLevel ==
  ASSUME HeapInv, NEW d, IsLevel(d), NEW a \in Address, NEW n \in 0 .. Width - 1,
         OwnWay(a, n), Way(a)[n] # 0
  PROVE  d[Way(a)[n]] = n
<1>. DEFINE Wrong == {k \in 0 .. Width - 1 : OwnWay(a, k) /\ Way(a)[k] # 0 /\ d[Way(a)[k]] # k}
<1>1. ASSUME NEW m \in Wrong, \A k \in Wrong : m <= k PROVE FALSE
  <2>1. CASE m = 0
    <3>1. Way(a)[0] = Root
      BY <2>1, <1>1, WayType
    <3>. QED
      BY <2>1, <3>1, <1>1 DEF IsLevel
  <2>2. CASE m # 0
    <3>1. m \in 1 .. Width - 1 /\ m - 1 \in 0 .. Width - 1 /\ m \in 1..Width /\ m \in Nat
      BY <2>2, WidthAssumption
    <3>. DEFINE u == Way(a)[m-1]
                w == Way(a)[m]
    <3>2. u \in 1..Len(node) /\ w \in 1..Len(node) /\ <<u, a[m]>> \in Owners(w)
      BY <3>1, <1>1, OwnWayOwner
    <3>3. OwnWay(a, m-1) /\ u # 0
      BY <1>1, <3>1, <3>2, OwnWayAbove DEF HeapInv
    <3>4. m - 1 \notin Wrong
      BY <1>1, <3>1
    <3>5. d[u] = m - 1
      BY <3>1, <3>3, <3>4
    <3>6. node[u][a[m]] = NodeRecord(w) /\ a[m] \in Bit
      BY <3>2 DEF Owners
    <3>. HIDE DEF u, w
    <3>7. node[u][a[m]].type = "node" /\ node[u][a[m]].value = w
      BY <3>6 DEF NodeRecord
    <3>8. d[w] = d[u] + 1
      BY <3>2, <3>6, <3>7 DEF IsLevel
    <3>9. d[w] = m
      BY <3>1, <3>5, <3>8
    <3>. QED
      BY <1>1, <3>9 DEF w
  <2>. QED
    BY <2>1, <2>2
<1>2. Wrong \in SUBSET Nat
  OBVIOUS
<1>. HIDE DEF Wrong
<1>3. Wrong = {}
  BY <1>1, <1>2, Least
<1>. QED
  BY <1>3 DEF Wrong

\* Making a node changes no record of a node to an alias.
LEMMA MakeNextNodeOwn ==
  ASSUME HeapInv, HeapInv', MakeNextNode, NEW a \in Address, NEW n \in 0 .. Width - 1, OwnWay(a, n)
  PROVE  OwnWay(a, n)'
<1>1. PICK m : MakesNode(m)
  BY MakeNextNodeMakes
<1>. DEFINE w == Way(Current.bytes)[m-1]
            b == Current.bytes[m]
            new == Len(node) + 1
<1>2. /\ w \in 1..Len(node) /\ b \in Bit /\ Len(node) \in Nat
      /\ ~Points(node[w][b])
      /\ node'[w][b] = NodeRecord(new)
      /\ \A c \in Bit : node'[new][c].type # "alias" /\ ~Points(node'[new][c])
      /\ \A i \in 1..Len(node), c \in Bit : i # w \/ c # b => node'[i][c] = node[i][c]
  <2>1. /\ w \in 1..Len(node) /\ b \in Bit /\ Len(node) \in Nat
        /\ ~Points(node[w][b])
        /\ node'[w][b] = NodeRecord(new)
        /\ \A i \in 1..Len(node), c \in Bit : i # w \/ c # b => node'[i][c] = node[i][c]
    BY <1>1 DEF MakesNode, HeapInv
  <2>2. node'[new] = NewNode(node[w][b])
    BY <1>1 DEF MakesNode
  <2>. HIDE DEF w, b, new
  <2>3. \A c \in Bit : node'[new][c].type # "alias" /\ ~Points(node'[new][c])
    BY <2>1, <2>2 DEF NewNode, Points, EmptyRecord
  <2>. QED
    BY <2>1, <2>3
<1>. HIDE DEF w, b, new
<1>. DEFINE Wrong == {k \in 0 .. Width - 1 : Way(a)'[k] \notin {0, new, Way(a)[k]}}
<1>3. \A k \in 1 .. Width - 1 :
        /\ k - 1 \in 0 .. Width - 1 /\ k \in 0 .. Width - 1 /\ k \in 1..Width /\ k # 0
        /\ a[k] \in Bit
  BY WidthAssumption DEF Address
<1>4. ASSUME NEW k \in Wrong, \A j \in Wrong : k <= j PROVE FALSE
  <2>1. CASE k = 0
    BY <1>4, <2>1, WaySteps, WayStepsNext DEF WaysGoDown
  <2>2. CASE k # 0
    <3>1. k \in 1 .. Width - 1
      BY <2>2
    <3>2. PICK u, v : u = Way(a)[k-1] /\ v = Way(a)'[k-1]
      OBVIOUS
    <3>3. Way(a)[k] = Down(u, a[k]) /\ Way(a)'[k] = Down(v, a[k])' /\ u \in 0..Len(node)
      BY <1>3, <3>1, <3>2, WaySteps, WayStepsNext DEF WaysGoDown
    <3>4. v \in {0, new, u}
      BY <1>3, <1>4, <3>1, <3>2
    <3>5. Down(v, a[k])' \in {0, new, Down(u, a[k])}
      <4>1. CASE v = 0
        BY <4>1 DEF Down
      <4>2. CASE v = new
        BY <1>2, <1>3, <3>1, <4>2 DEF Down
      <4>3. CASE v # 0 /\ v = u
        <5>1. v \in 1..Len(node) /\ a[k] \in Bit
          BY <1>2, <1>3, <3>1, <3>3, <4>3
        <5>2. CASE v = w /\ a[k] = b
          BY <1>2, <5>2 DEF Down, NodeRecord
        <5>3. CASE v # w \/ a[k] # b
          BY <1>2, <4>3, <5>1, <5>3 DEF Down
        <5>. QED
          BY <5>2, <5>3
      <4>. QED
        BY <3>4, <4>1, <4>2, <4>3
    <3>. QED
      BY <1>4, <3>3, <3>5
  <2>. QED
    BY <2>1, <2>2
<1>5. Wrong \in SUBSET Nat
  OBVIOUS
<1>. HIDE DEF Wrong
<1>6. Wrong = {}
  BY <1>4, <1>5, Least
<1>7. ASSUME NEW k \in 1..n, Way(a)'[k-1] # 0
      PROVE  node'[Way(a)'[k-1]][a[k]].type # "alias"
  <2>1. k \in 1 .. Width - 1
    BY WidthAssumption
  <2>2. PICK u, v : u = Way(a)[k-1] /\ v = Way(a)'[k-1]
    OBVIOUS
  <2>3. v \in {new, u} /\ v # 0 /\ u \in 0..Len(node) /\ a[k] \in Bit
    BY <1>3, <1>6, <1>7, <2>1, <2>2, WaySteps DEF WaysGoDown, Wrong
  <2>4. CASE v = new
    BY <1>2, <2>2, <2>3, <2>4
  <2>5. CASE v = u
    <3>1. u \in 1..Len(node) /\ node[u][a[k]].type # "alias"
      BY <1>2, <2>2, <2>3, <2>5 DEF OwnWay
    <3>2. node'[u][a[k]].type # "alias"
      BY <1>2, <2>3, <3>1 DEF NodeRecord
    <3>. QED
      BY <2>2, <2>5, <3>2
  <2>. QED
    BY <2>3, <2>4, <2>5
<1>. QED
  BY <1>7 DEF OwnWay

\* What SetRecord does, when aliases may be set.
LEMMA SetRecordSets ==
  ASSUME HeapInv, SetRecord, NEW a, a = Current.bytes,
         NEW n, n = Depth(Current.mask), NEW w, w = NodeToSet
  PROVE  /\ a \in Address /\ n \in 1..Width /\ Current \in Call
         /\ w \in 1..Len(node) /\ w = Way(a)[n-1] /\ a[n] \in Bit
         /\ Len(node') = Len(node)
         /\ node'[w][a[n]] = NewRecord
         /\ NewRecord \in HeapRecord /\ NewRecord.type # "node"
         /\ NewRecord.type = "alias" => NewRecord = Current.new
         /\ \A i \in 1..Len(node), b \in Bit : i # w \/ b # a[n] => node'[i][b] = node[i][b]
<1>1. Found /\ ~Croaks /\ Running /\ node' = [node EXCEPT ![NodeToSet][Side] = NewRecord]
  BY DEF SetRecord, Found
<1>2. Current \in Call
  BY <1>1, TailCalls
<1>3. a \in Address /\ n \in 1..Width /\ Side = a[n] /\ w = Way(a)[n-1]
  BY <1>2, DepthType DEF Call, Side, NodeToSet
<1>4. w \in 1..Len(node) /\ Side \in Bit /\ RecordToSet \in HeapRecord
  BY <1>1, FoundRecord
<1>5. NewRecord \in HeapRecord /\ NewRecord.type # "node"
  BY <1>1, <1>4, NewRecordType
<1>6. NewRecord.type = "alias" => NewRecord = Current.new
  BY DEF NewRecord, DataRecord
<1>7. Len(node) \in Nat /\ node \in [1..Len(node) -> [Bit -> HeapRecord]]
  BY DEF HeapInv
<1>8. /\ node'[w][a[n]] = NewRecord
      /\ \A i \in 1..Len(node), b \in Bit : i # w \/ b # a[n] => node'[i][b] = node[i][b]
  BY <1>1, <1>3, <1>4, <1>7
<1>9. Len(node') = Len(node)
  BY <1>1, <1>7
<1>. QED
  BY <1>2, <1>3, <1>4, <1>5, <1>6, <1>8, <1>9

\* Setting a record cuts no way but those through it.
LEMMA SetRecordWay ==
  ASSUME HeapInv, HeapInv', SetRecord, OwnWay(Current.bytes, Depth(Current.mask) - 1),
         NEW a \in Address, NEW n \in 0 .. Width - 1, OwnWay(a, n),
         n < Depth(Current.mask) \/ ~Covers(Current.bytes, Depth(Current.mask), a)
  PROVE  OwnWay(a, n)' /\ \A k \in 0..n : Way(a)'[k] = Way(a)[k]
<1>. DEFINE c == Current.bytes
            m == Depth(Current.mask)
            w == NodeToSet
<1>1. /\ c \in Address /\ m \in 1..Width
      /\ w \in 1..Len(node) /\ w = Way(c)[m-1] /\ c[m] \in Bit
      /\ \A i \in 1..Len(node), b \in Bit : i # w \/ b # c[m] => node'[i][b] = node[i][b]
  BY SetRecordSets
<1>2. OwnWay(c, m-1) /\ (n < m \/ ~Covers(c, m, a))
  OBVIOUS
<1>. HIDE DEF c, m, w
<1>3. \A k \in 1 .. Width - 1 :
        /\ k - 1 \in 0 .. Width - 1 /\ k \in 0 .. Width - 1 /\ k \in 1..Width /\ k # 0
        /\ a[k] \in Bit
  BY WidthAssumption DEF Address
<1>4. ASSUME NEW k \in 1..n PROVE Way(a)[k-1] # w \/ a[k] # c[m]
  <2>. SUFFICES ASSUME Way(a)[k-1] = w, a[k] = c[m] PROVE FALSE
    OBVIOUS
  <2>1. k \in 1 .. Width - 1 /\ k - 1 \in 0 .. Width - 1 /\ m - 1 \in 0 .. Width - 1
    BY <1>1, WidthAssumption
  <2>2. OwnWay(a, k-1)
    <3>1. n \in Nat /\ k - 1 \in Int /\ k - 1 <= n
      BY WidthAssumption
    <3>. QED
      BY <3>1, OwnWayAbove
  <2>3. Way(a)[k-1] # 0 /\ Way(a)[k-1] = Way(c)[m-1]
    BY <1>1 DEF HeapInv
  <2>4. k - 1 = m - 1 /\ \A i \in 1..k-1 : a[i] = c[i]
    BY <1>1, <1>2, <2>1, <2>2, <2>3, OwnWaysMeet
  <2>5. k = m /\ \A i \in 1..m : i = m \/ i \in 1..k-1
    BY <1>1, <2>1, <2>4
  <2>6. \A i \in 1..m : a[i] = c[i]
    BY <2>4, <2>5
  <2>. QED
    BY <1>2, <2>5, <2>6 DEF Covers
<1>. DEFINE Wrong == {k \in 0..n : Way(a)'[k] # Way(a)[k]}
<1>5. ASSUME NEW k \in Wrong, \A j \in Wrong : k <= j PROVE FALSE
  <2>1. CASE k = 0
    <3>1. 0 \in 0 .. Width - 1
      BY WidthAssumption
    <3>. QED
      BY <1>5, <2>1, <3>1, WaySteps, WayStepsNext DEF WaysGoDown
  <2>2. CASE k # 0
    <3>1. k \in 1 .. Width - 1 /\ k \in 1..n /\ k - 1 \in 0..n
      BY <2>2, WidthAssumption
    <3>2. PICK u : u = Way(a)[k-1]
      OBVIOUS
    <3>3. Way(a)'[k-1] = u
      BY <1>5, <3>1, <3>2
    <3>4. Way(a)[k] = Down(u, a[k]) /\ Way(a)'[k] = Down(u, a[k])' /\ u \in 0..Len(node)
      BY <1>3, <3>1, <3>2, <3>3, WaySteps, WayStepsNext DEF WaysGoDown
    <3>5. u # w \/ a[k] # c[m]
      BY <1>4, <3>1, <3>2
    <3>6. u # 0 => node'[u][a[k]] = node[u][a[k]]
      BY <1>1, <1>3, <3>1, <3>4, <3>5
    <3>7. Down(u, a[k])' = Down(u, a[k])
      BY <3>6 DEF Down
    <3>. QED
      BY <1>5, <3>4, <3>7
  <2>. QED
    BY <2>1, <2>2
<1>6. Wrong \in SUBSET Nat
  OBVIOUS
<1>. HIDE DEF Wrong
<1>7. Wrong = {}
  BY <1>5, <1>6, Least
<1>8. ASSUME NEW k \in 1..n, Way(a)'[k-1] # 0
      PROVE  node'[Way(a)'[k-1]][a[k]].type # "alias"
  <2>1. k \in 1 .. Width - 1 /\ k - 1 \in 0..n
    BY WidthAssumption
  <2>2. PICK u : u = Way(a)[k-1]
    OBVIOUS
  <2>3. Way(a)'[k-1] = u /\ u # 0 /\ u \in 0..Len(node) /\ a[k] \in Bit
    BY <1>3, <1>7, <1>8, <2>1, <2>2, WaySteps DEF WaysGoDown, Wrong
  <2>4. node[u][a[k]].type # "alias"
    BY <2>2, <2>3 DEF OwnWay
  <2>5. node'[u][a[k]] = node[u][a[k]]
    BY <1>1, <1>4, <2>2, <2>3
  <2>. QED
    BY <2>3, <2>4, <2>5
<1>. QED
  BY <1>7, <1>8 DEF OwnWay, Wrong

-------------------------------------------------------------------------------
(* Levels are kept *)

\* A step that leaves the nodes alone and brings no new alias records.
LEMMA LevelsKept ==
  ASSUME Levels, UNCHANGED node, NEW calls2, calls2 = calls',
         \A i \in 1..Len(calls2) :
           \/ calls2[i].new.type # "alias"
           \/ \E j \in 1..Len(calls) : calls2[i] = calls[j]
  PROVE  Levels'
<1>1. PICK d : IsLevel(d)
  BY DEF Levels
<1>2. IsLevel(d)'
  BY <1>1 DEF IsLevel
<1>. QED
  BY <1>2 DEF Levels

LEMMA MakeNextNodeLevels ==
  ASSUME HeapInv, Levels, CallsOwn, MakeNextNode
  PROVE  Levels'
<1>1. PICK d : IsLevel(d)
  BY DEF Levels
<1>2. PICK m : MakesNode(m)
  BY MakeNextNodeMakes
<1>3. /\ Current \in Call /\ calls' = calls /\ Running
      /\ OwnWay(Current.bytes, Depth(Current.mask) - 1)
  <2>1. Current \in Call /\ calls' = calls /\ Running /\ calls \in Seq(Call)
    BY TailCalls DEF MakeNextNode, HeapInv
  <2>2. Current = calls[1] /\ 1 \in 1..Len(calls)
    BY <2>1 DEF Current, Running
  <2>. QED
    BY <2>1, <2>2 DEF CallsOwn
<1>. DEFINE a == Current.bytes
            w == Way(a)[m-1]
            b == a[m]
            new == Len(node) + 1
<1>4. a \in Address /\ Depth(Current.mask) \in 1..Width /\ m \in 1 .. Depth(Current.mask) - 1
  BY <1>2, <1>3, DepthType DEF Call, MakesNode
<1>5. /\ m \in 1 .. Width - 1 /\ m - 1 \in 0 .. Width - 1
      /\ Depth(Current.mask) - 1 \in Nat /\ m - 1 <= Depth(Current.mask) - 1 /\ m - 1 \in Int
  BY <1>4, WidthAssumption
<1>6. /\ w \in 1..Len(node) /\ b \in Bit /\ Len(node) \in Nat
      /\ Len(node') = new
      /\ node'[w][b] = NodeRecord(new)
      /\ node'[new] = NewNode(node[w][b])
      /\ ~Points(node[w][b])
      /\ \A i \in 1..Len(node), c \in Bit : i # w \/ c # b => node'[i][c] = node[i][c]
  BY <1>2 DEF MakesNode, HeapInv
<1>7. d[w] = m - 1
  <2>1. OwnWay(a, m-1)
    BY <1>3, <1>5, OwnWayAbove
  <2>2. Way(a)[m-1] # 0
    BY <1>6
  <2>. QED
    BY <1>1, <1>4, <1>5, <2>1, <2>2, OwnLevel
<1>. HIDE DEF w, b, a
<1>8. \A c \in Bit : ~Points(node'[new][c])
  BY <1>6 DEF NewNode, Points, EmptyRecord
<1>. HIDE DEF new
<1>. DEFINE e == [i \in 1..Len(node') |-> IF i = new THEN m ELSE d[i]]
<1>9. /\ d \in [1..Len(node) -> 0 .. Width - 1] /\ d[Root] = 0
      /\ \A i \in 1..Len(node), c \in Bit :
           /\ node[i][c].type = "node" => d[node[i][c].value] = d[i] + 1
           /\ node[i][c].type = "alias" => d[node[i][c].value] > d[i]
      /\ \A i \in 1..Len(calls) :
           calls[i].new.type = "alias" => d[calls[i].new.value] >= Depth(calls[i].mask)
  BY <1>1 DEF IsLevel
<1>10. /\ \A i \in 1..Len(node) : i \in 1..Len(node') /\ i # new
       /\ new \in 1..Len(node') /\ \A i \in 1..Len(node') : i = new \/ i \in 1..Len(node)
  BY <1>6 DEF new
<1>11. /\ \A i \in 1..Len(node) : e[i] = d[i]
       /\ e[new] = m
  BY <1>10
<1>12. e \in [1..Len(node') -> 0 .. Width - 1]
  BY <1>5, <1>9, <1>10
<1>. HIDE DEF e
<1>13. e[Root] = 0
  BY <1>9, <1>11 DEF Root, HeapInv
<1>14. ASSUME NEW i \in 1..Len(node'), NEW c \in Bit
       PROVE  /\ node'[i][c].type = "node" => e[node'[i][c].value] = e[i] + 1
              /\ node'[i][c].type = "alias" => e[node'[i][c].value] > e[i]
  <2>1. CASE i = new
    BY <1>8, <2>1 DEF Points
  <2>2. CASE i = w /\ c = b
    <3>1. e[i] = m - 1 /\ e[new] = m
      BY <1>6, <1>7, <1>11, <2>2
    <3>2. node'[i][c].type = "node" /\ node'[i][c].value = new
      BY <1>6, <2>2 DEF NodeRecord
    <3>3. m = m - 1 + 1
      BY <1>5
    <3>. QED
      BY <3>1, <3>2, <3>3
  <2>3. CASE i \in 1..Len(node) /\ (i # w \/ c # b)
    <3>1. node'[i][c] = node[i][c] /\ e[i] = d[i]
      BY <1>6, <1>11, <2>3
    <3>2. node[i][c] \in HeapRecord
      BY <2>3 DEF HeapInv
    <3>3. node[i][c].type \in {"node", "alias"} => node[i][c].value \in 1..Len(node)
      BY <3>2, RecordKinds DEF Points
    <3>4. node[i][c].type \in {"node", "alias"} => e[node[i][c].value] = d[node[i][c].value]
      BY <1>11, <3>3
    <3>. QED
      BY <1>9, <2>3, <3>1, <3>4
  <2>. QED
    BY <1>10, <2>1, <2>2, <2>3
<1>15. ASSUME NEW i \in 1..Len(calls'), calls'[i].new.type = "alias"
       PROVE  e[calls'[i].new.value] >= Depth(calls'[i].mask)
  <2>1. calls[i] \in Call
    <3>1. calls \in Seq(Call) /\ i \in 1..Len(calls)
      BY <1>3 DEF HeapInv
    <3>. QED
      BY <3>1
  <2>3. calls[i].new \in HeapRecord
    BY <2>1 DEF Call
  <2>2. calls[i].new.value \in 1..Len(node)
    BY <1>3, <1>15, <2>3, RecordKinds DEF Points
  <2>. QED
    BY <1>3, <1>9, <1>11, <1>15, <2>2
<1>16. PICK f : f = e
  OBVIOUS
<1>17. IsLevel(f)'
  BY <1>12, <1>13, <1>14, <1>15, <1>16 DEF IsLevel
<1>. QED
  BY <1>17 DEF Levels

LEMMA SetRecordLevels ==
  ASSUME HeapInv, Levels, CallsOwn, SetRecord
  PROVE  Levels'
<1>1. PICK d : IsLevel(d)
  BY DEF Levels
<1>2. /\ Current = calls[1] /\ 1 \in 1..Len(calls) /\ calls' = Tail(calls)
      /\ OwnWay(Current.bytes, Depth(Current.mask) - 1)
  <2>1. calls' = Tail(calls) /\ Running /\ calls \in Seq(Call)
    BY DEF SetRecord, Found, HeapInv
  <2>2. Current = calls[1] /\ 1 \in 1..Len(calls)
    BY <2>1 DEF Current, Running
  <2>. QED
    BY <2>1, <2>2 DEF CallsOwn
<1>. DEFINE a == Current.bytes
            n == Depth(Current.mask)
            w == NodeToSet
<1>3. /\ a \in Address /\ n \in 1..Width /\ Current \in Call
      /\ w \in 1..Len(node) /\ w = Way(a)[n-1] /\ a[n] \in Bit
      /\ Len(node') = Len(node)
      /\ node'[w][a[n]] = NewRecord
      /\ NewRecord \in HeapRecord /\ NewRecord.type # "node"
      /\ NewRecord.type = "alias" => NewRecord = Current.new
      /\ \A i \in 1..Len(node), b \in Bit : i # w \/ b # a[n] => node'[i][b] = node[i][b]
  BY SetRecordSets
<1>4. d[w] = n - 1
  <2>1. n - 1 \in 0 .. Width - 1 /\ OwnWay(a, n-1)
    BY <1>2, <1>3, WidthAssumption
  <2>2. Way(a)[n-1] # 0 /\ Way(a)[n-1] = w
    BY <1>3 DEF HeapInv
  <2>. QED
    BY <1>1, <1>3, <2>1, <2>2, OwnLevel
<1>5. /\ d \in [1..Len(node) -> 0 .. Width - 1] /\ d[Root] = 0
      /\ \A i \in 1..Len(node), c \in Bit :
           /\ node[i][c].type = "node" => d[node[i][c].value] = d[i] + 1
           /\ node[i][c].type = "alias" => d[node[i][c].value] > d[i]
      /\ \A i \in 1..Len(calls) :
           calls[i].new.type = "alias" => d[calls[i].new.value] >= Depth(calls[i].mask)
  BY <1>1 DEF IsLevel
<1>6. NewRecord.type = "alias" => d[NewRecord.value] >= n
  BY <1>2, <1>3, <1>5
<1>. HIDE DEF a, n, w
<1>7. ASSUME NEW i \in 1..Len(node'), NEW c \in Bit
      PROVE  /\ node'[i][c].type = "node" => d[node'[i][c].value] = d[i] + 1
             /\ node'[i][c].type = "alias" => d[node'[i][c].value] > d[i]
  <2>1. CASE i = w /\ c = a[n]
    <3>1. node'[i][c] = NewRecord /\ d[i] = n - 1
      BY <1>3, <1>4, <2>1
    <3>2. CASE NewRecord.type = "alias"
      <4>1. NewRecord.value \in 1..Len(node)
        BY <1>3, <3>2, RecordKinds DEF Points
      <4>2. d[NewRecord.value] \in Int /\ d[NewRecord.value] >= n
        BY <1>5, <1>6, <3>2, <4>1
      <4>3. d[NewRecord.value] > n - 1
        BY <1>3, <4>2
      <4>. QED
        BY <1>3, <3>1, <4>3
    <3>. QED
      BY <1>3, <3>1, <3>2
  <2>2. CASE i # w \/ c # a[n]
    BY <1>3, <1>5, <2>2
  <2>. QED
    BY <2>1, <2>2
<1>8. ASSUME NEW i \in 1..Len(calls'), calls'[i].new.type = "alias"
      PROVE  d[calls'[i].new.value] >= Depth(calls'[i].mask)
  <2>1. calls'[i] = calls[i+1] /\ i + 1 \in 1..Len(calls)
    BY <1>2 DEF HeapInv
  <2>. QED
    BY <1>5, <1>8, <2>1
<1>9. IsLevel(d)'
  BY <1>3, <1>5, <1>7, <1>8 DEF IsLevel
<1>. QED
  BY <1>9 DEF Levels

LEMMA InsertLevels ==
  ASSUME Levels, UNCHANGED node, NoAlias'
  PROVE  Levels'
<1>1. PICK calls2 : calls2 = calls'
  OBVIOUS
<1>2. \A i \in 1..Len(calls2) : calls2[i].new.type # "alias"
  BY <1>1 DEF NoAlias
<1>. QED
  BY <1>1, <1>2, LevelsKept

LEMMA LevelsInit == HeapInit => Levels /\ CallsOwn
<1>. SUFFICES ASSUME HeapInit PROVE Levels /\ CallsOwn
  OBVIOUS
<1>1. node = << [b \in Bit |-> EmptyRecord] >> /\ calls = <<>>
  BY DEF HeapInit
<1>. DEFINE d == [i \in 1..1 |-> 0]
<1>2. Len(node) = 1 /\ \A b \in Bit : node[1][b] = EmptyRecord
  BY <1>1
<1>3. IsLevel(d)
  BY <1>1, <1>2, WidthAssumption DEF IsLevel, EmptyRecord, Root
<1>4. CallsOwn
  BY <1>1 DEF CallsOwn
<1>. QED
  BY <1>3, <1>4 DEF Levels

\* Whatever a walk follows, it goes down a level at least.
LEMMA WalkLevel ==
  ASSUME HeapInv, NEW d, IsLevel(d), NEW a \in Address, NEW n \in 0 .. Width - 1, Way(a)[n] # 0
  PROVE  d[Way(a)[n]] >= n
<1>. DEFINE Wrong == {k \in 0 .. Width - 1 : Way(a)[k] # 0 /\ ~(d[Way(a)[k]] >= k)}
<1>1. ASSUME NEW m \in Wrong, \A k \in Wrong : m <= k PROVE FALSE
  <2>1. CASE m = 0
    <3>1. Way(a)[0] = Root
      BY <2>1, <1>1, WayType
    <3>. QED
      BY <2>1, <3>1, <1>1 DEF IsLevel
  <2>2. CASE m # 0
    <3>1. m \in 1 .. Width - 1 /\ m - 1 \in 0 .. Width - 1 /\ m \in 1..Width /\ m \in Nat
      BY <2>2, WidthAssumption
    <3>2. PICK u, w : u = Way(a)[m-1] /\ w = Way(a)[m]
      OBVIOUS
    <3>3. w # 0 /\ w = Down(u, a[m]) /\ u \in 0..Len(node) /\ w \in 0..Len(node) /\ a[m] \in Bit
      <4>1. Way(a)[m] # 0 /\ a[m] \in Bit
        BY <1>1, <3>1 DEF Address
      <4>2. Way(a)[m] = Down(Way(a)[m-1], a[m])
            /\ Way(a)[m-1] \in 0..Len(node) /\ Way(a)[m] \in 0..Len(node)
        <5>1. m \in 0 .. Width - 1
          BY <1>1
        <5>. QED
          BY <2>2, <3>1, <5>1, WaySteps DEF WaysGoDown
      <4>. QED
        BY <3>2, <4>1, <4>2
    <3>4. u \in 1..Len(node) /\ w \in 1..Len(node) /\ node[u][a[m]].value = w
          /\ Points(node[u][a[m]])
      BY <3>3 DEF Down, HeapInv
    <3>5. m - 1 \notin Wrong
      BY <1>1, <3>1
    <3>6. d[u] >= m - 1
      BY <3>1, <3>2, <3>4, <3>5 DEF HeapInv
    <3>7. d[u] \in Int /\ d[w] \in Int
      BY <3>4 DEF IsLevel
    <3>8. d[w] = d[u] + 1 \/ d[w] > d[u]
      BY <3>3, <3>4 DEF IsLevel, Points
    <3>9. d[w] >= m
      BY <3>1, <3>6, <3>7, <3>8
    <3>. QED
      BY <1>1, <3>2, <3>9
  <2>. QED
    BY <2>1, <2>2
<1>2. Wrong \in SUBSET Nat
  OBVIOUS
<1>. HIDE DEF Wrong
<1>3. Wrong = {}
  BY <1>1, <1>2, Least
<1>. QED
  BY <1>3 DEF Wrong

LEMMA AliasedWalksEnd == HeapInv /\ Levels => LookupFindsRecord
<1>. SUFFICES ASSUME HeapInv, Levels, NEW a \in Address, ~LookupEnds(a) PROVE FALSE
  BY DEF LookupFindsRecord
<1>1. \A n \in 1..Width : Way(a)[n-1] # 0 => Points(node[Way(a)[n-1]][a[n]])
  BY DEF LookupEnds, EndsAt
<1>2. PICK d : IsLevel(d)
  BY DEF Levels
<1>3. \A n \in 1 .. Width :
        /\ n - 1 \in 0 .. Width - 1 /\ a[n] \in Bit
        /\ Way(a)[n-1] # 0 =>
             /\ Way(a)[n-1] \in 1..Len(node)
             /\ node[Way(a)[n-1]][a[n]].value \in 1..Len(node)
  <2>. TAKE n \in 1..Width
  <2>1. n - 1 \in 0 .. Width - 1 /\ a[n] \in Bit
    BY WidthAssumption DEF Address
  <2>2. ASSUME Way(a)[n-1] # 0
        PROVE  /\ Way(a)[n-1] \in 1..Len(node)
               /\ node[Way(a)[n-1]][a[n]].value \in 1..Len(node)
    <3>1. Way(a)[n-1] \in 1..Len(node)
      BY <2>1, <2>2, WayType DEF HeapInv
    <3>2. node[Way(a)[n-1]][a[n]] \in HeapRecord
      BY <2>1, <3>1 DEF HeapInv
    <3>. QED
      BY <1>1, <2>2, <3>1, <3>2, RecordKinds
  <2>. QED
    BY <2>1, <2>2
<1>. DEFINE Ended == {n \in 0 .. Width - 1 : Way(a)[n] = 0}
<1>4. ASSUME NEW n \in Ended, \A k \in Ended : n <= k
      PROVE  FALSE
  <2>1. n # 0
    BY <1>4, WaySteps, WidthAssumption DEF WaysGoDown, Root
  <2>2. n - 1 \in 0 .. Width - 1 /\ n \in 1..Width
    BY <1>4, <2>1, WidthAssumption
  <2>3. n - 1 \notin Ended
    BY <1>4, <2>2
  <2>4. Way(a)[n-1] # 0 /\ Way(a)[n] = Down(Way(a)[n-1], a[n])
    BY <2>1, <2>2, <2>3, WaySteps DEF WaysGoDown
  <2>5. Way(a)[n] = node[Way(a)[n-1]][a[n]].value
    BY <1>1, <2>2, <2>4 DEF Down
  <2>. QED
    BY <1>3, <1>4, <2>2, <2>4, <2>5
<1>5. Ended = {}
  <2>1. Ended \in SUBSET Nat
    OBVIOUS
  <2>. HIDE DEF Ended
  <2>. QED
    BY <1>4, <2>1, Least
<1>6. Way(a)[Width - 1] # 0 /\ Width \in 1..Width /\ Width - 1 \in 0 .. Width - 1
  BY <1>5, WidthAssumption
<1>7. PICK u, w : u = Way(a)[Width - 1] /\ w = node[u][a[Width]].value
  OBVIOUS
<1>8. u \in 1..Len(node) /\ w \in 1..Len(node) /\ a[Width] \in Bit /\ Points(node[u][a[Width]])
  BY <1>1, <1>3, <1>6, <1>7
<1>9. d[u] >= Width - 1
  BY <1>2, <1>6, <1>7, WalkLevel
<1>10. d[u] \in Int /\ d[w] \in 0 .. Width - 1
  BY <1>2, <1>8 DEF IsLevel
<1>11. d[w] = d[u] + 1 \/ d[w] > d[u]
  BY <1>2, <1>7, <1>8 DEF IsLevel, Points
<1>. QED
  BY <1>9, <1>10, <1>11, WidthAssumption

-------------------------------------------------------------------------------
(* Alias records are set one after the other *)

\* The alias records that are still to be set.
AliasesPending ==
  \A i \in 1..Len(calls) :
    /\ ~calls[i].merge /\ calls[i].new.type = "alias"
    /\ \A j \in 1..Len(calls) :
         i < j => ~Covers(calls[i].bytes, Depth(calls[i].mask), calls[j].bytes)

LEMMA NoAliasCallsOwn == HeapInv /\ NoAlias => CallsOwn
<1>. SUFFICES ASSUME HeapInv, NoAlias, NEW i \in 1..Len(calls)
              PROVE  OwnWay(calls[i].bytes, Depth(calls[i].mask) - 1)
  BY DEF CallsOwn
<1>1. calls[i] \in Call
  BY DEF HeapInv
<1>2. calls[i].bytes \in Address /\ calls[i].mask \in MaskLength
  BY <1>1 DEF Call
<1>3. Depth(calls[i].mask) - 1 \in 0..Width
  BY <1>2, DepthType, WidthAssumption
<1>. QED
  BY <1>2, <1>3, NoAliasOwnWay

LEMMA NoAliasCallsOwnNext == HeapInv' /\ NoAlias' => CallsOwn'
BY NoAliasCallsOwn, PTL

LEMMA OwnWaySame ==
  ASSUME UNCHANGED node, NEW a, NEW n, OwnWay(a, n)
  PROVE  OwnWay(a, n)'
BY WaySame DEF OwnWay

\* What is left to be set after the first alias record.
LEMMA PendingTail ==
  ASSUME HeapInv, CallsOwn, AliasesPending, Running, calls' = Tail(calls)
  PROVE  /\ AliasesPending'
         /\ \A i \in 1..Len(calls') :
              /\ calls'[i].bytes \in Address
              /\ Depth(calls'[i].mask) - 1 \in 0 .. Width - 1
              /\ OwnWay(calls'[i].bytes, Depth(calls'[i].mask) - 1)
              /\ ~Covers(Current.bytes, Depth(Current.mask), calls'[i].bytes)
         /\ OwnWay(Current.bytes, Depth(Current.mask) - 1)
<1>1. /\ calls \in Seq(Call) /\ Current = calls[1] /\ 1 \in 1..Len(calls)
      /\ Len(calls') = Len(calls) - 1 /\ Len(calls) \in Nat
      /\ \A i \in 1..Len(calls') : calls'[i] = calls[i+1]
  <2>1. calls \in Seq(Call) /\ calls # <<>>
    BY DEF HeapInv, Running
  <2>2. Len(calls) \in Nat \ {0}
    BY <2>1
  <2>. QED
    BY <2>1, <2>2, HeadTailProperties DEF Current
<1>2. \A i \in 1..Len(calls') : i + 1 \in 1..Len(calls) /\ 1 < i + 1
  BY <1>1
<1>3. AliasesPending'
  <2>. SUFFICES ASSUME NEW i \in 1..Len(calls')
                PROVE  /\ ~calls'[i].merge /\ calls'[i].new.type = "alias"
                       /\ \A j \in 1..Len(calls') : i < j =>
                            ~Covers(calls'[i].bytes, Depth(calls'[i].mask), calls'[j].bytes)
    BY DEF AliasesPending
  <2>1. \A j \in 1..Len(calls') : i < j => i + 1 < j + 1
    OBVIOUS
  <2>. QED
    BY <1>1, <1>2, <2>1 DEF AliasesPending
<1>4. ASSUME NEW i \in 1..Len(calls')
      PROVE  /\ calls'[i].bytes \in Address
             /\ Depth(calls'[i].mask) - 1 \in 0 .. Width - 1
             /\ OwnWay(calls'[i].bytes, Depth(calls'[i].mask) - 1)
             /\ ~Covers(Current.bytes, Depth(Current.mask), calls'[i].bytes)
  <2>1. calls[i+1] \in Call
    BY <1>1, <1>2
  <2>2. calls[i+1].bytes \in Address /\ calls[i+1].mask \in MaskLength
    BY <2>1 DEF Call
  <2>3. Depth(calls[i+1].mask) - 1 \in 0 .. Width - 1
    BY <2>2, DepthType, WidthAssumption
  <2>4. OwnWay(calls[i+1].bytes, Depth(calls[i+1].mask) - 1)
    BY <1>2 DEF CallsOwn
  <2>5. ~Covers(Current.bytes, Depth(Current.mask), calls[i+1].bytes)
    BY <1>1, <1>2 DEF AliasesPending
  <2>. QED
    BY <1>1, <2>2, <2>3, <2>4, <2>5
<1>. QED
  BY <1>1, <1>3, <1>4 DEF CallsOwn


\* A step sets alias records as asked, or makes a node on the way to one.
LEMMA PendingStep ==
  ASSUME HeapInv, CallsOwn, AliasesPending, Step
  PROVE  /\ HeapInv' /\ CallsOwn' /\ AliasesPending' /\ Running
         /\ OwnWay(Current.bytes, Depth(Current.mask) - 1)
         /\ MakeNextNode \/ SetRecord
         /\ NewRecord = Current.new
<1>1. HeapInv'
  BY HeapInvNext DEF AliasNext
<1>2. Running
  BY DEF Step, MakeNextNode, MergeIntoNode, InsertIntoParent, SetRecord, Croak, Found
<1>3. Current = calls[1] /\ 1 \in 1..Len(calls)
  BY <1>2, HeadTailProperties, LenProperties DEF HeapInv, Running, Current
<1>4. ~Current.merge /\ Current.new.type = "alias"
  BY <1>3 DEF AliasesPending
<1>5. OwnWay(Current.bytes, Depth(Current.mask) - 1)
  BY <1>3 DEF CallsOwn
<1>6. ~MergeIntoNode /\ ~InsertIntoParent /\ ~Croak /\ NewRecord = Current.new
  BY <1>4 DEF MergeIntoNode, InsertIntoParent, Croak, Croaks, Descends, Prunes, NewRecord,
              Merges, IsData
<1>7. CASE MakeNextNode
  <2>1. UNCHANGED calls
    BY <1>7 DEF MakeNextNode
  <2>2. ASSUME NEW i \in 1..Len(calls) PROVE OwnWay(calls[i].bytes, Depth(calls[i].mask) - 1)'
    <3>1. calls[i] \in Call
      BY DEF HeapInv
    <3>2. calls[i].bytes \in Address /\ Depth(calls[i].mask) - 1 \in 0 .. Width - 1
      BY <3>1, DepthType, WidthAssumption DEF Call
    <3>3. PICK a, n : a = calls[i].bytes /\ n = Depth(calls[i].mask) - 1
      OBVIOUS
    <3>4. OwnWay(a, n)'
      BY <1>1, <1>7, <3>2, <3>3, MakeNextNodeOwn DEF CallsOwn
    <3>. QED
      BY <2>1, <3>3, <3>4
  <2>3. CallsOwn' /\ AliasesPending'
    BY <2>1, <2>2 DEF CallsOwn, AliasesPending
  <2>. QED
    BY <1>1, <1>2, <1>5, <1>6, <1>7, <2>3
<1>8. CASE SetRecord
  <2>1. calls' = Tail(calls)
    BY <1>8 DEF SetRecord
  <2>2. PICK calls2 : calls2 = calls'
    OBVIOUS
  <2>3. ASSUME NEW i \in 1..Len(calls2)
        PROVE  OwnWay(calls2[i].bytes, Depth(calls2[i].mask) - 1)'
    <3>1. PICK a, n : a = calls2[i].bytes /\ n = Depth(calls2[i].mask) - 1
      OBVIOUS
    <3>2. /\ a \in Address /\ n \in 0 .. Width - 1 /\ OwnWay(a, n)
          /\ ~Covers(Current.bytes, Depth(Current.mask), a)
      BY <1>2, <2>1, <2>2, <3>1, PendingTail
    <3>3. OwnWay(a, n)'
      BY <1>1, <1>5, <1>8, <3>2, SetRecordWay
    <3>. QED
      BY <3>1, <3>3
  <2>4. CallsOwn' /\ AliasesPending'
    BY <1>2, <2>1, <2>2, <2>3, PendingTail DEF CallsOwn
  <2>. QED
    BY <1>1, <1>2, <1>5, <1>6, <1>8, <2>4
<1>. QED
  BY <1>6, <1>7, <1>8 DEF Step

\* On its way of node records, an address has the record r after n bits.
Leads(a, n, r) == /\ OwnWay(a, n-1)
                  /\ Way(a)[n-1] # 0
                  /\ node[Way(a)[n-1]][a[n]] = r

\* A record that points stays where it is when a node is made.
LEMMA MakeNextNodeLeads ==
  ASSUME HeapInv, HeapInv', MakeNextNode, NEW a \in Address, NEW n \in 1..Width,
         NEW r, Points(r), Leads(a, n, r)
  PROVE  Leads(a, n, r)'
<1>1. PICK m : MakesNode(m)
  BY MakeNextNodeMakes
<1>. DEFINE w == Way(Current.bytes)[m-1]
            b == Current.bytes[m]
<1>2. /\ ~Points(node[w][b])
      /\ \A i \in 1..Len(node), c \in Bit : i # w \/ c # b => node'[i][c] = node[i][c]
  BY <1>1 DEF MakesNode, HeapInv
<1>. HIDE DEF w, b
<1>3. \A i \in 1..Len(node), c \in Bit : Points(node[i][c]) => node'[i][c] = node[i][c]
  BY <1>2
<1>4. \A k \in 1 .. Width - 1 :
        k - 1 \in 0 .. Width - 1 /\ k \in 0 .. Width - 1 /\ k \in 1..Width /\ k # 0 /\ a[k] \in Bit
  BY WidthAssumption DEF Address
<1>5. n - 1 \in 0 .. Width - 1 /\ a[n] \in Bit
  BY WidthAssumption DEF Address
<1>. DEFINE Moved == {k \in 0 .. Width - 1 : Way(a)[k] # 0 /\ Way(a)'[k] # Way(a)[k]}
<1>6. ASSUME NEW k \in Moved, \A j \in Moved : k <= j PROVE FALSE
  <2>1. CASE k = 0
    BY <1>6, <2>1, WaySteps, WayStepsNext DEF WaysGoDown
  <2>2. CASE k # 0
    <3>1. k \in 1 .. Width - 1 /\ k - 1 \notin Moved
      BY <1>6, <2>2, WidthAssumption
    <3>2. PICK u : u = Way(a)[k-1]
      OBVIOUS
    <3>3. Way(a)[k] = Down(u, a[k]) /\ u \in 0..Len(node)
      BY <1>4, <3>1, <3>2, WaySteps DEF WaysGoDown
    <3>4. u # 0 /\ u \in 1..Len(node) /\ a[k] \in Bit /\ Points(node[u][a[k]])
      BY <1>4, <1>6, <3>1, <3>3 DEF Down, HeapInv
    <3>5. Way(a)'[k-1] = u
      BY <1>4, <3>1, <3>2, <3>4
    <3>6. Way(a)'[k] = Down(u, a[k])'
      BY <1>4, <3>1, <3>5, WayStepsNext DEF WaysGoDown
    <3>7. Down(u, a[k])' = Down(u, a[k])
      BY <1>3, <3>4 DEF Down
    <3>. QED
      BY <1>6, <3>3, <3>6, <3>7
  <2>. QED
    BY <2>1, <2>2
<1>7. Moved \in SUBSET Nat
  OBVIOUS
<1>. HIDE DEF Moved
<1>8. Moved = {}
  BY <1>6, <1>7, Least
<1>9. PICK u : u = Way(a)[n-1]
  OBVIOUS
<1>13. u # 0 /\ node[u][a[n]] = r
  BY <1>9 DEF Leads
<1>14. u \in 1..Len(node)
  <2>1. u \in 0..Len(node)
    BY <1>5, <1>9, WaySteps DEF WaysGoDown
  <2>. QED
    BY <2>1, <1>13 DEF HeapInv
<1>15. Way(a)'[n-1] = u
  BY <1>5, <1>8, <1>9, <1>13 DEF Moved
<1>10. Way(a)'[n-1] = u /\ u \in 1..Len(node) /\ node[u][a[n]] = r
  BY <1>13, <1>14, <1>15
<1>11. node'[u][a[n]] = r
  BY <1>3, <1>5, <1>10
<1>12. OwnWay(a, n-1)'
  BY <1>5, MakeNextNodeOwn DEF Leads
<1>. QED
  BY <1>10, <1>11, <1>12 DEF Leads, HeapInv

\* Setting a record leaves the others where they are, except those below it.
LEMMA SetRecordLeads ==
  ASSUME HeapInv, HeapInv', SetRecord, OwnWay(Current.bytes, Depth(Current.mask) - 1),
         NEW a \in Address, NEW n \in 1..Width, NEW r, Leads(a, n, r),
         ~Covers(Current.bytes, Depth(Current.mask), a)
  PROVE  Leads(a, n, r)'
<1>. DEFINE c == Current.bytes
            m == Depth(Current.mask)
            w == NodeToSet
<1>1. /\ c \in Address /\ m \in 1..Width
      /\ w \in 1..Len(node) /\ w = Way(c)[m-1] /\ c[m] \in Bit
      /\ \A i \in 1..Len(node), b \in Bit : i # w \/ b # c[m] => node'[i][b] = node[i][b]
  BY SetRecordSets
<1>2. OwnWay(c, m-1) /\ ~Covers(c, m, a)
  OBVIOUS
<1>3. n - 1 \in 0 .. Width - 1 /\ m - 1 \in 0 .. Width - 1 /\ a[n] \in Bit
  BY <1>1, WidthAssumption DEF Address
<1>4. PICK u : u = Way(a)[n-1]
  OBVIOUS
<1>5. OwnWay(a, n-1) /\ u # 0 /\ u \in 1..Len(node) /\ node[u][a[n]] = r
  BY <1>3, <1>4, WaySteps DEF Leads, WaysGoDown, HeapInv
<1>6. OwnWay(a, n-1)' /\ \A k \in 0..n-1 : Way(a)'[k] = Way(a)[k]
  BY <1>3, <1>5, SetRecordWay
<1>7. Way(a)'[n-1] = u
  BY <1>3, <1>4, <1>6
<1>. HIDE DEF c, m, w
<1>8. u # w \/ a[n] # c[m]
  <2>. SUFFICES ASSUME u = w, a[n] = c[m] PROVE FALSE
    OBVIOUS
  <2>1. n - 1 = m - 1 /\ \A i \in 1..n-1 : a[i] = c[i]
    BY <1>1, <1>2, <1>3, <1>4, <1>5, OwnWaysMeet
  <2>2. n = m /\ \A i \in 1..m : i = m \/ i \in 1..n-1
    BY <1>1, <2>1
  <2>3. \A i \in 1..m : a[i] = c[i]
    BY <2>1, <2>2
  <2>. QED
    BY <1>2, <2>3 DEF Covers
<1>9. node'[u][a[n]] = r
  BY <1>1, <1>3, <1>5, <1>8
<1>. QED
  BY <1>5, <1>6, <1>7, <1>9 DEF Leads

\* And it sets the one that it was to set.
LEMMA SetRecordLeadsTo ==
  ASSUME HeapInv, HeapInv', SetRecord, OwnWay(Current.bytes, Depth(Current.mask) - 1),
         NEW c, c = Current.bytes, NEW m, m = Depth(Current.mask), NEW r, r = NewRecord
  PROVE  Leads(c, m, r)'
<1>1. PICK w : w = NodeToSet
  OBVIOUS
<1>2. /\ c \in Address /\ m \in 1..Width
      /\ w \in 1..Len(node) /\ w = Way(c)[m-1]
      /\ node'[w][c[m]] = r
  BY <1>1, SetRecordSets
<1>3. m - 1 \in 0 .. Width - 1 /\ OwnWay(c, m-1) /\ m - 1 < m
  BY <1>1, <1>2, WidthAssumption
<1>4. OwnWay(c, m-1)' /\ \A k \in 0..m-1 : Way(c)'[k] = Way(c)[k]
  BY <1>1, <1>2, <1>3, SetRecordWay
<1>5. Way(c)'[m-1] = w /\ w # 0
  <2>1. m - 1 \in 0..m-1
    BY <1>2
  <2>. QED
    BY <1>2, <1>4, <2>1
<1>. QED
  BY <1>2, <1>4, <1>5 DEF Leads
===============================================================================
