---------------------------- MODULE LifecycleProofs ----------------------------
(***************************************************************************)
(* The numbers of the nodes, whatever is called in what order: as long as  *)
(* a careful program inserts before it aliases, aliases before it counts,  *)
(* and does not insert what fails into a tree that it has counted, the     *)
(* numbers in a tree that is marked finalized are up to date.  What is     *)
(* written of a node is what a reader gets of it, for each record size.    *)
(* So a reader of a whole file finds for every address what the tree has,  *)
(* and the addresses of alias networks have what their IPv4 addresses have.*)
(***************************************************************************)
EXTENDS TreeLifecycle, NumberingProofs

\* What the callers of TreeLifecycle refrain from.
IsCareful ==
  Liberties \cap {"fail after finalize", "alias after finalize", "insert after alias"} = {}

\* Some address is in none of the networks that callers insert.
Gap == {a \in Address : \A net \in Insertable : ~Covers(net[1], net[2], a)}
LeavesGap == Gap # {}

Zeros == [i \in 1..Width |-> 0]

\* No alias network is the whole space, has an address of another one, or the first
\* IPv4 address.  (Those of the code are ::ffff:0:0/96, 2002::/16 and 2001::/32.)
AliasesApart ==
  \A k \in 1..Len(Ipv4Aliases) :
    /\ Ipv4Aliases[k][2] \in 1..Width
    /\ ~Covers(Ipv4Aliases[k][1], Ipv4Aliases[k][2], Zeros)
    /\ \A l \in 1..Len(Ipv4Aliases) :
         k # l => ~Covers(Ipv4Aliases[k][1], Ipv4Aliases[k][2], Ipv4Aliases[l][1])

-------------------------------------------------------------------------------
(* The tree in the two phases of its life *)

\* Before it is aliased, it implements the map.
GapEmpty == \A a \in Gap : Places!Lookup(a) = Empty /\ Places!Target(a) = Empty
Inserting == InsertInv /\ Places!MapInv /\ GapEmpty

\* Then the first m aliases lead to the node of the IPv4 network, and the others
\* are still to be set; all of them lead there already if nodes are numbered.
AliasCall(k, i) == [bytes |-> Ipv4Aliases[k][1], mask |-> Ipv4Aliases[k][2],
                    new |-> AliasRecord(i), merge |-> FALSE]

AliasSet(k, i) == Leads(Ipv4Aliases[k][1], Ipv4Aliases[k][2], AliasRecord(i))

AliasedFrom(i, m) ==
  /\ Leads(Zeros, Ipv4Bits, NodeRecord(i))
  /\ Len(calls) = Len(Ipv4Aliases) - m
  /\ \A k \in 1..Len(calls) : calls[k] = AliasCall(m + k, i)
  /\ \A k \in 1..Len(Ipv4Aliases) : k <= m \/ is_finalized => AliasSet(k, i)

Aliasing == /\ Ipv4Aliases # <<>>
            /\ CallsOwn /\ AliasesPending
            /\ \E i \in 1..Len(node), m \in 0..Len(Ipv4Aliases) : AliasedFrom(i, m)

\* The insert in progress will not fail.
NoneClashes == \A a \in Address : Places!Target(a) # Clash

NumbersOK == /\ DOMAIN number = 1..Len(node)
             /\ node_count = Len(Preorder)
             /\ \A k \in 1..Len(Preorder) : number[Preorder[k]] = k - 1

LifecycleInv ==
  /\ HeapInv
  /\ op \in {"none", "insert", "alias", "write"}
  /\ op = "none" => calls = <<>>
  /\ op = "insert" => Inserting
  /\ op # "insert" => (Inserting /\ calls = <<>>) \/ Aliasing
  /\ is_finalized /\ op = "insert" => NoneClashes
  /\ is_finalized /\ op # "insert" => NumbersOK

LEMMA InitLifecycle == Init => LifecycleInv
<1>. SUFFICES ASSUME Init PROVE LifecycleInv
  OBVIOUS
<1>1. HeapInit /\ op = "none" /\ ~is_finalized /\ calls = <<>>
  BY DEF Init, NumberingInit, HeapInit
<1>2. HeapInv /\ InsertInv /\ Places!Init
  BY <1>1, HeapInvInit, InsertInvInit, MapInit, SameInit
<1>3. Places!MapInv /\ Places!Map!Init
  BY <1>2, PlacesAssumed, Places!MapInvInit, Places!MapInit DEF PlacesAssumption
<1>4. GapEmpty
  <2>1. Places!Map!Address = Address /\ Places!Address = Address
    BY DEF Places!Map!Address, Places!Address, Address, Places!Map!Bit, Places!Bit, Bit
  <2>2. PICK db, target : /\ db = [a \in Places!Address |-> Places!Lookup(a)]
                          /\ target = [a \in Places!Address |-> Places!Target(a)]
    OBVIOUS
  <2>3. db = [a \in Address |-> Empty] /\ target = db
    BY <1>3, <2>1, <2>2 DEF Places!Map!Init
  <2>4. \A a \in Address : db[a] = Places!Lookup(a) /\ target[a] = Places!Target(a)
    BY <2>1, <2>2
  <2>5. \A a \in Address : Places!Lookup(a) = Empty /\ Places!Target(a) = Empty
    BY <2>3, <2>4
  <2>. QED
    BY <2>5 DEF GapEmpty, Gap
<1>. QED
  BY <1>1, <1>2, <1>3, <1>4 DEF LifecycleInv, Inserting

\* Finalizing a tree numbers it, or it is numbered.
LEMMA FinalizeNumbers ==
  ASSUME HeapInv, UNCHANGED node, Finalize, is_finalized => NumbersOK
  PROVE  NumbersOK'
<1>1. Preorder' = Preorder
  BY ZenonT(30) DEF Preorder
<1>2. CASE is_finalized
  BY <1>1, <1>2 DEF NumbersOK, Finalize, FinalNumber, FinalCount
<1>3. CASE ~is_finalized
  <2>1. number' = Numbered /\ node_count' = Len(Preorder)
    BY <1>3 DEF Finalize, FinalNumber, FinalCount
  <2>2. PICK numbers, order : numbers = Numbered /\ order = Preorder
    OBVIOUS
  <2>3. \A k \in 1..Len(order) : numbers[order[k]] = k - 1
    BY <2>2, NumbersArePlaces
  <2>4. DOMAIN numbers = 1..Len(node)
    BY <2>2 DEF Numbered
  <2>. QED
    BY <1>1, <2>1, <2>2, <2>3, <2>4 DEF NumbersOK
<1>. QED
  BY <1>2, <1>3

-------------------------------------------------------------------------------
(* Inserts *)

LEMMA SameNetworks ==
  /\ Places!Address = Address
  /\ \A bytes, mask, a : Places!Covers(bytes, mask, a) <=> Covers(bytes, mask, a)
  /\ Places!Data = Data
<1>1. Places!Address = Address
  BY DEF Places!Address, Address, Places!Bit, Bit
<1>2. \A bytes, mask, a : Places!Covers(bytes, mask, a) <=> Covers(bytes, mask, a)
  BY DEF Places!Covers, Covers
<1>3. Places!Data = Data
  BY DEF Places!Data, Data, Places!Hash, Hash
<1>. QED
  BY <1>1, <1>2, <1>3

LEMMA AliasNetworks ==
  ASSUME AliasesApart, NEW k \in 1..Len(Ipv4Aliases)
  PROVE  /\ Ipv4Aliases[k][1] \in Address
         /\ Ipv4Aliases[k][2] \in 1..Width
         /\ Depth(Ipv4Aliases[k][2]) = Ipv4Aliases[k][2]
<1>1. Ipv4Aliases[k] \in Network
  BY HeapAssumption
<1>2. Ipv4Aliases[k][1] \in Address /\ Ipv4Aliases[k][2] \in 1..Width
  BY <1>1 DEF Network, AliasesApart
<1>. QED
  BY <1>2, DepthInTree

\* Once aliases are set, there are aliases.
LEMMA AliasesAreSet ==
  ASSUME AliasesApart, HeapInv, Aliasing, calls = <<>>
  PROVE  /\ HasAliases
         /\ \E i \in 1..Len(node) : /\ Leads(Zeros, Ipv4Bits, NodeRecord(i))
                                    /\ \A k \in 1..Len(Ipv4Aliases) : AliasSet(k, i)
<1>1. PICK i \in 1..Len(node), m \in 0..Len(Ipv4Aliases) : AliasedFrom(i, m)
  BY DEF Aliasing
<1>2. Len(Ipv4Aliases) \in Nat \ {0} /\ m = Len(Ipv4Aliases)
  <2>1. Len(Ipv4Aliases) \in Nat \ {0}
    BY HeapAssumption DEF Aliasing
  <2>2. Len(calls) = Len(Ipv4Aliases) - m /\ Len(calls) = 0
    BY <1>1 DEF AliasedFrom
  <2>. QED
    BY <2>1, <2>2
<1>3. Leads(Zeros, Ipv4Bits, NodeRecord(i)) /\ \A k \in 1..Len(Ipv4Aliases) : AliasSet(k, i)
  BY <1>1, <1>2 DEF AliasedFrom
<1>4. HasAliases
  <2>1. 1 \in 1..Len(Ipv4Aliases)
    BY <1>2
  <2>2. PICK a, n : a = Ipv4Aliases[1][1] /\ n = Ipv4Aliases[1][2]
    OBVIOUS
  <2>3. a \in Address /\ n \in 1..Width /\ Leads(a, n, AliasRecord(i))
    BY <1>3, <2>1, <2>2, AliasNetworks DEF AliasSet
  <2>4. n - 1 \in 0 .. Width - 1 /\ a[n] \in Bit
    BY <2>3, WidthAssumption DEF Address
  <2>5. PICK w : w = Way(a)[n-1]
    OBVIOUS
  <2>6. w \in 1..Len(node) /\ node[w][a[n]] = AliasRecord(i)
    BY <2>3, <2>4, <2>5, WayType DEF Leads, HeapInv
  <2>7. node[w][a[n]].type = "alias"
    BY <2>6 DEF AliasRecord
  <2>. QED
    BY <2>4, <2>6, <2>7 DEF HasAliases
<1>. QED
  BY <1>3, <1>4

\* What an address that no insert covers has, stays as it is.
LEMMA InsertInserts ==
  ASSUME LeavesGap, Inserting, NEW net \in Insertable, NEW data \in Inputs,
         InsertNetwork(net[1], net[2], data)
  PROVE  Inserting' /\ Places!Inserted(net[1], net[2], data)
<1>0. InsertInv /\ Places!MapInv /\ GapEmpty
  BY DEF Inserting
<1>1. PICK g \in Gap : TRUE
  BY DEF LeavesGap
<1>2. g \in Address /\ ~Covers(net[1], net[2], g)
  BY DEF Gap
<1>3. net[2] > 0
  <2>1. net[2] \in Nat
    BY HeapAssumption, WidthAssumption DEF Network
  <2>2. net[2] # 0
    BY <1>2 DEF Covers
  <2>. QED
    BY <2>1, <2>2
<1>4. ~Places!Fills(net[1], net[2], data)
  <2>. SUFFICES ASSUME Places!Fills(net[1], net[2], data) PROVE FALSE
    OBVIOUS
  <2>1. Places!Lookup(g) = Empty /\ g \in Places!Address
    BY <1>0, <1>1, <1>2, SameNetworks DEF GapEmpty
  <2>2. ~Places!Covers(net[1], net[2], g)
    BY <1>2, SameNetworks
  <2>3. Empty \in Places!Data
    BY <2>1, <2>2 DEF Places!Fills
  <2>. QED
    BY <2>3, SameNetworks, PayloadAssumption
<1>5. Places!InsertNetwork(net[1], net[2], data)
  BY MapInsertNetwork, SameInsert
<1>6. InsertInv'
  <2>1. GapInsert
    BY <1>4 DEF GapInsert
  <2>. QED
    BY <1>0, <2>1, GapInsertMaps
<1>7. Places!TypeOK'
  <2>1. Places!Next
    BY <1>5 DEF Places!Next
  <2>. QED
    BY <1>0, <2>1, PlacesAssumed, Places!TypeOKNext DEF PlacesAssumption, Places!MapInv
<1>8. Places!Inserted(net[1], net[2], data) /\ Places!Queue' /\ Places!NotFilled'
  BY <1>0, <1>3, <1>4, <1>5, <1>7, PlacesAssumed, Places!InsertNetworkInserts
     DEF PlacesAssumption
<1>9. Places!OneRecordPerAddress'
  <2>1. Places!Next
    BY <1>5 DEF Places!Next
  <2>. QED
    BY <1>0, <2>1, PlacesAssumed, Places!OneRecordNext DEF PlacesAssumption, Places!MapInv
<1>10. GapEmpty'
  <2>1. ASSUME NEW a \in Gap
        PROVE  Places!Lookup(a)' = Empty /\ Places!Target(a)' = Empty
    <3>1. a \in Places!Address /\ ~Places!Covers(net[1], net[2], a)
      BY SameNetworks DEF Gap
    <3>2. Places!Lookup(a) = Empty /\ Places!Target(a) = Empty
      BY <1>0 DEF GapEmpty
    <3>. QED
      BY <1>8, <3>1, <3>2 DEF Places!Inserted
  <2>. QED
    BY <2>1 DEF GapEmpty
<1>. QED
  BY <1>6, <1>7, <1>8, <1>9, <1>10 DEF Inserting, Places!MapInv

LEMMA SameCroak == Tree!Croak <=> Places!Croak
BY DEF Tree!Croak, Places!Croak, Tree!Running, Places!Running,
  Tree!Current, Places!Current, Tree!RecordToSet, Places!RecordToSet,
  Tree!Found, Places!Found, Tree!Descends, Places!Descends, Tree!Merges, Places!Merges,
  Tree!Croaks, Places!Croaks, Tree!Place, Places!Place, Tree!Cut, Places!Cut,
  Tree!Depth, Places!Depth, Tree!LastBit, Places!LastBit, Tree!Data, Places!Data,
  Tree!Hash, Places!Hash, Tree!Mergeable, Places!Mergeable, RecordMap, CallsOf, CallOf

\* A step of an insert, one that fails too.  It fails only if it was to.
LEMMA InsertSteps ==
  ASSUME Inserting, Step
  PROVE  Inserting' /\ (NoneClashes => NoneClashes' /\ ~Croak)
<1>0. InsertInv /\ Places!MapInv /\ GapEmpty
  BY DEF Inserting
<1>1. InsertInv' /\ Places!Step
  <2>1. InsertInv'
    BY <1>0, GapInsertMaps
  <2>2. Tree!Step
    BY <1>0, <2>1, MapMakeNextNode, MapMergeIntoNode, MapInsertIntoParent, MapSetRecord,
       MapCroak DEF Step, Tree!Step, InsertInv
  <2>. QED
    BY <2>1, <2>2, SameStep
<1>2. /\ Places!MapInv'
      /\ Places!Applied \/ (Places!Fails /\ Places!Dropped)
      /\ Places!Croak => Places!Fails /\ Places!Dropped
  BY <1>0, <1>1, PlacesAssumed, Places!StepApplies DEF PlacesAssumption
<1>3. GapEmpty'
  <2>1. ASSUME NEW a \in Gap
        PROVE  Places!Lookup(a)' = Empty /\ Places!Target(a)' = Empty
    <3>1. a \in Places!Address
      BY SameNetworks DEF Gap
    <3>2. Places!Lookup(a) = Empty /\ Places!Target(a) = Empty
      BY <1>0 DEF GapEmpty
    <3>. QED
      BY <1>2, <3>1, <3>2 DEF Places!Applied, Places!Dropped
  <2>. QED
    BY <2>1 DEF GapEmpty
<1>4. ASSUME NoneClashes PROVE NoneClashes' /\ ~Croak
  <2>1. ~Places!Fails
    BY <1>4, SameNetworks DEF NoneClashes, Places!Fails
  <2>2. NoneClashes'
    BY <1>2, <1>4, <2>1, SameNetworks DEF NoneClashes, Places!Applied
  <2>3. Croak => Places!Croak
    <3>1. Croak => Tree!Croak
      BY <1>0, MapCroak DEF InsertInv
    <3>2. Tree!Croak <=> Places!Croak
      BY SameCroak
    <3>. QED
      BY <3>1, <3>2
  <2>. QED
    BY <1>2, <2>1, <2>2, <2>3
<1>. QED
  BY <1>1, <1>2, <1>3, <1>4 DEF Inserting

\* An insert into a finalized tree begins only if it will not fail.
LEMMA NothingWillClash ==
  ASSUME Inserting, NEW net \in Insertable, NEW data \in Inputs, ~Fails(net, data),
         Places!Inserted(net[1], net[2], data)
  PROVE  NoneClashes'
<1>0. InsertInv /\ Places!MapInv /\ data \in Data
  BY HeapAssumption DEF Inserting
<1>1. ASSUME NEW a \in Address PROVE Places!Target(a)' # Clash
  <2>1. /\ Places!Target(a)' = IF Places!Covers(net[1], net[2], a)
                               THEN Places!Combine(Places!Lookup(a), data)
                               ELSE Places!Lookup(a)
        /\ Places!Lookup(a) = Lookup(a)
    BY <1>0, SameNetworks, SameLookup DEF Places!Inserted, LookupsAgree
  <2>2. Lookup(a) # Clash
    BY <1>0, <2>1, SameNetworks, PlacesAssumed, Places!LookupType
       DEF PlacesAssumption, Places!MapInv
  <2>3. Covers(net[1], net[2], a) =>
          ~MergeRecordCollisions \/ Lookup(a) = Empty \/ Mergeable(Lookup(a), data)
    BY DEF Fails
  <2>4. Covers(net[1], net[2], a) => Places!Combine(Lookup(a), data) \in Data
    <3>. SUFFICES ASSUME Covers(net[1], net[2], a)
                  PROVE  Places!Combine(Lookup(a), data) \in Data
      OBVIOUS
    <3>1. Places!Combine(Lookup(a), data) \in {data, Merged(Lookup(a), data)}
      BY <2>3 DEF Places!Combine, Places!Mergeable, Mergeable, Places!Hash, Hash, Places!Merged,
                  Merged, Places!MergeHash, MergeHash
    <3>2. Mergeable(Lookup(a), data) => Merged(Lookup(a), data) \in Data
      BY MergedType DEF Mergeable, Data
    <3>3. Places!Combine(Lookup(a), data) = data \/ Mergeable(Lookup(a), data)
      BY <2>3 DEF Places!Combine, Places!Mergeable, Mergeable, Places!Hash, Hash
    <3>. QED
      BY <1>0, <3>1, <3>2, <3>3
  <2>. QED
    BY <2>1, <2>2, <2>4, SameNetworks, PayloadAssumption
<1>. QED
  BY <1>1 DEF NoneClashes

-------------------------------------------------------------------------------
(* Aliasing *)

LEMMA ZerosProperties ==
  /\ Zeros \in Address
  /\ Ipv4Bits \in 1..Width /\ Ipv4Bits - 1 \in 0 .. Width - 1 /\ Ipv4Bits - 1 \in 0..Width
  /\ Zeros[Ipv4Bits] = 0
BY HeapAssumption, WidthAssumption DEF Zeros, Address, Bit

\* alias_ipv4_networks finds the node of the IPv4 network.
LEMMA Ipv4Leads ==
  ASSUME HeapInv, HasIpv4Node, OwnWay(Zeros, Ipv4Bits - 1)
  PROVE  \E i \in 1..Len(node) :
           /\ Leads(Zeros, Ipv4Bits, NodeRecord(i))
           /\ AliasCalls = [k \in 1..Len(Ipv4Aliases) |-> AliasCall(k, i)]
<1>1. PICK w : w = Way(Zeros)[Ipv4Bits - 1]
  OBVIOUS
<1>2. w # 0 /\ node[w][0].type = "node"
  BY <1>1 DEF HasIpv4Node, Zeros
<1>3. w \in 1..Len(node)
  BY <1>1, <1>2, ZerosProperties, WayType DEF HeapInv
<1>4. PICK r : r = node[w][0]
  OBVIOUS
<1>5. r \in HeapRecord /\ r.type = "node"
  BY <1>2, <1>3, <1>4 DEF HeapInv, Bit
<1>6. r \in [type : {"node", "alias"}, value : 1..Len(node)]
  BY <1>5 DEF HeapRecord, NoPointer, EmptyRecord, DataRecord
<1>7. r = NodeRecord(r.value) /\ r.value \in 1..Len(node)
  BY <1>5, <1>6 DEF NodeRecord
<1>8. Leads(Zeros, Ipv4Bits, NodeRecord(r.value))
  BY <1>1, <1>2, <1>4, <1>7, ZerosProperties DEF Leads
<1>9. AliasCalls = [k \in 1..Len(Ipv4Aliases) |-> AliasCall(k, r.value)]
  BY <1>1, <1>4 DEF AliasCalls, AliasCall, Zeros
<1>. QED
  BY <1>7, <1>8, <1>9

LEMMA LeadsSame ==
  ASSUME UNCHANGED node, NEW a, NEW n, NEW r, Leads(a, n, r)
  PROVE  Leads(a, n, r)'
<1>1. Way(a)' = Way(a) /\ OwnWay(a, n-1)'
  BY WaySame, OwnWaySame DEF Leads
<1>. QED
  BY <1>1 DEF Leads

\* The node of the IPv4 network is one.
LEMMA OneIpv4Node ==
  ASSUME NEW i, NEW j, Leads(Zeros, Ipv4Bits, NodeRecord(i)),
         Leads(Zeros, Ipv4Bits, NodeRecord(j))
  PROVE  i = j
BY DEF Leads, NodeRecord

\* The calls that alias_ipv4_networks makes.
LEMMA AliasesPendingSet ==
  ASSUME AliasesApart, Ipv4Aliases # <<>>, HeapInv, HasIpv4Node, AliasIpv4Networks,
         UNCHANGED is_finalized, OwnWay(Zeros, Ipv4Bits - 1),
         \A k \in 1..Len(Ipv4Aliases) : OwnWay(Ipv4Aliases[k][1], Ipv4Aliases[k][2] - 1),
         is_finalized =>
           \E i : /\ Leads(Zeros, Ipv4Bits, NodeRecord(i))
                  /\ \A k \in 1..Len(Ipv4Aliases) : AliasSet(k, i)
  PROVE  Aliasing'
<1>1. PICK i \in 1..Len(node) :
        /\ Leads(Zeros, Ipv4Bits, NodeRecord(i))
        /\ AliasCalls = [k \in 1..Len(Ipv4Aliases) |-> AliasCall(k, i)]
  BY Ipv4Leads
<1>2. UNCHANGED node /\ calls' = [k \in 1..Len(Ipv4Aliases) |-> AliasCall(k, i)]
  BY <1>1 DEF AliasIpv4Networks
<1>3. Len(Ipv4Aliases) \in Nat
  BY HeapAssumption
<1>4. PICK calls2 : calls2 = calls'
  OBVIOUS
<1>5. Len(calls2) = Len(Ipv4Aliases) /\ \A k \in 1..Len(calls2) : calls2[k] = AliasCall(k, i)
  BY <1>2, <1>3, <1>4
<1>6. ASSUME NEW k \in 1..Len(calls2)
      PROVE  /\ k \in 1..Len(Ipv4Aliases)
             /\ calls2[k].bytes = Ipv4Aliases[k][1]
             /\ Depth(calls2[k].mask) = Ipv4Aliases[k][2]
             /\ ~calls2[k].merge /\ calls2[k].new.type = "alias"
  <2>1. k \in 1..Len(Ipv4Aliases) /\ calls2[k] = AliasCall(k, i)
    BY <1>5
  <2>2. Depth(Ipv4Aliases[k][2]) = Ipv4Aliases[k][2]
    BY <2>1, AliasNetworks
  <2>. QED
    BY <2>1, <2>2 DEF AliasCall, AliasRecord
<1>7. CallsOwn'
  <2>1. ASSUME NEW k \in 1..Len(calls2)
        PROVE  OwnWay(calls2[k].bytes, Depth(calls2[k].mask) - 1)'
    <3>1. PICK a, n : a = calls2[k].bytes /\ n = Depth(calls2[k].mask) - 1
      OBVIOUS
    <3>2. OwnWay(a, n)
      BY <1>6, <3>1
    <3>. QED
      BY <1>2, <3>1, <3>2, OwnWaySame
  <2>. QED
    BY <1>4, <2>1 DEF CallsOwn
<1>8. AliasesPending'
  <2>1. \A k, l \in 1..Len(calls2) :
          k < l => ~Covers(calls2[k].bytes, Depth(calls2[k].mask), calls2[l].bytes)
    BY <1>6 DEF AliasesApart
  <2>. QED
    BY <1>4, <1>6, <2>1 DEF AliasesPending
<1>9. AliasedFrom(i, 0)'
  <2>1. Leads(Zeros, Ipv4Bits, NodeRecord(i))'
    BY <1>1, <1>2, LeadsSame
  <2>2. ASSUME NEW k \in 1..Len(Ipv4Aliases), k <= 0 \/ is_finalized
        PROVE  AliasSet(k, i)'
    <3>1. AliasSet(k, i)
      BY <1>1, <2>2, OneIpv4Node
    <3>. QED
      BY <1>2, <3>1, LeadsSame DEF AliasSet
  <2>3. Len(calls2) = Len(Ipv4Aliases) - 0 /\ \A k \in 1..Len(calls2) : calls2[k] = AliasCall(0 + k, i)
    BY <1>3, <1>5
  <2>. QED
    BY <1>4, <2>1, <2>2, <2>3 DEF AliasedFrom, AliasCall, AliasRecord
<1>10. 0 \in 0..Len(Ipv4Aliases) /\ i \in 1..Len(node')
  BY <1>2, <1>3
<1>. QED
  BY <1>7, <1>8, <1>9, <1>10 DEF Aliasing

\* A step sets an alias record, or makes a node on the way to one.  Where nodes are
\* numbered it does neither: the record is there already.
LEMMA AliasSteps ==
  ASSUME AliasesApart, HeapInv, Aliasing, Step, UNCHANGED is_finalized
  PROVE  Aliasing' /\ (is_finalized => UNCHANGED node)
<1>1. /\ HeapInv' /\ CallsOwn' /\ AliasesPending' /\ Running
      /\ OwnWay(Current.bytes, Depth(Current.mask) - 1)
      /\ MakeNextNode \/ SetRecord
      /\ NewRecord = Current.new
  BY PendingStep DEF Aliasing
<1>2. PICK i \in 1..Len(node), m \in 0..Len(Ipv4Aliases) : AliasedFrom(i, m)
  BY DEF Aliasing
<1>3. /\ Leads(Zeros, Ipv4Bits, NodeRecord(i))
      /\ Len(calls) = Len(Ipv4Aliases) - m
      /\ \A k \in 1..Len(calls) : calls[k] = AliasCall(m + k, i)
      /\ \A k \in 1..Len(Ipv4Aliases) : k <= m \/ is_finalized => AliasSet(k, i)
  BY <1>2 DEF AliasedFrom
<1>4. /\ Current = calls[1] /\ 1 \in 1..Len(calls) /\ Len(calls) \in Nat
      /\ Len(Tail(calls)) = Len(calls) - 1
      /\ \A k \in 1..Len(Tail(calls)) : Tail(calls)[k] = calls[k+1]
  BY <1>1, HeadTailProperties, LenProperties DEF HeapInv, Running, Current
<1>5. m + 1 \in 1..Len(Ipv4Aliases) /\ Len(Ipv4Aliases) \in Nat /\ m \in Nat
  BY <1>3, <1>4, HeapAssumption
<1>6. PICK a, n : a = Ipv4Aliases[m+1][1] /\ n = Ipv4Aliases[m+1][2]
  OBVIOUS
<1>7. /\ Current.bytes = a /\ Depth(Current.mask) = n /\ Current.new = AliasRecord(i)
      /\ a \in Address /\ n \in 1..Width
  <2>1. Current = AliasCall(m + 1, i)
    BY <1>3, <1>4
  <2>2. a \in Address /\ n \in 1..Width /\ Depth(n) = n
    BY <1>5, <1>6, AliasNetworks
  <2>. QED
    BY <1>6, <2>1, <2>2 DEF AliasCall
<1>8. Points(AliasRecord(i)) /\ Points(NodeRecord(i))
  BY DEF Points, AliasRecord, NodeRecord
<1>9. ASSUME NEW k \in 1..Len(Ipv4Aliases)
      PROVE  Ipv4Aliases[k][1] \in Address /\ Ipv4Aliases[k][2] \in 1..Width
  BY AliasNetworks
<1>10. CASE MakeNextNode
  <2>1. PICK l : MakesNode(l)
    BY <1>10, MakeNextNodeMakes
  <2>2. UNCHANGED calls /\ Len(node') = Len(node) + 1 /\ Len(node) \in Nat
    BY <1>10, <2>1 DEF MakeNextNode, MakesNode, HeapInv
  <2>3. ~is_finalized
    <3>. SUFFICES ASSUME is_finalized PROVE FALSE
      OBVIOUS
    <3>1. Leads(a, n, AliasRecord(i))
      BY <1>3, <1>5, <1>6 DEF AliasSet
    <3>2. l \in 1 .. n - 1 /\ ~Points(node[Way(a)[l-1]][a[l]])
      BY <1>7, <2>1 DEF MakesNode
    <3>3. l \in 1 .. Width - 1 /\ l \in 0 .. Width - 1 /\ l # 0 /\ n - 1 \in l .. Width - 1
      BY <1>7, <3>2, WidthAssumption
    <3>4. Way(a)[l] = Down(Way(a)[l-1], a[l])
      BY <1>7, <3>3, WaySteps DEF WaysGoDown
    <3>5. Way(a)[l] = 0
      BY <3>2, <3>4 DEF Down
    <3>6. Way(a)[n-1] = 0
      BY <1>7, <3>3, <3>5, WayEnds
    <3>. QED
      BY <3>1, <3>6 DEF Leads
  <2>4. Leads(Zeros, Ipv4Bits, NodeRecord(i))'
    BY <1>1, <1>3, <1>8, <1>10, ZerosProperties, MakeNextNodeLeads
  <2>5. ASSUME NEW k \in 1..Len(Ipv4Aliases), k <= m
        PROVE  AliasSet(k, i)'
    <3>1. Leads(Ipv4Aliases[k][1], Ipv4Aliases[k][2], AliasRecord(i))
      BY <1>3, <2>5 DEF AliasSet
    <3>2. Leads(Ipv4Aliases[k][1], Ipv4Aliases[k][2], AliasRecord(i))'
      BY <1>1, <1>8, <1>9, <1>10, <3>1, MakeNextNodeLeads
    <3>. QED
      BY <3>2 DEF AliasSet
  <2>6. AliasedFrom(i, m)'
    BY <1>3, <2>2, <2>3, <2>4, <2>5 DEF AliasedFrom, AliasCall, AliasRecord
  <2>7. i \in 1..Len(node')
    BY <2>2
  <2>. QED
    BY <1>1, <2>3, <2>6, <2>7 DEF Aliasing
<1>11. CASE SetRecord
  <2>1. calls' = Tail(calls)
    BY <1>11 DEF SetRecord
  <2>2. Leads(a, n, AliasRecord(i))'
    BY <1>1, <1>7, <1>11, SetRecordLeadsTo
  <2>3. Leads(Zeros, Ipv4Bits, NodeRecord(i))'
    <3>1. ~Covers(Current.bytes, Depth(Current.mask), Zeros)
      BY <1>5, <1>6, <1>7 DEF AliasesApart
    <3>. QED
      BY <1>1, <1>3, <1>11, <3>1, ZerosProperties, SetRecordLeads
  <2>4. ASSUME NEW k \in 1..Len(Ipv4Aliases), k <= m + 1 \/ is_finalized
        PROVE  AliasSet(k, i)'
    <3>1. CASE k = m + 1
      BY <1>6, <2>2, <3>1 DEF AliasSet
    <3>2. CASE k # m + 1
      <4>1. k <= m \/ is_finalized
        BY <1>5, <2>4, <3>2
      <4>2. Leads(Ipv4Aliases[k][1], Ipv4Aliases[k][2], AliasRecord(i))
        BY <1>3, <4>1 DEF AliasSet
      <4>3. ~Covers(Current.bytes, Depth(Current.mask), Ipv4Aliases[k][1])
        BY <1>5, <1>6, <1>7, <3>2 DEF AliasesApart
      <4>4. Leads(Ipv4Aliases[k][1], Ipv4Aliases[k][2], AliasRecord(i))'
        BY <1>1, <1>9, <1>11, <4>2, <4>3, SetRecordLeads
      <4>. QED
        BY <4>4 DEF AliasSet
    <3>. QED
      BY <3>1, <3>2
  <2>5. PICK calls2 : calls2 = calls'
    OBVIOUS
  <2>6. Len(calls2) = Len(Ipv4Aliases) - (m + 1)
    BY <1>3, <1>4, <1>5, <2>1, <2>5
  <2>7. ASSUME NEW k \in 1..Len(calls2) PROVE calls2[k] = AliasCall(m + 1 + k, i)
    <3>1. calls2[k] = calls[k+1] /\ k + 1 \in 1..Len(calls) /\ m + (k + 1) = m + 1 + k
      BY <1>4, <1>5, <2>1, <2>5
    <3>2. calls[k+1] = AliasCall(m + (k + 1), i)
      BY <1>3, <3>1
    <3>. QED
      BY <3>1, <3>2
  <2>8. AliasedFrom(i, m + 1)'
    BY <2>3, <2>4, <2>5, <2>6, <2>7 DEF AliasedFrom, AliasCall, AliasRecord
  <2>9. i \in 1..Len(node') /\ m + 1 \in 0..Len(Ipv4Aliases)
    BY <1>5, <1>11, SetRecordSets
  <2>10. ASSUME is_finalized PROVE UNCHANGED node
    <3>1. Leads(a, n, AliasRecord(i))
      BY <1>3, <1>5, <1>6, <2>10 DEF AliasSet
    <3>2. PICK w : w = NodeToSet
      OBVIOUS
    <3>3. w \in 1..Len(node) /\ w = Way(a)[n-1] /\ a[n] \in Bit /\ Side = a[n]
      BY <1>7, <1>11, <3>2, SetRecordSets DEF Side
    <3>4. node[w][a[n]] = AliasRecord(i)
      BY <3>1, <3>3 DEF Leads
    <3>5. node' = [node EXCEPT ![w][a[n]] = AliasRecord(i)]
      BY <1>1, <1>7, <1>11, <3>2, <3>3 DEF SetRecord
    <3>6. node \in [1..Len(node) -> [Bit -> HeapRecord]]
      BY DEF HeapInv
    <3>. QED
      BY <3>3, <3>4, <3>5, <3>6
  <2>. QED
    BY <1>1, <2>8, <2>9, <2>10 DEF Aliasing
<1>. QED
  BY <1>1, <1>10, <1>11

-------------------------------------------------------------------------------
(* Calls *)

LEMMA InsertingSame ==
  ASSUME Inserting, UNCHANGED heapVars
  PROVE  Inserting'
<1>0. InsertInv /\ Places!MapInv /\ GapEmpty
  BY DEF Inserting
<1>1. InsertInv'
  BY <1>0, GapInsertMaps
<1>2. RecordMap' = RecordMap /\ CallsOf(calls)' = CallsOf(calls)
  BY RecordMapSame DEF heapVars, CallsOf
<1>3. UNCHANGED Places!vars
  BY <1>2 DEF Places!vars
<1>4. Places!MapInv' /\ Places!Kept
  BY <1>0, <1>3, PlacesAssumed, Places!MapInvSame DEF PlacesAssumption
<1>5. GapEmpty'
  BY <1>0, <1>4, SameNetworks DEF GapEmpty, Gap, Places!Kept
<1>. QED
  BY <1>1, <1>4, <1>5 DEF Inserting

LEMMA AliasingSame ==
  ASSUME AliasesApart, HeapInv, Aliasing, UNCHANGED heapVars,
         calls = <<>> \/ UNCHANGED is_finalized
  PROVE  Aliasing'
<1>1. UNCHANGED <<node, calls>>
  BY DEF heapVars
<1>2. CallsOwn' /\ AliasesPending' /\ Ipv4Aliases # <<>>
  <2>1. CallsOwn'
    BY <1>1, WaySame DEF Aliasing, CallsOwn, OwnWay
  <2>2. AliasesPending' /\ Ipv4Aliases # <<>>
    BY <1>1 DEF Aliasing, AliasesPending
  <2>. QED
    BY <2>1, <2>2
<1>3. \A k \in 1..Len(Ipv4Aliases) : \A i : AliasSet(k, i) => AliasSet(k, i)'
  BY <1>1, LeadsSame DEF AliasSet
<1>4. \A i : Leads(Zeros, Ipv4Bits, NodeRecord(i)) => Leads(Zeros, Ipv4Bits, NodeRecord(i))'
  BY <1>1, LeadsSame
<1>5. CASE calls = <<>>
  <2>1. PICK i \in 1..Len(node) :
          /\ Leads(Zeros, Ipv4Bits, NodeRecord(i))
          /\ \A k \in 1..Len(Ipv4Aliases) : AliasSet(k, i)
    BY <1>5, AliasesAreSet
  <2>2. Len(Ipv4Aliases) \in Nat /\ Len(calls) = 0
    BY <1>5, HeapAssumption
  <2>3. AliasedFrom(i, Len(Ipv4Aliases))'
    BY <1>1, <1>3, <1>4, <2>1, <2>2 DEF AliasedFrom
  <2>4. i \in 1..Len(node') /\ Len(Ipv4Aliases) \in 0..Len(Ipv4Aliases)
    BY <1>1, <2>2
  <2>. QED
    BY <1>2, <2>3, <2>4 DEF Aliasing
<1>6. CASE UNCHANGED is_finalized
  <2>1. PICK i \in 1..Len(node), m \in 0..Len(Ipv4Aliases) : AliasedFrom(i, m)
    BY DEF Aliasing
  <2>2. AliasedFrom(i, m)'
    BY <1>1, <1>3, <1>4, <1>6, <2>1 DEF AliasedFrom, AliasCall, AliasRecord
  <2>. QED
    BY <1>1, <1>2, <2>1, <2>2 DEF Aliasing
<1>. QED
  BY <1>5, <1>6

\* A call that leaves the tree alone.
LEMMA TreeSame ==
  ASSUME AliasesApart, LifecycleInv, op # "insert", UNCHANGED heapVars,
         op' \in {"none", "alias", "write"}, calls = <<>>, is_finalized' => NumbersOK'
  PROVE  LifecycleInv'
<1>1. HeapInv'
  BY HeapInvNext DEF LifecycleInv
<1>2. calls' = <<>>
  BY DEF heapVars
<1>3. Inserting' \/ Aliasing'
  BY InsertingSame, AliasingSame DEF LifecycleInv
<1>. QED
  BY <1>1, <1>2, <1>3 DEF LifecycleInv

LEMMA NumbersSame ==
  ASSUME NumbersOK, UNCHANGED <<node, number, node_count>>
  PROVE  NumbersOK'
<1>1. Preorder' = Preorder
  BY ZenonT(30) DEF Preorder
<1>. QED
  BY <1>1 DEF NumbersOK

LEMMA BeginInsertKeeps ==
  ASSUME AliasesApart, LeavesGap, IsCareful, LifecycleInv, BeginInsert
  PROVE  LifecycleInv'
<1>1. PICK net \in Insertable, data \in Inputs :
        CarefulInsert(net, data) /\ InsertNetwork(net[1], net[2], data)
  BY DEF BeginInsert
<1>2. /\ op = "none" /\ op' = "insert" /\ calls = <<>> /\ UNCHANGED <<number, is_finalized, node_count>>
  BY DEF BeginInsert, LifecycleInv, Idle, numbering
<1>3. ~HasAliases /\ (is_finalized => ~Fails(net, data))
  BY <1>1 DEF CarefulInsert, IsCareful
<1>4. Inserting
  BY <1>2, <1>3, AliasesAreSet DEF LifecycleInv
<1>5. Inserting' /\ Places!Inserted(net[1], net[2], data)
  BY <1>1, <1>4, InsertInserts
<1>6. is_finalized' => NoneClashes'
  BY <1>2, <1>3, <1>4, <1>5, NothingWillClash
<1>7. HeapInv'
  BY <1>5 DEF Inserting, InsertInv
<1>. QED
  BY <1>2, <1>5, <1>6, <1>7 DEF LifecycleInv

LEMMA ClashesSame ==
  ASSUME Inserting, NoneClashes, UNCHANGED heapVars
  PROVE  NoneClashes'
<1>1. RecordMap' = RecordMap /\ CallsOf(calls)' = CallsOf(calls)
  BY RecordMapSame DEF heapVars, CallsOf
<1>2. UNCHANGED Places!vars
  BY <1>1 DEF Places!vars
<1>3. Places!Kept
  BY <1>2, PlacesAssumed, Places!MapInvSame DEF PlacesAssumption, Inserting
<1>. QED
  BY <1>3, SameNetworks DEF NoneClashes, Places!Kept

LEMMA BeginAliasKeeps ==
  ASSUME AliasesApart, IsCareful, LifecycleInv, Idle, CarefulAlias, BeginAlias,
         op' \in {"alias", "write"}
  PROVE  LifecycleInv'
<1>1. /\ op = "none" /\ calls = <<>> /\ HeapInv
      /\ UNCHANGED <<number, is_finalized, node_count>>
  BY DEF BeginAlias, LifecycleInv, Idle, numbering
<1>2. UNCHANGED node
  BY DEF BeginAlias, AliasIpv4Networks, heapVars
<1>3. is_finalized' => NumbersOK'
  BY <1>1, <1>2, NumbersSame DEF LifecycleInv
<1>4. CASE UNCHANGED calls
  BY <1>1, <1>2, <1>3, <1>4, TreeSame DEF heapVars
<1>5. CASE HasIpv4Node /\ AliasIpv4Networks /\ Ipv4Aliases # <<>>
  <2>1. HeapInv'
    BY <1>1, <1>5, HeapInvNext DEF AliasNext
  <2>2. CASE Inserting
    <3>1. NoAlias
      BY <2>2 DEF Inserting, InsertInv
    <3>2. ~HasAliases
      BY <3>1 DEF NoAlias, HasAliases
    <3>3. ~is_finalized
      BY <1>5, <3>2 DEF CarefulAlias, IsCareful
    <3>4. OwnWay(Zeros, Ipv4Bits - 1)
      BY <1>1, <3>1, ZerosProperties, NoAliasOwnWay
    <3>5. ASSUME NEW k \in 1..Len(Ipv4Aliases)
          PROVE  OwnWay(Ipv4Aliases[k][1], Ipv4Aliases[k][2] - 1)
      <4>1. Ipv4Aliases[k][1] \in Address /\ Ipv4Aliases[k][2] - 1 \in 0..Width
        BY AliasNetworks, WidthAssumption
      <4>. QED
        BY <1>1, <3>1, <4>1, NoAliasOwnWay
    <3>6. Aliasing'
      BY <1>1, <1>5, <3>3, <3>4, <3>5, AliasesPendingSet
    <3>. QED
      BY <1>1, <1>3, <2>1, <3>6 DEF LifecycleInv
  <2>3. CASE Aliasing
    <3>1. PICK i \in 1..Len(node) :
            /\ Leads(Zeros, Ipv4Bits, NodeRecord(i))
            /\ \A k \in 1..Len(Ipv4Aliases) : AliasSet(k, i)
      BY <1>1, <2>3, AliasesAreSet
    <3>2. OwnWay(Zeros, Ipv4Bits - 1)
      BY <3>1 DEF Leads
    <3>3. \A k \in 1..Len(Ipv4Aliases) : OwnWay(Ipv4Aliases[k][1], Ipv4Aliases[k][2] - 1)
      BY <3>1 DEF AliasSet, Leads
    <3>4. Aliasing'
      BY <1>1, <1>5, <3>1, <3>2, <3>3, AliasesPendingSet
    <3>. QED
      BY <1>1, <1>3, <2>1, <3>4 DEF LifecycleInv
  <2>. QED
    BY <1>1, <2>2, <2>3 DEF LifecycleInv
<1>6. HasIpv4Node /\ AliasIpv4Networks /\ Ipv4Aliases = <<>> => UNCHANGED calls
  <2>. SUFFICES ASSUME AliasIpv4Networks, Ipv4Aliases = <<>> PROVE UNCHANGED calls
    OBVIOUS
  <2>1. Len(Ipv4Aliases) = 0
    OBVIOUS
  <2>2. AliasCalls = <<>>
    BY <2>1 DEF AliasCalls
  <2>. QED
    BY <1>1, <2>2 DEF AliasIpv4Networks
<1>. QED
  BY <1>4, <1>5, <1>6 DEF BeginAlias, heapVars

LEMMA TreeStepKeeps ==
  ASSUME AliasesApart, LifecycleInv, TreeStep
  PROVE  LifecycleInv'
<1>1. /\ Step /\ HeapInv
      /\ number' = [i \in 1..Len(node') |-> IF i \in DOMAIN number THEN number[i] ELSE 0]
      /\ UNCHANGED <<is_finalized, node_count, op>>
  BY DEF TreeStep, HeapStep, Step, LifecycleInv
<1>2. calls # <<>> /\ op # "none"
  BY DEF TreeStep, HeapStep, MakeNextNode, MergeIntoNode, InsertIntoParent, SetRecord, Found,
         Running, LifecycleInv
<1>3. HeapInv'
  BY <1>1, HeapInvNext DEF AliasNext
<1>4. CASE op = "insert"
  BY <1>1, <1>2, <1>3, <1>4, InsertSteps DEF LifecycleInv
<1>5. CASE op # "insert"
  <2>1. Aliasing' /\ (is_finalized => UNCHANGED node)
    BY <1>1, <1>2, <1>5, AliasSteps DEF LifecycleInv
  <2>2. ASSUME is_finalized PROVE NumbersOK'
    <3>1. NumbersOK /\ UNCHANGED node
      BY <1>5, <2>1, <2>2 DEF LifecycleInv
    <3>2. Preorder' = Preorder
      BY <3>1, ZenonT(30) DEF Preorder
    <3>3. PICK order : order = Preorder
      OBVIOUS
    <3>4. order \in Seq(1..Len(node))
      BY <1>1, <3>3, OrderIsWalk
    <3>5. \A k \in 1..Len(order) : number'[order[k]] = number[order[k]]
      BY <1>1, <3>1, <3>4 DEF NumbersOK
    <3>6. DOMAIN number' = 1..Len(node')
      BY <1>1
    <3>. QED
      BY <1>1, <3>1, <3>2, <3>3, <3>5, <3>6 DEF NumbersOK
  <2>. QED
    BY <1>1, <1>2, <1>3, <1>5, <2>1, <2>2 DEF LifecycleInv
<1>. QED
  BY <1>4, <1>5

LEMMA InsertFailsKeeps ==
  ASSUME LifecycleInv, InsertFails
  PROVE  LifecycleInv'
<1>1. /\ Croak /\ Step /\ calls # <<>> /\ calls' = <<>> /\ op' = "none" /\ HeapInv
      /\ UNCHANGED <<node, is_finalized>>
  BY DEF InsertFails, Croak, Step, Found, Running, LifecycleInv, numbering
<1>2. op = "insert"
  <2>. SUFFICES ASSUME Aliasing PROVE FALSE
    BY <1>1 DEF LifecycleInv
  <2>1. ~Croak
    <3>1. MakeNextNode \/ SetRecord
      BY <1>1, PendingStep DEF Aliasing
    <3>2. Current.merge
      BY <1>1 DEF Croak, Croaks, Descends, Merges
    <3>3. Current = calls[1] /\ 1 \in 1..Len(calls)
      BY <1>1, HeadTailProperties, LenProperties DEF HeapInv, Current
    <3>. QED
      BY <3>2, <3>3 DEF Aliasing, AliasesPending
  <2>. QED
    BY <1>1, <2>1
<1>3. Inserting' /\ ~is_finalized
  BY <1>1, <1>2, InsertSteps DEF LifecycleInv
<1>4. HeapInv'
  BY <1>3 DEF Inserting, InsertInv
<1>. QED
  BY <1>1, <1>3, <1>4 DEF LifecycleInv

LEMMA LifecycleInvNext ==
  ASSUME AliasesApart, LeavesGap, IsCareful, LifecycleInv, [Next]_vars
  PROVE  LifecycleInv'
<1>0. /\ HeapInv /\ op \in {"none", "insert", "alias", "write"}
      /\ op = "none" => calls = <<>>
      /\ is_finalized /\ op # "insert" => NumbersOK
  BY DEF LifecycleInv
<1>1. CASE BeginInsert
  BY <1>1, BeginInsertKeeps
<1>2. CASE EndInsert
  <2>1. Inserting /\ calls = <<>> /\ op' = "none" /\ ~is_finalized' /\ UNCHANGED heapVars
    BY <1>2 DEF EndInsert, Unfinalize, Running, LifecycleInv
  <2>2. Inserting' /\ calls' = <<>>
    BY <2>1, InsertingSame DEF heapVars
  <2>3. HeapInv'
    BY <2>2 DEF Inserting, InsertInv
  <2>. QED
    BY <2>1, <2>2, <2>3 DEF LifecycleInv
<1>3. CASE InsertFails
  BY <1>3, InsertFailsKeeps
<1>4. CASE TreeStep
  BY <1>4, TreeStepKeeps
<1>5. CASE CreateIpv4Aliases
  BY <1>5, BeginAliasKeeps DEF CreateIpv4Aliases
<1>6. CASE EndAlias
  <2>1. op # "insert" /\ calls = <<>> /\ op' = "none" /\ UNCHANGED <<heapVars, numbering>>
    BY <1>6 DEF EndAlias, Running
  <2>2. is_finalized' => NumbersOK'
    BY <1>0, <2>1, NumbersSame DEF heapVars, numbering
  <2>. QED
    BY <2>1, <2>2, TreeSame
<1>7. ASSUME Finalize, UNCHANGED heapVars, op # "insert", calls = <<>>,
             op' \in {"none", "alias", "write"}
      PROVE  LifecycleInv'
  <2>1. NumbersOK'
    BY <1>0, <1>7, FinalizeNumbers DEF heapVars
  <2>. QED
    BY <1>7, <2>1, TreeSame
<1>8. CASE Iterate
  BY <1>0, <1>7, <1>8 DEF Iterate, Idle
<1>9. CASE BuildNodeCount
  BY <1>0, <1>7, <1>9 DEF BuildNodeCount, Idle
<1>10. CASE WriteTree
  <2>1. Idle /\ op' = "write" /\ op = "none"
    BY <1>10 DEF WriteTree, Idle
  <2>2. CASE AliasIpv6ToIpv4
    BY <1>10, <2>1, <2>2, BeginAliasKeeps DEF WriteTree
  <2>3. CASE ~AliasIpv6ToIpv4
    <3>1. UNCHANGED <<heapVars, number, is_finalized, node_count>>
      BY <1>10, <2>3 DEF WriteTree
    <3>2. is_finalized' => NumbersOK'
      BY <1>0, <2>1, <3>1, NumbersSame DEF heapVars
    <3>. QED
      BY <1>0, <2>1, <3>1, <3>2, TreeSame
  <2>. QED
    BY <2>2, <2>3
<1>11. CASE FinishWrite \/ WriteDies
  BY <1>7, <1>11 DEF FinishWrite, WriteDies, Running
<1>12. CASE UNCHANGED vars
  <2>1. UNCHANGED <<heapVars, numbering, op>>
    BY <1>12 DEF vars
  <2>2. CASE op = "insert"
    <3>1. Inserting'
      BY <2>1, <2>2, InsertingSame DEF LifecycleInv
    <3>2. NoneClashes => NoneClashes'
      BY <2>1, <2>2, ClashesSame DEF LifecycleInv
    <3>3. HeapInv'
      BY <3>1 DEF Inserting, InsertInv
    <3>. QED
      BY <2>1, <2>2, <3>1, <3>2, <3>3 DEF LifecycleInv, numbering
  <2>3. CASE op # "insert"
    <3>1. HeapInv' /\ UNCHANGED <<node, calls, number, is_finalized, node_count>>
      BY <1>0, <2>1, HeapInvNext DEF heapVars, numbering
    <3>2. Inserting => Inserting'
      BY <2>1, InsertingSame
    <3>3. Aliasing => Aliasing'
      BY <1>0, <2>1, <3>1, AliasingSame
    <3>4. NumbersOK => NumbersOK'
      BY <3>1, NumbersSame
    <3>. QED
      BY <2>1, <2>3, <3>1, <3>2, <3>3, <3>4 DEF LifecycleInv
  <2>. QED
    BY <2>2, <2>3
<1>. QED
  BY <1>1, <1>2, <1>3, <1>4, <1>5, <1>6, <1>8, <1>9, <1>10, <1>11, <1>12 DEF Next

\* A tree that is marked finalized is numbered: by inserts that return, aliasing,
\* counting, iterating and writing in any careful order, and by writes that die, no
\* file, iteration or count is ever made of numbers that are out of date.
THEOREM FinalizedNumbered ==
  AliasesApart /\ LeavesGap /\ IsCareful => (Spec => []FinalizedIsNumbered)
<1>. SUFFICES ASSUME AliasesApart, LeavesGap, IsCareful PROVE Spec => []FinalizedIsNumbered
  OBVIOUS
<1>1. LifecycleInv /\ [Next]_vars => LifecycleInv'
  BY LifecycleInvNext
<1>2. LifecycleInv => FinalizedIsNumbered
  BY DEF LifecycleInv, NumbersOK, FinalizedIsNumbered, Idle
<1>. QED
  BY <1>1, <1>2, InitLifecycle, PTL DEF Spec
-------------------------------------------------------------------------------
(* The nodes in a file *)

LEMMA DivMod ==
  ASSUME NEW x \in Nat, NEW b \in Nat \ {0}
  PROVE  x \div b \in Nat /\ x % b \in 0 .. b-1 /\ x = (x \div b) * b + (x % b)
OBVIOUS

LEMMA DivModUnique ==
  ASSUME NEW q \in Nat, NEW b \in Nat \ {0}, NEW r \in 0 .. b-1
  PROVE  q * b + r \in Nat /\ (q * b + r) \div b = q /\ (q * b + r) % b = r
OBVIOUS

LEMMA TimesMonotonic ==
  ASSUME NEW a \in Nat, NEW b \in Nat, NEW c \in Nat, a <= b
  PROVE  a * c <= b * c
OBVIOUS

LEMMA DivLess ==
  ASSUME NEW x \in Nat, NEW b \in Nat \ {0}, NEW y \in Nat, x < y * b
  PROVE  x \div b < y
<1>1. PICK q, r : q = x \div b /\ r = x % b
  OBVIOUS
<1>2. q \in Nat /\ r \in 0 .. b-1 /\ x = q * b + r
  BY <1>1, DivMod
<1>3. CASE ~(q < y)
  <2>1. y * b <= q * b
    BY <1>2, <1>3, TimesMonotonic
  <2>2. y * b \in Nat /\ q * b \in Nat
    BY <1>2
  <2>. QED
    BY <1>2, <2>1, <2>2
<1>. QED
  BY <1>1, <1>3

LEMMA ByteType == /\ Nibble \in Nat \ {0} /\ Byte \in Nat \ {0} /\ Byte = Nibble * Nibble
                  /\ Nibble <= Byte
<1>1. Nibble \in Nat /\ Nibble >= 2
  BY NibbleAssumption
<1>2. Nibble * Nibble \in Nat /\ Nibble * Nibble >= Nibble
  BY <1>1
<1>. QED
  BY <1>1, <1>2 DEF Byte

\* htonl takes a value apart from its low byte on.
LEMMA BytesAre ==
  ASSUME NEW v \in Nat
  PROVE  \E q1, q2, q3 \in Nat :
           /\ q1 = v \div Byte /\ q2 = q1 \div Byte /\ q3 = q2 \div Byte
           /\ Bytes(v) = <<q3 % Byte, q2 % Byte, q1 % Byte, v % Byte>>
<1>. DEFINE rest[k \in 0..3] == IF k = 0 THEN v ELSE rest[k-1] \div Byte
<1>1. Bytes(v) = [i \in 1..4 |-> rest[4-i] % Byte]
  BY DEF Bytes
<1>2. \E f : f = [k \in 0..3 |-> IF k = 0 THEN v ELSE f[k-1] \div Byte]
  <2>1. PICK q1, q2, q3 : q1 = v \div Byte /\ q2 = q1 \div Byte /\ q3 = q2 \div Byte
    OBVIOUS
  <2>. DEFINE f == [k \in 0..3 |-> IF k = 0 THEN v ELSE IF k = 1 THEN q1
                                   ELSE IF k = 2 THEN q2 ELSE q3]
  <2>2. f[0] = v /\ f[1] = q1 /\ f[2] = q2 /\ f[3] = q3
    OBVIOUS
  <2>3. f = [k \in 0..3 |-> f[k]]
    OBVIOUS
  <2>. HIDE DEF f
  <2>4. \A k \in 0..3 : f[k] = IF k = 0 THEN v ELSE f[k-1] \div Byte
    <3>. TAKE k \in 0..3
    <3>1. k = 0 \/ (k = 1 /\ k-1 = 0) \/ (k = 2 /\ k-1 = 1) \/ (k = 3 /\ k-1 = 2)
      OBVIOUS
    <3>. QED
      BY <2>1, <2>2, <3>1
  <2>5. f = [k \in 0..3 |-> IF k = 0 THEN v ELSE f[k-1] \div Byte]
    BY <2>3, <2>4
  <2>. QED
    BY <2>5
<1>3. rest = [k \in 0..3 |-> IF k = 0 THEN v ELSE rest[k-1] \div Byte]
  BY <1>2
<1>. HIDE DEF rest
<1>4. \A k \in 0..3 : rest[k] = IF k = 0 THEN v ELSE rest[k-1] \div Byte
  BY <1>3
<1>5. rest[0] = v /\ rest[1] = rest[0] \div Byte /\ rest[2] = rest[1] \div Byte
      /\ rest[3] = rest[2] \div Byte
  <2>1. 1 - 1 = 0 /\ 2 - 1 = 1 /\ 3 - 1 = 2
    OBVIOUS
  <2>. QED
    BY <1>4, <2>1
<1>6. PICK q1, q2, q3 : q1 = rest[1] /\ q2 = rest[2] /\ q3 = rest[3]
  OBVIOUS
<1>7. q1 \in Nat /\ q2 \in Nat /\ q3 \in Nat
  <2>1. q1 \in Nat
    BY <1>5, <1>6, ByteType, DivMod
  <2>2. q2 \in Nat
    BY <1>5, <1>6, <2>1, ByteType, DivMod
  <2>. QED
    BY <1>5, <1>6, <2>2, ByteType, DivMod
<1>8. Bytes(v) = <<q3 % Byte, q2 % Byte, q1 % Byte, v % Byte>>
  <2>1. PICK t : t = <<q3 % Byte, q2 % Byte, q1 % Byte, v % Byte>>
    OBVIOUS
  <2>2. t = [i \in 1..4 |-> t[i]]
    BY <2>1
  <2>3. ASSUME NEW i \in 1..4 PROVE rest[4-i] % Byte = t[i]
    <3>1. (i = 1 /\ 4-i = 3) \/ (i = 2 /\ 4-i = 2) \/ (i = 3 /\ 4-i = 1) \/ (i = 4 /\ 4-i = 0)
      OBVIOUS
    <3>. QED
      BY <1>5, <1>6, <2>1, <3>1
  <2>. QED
    BY <1>1, <2>1, <2>2, <2>3
<1>. QED
  BY <1>5, <1>6, <1>7, <1>8

\* A string of n bytes, and one after another.
IsString(s, n) == n \in Nat /\ s \in Seq(Nat) /\ Len(s) = n
Join(s, t) == s \o t
Rest(v) == Tail(Bytes(v))

LEMMA ByteQuotient ==
  ASSUME NEW x \in Nat, NEW y, NEW z, y = x \div Byte, z = x % Byte
  PROVE  x = y * Byte + z
BY ByteType, DivMod

\* A value below h * Byte * Byte * Byte has a high byte below h.
LEMMA BytesOf ==
  ASSUME NEW v \in Nat, NEW h \in Nat, h <= Byte, v < h * Byte * Byte * Byte
  PROVE  LET b == Bytes(v)  r == Rest(v) IN
         /\ IsString(b, 4) /\ IsString(r, 3)
         /\ r[1] = b[2] /\ r[2] = b[3] /\ r[3] = b[4]
         /\ b[1] \in 0 .. h-1
         /\ v = ((b[1] * Byte + b[2]) * Byte + b[3]) * Byte + b[4]
<1>1. PICK q1, q2, q3 \in Nat :
           /\ q1 = v \div Byte /\ q2 = q1 \div Byte /\ q3 = q2 \div Byte
           /\ Bytes(v) = <<q3 % Byte, q2 % Byte, q1 % Byte, v % Byte>>
  BY BytesAre
<1>2. PICK m1, m2 : m1 = h * Byte /\ m2 = m1 * Byte
  OBVIOUS
<1>3. m1 \in Nat /\ m2 \in Nat /\ v < m2 * Byte
  BY <1>2, ByteType
<1>4. q1 < m2
  BY <1>1, <1>3, ByteType, DivLess
<1>5. q2 < m1
  BY <1>1, <1>2, <1>3, <1>4, ByteType, DivLess
<1>6. q3 < h
  BY <1>1, <1>2, <1>5, ByteType, DivLess
<1>7. q3 % Byte = q3
  BY <1>6, ByteType
<1>8. PICK b2, b3, b4 : b2 = q2 % Byte /\ b3 = q1 % Byte /\ b4 = v % Byte
  OBVIOUS
<1>9. b2 \in Nat /\ b3 \in Nat /\ b4 \in Nat
  <2>1. b2 \in Nat
    BY ONLY q2 \in Nat, <1>8, ByteType, DivMod
  <2>2. b3 \in Nat
    BY ONLY q1 \in Nat, <1>8, ByteType, DivMod
  <2>3. b4 \in Nat
    BY ONLY v \in Nat, <1>8, ByteType, DivMod
  <2>. QED
    BY <2>1, <2>2, <2>3
<1>10. q2 = q3 * Byte + b2
  BY <1>1, <1>8, ByteQuotient, Zenon
<1>11. q1 = q2 * Byte + b3
  BY <1>1, <1>8, ByteQuotient, Zenon
<1>12. v = q1 * Byte + b4
  BY <1>1, <1>8, ByteQuotient, Zenon
<1>13. PICK b : b = Bytes(v)
  OBVIOUS
<1>14. b = <<q3, b2, b3, b4>>
  BY <1>1, <1>7, <1>8, <1>13
<1>15. b \in Seq(Nat) /\ Len(b) = 4 /\ b[1] = q3 /\ b[2] = b2 /\ b[3] = b3 /\ b[4] = b4
  BY <1>9, <1>14
<1>16. Tail(b) = <<b2, b3, b4>>
  BY <1>14
<1>17. Tail(b) \in Seq(Nat) /\ Len(Tail(b)) = 3
       /\ Tail(b)[1] = b2 /\ Tail(b)[2] = b3 /\ Tail(b)[3] = b4
  <2>1. PICK r : r = Tail(b)
    OBVIOUS
  <2>2. r = <<b2, b3, b4>>
    BY ONLY <1>16, <2>1
  <2>3. r \in Seq(Nat) /\ Len(r) = 3 /\ r[1] = b2 /\ r[2] = b3 /\ r[3] = b4
    BY ONLY <1>9, <2>2
  <2>. QED
    BY ONLY <2>1, <2>3
<1>18. q3 \in 0 .. h-1
  BY <1>1, <1>6
<1>. QED
  BY <1>10, <1>11, <1>12, <1>13, <1>15, <1>17, <1>18 DEF IsString, Rest

LEMMA JoinedString ==
  ASSUME NEW s, NEW m, NEW t, NEW n, IsString(s, m), IsString(t, n)
  PROVE  IsString(Join(s, t), m + n)
<1>1. m \in Nat /\ n \in Nat /\ s \in Seq(Nat) /\ t \in Seq(Nat) /\ Len(s) = m /\ Len(t) = n
  BY Zenon DEF IsString
<1>2. s \o t \in Seq(Nat) /\ Len(s \o t) = Len(s) + Len(t)
  BY <1>1, ConcatProperties, Zenon
<1>3. m + n \in Nat
  BY <1>1
<1>. QED
  BY <1>1, <1>2, <1>3, Zenon DEF IsString, Join

LEMMA Joined ==
  ASSUME NEW s, NEW m, NEW t, NEW n, IsString(s, m), IsString(t, n)
  PROVE  /\ \A i \in 1..m : Join(s, t)[i] = s[i]
         /\ \A i \in 1..n : Join(s, t)[m + i] = t[i]
<1>1. m \in Nat /\ n \in Nat /\ s \in Seq(Nat) /\ t \in Seq(Nat) /\ Len(s) = m /\ Len(t) = n
  BY DEF IsString
<1>2. \A i \in 1 .. m + n : Join(s, t)[i] = IF i <= m THEN s[i] ELSE t[i - m]
  BY <1>1, ConcatProperties DEF Join
<1>3. ASSUME NEW i \in 1..n PROVE Join(s, t)[m + i] = t[i]
  <2>1. PICK j : j = m + i
    OBVIOUS
  <2>2. j \in 1 .. m + n /\ ~(j <= m) /\ j - m = i
    BY <1>1, <2>1
  <2>. QED
    BY <1>2, <2>1, <2>2
<1>4. ASSUME NEW i \in 1..m PROVE Join(s, t)[i] = s[i]
  BY <1>1, <1>2
<1>. QED
  BY <1>3, <1>4

\* encode_node for each record size.
LEMMA EncodeCases ==
  ASSUME NEW v, NEW w
  PROVE  /\ EncodeNode(24, v, w) = Join(Rest(v), Rest(w))
         /\ EncodeNode(28, v, w) = Join(Join(Rest(v), <<MiddleByte(Bytes(v), Bytes(w)) % Byte>>), Rest(w))
         /\ EncodeNode(32, v, w) = Join(Bytes(v), Bytes(w))
<1>. DEFINE x == Tail(Bytes(v)) \o Tail(Bytes(w))
            y == (Tail(Bytes(v)) \o <<MiddleByte(Bytes(v), Bytes(w)) % Byte>>)
                    \o Tail(Bytes(w))
            z == Bytes(v) \o Bytes(w)
<1>1. ASSUME NEW size
      PROVE  EncodeNode(size, v, w) = CASE size = 24 -> x [] size = 28 -> y [] OTHER -> z
  BY Zenon DEF EncodeNode
<1>. HIDE DEF x, y, z
<1>2. EncodeNode(24, v, w) = x /\ EncodeNode(28, v, w) = y /\ EncodeNode(32, v, w) = z
  BY <1>1
<1>. QED
  BY <1>2, Zenon DEF x, y, z, Join, Rest

LEMMA Encoded24 ==
  ASSUME NEW left, NEW right, NEW s, NEW t, IsString(s, 3), IsString(t, 3),
         Rest(left) = s, Rest(right) = t
  PROVE  LET code == EncodeNode(24, left, right) IN
         /\ code[1] = s[1] /\ code[2] = s[2] /\ code[3] = s[3]
         /\ code[4] = t[1] /\ code[5] = t[2] /\ code[6] = t[3]
<1>1. PICK code : code = EncodeNode(24, left, right)
  OBVIOUS
<1>2. code = Join(s, t)
  BY ONLY Rest(left) = s, Rest(right) = t, <1>1, EncodeCases
<1>3. PICK m : m = 3
  OBVIOUS
<1>4. IsString(s, m) /\ IsString(t, m)
  BY <1>3
<1>5. /\ \A i \in 1..m : code[i] = s[i]
      /\ \A i \in 1..m : code[m + i] = t[i]
  <2>1. /\ \A i \in 1..m : Join(s, t)[i] = s[i]
        /\ \A i \in 1..m : Join(s, t)[m + i] = t[i]
    BY ONLY <1>4, Joined
  <2>. QED
    BY ONLY <1>2, <2>1
<1>6. 3 + 1 = 4 /\ 3 + 2 = 5 /\ 3 + 3 = 6
  OBVIOUS
<1>7. code[1] = s[1] /\ code[2] = s[2] /\ code[3] = s[3]
  BY ONLY <1>3, <1>5
<1>8. code[4] = t[1] /\ code[5] = t[2] /\ code[6] = t[3]
  BY ONLY <1>3, <1>5, <1>6
<1>. QED
  BY <1>1, <1>7, <1>8

\* The middle byte has the high half bytes of both.
LEMMA Middle ==
  ASSUME NEW b, NEW c, b[1] \in 0 .. Nibble-1, c[1] \in 0 .. Nibble-1
  PROVE  LET m == MiddleByte(b, c) % Byte IN
         m \in Nat /\ m \div Nibble = b[1] /\ m % Nibble = c[1]
<1>1. PICK h, l : h = b[1] /\ l = c[1]
  OBVIOUS
<1>2. h \in Nat /\ h + 1 \in Nat /\ h + 1 <= Nibble /\ l \in 0 .. Nibble-1
  BY <1>1, ByteType
<1>3. PICK m : m = h * Nibble + l
  OBVIOUS
<1>4. m \in Nat /\ m \div Nibble = h /\ m % Nibble = l
  BY <1>2, <1>3, ByteType, DivModUnique
<1>5. m < Byte
  <2>1. (h + 1) * Nibble <= Nibble * Nibble
    BY <1>2, ByteType, TimesMonotonic
  <2>2. PICK p, q : p = h * Nibble /\ q = Nibble * Nibble
    OBVIOUS
  <2>3. (h + 1) * Nibble = p + Nibble
    BY <1>2, <2>2, ByteType
  <2>4. p \in Nat /\ q \in Nat
    BY <1>2, <2>2, ByteType
  <2>. QED
    BY <1>2, <1>3, <2>1, <2>2, <2>3, <2>4, ByteType
<1>6. MiddleByte(b, c) = m
  <2>1. l % Nibble = l
    BY <1>2, ByteType
  <2>. QED
    BY ONLY <1>1, <1>3, <2>1 DEF MiddleByte
<1>7. MiddleByte(b, c) % Byte = m
  BY <1>4, <1>5, <1>6, ByteType
<1>. QED
  BY <1>1, <1>4, <1>7

LEMMA Encoded28 ==
  ASSUME NEW left, NEW right, NEW s, NEW t, IsString(s, 3), IsString(t, 3),
         Rest(left) = s, Rest(right) = t,
         NEW middle \in Nat, middle = MiddleByte(Bytes(left), Bytes(right)) % Byte
  PROVE  LET code == EncodeNode(28, left, right) IN
         /\ code[1] = s[1] /\ code[2] = s[2] /\ code[3] = s[3]
         /\ code[4] = middle
         /\ code[5] = t[1] /\ code[6] = t[2] /\ code[7] = t[3]
<1>1. PICK code : code = EncodeNode(28, left, right)
  OBVIOUS
<1>4. PICK one : one = <<middle>>
  OBVIOUS
<1>5. IsString(one, 1) /\ one[1] = middle
  BY ONLY middle \in Nat, <1>4 DEF IsString
<1>6. code = Join(Join(s, one), t)
  BY ONLY Rest(left) = s, Rest(right) = t,
          middle = MiddleByte(Bytes(left), Bytes(right)) % Byte, <1>1, <1>4, EncodeCases
<1>7. PICK m, n, k : m = 3 /\ n = 1 /\ k = 4
  OBVIOUS
<1>8. IsString(s, m) /\ IsString(one, n) /\ IsString(t, m) /\ m + n = k
  BY <1>5, <1>7
<1>9. PICK u : u = Join(s, one)
  OBVIOUS
<1>10. /\ IsString(u, k)
       /\ \A i \in 1..m : u[i] = s[i]
       /\ \A i \in 1..n : u[m + i] = one[i]
  <2>1. IsString(Join(s, one), m + n)
    BY ONLY <1>8, JoinedString
  <2>2. /\ \A i \in 1..m : Join(s, one)[i] = s[i]
        /\ \A i \in 1..n : Join(s, one)[m + i] = one[i]
    BY ONLY <1>8, Joined
  <2>. QED
    BY ONLY <1>8, <1>9, <2>1, <2>2
<1>12. /\ \A i \in 1..k : code[i] = u[i]
       /\ \A i \in 1..m : code[k + i] = t[i]
  <2>1. /\ \A i \in 1..k : Join(u, t)[i] = u[i]
        /\ \A i \in 1..m : Join(u, t)[k + i] = t[i]
    BY ONLY <1>8, <1>10, Joined
  <2>. QED
    BY ONLY <1>6, <1>9, <2>1
<1>13. 3 + 1 = 4 /\ 4 + 1 = 5 /\ 4 + 2 = 6 /\ 4 + 3 = 7
  OBVIOUS
<1>14. u[1] = s[1] /\ u[2] = s[2] /\ u[3] = s[3] /\ u[4] = middle
  BY ONLY <1>5, <1>7, <1>10, <1>13
<1>15. code[1] = u[1] /\ code[2] = u[2] /\ code[3] = u[3] /\ code[4] = u[4]
  BY ONLY <1>7, <1>12
<1>16. code[5] = t[1] /\ code[6] = t[2] /\ code[7] = t[3]
  BY ONLY <1>7, <1>12, <1>13
<1>. QED
  BY <1>1, <1>14, <1>15, <1>16

LEMMA Encoded32 ==
  ASSUME NEW left, NEW right, NEW s, NEW t, IsString(s, 4), IsString(t, 4),
         Bytes(left) = s, Bytes(right) = t
  PROVE  LET code == EncodeNode(32, left, right) IN
         /\ code[1] = s[1] /\ code[2] = s[2] /\ code[3] = s[3] /\ code[4] = s[4]
         /\ code[5] = t[1] /\ code[6] = t[2] /\ code[7] = t[3] /\ code[8] = t[4]
<1>1. PICK code : code = EncodeNode(32, left, right)
  OBVIOUS
<1>2. code = Join(s, t)
  BY ONLY Bytes(left) = s, Bytes(right) = t, <1>1, EncodeCases
<1>3. PICK m : m = 4
  OBVIOUS
<1>4. IsString(s, m) /\ IsString(t, m)
  BY <1>3
<1>5. /\ \A i \in 1..m : code[i] = s[i]
      /\ \A i \in 1..m : code[m + i] = t[i]
  <2>1. /\ \A i \in 1..m : Join(s, t)[i] = s[i]
        /\ \A i \in 1..m : Join(s, t)[m + i] = t[i]
    BY ONLY <1>4, Joined
  <2>. QED
    BY ONLY <1>2, <2>1
<1>6. 4 + 1 = 5 /\ 4 + 2 = 6 /\ 4 + 3 = 7 /\ 4 + 4 = 8
  OBVIOUS
<1>7. code[1] = s[1] /\ code[2] = s[2] /\ code[3] = s[3] /\ code[4] = s[4]
  BY ONLY <1>3, <1>5
<1>8. code[5] = t[1] /\ code[6] = t[2] /\ code[7] = t[3] /\ code[8] = t[4]
  BY ONLY <1>3, <1>5, <1>6
<1>. QED
  BY <1>1, <1>7, <1>8

\* Bytes cut out of a string.
LEMMA CutBytes ==
  ASSUME NEW s \in Seq(Nat), NEW from \in Nat, NEW n \in Nat, from + n <= Len(s)
  PROVE  \E t \in Seq(Nat) : /\ t = SubSeq(s, from + 1, from + n) /\ Len(t) = n
                             /\ \A i \in 1..n : t[i] = s[from + i]
<1>1. \A i \in from + 1 .. from + n : s[i] \in Nat
  OBVIOUS
<1>2. from + 1 \in Int /\ from + n \in Int
  OBVIOUS
<1>3. /\ SubSeq(s, from + 1, from + n) \in Seq(Nat)
      /\ Len(SubSeq(s, from + 1, from + n))
           = IF from + 1 <= from + n THEN (from + n) - (from + 1) + 1 ELSE 0
      /\ \A i \in 1 .. (from + n) - (from + 1) + 1 :
           SubSeq(s, from + 1, from + n)[i] = s[(from + 1) + i - 1]
  BY <1>1, <1>2, SubSeqProperties
<1>4. PICK t : t = SubSeq(s, from + 1, from + n)
  OBVIOUS
<1>5. t \in Seq(Nat) /\ Len(t) = n
  BY <1>3, <1>4
<1>6. ASSUME NEW i \in 1..n PROVE t[i] = s[from + i]
  <2>1. i \in 1 .. (from + n) - (from + 1) + 1 /\ (from + 1) + i - 1 = from + i
    OBVIOUS
  <2>. QED
    BY <1>3, <1>4, <2>1
<1>. QED
  BY <1>4, <1>5, <1>6

LEMMA CutThree ==
  ASSUME NEW s \in Seq(Nat), NEW from \in Nat, from + 3 <= Len(s), NEW high
  PROVE  Number3(high, SubSeq(s, from + 1, from + 3))
           = ((high * Byte + s[from + 1]) * Byte + s[from + 2]) * Byte + s[from + 3]
<1>1. PICK t, n : t = SubSeq(s, from + 1, from + n) /\ n = 3
  OBVIOUS
<1>2. n \in Nat /\ from + n <= Len(s)
  BY <1>1
<1>3. \A i \in 1..n : t[i] = s[from + i]
  BY ONLY s \in Seq(Nat), from \in Nat, <1>1, <1>2, CutBytes
<1>4. t[1] = s[from + 1] /\ t[2] = s[from + 2] /\ t[3] = s[from + 3]
  BY <1>1, <1>3
<1>. QED
  BY <1>1, <1>4 DEF Number3


\* The cut a reader cuts out, and the numbers it makes of its bytes.
LEMMA NodeCut ==
  ASSUME NEW bytes \in Seq(Nat), NEW n \in Nat, NEW w \in Nat, (n + 1) * w <= Len(bytes)
  PROVE  LET cut == SubSeq(bytes, n * w + 1, (n + 1) * w) IN
         /\ cut \in Seq(Nat) /\ Len(cut) = w
         /\ \A i \in 1..w : cut[i] = bytes[n * w + i]
<1>1. PICK from : from = n * w
  OBVIOUS
<1>2. from \in Nat /\ (n + 1) * w = from + w
  BY <1>1
<1>3. from + w <= Len(bytes)
  BY <1>2
<1>4. PICK t : t = SubSeq(bytes, from + 1, from + w)
  OBVIOUS
<1>5. t \in Seq(Nat) /\ Len(t) = w /\ \A i \in 1..w : t[i] = bytes[from + i]
  BY ONLY bytes \in Seq(Nat), w \in Nat, <1>2, <1>3, <1>4, CutBytes
<1>. QED
  BY <1>1, <1>2, <1>4, <1>5

\* The reader for each record size.
IsCut(cut, bytes, n, size) ==
  cut = SubSeq(bytes, n * NodeBytes(size) + 1, (n + 1) * NodeBytes(size))
In24(cut, side) == Number3(0, SubSeq(cut, 3 * side + 1, 3 * side + 3))
In28(cut, side) == IF side = 0 THEN Number3(cut[4] \div Nibble, SubSeq(cut, 1, 3))
                   ELSE Number3(cut[4] % Nibble, SubSeq(cut, 5, 7))
In32(cut, side) == Number3(cut[4 * side + 1], SubSeq(cut, 4 * side + 2, 4 * side + 4))

LEMMA ReadCases ==
  ASSUME NEW bytes, NEW n, NEW side, NEW size, NEW cut, IsCut(cut, bytes, n, size)
  PROVE  /\ size = 24 => ReadRecord(size, bytes, n, side) = In24(cut, side)
         /\ size = 28 => ReadRecord(size, bytes, n, side) = In28(cut, side)
         /\ size = 32 => ReadRecord(size, bytes, n, side) = In32(cut, side)
<1>. DEFINE at == SubSeq(bytes, n * NodeBytes(size) + 1, (n + 1) * NodeBytes(size))
<1>1. ReadRecord(size, bytes, n, side)
        = CASE size = 24 -> In24(at, side) [] size = 28 -> In28(at, side)
            [] OTHER -> In32(at, side)
  BY Zenon DEF ReadRecord, In24, In28, In32
<1>2. at = cut
  BY DEF IsCut
<1>. HIDE DEF at
<1>. QED
  BY ONLY <1>1, <1>2

LEMMA Read24 ==
  ASSUME NEW bytes \in Seq(Nat), NEW n \in Nat, NEW cut \in Seq(Nat), Len(cut) = 6,
         cut = SubSeq(bytes, n * 6 + 1, (n + 1) * 6)
  PROVE  /\ ReadRecord(24, bytes, n, 0)
              = ((0 * Byte + cut[1]) * Byte + cut[2]) * Byte + cut[3]
         /\ ReadRecord(24, bytes, n, 1)
              = ((0 * Byte + cut[4]) * Byte + cut[5]) * Byte + cut[6]
<1>1. IsCut(cut, bytes, n, 24)
  BY DEF NodeBytes, IsCut
<1>2. 3 * 0 + 1 = 0 + 1 /\ 3 * 0 + 3 = 0 + 3 /\ 3 * 1 + 1 = 3 + 1 /\ 3 * 1 + 3 = 3 + 3
  OBVIOUS
<1>3. ReadRecord(24, bytes, n, 0) = Number3(0, SubSeq(cut, 0 + 1, 0 + 3))
  <2>1. ReadRecord(24, bytes, n, 0) = In24(cut, 0)
    BY ONLY <1>1, ReadCases
  <2>. QED
    BY <1>2, <2>1 DEF In24
<1>4. ReadRecord(24, bytes, n, 1) = Number3(0, SubSeq(cut, 3 + 1, 3 + 3))
  <2>1. ReadRecord(24, bytes, n, 1) = In24(cut, 1)
    BY ONLY <1>1, ReadCases
  <2>. QED
    BY <1>2, <2>1 DEF In24
<1>5. Number3(0, SubSeq(cut, 0 + 1, 0 + 3))
        = ((0 * Byte + cut[0 + 1]) * Byte + cut[0 + 2]) * Byte + cut[0 + 3]
  <2>1. PICK from : from = 0
    OBVIOUS
  <2>2. from \in Nat /\ from + 3 <= Len(cut)
    BY <2>1
  <2>3. Number3(0, SubSeq(cut, from + 1, from + 3))
          = ((0 * Byte + cut[from + 1]) * Byte + cut[from + 2]) * Byte + cut[from + 3]
    BY ONLY cut \in Seq(Nat), <2>2, CutThree
  <2>. QED
    BY ONLY <2>1, <2>3
<1>6. Number3(0, SubSeq(cut, 3 + 1, 3 + 3))
        = ((0 * Byte + cut[3 + 1]) * Byte + cut[3 + 2]) * Byte + cut[3 + 3]
  <2>1. PICK from : from = 3
    OBVIOUS
  <2>2. from \in Nat /\ from + 3 <= Len(cut)
    BY <2>1
  <2>3. Number3(0, SubSeq(cut, from + 1, from + 3))
          = ((0 * Byte + cut[from + 1]) * Byte + cut[from + 2]) * Byte + cut[from + 3]
    BY ONLY cut \in Seq(Nat), <2>2, CutThree
  <2>. QED
    BY ONLY <2>1, <2>3
<1>7. 0 + 1 = 1 /\ 0 + 2 = 2 /\ 0 + 3 = 3 /\ 3 + 1 = 4 /\ 3 + 2 = 5 /\ 3 + 3 = 6
  OBVIOUS
<1>. QED
  BY ONLY <1>3, <1>4, <1>5, <1>6, <1>7

LEMMA Read28 ==
  ASSUME NEW bytes \in Seq(Nat), NEW n \in Nat, NEW cut \in Seq(Nat), Len(cut) = 7,
         cut = SubSeq(bytes, n * 7 + 1, (n + 1) * 7)
  PROVE  /\ ReadRecord(28, bytes, n, 0)
              = (((cut[4] \div Nibble) * Byte + cut[1]) * Byte + cut[2]) * Byte + cut[3]
         /\ ReadRecord(28, bytes, n, 1)
              = (((cut[4] % Nibble) * Byte + cut[5]) * Byte + cut[6]) * Byte + cut[7]
<1>1. IsCut(cut, bytes, n, 28)
  BY DEF NodeBytes, IsCut
<1>2. 1 = 0 + 1 /\ 3 = 0 + 3 /\ 5 = 4 + 1 /\ 7 = 4 + 3
  OBVIOUS
<1>. PICK h, l : h = cut[4] \div Nibble /\ l = cut[4] % Nibble
  OBVIOUS
<1>3. ReadRecord(28, bytes, n, 0) = Number3(h, SubSeq(cut, 0 + 1, 0 + 3))
  <2>1. ReadRecord(28, bytes, n, 0) = In28(cut, 0)
    BY ONLY <1>1, ReadCases
  <2>. QED
    BY <1>2, <2>1 DEF In28
<1>4. ReadRecord(28, bytes, n, 1) = Number3(l, SubSeq(cut, 4 + 1, 4 + 3))
  <2>1. ReadRecord(28, bytes, n, 1) = In28(cut, 1)
    BY ONLY <1>1, ReadCases
  <2>. QED
    BY <1>2, <2>1 DEF In28
<1>5. Number3(h, SubSeq(cut, 0 + 1, 0 + 3))
        = ((h * Byte + cut[0 + 1]) * Byte + cut[0 + 2]) * Byte + cut[0 + 3]
  <2>1. PICK from : from = 0
    OBVIOUS
  <2>2. from \in Nat /\ from + 3 <= Len(cut)
    BY <2>1
  <2>3. Number3(h, SubSeq(cut, from + 1, from + 3))
          = ((h * Byte + cut[from + 1]) * Byte + cut[from + 2]) * Byte + cut[from + 3]
    BY ONLY cut \in Seq(Nat), <2>2, CutThree
  <2>. QED
    BY ONLY <2>1, <2>3
<1>6. Number3(l, SubSeq(cut, 4 + 1, 4 + 3))
        = ((l * Byte + cut[4 + 1]) * Byte + cut[4 + 2]) * Byte + cut[4 + 3]
  <2>1. PICK from : from = 4
    OBVIOUS
  <2>2. from \in Nat /\ from + 3 <= Len(cut)
    BY <2>1
  <2>3. Number3(l, SubSeq(cut, from + 1, from + 3))
          = ((l * Byte + cut[from + 1]) * Byte + cut[from + 2]) * Byte + cut[from + 3]
    BY ONLY cut \in Seq(Nat), <2>2, CutThree
  <2>. QED
    BY ONLY <2>1, <2>3
<1>7. 0 + 1 = 1 /\ 0 + 2 = 2 /\ 0 + 3 = 3 /\ 4 + 1 = 5 /\ 4 + 2 = 6 /\ 4 + 3 = 7
  OBVIOUS
<1>8. h = cut[4] \div Nibble /\ l = cut[4] % Nibble
  OBVIOUS
<1>. QED
  BY ONLY <1>3, <1>4, <1>5, <1>6, <1>7, <1>8

LEMMA Read32 ==
  ASSUME NEW bytes \in Seq(Nat), NEW n \in Nat, NEW cut \in Seq(Nat), Len(cut) = 8,
         cut = SubSeq(bytes, n * 8 + 1, (n + 1) * 8)
  PROVE  /\ ReadRecord(32, bytes, n, 0)
              = ((cut[1] * Byte + cut[2]) * Byte + cut[3]) * Byte + cut[4]
         /\ ReadRecord(32, bytes, n, 1)
              = ((cut[5] * Byte + cut[6]) * Byte + cut[7]) * Byte + cut[8]
<1>1. IsCut(cut, bytes, n, 32)
  BY DEF NodeBytes, IsCut
<1>2. /\ 4 * 0 + 1 = 1 /\ 4 * 0 + 2 = 1 + 1 /\ 4 * 0 + 4 = 1 + 3
      /\ 4 * 1 + 1 = 5 /\ 4 * 1 + 2 = 5 + 1 /\ 4 * 1 + 4 = 5 + 3
  OBVIOUS
<1>. PICK h, l : h = cut[1] /\ l = cut[5]
  OBVIOUS
<1>3. ReadRecord(32, bytes, n, 0) = Number3(h, SubSeq(cut, 1 + 1, 1 + 3))
  <2>1. ReadRecord(32, bytes, n, 0) = In32(cut, 0)
    BY ONLY <1>1, ReadCases
  <2>. QED
    BY <1>2, <2>1 DEF In32
<1>4. ReadRecord(32, bytes, n, 1) = Number3(l, SubSeq(cut, 5 + 1, 5 + 3))
  <2>1. ReadRecord(32, bytes, n, 1) = In32(cut, 1)
    BY ONLY <1>1, ReadCases
  <2>. QED
    BY <1>2, <2>1 DEF In32
<1>5. Number3(h, SubSeq(cut, 1 + 1, 1 + 3))
        = ((h * Byte + cut[1 + 1]) * Byte + cut[1 + 2]) * Byte + cut[1 + 3]
  <2>1. PICK from : from = 1
    OBVIOUS
  <2>2. from \in Nat /\ from + 3 <= Len(cut)
    BY <2>1
  <2>3. Number3(h, SubSeq(cut, from + 1, from + 3))
          = ((h * Byte + cut[from + 1]) * Byte + cut[from + 2]) * Byte + cut[from + 3]
    BY ONLY cut \in Seq(Nat), <2>2, CutThree
  <2>. QED
    BY ONLY <2>1, <2>3
<1>6. Number3(l, SubSeq(cut, 5 + 1, 5 + 3))
        = ((l * Byte + cut[5 + 1]) * Byte + cut[5 + 2]) * Byte + cut[5 + 3]
  <2>1. PICK from : from = 5
    OBVIOUS
  <2>2. from \in Nat /\ from + 3 <= Len(cut)
    BY <2>1
  <2>3. Number3(l, SubSeq(cut, from + 1, from + 3))
          = ((l * Byte + cut[from + 1]) * Byte + cut[from + 2]) * Byte + cut[from + 3]
    BY ONLY cut \in Seq(Nat), <2>2, CutThree
  <2>. QED
    BY ONLY <2>1, <2>3
<1>7. 1 + 1 = 2 /\ 1 + 2 = 3 /\ 1 + 3 = 4 /\ 5 + 1 = 6 /\ 5 + 2 = 7 /\ 5 + 3 = 8
  OBVIOUS
<1>8. h = cut[1] /\ l = cut[5]
  OBVIOUS
<1>. QED
  BY ONLY <1>3, <1>4, <1>5, <1>6, <1>7, <1>8

(***************************************************************************)
(* The two records of a cut that encode_node wrote at its place in the    *)
(* search tree are what the reader gets, for every size of half a byte and *)
(* each of the three record sizes, if they are at most MAX_RECORD_VALUE    *)
(* (c/tree.c:670-702 for what is written).                                 *)
(***************************************************************************)
THEOREM NodesReadBack ==
  ASSUME NEW size \in RecordSize, NEW left \in 0..MaxRecordValue(size),
         NEW right \in 0..MaxRecordValue(size), NEW bytes \in Seq(Nat), NEW n \in Nat,
         (n + 1) * NodeBytes(size) <= Len(bytes),
         \A j \in 1..NodeBytes(size) :
           bytes[n * NodeBytes(size) + j] = EncodeNode(size, left, right)[j]
  PROVE  ReadRecord(size, bytes, n, 0) = left /\ ReadRecord(size, bytes, n, 1) = right
<1>. DEFINE w == NodeBytes(size)
            high == IF size = 24 THEN 1 ELSE IF size = 28 THEN Nibble ELSE Byte
<1>1. size = 24 \/ size = 28 \/ size = 32
  BY DEF RecordSize
<1>2. w \in Nat
  BY DEF NodeBytes
<1>3. high \in Nat /\ high <= Byte /\ MaxRecordValue(size) = high * Byte * Byte * Byte - 1
  <2>1. high \in Nat /\ high <= Byte
    BY <1>1, ByteType
  <2>2. CASE size = 24
    <3>1. high * Byte = Byte
      BY <2>2, ByteType
    <3>2. MaxRecordValue(size) = Byte * Byte * Byte - 1
      BY <2>2 DEF MaxRecordValue
    <3>. QED
      BY <2>1, <3>1, <3>2
  <2>3. CASE size = 28
    <3>1. high = Nibble
      BY <2>3
    <3>2. MaxRecordValue(size) = Nibble * Byte * Byte * Byte - 1
      BY <2>3 DEF MaxRecordValue
    <3>. QED
      BY <2>1, <3>1, <3>2
  <2>4. CASE size = 32
    <3>1. high = Byte
      BY <2>4
    <3>2. MaxRecordValue(size) = Byte * Byte * Byte * Byte - 1
      BY <2>4 DEF MaxRecordValue
    <3>. QED
      BY <2>1, <3>1, <3>2
  <2>. QED
    BY <1>1, <2>2, <2>3, <2>4
<1>4. left \in Nat /\ right \in Nat /\ left < high * Byte * Byte * Byte
      /\ right < high * Byte * Byte * Byte
  <2>1. PICK top : top = high * Byte * Byte * Byte
    OBVIOUS
  <2>2. top \in Nat
    BY <1>3, <2>1, ByteType
  <2>. HIDE DEF high
  <2>. QED
    BY <1>3, <2>1, <2>2
<1>. HIDE DEF high
<1>5. PICK a, s, b, t : /\ a = Bytes(left) /\ s = Rest(left)
                        /\ b = Bytes(right) /\ t = Rest(right)
  OBVIOUS
<1>6. /\ IsString(a, 4) /\ IsString(s, 3)
      /\ s[1] = a[2] /\ s[2] = a[3] /\ s[3] = a[4] /\ a[1] \in 0 .. high-1
      /\ left = ((a[1] * Byte + a[2]) * Byte + a[3]) * Byte + a[4]
  BY ONLY <1>3, <1>4, <1>5, BytesOf
<1>7. /\ IsString(b, 4) /\ IsString(t, 3)
      /\ t[1] = b[2] /\ t[2] = b[3] /\ t[3] = b[4] /\ b[1] \in 0 .. high-1
      /\ right = ((b[1] * Byte + b[2]) * Byte + b[3]) * Byte + b[4]
  BY ONLY <1>3, <1>4, <1>5, BytesOf
<1>. HIDE DEF w
<1>8. PICK cut, code : /\ cut = SubSeq(bytes, n * w + 1, (n + 1) * w)
                        /\ code = EncodeNode(size, left, right)
  OBVIOUS
<1>9. cut \in Seq(Nat) /\ Len(cut) = w /\ \A j \in 1..w : cut[j] = code[j]
  <2>1. cut \in Seq(Nat) /\ Len(cut) = w /\ \A j \in 1..w : cut[j] = bytes[n * w + j]
    <3>1. (n + 1) * w <= Len(bytes)
      BY DEF w
    <3>. QED
      BY ONLY bytes \in Seq(Nat), n \in Nat, <1>2, <1>8, <3>1, NodeCut
  <2>2. \A j \in 1..w : bytes[n * w + j] = code[j]
    BY <1>8 DEF w
  <2>. QED
    BY ONLY <2>1, <2>2
<1>10. CASE size = 24
  <2>1. w = 6 /\ a[1] = 0 /\ b[1] = 0
    <3>1. high = 1
      BY <1>10 DEF high
    <3>. QED
      BY <1>6, <1>7, <1>10, <3>1 DEF w, NodeBytes
  <2>2. /\ code[1] = s[1] /\ code[2] = s[2] /\ code[3] = s[3]
        /\ code[4] = t[1] /\ code[5] = t[2] /\ code[6] = t[3]
    <3>1. code = EncodeNode(24, left, right)
      BY <1>8, <1>10
    <3>2. IsString(s, 3) /\ IsString(t, 3) /\ Rest(left) = s /\ Rest(right) = t
      BY ONLY <1>5, <1>6, <1>7
    <3>. QED
      BY ONLY <3>1, <3>2, Encoded24
  <2>3. /\ ReadRecord(size, bytes, n, 0)
             = ((0 * Byte + cut[1]) * Byte + cut[2]) * Byte + cut[3]
        /\ ReadRecord(size, bytes, n, 1)
             = ((0 * Byte + cut[4]) * Byte + cut[5]) * Byte + cut[6]
    <3>1. cut \in Seq(Nat) /\ Len(cut) = 6
      BY ONLY <1>9, <2>1
    <3>2. cut = SubSeq(bytes, n * 6 + 1, (n + 1) * 6)
      BY ONLY <1>8, <2>1
    <3>3. bytes \in Seq(Nat) /\ n \in Nat
      OBVIOUS
    <3>. QED
      BY ONLY <3>1, <3>2, <3>3, <1>10, Read24
  <2>4. \A j \in 1..6 : cut[j] = code[j]
    BY ONLY <1>9, <2>1
  <2>5. /\ cut[1] = a[2] /\ cut[2] = a[3] /\ cut[3] = a[4]
        /\ cut[4] = b[2] /\ cut[5] = b[3] /\ cut[6] = b[4]
    BY ONLY <1>6, <1>7, <2>2, <2>4
  <2>. QED
    BY ONLY <1>6, <1>7, <2>1, <2>3, <2>5
<1>11. CASE size = 28
  <2>1. w = 7 /\ a[1] \in 0 .. Nibble-1 /\ b[1] \in 0 .. Nibble-1
    <3>1. high = Nibble
      BY <1>11 DEF high
    <3>. QED
      BY <1>6, <1>7, <1>11, <3>1 DEF w, NodeBytes
  <2>2. /\ code[1] = s[1] /\ code[2] = s[2] /\ code[3] = s[3]
        /\ code[4] \div Nibble = a[1] /\ code[4] % Nibble = b[1]
        /\ code[5] = t[1] /\ code[6] = t[2] /\ code[7] = t[3]
    <3>1. code = EncodeNode(28, left, right)
      BY <1>8, <1>11
    <3>2. IsString(s, 3) /\ IsString(t, 3) /\ Rest(left) = s /\ Rest(right) = t
      BY ONLY <1>5, <1>6, <1>7
    <3>3. PICK middle : middle = MiddleByte(Bytes(left), Bytes(right)) % Byte
      OBVIOUS
    <3>4. middle \in Nat /\ middle \div Nibble = a[1] /\ middle % Nibble = b[1]
      BY ONLY <1>5, <2>1, <3>3, Middle
    <3>5. /\ code[1] = s[1] /\ code[2] = s[2] /\ code[3] = s[3] /\ code[4] = middle
          /\ code[5] = t[1] /\ code[6] = t[2] /\ code[7] = t[3]
      <4>1. middle \in Nat
        BY ONLY <3>4
      <4>. QED
        BY ONLY <3>1, <3>2, <3>3, <4>1, Encoded28
    <3>. QED
      BY ONLY <3>4, <3>5
  <2>3. /\ ReadRecord(size, bytes, n, 0)
             = (((cut[4] \div Nibble) * Byte + cut[1]) * Byte + cut[2]) * Byte + cut[3]
        /\ ReadRecord(size, bytes, n, 1)
             = (((cut[4] % Nibble) * Byte + cut[5]) * Byte + cut[6]) * Byte + cut[7]
    <3>1. cut \in Seq(Nat) /\ Len(cut) = 7
      BY ONLY <1>9, <2>1
    <3>2. cut = SubSeq(bytes, n * 7 + 1, (n + 1) * 7)
      BY ONLY <1>8, <2>1
    <3>3. bytes \in Seq(Nat) /\ n \in Nat
      OBVIOUS
    <3>. QED
      BY ONLY <3>1, <3>2, <3>3, <1>11, Read28
  <2>4. \A j \in 1..7 : cut[j] = code[j]
    BY ONLY <1>9, <2>1
  <2>5. /\ cut[1] = a[2] /\ cut[2] = a[3] /\ cut[3] = a[4] /\ cut[4] = code[4]
        /\ cut[5] = b[2] /\ cut[6] = b[3] /\ cut[7] = b[4]
    BY ONLY <1>6, <1>7, <2>2, <2>4
  <2>. QED
    BY ONLY <1>6, <1>7, <2>2, <2>3, <2>5
<1>12. CASE size = 32
  <2>1. w = 8
    BY <1>12 DEF w, NodeBytes
  <2>2. /\ code[1] = a[1] /\ code[2] = a[2] /\ code[3] = a[3] /\ code[4] = a[4]
        /\ code[5] = b[1] /\ code[6] = b[2] /\ code[7] = b[3] /\ code[8] = b[4]
    <3>1. code = EncodeNode(32, left, right)
      BY <1>8, <1>12
    <3>2. IsString(a, 4) /\ IsString(b, 4) /\ Bytes(left) = a /\ Bytes(right) = b
      BY ONLY <1>5, <1>6, <1>7
    <3>. QED
      BY ONLY <3>1, <3>2, Encoded32
  <2>3. /\ ReadRecord(size, bytes, n, 0)
             = ((cut[1] * Byte + cut[2]) * Byte + cut[3]) * Byte + cut[4]
        /\ ReadRecord(size, bytes, n, 1)
             = ((cut[5] * Byte + cut[6]) * Byte + cut[7]) * Byte + cut[8]
    <3>1. cut \in Seq(Nat) /\ Len(cut) = 8
      BY ONLY <1>9, <2>1
    <3>2. cut = SubSeq(bytes, n * 8 + 1, (n + 1) * 8)
      BY ONLY <1>8, <2>1
    <3>3. bytes \in Seq(Nat) /\ n \in Nat
      OBVIOUS
    <3>. QED
      BY ONLY <3>1, <3>2, <3>3, <1>12, Read32
  <2>4. \A j \in 1..8 : cut[j] = code[j]
    BY ONLY <1>9, <2>1
  <2>5. cut[1] = a[1] /\ cut[2] = a[2] /\ cut[3] = a[3] /\ cut[4] = a[4]
    BY ONLY <2>2, <2>4
  <2>6. cut[5] = b[1] /\ cut[6] = b[2] /\ cut[7] = b[3] /\ cut[8] = b[4]
    BY ONLY <2>2, <2>4
  <2>. QED
    BY ONLY <1>6, <1>7, <2>3, <2>5, <2>6
<1>. QED
  BY <1>1, <1>10, <1>11, <1>12

-------------------------------------------------------------------------------
(* The tree that is written                                                *)
(*                                                                         *)
(* Nodes have levels, so that walks end, and all alias records lead to the *)
(* node of the IPv4 network, which is numbered like any other.             *)

OneTarget ==
  \A i \in 1..Len(node), b \in Bit :
    node[i][b].type = "alias" => Leads(Zeros, Ipv4Bits, NodeRecord(node[i][b].value))

LEMMA OneTargetSame == OneTarget /\ UNCHANGED node => OneTarget'
<1>. SUFFICES ASSUME OneTarget, UNCHANGED node PROVE OneTarget'
  OBVIOUS
<1>1. ASSUME NEW i \in 1..Len(node), NEW b \in Bit, node[i][b].type = "alias"
      PROVE  Leads(Zeros, Ipv4Bits, NodeRecord(node[i][b].value))'
  <2>1. PICK r : r = NodeRecord(node[i][b].value)
    OBVIOUS
  <2>2. Leads(Zeros, Ipv4Bits, r)
    BY <1>1, <2>1 DEF OneTarget
  <2>3. Leads(Zeros, Ipv4Bits, r)'
    BY <2>2, LeadsSame
  <2>4. r = NodeRecord(node[i][b].value)'
    BY <2>1 DEF NodeRecord
  <2>. QED
    BY <2>3, <2>4
<1>. QED
  BY <1>1 DEF OneTarget

LEMMA NoAliasOneTarget == NoAlias' => OneTarget'
BY DEF NoAlias, OneTarget

\* Setting alias records keeps to the one node.
LEMMA AliasStepTargets ==
  ASSUME AliasesApart, HeapInv, Aliasing, OneTarget, Step
  PROVE  OneTarget'
<1>1. /\ HeapInv' /\ Running
      /\ OwnWay(Current.bytes, Depth(Current.mask) - 1)
      /\ MakeNextNode \/ SetRecord
      /\ NewRecord = Current.new
  BY PendingStep DEF Aliasing
<1>2. PICK i \in 1..Len(node), m \in 0..Len(Ipv4Aliases) : AliasedFrom(i, m)
  BY DEF Aliasing
<1>3. Leads(Zeros, Ipv4Bits, NodeRecord(i)) /\ Len(calls) = Len(Ipv4Aliases) - m
  BY <1>2 DEF AliasedFrom
<1>4. /\ Current = calls[1] /\ 1 \in 1..Len(calls) /\ Len(calls) \in Nat
  BY <1>1, HeadTailProperties, LenProperties DEF HeapInv, Running, Current
<1>5. m + 1 \in 1..Len(Ipv4Aliases)
  BY <1>3, <1>4, HeapAssumption
<1>6. PICK a, n : a = Ipv4Aliases[m+1][1] /\ n = Ipv4Aliases[m+1][2]
  OBVIOUS
<1>7. Current.bytes = a /\ Depth(Current.mask) = n /\ Current.new = AliasRecord(i)
  <2>1. Current = AliasCall(m + 1, i)
    BY <1>2, <1>4 DEF AliasedFrom
  <2>2. Depth(n) = n
    BY <1>5, <1>6, AliasNetworks
  <2>. QED
    BY <1>6, <2>1, <2>2 DEF AliasCall
<1>8. \A r : Points(NodeRecord(r))
  BY DEF Points, NodeRecord
<1>9. CASE MakeNextNode
  <2>1. PICK l : MakesNode(l)
    BY <1>9, MakeNextNodeMakes
  <2>2. PICK w, b, new : w = Way(Current.bytes)[l-1] /\ b = Current.bytes[l] /\ new = Len(node) + 1
    OBVIOUS
  <2>3. /\ w \in 1..Len(node) /\ b \in Bit /\ Len(node) \in Nat
        /\ Len(node') = new
        /\ node'[w][b] = NodeRecord(new)
        /\ node'[new] = NewNode(node[w][b])
        /\ \A j \in 1..Len(node), c \in Bit : j # w \/ c # b => node'[j][c] = node[j][c]
    BY <2>1, <2>2 DEF MakesNode, HeapInv
  <2>4. \A c \in Bit : node'[new][c].type # "alias"
    BY <2>3 DEF NewNode, IsData, EmptyRecord
  <2>5. ASSUME NEW j \in 1..Len(node'), NEW c \in Bit, node'[j][c].type = "alias",
               NEW v, v = node'[j][c].value
        PROVE  Leads(Zeros, Ipv4Bits, NodeRecord(v))'
    <3>1. j \in 1..Len(node) /\ (j # w \/ c # b)
      <4>1. j # new
        BY <2>4, <2>5
      <4>2. ~(j = w /\ c = b)
        BY <2>3, <2>5 DEF NodeRecord
      <4>. QED
        BY <2>2, <2>3, <4>1, <4>2
    <3>2. node'[j][c] = node[j][c]
      BY <2>3, <3>1
    <3>4. Leads(Zeros, Ipv4Bits, NodeRecord(v))
      BY <2>5, <3>1, <3>2 DEF OneTarget
    <3>. QED
      BY <1>1, <1>8, <1>9, <3>4, ZerosProperties, MakeNextNodeLeads
  <2>. QED
    BY <2>5 DEF OneTarget
<1>10. CASE SetRecord
  <2>1. ~Covers(Current.bytes, Depth(Current.mask), Zeros)
    BY <1>5, <1>6, <1>7 DEF AliasesApart
  <2>2. \A r : Leads(Zeros, Ipv4Bits, r) => Leads(Zeros, Ipv4Bits, r)'
    BY <1>1, <1>10, <2>1, ZerosProperties, SetRecordLeads
  <2>3. PICK w : w = NodeToSet
    OBVIOUS
  <2>4. /\ w \in 1..Len(node) /\ a[n] \in Bit /\ Len(node') = Len(node)
        /\ node'[w][a[n]] = AliasRecord(i)
        /\ \A j \in 1..Len(node), c \in Bit : j # w \/ c # a[n] => node'[j][c] = node[j][c]
    BY <1>1, <1>7, <1>10, <2>3, SetRecordSets
  <2>5. ASSUME NEW j \in 1..Len(node'), NEW c \in Bit, node'[j][c].type = "alias",
               NEW v, v = node'[j][c].value
        PROVE  Leads(Zeros, Ipv4Bits, NodeRecord(v))'
    <3>1. Leads(Zeros, Ipv4Bits, NodeRecord(v))
      <4>1. CASE j = w /\ c = a[n]
        BY <1>3, <2>4, <2>5, <4>1 DEF AliasRecord
      <4>2. CASE j # w \/ c # a[n]
        BY <2>4, <2>5, <4>2 DEF OneTarget
      <4>. QED
        BY <4>1, <4>2
    <3>. QED
      BY <2>2, <3>1
  <2>. QED
    BY <2>5 DEF OneTarget
<1>. QED
  BY <1>1, <1>9, <1>10

\* The calls of alias_ipv4_networks lead to a node that is deep enough.
LEMMA AliasCallsLevels ==
  ASSUME AliasesFit, AliasesApart, HeapInv, Levels, HasIpv4Node, AliasIpv4Networks,
         OwnWay(Zeros, Ipv4Bits - 1)
  PROVE  Levels'
<1>1. PICK i \in 1..Len(node) :
        /\ Leads(Zeros, Ipv4Bits, NodeRecord(i))
        /\ AliasCalls = [k \in 1..Len(Ipv4Aliases) |-> AliasCall(k, i)]
  BY Ipv4Leads
<1>2. UNCHANGED node /\ calls' = [k \in 1..Len(Ipv4Aliases) |-> AliasCall(k, i)]
  BY <1>1 DEF AliasIpv4Networks
<1>3. PICK d : IsLevel(d)
  BY DEF Levels
<1>4. d[i] = Ipv4Bits
  <2>1. PICK p : p = Way(Zeros)[Ipv4Bits - 1]
    OBVIOUS
  <2>2. p # 0 /\ d[p] = Ipv4Bits - 1
    BY <1>1, <1>3, <2>1, ZerosProperties, OwnLevel DEF Leads
  <2>3. p \in 1..Len(node) /\ node[p][0] = NodeRecord(i)
    BY <1>1, <2>1, <2>2, ZerosProperties, WayType DEF Leads, HeapInv
  <2>4. d[i] = d[p] + 1
    BY <1>3, <2>3 DEF IsLevel, NodeRecord, Bit
  <2>. QED
    BY <2>2, <2>4, HeapAssumption
<1>5. PICK calls2 : calls2 = calls'
  OBVIOUS
<1>6. Len(calls2) = Len(Ipv4Aliases) /\ \A k \in 1..Len(calls2) : calls2[k] = AliasCall(k, i)
  BY <1>2, <1>5, HeapAssumption
<1>7. ASSUME NEW k \in 1..Len(calls2)
      PROVE  d[calls2[k].new.value] >= Depth(calls2[k].mask)
  <2>1. k \in 1..Len(Ipv4Aliases) /\ calls2[k] = AliasCall(k, i)
    BY <1>6
  <2>2. Depth(Ipv4Aliases[k][2]) = Ipv4Aliases[k][2]
    BY <2>1, AliasNetworks
  <2>3. Ipv4Aliases[k][2] \in 1..Ipv4Bits
    BY <2>1 DEF AliasesFit
  <2>. QED
    BY <1>4, <2>1, <2>2, <2>3, HeapAssumption DEF AliasCall, AliasRecord
<1>8. IsLevel(d)'
  BY <1>2, <1>3, <1>5, <1>7 DEF IsLevel
<1>. QED
  BY <1>8 DEF Levels

LEMMA SameLevels == Levels /\ UNCHANGED heapVars => Levels'
BY DEF Levels, IsLevel, heapVars

-------------------------------------------------------------------------------
(* What is kept from one call to the next *)

Stored == Data \cup {Clash}

\* The node count that is kept is that of the tree as it is.
Counted == node_count_attr # NoCount =>
             is_finalized /\ node_count_attr = node_count /\ op # "insert"

\* A tree with alias networks is aliased before it is written.
AliasedFile ==
  /\ op = "write" \/ file # NoFile
  /\ AliasIpv6ToIpv4 /\ HasIpv4Node /\ Ipv4Aliases # <<>>
  => Aliasing

KeptInv ==
  /\ LifecycleInv /\ Levels /\ OneTarget /\ Counted /\ AliasedFile
  /\ section \in Seq(Stored)
  /\ op # "none" => file = NoFile

LEMMA InitKept == Init => KeptInv
<1>. SUFFICES ASSUME Init PROVE KeptInv
  OBVIOUS
<1>1. LifecycleInv
  BY InitLifecycle
<1>2. Levels
  BY LevelsInit DEF Init
<1>3. OneTarget
  <2>1. InsertInv
    BY InsertInvInit DEF Init
  <2>. QED
    BY <2>1 DEF InsertInv, NoAlias, OneTarget
<1>4. Counted /\ AliasedFile /\ section \in Seq(Stored) /\ op = "none"
  BY DEF Init, Counted, AliasedFile
<1>. QED
  BY <1>1, <1>2, <1>3, <1>4 DEF KeptInv

\* Before an insert returns, there are no aliases.
LEMMA InsertingLevels ==
  ASSUME Levels, LifecycleInv', op' = "insert", UNCHANGED node
  PROVE  Levels' /\ OneTarget'
<1>1. NoAlias'
  BY DEF LifecycleInv, Inserting, InsertInv
<1>. QED
  BY <1>1, InsertLevels, NoAliasOneTarget

LEMMA BeginAliasLevels ==
  ASSUME AliasesFit, AliasesApart, IsCareful, KeptInv, Idle, CarefulAlias, BeginAlias,
         op' \in {"alias", "write"}
  PROVE  /\ LifecycleInv' /\ Levels' /\ OneTarget'
         /\ HasIpv4Node' /\ Ipv4Aliases # <<>> => Aliasing'
<1>1. HeapInv /\ calls = <<>> /\ (Inserting \/ Aliasing) /\ Levels /\ OneTarget
  BY DEF KeptInv, LifecycleInv, Idle
<1>2. LifecycleInv'
  BY BeginAliasKeeps DEF KeptInv
<1>3. UNCHANGED node
  BY DEF BeginAlias, AliasIpv4Networks, heapVars
<1>4. OneTarget'
  BY <1>3, OneTargetSame DEF KeptInv
<1>5. HasIpv4Node' = HasIpv4Node
  <2>1. PICK zeros : zeros = [i \in 1..Width |-> 0]
    OBVIOUS
  <2>2. Way(zeros)' = Way(zeros)
    BY <1>3, WaySame
  <2>. QED
    BY <1>3, <2>1, <2>2 DEF HasIpv4Node
<1>6. CASE HasIpv4Node
  <2>1. AliasIpv4Networks
    BY <1>6 DEF BeginAlias
  <2>2. OwnWay(Zeros, Ipv4Bits - 1)
    <3>1. CASE Inserting
      BY <1>1, <3>1, ZerosProperties, NoAliasOwnWay DEF Inserting, InsertInv
    <3>2. CASE Aliasing
      BY <1>1, <3>2, AliasesAreSet DEF Leads
    <3>. QED
      BY <1>1, <3>1, <3>2
  <2>3. Levels'
    BY <1>1, <1>6, <2>1, <2>2, AliasCallsLevels DEF KeptInv
  <2>4. Ipv4Aliases # <<>> => calls' # <<>>
    <3>. SUFFICES ASSUME Ipv4Aliases # <<>> PROVE calls' # <<>>
      OBVIOUS
    <3>1. Len(Ipv4Aliases) \in Nat \ {0}
      BY HeapAssumption
    <3>2. PICK calls2 : calls2 = calls'
      OBVIOUS
    <3>3. DOMAIN calls2 = 1..Len(Ipv4Aliases)
      BY <2>1, <3>2 DEF AliasIpv4Networks, AliasCalls
    <3>4. 1 \in DOMAIN calls2
      BY <3>1, <3>3
    <3>. QED
      BY <3>2, <3>4
  <2>5. Ipv4Aliases # <<>> => Aliasing'
    BY <1>2, <2>4 DEF LifecycleInv
  <2>. QED
    BY <1>2, <1>4, <2>3, <2>5
<1>7. CASE ~HasIpv4Node
  <2>1. Levels'
    BY <1>7, SameLevels DEF BeginAlias, KeptInv
  <2>. QED
    BY <1>2, <1>4, <1>5, <1>7, <2>1
<1>. QED
  BY <1>6, <1>7

LEMMA TreeStepLevels ==
  ASSUME AliasesApart, KeptInv, TreeStep
  PROVE  LifecycleInv' /\ Levels' /\ OneTarget' /\ op # "none" /\ (Aliasing => Aliasing' \/ op = "insert")
<1>1. LifecycleInv' /\ LifecycleInv /\ Levels /\ OneTarget
  BY TreeStepKeeps DEF KeptInv
<1>2. /\ MakeNextNode \/ MergeIntoNode \/ InsertIntoParent \/ SetRecord
      /\ UNCHANGED op /\ HeapInv /\ Step
  BY <1>1 DEF TreeStep, HeapStep, LifecycleInv, Step
<1>3. calls # <<>> /\ op # "none"
  BY <1>1, <1>2 DEF MakeNextNode, MergeIntoNode, InsertIntoParent, SetRecord, Found,
                    Running, LifecycleInv
<1>4. CASE op = "insert"
  <2>1. NoAlias /\ NoAlias'
    BY <1>1, <1>2, <1>4 DEF LifecycleInv, Inserting, InsertInv
  <2>2. CallsOwn
    BY <1>2, <2>1, NoAliasCallsOwn
  <2>3. Levels'
    <3>1. CASE MakeNextNode
      BY <1>1, <1>2, <2>2, <3>1, MakeNextNodeLevels
    <3>2. CASE SetRecord
      BY <1>1, <1>2, <2>2, <3>2, SetRecordLevels
    <3>3. CASE MergeIntoNode \/ InsertIntoParent
      BY <1>1, <2>1, <3>3, InsertLevels DEF MergeIntoNode, InsertIntoParent
    <3>. QED
      BY <1>2, <3>1, <3>2, <3>3
  <2>. QED
    BY <1>1, <1>3, <1>4, <2>1, <2>3, NoAliasOneTarget
<1>5. CASE op # "insert"
  <2>1. Aliasing
    BY <1>1, <1>3, <1>5 DEF LifecycleInv
  <2>2. CallsOwn /\ (MakeNextNode \/ SetRecord)
    BY <1>2, <2>1, PendingStep DEF Aliasing
  <2>3. Levels'
    BY <1>1, <1>2, <2>2, MakeNextNodeLevels, SetRecordLevels
  <2>4. OneTarget'
    BY <1>1, <1>2, <2>1, AliasStepTargets
  <2>5. Aliasing'
    <3>1. UNCHANGED is_finalized
      BY DEF TreeStep, HeapStep
    <3>. QED
      BY <1>2, <2>1, <3>1, AliasSteps
  <2>. QED
    BY <1>1, <1>3, <2>3, <2>4, <2>5
<1>. QED
  BY <1>4, <1>5

-------------------------------------------------------------------------------
(* Every node that a walk comes to is numbered *)

LEMMA ListedType ==
  ASSUME HeapInv
  PROVE  /\ Len(Preorder) \in Nat \ {0}
         /\ ToSet(Preorder) = {Preorder[k] : k \in 1..Len(Preorder)}
         /\ \A i \in ToSet(Preorder) : i \in 1..Len(node)
         /\ Preorder[1] = Root
<1>1. PICK order : order = Preorder
  OBVIOUS
<1>2. order \in Seq(1..Len(node)) /\ Root \in ToSet(order)
  BY <1>1, OrderIsWalk
<1>3. ToSet(order) = {order[k] : k \in 1..Len(order)} /\ Len(order) \in Nat
  <2>1. Len(order) \in Nat /\ DOMAIN order = 1..Len(order)
    BY <1>2
  <2>. QED
    BY <2>1, Zenon DEF ToSet
<1>4. order[1] = Root
  <2>1. PICK v : IsVisit(v) /\ order = v[Root]
    BY <1>1, PreorderVisits
  <2>2. Root \in 1..Len(node)
    BY DEF HeapInv, Root
  <2>3. \A j \in 1..Len(node) : v[j] \in Seq(1..Len(node))
    BY <2>1, VisitType
  <2>4. PICK s, t : s = Below(v, node[Root][0]) /\ t = Below(v, node[Root][1])
    OBVIOUS
  <2>5. s \in Seq(1..Len(node)) /\ t \in Seq(1..Len(node)) /\ order = <<Root>> \o s \o t
    BY <2>1, <2>2, <2>3, <2>4, ListedParts DEF Bit
  <2>6. PICK one : one = <<Root>>
    OBVIOUS
  <2>7. one \in Seq(1..Len(node)) /\ Len(one) = 1 /\ one[1] = Root
    BY <2>2, <2>6
  <2>8. /\ one \o s \in Seq(1..Len(node)) /\ Len(one \o s) = Len(one) + Len(s)
        /\ \A i \in 1 .. Len(one) + Len(s) :
             (one \o s)[i] = IF i <= Len(one) THEN one[i] ELSE s[i - Len(one)]
    BY <2>5, <2>7, ConcatProperties
  <2>9. PICK u : u = one \o s
    OBVIOUS
  <2>10. u \in Seq(1..Len(node)) /\ Len(u) \in Nat \ {0} /\ u[1] = Root
    BY <2>5, <2>7, <2>8, <2>9
  <2>11. \A i \in 1 .. Len(u) + Len(t) :
             (u \o t)[i] = IF i <= Len(u) THEN u[i] ELSE t[i - Len(u)]
    BY <2>5, <2>10, ConcatProperties
  <2>12. (u \o t)[1] = Root
    BY <2>5, <2>10, <2>11
  <2>. QED
    BY <2>5, <2>6, <2>9, <2>12
<1>5. Len(order) # 0
  BY <1>2, <1>3
<1>6. \A i \in ToSet(order) : i \in 1..Len(node)
  BY <1>2, <1>3
<1>. QED
  BY <1>1, <1>3, <1>4, <1>5, <1>6

LEMMA OwnWayListed ==
  ASSUME HeapInv, NEW a \in Address, NEW n \in 0 .. Width - 1, OwnWay(a, n), Way(a)[n] # 0
  PROVE  Way(a)[n] \in ToSet(Preorder)
<1>. DEFINE Wrong == {k \in 0 .. Width - 1 : OwnWay(a, k) /\ Way(a)[k] # 0
                                              /\ Way(a)[k] \notin ToSet(Preorder)}
<1>1. ASSUME NEW m \in Wrong, \A k \in Wrong : m <= k PROVE FALSE
  <2>1. CASE m = 0
    <3>1. Way(a)[0] = Root
      BY <2>1, <1>1, WayType
    <3>. QED
      BY <2>1, <3>1, <1>1, OrderIsWalk
  <2>2. CASE m # 0
    <3>1. m \in 1 .. Width - 1 /\ m - 1 \in 0 .. Width - 1 /\ m \in Nat /\ ~(m <= m - 1)
      BY <2>2, WidthAssumption
    <3>2. PICK u, w : u = Way(a)[m-1] /\ w = Way(a)[m]
      OBVIOUS
    <3>3. u \in 1..Len(node) /\ w \in 1..Len(node) /\ <<u, a[m]>> \in Owners(w)
      BY <3>1, <3>2, <1>1, OwnWayOwner
    <3>4. OwnWay(a, m-1) /\ u # 0
      BY <1>1, <3>1, <3>3, OwnWayAbove DEF HeapInv
    <3>5. u \in ToSet(Preorder)
      BY <1>1, <3>1, <3>2, <3>4
    <3>6. node[u][a[m]] = NodeRecord(w) /\ a[m] \in Bit
      BY <3>3 DEF Owners
    <3>7. w \in ToSet(Preorder)
      BY <3>5, <3>6, OrderIsWalk DEF NodeRecord
    <3>. QED
      BY <1>1, <3>2, <3>7
  <2>. QED
    BY <2>1, <2>2
<1>2. Wrong \in SUBSET Nat
  OBVIOUS
<1>. HIDE DEF Wrong
<1>3. Wrong = {}
  BY <1>1, <1>2, Least
<1>. QED
  BY <1>3 DEF Wrong

LEMMA PointedListed ==
  ASSUME HeapInv, OneTarget, NEW u \in ToSet(Preorder), NEW b \in Bit, Points(node[u][b])
  PROVE  node[u][b].value \in ToSet(Preorder)
<1>0. u \in 1..Len(node)
  BY ListedType
<1>1. CASE node[u][b].type = "node"
  BY <1>1, OrderIsWalk
<1>2. CASE node[u][b].type = "alias"
  <2>1. PICK v : v = node[u][b].value
    OBVIOUS
  <2>2. Leads(Zeros, Ipv4Bits, NodeRecord(v))
    BY <1>0, <1>2, <2>1 DEF OneTarget
  <2>3. PICK w : w = Way(Zeros)[Ipv4Bits - 1]
    OBVIOUS
  <2>4. w # 0 /\ node[w][0] = NodeRecord(v) /\ w \in ToSet(Preorder)
    BY <2>2, <2>3, ZerosProperties, OwnWayListed DEF Leads
  <2>5. v \in ToSet(Preorder)
    BY <2>4, OrderIsWalk DEF NodeRecord, Bit
  <2>. QED
    BY <2>1, <2>5
<1>. QED
  BY <1>1, <1>2 DEF Points

LEMMA WayListed ==
  ASSUME HeapInv, OneTarget, NEW a \in Address, NEW n \in 0 .. Width - 1, Way(a)[n] # 0
  PROVE  Way(a)[n] \in ToSet(Preorder)
<1>. DEFINE Wrong == {k \in 0 .. Width - 1 : Way(a)[k] # 0 /\ Way(a)[k] \notin ToSet(Preorder)}
<1>1. ASSUME NEW m \in Wrong, \A k \in Wrong : m <= k PROVE FALSE
  <2>1. CASE m = 0
    <3>1. Way(a)[0] = Root
      BY <2>1, <1>1, WayType
    <3>. QED
      BY <2>1, <3>1, <1>1, OrderIsWalk
  <2>2. CASE m # 0
    <3>1. m \in 1 .. Width - 1 /\ m - 1 \in 0 .. Width - 1 /\ m \in Nat /\ ~(m <= m - 1)
      BY <2>2, WidthAssumption
    <3>2. PICK u, w : u = Way(a)[m-1] /\ w = Way(a)[m]
      OBVIOUS
    <3>7. a[m] \in Bit
      <4>1. m \in 1..Width
        BY <3>1, WidthAssumption
      <4>. QED
        BY <4>1 DEF Address
    <3>8. Way(a)[m] = Down(Way(a)[m-1], a[m])
      BY <2>2, <1>1, <3>1, WaySteps DEF WaysGoDown
    <3>3. w # 0 /\ w = Down(u, a[m]) /\ a[m] \in Bit
      BY <1>1, <3>2, <3>7, <3>8
    <3>4. u # 0 /\ Points(node[u][a[m]]) /\ w = node[u][a[m]].value
      BY <3>3 DEF Down
    <3>5. u \in ToSet(Preorder)
      BY <1>1, <3>1, <3>2, <3>4
    <3>6. w \in ToSet(Preorder)
      BY <3>3, <3>4, <3>5, PointedListed
    <3>. QED
      BY <1>1, <3>2, <3>6
  <2>. QED
    BY <2>1, <2>2
<1>2. Wrong \in SUBSET Nat
  OBVIOUS
<1>. HIDE DEF Wrong
<1>3. Wrong = {}
  BY <1>1, <1>2, Least
<1>. QED
  BY <1>3 DEF Wrong

-------------------------------------------------------------------------------
(* Sequences laid end to end, and what Encode has done after each record *)

\* The recursive definition of FlattenSeq has a solution, which it takes.
LEMMA FlattenExists ==
  ASSUME NEW seqs, NEW n \in Nat \ {0}, Len(seqs) = n
  PROVE  \E f : /\ f = [i \in 1..n |-> IF i = 1 THEN seqs[i] ELSE f[i-1] \o seqs[i]]
                /\ FlattenSeq(seqs) = f[n]
<1>. DEFINE IsFlat(f, k) ==
              f = [i \in 1..k |-> IF i = 1 THEN seqs[i] ELSE f[i-1] \o seqs[i]]
            Without == {k \in 1..n : ~ \E f : IsFlat(f, k)}
<1>1. ASSUME NEW k \in Without, \A j \in Without : k <= j
      PROVE  FALSE
  <2>1. CASE k = 1
    <3>. DEFINE f == [i \in 1..1 |-> seqs[1]]
    <3>1. f = [i \in 1..1 |-> IF i = 1 THEN seqs[i] ELSE f[i-1] \o seqs[i]]
      OBVIOUS
    <3>. QED
      BY <2>1, <3>1
  <2>2. CASE k # 1
    <3>. HIDE DEF IsFlat
    <3>1. k \in 1..n /\ k - 1 \in 1..n
      BY <2>2
    <3>2. ~(k <= k - 1)
      BY <3>1
    <3>5. k - 1 \notin Without
      BY <1>1, <3>2
    <3>6. \E u : IsFlat(u, k - 1)
      BY <3>1, <3>5
    <3>. USE DEF IsFlat
    <3>7. PICK u : IsFlat(u, k - 1)
      BY <3>6
    <3>. DEFINE f == [i \in 1..k |-> IF i = 1 THEN seqs[i] ELSE u[i-1] \o seqs[i]]
    <3>3. \A i \in 1..k : i # 1 => f[i-1] = u[i-1]
      <4>. SUFFICES ASSUME NEW i \in 1..k, i # 1 PROVE f[i-1] = u[i-1]
        OBVIOUS
      <4>1. i - 1 \in 1..k /\ i - 1 \in 1..k-1
        BY <1>1
      <4>2. u[i-1] = IF i - 1 = 1 THEN seqs[i-1] ELSE u[i-1-1] \o seqs[i-1]
        BY <3>7, <4>1
      <4>. QED
        BY <4>1, <4>2
    <3>4. f = [i \in 1..k |-> IF i = 1 THEN seqs[i] ELSE f[i-1] \o seqs[i]]
      BY <3>3
    <3>. QED
      BY <3>4
  <2>. QED
    BY <2>1, <2>2
<1>2. Without = {}
  <2>. HIDE DEF IsFlat
  <2>1. Without \in SUBSET Nat
    OBVIOUS
  <2>. HIDE DEF Without
  <2>. QED
    BY <1>1, <2>1, Least
<1>3. \E f : IsFlat(f, n)
  <2>1. n \in 1..n
    OBVIOUS
  <2>. HIDE DEF IsFlat
  <2>. QED
    BY <1>2, <2>1
<1>4. PICK g : g = CHOOSE f : f = [i \in 1..n |-> IF i = 1 THEN seqs[i] ELSE f[i-1] \o seqs[i]]
  OBVIOUS
<1>5. g = [i \in 1..n |-> IF i = 1 THEN seqs[i] ELSE g[i-1] \o seqs[i]]
  BY <1>3, <1>4
<1>6. FlattenSeq(seqs) = g[n]
  BY <1>4 DEF FlattenSeq
<1>. QED
  BY <1>5, <1>6

LEMMA Joining ==
  ASSUME NEW T, NEW s \in Seq(T), NEW t \in Seq(T)
  PROVE  /\ s \o t \in Seq(T) /\ Len(s \o t) = Len(s) + Len(t)
         /\ \A i \in 1..Len(s) : (s \o t)[i] = s[i]
         /\ \A j \in 1..Len(t) : (s \o t)[Len(s) + j] = t[j]
BY ConcatProperties

\* Sequences of one length are laid end to end.
LaidOut(seqs, w, T) ==
  /\ FlattenSeq(seqs) \in Seq(T)
  /\ Len(FlattenSeq(seqs)) = w * Len(seqs)
  /\ \A i \in 1..Len(seqs), j \in 1..w : FlattenSeq(seqs)[w * (i - 1) + j] = seqs[i][j]

LEMMA Flattened ==
  ASSUME NEW T, NEW w \in Nat, NEW seqs \in Seq(Seq(T)), seqs # <<>>,
         \A i \in 1..Len(seqs) : Len(seqs[i]) = w
  PROVE  LaidOut(seqs, w, T)
<1>0. PICK n : n = Len(seqs)
  OBVIOUS
<1>1. n \in Nat \ {0}
  BY <1>0
<1>2. PICK f : /\ f = [i \in 1..n |-> IF i = 1 THEN seqs[i] ELSE f[i-1] \o seqs[i]]
               /\ FlattenSeq(seqs) = f[n]
  BY <1>0, <1>1, FlattenExists
<1>3. \A i \in 1..n : f[i] = IF i = 1 THEN seqs[i] ELSE f[i-1] \o seqs[i]
  BY <1>2
<1>. DEFINE InPlace(k) == /\ f[k] \in Seq(T) /\ Len(f[k]) = w * k
                          /\ \A i \in 1..k, j \in 1..w : f[k][w * (i - 1) + j] = seqs[i][j]
            Wrong == {k \in 1..n : ~InPlace(k)}
<1>4. ASSUME NEW k \in Wrong, \A j \in Wrong : k <= j
      PROVE  FALSE
  <2>. HIDE DEF InPlace
  <2>0. k \in 1..n /\ k \in Nat
    BY <1>1
  <2>3. seqs[k] \in Seq(T) /\ Len(seqs[k]) = w
    BY <1>0, <2>0
  <2>1. CASE k = 1
    <3>1. f[1] = seqs[1]
      BY <1>3, <2>0, <2>1
    <3>2. w * 1 = w /\ \A j \in 1..w : w * (1 - 1) + j = j
      OBVIOUS
    <3>. QED
      BY <2>0, <2>1, <2>3, <3>1, <3>2 DEF InPlace
  <2>2. CASE k # 1
    <3>1. k - 1 \in 1..n /\ k - 1 \in Nat /\ ~(k <= k - 1)
      BY <1>1, <2>0, <2>2
    <3>2. InPlace(k - 1)
      BY <1>4, <3>1
    <3>3. f[k] = f[k-1] \o seqs[k]
      BY <1>3, <2>0, <2>2
    <3>4. PICK p : p = w * (k - 1)
      OBVIOUS
    <3>5. w * k = p + w /\ p \in Nat
      BY <3>1, <3>4
    <3>6. f[k-1] \in Seq(T) /\ Len(f[k-1]) = p
          /\ \A i \in 1..k-1, j \in 1..w : f[k-1][w * (i - 1) + j] = seqs[i][j]
      BY <3>2, <3>4 DEF InPlace
    <3>7. /\ f[k] \in Seq(T) /\ Len(f[k]) = p + w
          /\ \A i \in 1..p : f[k][i] = f[k-1][i]
          /\ \A j \in 1..w : f[k][p + j] = seqs[k][j]
      <4>1. PICK u, t : u = f[k-1] /\ t = seqs[k]
        OBVIOUS
      <4>2. f[k] = u \o t /\ u \in Seq(T) /\ Len(u) = p /\ t \in Seq(T) /\ Len(t) = w
        BY <2>3, <3>3, <3>6, <4>1
      <4>3. /\ u \o t \in Seq(T) /\ Len(u \o t) = Len(u) + Len(t)
            /\ \A i \in 1..Len(u) : (u \o t)[i] = u[i]
            /\ \A j \in 1..Len(t) : (u \o t)[Len(u) + j] = t[j]
        <5>1. u \in Seq(T) /\ t \in Seq(T)
          BY <4>2
        <5>. QED
          BY ONLY <5>1, Joining
      <4>. QED
        BY <4>1, <4>2, <4>3
    <3>8. ASSUME NEW i \in 1..k, NEW j \in 1..w PROVE f[k][w * (i - 1) + j] = seqs[i][j]
      <4>1. CASE i = k
        <5>1. f[k][p + j] = seqs[k][j]
          BY <3>7
        <5>. QED
          BY <3>4, <4>1, <5>1
      <4>2. CASE i # k
        <5>1. i \in 1..k-1 /\ i - 1 \in Nat /\ k - 1 - i \in Nat
          BY <2>0, <4>2
        <5>2. PICK q, r : q = w * (i - 1) /\ r = w * (k - 1 - i)
          OBVIOUS
        <5>3. q \in Nat /\ r \in Nat /\ p = q + w + r
          BY <2>0, <3>4, <5>1, <5>2
        <5>4. q + j \in 1..p
          BY <5>3
        <5>5. f[k][q + j] = f[k-1][q + j]
          BY <3>7, <5>4
        <5>. QED
          BY <3>6, <5>1, <5>2, <5>5
      <4>. QED
        BY <4>1, <4>2
    <3>. QED
      BY <3>5, <3>7, <3>8 DEF InPlace
  <2>. QED
    BY <2>1, <2>2
<1>5. Wrong = {}
  <2>. HIDE DEF InPlace
  <2>1. Wrong \in SUBSET Nat
    OBVIOUS
  <2>. HIDE DEF Wrong
  <2>. QED
    BY <1>4, <2>1, Least
<1>6. InPlace(n)
  <2>1. n \in 1..n
    BY <1>1
  <2>. HIDE DEF InPlace
  <2>. QED
    BY <1>5, <2>1
<1>7. /\ f[n] \in Seq(T) /\ Len(f[n]) = w * n
      /\ \A i \in 1..n, j \in 1..w : f[n][w * (i - 1) + j] = seqs[i][j]
  BY <1>6
<1>. HIDE DEF InPlace, Wrong
<1>. QED
  BY <1>0, <1>2, <1>7 DEF LaidOut

LEMMA MaxIs ==
  ASSUME NEW S \in SUBSET Nat, NEW k \in S, \A j \in S : j <= k
  PROVE  Max(S) = k
<1>1. PICK m : m = Max(S)
  OBVIOUS
<1>2. m \in S /\ \A y \in S : m >= y
  <2>1. \A y \in S : k >= y
    OBVIOUS
  <2>. QED
    BY <1>1, <2>1 DEF Max
<1>3. m >= k /\ m <= k /\ m \in Nat /\ k \in Nat
  BY <1>2
<1>. QED
  BY <1>1, <1>3

\* What Encode has done after each of the records: the definition of FoldLeft.
EncodesTo(base, s, n) ==
  \E f : /\ f[0] = base
         /\ \A k \in 1..n : f[k] = Encode(f[k-1], s[k])
         /\ FoldLeft(Encode, base, s) = f[n]

LEMMA EncodeFold ==
  ASSUME NEW base, NEW s, NEW n \in Nat, DOMAIN s = 1..n
  PROVE  EncodesTo(base, s, n)
<1>. DEFINE Turn(g, t) == IF t = {} THEN base ELSE Encode(g[t \ {Max(t)}], s[Max(t)])
            IsFold(g, k) == g = [t \in SUBSET (1..k) |-> Turn(g, t)]
            Without == {k \in 0..n : ~ \E g : IsFold(g, k)}
<1>1. ASSUME NEW k \in Without, \A j \in Without : k <= j
      PROVE  FALSE
  <2>0. k \in 0..n /\ k \in Nat
    OBVIOUS
  <2>1. CASE k = 0
    <3>. DEFINE g == [t \in SUBSET (1..0) |-> base]
    <3>1. \A t \in SUBSET (1..0) : t = {}
      OBVIOUS
    <3>2. g = [t \in SUBSET (1..0) |-> Turn(g, t)]
      BY <3>1
    <3>. QED
      BY <2>1, <3>2
  <2>2. CASE k # 0
    <3>. HIDE DEF IsFold
    <3>1. k - 1 \in 0..n /\ ~(k <= k - 1)
      BY <2>0, <2>2
    <3>2. k - 1 \notin Without
      BY <1>1, <3>1
    <3>3. PICK u : IsFold(u, k - 1)
      BY <3>1, <3>2
    <3>4. \A t \in SUBSET (1 .. k-1) : u[t] = Turn(u, t)
      BY <3>3 DEF IsFold
    <3>. DEFINE g == [t \in SUBSET (1..k) |->
                        IF k \in t THEN Encode(u[t \ {k}], s[k]) ELSE u[t]]
    <3>5. \A t \in SUBSET (1..k) : k \notin t => t \in SUBSET (1 .. k-1) /\ g[t] = u[t]
      BY <2>0
    <3>6. \A t \in SUBSET (1..k) : k \in t => g[t] = Encode(u[t \ {k}], s[k])
      OBVIOUS
    <3>. HIDE DEF g
    <3>7. ASSUME NEW t \in SUBSET (1..k) PROVE g[t] = Turn(g, t)
      <4>1. CASE k \in t
        <5>1. Max(t) = k /\ t # {}
          <6>1. t \in SUBSET Nat /\ \A j \in t : j <= k
            BY <2>0
          <6>. QED
            BY <4>1, <6>1, MaxIs
        <5>2. t \ {k} \in SUBSET (1..k) /\ k \notin t \ {k}
          OBVIOUS
        <5>3. g[t \ {k}] = u[t \ {k}]
          BY <3>5, <5>2
        <5>. QED
          BY <3>6, <4>1, <5>1, <5>3
      <4>2. CASE k \notin t
        <5>1. t \in SUBSET (1 .. k-1) /\ g[t] = u[t] /\ u[t] = Turn(u, t)
          BY <3>4, <3>5, <4>2
        <5>2. CASE t = {}
          BY <5>1, <5>2
        <5>3. CASE t # {}
          <6>1. PICK r : r = t \ {Max(t)}
            OBVIOUS
          <6>2. r \in SUBSET (1..k) /\ k \notin r
            BY <4>2, <6>1
          <6>3. g[r] = u[r]
            BY <3>5, <6>2
          <6>. QED
            BY <5>1, <5>3, <6>1, <6>3
        <5>. QED
          BY <5>2, <5>3
      <4>. QED
        BY <4>1, <4>2
    <3>8. g = [t \in SUBSET (1..k) |-> g[t]]
      BY DEF g
    <3>. HIDE DEF Turn
    <3>9. IsFold(g, k)
      BY <3>7, <3>8 DEF IsFold
    <3>. QED
      BY <1>1, <3>9
  <2>. QED
    BY <2>1, <2>2
<1>2. Without = {}
  <2>. HIDE DEF IsFold
  <2>1. Without \in SUBSET Nat
    OBVIOUS
  <2>. HIDE DEF Without
  <2>. QED
    BY <1>1, <2>1, Least
<1>3. \E g : IsFold(g, n)
  <2>1. n \in 0..n
    OBVIOUS
  <2>. HIDE DEF IsFold
  <2>. QED
    BY <1>2, <2>1
<1>. HIDE DEF Without
<1>4. PICK g : g = CHOOSE h : h = [t \in SUBSET DOMAIN s |->
                                     IF t = {} THEN base
                                     ELSE Encode(h[t \ {Max(t)}], s[Max(t)])]
  OBVIOUS
<1>5. FoldLeft(Encode, base, s) = g[1..n]
  BY <1>4 DEF FoldLeft, MapThenFoldSet
<1>6. g = [t \in SUBSET (1..n) |-> Turn(g, t)]
  BY <1>3, <1>4
<1>7. \A t \in SUBSET (1..n) : g[t] = Turn(g, t)
  BY <1>6
<1>. DEFINE f == [k \in 0..n |-> g[1..k]]
<1>8. f[0] = base
  <2>1. 1..0 = {} /\ {} \in SUBSET (1..n) /\ 0 \in 0..n
    OBVIOUS
  <2>. QED
    BY <1>7, <2>1
<1>9. ASSUME NEW k \in 1..n PROVE f[k] = Encode(f[k-1], s[k])
  <2>1. 1..k \in SUBSET (1..n) /\ 1..k # {} /\ k \in 0..n /\ k - 1 \in 0..n
    <3>1. \A j \in 1..k : j \in 1..n
      OBVIOUS
    <3>2. 1 \in 1..k
      OBVIOUS
    <3>3. k \in 0..n /\ k - 1 \in 0..n
      OBVIOUS
    <3>. QED
      BY <3>1, <3>2, <3>3
  <2>2. Max(1..k) = k
    <3>1. 1..k \in SUBSET Nat /\ k \in 1..k /\ \A j \in 1..k : j <= k
      OBVIOUS
    <3>. QED
      BY <3>1, MaxIs
  <2>3. (1..k) \ {k} = 1 .. k-1
    OBVIOUS
  <2>. QED
    BY <1>7, <2>1, <2>2, <2>3
<1>10. f[n] = g[1..n]
  OBVIOUS
<1>. HIDE DEF f, Turn
<1>. QED
  BY <1>5, <1>8, <1>9, <1>10 DEF EncodesTo

-------------------------------------------------------------------------------
(* The values of the records that are written *)

\* The payload x was stored at a place that the value v of a data record names.
Placed(s, x, v) ==
  \E p \in 0 .. Len(s) - 1 : s[p+1] = x /\ v = DataValue(StoredSize * p)

\* The value of a record is that of the record_value_as_number of its type.
ValueOf(s, r, v) ==
  /\ Fits(v)
  /\ r.type = "empty" => v = FinalCount
  /\ Points(r) => v = FinalNumber[r.value]
  /\ IsData(r) => Placed(s, r.value, v)

CacheOf(s, c) == \A x \in DOMAIN c : Placed(s, x, c[x])

Done(s, c, v, croaked) == [section |-> s, cache |-> c, values |-> v, croaked |-> croaked]

\* What Encode has done after the first k records.
EncodedTo(d, rs, k) ==
  \E s \in Seq(Stored) : \E c, v :
    \/ d = Done(s, c, v, TRUE)
    \/ /\ d = Done(s, c, v, FALSE)
       /\ CacheOf(s, c) /\ v \in Seq(Int) /\ Len(v) = k
       /\ \A j \in 1..k : ValueOf(s, rs[j], v[j])

Entered(c, key, value) == [data \in {key} \cup DOMAIN c |->
                             IF data = key THEN value ELSE c[data]]

LEMMA EncodeCroaked ==
  ASSUME NEW s, NEW c, NEW v, NEW r
  PROVE  Encode(Done(s, c, v, TRUE), r) = Done(s, c, v, TRUE)
BY DEF Encode, Done

LEMMA CroakedChanged ==
  ASSUME NEW s, NEW c, NEW v, NEW u \in BOOLEAN, NEW w \in BOOLEAN
  PROVE  [Done(s, c, v, u) EXCEPT !.croaked = w] = Done(s, c, v, w)
BY DEF Done

LEMMA ValuesChanged ==
  ASSUME NEW s, NEW c, NEW v, NEW u, NEW w, NEW d, d = Done(s, c, v, u)
  PROVE  [d EXCEPT !.values = w] = Done(s, c, w, u)
BY DEF Done

LEMMA CacheChanged ==
  ASSUME NEW s, NEW c, NEW v, NEW u, NEW w, NEW d, d = Done(s, c, v, u)
  PROVE  [d EXCEPT !.cache = w] = Done(s, w, v, u)
BY DEF Done

LEMMA SectionChanged ==
  ASSUME NEW s, NEW c, NEW v, NEW u, NEW w, NEW d, d = Done(s, c, v, u)
  PROVE  [d EXCEPT !.section = w] = Done(w, c, v, u)
BY DEF Done

LEMMA Croaking ==
  ASSUME NEW s, NEW c, NEW v, NEW d, d = Done(s, c, v, FALSE)
  PROVE  [d EXCEPT !.croaked = TRUE] = Done(s, c, v, TRUE)
<1>1. PICK f \in BOOLEAN, g \in BOOLEAN : f = FALSE /\ g = TRUE
  OBVIOUS
<1>2. [Done(s, c, v, f) EXCEPT !.croaked = g] = Done(s, c, v, g)
  BY CroakedChanged
<1>. QED
  BY <1>1, <1>2

\* One record: its value, and what it stores.
OneEncoded(s, c, v, r) ==
  \E value, s2, c2 :
    /\ Encode(Done(s, c, v, FALSE), r) =
         IF Fits(value) THEN Done(s2, c2, Append(v, value), FALSE)
         ELSE Done(s2, c2, v, TRUE)
    /\ \/ r.type = "empty" /\ value = FinalCount /\ s2 = s /\ c2 = c
       \/ Points(r) /\ value = FinalNumber[r.value] /\ s2 = s /\ c2 = c
       \/ IsData(r) /\ r.value \in DOMAIN c /\ value = c[r.value] /\ s2 = s /\ c2 = c
       \/ /\ IsData(r) /\ r.value \notin DOMAIN c
          /\ value = DataValue(StoredSize * Len(s))
          /\ s2 = Append(s, r.value) /\ c2 = Entered(c, r.value, value)

LEMMA EncodeOne ==
  ASSUME NEW s, NEW c, NEW v, NEW r, r.type \in {"empty", "node", "alias", "data"}
  PROVE  OneEncoded(s, c, v, r)
<1>0. PICK d : d = Done(s, c, v, FALSE)
  OBVIOUS
<1>. DEFINE cached == IsData(r) /\ r.value \in DOMAIN d.cache
            value == IF r.type = "empty" THEN FinalCount
                     ELSE IF Points(r) THEN FinalNumber[r.value]
                     ELSE IF cached THEN d.cache[r.value]
                     ELSE DataValue(StoredSize * Len(d.section))
            stored == IF IsData(r) /\ ~cached
                      THEN [d EXCEPT !.section = Append(@, r.value),
                                     !.cache = Entered(@, r.value, value)]
                      ELSE d
            s2 == IF IsData(r) /\ ~cached THEN Append(s, r.value) ELSE s
            c2 == IF IsData(r) /\ ~cached THEN Entered(c, r.value, value) ELSE c
<1>3. Encode(d, r) = IF d.croaked THEN d
                     ELSE IF Fits(value) THEN [stored EXCEPT !.values = Append(@, value)]
                     ELSE [stored EXCEPT !.croaked = TRUE]
  BY Zenon DEF Encode, Entered
<1>4. d.section = s /\ d.cache = c /\ d.values = v /\ d.croaked = FALSE
  BY <1>0 DEF Done
<1>5. stored = Done(s2, c2, v, FALSE)
  <2>1. PICK A, B, u : A = Append(s, r.value) /\ B = Entered(c, r.value, value) /\ u = FALSE
    OBVIOUS
  <2>2. [d EXCEPT !.section = A, !.cache = B] = Done(A, B, v, u)
    <3>1. d = Done(s, c, v, u)
      BY <1>0, <2>1
    <3>2. PICK e : e = [d EXCEPT !.section = A]
      OBVIOUS
    <3>3. [d EXCEPT !.section = A] = Done(A, c, v, u)
      BY ONLY <3>1, SectionChanged
    <3>4. e = Done(A, c, v, u)
      BY <3>2, <3>3
    <3>5. [e EXCEPT !.cache = B] = Done(A, B, v, u)
      BY ONLY <3>4, CacheChanged
    <3>. QED
      BY <3>2, <3>5
  <2>3. [d EXCEPT !.section = Append(@, r.value), !.cache = Entered(@, r.value, value)]
        = [d EXCEPT !.section = A, !.cache = B]
    BY <1>4, <2>1
  <2>. HIDE DEF value, cached
  <2>. QED
    BY <1>0, <2>1, <2>2, <2>3
<1>6. \E e : /\ e = Done(s2, c2, v, FALSE)
              /\ [e EXCEPT !.croaked = TRUE] = Done(s2, c2, v, TRUE)
              /\ [e EXCEPT !.values = Append(@, value)] = Done(s2, c2, Append(v, value), FALSE)
  <2>. HIDE DEF value, s2, c2, stored
  <2>1. PICK A, B, z : A = s2 /\ B = c2 /\ z = value
    OBVIOUS
  <2>2. PICK e : e = Done(A, B, v, FALSE)
    OBVIOUS
  <2>3. [e EXCEPT !.croaked = TRUE] = Done(A, B, v, TRUE)
    BY ONLY <2>2, Croaking
  <2>4. e.values = v
    BY <2>2 DEF Done
  <2>5. PICK w, u : w = Append(v, z) /\ u = FALSE
    OBVIOUS
  <2>6. e = Done(A, B, v, u)
    BY <2>2, <2>5
  <2>7. [e EXCEPT !.values = w] = Done(A, B, w, u)
    BY ONLY <2>6, ValuesChanged
  <2>8. [e EXCEPT !.values = Append(@, z)] = Done(A, B, Append(v, z), FALSE)
    BY <2>4, <2>5, <2>7
  <2>. QED
    BY <2>1, <2>2, <2>3, <2>8
<1>1. Encode(Done(s, c, v, FALSE), r) =
        IF Fits(value) THEN Done(s2, c2, Append(v, value), FALSE)
        ELSE Done(s2, c2, v, TRUE)
  <2>. HIDE DEF value, s2, c2, stored
  <2>. QED
    BY <1>0, <1>3, <1>4, <1>5, <1>6
<1>2. \/ r.type = "empty" /\ value = FinalCount /\ s2 = s /\ c2 = c
      \/ Points(r) /\ value = FinalNumber[r.value] /\ s2 = s /\ c2 = c
      \/ IsData(r) /\ r.value \in DOMAIN c /\ value = c[r.value] /\ s2 = s /\ c2 = c
      \/ /\ IsData(r) /\ r.value \notin DOMAIN c
         /\ value = DataValue(StoredSize * Len(s))
         /\ s2 = Append(s, r.value) /\ c2 = Entered(c, r.value, value)
  BY <1>4 DEF Points, IsData
<1>. HIDE DEF value, s2, c2
<1>. QED
  BY <1>1, <1>2 DEF OneEncoded

LEMMA PlacedLater ==
  ASSUME NEW s \in Seq(Stored), NEW y \in Stored, NEW x, NEW v, Placed(s, x, v)
  PROVE  Placed(Append(s, y), x, v)
<1>1. PICK t : t = Append(s, y)
  OBVIOUS
<1>2. Len(t) = Len(s) + 1 /\ (\A i \in 1..Len(s) : t[i] = s[i]) /\ Len(s) \in Nat
  BY <1>1, AppendProperties
<1>3. PICK p \in 0 .. Len(s) - 1 : s[p+1] = x /\ v = DataValue(StoredSize * p)
  BY DEF Placed
<1>4. p \in 0 .. Len(t) - 1 /\ t[p+1] = x
  BY <1>2, <1>3
<1>. QED
  BY <1>1, <1>3, <1>4 DEF Placed

LEMMA PlacedLast ==
  ASSUME NEW s \in Seq(Stored), NEW x \in Stored
  PROVE  Placed(Append(s, x), x, DataValue(StoredSize * Len(s)))
<1>1. PICK t : t = Append(s, x)
  OBVIOUS
<1>2. Len(t) = Len(s) + 1 /\ t[Len(s) + 1] = x /\ Len(s) \in Nat
  BY <1>1, AppendProperties
<1>3. PICK p : p = Len(s)
  OBVIOUS
<1>4. p \in 0 .. Len(t) - 1 /\ t[p+1] = x
  BY <1>2, <1>3
<1>5. DataValue(StoredSize * Len(s)) = DataValue(StoredSize * p)
  BY <1>3
<1>. QED
  BY <1>1, <1>4, <1>5 DEF Placed

LEMMA Sizes == Separator \in Nat \ {0} /\ StoredSize \in Nat \ {0}
BY LifecycleAssumption, Zenon

LEMMA DataValueType == ASSUME NEW x \in Nat, FinalCount \in Nat PROVE DataValue(x) \in Nat
<1>1. PICK s, q : s = x + FinalCount + Separator /\ q = Byte * Byte * Byte * Byte
  OBVIOUS
<1>2. s \in Nat
  BY <1>1, Sizes
<1>3. q \in Nat \ {0}
  <2>1. Byte \in Nat \ {0}
    BY ByteType
  <2>2. PICK h : h = Byte * Byte
    OBVIOUS
  <2>3. h \in Nat \ {0} /\ q = h * h
    BY <1>1, <2>1, <2>2
  <2>. QED
    BY <2>3
<1>4. s % q \in Nat
  BY <1>2, <1>3
<1>. QED
  BY <1>1, <1>4 DEF DataValue

LEMMA PlacedType ==
  ASSUME NEW s \in Seq(Stored), NEW x, NEW v, Placed(s, x, v), FinalCount \in Nat
  PROVE  v \in Nat
<1>1. PICK p \in 0 .. Len(s) - 1 : v = DataValue(StoredSize * p)
  BY DEF Placed
<1>2. StoredSize * p \in Nat
  BY Sizes
<1>. QED
  BY <1>1, <1>2, DataValueType

Writable(r) ==
  /\ r.type \in {"empty", "node", "alias", "data"}
  /\ Points(r) => FinalNumber[r.value] \in Nat
  /\ IsData(r) => r.value \in Stored

LEMMA EncodeStep ==
  ASSUME FinalCount \in Nat, NEW rs, NEW k \in Nat, NEW d, EncodedTo(d, rs, k), Writable(rs[k+1])
  PROVE  EncodedTo(Encode(d, rs[k+1]), rs, k+1)
<1>1. PICK s \in Seq(Stored) : \E c, v :
        \/ d = Done(s, c, v, TRUE)
        \/ /\ d = Done(s, c, v, FALSE)
           /\ CacheOf(s, c) /\ v \in Seq(Int) /\ Len(v) = k
           /\ \A j \in 1..k : ValueOf(s, rs[j], v[j])
  BY DEF EncodedTo
<1>4. PICK c, v :
        \/ d = Done(s, c, v, TRUE)
        \/ /\ d = Done(s, c, v, FALSE)
           /\ CacheOf(s, c) /\ v \in Seq(Int) /\ Len(v) = k
           /\ \A j \in 1..k : ValueOf(s, rs[j], v[j])
  BY <1>1
<1>2. CASE d = Done(s, c, v, TRUE)
  <2>1. Encode(d, rs[k+1]) = Done(s, c, v, TRUE)
    BY <1>2, EncodeCroaked
  <2>. QED
    BY <2>1 DEF EncodedTo
<1>3. CASE /\ d = Done(s, c, v, FALSE)
           /\ CacheOf(s, c) /\ v \in Seq(Int) /\ Len(v) = k
           /\ \A j \in 1..k : ValueOf(s, rs[j], v[j])
  <2>1. PICK r : r = rs[k+1]
    OBVIOUS
  <2>2. PICK value, s2, c2 :
           /\ Encode(Done(s, c, v, FALSE), r) =
                IF Fits(value) THEN Done(s2, c2, Append(v, value), FALSE)
                ELSE Done(s2, c2, v, TRUE)
           /\ \/ r.type = "empty" /\ value = FinalCount /\ s2 = s /\ c2 = c
              \/ Points(r) /\ value = FinalNumber[r.value] /\ s2 = s /\ c2 = c
              \/ IsData(r) /\ r.value \in DOMAIN c /\ value = c[r.value] /\ s2 = s /\ c2 = c
              \/ /\ IsData(r) /\ r.value \notin DOMAIN c
                 /\ value = DataValue(StoredSize * Len(s))
                 /\ s2 = Append(s, r.value) /\ c2 = Entered(c, r.value, value)
    <3>1. r.type \in {"empty", "node", "alias", "data"}
      BY <2>1 DEF Writable
    <3>2. OneEncoded(s, c, v, r)
      BY ONLY <3>1, EncodeOne
    <3>. QED
      BY <3>2 DEF OneEncoded
  <2>3. s2 \in Seq(Stored) /\ \A x, y : Placed(s, x, y) => Placed(s2, x, y)
    <3>1. CASE s2 = s
      BY <3>1
    <3>2. CASE IsData(r) /\ s2 = Append(s, r.value)
      BY <2>1, <3>2, PlacedLater, AppendProperties DEF Writable
    <3>. QED
      BY <2>2, <3>1, <3>2
  <2>4. /\ r.type = "empty" => value = FinalCount
        /\ Points(r) => value = FinalNumber[r.value]
        /\ IsData(r) => Placed(s2, r.value, value)
    <3>1. CASE r.type = "empty"
      BY <2>2, <3>1 DEF Points, IsData
    <3>2. CASE Points(r)
      BY <2>2, <3>2 DEF Points, IsData
    <3>3. CASE IsData(r) /\ r.value \in DOMAIN c
      BY <1>3, <2>2, <3>3 DEF Points, IsData, CacheOf
    <3>4. CASE IsData(r) /\ r.value \notin DOMAIN c
      <4>1. r.value \in Stored
        BY <2>1, <3>4 DEF Writable
      <4>2. Placed(Append(s, r.value), r.value, DataValue(StoredSize * Len(s)))
        BY <4>1, PlacedLast
      <4>. QED
        BY <2>2, <3>4, <4>2 DEF Points, IsData
    <3>. QED
      BY <2>1, <3>1, <3>2, <3>3, <3>4 DEF Writable, Points, IsData
  <2>5. value \in Int
    BY <2>1, <2>3, <2>4, PlacedType DEF Writable, Points, IsData
  <2>6. CacheOf(s2, c2)
    <3>1. CASE c2 = c
      BY <1>3, <2>3, <3>1 DEF CacheOf
    <3>2. CASE IsData(r) /\ c2 = Entered(c, r.value, value)
      <4>1. PICK y : y = r.value
        OBVIOUS
      <4>2. /\ DOMAIN c2 = {y} \cup DOMAIN c
            /\ \A x \in DOMAIN c2 : c2[x] = IF x \in {y} THEN value ELSE c[x]
        BY <3>2, <4>1 DEF Entered
      <4>3. Placed(s2, y, value)
        BY <2>4, <3>2, <4>1
      <4>4. ASSUME NEW x \in DOMAIN c2 PROVE Placed(s2, x, c2[x])
        BY <1>3, <2>3, <4>2, <4>3 DEF CacheOf
      <4>. QED
        BY <4>4 DEF CacheOf
    <3>. QED
      BY <2>2, <3>1, <3>2
  <2>7. CASE Fits(value)
    <3>1. PICK v2 : v2 = Append(v, value)
      OBVIOUS
    <3>2. /\ v2 \in Seq(Int) /\ Len(v2) = k + 1 /\ v2[k+1] = value
          /\ \A j \in 1..k : v2[j] = v[j]
      BY <1>3, <2>5, <3>1, AppendProperties
    <3>3. \A j \in 1 .. k+1 : ValueOf(s2, rs[j], v2[j])
      <4>1. ASSUME NEW j \in 1..k PROVE ValueOf(s2, rs[j], v2[j])
        BY <1>3, <2>3, <3>2 DEF ValueOf
      <4>2. ValueOf(s2, rs[k+1], v2[k+1])
        BY <2>1, <2>4, <2>7, <3>2 DEF ValueOf
      <4>3. \A j \in 1 .. k+1 : j \in 1..k \/ j = k+1
        OBVIOUS
      <4>. QED
        BY <4>1, <4>2, <4>3
    <3>4. Encode(d, r) = Done(s2, c2, v2, FALSE)
      BY <1>3, <2>2, <2>7, <3>1
    <3>5. EncodedTo(Done(s2, c2, v2, FALSE), rs, k+1)
      BY <2>3, <2>6, <3>2, <3>3, Zenon DEF EncodedTo
    <3>. QED
      BY <2>1, <3>4, <3>5
  <2>8. CASE ~Fits(value)
    <3>1. Encode(d, r) = Done(s2, c2, v, TRUE)
      BY <1>3, <2>2, <2>8
    <3>2. EncodedTo(Done(s2, c2, v, TRUE), rs, k+1)
      BY <2>3, Zenon DEF EncodedTo
    <3>. QED
      BY <2>1, <3>1, <3>2
  <2>. QED
    BY <2>7, <2>8
<1>. QED
  BY <1>2, <1>3, <1>4

\* The nodes of the tree are numbered in the order in which they are iterated.
InOrder == /\ FinalCount = Len(Preorder)
           /\ \A k \in 1..Len(Preorder) : FinalNumber[Preorder[k]] = k - 1

LEMMA ListedWritable ==
  ASSUME HeapInv, OneTarget, InOrder, NEW u \in ToSet(Preorder), NEW b \in Bit
  PROVE  Writable(node[u][b]) /\ node[u][b] \in HeapRecord
<1>1. node[u][b] \in HeapRecord
  BY ListedType DEF HeapInv
<1>2. PICK r : r = node[u][b]
  OBVIOUS
<1>3. /\ r.type \in {"empty", "node", "alias", "data"}
      /\ IsData(r) => r.value \in Stored
  <2>1. r \in HeapRecord
    BY <1>1, <1>2
  <2>2. CASE r \in [type : {"node", "alias"}, value : 1..Len(node)]
    BY <2>2 DEF IsData
  <2>3. CASE r \in NoPointer
    BY <2>3 DEF NoPointer, EmptyRecord, DataRecord, IsData, Stored
  <2>. QED
    BY <2>1, <2>2, <2>3 DEF HeapRecord
<1>4. ASSUME Points(r) PROVE FinalNumber[r.value] \in Nat
  <2>1. r.value \in ToSet(Preorder)
    BY <1>2, <1>4, PointedListed
  <2>2. PICK k \in 1..Len(Preorder) : r.value = Preorder[k]
    BY <2>1, ListedType
  <2>. QED
    BY <2>2 DEF InOrder
<1>. QED
  BY <1>1, <1>2, <1>3, <1>4 DEF Writable

\* The records of the nodes, in the order in which they are written.
Written(rs, n) ==
  /\ DOMAIN rs = 1 .. 2 * n
  /\ \A k \in 1..n : /\ rs[2 * (k - 1) + 1] = node[Preorder[k]][0]
                     /\ rs[2 * (k - 1) + 2] = node[Preorder[k]][1]

LEMMA EncodedIs ==
  ASSUME HeapInv, OneTarget, InOrder, section \in Seq(Stored)
  PROVE  \E rs : Written(rs, Len(Preorder)) /\ EncodedTo(Encoded, rs, 2 * Len(Preorder))
<1>. DEFINE seqs == [k \in 1..Len(Preorder) |-> <<node[Preorder[k]][0], node[Preorder[k]][1]>>]
            base == [section |-> section, cache |-> <<>>, values |-> <<>>, croaked |-> FALSE]
<1>1. PICK n : n = Len(Preorder)
  OBVIOUS
<1>2. n \in Nat \ {0} /\ FinalCount = n
  BY <1>1, ListedType DEF InOrder
<1>3. PICK rs, s : s = seqs /\ rs = FlattenSeq(s)
  OBVIOUS
<1>4. Encoded = FoldLeft(Encode, base, rs)
  BY <1>3, Zenon DEF Encoded
<1>5. PICK T : T = HeapRecord
  OBVIOUS
<1>6. \A k \in 1..n, b \in Bit : Writable(node[Preorder[k]][b]) /\ node[Preorder[k]][b] \in T
  BY <1>1, <1>5, ListedType, ListedWritable
<1>7. /\ DOMAIN s = 1..n
      /\ \A k \in 1..n : s[k] = <<node[Preorder[k]][0], node[Preorder[k]][1]>>
  BY <1>1, <1>3
<1>8. \A k \in 1..n : /\ s[k] \in Seq(T) /\ Len(s[k]) = 2
                      /\ s[k][1] = node[Preorder[k]][0] /\ s[k][2] = node[Preorder[k]][1]
  <2>1. ASSUME NEW k \in 1..n
        PROVE  /\ s[k] \in Seq(T) /\ Len(s[k]) = 2
               /\ s[k][1] = node[Preorder[k]][0] /\ s[k][2] = node[Preorder[k]][1]
    <3>1. PICK x, y, q : x = node[Preorder[k]][0] /\ y = node[Preorder[k]][1] /\ q = s[k]
      OBVIOUS
    <3>2. x \in T /\ y \in T
      BY <1>6, <3>1 DEF Bit
    <3>3. q = <<x, y>>
      BY <1>7, <3>1
    <3>4. q \in Seq(T) /\ Len(q) = 2 /\ q[1] = x /\ q[2] = y
      BY ONLY <3>2, <3>3
    <3>. QED
      BY <3>1, <3>4
  <2>. QED
    BY <2>1
<1>9. s \in Seq(Seq(T)) /\ Len(s) = n /\ s # <<>>
  <2>1. s = [k \in 1..n |-> s[k]]
    BY <1>1, <1>3
  <2>2. s \in [1..n -> Seq(T)]
    BY <1>8, <2>1
  <2>. QED
    BY <1>2, <2>2, SeqDef
<1>10. /\ rs \in Seq(T) /\ Len(rs) = 2 * n
       /\ \A i \in 1..n, j \in 1..2 : rs[2 * (i - 1) + j] = s[i][j]
  <2>1. PICK w, flat : w = 2 /\ flat = FlattenSeq(s)
    OBVIOUS
  <2>2. w \in Nat /\ s \in Seq(Seq(T)) /\ s # <<>> /\ \A i \in 1..Len(s) : Len(s[i]) = w
    BY <1>8, <1>9, <2>1
  <2>3. LaidOut(s, w, T)
    BY ONLY <2>2, Flattened
  <2>. QED
    BY <1>3, <1>9, <2>1, <2>3 DEF LaidOut
<1>11. Written(rs, n)
  BY <1>2, <1>8, <1>10 DEF Written
<1>12. ASSUME NEW m \in 1 .. 2 * n PROVE Writable(rs[m])
  <2>1. PICK k \in 1..n : m = 2 * (k - 1) + 1 \/ m = 2 * (k - 1) + 2
    <3>1. PICK k : k = (m + 1) \div 2
      OBVIOUS
    <3>2. k \in 1..n /\ (m = 2 * (k - 1) + 1 \/ m = 2 * (k - 1) + 2)
      BY <1>2, <3>1
    <3>. QED
      BY <3>2
  <2>. QED
    BY <1>6, <1>11, <2>1 DEF Written, Bit
<1>13. PICK g : /\ g[0] = base
                /\ \A k \in 1 .. 2 * n : g[k] = Encode(g[k-1], rs[k])
                /\ Encoded = g[2 * n]
  <2>1. 2 * n \in Nat /\ DOMAIN rs = 1 .. 2 * n
    BY <1>2, <1>10
  <2>2. PICK m, init : m = 2 * n /\ init = base
    OBVIOUS
  <2>3. m \in Nat /\ DOMAIN rs = 1..m
    BY <2>1, <2>2
  <2>4. PICK f : /\ f[0] = init
                 /\ \A k \in 1..m : f[k] = Encode(f[k-1], rs[k])
                 /\ FoldLeft(Encode, init, rs) = f[m]
    <3>1. EncodesTo(init, rs, m)
      BY ONLY <2>3, EncodeFold
    <3>. QED
      BY <3>1 DEF EncodesTo
  <2>5. f[0] = base /\ Encoded = f[2 * n]
    BY <1>4, <2>2, <2>4
  <2>. HIDE DEF base
  <2>. QED
    BY <2>2, <2>4, <2>5
<1>14. EncodedTo(g[0], rs, 0)
  <2>1. PICK c, v : c = <<>> /\ v = <<>>
    OBVIOUS
  <2>2. g[0] = Done(section, c, v, FALSE)
    BY <1>13, <2>1 DEF Done
  <2>3. CacheOf(section, c)
    BY <2>1 DEF CacheOf
  <2>4. v \in Seq(Int) /\ Len(v) = 0 /\ \A j \in 1..0 : ValueOf(section, rs[j], v[j])
    BY <2>1
  <2>. QED
    BY <2>2, <2>3, <2>4 DEF EncodedTo
<1>. DEFINE Wrong == {k \in 0 .. 2 * n : ~EncodedTo(g[k], rs, k)}
<1>15. ASSUME NEW k \in Wrong, \A j \in Wrong : k <= j PROVE FALSE
  <2>1. k \in 1 .. 2 * n /\ k - 1 \in 0 .. 2 * n /\ k - 1 \in Nat /\ ~(k <= k - 1)
    BY <1>2, <1>14, <1>15
  <2>2. EncodedTo(g[k-1], rs, k-1)
    BY <1>15, <2>1
  <2>3. PICK j : j = k - 1
    OBVIOUS
  <2>4. j \in Nat /\ j + 1 = k /\ g[k] = Encode(g[j], rs[j+1]) /\ EncodedTo(g[j], rs, j)
        /\ Writable(rs[j+1])
    BY <1>12, <1>13, <2>1, <2>2, <2>3
  <2>5. EncodedTo(Encode(g[j], rs[j+1]), rs, j+1)
    BY <1>2, <2>4, EncodeStep
  <2>. QED
    BY <1>15, <2>4, <2>5
<1>16. Wrong \in SUBSET Nat
  BY <1>2
<1>. HIDE DEF Wrong
<1>17. Wrong = {}
  BY <1>15, <1>16, Least
<1>18. EncodedTo(g[2 * n], rs, 2 * n)
  BY <1>2, <1>17 DEF Wrong
<1>. QED
  BY <1>1, <1>11, <1>13, <1>18

-------------------------------------------------------------------------------
(* The bytes that are printed *)

LEMMA BytesString ==
  ASSUME NEW v \in Nat
  PROVE  IsString(Bytes(v), 4) /\ IsString(Rest(v), 3) /\ Bytes(v)[1] \in Nat
<1>1. PICK q1, q2, q3 \in Nat : Bytes(v) = <<q3 % Byte, q2 % Byte, q1 % Byte, v % Byte>>
  BY BytesAre
<1>2. PICK b1, b2, b3, b4 : b1 = q3 % Byte /\ b2 = q2 % Byte /\ b3 = q1 % Byte /\ b4 = v % Byte
  OBVIOUS
<1>3. b1 \in Nat /\ b2 \in Nat /\ b3 \in Nat /\ b4 \in Nat
  <2>1. \A x \in Nat : x % Byte \in Nat
    BY ByteType, DivMod
  <2>. QED
    BY <1>2, <2>1
<1>4. PICK b, r : b = Bytes(v) /\ r = Tail(b)
  OBVIOUS
<1>5. b = <<b1, b2, b3, b4>>
  BY <1>1, <1>2, <1>4
<1>6. r = <<b2, b3, b4>>
  BY ONLY <1>4, <1>5
<1>7. b \in Seq(Nat) /\ Len(b) = 4 /\ b[1] = b1
  BY ONLY <1>3, <1>5
<1>8. r \in Seq(Nat) /\ Len(r) = 3
  BY ONLY <1>3, <1>6
<1>. QED
  BY <1>3, <1>4, <1>7, <1>8, Zenon DEF IsString, Rest

LEMMA NodeString ==
  ASSUME NEW size \in RecordSize, NEW left \in Nat, NEW right \in Nat
  PROVE  IsString(EncodeNode(size, left, right), NodeBytes(size))
<1>1. size = 24 \/ size = 28 \/ size = 32
  BY DEF RecordSize
<1>2. PICK a, s, b, t : /\ a = Bytes(left) /\ s = Rest(left)
                        /\ b = Bytes(right) /\ t = Rest(right)
  OBVIOUS
<1>3. /\ IsString(a, 4) /\ IsString(s, 3) /\ a[1] \in Nat
      /\ IsString(b, 4) /\ IsString(t, 3) /\ b[1] \in Nat
  BY ONLY left \in Nat, right \in Nat, <1>2, BytesString
<1>4. CASE size = 24
  <2>1. EncodeNode(24, left, right) = Join(s, t)
    BY ONLY <1>2, EncodeCases
  <2>2. IsString(Join(s, t), 3 + 3)
    BY ONLY <1>3, JoinedString
  <2>3. 3 + 3 = 6 /\ NodeBytes(24) = 6
    BY DEF NodeBytes
  <2>. QED
    BY ONLY <1>4, <2>1, <2>2, <2>3
<1>5. CASE size = 28
  <2>1. PICK middle, one : middle = MiddleByte(a, b) % Byte /\ one = <<middle>>
    OBVIOUS
  <2>2. EncodeNode(28, left, right) = Join(Join(s, one), t)
    BY ONLY <1>2, <2>1, EncodeCases
  <2>3. middle \in Nat
    <3>1. b[1] % Nibble \in Nat
      <4>1. PICK x \in Nat : x = b[1]
        BY <1>3
      <4>. QED
        BY ONLY x \in Nat, <4>1, ByteType, DivMod
    <3>2. a[1] * Nibble \in Nat
      BY <1>3, ByteType
    <3>3. MiddleByte(a, b) \in Nat
      BY <3>1, <3>2 DEF MiddleByte
    <3>. QED
      BY <2>1, <3>3, ByteType, DivMod
  <2>4. IsString(one, 1)
    BY ONLY <2>1, <2>3 DEF IsString
  <2>5. IsString(Join(s, one), 3 + 1)
    BY ONLY <1>3, <2>4, JoinedString
  <2>6. IsString(Join(Join(s, one), t), 3 + 1 + 3)
    BY ONLY <1>3, <2>5, JoinedString
  <2>7. 3 + 1 + 3 = 7 /\ NodeBytes(28) = 7
    BY DEF NodeBytes
  <2>. QED
    BY ONLY <1>5, <2>2, <2>6, <2>7
<1>6. CASE size = 32
  <2>1. EncodeNode(32, left, right) = Join(a, b)
    BY ONLY <1>2, EncodeCases
  <2>2. IsString(Join(a, b), 4 + 4)
    BY ONLY <1>3, JoinedString
  <2>3. 4 + 4 = 8 /\ NodeBytes(32) = 8
    BY DEF NodeBytes
  <2>. QED
    BY ONLY <1>6, <2>1, <2>2, <2>3
<1>. QED
  BY <1>1, <1>4, <1>5, <1>6

\* Each record of each node is read back.
ReadsBack(bytes, values, n) ==
  /\ Len(bytes) = n * NodeBytes(record_size)
  /\ \A k \in 1..n :
       /\ ReadRecord(record_size, bytes, k - 1, 0) = values[2 * (k - 1) + 1]
       /\ ReadRecord(record_size, bytes, k - 1, 1) = values[2 * (k - 1) + 2]

LEMMA PrintedReads ==
  ASSUME NEW values \in Seq(Int), NEW n \in Nat \ {0}, Len(values) = 2 * n,
         \A j \in 1 .. 2 * n : values[j] \in 0..MaxRecordValue(record_size)
  PROVE  ReadsBack(Printed(values), values, n)
<1>. DEFINE nodes == [k \in 1 .. Len(values) \div 2 |->
                        EncodeNode(record_size, values[2 * k - 1], values[2 * k])]
<1>1. PICK s, bytes, w, size : /\ s = nodes /\ bytes = Printed(values)
                               /\ w = NodeBytes(record_size) /\ size = record_size
  OBVIOUS
<1>2. bytes = FlattenSeq(s)
  BY <1>1, Zenon DEF Printed
<1>3. size \in RecordSize /\ w \in Nat \ {0}
  <2>1. size \in RecordSize
    BY <1>1, LifecycleAssumption, Zenon
  <2>. QED
    BY <1>1, <2>1 DEF NodeBytes
<1>4. Len(values) \div 2 = n
  OBVIOUS
<1>5. \A k \in 1..n : /\ values[2 * k - 1] \in 0..MaxRecordValue(size)
                      /\ values[2 * k] \in 0..MaxRecordValue(size)
                      /\ 2 * (k - 1) + 1 = 2 * k - 1 /\ 2 * (k - 1) + 2 = 2 * k
  BY <1>1
<1>6. /\ DOMAIN s = 1..n
      /\ \A k \in 1..n : s[k] = EncodeNode(size, values[2 * k - 1], values[2 * k])
  BY <1>1, <1>4
<1>7. \A k \in 1..n : IsString(s[k], w)
  <2>. TAKE k \in 1..n
  <2>1. PICK l, r : l = values[2 * k - 1] /\ r = values[2 * k]
    OBVIOUS
  <2>2. l \in Nat /\ r \in Nat
    BY <1>5, <2>1
  <2>3. IsString(EncodeNode(size, l, r), NodeBytes(size))
    BY ONLY <1>3, <2>2, NodeString
  <2>. QED
    BY <1>1, <1>6, <2>1, <2>3
<1>8. s \in Seq(Seq(Nat)) /\ Len(s) = n /\ s # <<>> /\ \A k \in 1..Len(s) : Len(s[k]) = w
  <2>1. \A k \in 1..n : s[k] \in Seq(Nat) /\ Len(s[k]) = w
    BY <1>7 DEF IsString
  <2>2. s = [k \in 1..n |-> s[k]]
    BY <1>1, <1>4
  <2>3. s \in [1..n -> Seq(Nat)]
    BY <2>1, <2>2
  <2>4. s \in Seq(Seq(Nat)) /\ Len(s) = n /\ s # <<>>
    BY <2>3, SeqDef
  <2>. QED
    BY <2>1, <2>4
<1>9. LaidOut(s, w, Nat)
  BY ONLY <1>3, <1>8, Flattened
<1>10. /\ bytes \in Seq(Nat) /\ Len(bytes) = w * n
       /\ \A i \in 1..n, j \in 1..w : bytes[w * (i - 1) + j] = s[i][j]
  BY <1>2, <1>8, <1>9 DEF LaidOut
<1>11. ASSUME NEW k \in 1..n
       PROVE  /\ ReadRecord(size, bytes, k - 1, 0) = values[2 * (k - 1) + 1]
              /\ ReadRecord(size, bytes, k - 1, 1) = values[2 * (k - 1) + 2]
  <2>1. PICK m, l, r : m = k - 1 /\ l = values[2 * k - 1] /\ r = values[2 * k]
    OBVIOUS
  <2>2. m \in Nat /\ m + 1 = k /\ l \in 0..MaxRecordValue(size) /\ r \in 0..MaxRecordValue(size)
    BY <1>5, <2>1
  <2>3. (m + 1) * NodeBytes(size) <= Len(bytes)
    <3>1. k * w <= n * w
      BY <1>3, TimesMonotonic
    <3>2. n * w = w * n
      BY <1>3
    <3>. QED
      BY <1>1, <1>10, <2>2, <3>1, <3>2
  <2>4. \A j \in 1..NodeBytes(size) :
          bytes[m * NodeBytes(size) + j] = EncodeNode(size, l, r)[j]
    <3>1. PICK o, code : o = w * (k - 1) /\ code = s[k]
      OBVIOUS
    <3>2. o = m * w
      BY <1>3, <2>1, <2>2, <3>1
    <3>3. \A j \in 1..w : bytes[o + j] = code[j]
      BY <1>10, <3>1
    <3>4. code = EncodeNode(size, l, r)
      BY <1>6, <2>1, <3>1
    <3>5. w = NodeBytes(size)
      BY <1>1
    <3>. QED
      BY ONLY <3>2, <3>3, <3>4, <3>5
  <2>5. ReadRecord(size, bytes, m, 0) = l /\ ReadRecord(size, bytes, m, 1) = r
    <3>1. bytes \in Seq(Nat)
      BY <1>10
    <3>. QED
      BY ONLY <1>3, <2>2, <2>3, <2>4, <3>1, NodesReadBack
  <2>. QED
    BY <1>5, <2>1, <2>5
<1>12. Len(bytes) = n * NodeBytes(record_size)
  BY <1>1, <1>3, <1>10
<1>. QED
  BY <1>1, <1>11, <1>12 DEF ReadsBack

-------------------------------------------------------------------------------
(* What a reader finds *)

NextAt(f, x, bit) ==
  IF x >= f.node_count THEN x
  ELSE IF ~((x + 1) * NodeBytes(record_size) \in 1 .. Len(f.nodes)) THEN -1
  ELSE ReadRecord(record_size, f.nodes, x, bit)

FoundAt(f, x) ==
  LET position == x - f.node_count - Separator
  IN IF x = f.node_count THEN Empty
     ELSE IF position % StoredSize = 0 /\ position \div StoredSize \in 0 .. Len(f.section) - 1
     THEN f.section[position \div StoredSize + 1]
     ELSE Clash

\* The reader's path is known if one function follows it.
LEMMA ReaderIs ==
  ASSUME NEW f, NEW a, NEW g,
         g = [n \in 0..Width |-> IF n = 0 THEN 0 ELSE NextAt(f, g[n-1], a[n])]
  PROVE  ReaderFinds(f, a) = FoundAt(f, g[Width])
<1>. DEFINE at[n \in 0..Width] ==
              IF n = 0 THEN 0
              ELSE IF at[n-1] >= f.node_count THEN at[n-1]
              ELSE IF ~((at[n-1] + 1) * NodeBytes(record_size) \in 1 .. Len(f.nodes)) THEN -1
              ELSE ReadRecord(record_size, f.nodes, at[n-1], a[n])
<1>1. ReaderFinds(f, a) = FoundAt(f, at[Width])
  BY DEF ReaderFinds, FoundAt
<1>2. at = [n \in 0..Width |-> IF n = 0 THEN 0 ELSE NextAt(f, at[n-1], a[n])]
  <2>1. PICK h : h = CHOOSE k : k = [n \in 0..Width |-> IF n = 0 THEN 0 ELSE NextAt(f, k[n-1], a[n])]
    OBVIOUS
  <2>2. h = [n \in 0..Width |-> IF n = 0 THEN 0 ELSE NextAt(f, h[n-1], a[n])]
    BY <2>1
  <2>3. h = at
    BY <2>1 DEF NextAt
  <2>. QED
    BY <2>2, <2>3
<1>. HIDE DEF at
<1>3. PICK h : h = at
  OBVIOUS
<1>4. \A n \in 0..Width : /\ h[n] = IF n = 0 THEN 0 ELSE NextAt(f, h[n-1], a[n])
                          /\ g[n] = IF n = 0 THEN 0 ELSE NextAt(f, g[n-1], a[n])
  BY <1>2, <1>3
<1>. DEFINE Wrong == {n \in 0..Width : h[n] # g[n]}
<1>5. ASSUME NEW n \in Wrong, \A k \in Wrong : n <= k PROVE FALSE
  <2>1. n \in 0..Width /\ n # 0
    BY <1>4, <1>5
  <2>2. n - 1 \in 0..Width /\ ~(n <= n - 1)
    BY <2>1, WidthAssumption
  <2>3. h[n-1] = g[n-1]
    BY <1>5, <2>2
  <2>4. h[n] = NextAt(f, h[n-1], a[n]) /\ g[n] = NextAt(f, g[n-1], a[n])
    BY <1>4, <2>1, Zenon
  <2>5. h[n] # g[n]
    BY <1>5
  <2>. QED
    BY <2>3, <2>4, <2>5, Zenon
<1>6. Wrong \in SUBSET Nat
  BY WidthAssumption
<1>. HIDE DEF Wrong
<1>7. Wrong = {}
  BY <1>5, <1>6, Least
<1>8. h[Width] = g[Width]
  <2>1. Width \in 0..Width
    BY WidthAssumption
  <2>. QED
    BY <1>7, <2>1 DEF Wrong
<1>. QED
  BY <1>1, <1>3, <1>8

\* A file describes the tree: each record of each node has its value.
Describes(f) ==
  /\ f.section \in Seq(Stored)
  /\ f.node_count = Len(Preorder)
  /\ Len(f.nodes) = Len(Preorder) * NodeBytes(record_size)
  /\ \A k \in 1..Len(Preorder), b \in Bit :
       ValueOf(f.section, node[Preorder[k]][b], ReadRecord(record_size, f.nodes, k - 1, b))

LEMMA FinishedFile ==
  ASSUME HeapInv, OneTarget, InOrder, section \in Seq(Stored), ~Encoded.croaked,
         NEW f, f = [nodes |-> Printed(Encoded.values), section |-> Encoded.section,
                     node_count |-> FinalCount]
  PROVE  Describes(f)
<1>1. PICK n : n = Len(Preorder)
  OBVIOUS
<1>2. n \in Nat \ {0} /\ FinalCount = n
  BY <1>1, ListedType DEF InOrder
<1>3. PICK rs : Written(rs, n) /\ EncodedTo(Encoded, rs, 2 * n)
  BY <1>1, EncodedIs
<1>4. PICK s \in Seq(Stored) : \E c, v :
        \/ Encoded = Done(s, c, v, TRUE)
        \/ /\ Encoded = Done(s, c, v, FALSE)
           /\ CacheOf(s, c) /\ v \in Seq(Int) /\ Len(v) = 2 * n
           /\ \A j \in 1 .. 2 * n : ValueOf(s, rs[j], v[j])
  BY <1>3 DEF EncodedTo
<1>5. PICK c, v :
        /\ Encoded = Done(s, c, v, FALSE)
        /\ v \in Seq(Int) /\ Len(v) = 2 * n
        /\ \A j \in 1 .. 2 * n : ValueOf(s, rs[j], v[j])
  <2>1. \A c, v : Encoded # Done(s, c, v, TRUE)
    BY DEF Done
  <2>. QED
    BY <1>4, <2>1
<1>6. Encoded.values = v /\ Encoded.section = s
  BY <1>5 DEF Done
<1>7. \A k \in 1..n : /\ 2 * (k - 1) + 1 \in 1 .. 2 * n /\ 2 * (k - 1) + 2 \in 1 .. 2 * n
                      /\ rs[2 * (k - 1) + 1] = node[Preorder[k]][0]
                      /\ rs[2 * (k - 1) + 2] = node[Preorder[k]][1]
  <2>1. \A k \in 1..n : /\ rs[2 * (k - 1) + 1] = node[Preorder[k]][0]
                        /\ rs[2 * (k - 1) + 2] = node[Preorder[k]][1]
    BY <1>3 DEF Written
  <2>2. \A k \in 1..n : 2 * (k - 1) + 1 \in 1 .. 2 * n /\ 2 * (k - 1) + 2 \in 1 .. 2 * n
    BY <1>2
  <2>. QED
    BY <2>1, <2>2
<1>8. ASSUME NEW j \in 1 .. 2 * n PROVE v[j] \in 0..MaxRecordValue(record_size)
  <2>1. \E k \in 1..n, b \in Bit : rs[j] = node[Preorder[k]][b]
    <3>1. PICK k : k = (j + 1) \div 2
      OBVIOUS
    <3>2. k \in 1..n /\ (j = 2 * (k - 1) + 1 \/ j = 2 * (k - 1) + 2)
      BY <1>2, <3>1
    <3>. QED
      BY <1>7, <3>2 DEF Bit
  <2>2. Writable(rs[j])
    BY <1>1, <2>1, ListedType, ListedWritable
  <2>3. v[j] \in Nat
    BY <1>2, <1>5, <2>2, PlacedType DEF ValueOf, Writable, Points, IsData
  <2>4. v[j] <= MaxRecordValue(record_size)
    BY <1>5 DEF ValueOf, Fits
  <2>. QED
    BY <2>3, <2>4
<1>9. ReadsBack(Printed(v), v, n)
  BY <1>2, <1>5, <1>8, PrintedReads
<1>10. PICK bytes : bytes = Printed(v)
  OBVIOUS
<1>11. f.nodes = bytes /\ f.section = s /\ f.node_count = n
  BY <1>2, <1>6, <1>10
<1>12. ASSUME NEW k \in 1..n, NEW b \in Bit
       PROVE  ValueOf(s, node[Preorder[k]][b], ReadRecord(record_size, bytes, k - 1, b))
  <2>1. CASE b = 0
    BY <1>5, <1>7, <1>9, <1>10, <2>1 DEF ReadsBack
  <2>2. CASE b = 1
    BY <1>5, <1>7, <1>9, <1>10, <2>2 DEF ReadsBack
  <2>. QED
    BY <2>1, <2>2 DEF Bit
<1>. QED
  BY <1>1, <1>9, <1>10, <1>11, <1>12 DEF Describes, ReadsBack

Small(f) == StoredSize * Len(f.section) + f.node_count + Separator < Byte * Byte * Byte * Byte

\* What is stored is found where the value says.
LEMMA DataFound ==
  ASSUME NEW f, f.section \in Seq(Stored), f.node_count = FinalCount, FinalCount \in Nat,
         Small(f), NEW x, NEW v, Placed(f.section, x, v)
  PROVE  v \in Nat /\ v > f.node_count /\ FoundAt(f, v) = x
<1>1. PICK p \in 0 .. Len(f.section) - 1 : f.section[p+1] = x /\ v = DataValue(StoredSize * p)
  BY DEF Placed
<1>2. PICK n, l, q, top : /\ n = FinalCount /\ l = Len(f.section) /\ q = StoredSize * p
                          /\ top = Byte * Byte * Byte * Byte
  OBVIOUS
<1>3. n \in Nat /\ l \in Nat /\ p \in 0 .. l-1 /\ p <= l
  BY <1>1, <1>2
<1>4. q \in Nat /\ q = p * StoredSize /\ q <= StoredSize * l
  <2>1. p * StoredSize <= l * StoredSize
    BY <1>3, Sizes, TimesMonotonic
  <2>2. q = p * StoredSize /\ l * StoredSize = StoredSize * l /\ q \in Nat
    BY <1>2, <1>3, Sizes
  <2>. QED
    BY <2>1, <2>2
<1>5. PICK r : r = StoredSize * l
  OBVIOUS
<1>6. r \in Nat /\ r + n + Separator < top /\ top \in Nat
  <2>1. r \in Nat
    BY <1>3, <1>5, Sizes
  <2>2. PICK h : h = Byte * Byte
    OBVIOUS
  <2>3. h \in Nat /\ top = h * h
    BY <1>2, <2>2, ByteType
  <2>. QED
    BY <1>2, <1>5, <2>1, <2>3 DEF Small
<1>7. v = q + n + Separator
  <2>1. PICK s : s = q + n + Separator
    OBVIOUS
  <2>2. s \in Nat /\ s < top
    BY <1>3, <1>4, <1>5, <1>6, <2>1, Sizes
  <2>3. s % top = s
    BY <1>6, <2>2
  <2>. QED
    BY <1>1, <1>2, <2>1, <2>3 DEF DataValue
<1>8. v \in Nat /\ v > n /\ v # n /\ v - n - Separator = q
  BY <1>3, <1>4, <1>7, Sizes
<1>9. q % StoredSize = 0 /\ q \div StoredSize = p
  <2>1. p \in Nat /\ 0 \in 0 .. StoredSize - 1
    BY <1>3, Sizes
  <2>2. (p * StoredSize + 0) \div StoredSize = p /\ (p * StoredSize + 0) % StoredSize = 0
    BY <2>1, Sizes, DivModUnique
  <2>3. p * StoredSize + 0 = q
    BY <1>4
  <2>. QED
    BY <2>2, <2>3
<1>10. FoundAt(f, v) = f.section[p+1]
  <2>1. FoundAt(f, v) = IF v = n THEN Empty
          ELSE IF q % StoredSize = 0 /\ q \div StoredSize \in 0 .. l - 1
          THEN f.section[q \div StoredSize + 1] ELSE Clash
    BY <1>2, <1>8 DEF FoundAt
  <2>. QED
    BY <1>3, <1>8, <1>9, <2>1
<1>. QED
  BY <1>1, <1>2, <1>8, <1>10

LEMMA WaysAbove ==
  ASSUME HeapInv, NEW a \in Address, NEW e \in 0 .. Width - 1, Way(a)[e] # 0,
         NEW n \in 0..e
  PROVE  Way(a)[n] # 0
<1>. DEFINE Zero == {k \in 0..e : Way(a)[e-k] = 0}
<1>1. ASSUME NEW k \in Zero, \A j \in Zero : k <= j PROVE FALSE
  <2>1. k \in 1..e /\ k - 1 \in 0..e /\ ~(k <= k - 1) /\ e - (k - 1) = e - k + 1
    BY <1>1
  <2>2. Way(a)[e - k + 1] # 0
    BY <1>1, <2>1
  <2>3. PICK m : m = e - k + 1
    OBVIOUS
  <2>4. m \in 0 .. Width - 1 /\ m # 0 /\ m - 1 = e - k
    BY <2>1, <2>3, WidthAssumption
  <2>5. Way(a)[m] = Down(Way(a)[m-1], a[m])
    BY <2>4, WayType
  <2>. QED
    BY <1>1, <2>2, <2>3, <2>4, <2>5 DEF Down
<1>2. Zero \in SUBSET Nat
  OBVIOUS
<1>3. e - n \in 0..e /\ e - (e - n) = n
  BY WidthAssumption
<1>. HIDE DEF Zero
<1>4. Zero = {}
  BY <1>1, <1>2, Least
<1>. QED
  BY <1>3, <1>4 DEF Zero

\* From the number of a node the reader gets the value of one of its records.
LEMMA NextValue ==
  ASSUME HeapInv, InOrder, NEW f, Describes(f), NEW u \in ToSet(Preorder), NEW b \in Bit
  PROVE  /\ FinalNumber[u] \in Nat
         /\ ValueOf(f.section, node[u][b], NextAt(f, FinalNumber[u], b))
<1>1. PICK k \in 1..Len(Preorder) : u = Preorder[k]
  BY ListedType
<1>2. PICK n, w, x : n = Len(Preorder) /\ w = NodeBytes(record_size) /\ x = k - 1
  OBVIOUS
<1>3. w \in Nat \ {0}
  <2>1. record_size \in RecordSize
    BY LifecycleAssumption, Zenon
  <2>. QED
    BY <1>2, <2>1 DEF NodeBytes
<1>4. n \in Nat \ {0} /\ k \in 1..n /\ x \in Nat /\ x + 1 = k /\ ~(x >= n)
  BY <1>1, <1>2, ListedType
<1>5. FinalNumber[u] = x
  BY <1>1, <1>2 DEF InOrder
<1>6. f.node_count = n /\ Len(f.nodes) = n * w
      /\ ValueOf(f.section, node[u][b], ReadRecord(record_size, f.nodes, x, b))
  BY <1>1, <1>2 DEF Describes
<1>7. (x + 1) * w \in 1 .. n * w
  <2>1. k * w <= n * w
    BY <1>3, <1>4, TimesMonotonic
  <2>2. k * w \in Nat \ {0} /\ n * w \in Nat
    BY <1>3, <1>4
  <2>. QED
    BY <1>4, <2>1, <2>2
<1>8. NextAt(f, x, b) = ReadRecord(record_size, f.nodes, x, b)
  BY <1>2, <1>4, <1>6, <1>7 DEF NextAt
<1>. QED
  BY <1>4, <1>5, <1>6, <1>8

LEMMA DescribedAnswers ==
  ASSUME HeapInv, Levels, OneTarget, InOrder, NEW f, Describes(f), Small(f), NEW a \in Address
  PROVE  ReaderFinds(f, a) = Lookup(a)
<1>1. PICK e \in 1..Width : EndsAt(a, e) /\ Lookup(a) = node[Way(a)[e-1]][a[e]].value
  <2>1. \E e \in 1..Width : EndsAt(a, e)
    BY AliasedWalksEnd DEF LookupFindsRecord, LookupEnds
  <2>2. PICK e : e = CHOOSE n \in 1..Width : EndsAt(a, n)
    OBVIOUS
  <2>3. e \in 1..Width /\ EndsAt(a, e)
    BY <2>1, <2>2
  <2>4. Lookup(a) = node[Way(a)[e-1]][a[e]].value
    BY <2>2 DEF Lookup
  <2>. QED
    BY <2>3, <2>4
<1>2. e - 1 \in 0 .. Width - 1 /\ e \in Nat /\ Width \in Nat /\ e <= Width
  BY WidthAssumption
<1>3. PICK u, r : u = Way(a)[e-1] /\ r = node[u][a[e]]
  OBVIOUS
<1>4. u # 0 /\ ~Points(r) /\ Lookup(a) = r.value
  BY <1>1, <1>3 DEF EndsAt
<1>5. \A n \in 1..Width : a[n] \in Bit
  BY DEF Address
<1>6. \A n \in 0 .. e-1 : Way(a)[n] \in ToSet(Preorder)
  <2>. TAKE n \in 0 .. e-1
  <2>1. Way(a)[n] # 0
    BY <1>2, <1>3, <1>4, WaysAbove
  <2>2. n \in 0 .. Width - 1
    BY <1>2
  <2>. QED
    BY <2>1, <2>2, WayListed
<1>7. u \in ToSet(Preorder) /\ a[e] \in Bit
  BY <1>2, <1>3, <1>5, <1>6
<1>8. r \in HeapRecord /\ Writable(r)
  BY <1>3, <1>7, ListedWritable
<1>9. PICK v : v = NextAt(f, FinalNumber[u], a[e])
  OBVIOUS
<1>10. ValueOf(f.section, r, v)
  BY <1>3, <1>7, <1>9, NextValue
<1>11. f.node_count = FinalCount /\ FinalCount \in Nat /\ f.section \in Seq(Stored)
  BY ListedType DEF Describes, InOrder
<1>12. v \in Nat /\ v >= f.node_count /\ FoundAt(f, v) = r.value
  <2>1. CASE r.type = "empty"
    <3>1. r \in NoPointer
      BY <1>4, <1>8, RecordKinds
    <3>2. r.value = Empty
      BY <2>1, <3>1 DEF NoPointer, EmptyRecord, DataRecord
    <3>3. v = FinalCount
      BY <1>10, <2>1 DEF ValueOf
    <3>. QED
      BY <1>11, <3>2, <3>3 DEF FoundAt
  <2>2. CASE IsData(r)
    <3>1. Placed(f.section, r.value, v)
      BY <1>10, <2>2 DEF ValueOf
    <3>2. PICK x : x = r.value
      OBVIOUS
    <3>3. Placed(f.section, x, v)
      BY <3>1, <3>2
    <3>4. v \in Nat /\ v > f.node_count /\ FoundAt(f, v) = x
      BY ONLY <1>11, <3>3, Small(f), DataFound
    <3>5. v >= f.node_count
      BY <1>11, <3>4
    <3>. QED
      BY <3>2, <3>4, <3>5
  <2>. QED
    BY <1>4, <1>8, <2>1, <2>2 DEF Writable, IsData, Points
<1>. DEFINE g == [n \in 0..Width |-> IF n < e THEN FinalNumber[Way(a)[n]] ELSE v]
<1>13. ASSUME NEW n \in 0..Width
       PROVE  g[n] = IF n = 0 THEN 0 ELSE NextAt(f, g[n-1], a[n])
  <2>1. CASE n = 0
    <3>1. Way(a)[0] = Root
      BY <1>2, WayType, WidthAssumption
    <3>2. FinalNumber[Root] = 0
      <4>1. Preorder[1] = Root /\ 1 \in 1..Len(Preorder)
        BY ListedType
      <4>2. FinalNumber[Preorder[1]] = 1 - 1
        BY <4>1 DEF InOrder
      <4>. QED
        BY <4>1, <4>2
    <3>3. n < e
      BY <2>1
    <3>. QED
      BY <2>1, <3>1, <3>2, <3>3
  <2>2. CASE n # 0 /\ n < e
    <3>1. n - 1 \in 0 .. e-1 /\ n - 1 < e /\ n \in 0 .. e-1 /\ n \in 1..Width /\ n - 1 \in 0..Width
          /\ n \in 0 .. Width - 1
      BY <1>2, <2>2
    <3>2. PICK p, q, b : p = Way(a)[n-1] /\ q = Way(a)[n] /\ b = a[n]
      OBVIOUS
    <3>3. p \in ToSet(Preorder) /\ q \in ToSet(Preorder) /\ b \in Bit
      BY <1>5, <1>6, <3>1, <3>2
    <3>4. q # 0
      BY <3>3, ListedType
    <3>5. q = Down(p, b)
      BY <2>2, <3>1, <3>2, WayType
    <3>6. Points(node[p][b]) /\ q = node[p][b].value
      BY <3>4, <3>5 DEF Down
    <3>7. NextAt(f, FinalNumber[p], b) = FinalNumber[q]
      BY <3>3, <3>6, NextValue DEF ValueOf
    <3>8. g[n] = FinalNumber[q] /\ g[n-1] = FinalNumber[p]
      BY <2>2, <3>1, <3>2
    <3>. HIDE DEF g
    <3>. QED
      BY <2>2, <3>2, <3>7, <3>8
  <2>3. CASE n = e
    <3>1. g[n] = v /\ g[n-1] = FinalNumber[u] /\ n # 0
      <4>1. n - 1 \in 0..Width /\ n - 1 < e /\ ~(n < e) /\ n # 0
        BY <1>2, <2>3
      <4>. QED
        BY <1>3, <2>3, <4>1
    <3>. HIDE DEF g
    <3>. QED
      BY <1>9, <2>3, <3>1
  <2>4. CASE n > e
    <3>1. g[n] = v /\ g[n-1] = v /\ n # 0
      <4>1. n - 1 \in 0..Width /\ ~(n - 1 < e) /\ ~(n < e) /\ n # 0
        BY <1>2, <2>4
      <4>. QED
        BY <4>1
    <3>2. NextAt(f, v, a[n]) = v
      BY <1>12 DEF NextAt
    <3>. HIDE DEF g
    <3>. QED
      BY <3>1, <3>2
  <2>. QED
    BY <1>2, <2>1, <2>2, <2>3, <2>4
<1>14. g = [n \in 0..Width |-> IF n = 0 THEN 0 ELSE NextAt(f, g[n-1], a[n])]
  <2>1. g = [n \in 0..Width |-> g[n]]
    OBVIOUS
  <2>. HIDE DEF g
  <2>. QED
    BY <1>13, <2>1
<1>15. g[Width] = v
  BY <1>2
<1>. HIDE DEF g
<1>16. ReaderFinds(f, a) = FoundAt(f, g[Width])
  BY <1>14, ReaderIs
<1>. QED
  BY <1>4, <1>12, <1>15, <1>16

-------------------------------------------------------------------------------
(* What every call keeps *)

LEMMA NumbersInOrder ==
  ASSUME HeapInv, is_finalized => NumbersOK
  PROVE  InOrder
<1>1. PICK order, numbers : order = Preorder /\ numbers = Numbered
  OBVIOUS
<1>2. CASE is_finalized
  BY <1>2 DEF InOrder, FinalNumber, FinalCount, NumbersOK
<1>3. CASE ~is_finalized
  <2>1. \A k \in 1..Len(order) : numbers[order[k]] = k - 1
    BY <1>1, NumbersArePlaces
  <2>2. FinalNumber = numbers /\ FinalCount = Len(order)
    BY <1>1, <1>3 DEF FinalNumber, FinalCount
  <2>. QED
    BY <1>1, <2>1, <2>2 DEF InOrder
<1>. QED
  BY <1>2, <1>3

LEMMA EncodedSection ==
  ASSUME HeapInv, OneTarget, InOrder, section \in Seq(Stored)
  PROVE  Encoded.section \in Seq(Stored)
<1>1. PICK rs : EncodedTo(Encoded, rs, 2 * Len(Preorder))
  BY EncodedIs
<1>2. PICK s \in Seq(Stored) : \E c, v : Encoded = Done(s, c, v, TRUE) \/ Encoded = Done(s, c, v, FALSE)
  BY <1>1 DEF EncodedTo
<1>. QED
  BY <1>2 DEF Done

LEMMA Ipv4NodeSame == ASSUME UNCHANGED node PROVE HasIpv4Node' = HasIpv4Node
<1>1. PICK zeros : zeros = [i \in 1..Width |-> 0]
  OBVIOUS
<1>2. Way(zeros)' = Way(zeros)
  BY WaySame
<1>. QED
  BY <1>1, <1>2 DEF HasIpv4Node

\* A call that writes nothing to the section and makes no file.
LEMMA QuietKeeps ==
  ASSUME KeptInv, LifecycleInv', UNCHANGED section, file' = NoFile,
         op' # "write", Levels', OneTarget', Counted'
  PROVE  KeptInv'
BY DEF KeptInv, AliasedFile

LEMMA SameKeeps ==
  ASSUME KeptInv, UNCHANGED heapVars
  PROVE  Levels' /\ OneTarget' /\ HasIpv4Node' = HasIpv4Node
BY SameLevels, OneTargetSame, Ipv4NodeSame DEF KeptInv, heapVars

\* Finalizing leaves a node count that is kept as it is.
LEMMA FinalizeCounted ==
  ASSUME KeptInv, Finalize, op' = "none", node_count_attr' \in {node_count_attr, NoCount, FinalCount}
  PROVE  Counted'
BY DEF KeptInv, Counted, Finalize, FinalCount

LEMMA InsertingCallKeeps ==
  ASSUME AliasesApart, LeavesGap, Liberties = {}, KeptInv, LifecycleInv',
         BeginInsert \/ EndInsert \/ InsertFails
  PROVE  KeptInv'
<1>0. LifecycleInv /\ Levels /\ OneTarget /\ Counted /\ (op # "none" => file = NoFile)
  BY DEF KeptInv
<1>1. CASE BeginInsert
  <2>1. /\ op' = "insert" /\ file' = NoFile /\ UNCHANGED <<node, section, node_count_attr>>
        /\ node_count_attr = NoCount
    BY <1>1 DEF BeginInsert, CarefulInsert, InsertNetwork
  <2>2. Levels' /\ OneTarget'
    BY <1>0, <2>1, InsertingLevels
  <2>. QED
    BY <2>1, <2>2, QuietKeeps DEF Counted
<1>2. CASE EndInsert
  <2>1. /\ op = "insert" /\ op' = "none" /\ file' = NoFile /\ UNCHANGED <<heapVars, section, node_count_attr>>
    BY <1>0, <1>2 DEF EndInsert
  <2>2. Levels' /\ OneTarget'
    BY <2>1, SameKeeps
  <2>3. Counted'
    BY <1>0, <2>1 DEF Counted
  <2>. QED
    BY <2>1, <2>2, <2>3, QuietKeeps
<1>3. CASE InsertFails
  <2>1. /\ calls # <<>> /\ calls' = <<>> /\ op' = "none"
        /\ UNCHANGED <<node, numbering, node_count_attr, section, file>>
    BY <1>3 DEF InsertFails, Croak, Found, Running
  <2>2. op # "none" /\ file' = NoFile
    BY <1>0, <2>1 DEF LifecycleInv
  <2>3. Levels'
    <3>1. PICK d : IsLevel(d)
      BY <1>0 DEF Levels
    <3>2. Len(calls') = 0
      BY <2>1
    <3>3. IsLevel(d)'
      BY <2>1, <3>1, <3>2 DEF IsLevel
    <3>. QED
      BY <3>3 DEF Levels
  <2>4. OneTarget'
    BY <1>0, <2>1, OneTargetSame
  <2>5. Counted'
    BY <1>0, <2>1, <2>2 DEF Counted, numbering
  <2>. QED
    BY <2>1, <2>2, <2>3, <2>4, <2>5, QuietKeeps
<1>. QED
  BY <1>1, <1>2, <1>3

LEMMA AliasingCallKeeps ==
  ASSUME AliasesFit, AliasesApart, LeavesGap, Liberties = {}, KeptInv, LifecycleInv',
         CreateIpv4Aliases \/ EndAlias \/ WriteTree \/ TreeStep
  PROVE  KeptInv'
<1>0. /\ LifecycleInv /\ Levels /\ OneTarget /\ Counted /\ AliasedFile
      /\ section \in Seq(Stored) /\ (op # "none" => file = NoFile)
  BY DEF KeptInv
<1>1. IsCareful
  BY DEF IsCareful
<1>2. CASE CreateIpv4Aliases
  <2>1. /\ Idle /\ CarefulAlias /\ BeginAlias /\ op' = "alias" /\ file' = NoFile
        /\ UNCHANGED <<numbering, node_count_attr, section>>
    BY <1>2 DEF CreateIpv4Aliases, BeginAlias
  <2>2. Levels' /\ OneTarget'
    BY <1>1, <2>1, BeginAliasLevels
  <2>3. Counted'
    BY <1>0, <2>1 DEF Counted, numbering
  <2>. QED
    BY <2>1, <2>2, <2>3, QuietKeeps
<1>3. CASE EndAlias
  <2>1. /\ op = "alias" /\ op' = "none" /\ file' = NoFile
        /\ UNCHANGED <<heapVars, numbering, node_count_attr, section>>
    BY <1>0, <1>3 DEF EndAlias
  <2>2. Levels' /\ OneTarget'
    BY <2>1, SameKeeps
  <2>3. Counted'
    BY <1>0, <2>1 DEF Counted, numbering
  <2>. QED
    BY <2>1, <2>2, <2>3, QuietKeeps
<1>4. CASE WriteTree
  <2>1. /\ Idle /\ op' = "write" /\ file' = NoFile
        /\ UNCHANGED <<number, is_finalized, node_count, node_count_attr, section>>
    BY <1>4 DEF WriteTree, BeginAlias, numbering
  <2>2. Counted'
    BY <1>0, <2>1 DEF Counted
  <2>3. CASE AliasIpv6ToIpv4
    <3>1. CarefulAlias /\ BeginAlias
      BY <1>4, <2>3 DEF WriteTree
    <3>2. Levels' /\ OneTarget' /\ (HasIpv4Node' /\ Ipv4Aliases # <<>> => Aliasing')
      BY <1>1, <2>1, <3>1, BeginAliasLevels
    <3>. QED
      BY <1>0, <2>1, <2>2, <3>2 DEF KeptInv, AliasedFile
  <2>4. CASE ~AliasIpv6ToIpv4
    <3>1. UNCHANGED heapVars
      BY <1>4, <2>4 DEF WriteTree
    <3>2. Levels' /\ OneTarget'
      BY <3>1, SameKeeps
    <3>. QED
      BY <1>0, <2>1, <2>2, <2>4, <3>2 DEF KeptInv, AliasedFile
  <2>. QED
    BY <2>3, <2>4
<1>5. CASE TreeStep
  <2>1. Levels' /\ OneTarget' /\ op # "none" /\ (Aliasing => Aliasing' \/ op = "insert")
    BY <1>5, TreeStepLevels
  <2>2. UNCHANGED <<op, node_count_attr, section, file, is_finalized, node_count>> /\ calls # <<>>
    BY <1>5 DEF TreeStep, HeapStep, MakeNextNode, MergeIntoNode, InsertIntoParent, SetRecord,
                Found, Running
  <2>3. Counted'
    BY <1>0, <2>2 DEF Counted
  <2>4. AliasedFile'
    <3>1. op = "write" => Aliasing'
      BY <1>0, <2>1, <2>2 DEF LifecycleInv
    <3>. QED
      BY <1>0, <2>1, <2>2, <3>1 DEF AliasedFile
  <2>. QED
    BY <1>0, <2>1, <2>2, <2>3, <2>4 DEF KeptInv
<1>. QED
  BY <1>2, <1>3, <1>4, <1>5

\* A file that is made describes the tree that is written.
LEMMA FinishWriteFile ==
  ASSUME KeptInv, FinishWrite, file' # NoFile
  PROVE  Describes(file')
<1>1. /\ op = "write" /\ calls = <<>> /\ file = NoFile /\ HeapInv /\ OneTarget
      /\ section \in Seq(Stored) /\ (is_finalized => NumbersOK) /\ Counted
  BY DEF FinishWrite, KeptInv, LifecycleInv, Running
<1>2. InOrder
  BY <1>1, NumbersInOrder
<1>3. PICK f : f = [nodes |-> Printed(Encoded.values), section |-> Encoded.section,
                    node_count |-> CountAttr]
  OBVIOUS
<1>4. ~Encoded.croaked /\ file' = f
  BY <1>1, <1>3 DEF FinishWrite
<1>5. CountAttr = FinalCount
  BY <1>1 DEF CountAttr, Counted, FinalCount
<1>6. Describes(f)
  BY <1>1, <1>2, <1>3, <1>4, <1>5, FinishedFile
<1>. QED
  BY <1>4, <1>6

LEMMA WriteEnds ==
  ASSUME AliasesApart, KeptInv, LifecycleInv', FinishWrite \/ WriteDies
  PROVE  KeptInv'
<1>1. /\ op = "write" /\ calls = <<>> /\ file = NoFile /\ LifecycleInv /\ HeapInv /\ OneTarget
      /\ section \in Seq(Stored) /\ (is_finalized => NumbersOK) /\ AliasedFile
  BY DEF FinishWrite, WriteDies, KeptInv, LifecycleInv, Running
<1>2. /\ op' = "none" /\ UNCHANGED heapVars /\ Finalize
      /\ node_count_attr' \in {node_count_attr, NoCount, FinalCount}
  <2>1. op' = "none" /\ UNCHANGED heapVars /\ Finalize
    BY DEF FinishWrite, WriteDies
  <2>2. node_count_attr' = node_count_attr \/ node_count_attr' = CountAttr
    BY DEF FinishWrite, WriteDies
  <2>. QED
    BY <2>1, <2>2 DEF CountAttr
<1>3. Levels' /\ OneTarget' /\ HasIpv4Node' = HasIpv4Node
  BY <1>2, SameKeeps
<1>4. Counted'
  BY <1>2, FinalizeCounted
<1>5. AliasedFile'
  <2>1. AliasIpv6ToIpv4 /\ HasIpv4Node' /\ Ipv4Aliases # <<>> => Aliasing'
    <3>1. Aliasing => Aliasing'
      BY <1>1, <1>2, AliasingSame
    <3>. QED
      BY <1>1, <1>3, <3>1 DEF AliasedFile
  <2>. QED
    BY <2>1 DEF AliasedFile
<1>6. section' \in Seq(Stored)
  <2>1. PICK s : s = Encoded.section
    OBVIOUS
  <2>2. s \in Seq(Stored)
    BY <1>1, <2>1, NumbersInOrder, EncodedSection
  <2>3. CASE FinishWrite
    BY <2>1, <2>2, <2>3 DEF FinishWrite
  <2>4. CASE WriteDies
    <3>1. PICK n \in Len(section) .. Len(s) - 1 : section' = Append(SubSeq(s, 1, n), Clash)
      BY <2>1, <2>4 DEF WriteDies
    <3>2. PICK cut : cut = SubSeq(s, 1, n)
      OBVIOUS
    <3>3. Len(section) \in Nat /\ Len(s) \in Nat
      BY <1>1, <2>2
    <3>4. cut \in Seq(Stored)
      <4>1. s \in Seq(Stored) /\ 1 \in 1 .. Len(s) + 1 /\ n \in 0..Len(s)
        BY <2>2, <3>1, <3>3
      <4>. QED
        BY <2>2, <3>2, <4>1, SubSeqProperties
    <3>5. Append(cut, Clash) \in Seq(Stored)
      BY <3>4, AppendProperties DEF Stored
    <3>. QED
      BY <3>1, <3>2, <3>5
  <2>. QED
    BY <2>3, <2>4
<1>. QED
  BY <1>2, <1>3, <1>4, <1>5, <1>6 DEF KeptInv

LEMMA KeptInvNext ==
  ASSUME AliasesFit, AliasesApart, LeavesGap, Liberties = {}, KeptInv, [Next]_vars
  PROVE  KeptInv'
<1>0. /\ LifecycleInv /\ Levels /\ OneTarget /\ Counted /\ AliasedFile
      /\ section \in Seq(Stored) /\ (op # "none" => file = NoFile)
  BY DEF KeptInv
<1>1. LifecycleInv'
  <2>1. IsCareful
    BY DEF IsCareful
  <2>. QED
    BY <1>0, <2>1, LifecycleInvNext
<1>2. CASE BeginInsert \/ EndInsert \/ InsertFails
  BY <1>1, <1>2, InsertingCallKeeps
<1>3. CASE CreateIpv4Aliases \/ EndAlias \/ WriteTree \/ TreeStep
  BY <1>1, <1>3, AliasingCallKeeps
<1>4. CASE Iterate \/ BuildNodeCount
  <2>1. /\ op = "none" /\ op' = "none" /\ Finalize /\ file' = NoFile /\ UNCHANGED <<heapVars, section>>
        /\ node_count_attr' \in {node_count_attr, NoCount, FinalCount}
    BY <1>4 DEF Iterate, BuildNodeCount, Idle
  <2>2. Levels' /\ OneTarget'
    BY <2>1, SameKeeps
  <2>3. Counted'
    BY <2>1, FinalizeCounted
  <2>. QED
    BY <1>1, <2>1, <2>2, <2>3, QuietKeeps
<1>5. CASE FinishWrite \/ WriteDies
  BY <1>1, <1>5, WriteEnds
<1>6. CASE UNCHANGED vars
  <2>1. UNCHANGED <<heapVars, numbering, op, node_count_attr, section, file>>
    BY <1>6 DEF vars
  <2>2. Levels' /\ OneTarget' /\ HasIpv4Node' = HasIpv4Node
    BY <2>1, SameKeeps
  <2>3. Counted'
    BY <1>0, <2>1 DEF Counted, numbering
  <2>4. AliasedFile'
    <3>1. Aliasing => Aliasing'
      BY <1>0, <2>1, AliasingSame DEF LifecycleInv, numbering
    <3>. QED
      BY <1>0, <2>1, <2>2, <3>1 DEF AliasedFile
  <2>. QED
    BY <1>0, <1>1, <2>1, <2>2, <2>3, <2>4 DEF KeptInv
<1>. QED
  BY <1>2, <1>3, <1>4, <1>5, <1>6 DEF Next

\* Files whose data records do not overflow 32 bits.
SmallFile == file # NoFile => Small(file)

LEMMA NodeAnswers ==
  ASSUME UNCHANGED node, NEW a
  PROVE  Lookup(a)' = Lookup(a)
<1>1. \A bits : Way(bits)' = Way(bits)
  BY WaySame
<1>2. \A n : EndsAt(a, n)' <=> EndsAt(a, n)
  BY <1>1 DEF EndsAt
<1>. QED
  BY <1>1, <1>2, ZenonT(30) DEF Lookup

FileInv == KeptInv /\ (SmallFile => FileAnswersLookups)

LEMMA FileInvNext ==
  ASSUME AliasesFit, AliasesApart, LeavesGap, Liberties = {}, FileInv, [Next]_vars
  PROVE  FileInv'
<1>0. KeptInv /\ KeptInv' /\ (op # "none" => file = NoFile)
  BY KeptInvNext DEF FileInv, KeptInv
<1>1. CASE UNCHANGED vars
  <2>1. UNCHANGED <<node, file>>
    BY <1>1 DEF vars, heapVars
  <2>2. \A a \in Address : Lookup(a)' = Lookup(a)
    BY <2>1, NodeAnswers
  <2>3. ASSUME SmallFile', file' # NoFile, NEW a \in Address
        PROVE  ReaderFinds(file', a) = Lookup(a)'
    BY <2>1, <2>2, <2>3 DEF FileInv, SmallFile, FileAnswersLookups
  <2>. QED
    BY <1>0, <2>3 DEF FileInv, FileAnswersLookups
<1>2. CASE FinishWrite /\ file' # NoFile
  <2>1. Describes(file') /\ UNCHANGED node
    BY <1>0, <1>2, FinishWriteFile DEF FinishWrite, heapVars
  <2>2. HeapInv /\ Levels /\ OneTarget /\ InOrder
    <3>1. HeapInv /\ Levels /\ OneTarget /\ (is_finalized => NumbersOK)
      BY <1>0, <1>2 DEF KeptInv, LifecycleInv, FinishWrite
    <3>. QED
      BY <3>1, NumbersInOrder
  <2>3. ASSUME SmallFile', NEW a \in Address
        PROVE  ReaderFinds(file', a) = Lookup(a)'
    <3>1. PICK f : f = file'
      OBVIOUS
    <3>2. Small(f) /\ Describes(f)
      BY <1>2, <2>1, <2>3, <3>1 DEF SmallFile, Small
    <3>3. ReaderFinds(f, a) = Lookup(a)
      BY <2>2, <3>2, DescribedAnswers
    <3>4. Lookup(a)' = Lookup(a)
      BY <2>1, NodeAnswers
    <3>. QED
      BY <3>1, <3>3, <3>4
  <2>. QED
    BY <1>0, <2>3 DEF FileInv, FileAnswersLookups
<1>3. CASE Next /\ ~(FinishWrite /\ file' # NoFile)
  <2>1. file' = NoFile
    BY <1>0, <1>3 DEF Next, BeginInsert, EndInsert, InsertFails, TreeStep, CreateIpv4Aliases,
         EndAlias, Iterate, BuildNodeCount, WriteTree, WriteDies, Idle, KeptInv, LifecycleInv,
         Croak, HeapStep, MakeNextNode, MergeIntoNode, InsertIntoParent, SetRecord, Found, Running
  <2>. QED
    BY <1>0, <2>1 DEF FileInv, FileAnswersLookups
<1>. QED
  BY <1>1, <1>2, <1>3

(***************************************************************************)
(* A reader of a file that write_tree made finds for every address what    *)
(* lookup_ip_address finds in the tree (c/tree.c, write_search_tree and    *)
(* record_value_as_number), in whatever order a careful program inserted,  *)
(* aliased, counted, iterated and wrote before, if the values of the data  *)
(* records do not overflow 32 bits.                                        *)
(***************************************************************************)
THEOREM FilesAnswerLookups ==
  AliasesFit /\ AliasesApart /\ LeavesGap /\ Liberties = {}
    => (Spec => [](SmallFile => FileAnswersLookups))
<1>. SUFFICES ASSUME AliasesFit, AliasesApart, LeavesGap, Liberties = {}
              PROVE  Spec => [](SmallFile => FileAnswersLookups)
  OBVIOUS
<1>1. Init => FileInv
  BY InitKept DEF Init, FileInv, FileAnswersLookups
<1>2. FileInv /\ [Next]_vars => FileInv'
  BY FileInvNext
<1>3. FileInv => (SmallFile => FileAnswersLookups)
  BY DEF FileInv
<1>. QED
  BY <1>1, <1>2, <1>3, PTL DEF Spec

-------------------------------------------------------------------------------
(* What is below a node that two ways share *)

\* A lookup ends at one record.
LEMMA EndsOnce ==
  ASSUME HeapInv, NEW a \in Address, NEW m \in 1..Width, NEW n \in 1..Width,
         EndsAt(a, m), EndsAt(a, n)
  PROVE  ~(m < n)
<1>. SUFFICES ASSUME m < n PROVE FALSE
  OBVIOUS
<1>1. m \in 0 .. Width - 1 /\ m # 0 /\ n - 1 \in 0 .. Width - 1 /\ m \in 0 .. n - 1
  BY WidthAssumption
<1>2. Way(a)[m] = Down(Way(a)[m-1], a[m])
  BY <1>1, WayType
<1>3. Way(a)[m] = 0
  BY <1>2 DEF EndsAt, Down
<1>4. PICK e : e = n - 1
  OBVIOUS
<1>5. Way(a)[e] # 0
  BY <1>4 DEF EndsAt
<1>6. e \in 0 .. Width - 1 /\ m \in 0..e
  BY <1>1, <1>4
<1>. QED
  BY <1>3, <1>5, <1>6, WaysAbove

LEMMA LookupIs ==
  ASSUME HeapInv, NEW a \in Address, NEW n \in 1..Width, EndsAt(a, n)
  PROVE  Lookup(a) = node[Way(a)[n-1]][a[n]].value
<1>1. PICK m : m = CHOOSE k \in 1..Width : EndsAt(a, k)
  OBVIOUS
<1>2. m \in 1..Width /\ EndsAt(a, m)
  BY <1>1
<1>3. ~(m < n) /\ ~(n < m)
  BY <1>2, EndsOnce
<1>4. m = n
  BY <1>2, <1>3, WidthAssumption
<1>. QED
  BY <1>1, <1>4 DEF Lookup

\* From a node that both reach, two addresses with the same bits below it go on
\* the same way.
LEMMA WaysFollow ==
  ASSUME HeapInv, NEW a \in Address, NEW b \in Address,
         NEW q \in 0 .. Width - 1, NEW m \in 0..q, Way(a)[m] = Way(b)[q],
         \A j \in 1 .. Width - q : a[m+j] = b[q+j],
         NEW n \in 0 .. Width - 1 - q
  PROVE  Way(a)[m+n] = Way(b)[q+n]
<1>. DEFINE Apart == {j \in 0 .. Width - 1 - q : Way(a)[m+j] # Way(b)[q+j]}
<1>1. ASSUME NEW j \in Apart, \A k \in Apart : j <= k PROVE FALSE
  <2>1. j # 0
    <3>1. m + 0 = m /\ q + 0 = q
      BY WidthAssumption
    <3>. QED
      BY <1>1, <3>1
  <2>2. j \in 1 .. Width - q /\ j - 1 \in 0 .. Width - 1 - q /\ ~(j <= j - 1)
    BY <1>1, <2>1, WidthAssumption
  <2>3. j - 1 \notin Apart
    BY <1>1, <2>2
  <2>4. PICK x, y : x = m + j /\ y = q + j
    OBVIOUS
  <2>5. /\ x \in 0 .. Width - 1 /\ x # 0 /\ x - 1 = m + (j - 1)
        /\ y \in 0 .. Width - 1 /\ y # 0 /\ y - 1 = q + (j - 1)
    BY <2>2, <2>4, <1>1, WidthAssumption
  <2>6. Way(a)[x-1] = Way(b)[y-1] /\ a[x] = b[y]
    BY <2>2, <2>3, <2>4, <2>5
  <2>7. Way(a)[x] = Down(Way(a)[x-1], a[x]) /\ Way(b)[y] = Down(Way(b)[y-1], b[y])
    BY <2>5, WayType
  <2>. QED
    BY <1>1, <2>4, <2>6, <2>7
<1>2. Apart \in SUBSET Nat
  BY WidthAssumption
<1>. HIDE DEF Apart
<1>3. Apart = {}
  BY <1>1, <1>2, Least
<1>. QED
  BY <1>3 DEF Apart

LEMMA SharedNode ==
  ASSUME HeapInv, Levels, NEW a \in Address, NEW b \in Address,
         NEW q \in 0 .. Width - 1, NEW m \in 0..q, Way(a)[m] = Way(b)[q], Way(b)[q] # 0,
         \A j \in 1 .. Width - q : a[m+j] = b[q+j]
  PROVE  Lookup(a) = Lookup(b)
<1>1. PICK e \in 1..Width : EndsAt(b, e)
  BY AliasedWalksEnd DEF LookupFindsRecord, LookupEnds
<1>2. q < e
  <2>1. SUFFICES ASSUME e <= q PROVE FALSE
    BY WidthAssumption
  <2>2. e \in 0..q /\ e \in 0 .. Width - 1 /\ e # 0
    BY <2>1, WidthAssumption
  <2>3. Way(b)[e] = Down(Way(b)[e-1], b[e])
    BY <2>2, WayType
  <2>4. Way(b)[e] = 0
    BY <1>1, <2>3 DEF EndsAt, Down
  <2>. QED
    BY <2>2, <2>4, WaysAbove
<1>3. PICK j : j = e - q
  OBVIOUS
<1>4. j \in 1 .. Width - q /\ j - 1 \in 0 .. Width - 1 - q /\ q + j = e /\ q + (j - 1) = e - 1
  BY <1>2, <1>3, WidthAssumption
<1>5. PICK x : x = m + j
  OBVIOUS
<1>6. x \in 1..Width /\ x - 1 = m + (j - 1)
  BY <1>4, <1>5, WidthAssumption
<1>7. Way(a)[x-1] = Way(b)[e-1]
  <2>1. PICK n : n = j - 1
    OBVIOUS
  <2>2. Way(a)[m+n] = Way(b)[q+n]
    BY <1>4, <2>1, WaysFollow
  <2>. QED
    BY <1>4, <1>6, <2>1, <2>2
<1>8. a[x] = b[e]
  BY <1>4, <1>5
<1>9. EndsAt(a, x)
  BY <1>1, <1>7, <1>8 DEF EndsAt
<1>10. /\ Lookup(a) = node[Way(a)[x-1]][a[x]].value
       /\ Lookup(b) = node[Way(b)[e-1]][b[e]].value
  BY <1>1, <1>6, <1>9, LookupIs
<1>. QED
  BY <1>7, <1>8, <1>10

\* Where the way of a network leads, those of its addresses do.
LEMMA LeadsOn ==
  ASSUME HeapInv, NEW bytes \in Address, NEW a \in Address, NEW n \in 1 .. Width - 1,
         NEW i \in 1..Len(node), NEW r, r \in {NodeRecord(i), AliasRecord(i)},
         Leads(bytes, n, r), \A k \in 1..n : a[k] = bytes[k]
  PROVE  Way(a)[n] = i
<1>1. n \in 0 .. Width - 1 /\ n # 0 /\ n - 1 \in 0 .. Width - 1 /\ n - 1 \in Nat /\ n - 1 < Width
      /\ Len(a) = Width /\ Len(bytes) = Width /\ n \in 1..n
  BY WidthAssumption DEF Address
<1>2. PICK m : m = n - 1
  OBVIOUS
<1>3. m \in Nat /\ m < Len(a) /\ m < Len(bytes) /\ Len(a) \in Nat \ {0} /\ Len(bytes) \in Nat \ {0}
      /\ \A k \in 1..m : k \in 1..n
  BY <1>1, <1>2, WidthAssumption
<1>4. Way(a)[m] = Way(bytes)[m]
  BY <1>3, WayPrefix
<1>5. Way(a)[n] = Down(Way(a)[m], a[n])
  BY <1>1, <1>2, WayType
<1>6. Way(a)[m] # 0 /\ node[Way(a)[m]][a[n]] = r
  BY <1>1, <1>2, <1>4 DEF Leads
<1>7. Points(r) /\ r.value = i
  BY DEF Points, NodeRecord, AliasRecord
<1>. QED
  BY <1>5, <1>6, <1>7 DEF Down

\* The addresses of an alias network have what their IPv4 addresses have.
LEMMA AliasLookups ==
  ASSUME HeapInv, Levels, AliasesFit, NEW i \in 1..Len(node), Leads(Zeros, Ipv4Bits, NodeRecord(i)),
         NEW k \in 1..Len(Ipv4Aliases), AliasSet(k, i),
         NEW a \in Address, Covers(Ipv4Aliases[k][1], Ipv4Aliases[k][2], a)
  PROVE  /\ Ipv4Of(Ipv4Aliases[k], a) \in Address
         /\ Lookup(a) = Lookup(Ipv4Of(Ipv4Aliases[k], a))
<1>1. PICK bytes, m, b, q : /\ bytes = Ipv4Aliases[k][1] /\ m = Ipv4Aliases[k][2]
                            /\ b = Ipv4Of(Ipv4Aliases[k], a) /\ q = Ipv4Bits
  OBVIOUS
<1>2. m \in 1..q /\ bytes \in Address
  <2>1. m \in 1..q
    BY <1>1 DEF AliasesFit
  <2>2. Ipv4Aliases[k] \in Network
    BY HeapAssumption
  <2>. QED
    BY <1>1, <2>1, <2>2 DEF Network
<1>3. q \in 1 .. Width - 1
  <2>1. PICK d : IsLevel(d)
    BY DEF Levels
  <2>2. PICK w : w = Way(Zeros)[Ipv4Bits - 1]
    OBVIOUS
  <2>3. w # 0 /\ node[w][0] = NodeRecord(i) /\ d[w] >= Ipv4Bits - 1
    BY <2>1, <2>2, ZerosProperties, WalkLevel DEF Leads
  <2>4. w \in 1..Len(node)
    BY <2>2, <2>3, ZerosProperties, WayType DEF HeapInv
  <2>5. d[i] = d[w] + 1 /\ d[w] \in Int /\ d[i] \in 0 .. Width - 1
    <3>1. node[w][0].type = "node" /\ node[w][0].value = i
      BY <2>3 DEF NodeRecord
    <3>. QED
      BY <2>1, <2>4, <3>1 DEF IsLevel, Bit
  <2>. QED
    BY <1>1, <2>3, <2>5, ZerosProperties, WidthAssumption
<1>4. b = [l \in 1..Width |-> IF l > q /\ l - q + m <= Width THEN a[l - q + m] ELSE 0]
  BY <1>1 DEF Ipv4Of
<1>5. b \in Address
  <2>1. ASSUME NEW l \in 1..Width PROVE b[l] \in Bit
    <3>1. CASE l > q /\ l - q + m <= Width
      <4>1. PICK x : x = l - q + m
        OBVIOUS
      <4>2. x \in 1..Width
        BY <1>2, <1>3, <3>1, <4>1, WidthAssumption
      <4>3. a[x] \in Bit
        BY <4>2 DEF Address
      <4>. QED
        BY <1>4, <3>1, <4>1, <4>3
    <3>. QED
      BY <1>4, <3>1 DEF Bit
  <2>. QED
    BY <1>4, <2>1 DEF Address
<1>6. \A l \in 1..q : b[l] = Zeros[l]
  BY <1>3, <1>4, WidthAssumption DEF Zeros
<1>7. \A j \in 1 .. Width - q : a[m+j] = b[q+j]
  <2>. TAKE j \in 1 .. Width - q
  <2>1. PICK l : l = q + j
    OBVIOUS
  <2>2. l \in 1..Width /\ l > q /\ l - q + m = m + j /\ m + j <= Width
    BY <1>2, <1>3, <2>1, WidthAssumption
  <2>. QED
    BY <1>4, <2>1, <2>2
<1>8. Way(b)[q] = i
  <2>1. Leads(Zeros, q, NodeRecord(i)) /\ Zeros \in Address
    BY <1>1, ZerosProperties
  <2>. QED
    BY <1>3, <1>5, <1>6, <2>1, LeadsOn
<1>9. Way(a)[m] = i
  <2>1. Leads(bytes, m, AliasRecord(i)) /\ m \in 1 .. Width - 1
    BY <1>1, <1>2, <1>3, WidthAssumption DEF AliasSet
  <2>2. \A l \in 1..m : a[l] = bytes[l]
    BY <1>1 DEF Covers
  <2>. QED
    BY <1>2, <2>1, <2>2, LeadsOn
<1>10. q \in 0 .. Width - 1 /\ m \in 0..q /\ i # 0
  BY <1>2, <1>3, WidthAssumption
<1>11. Lookup(a) = Lookup(b)
  BY <1>5, <1>7, <1>8, <1>9, <1>10, SharedNode
<1>. QED
  BY <1>1, <1>5, <1>11

(***************************************************************************)
(* In the files of such programs the addresses of an alias network have    *)
(* the data of the IPv4 addresses they stand for (c/tree.c,                *)
(* alias_ipv4_networks; Tree.pm, alias_ipv6_to_ipv4), if the IPv4 network  *)
(* has a node of its own.                                                  *)
(***************************************************************************)
THEOREM FilesAnswerAliases ==
  AliasesFit /\ AliasesApart /\ LeavesGap /\ Liberties = {}
    => (Spec => [](SmallFile => AliasesAnswerAsIpv4))
<1>. SUFFICES ASSUME AliasesFit, AliasesApart, LeavesGap, Liberties = {}
              PROVE  Spec => [](SmallFile => AliasesAnswerAsIpv4)
  OBVIOUS
<1>1. Init => FileInv
  BY InitKept DEF Init, FileInv, FileAnswersLookups
<1>2. FileInv /\ [Next]_vars => FileInv'
  BY FileInvNext
<1>3. FileInv => (SmallFile => AliasesAnswerAsIpv4)
  <2>. SUFFICES ASSUME FileInv, SmallFile, file # NoFile, AliasIpv6ToIpv4, HasIpv4Node,
                       NEW k \in 1..Len(Ipv4Aliases), NEW a \in Address,
                       Covers(Ipv4Aliases[k][1], Ipv4Aliases[k][2], a)
                PROVE  ReaderFinds(file, a) = ReaderFinds(file, Ipv4Of(Ipv4Aliases[k], a))
    BY DEF AliasesAnswerAsIpv4
  <2>1. HeapInv /\ Levels /\ AliasedFile /\ calls = <<>>
    BY DEF FileInv, KeptInv, LifecycleInv
  <2>2. Ipv4Aliases # <<>>
    OBVIOUS
  <2>3. Aliasing
    BY <2>1, <2>2 DEF AliasedFile
  <2>4. PICK i \in 1..Len(node) : Leads(Zeros, Ipv4Bits, NodeRecord(i)) /\ AliasSet(k, i)
    BY <2>1, <2>3, AliasesAreSet
  <2>5. PICK b : b = Ipv4Of(Ipv4Aliases[k], a)
    OBVIOUS
  <2>6. b \in Address /\ Lookup(a) = Lookup(b)
    BY <2>1, <2>4, <2>5, AliasLookups
  <2>7. \A x \in Address : ReaderFinds(file, x) = Lookup(x)
    BY DEF FileInv, FileAnswersLookups
  <2>. QED
    BY <2>5, <2>6, <2>7
<1>. QED
  BY <1>1, <1>2, <1>3, PTL DEF Spec
===============================================================================
