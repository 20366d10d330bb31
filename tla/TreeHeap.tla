------------------------------- MODULE TreeHeap -------------------------------
(***************************************************************************)
(* The search tree of c/tree.c as nodes and pointers.  A node is made once *)
(* and never freed before the tree is: one that an insert cuts off stays   *)
(* allocated, and an alias record may still point to it.  The steps are    *)
(* those of PrefixTree, with alias records and alias_ipv4_networks added.  *)
(***************************************************************************)
EXTENDS MaskLengths, Payloads

CONSTANTS
  MergeRecordCollisions,   \* the tree's option
  Inputs,                  \* payloads that callers insert
  Insertable,              \* networks that callers insert
  Ipv4Bits,                \* leading zero bits of an IPv4 address: 96
  Ipv4Aliases,             \* ipv4_aliases: a sequence of networks
  MaxNodes                 \* bound: no insert once this many nodes are allocated

ASSUME HeapAssumption ==
  /\ MergeRecordCollisions \in BOOLEAN
  /\ Inputs \subseteq Data
  /\ Insertable \subseteq Network
  /\ Ipv4Bits \in 1..Width
  /\ Ipv4Aliases \in Seq(Network)

VARIABLES
  node,                    \* the nodes in the order they were made
  calls                    \* calls that still have to find and set a record

heapVars == <<node, calls>>

\* MMDBW_record_s
EmptyRecord == [type |-> "empty", value |-> Empty]
DataRecord(data) == [type |-> "data", value |-> data]
NodeRecord(i) == [type |-> "node", value |-> i]
OwningAlias(i) == NodeRecord(i)                                      \* mistake
AliasRecord(i) == [type |-> "alias", value |-> i]

IsData(r) == r.type = "data"
Points(r) == r.type \in {"node", "alias"}

Root == 1

-------------------------------------------------------------------------------
\* The node that a record of a node points to, or 0.
Down(i, bit) == IF i # 0 /\ Points(node[i][bit]) THEN node[i][bit].value ELSE 0

\* The nodes on the way along some bits; 0 once a record does not point to one.
Way(bits) ==
  LET way[n \in 0 .. Len(bits) - 1] == IF n = 0 THEN Root ELSE Down(way[n-1], bits[n])
  IN way

Running == calls # <<>>
Current == Head(calls)

\* The node and the side of the current call's record.
NodeToSet == Way(Current.bytes)[Depth(Current.mask) - 1]
Side == Current.bytes[Depth(Current.mask)]
RecordToSet == node[NodeToSet][Side]
OtherRecord == node[NodeToSet][1 - Side]

Found == Running /\ NodeToSet # 0

Descends == Current.merge /\ Points(RecordToSet)
Merges == Current.merge /\ IsData(RecordToSet)
Croaks == \/ Descends /\ Current.mask >= Width
          \/ Merges /\ ~Mergeable(RecordToSet.value, Current.new.value)

NewRecord == IF Merges THEN DataRecord(Merged(RecordToSet.value, Current.new.value))
             ELSE Current.new

Prunes == IsData(NewRecord) /\ IsData(OtherRecord) /\ OtherRecord = NewRecord

-------------------------------------------------------------------------------
HeapInit == /\ node = << [b \in Bit |-> EmptyRecord] >>
            /\ calls = <<>>

InsertNetwork(bytes, mask, data) ==
  /\ ~Running
  /\ Len(node) < MaxNodes
  /\ calls' = <<[bytes |-> bytes, mask |-> mask, new |-> DataRecord(data),
                 merge |-> MergeRecordCollisions]>>
  /\ UNCHANGED node

\* alias_ipv4_networks: every alias network gets a record that points to the
\* node of the IPv4 network, if there is one.
AnyIpv4Record ==                                                     \* mistake
  Way([i \in 1..Width |-> 0])[Ipv4Bits - 1] # 0

HasIpv4Node ==
  LET parent == Way([i \in 1..Width |-> 0])[Ipv4Bits - 1]
  IN parent # 0 /\ node[parent][0].type = "node"

ParentAliasCalls ==                                                  \* mistake
  [i \in 1..Len(Ipv4Aliases) |->
     [bytes |-> Ipv4Aliases[i][1], mask |-> Ipv4Aliases[i][2], merge |-> FALSE,
      new |-> AliasRecord(Way([b \in 1..Width |-> 0])[Ipv4Bits - 1])]]

AliasCalls ==
  LET root4 == node[Way([i \in 1..Width |-> 0])[Ipv4Bits - 1]][0].value
  IN [i \in 1..Len(Ipv4Aliases) |->
        [bytes |-> Ipv4Aliases[i][1], mask |-> Ipv4Aliases[i][2],
         new |-> AliasRecord(root4), merge |-> FALSE]]

AliasIpv4Networks ==
  /\ ~Running
  /\ HasIpv4Node
  /\ calls' = AliasCalls
  /\ UNCHANGED node

\* make_next_node: only data is copied into the new node.
NewNode(old) == [b \in Bit |-> IF IsData(old) THEN old ELSE EmptyRecord]

MakeNextNode ==
  /\ Running
  /\ LET way == Way(Current.bytes) IN
     \E n \in 1 .. Depth(Current.mask) - 1 :
       /\ way[n-1] # 0
       /\ LET r == node[way[n-1]][Current.bytes[n]] IN
          /\ ~Points(r)
          /\ node' = Append([node EXCEPT ![way[n-1]][Current.bytes[n]] =
                                           NodeRecord(Len(node) + 1)],
                            NewNode(r))
  /\ UNCHANGED calls

MergeSameHalf ==                                                     \* mistake
  /\ Found /\ Descends /\ ~Croaks
  /\ LET left == [Current EXCEPT !.mask = @ + 1]
     IN calls' = <<left, left>> \o Tail(calls)
  /\ UNCHANGED node

MergeIntoNode ==
  /\ Found /\ Descends /\ ~Croaks
  /\ LET left == [Current EXCEPT !.mask = @ + 1]
         right == [left EXCEPT !.bytes = SetBit(@, left.mask)]
     IN calls' = <<left, right>> \o Tail(calls)
  /\ UNCHANGED node

InsertIntoParent ==
  /\ Found /\ ~Descends /\ ~Croaks
  /\ Prunes
  /\ calls' = <<[Current EXCEPT !.mask = ParentMask(@), !.new = NewRecord,
                                !.merge = FALSE]>> \o Tail(calls)
  /\ UNCHANGED node

SetRecord ==
  /\ Found /\ ~Descends /\ ~Croaks
  /\ ~Prunes
  /\ node' = [node EXCEPT ![NodeToSet][Side] = NewRecord]
  /\ calls' = Tail(calls)

Croak ==
  /\ Found /\ Croaks
  /\ calls' = <<>>
  /\ UNCHANGED node

Step == MakeNextNode \/ MergeIntoNode \/ InsertIntoParent \/ SetRecord \/ Croak

Insert == \E net \in Insertable, data \in Inputs : InsertNetwork(net[1], net[2], data)

\* Without aliases, and with them.
InsertSpec == HeapInit /\ [][Insert \/ Step]_heapVars /\ WF_heapVars(Step)

AliasSpec == HeapInit /\ [][Insert \/ AliasIpv4Networks \/ Step]_heapVars
                      /\ WF_heapVars(Step)

-------------------------------------------------------------------------------
(* Properties *)

\* Records point to nodes that exist.
HeapTypeOK ==
  LET Pointer == [type : {"node", "alias"}, value : 1..Len(node)]
      NoPointer == {EmptyRecord} \cup {DataRecord(d) : d \in Data}
      Call == [bytes : Address, mask : MaskLength, new : Pointer \cup NoPointer,
               merge : BOOLEAN]
  IN /\ \A i \in 1..Len(node) : node[i] \in [Bit -> Pointer \cup NoPointer]
     /\ calls \in Seq(Call)

\* The records that own a node: alias records do not.
Owners(i) == {o \in (1..Len(node)) \X Bit : node[o[1]][o[2]] = NodeRecord(i)}

\* Iterating along node records reaches no node twice and ends, with aliases
\* in the tree too: no node has two owners, the root has none, and an owner is
\* older than what it owns.
NodesFormTree ==
  \A i \in 1..Len(node) : \A o, p \in Owners(i) : o = p /\ o[1] < i

\* The walk of lookup_ip_address, and the record where it ends.
EndsAt(a, n) ==
  LET i == Way(a)[n-1] IN i # 0 /\ ~Points(node[i][a[n]])
LookupEnds(a) == \E n \in 1..Width : EndsAt(a, n)
Lookup(a) == LET n == CHOOSE n \in 1..Width : EndsAt(a, n)
             IN node[Way(a)[n-1]][a[n]].value

\* lookup_ip_address croaks "WTF - found a node or alias record" for no address.
LookupFindsRecord == \A a \in Address : LookupEnds(a)

CONSTANTS Node, Absent     \* as in PrefixTree

ASSUME PlaceAssumption ==
  /\ Node \notin Data \cup {Empty}
  /\ Absent \notin Data \cup {Empty, Node}

RecordOf(r) == IF Points(r) THEN Node ELSE r.value

Tree == INSTANCE PrefixTree WITH
  record <- [p \in Prefix |-> LET i == Way(p)[Len(p) - 1]
                              IN IF i = 0 THEN Absent ELSE RecordOf(node[i][p[Len(p)]])],
  calls <- [i \in 1..Len(calls) |-> [bytes |-> calls[i].bytes, mask |-> calls[i].mask,
                                     data |-> calls[i].new.value,
                                     merge |-> calls[i].merge]]

\* Until networks are aliased, the nodes and pointers implement the tree of
\* records by place: no node has two owners, cut-off nodes are never seen again.
ImplementsTree == Tree!Spec
===============================================================================
