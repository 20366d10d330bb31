---------------------------- MODULE TreeLifecycle ----------------------------
(***************************************************************************)
(* The life of a tree: inserting, aliasing, counting nodes, iterating and  *)
(* writing, in any order (lib/MaxMind/DB/Writer/Tree.{pm,xs}, c/tree.c).    *)
(* Numbers given to the nodes are kept until an insert returns; the node   *)
(* count is kept for ever.  A file is read back by a reader that knows the *)
(* file only.                                                              *)
(*                                                                         *)
(* Liberties are the orders of calls that a careful program avoids (see    *)
(* CarefulInsert and CarefulAlias).                                        *)
(***************************************************************************)
EXTENDS Numbering, NodeFormat

CONSTANTS
  AliasIpv6ToIpv4,         \* the option alias_ipv6_to_ipv4
  record_size,
  Separator,               \* DATA_SECTION_SEPARATOR_SIZE: 16
  StoredSize,              \* bytes that every store takes in the data section
  NoFile,
  MaxSection,              \* bound: no write once the serializer holds this many payloads
  Liberties

ASSUME LifecycleAssumption ==
  /\ AliasIpv6ToIpv4 \in BOOLEAN
  /\ record_size \in RecordSize
  /\ {Separator, StoredSize} \subseteq Nat \ {0} /\ MaxSection \in Nat
  /\ NoCount \notin Nat
  /\ Liberties \subseteq {"insert after count", "fail after finalize",
                          "alias after finalize", "insert after alias"}

VARIABLES
  op,                      \* the call in progress
  node_count_attr,         \* the attribute node_count of the Perl object
  section,                 \* the serializer's buffer: what each store put there
  file                     \* what the last write_tree wrote, until the next call

vars == <<heapVars, numbering, op, node_count_attr, section, file>>

Idle == op = "none"

-------------------------------------------------------------------------------
(* Writing and reading *)

\* The value of a data record: a uint32_t sum.
DataValue(position) ==
  (position + FinalCount + Separator) % (Byte * Byte * Byte * Byte)

AlwaysFits(value) == TRUE                                            \* mistake
Fits(value) == value <= MaxRecordValue(record_size)

\* record_value_as_number for one record, after the records before it: done
\* holds the serializer's buffer, the data_pointer_cache and the values so far.
Encode(done, r) ==
  LET cached == IsData(r) /\ r.value \in DOMAIN done.cache
      value == IF r.type = "empty" THEN FinalCount
               ELSE IF Points(r) THEN FinalNumber[r.value]
               ELSE IF cached THEN done.cache[r.value]
               ELSE DataValue(StoredSize * Len(done.section))
      stored == IF IsData(r) /\ ~cached
                THEN [done EXCEPT !.section = Append(@, r.value),
                                  !.cache = [data \in {r.value} \cup DOMAIN @ |->
                                               IF data = r.value THEN value ELSE @[data]]]
                ELSE done
  IN IF done.croaked THEN done
     ELSE IF Fits(value) THEN [stored EXCEPT !.values = Append(@, value)]
     ELSE [stored EXCEPT !.croaked = TRUE]

\* write_search_tree: the values of both records of every node, in the order of
\* their numbers; and the bytes that encode_node prints.
Encoded ==
  LET records == FlattenSeq([k \in 1..Len(Preorder) |->
                               <<node[Preorder[k]][0], node[Preorder[k]][1]>>])
  IN FoldLeft(Encode, [section |-> section, cache |-> <<>>, values |-> <<>>,
                       croaked |-> FALSE], records)

Printed(values) ==
  FlattenSeq([k \in 1 .. Len(values) \div 2 |->
                EncodeNode(record_size, values[2 * k - 1], values[2 * k])])

\* The node_count attribute is built once.
CountAttr == IF node_count_attr = NoCount THEN FinalCount ELSE node_count_attr

\* A reader (MaxMind::DB::Reader) follows the address from node 0; a value
\* below the node count of the metadata is a node, that count is "no data", and
\* above it is a place in the data section.
ReaderFinds(f, a) ==
  LET at[n \in 0..Width] ==
        IF n = 0 THEN 0
        ELSE IF at[n-1] >= f.node_count THEN at[n-1]
        ELSE IF ~((at[n-1] + 1) * NodeBytes(record_size) \in 1 .. Len(f.nodes)) THEN -1
        ELSE ReadRecord(record_size, f.nodes, at[n-1], a[n])
      position == at[Width] - f.node_count - Separator
  IN IF at[Width] = f.node_count THEN Empty
     ELSE IF position % StoredSize = 0 /\ position \div StoredSize \in 0 .. Len(f.section) - 1
     THEN f.section[position \div StoredSize + 1]
     ELSE Clash

-------------------------------------------------------------------------------
(* Calls *)

Init == /\ HeapInit
        /\ NumberingInit
        /\ op = "none"
        /\ node_count_attr = NoCount
        /\ section = <<>>
        /\ file = NoFile

\* An insert that will meet a payload it cannot merge.
Fails(net, data) ==
  /\ MergeRecordCollisions
  /\ \E a \in Address : /\ Covers(net[1], net[2], a)
                        /\ Lookup(a) # Empty /\ ~Mergeable(Lookup(a), data)

\* A careful program inserts before it asks for the node count, before it
\* aliases, and - if the insert will fail - before the tree is finalized.
CarefulInsert(net, data) ==
  /\ node_count_attr # NoCount => "insert after count" \in Liberties
  /\ HasAliases => "insert after alias" \in Liberties
  /\ is_finalized /\ Fails(net, data) => "fail after finalize" \in Liberties

BeginInsert ==
  /\ Idle
  /\ \E net \in Insertable, data \in Inputs :
       CarefulInsert(net, data) /\ InsertNetwork(net[1], net[2], data)
  /\ op' = "insert"
  /\ file' = NoFile
  /\ UNCHANGED <<numbering, node_count_attr, section>>

EndInsert ==
  /\ op = "insert" /\ ~Running
  /\ op' = "none"
  /\ Unfinalize
  /\ UNCHANGED <<heapVars, number, node_count, node_count_attr, section, file>>

InsertFails ==
  /\ Croak
  /\ op' = "none"
  /\ UNCHANGED <<numbering, node_count_attr, section, file>>

TreeStep ==
  /\ HeapStep
  /\ UNCHANGED <<op, node_count_attr, section, file>>

\* A careful program does not alias a tree that it has counted or iterated.
CarefulAlias ==
  is_finalized /\ HasIpv4Node /\ ~HasAliases => "alias after finalize" \in Liberties

BeginAlias ==
  /\ IF HasIpv4Node THEN AliasIpv4Networks ELSE UNCHANGED heapVars
  /\ UNCHANGED <<numbering, node_count_attr, section>>

\* _create_ipv4_aliases.
CreateIpv4Aliases ==
  /\ Idle /\ AliasIpv6ToIpv4 /\ CarefulAlias
  /\ BeginAlias
  /\ op' = "alias"
  /\ file' = NoFile

EndAlias ==
  /\ op = "alias" /\ ~Running
  /\ op' = "none"
  /\ UNCHANGED <<heapVars, numbering, node_count_attr, section, file>>

\* iterate: what the callbacks see is in TreeIteration.
Iterate ==
  /\ Idle
  /\ Finalize
  /\ file' = NoFile
  /\ UNCHANGED <<heapVars, op, node_count_attr, section>>

\* node_count: the first call builds it, and croaks if it is too large.
BuildNodeCount ==
  /\ Idle
  /\ node_count_attr = NoCount
  /\ Finalize
  /\ node_count_attr' = IF ~Fits(FinalCount) THEN NoCount ELSE FinalCount
  /\ file' = NoFile
  /\ UNCHANGED <<heapVars, op, section>>

WriteTree ==
  /\ Idle
  /\ Len(section) < MaxSection
  /\ AliasIpv6ToIpv4 => CarefulAlias
  /\ IF AliasIpv6ToIpv4 THEN BeginAlias
     ELSE UNCHANGED <<heapVars, number, is_finalized, node_count, node_count_attr, section>>
  /\ op' = "write"
  /\ file' = NoFile

\* The rest of write_tree, once networks are aliased.
FinishWrite ==
  /\ op = "write" /\ ~Running
  /\ op' = "none"
  /\ Finalize
  /\ section' = Encoded.section
  /\ IF Encoded.croaked \/ ~Fits(CountAttr)
     THEN UNCHANGED <<node_count_attr, file>>
     ELSE /\ node_count_attr' = CountAttr
          /\ file' = [nodes |-> Printed(Encoded.values), section |-> Encoded.section,
                      node_count |-> CountAttr]
  /\ UNCHANGED heapVars

\* The type callback dies while a payload is stored: the buffer keeps what was
\* stored before and a part of that payload; there is no file.
WriteDies ==
  /\ op = "write" /\ ~Running
  /\ op' = "none"
  /\ Finalize
  /\ \E n \in Len(section) .. Len(Encoded.section) - 1 :
       section' = Append(SubSeq(Encoded.section, 1, n), Clash)
  /\ UNCHANGED <<heapVars, node_count_attr, file>>

Next == \/ BeginInsert \/ EndInsert \/ InsertFails \/ TreeStep
        \/ CreateIpv4Aliases \/ EndAlias
        \/ Iterate \/ BuildNodeCount
        \/ WriteTree \/ FinishWrite \/ WriteDies

Spec == Init /\ [][Next]_vars

-------------------------------------------------------------------------------
(* Properties *)

\* In a finalized tree the nodes that are iterated have the numbers 0, 1, ... of
\* their order, and node_count is their number.
FinalizedIsNumbered ==
  Idle /\ is_finalized => /\ node_count = Len(Preorder)
                          /\ \A k \in 1..Len(Preorder) : number[Preorder[k]] = k - 1

\* A reader of a file finds for every address what the tree that was written
\* has for it, aliases included.
FileAnswersLookups ==
  file # NoFile => \A a \in Address : ReaderFinds(file, a) = Lookup(a)

\* The IPv4 address that an address of an alias network stands for.
Ipv4Of(net, a) ==
  [i \in 1..Width |-> IF i > Ipv4Bits /\ i - Ipv4Bits + net[2] <= Width
                      THEN a[i - Ipv4Bits + net[2]] ELSE 0]

\* "The final database will map some IPv6 ranges to the IPv4 range" (Tree.pm):
\* an address of an alias network has the data of its IPv4 address, if the IPv4
\* network has a node of its own for aliases to share.
AliasesAnswerAsIpv4 ==
  file # NoFile /\ AliasIpv6ToIpv4 /\ HasIpv4Node =>
    \A k \in 1..Len(Ipv4Aliases) : \A a \in Address :
      Covers(Ipv4Aliases[k][1], Ipv4Aliases[k][2], a)
        => ReaderFinds(file, a) = ReaderFinds(file, Ipv4Of(Ipv4Aliases[k], a))
===============================================================================
