------------------------------ MODULE PrefixTree ------------------------------
(***************************************************************************)
(* Inserting networks into the in-memory search tree (c/tree.c).           *)
(*                                                                         *)
(* A record is identified by its place: record[p] is the record that the   *)
(* bits of p lead to from the root, Absent when no node has it.  The two   *)
(* records of a node are siblings.  insert_record_for_network calls itself *)
(* (merge_records for the two halves of a network, the pruning code for    *)
(* the parent network); the calls still to run are the stack "calls".  A   *)
(* step is one turn of find_node_for_network's loop that makes a node, or  *)
(* what one call does once it has found its record.                        *)
(***************************************************************************)
EXTENDS MaskLengths, Payloads, FiniteSets, SequencesExt

CONSTANTS
  Node, Absent,            \* MMDBW_RECORD_TYPE_NODE; no such record
  MergeRecordCollisions,   \* the tree's option
  Inputs,                  \* payloads that callers insert
  Insertable               \* networks that callers insert

ASSUME TreeAssumption ==
  /\ Node \notin Data \cup {Empty}
  /\ Absent \notin Data \cup {Empty, Node}
  /\ MergeRecordCollisions \in BOOLEAN
  /\ Inputs \subseteq Data
  /\ Insertable \subseteq Network

VARIABLES
  record,                  \* the tree: the record at each place
  calls                    \* calls of insert_record_for_network still to run

vars == <<record, calls>>

Leaf == Data \cup {Empty}

Call == [bytes : Address, mask : MaskLength, data : Data, merge : BOOLEAN]

-------------------------------------------------------------------------------
\* The record that a call is about.
Place(call) == Cut(call.bytes, Depth(call.mask))

Running == calls # <<>>
Current == Head(calls)
RecordToSet == record[Place(Current)]
OtherRecord == record[Sibling(Place(Current))]

\* The current call has found the node that holds its record.
Found == Running /\ RecordToSet # Absent

\* merge_records goes down into a node, merges with data, or croaks.
Descends == Current.merge /\ RecordToSet = Node
Merges == Current.merge /\ RecordToSet \in Data
Croaks == \/ Descends /\ Current.mask >= Width
          \/ Merges /\ ~Mergeable(RecordToSet, Current.data)

\* new_record's payload after merge_records.
NewData == IF Merges THEN Merged(RecordToSet, Current.data) ELSE Current.data

-------------------------------------------------------------------------------
Init == /\ record = [p \in Prefix |-> IF Len(p) = 1 THEN Empty ELSE Absent]
        /\ calls = <<>>

\* A caller inserts a network.
InsertNetwork(bytes, mask, data) ==
  /\ ~Running
  /\ calls' = <<[bytes |-> bytes, mask |-> mask, data |-> data,
                 merge |-> MergeRecordCollisions]>>
  /\ UNCHANGED record

\* make_next_node: the records of the node that takes a record's place.
EmptyNode(old) == Empty                             \* mistake: the data is lost
\* mistake: new_node sets no types; malloc left that of a node
Uninitialized(old) == IF old \in Data THEN old ELSE Node
NewNode(old) == IF old \in Data THEN old ELSE Empty

\* find_node_for_network meets a record that is not a node on its way down:
\* a new node takes its place.
MakeNextNode ==
  /\ Running
  /\ \E n \in 1 .. Depth(Current.mask) - 1 :
       LET p == Cut(Current.bytes, n) IN
       /\ record[p] \in Leaf
       /\ record' = [q \in Prefix |-> IF q = p THEN Node
                                      ELSE IF q \in Children(p) THEN NewNode(record[p])
                                      ELSE record[q]]
  /\ UNCHANGED calls

\* merge_records on a node: insert into its two records, left one first.
MergeIntoNode ==
  /\ Found /\ Descends /\ ~Croaks
  /\ LET left == [Current EXCEPT !.mask = @ + 1]
         right == [left EXCEPT !.bytes = SetBit(@, left.mask)]
     IN calls' = <<left, right>> \o Tail(calls)
  /\ UNCHANGED record

\* The other record of the node has the same data: the node is pruned.
NeverPrunes == FALSE                                \* mistake
PrunesUnmerged == OtherRecord = Current.data        \* mistake: before the merge
Prunes == OtherRecord = NewData

\* Pruning inserts the parent network instead.
InsertIntoParent ==
  /\ Found /\ ~Descends /\ ~Croaks
  /\ Prunes
  /\ calls' = <<[Current EXCEPT !.mask = ParentMask(@),
                                !.data = NewData,
                                !.merge = FALSE]>> \o Tail(calls)
  /\ UNCHANGED record

\* The record is overwritten; a node it pointed to is no longer in the tree.
SetRecord ==
  /\ Found /\ ~Descends /\ ~Croaks
  /\ ~Prunes
  /\ record' = [q \in Prefix |-> IF q = Place(Current) THEN NewData
                                 ELSE IF IsStrictPrefix(Place(Current), q) THEN Absent
                                 ELSE record[q]]
  /\ calls' = Tail(calls)

\* mistake: only the failing call ends
CroakReturns ==
  /\ Found /\ Croaks
  /\ calls' = Tail(calls)
  /\ UNCHANGED record

\* croak() unwinds all the calls and leaves the tree as it is.
Croak ==
  /\ Found /\ Croaks
  /\ calls' = <<>>
  /\ UNCHANGED record

Step == MakeNextNode \/ MergeIntoNode \/ InsertIntoParent \/ SetRecord \/ Croak

Next == \/ \E net \in Insertable, data \in Inputs : InsertNetwork(net[1], net[2], data)
        \/ Step

\* A call of insert_network runs until it returns or croaks.
Fairness == WF_vars(Step)

Spec == Init /\ [][Next]_vars /\ Fairness

-------------------------------------------------------------------------------
\* lookup_ip_address: the record where the walk along the address ends.
Lookup(a) ==
  LET n == CHOOSE n \in 1..Width : record[Cut(a, n)] \notin {Node, Absent}
  IN record[Cut(a, n)]

Combine(old, new) ==
  IF ~MergeRecordCollisions \/ old = Empty THEN new
  ELSE IF Mergeable(old, new) THEN Merged(old, new)
  ELSE Clash

\* Pruning stops at the root only because some record of the root differs from
\* what is inserted.  An insert fills the address space when every address has
\* the same payload once it is done (what it cannot merge, it leaves).
Fills(bytes, mask, data) ==
  LET After(a) == LET new == Combine(Lookup(a), data)
                  IN IF Covers(bytes, mask, a) /\ new # Clash THEN new ELSE Lookup(a)
  IN \E d \in Data : \A a \in Address : After(a) = d

GapNext == \/ \E net \in Insertable, data \in Inputs :
                ~Fills(net[1], net[2], data) /\ InsertNetwork(net[1], net[2], data)
           \/ Step

GapSpec == Init /\ [][GapNext]_vars /\ Fairness

-------------------------------------------------------------------------------
(* Properties *)

\* Every record has a known type and every pending call a valid network.
TypeOK == /\ record \in [Prefix -> Leaf \cup {Node, Absent}]
          /\ calls \in Seq(Call)

\* The record of address a is n bits down its path: nodes lead to it, and there
\* is nothing below it.
RecordAt(a, n) ==
  /\ record[Cut(a, n)] \in Leaf
  /\ \A m \in 1 .. n-1 : record[Cut(a, m)] = Node
  /\ \A m \in n+1 .. Width : record[Cut(a, m)] = Absent

\* Every address has one record: lookup_ip_address never finds "a node or alias
\* record", merge_records never has a mask length that is "too long", whatever
\* the order of inserts, prunings and failures.
OneRecordPerAddress == \A a \in Address : \E n \in 1..Width : RecordAt(a, n)

\* The record at p in the smallest tree that gives every address its payload.
Canonical(p) ==
  LET Under(q) == {a \in Address : Cut(a, Len(q)) = q}
      Uniform(q) == \E d \in Leaf : \A a \in Under(q) : Lookup(a) = d
  IN IF Len(p) > 1 /\ Uniform(Cut(p, Len(p) - 1)) THEN Absent
     ELSE IF Uniform(p) THEN CHOOSE d \in Leaf : \A a \in Under(p) : Lookup(a) = d
     ELSE Node

\* Between inserts the tree is the smallest one for its map: no node has two
\* equal records, so the tree, its node count and the written database do not
\* depend on the order of the inserts, or on networks inserted in pieces
\* (Tree.t:175).
CanonicalWhenIdle ==
  ~Running => \A p \in Prefix : record[p] = Canonical(p)

\* The insert in progress, as the addresses see it: an address gets what the
\* last call for its network gives it.  (A call that prunes can also cover
\* addresses that a later call is still to merge; they have its data already.)
Target(a) ==
  LET over == {i \in 1..Len(calls) : Covers(calls[i].bytes, Depth(calls[i].mask), a)}
      last == calls[CHOOSE i \in over : \A j \in over : j <= i]
  IN IF over = {} THEN Lookup(a)
     ELSE IF ~last.merge \/ Lookup(a) = Empty THEN last.data
     ELSE IF Mergeable(Lookup(a), last.data) THEN Merged(Lookup(a), last.data)
     ELSE Clash

Map == INSTANCE NetworkMap WITH db <- [a \in Address |-> Lookup(a)],
                                target <- [a \in Address |-> Target(a)]

\* Splitting, merging half by half and pruning implement the map: an insert
\* changes the addresses of its network and no other, from the lowest up, and
\* stops at the first clash.
ImplementsMap == Map!Init /\ [][Map!Next]_(Map!vars)

\* Every insert returns or croaks.
InsertsReturn == Running ~> ~Running
===============================================================================
