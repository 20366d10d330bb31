# Specifications of MaxMind::DB::Writer

TLA+ models of the library in this repository: the in-memory search tree
written in C (`c/tree.c`), its XS and Perl interface
(`lib/MaxMind/DB/Writer/Tree.{xs,pm}`) and the serializer of the data section
(`lib/MaxMind/DB/Writer/Serializer.pm`). TLC checks the models on small
instances; TLAPS proves the theorems for every value of the constants.

## The system

A program creates a *tree*, inserts networks with a payload each, and writes
the result as a MaxMind DB file. Everything runs in one thread; what makes the
code hard is recursion that changes the structure it walks, failures half-way
through an insert, state that is cached between calls, and integers that wrap.

| part | state it keeps | operations | what makes it correct |
|---|---|---|---|
| search tree (`tree.c` 90-640) | nodes of two records (empty, data, node, alias); payload table | `insert_network`, `lookup_ip_address` | a map from addresses to payloads: an insert changes its network and nothing else; the tree is as small as possible; no lookup ends at a node |
| merging (`tree.c` 375-513) | - | `merge_records`, called by an insert | every address under the network gets old and new fields, new ones winning; a failure leaves a well-defined prefix of the work |
| IPv4 aliases (`tree.c` 236-296) | alias records, shared subtree | `alias_ipv4_networks` | lookups in the alias ranges give the IPv4 data; no cycle; numbering follows |
| numbering (`tree.c` 623-638, 830-836) | `number`, `node_count`, `is_finalized`; the lazily cached attribute `node_count` (Tree.pm 61-66) | `finalize_tree`, `_build_node_count` | numbers are those of the tree that is written |
| writer (`tree.c` 640-772, Tree.pm 173-231) | `iteration_args`, pointer cache, output | `write_tree` | a reader of the file finds for every address the payload the tree has |
| iteration (`tree.c` 774-828, Tree.xs 56-155, 235-271) | `iteration_args` | `iterate` and its callbacks | each record of each node is reported once, in address order |
| serializer (Serializer.pm) | buffer, cache of positions by payload key | `store_data` | what is read at a returned position is what was stored |
| data format (Serializer.pm 211-278, 376-560) | - | control bytes, pointers, integers | a decoder gets back the type, the size and the value |

The parts interact by calls only. `write_tree` calls the serializer for every
distinct payload (`record_value_as_number`), then prints its buffer after the
tree; `iterate` calls back into Perl code, which may call the tree again.

## Modules

    Networks      addresses, networks, places of records
    MaskLengths   mask lengths as uint8_t, and where the walk of one stops
    Payloads      hashes and other payloads, merging
    NetworkMap    what a tree promises: a map from addresses to payloads
    PrefixTree    inserting into the tree, one step per turn of its loops and
                  recursive calls; refines NetworkMap
    TreeHeap      the same on nodes and pointers, and IPv4 aliases; refines
                  PrefixTree as long as nothing is aliased
    Numbering     TreeHeap with the numbers of the nodes and their count
    NodeFormat    the bytes of a node in a file, and their reader
    TreeLifecycle Numbering and NodeFormat with aliasing, counting, iterating
                  and writing in any order, and a reader of the files
    TreeIteration Numbering with iterate: its recursion and its callbacks
    DataFormat    the bytes of the data section, and their reader
    DataSection   what a serializer promises: positions keep their values
    Serializer    store_data with its nested calls and its cache, and a reader
                  of the buffer; refines DataSection
    NetworkLemmas, PrefixTreeProofs, HeapProofs, NumberingProofs,
    IterationProofs, LifecycleProofs, FormatProofs, SerializerProofs
                                                theorems
    MCPrefixTree, MCTreeHeap, MCTreeLifecycle, MCTreeIteration, MCSerializer
                                                instances for TLC

TreeLifecycle and the Serializer meet in one variable, `section`: to the tree,
`store_data` is a position at which a reader finds the payload for ever. That
is what DataSection promises and the Serializer is shown to keep.

### NetworkMap

`db` gives every address its payload (`Empty` if none). An insert is not
atomic, because it can fail half-way: `target` holds what the insert in
progress wants, and `Apply` lets addresses take their target in numeric order.
`Fail` is possible only at the first address whose payloads cannot be merged,
when everything before it has been applied and nothing after it.

### PrefixTree

`record[p]` is the record that the bits of `p` lead to; the two records of a
node are siblings, and `Absent` marks places that no node holds. This forgets
the pointers of the C structure and nothing else: without aliases every node
has one parent, so a place identifies a record. `calls` is the stack of calls
of `insert_record_for_network` that have not run yet. `merge_records` replaces
a call by two calls for the halves of its network, left one on top (406, 439);
the pruning code replaces it by a call for the parent network with merging off
(358). Both are tail positions in the C code, so the stack holds everything
the code will still do.

| action | code |
|---|---|
| `InsertNetwork` | `insert_network`, `insert_resolved_network` |
| `MakeNextNode` | one turn of the loop of `find_node_for_network` that meets a record that is not a node, with `make_next_node` |
| `MergeIntoNode` | `merge_records` on a node |
| `InsertIntoParent` | pruning: the other record has the same key |
| `SetRecord` | the assignment at the end of `insert_record_for_network` |
| `Croak` | the croaks of `merge_records` and `merge_hashes_for_keys` |

Mask lengths are `uint8_t`: `LastBit` and `ParentMask` (module MaskLengths) wrap at `MaskModulus`
(256 in the code). `Depth` is where the loop of `find_node_for_network` stops,
for wrapped masks too: it never leaves the root for a mask of 0 or 1, or for
one that has just wrapped.

Payloads are identified by the SHA1 of their canonical form, which is taken to
be injective: the model compares payloads where the code compares keys.

`Spec` allows every insert. `GapSpec` forbids those that would give the whole
address space one payload (`Fills`): there pruning has no record to stop at,
and the code is wrong (see Findings). Both have weak fairness of `Step`: the
code is sequential, and a call that can take a step takes it.

### TreeHeap

`node` is the sequence of nodes in the order `new_node` made them: nodes are
never freed before the tree is, and one that a pruning or an overwrite cuts off
stays in the sequence. A record is empty, data, or points to a node as its owner
("node") or not ("alias"). The insert steps are those of PrefixTree with records
found by walking pointers (`Way`). `AliasIpv4Networks` puts one call per alias
network on the stack; `HasIpv4Node` is the test that `alias_ipv4_networks` makes
on the record of ::/96.

`ImplementsTree` maps a place to the record at the end of its way. The refinement
includes fairness, so termination carries over, wherever `PrefixTree` has it. With aliases two
places share a record and the mapping is meaningless; there `HeapTypeOK`,
`NodesFormTree` (iteration ends and reports no node twice) and
`LookupFindsRecord` are checked.

### Numbering

`Preorder` is the order of `start_iteration`, and `Finalize` is
`finalize_tree`: numbers and the count are those of the last one until an
insert returns (`Unfinalize`). New nodes have the number 0 (`HeapStep`), nodes
that are not reached keep theirs.

### NodeFormat

`EncodeNode` is `encode_node`, `ReadRecord` the reader. Half a byte has `Nibble`
values (16 in the code). MCTreeLifecycle assumes, and TLC evaluates at each of
its runs, `NodeRoundTrip`: for records of 24, 28 and 32 bits a node is read back
as it was encoded. With `Nibble = 2` the runs write files whose 28 bit records
use both halves of the middle byte.

### TreeLifecycle

| state | code |
|---|---|
| `number`, `node_count`, `is_finalized` | the fields of `MMDBW_node_s` and `MMDBW_tree_s` |
| `node_count_attr` | the lazy attribute of the Perl object |
| `section` | the buffer of the tree's serializer, which lives as long as the tree: one entry for each `store_data`, in order |
| `file` | what the last `write_tree` wrote: the bytes of the nodes, the data section, the node count of the metadata |
| `op` | the call in progress; calls do not overlap |

| action | code |
|---|---|
| `BeginInsert`, `TreeStep`, `EndInsert`, `InsertFails` | `insert_network`; the last when `merge_records` croaks |
| `CreateIpv4Aliases`, `EndAlias` | `_create_ipv4_aliases` |
| `Iterate` | `iterate`, for what it does to the numbers |
| `BuildNodeCount` | the attribute `node_count`, with the croak for a count that does not fit |
| `WriteTree`, `FinishWrite`, `WriteDies` | `write_tree`: aliases first, then `write_search_tree` and the metadata; the last when a callback of the serializer dies |

Every store takes `StoredSize` bytes, so a position is `StoredSize` times an
index into `section`. In a second file a payload is stored as a pointer to its
first place (the serializer's cache); the entry stands for what the pointer
leads to. A write that dies leaves a half-stored entry (`Clash`) that nothing
may point to.

`Encode` folds `record_value_as_number` over the records in the order of the
nodes, with the pointer cache and the croak for values that do not fit; the sum
for a data record wraps at 32 bits. `ReaderFinds` is a reader: it knows the file
only. `FileAnswersLookups` compares it with `lookup_ip_address` for every
address.

`CarefulInsert` and `CarefulAlias` keep callers from orders of calls that break
files (see Findings): an insert comes before the node count is asked for and
before aliasing, and in a finalized tree it must not meet a payload it cannot
merge; aliasing comes before the tree is finalized. Each part can be lifted by a
member of `Liberties`.

### TreeIteration

The stack `frames` holds the calls of `iterate_tree`. A frame goes down the left
record, reports both records, and goes down the right one; `reports` is what the
callbacks were told since the last `iterate`.

| action | code |
|---|---|
| `BeginInsert`, `EndInsert`, `InsertFails` | `insert_network`: its steps are those of TreeHeap; one that returns clears `is_finalized`, one that croaks leaves it |
| `BeginAlias`, `EndAlias` | `alias_ipv4_networks` |
| `Iterate` | `iterate`: finalizes, looks up the methods of the receiver, croaks without any, and sets `iteration_args` |
| `GoLeft`, `GoRight` | the two recursive calls of `iterate_tree`, for nodes that are not aliases |
| `ReportLeft`, `ReportRight` | the two halves of `call_perl_object`, with `method_for_record_type` |
| `CallbackDies` | a callback dies: the frames are unwound, `iteration_args` stays |
| `FrameReturns`, `IterateReturns` | returns; the outermost clears `iteration_args` |

Callers insert before they alias, and alias before they finalize. Inserts may fail, also
in a tree that an earlier iteration has finalized: the nodes that such an insert has made
are then reported with the number 0. The history variable `failed` is set by it and
cleared by the next insert that returns; it guards nothing. `NumbersAgree` says that
a node record is always reported with the number its node is reported with, and that
no two nodes share a number (`NumbersNameNodes`) unless `failed`. Callbacks
return or die; they do not call the tree (see Not modelled).

### DataFormat

Control bytes with their size classes, pointers, and integers without leading
zeros, each with its reader (`Control`, `Pointer`, `Unpacked`, `Signed`). A byte
has `Byte` values (256 in the code), of which the high bits of a position take
`PointerHigh` (8) in the first byte of a pointer. With 4 and 1, every class of sizes and every
width of pointers but the last occurs in a short buffer; the limits keep their
form: Direct is 1 (29 in the code), the thresholds are 1, 5, 21, 85 (29, 285,
65821, 16843037). MCSerializer assumes, and TLC evaluates, `FormatRoundTrip`:
every pointer below the last cutoff, and every size that can be stored but the
two of the finding `size_class`, is read back.

### Serializer and DataSection

`contents` of DataSection is the value at every position a caller got; a store
returns (`Return`: a new position holds the value) or fails (`Fail`: nothing
changes). No step changes what a position holds.

`store_data`, `_encode_map` and `_encode_array` call each other; `work` is what
the calls in progress have still to do, and the steps are those that touch the
buffer or the cache, or can die.

| action | code |
|---|---|
| `Request`, `Return` | a caller's `store_data`, from outside |
| `StorePointer` | `store_data` of a value in the cache |
| `StoreFull` | `store_data` up to its first nested call: the bytes of the value or of the control bytes of a map or array |
| `SavePosition` | `_save_position`, after the members |
| `TypeForKey`, `CallbackDies` | `_type_for_key`: the callback returns or dies |
| `CallDies` | an undef, a value too large, an array with no member type, a pointer too far |

`Decoded` is the reader: from a position, it follows control bytes, members and
pointers through the whole buffer. `ImplementsDataSection` is the refinement:
what the VERIFY mode of the code checks of each value when it is stored, for every
position ever returned and after every step. Values that are requested are
maps that share members, with every type among their members, one whose
callback may die, and one with a number that its type does not hold; so
a retry meets members that a failed store left in the cache. Each value has
one type, and no size is a threshold: see Findings. `ShouldCache` asks for the length
of a number or a boolean as Perl prints it, which the instance gives with the value.

### Mistakes

A few operators marked `mistake` are not part of the model. Each is a
plausible bug in the definition that follows it; PROJECT.json ("mutants")
says which property fails when it is put in its place.

## Runs

The runs of PrefixTree and `heap_merge` use addresses of 2 or 3 bits: with 3 bits a
network can be split over two levels below its record and pruned over three;
masks wrap at 8. Networks are all those of the lower half of the space and the halves or quarters of
the upper half, which gives every kind of neighbour to every place of the
lower half.

| run | question | bounds |
|---|---|---|
| `overwrite` | do overlapping inserts implement the map, and leave its smallest tree? | 3 bits, 2 payloads |
| `merge_hashes` | the same with merging, and does every insert return? | 3 bits, hashes `{f}` and `{f, g}` that conflict on `f` |
| `merge_clash` | what does an insert that fails leave behind? | 3 bits, a hash and a scalar |
| `any_network` | is the tree well formed with no restriction on inserts? | 2 bits, the network /0 included |
| `fill_lost` | finding, below | 2 bits |
| `heap_merge` | do nodes and pointers implement the tree of records? | 3 bits, no insert once 4 nodes are allocated |
| `heap_alias` | is the heap well formed with aliases, inserts through them and over them? | 4 bits, IPv4 below two of them, an alias of 2 bits and one of 1; no networks longer than an IPv4 address below the alias of 1 bit; no insert once 5 nodes are allocated |
| `lifecycle` | do files agree with the tree, in any careful order of calls, with merges and writes that fail, and do aliases answer where there is an IPv4 subtree? | 4 bits, IPv4 below three, aliases of 3 and 2 bits; a hash and a scalar; 28 bit records; inserts until 7 nodes are allocated, writes until the serializer holds 3 entries |
| `stale_count` | finding | 3 bits, no aliases |
| `iteration` | what are callbacks told, after inserts that merge, inserts that croak half-way in a finalized tree or before, aliasing and iterations that died? | 4 bits, IPv4 below two, aliases of 2 bits and 1; a hash and a scalar; overlapping IPv4 networks, and networks where the aliases will be; receivers with all methods, one and none; no insert once 5 nodes are allocated |
| `serializer` | is what is read at a position what was stored, for ever? | 7 values of up to 3 levels, no request once the buffer has more than 28 bytes; the reader goes 6 levels deep |
| `size_class` | finding | a text as long as the second threshold |

`ImplementsMap` is the refinement of `NetworkMap`: `db` is `Lookup`, and the
target of an address is what the last pending call for it would give it. It
says that splits, prunings and merges never touch an address outside the
network, that fields are merged exactly once, and that a failed insert has
been applied to the addresses below the clash only. `CanonicalWhenIdle` says
that between inserts the tree is a function of the map: order and grouping of
the inserts do not matter. It is not claimed in `merge_clash`: a croak after
a split leaves a node with two equal records, and nothing prunes it.
`InsertsReturn` is termination of every insert.

In `lifecycle` a file is compared with the tree at the moment it was written:
`file` is forgotten when the next call begins. `StoredSize` and `Separator` are so
large that some trees exceed the largest value (127) of a record and `write_tree`
croaks, and others do not. `VisitsInOrder`, `ReportsMatchLookups`, `NumbersAgree` and
`CallsReceiver` are claimed of iterations in progress too.

In `serializer`, 28 bytes put pointers of the first three widths into the
buffer (their limits are 4, 20 and 84) and leave room for a store after a pointer to a
pointed-to map; members and pointers are nested less than 6 deep. Wider pointers
are covered by `FormatRoundTrip`.

The bounds on nodes (`MaxNodes`) and on the buffers (`MaxSection`, `MaxBuffer`) stop
new calls and never a call in progress, so runs with a heap or a serializer end in
states where nothing is left to do: they do not check deadlock. Four nodes are a
root, a chain of two and one cut off; with aliases, seven are the IPv4 chain, the
nodes that aliasing makes, and one that an insert makes after it.

Fairness is assumed of PrefixTree and TreeHeap only (above); the other modules
make no claim that something happens.

## Findings

* `fill_lost` - pruning at the root. `parent_mask_length` (tree.c:343) has no
  stop: if both halves of the address space get one payload, the mask becomes
  0, wraps to 255 and comes down to the full address length; the code then
  sets a single address and drops the rest of the network. The same path makes
  an insert of /0 set half of the space.
  With the rest of the space uniform, every pruning finds an equal record, also
  after the wrap, and the recursion does not end.
* `stale_count` - an insert after `node_count` or `write_tree`: the next file has
  the old node count in its metadata.
* `size_class` - `_control_bytes` (Serializer.pm:532) gives a size of 285 one byte,
  and 65821 two: the remainders, 256 and 65536, do not fit, and `pack` cuts them to 0.
  A text of 285 bytes is read as one of 29.

The models show more of the same kind, which have no run of their own (each is
seen when the constant or property named is changed):

* `Insertable <- AndTunnelHosts` in `heap_alias`: an insert of a long network
  below 2002::/16 or 2001::/32 of an aliased tree goes on from the IPv4 node with
  more bits than an IPv4 address has left; `lookup_ip_address` then croaks "WTF"
  (tree.c:533), and `LookupFindsRecord` fails;
* `Liberties = {"alias after finalize"}` in `lifecycle`: nodes that `write_tree`
  makes by aliasing after `node_count` or `iterate` are written as node 0;
  `FinalizedIsNumbered` and `FileAnswersLookups` fail;
* `Liberties = {"fail after finalize"}` in `lifecycle`: an insert that croaks (and is
  caught) in a finalized tree leaves new nodes without a number; both fail;
* `NumbersNameNodes` as an invariant of `iteration`: such an insert never reaches the end of
  `insert_resolved_network` (tree.c:139), the next `iterate` does not renumber, and the
  nodes that the insert has split are reported as node 0, the number of the root, though
  callbacks are promised "the node number" (Tree.pm:424, 455), and VisualizeTree.pm:95
  labels nodes by it. `NumbersAgree` has it under the condition that no such insert came;
* `Liberties = {"insert after alias"}` in `lifecycle`: an insert that covers ::/96
  leaves the alias records pointing to the node it cut off; its number is stale in
  the file, and `FileAnswersLookups` fails;
* `record_size = 32` with `StoredSize = 115` in `lifecycle`: the sum for a data record
  wraps before it is checked, and `FileAnswersLookups` fails;
* a value stored with two types, in MCSerializer: the cache does not know the
  type, the second store becomes a pointer to the first, and `ImplementsDataSection`
  fails;
* `AliasesAnswerAsIpv4` fails without its condition `HasIpv4Node`: a data record
  that covers ::/96 is never aliased, although the comment at tree.c:263 takes that
  case for "no IPv4 addresses";
* under `Spec` in place of `GapSpec`, `InsertsReturn` fails.

One oddity was read and not modelled: the size of the buffer for the text of a right half's
address is `AF_INET ? INET_ADDRSTRLEN : INET6_ADDRSTRLEN` (tree.c:417), whose condition is
always true, so that `inet_ntop` fails for the longer IPv6 addresses. The text is used in
messages only.

## Proofs

Everything in this section holds for every value of the constants that the
assumptions of the modules admit: the width is positive, masks can be larger than
the width, the marks are distinct from payloads, callers insert networks and
payloads. Three kinds of reasoning recur. An invariant is strengthened until each
step keeps it, and the step is proved action by action. A refinement is proved
from such an invariant: each step of the detailed module is a step of the
abstract one or changes nothing it sees. Where a definition is a recursive
function (`Way`, the digits of an integer), a fact about every argument is proved by
looking at the smallest one for which it fails.

| module | theorems | what they say |
|---|---|---|
| `PrefixTreeProofs` | `TypeCorrect`, `OneRecord` | `TypeOK` and `OneRecordPerAddress` for any inserts, wrapped masks included |
| | `CallsQueue`, `MapImplemented`, `CanonicalTree` | `ImplementsMap` and `CanonicalWhenIdle` of `GapSpec` |
| `HeapProofs` | `HeapTypeCorrect`, `NodesAreTree` | `HeapTypeOK` and `NodesFormTree`, with aliases |
| | `TreeImplemented`, `LookupsFind`, `HeapImplementsMap`, `HeapCanonical` | without aliases, nodes and pointers implement PrefixTree, and with it all that is proved of PrefixTree |
| `NumberingProofs` | `OrderIsWalk`, `NumbersArePlaces` | the walk of `finalize_tree` lists every node that it should, once, and numbers it by its place |
| `IterationProofs` | `AliasedLookupsFind`, `ReportsAreLookups`, `VisitedInOrder`, `ReportedNumbersAgree`, `UnmergedNumbersNameNodes`, `ReceiverCalled` | `LookupFindsRecord`, `ReportsMatchLookups`, `VisitsInOrder`, `NumbersAgree` and `CallsReceiver` of TreeIteration, aliases and failed inserts included; without merging also `NumbersNameNodes` |
| `LifecycleProofs` | `FinalizedNumbered` | `FinalizedIsNumbered`, in any careful order of calls |
| | `NodesReadBack` | the records of a node are read back from its bytes, for the three record sizes |
| | `FilesAnswerLookups`, `FilesAnswerAliases` | `FileAnswersLookups` and `AliasesAnswerAsIpv4`, in any careful order of calls, for files below 2^32 |
| `FormatProofs` | `PointersReadBack`, `SizesReadBack`, `UnsignedReadBack`, `SignedReadBack` | what the serializer writes is what the reader gets |
| `SerializerProofs` | `PointersAreSound` | `PointersLeadToValues` |

**PrefixTreeProofs.** `OneRecordPerAddress` with `TypeOK` is inductive: the path of
every address goes through nodes to one empty or data record, with nothing
below. Only two actions change records. `MakeNextNode` moves the record of the
addresses below it one bit down; `SetRecord` makes its place the record of every
address below it, which needs that its place exists (`Found`), hence that it is
at or above their records. `NetworkLemmas` has the facts about places: when two
paths share one, and which are below another. The proofs hold for `GapSpec` too,
whose steps are steps of `Next` (`GapNextIsNext`).

The map has an insert in progress as a target for each address; the
tree has a stack of calls. `Queue` is what relates the two: the calls are in
the order of their addresses, all but the first still to be merged. The first may
have been pruned to a parent, whose network reaches into those of later calls;
then such addresses have its payload already (`CallsInOrder`), and merging the
later call's payload into that one changes nothing (`DataAbsorbed`). So a step that sets a record applies the target to
the next addresses in order, and every other step changes neither lookups nor
targets. That no mask wraps is part of it (`CallsInTree`): it needs that an
insert never gives the whole address space one payload (`NotFilled`, from the
guard of `GapSpec`) and that callers insert no network of mask length 0
(`NoWholeSpace`, a hypothesis; `any_network` is about the rest, and `fill_lost` shows what
happens otherwise). `CanonicalTree` adds `PairsOnPath`: two equal records
of one node occur only on the path of the insert in progress, where its pruning
will find them. It needs that no merge croaks (`NoClash`: the tree does not
merge, or callers insert hashes), because a croak leaves the nodes it split.

**HeapProofs.** `HeapInv` adds to `NodesFormTree` that nodes and calls have their
types and that no pending call brings a node's owner (`NoOwningCall`): a new
owner comes only from `MakeNextNode`, for a node that is new. It holds of
`AliasSpec`, whose only restriction is the bound on nodes.

With no alias records, a node has one owner, so two ways that
come to one node come to it at one depth and from one prefix (`WaysMeet`): a
node hangs at one place, and a change of its record is seen at one place. Each
action on the heap is the action of PrefixTree of the same name, or changes
nothing there. `Places` is PrefixTreeProofs on the records by place; its theorems
about steps carry over to the heap (`HeapImplementsMap`, `HeapCanonical`).

With aliases two places share a record, and what is left of that argument is
about ways that pass no alias (`OwnWay`). `Levels` gives nodes a depth: a node
record goes down by one level, an alias record by any number, so that a way is
never deeper than the node at its end and ends before the bits do. It is kept because the
aliases are at most as deep as the IPv4 network and no later one lies inside an earlier
one (`AliasesFit`; those of the code are ::ffff:0:0/96, 2002::/16 and 2001::/32, and ::/96).
`Leads` is the record at the end of such a way: what the steps of aliasing leave
alone (`MakeNextNodeLeads`, `SetRecordLeads`) and what they set (`SetRecordLeadsTo`).

**NumberingProofs.** `Preorder` is a recursive function on nodes that has a value only
because node records go to younger nodes (`NodesFormTree`): the recursion of
`start_iteration` ends. `OrderIsWalk` is what the other proofs know of it: it lists
the root and every node that a listed node has a node record for, none twice, because
a node has one owner and what is below the two records of a node is apart.

**IterationProofs.** The callers of TreeIteration insert, then alias, then
iterate. The invariant `IterationInv` goes through these phases: while nothing is
aliased the heap implements a tree of records; while aliases are set the levels hold and the
calls that are left bring aliases only; and in an iteration each frame stands on the way of its network and
each report is of a record on that way (`ReportOK`). Reports of data are then
lookups because `Way` is, and numbers agree because the walk lists a node once. A failed
insert leaves a heap that still implements a tree of records, but maybe nodes without a number of their own:
the part of the invariant that numbers are those of the walk has `~failed` as its
hypothesis, the others have not. Without merging nothing croaks (`MergesNothing`), which
gives `UnmergedNumbersNameNodes`.
While an iteration is in progress, `iteration_args` is its
receiver, also if an earlier one that died left the field behind. For the order of the
networks, `Visiting` says which addresses the frames still have before them (`Ahead`: what
is left of a frame's two halves at its stage): those of a frame come before those of the frames
below it, and they are exactly the addresses that have not been told.

**LifecycleProofs.** `FinalizedIsNumbered` has to survive every call that does not
clear `is_finalized` by itself: an insert that croaks and aliasing. `LifecycleInv` has two phases.
While callers insert (`Inserting`), the tree implements the map of NetworkMap, so an
insert into a finalized tree that the caller knows to be mergeable has no target that
clashes (`NoneClashes`), cannot croak, and clears the mark when it returns. Afterwards (`Aliasing`) each alias
is set or its call is pending, and in a numbered tree all of them are set, so
that aliasing again, as each `write_tree` does, changes no record and makes no
node. The hypotheses are what the proof needs of callers (`IsCareful`; the
findings show what each of the three liberties does), of the networks they insert
(`LeavesGap`: some address is in none, so that no insert fills the tree) and of the
list of aliases (`AliasesApart`, true of the code's).

`NodesReadBack` is what the file rests on, for a node at any place of the search
tree. Records of 28 bits are the hard case: the middle byte has the first half byte of
both, and is right because `record_value_as_number` has checked MAX_RECORD_VALUE, which
leaves no more than a half byte there.

`FilesAnswerLookups` goes from there to whole files. What it needs to hold between
calls is `KeptInv` (TLC was asked first, on the instance of `lifecycle`, for the parts that
it can evaluate): `LifecycleInv`; `Levels`, so that walks through aliases end; `OneTarget`,
that every alias record leads to the IPv4 node, which is owned and so numbered;
`Counted`, that a node count which is kept is that of the tree as it is; `AliasedFile`,
that a file is written only of a tree whose aliases are set; and that the serializer's
buffer has payloads or half-stored entries only. A step that writes a file then goes
through five facts:

1. every node that a way comes to, aliases included, is in the walk (`WayListed`), so it has
   a number, below the node count;
2. the fold of `Encode` is a chain of steps (`EncodeFold`), and after each of them every
   value collected is right for its record (`ValueOf`): the node count, the number of the
   node, or a place where the buffer has that payload (`EncodeStep`, `EncodedIs`), cached or
   stored just now. The buffer only grows, so this stays (`PlacedLater`);
3. the bytes of all nodes lie end to end, each in as many bytes (`Flattened`), and by
   `NodesReadBack` the two values of each are read from them (`PrintedReads`);
4. so the file has what a reader needs (`Describes`, `FinishedFile`), and at each bit of an
   address the reader stands at the number of the node that the way stands at, or
   has left the nodes at the record where the lookup ended (`NextValue`, `DescribedAnswers`);
5. a value below the node count cannot be a payload's nor one above it a node's, so that
   the reader tells the three apart (`DataFound`).

That the place of a payload is the value modulo 2^32 enters in the last fact, and is
why the theorems speak of files whose section and node count stay below 2^32 (`SmallFile`).
The code checks a value only after it has wrapped, so without that condition they are false
(see Findings, `StoredSize = 115`). The other hypotheses are those above, with `Liberties = {}`:
for the file an insert after the node count was asked for is no longer harmless (`stale_count`).
The instance of `lifecycle` meets all of them, so the run is a case of the theorems.

`FilesAnswerAliases` adds that two addresses with the same bits below a node that both come
to have the same lookups (`WaysFollow`, `SharedNode`). An alias network and the IPv4 network
share the node at their ends (`LeadsOn`, from `AliasSet`), so an address and the IPv4 address it
stands for are such a pair (`AliasLookups`), and the file answers both.

**FormatProofs.** Each theorem is about bytes that stand anywhere in a buffer (`Holds`).
`SizesReadBack` is exact: a size is read back if and only if it is not the
second or third threshold, so the two sizes of the finding `size_class` are the
only ones. Integers need that their lengths fit a control byte (16 < `Direct`, which
is 29 in the code) and, for negative ones, that a byte has an even number of
values.

**SerializerProofs.** `SerializerInv` says of every call that is still to save a
position, and of every position saved, that the buffer has the control bytes of
a value there. A buffer that grows keeps them, and so does a call that
dies, since nothing takes back what is in the buffer.

### Model-checked only

* That inserts end (`InsertsReturn`, and the fairness in `ImplementsTree`): liveness is
  outside the prover's reach.
* `LookupFindsRecord` where inserts and aliases alternate (`AliasSpec`). It fails for long networks below an alias
  (see Findings), and under the restriction of `heap_alias` it depends on the depths
  of the nodes that inserts through an alias make. `LookupsFind` is the case without aliases,
  `AliasedLookupsFind` the one of a tree that is aliased after the inserts.
* `ImplementsDataSection`: its reader is a recursive function over nested values,
  bounded in depth.

## Not modelled

* Vendored headers (`ppport.h`, `uthash.h`, `perl_math_int64.*`,
  `perl_math_int128.*`): about nine tenths of the lines of C, none of them this
  library's logic. The hash table of payloads only grows and is freed with the
  tree; in the models it is the set of payloads.
* `resolve_network` and the alias addresses it parses: `getaddrinfo` does the work,
  and what it returns for a literal is not this code's.
* Reference counts: every merge leaks a hash (tree.c:489), and the tree keeps the
  caller's structure, which the caller may change. That is Perl's memory, not state
  of the tree.
* Callbacks that call the tree. One that iterates or writes leaves `iteration_args`
  NULL for the iteration around it; one that inserts changes the nodes that
  iteration stands on. Nothing is promised of them; the hazards of PROJECT.json name
  the lines.
* Records of more than 32 bits: `record_size` admits them, but the shift that
  computes their largest value is wider than its type.
* The other metadata, debugging helpers, `free_tree`, the graphviz output, build and
  author scripts.

## Plan

What is left to prove of what the runs check is, in `TreeHeap`, `LookupFindsRecord` with inserts
through aliases, for networks that are shorter than the aliases leave bits for.
