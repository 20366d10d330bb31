----------------------------- MODULE TreeIteration -----------------------------
(***************************************************************************)
(* Iterating over a tree with callbacks (Tree.xs, iterate and              *)
(* call_perl_object; c/tree.c, iterate_tree).                              *)
(*                                                                         *)
(* The calls of iterate_tree in progress are the stack "frames".  A frame  *)
(* goes down its left record, calls the receiver for both records, and goes*)
(* down its right record; aliases are reported and not followed.  A        *)
(* callback returns or dies.  The receiver and its methods are found       *)
(* through a pointer in the tree, iteration_args, which nothing clears     *)
(* when a callback dies.                                                   *)
(*                                                                         *)
(* An insert that fails leaves is_finalized as it is, also over nodes that *)
(* it has made.  The variable "failed" records that and guards nothing.    *)
(***************************************************************************)
EXTENDS Numbering

CONSTANTS
  Receivers,               \* objects that callers iterate with
  Methods,                 \* the methods each of them has
  NoArgs                   \* NULL

ASSUME IterationAssumption ==
  \A r \in Receivers : Methods[r] \subseteq {"empty", "node", "data"}

VARIABLES
  op,                      \* the call in progress
  frames,
  iteration_args,
  receiver,                \* the argument of iterate
  reports,                 \* what callbacks were told since it was called
  failed                   \* history: an insert failed in the finalized tree

vars == <<heapVars, numbering, op, frames, iteration_args, receiver, reports, failed>>

iterationVars == <<frames, iteration_args, receiver, reports>>

Idle == op = "none"

-------------------------------------------------------------------------------
(* Inserting and aliasing, between iterations *)

Init == /\ HeapInit
        /\ NumberingInit
        /\ op = "none"
        /\ frames = <<>>
        /\ iteration_args = NoArgs
        /\ receiver = NoArgs
        /\ reports = <<>>
        /\ failed = FALSE

\* What was reported is forgotten when the tree changes.
Forget == reports' = <<>> /\ receiver' = NoArgs /\ UNCHANGED <<frames, iteration_args>>

\* A careful program inserts before it aliases, and aliases before it iterates.
BeginInsert ==
  /\ Idle /\ ~HasAliases
  /\ Insert
  /\ op' = "insert"
  /\ Forget
  /\ UNCHANGED <<numbering, failed>>

EndInsert ==
  /\ op = "insert" /\ ~Running
  /\ op' = "none"
  /\ Unfinalize
  /\ failed' = FALSE
  /\ UNCHANGED <<heapVars, number, node_count, iterationVars>>

\* merge_records croaks: the nodes that are made stay, and so do the numbers.
InsertFails ==
  /\ op = "insert"
  /\ Croak
  /\ op' = "none"
  /\ failed' = is_finalized
  /\ UNCHANGED <<numbering, iterationVars>>

BeginAlias ==
  /\ Idle /\ ~HasAliases /\ ~is_finalized
  /\ AliasIpv4Networks
  /\ op' = "alias"
  /\ Forget
  /\ UNCHANGED <<numbering, failed>>

EndAlias ==
  /\ op = "alias" /\ ~Running
  /\ op' = "none"
  /\ UNCHANGED <<heapVars, numbering, iterationVars, failed>>

TreeStep == HeapStep /\ UNCHANGED <<op, iterationVars, failed>>

-------------------------------------------------------------------------------
(* Iterating *)

Zeros == [i \in 1..Width |-> 0]

Frame(i, network, depth) ==
  [node |-> i, network |-> network, depth |-> depth, next |-> "left"]

\* iterate: the tree is finalized; a receiver without methods is refused.
KeepsOldArgs(r) == IF iteration_args = NoArgs THEN r ELSE iteration_args   \* mistake
NewArgs(r) == r

Iterate(r) ==
  /\ Idle
  /\ Finalize
  /\ reports' = <<>>
  /\ IF Methods[r] = {} THEN receiver' = NoArgs /\ UNCHANGED <<op, frames, iteration_args>>
     ELSE /\ op' = "iterate"
          /\ receiver' = r
          /\ iteration_args' = NewArgs(r)
          /\ frames' = <<Frame(Root, Zeros, 0)>>
  /\ UNCHANGED <<heapVars, failed>>

Top == Head(frames)
Record(side) == node[Top.node][side]

\* FLIP_NETWORK_BIT
NotFlipped(side) == Top.network                                      \* mistake
RecordNetwork(side) == IF side = 0 THEN Top.network ELSE SetBit(Top.network, Top.depth + 1)

InFrame(next) == op = "iterate" /\ frames # <<>> /\ Top.next = next

GoOn(next) == <<[Top EXCEPT !.next = next]>> \o Tail(frames)

\* iterate_tree calls itself for a record that is a node.
FollowsAliases(r) == Points(r)                                       \* mistake
Follows(r) == r.type = "node"

Descend(side, next) ==
  frames' = IF Follows(Record(side))
            THEN <<Frame(Record(side).value, RecordNetwork(side), Top.depth + 1)>> \o GoOn(next)
            ELSE GoOn(next)

GoLeft ==
  /\ InFrame("left")
  /\ Descend(0, "left_record")
  /\ UNCHANGED <<heapVars, numbering, op, iteration_args, receiver, reports, failed>>

GoRight ==
  /\ InFrame("right")
  /\ Descend(1, "done")
  /\ UNCHANGED <<heapVars, numbering, op, iteration_args, receiver, reports, failed>>

\* method_for_record_type, for the receiver that iteration_args points to.
Method(r) == IF Points(r) THEN "node" ELSE r.type
Called(side) == Method(Record(side)) \in Methods[iteration_args]

\* The arguments of a callback.
Report(side) ==
  [receiver |-> iteration_args, type |-> Record(side).type,
   node |-> number[Top.node], is_right |-> side = 1,
   node_network |-> Top.network, node_mask |-> Top.depth,
   network |-> RecordNetwork(side), mask |-> Top.depth + 1,
   value |-> IF Points(Record(side)) THEN number[Record(side).value]
             ELSE Record(side).value]

\* call_perl_object, for one of the two records.
CallPerlObject(side, stage, next) ==
  /\ InFrame(stage)
  /\ frames' = GoOn(next)
  /\ reports' = IF Called(side) THEN Append(reports, Report(side)) ELSE reports
  /\ UNCHANGED <<heapVars, numbering, op, iteration_args, receiver, failed>>

ReportLeft == CallPerlObject(0, "left_record", "right_record")
ReportRight == CallPerlObject(1, "right_record", "right")

\* A callback dies: perl unwinds the calls, and iteration_args stays.
CallbackDies ==
  /\ \/ InFrame("left_record") /\ Called(0)
     \/ InFrame("right_record") /\ Called(1)
  /\ op' = "none"
  /\ frames' = <<>>
  /\ reports' = <<>>
  /\ receiver' = NoArgs
  /\ UNCHANGED <<heapVars, numbering, iteration_args, failed>>

FrameReturns ==
  /\ InFrame("done")
  /\ frames' = Tail(frames)
  /\ UNCHANGED <<heapVars, numbering, op, iteration_args, receiver, reports, failed>>

IterateReturns ==
  /\ op = "iterate" /\ frames = <<>>
  /\ op' = "none"
  /\ iteration_args' = NoArgs
  /\ UNCHANGED <<heapVars, numbering, frames, receiver, reports, failed>>

Next == \/ BeginInsert \/ EndInsert \/ InsertFails
        \/ BeginAlias \/ EndAlias \/ TreeStep
        \/ \E r \in Receivers : Iterate(r)
        \/ GoLeft \/ ReportLeft \/ ReportRight \/ GoRight
        \/ FrameReturns \/ IterateReturns \/ CallbackDies

Spec == Init /\ [][Next]_vars

-------------------------------------------------------------------------------
(* Properties *)

\* The reports, by index, of the records where an address ends or leads to a shared node.
Told(a) == {i \in 1..Len(reports) : /\ reports[i].type # "node"
                                    /\ Covers(reports[i].network, reports[i].mask, a)}

\* "it visits each network in order" (Tree.pm): a receiver with all methods is
\* told of no address twice, of none before a smaller one, and of every address
\* once the iteration has returned.
VisitsInOrder ==
  reports # <<>> /\ Methods[receiver] = {"empty", "node", "data"} =>
    /\ \A a \in Address : \A i, j \in Told(a) : i = j
    /\ \A a, b \in Address : Before(a, b) =>
         \A j \in Told(b) : \E i \in Told(a) : i <= j
    /\ Idle => \A a \in Address : Told(a) # {}

\* "The record's network is what matches with a given data structure": every
\* address of a reported network has the reported data.
ReportsMatchLookups ==
  \A i \in 1..Len(reports) :
    LET r == reports[i] IN
    ~Running /\ r.type \in {"data", "empty"} =>
      \A a \in Address : Covers(r.network, r.mask, a) => Lookup(a) = r.value

\* No two nodes report themselves with one number.
NumbersNameNodes ==
  \A i, j \in 1..Len(reports) :
    LET r == reports[i]  s == reports[j] IN
    r.node = s.node => r.node_network = s.node_network /\ r.node_mask = s.node_mask

\* The numbers tell how the nodes hang together: a node that a record leads to
\* reports itself with the number that was reported for the record; and unless an
\* insert has failed since the tree was finalized, which leaves the nodes that it
\* made with the number 0, no two nodes have the same number.
NumbersAgree ==
  /\ \A i, j \in 1..Len(reports) :
       LET r == reports[i]  s == reports[j] IN
       r.type = "node" /\ s.node_network = r.network /\ s.node_mask = r.mask
         => s.node = r.value
  /\ ~failed => NumbersNameNodes

\* The object that is called is the one the caller passed, after iterations
\* that died too, and only with methods it has.
CallsReceiver ==
  \A i \in 1..Len(reports) :
    /\ reports[i].receiver = receiver
    /\ Method(reports[i]) \in Methods[receiver]
===============================================================================
