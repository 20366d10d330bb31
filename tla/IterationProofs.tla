---------------------------- MODULE IterationProofs ----------------------------
(***************************************************************************)
(* Iteration over a tree that is aliased at most once and inserted into    *)
(* before: for every tree, set of receivers and order of iterations that   *)
(* return, die or are refused,                                             *)
(*                                                                         *)
(*  - callbacks reach the object that iterates (CallsReceiver);            *)
(*  - walks of lookup_ip_address end at a record (LookupFindsRecord);      *)
(*  - what callbacks are told of a network is what lookups find            *)
(*    (ReportsMatchLookups), and its numbers name nodes (NumbersAgree);    *)
(*  - no address is left out, told twice or out of order (VisitsInOrder).  *)
(***************************************************************************)
EXTENDS TreeIteration, NumberingProofs

\* While a tree is iterated, the pointer in it - left over from an iteration that
\* died, or not - is to the object that iterates.
ArgsOfReceiver == op = "iterate" => iteration_args = receiver

IsReports == \E S : reports \in Seq(S)

ReceiverInv == IsReports /\ ArgsOfReceiver /\ CallsReceiver

\* A report names the kind of record, and so the method, that it is about.
LEMMA ReportMethod ==
  ASSUME NEW side
  PROVE  /\ Report(side).receiver = iteration_args
         /\ Method(Report(side)) = Method(Record(side))
<1>. DEFINE r == Record(side)
<1>1. Report(side).receiver = iteration_args /\ Report(side).type = r.type
  BY DEF Report
<1>2. Method(Report(side)) = IF r.type \in {"node", "alias"} THEN "node" ELSE r.type
  BY <1>1 DEF Method, Points
<1>. QED
  BY <1>1, <1>2 DEF Method, Points

\* Steps that report nothing while the same object iterates.
LEMMA ReportsKept ==
  ASSUME ReceiverInv, UNCHANGED <<reports, receiver, iteration_args>>,
         op' = "iterate" => op = "iterate"
  PROVE  ReceiverInv'
BY DEF ReceiverInv, IsReports, ArgsOfReceiver, CallsReceiver, Method, Points

\* Steps that forget the reports.
LEMMA ReportsForgotten ==
  ASSUME reports' = <<>>, op' = "iterate" => iteration_args' = receiver'
  PROVE  ReceiverInv'
<1>1. IsReports'
  <2>1. reports' \in Seq({})
    OBVIOUS
  <2>. QED
    BY <2>1 DEF IsReports
<1>2. CallsReceiver'
  BY DEF CallsReceiver
<1>. QED
  BY <1>1, <1>2 DEF ReceiverInv, ArgsOfReceiver

LEMMA CallbackReports ==
  ASSUME ReceiverInv, NEW side, NEW stage, NEW next, CallPerlObject(side, stage, next)
  PROVE  ReceiverInv'
<1>1. /\ op = "iterate" /\ UNCHANGED <<op, iteration_args, receiver>>
      /\ iteration_args = receiver
  BY DEF CallPerlObject, InFrame, ReceiverInv, ArgsOfReceiver
<1>2. CASE reports' = reports
  BY <1>1, <1>2, ReportsKept
<1>3. CASE Called(side) /\ reports' = Append(reports, Report(side))
  <2>1. PICK S : reports \in Seq(S)
    BY DEF ReceiverInv, IsReports
  <2>. DEFINE r == Report(side)
  <2>2. r.receiver = receiver /\ Method(r) \in Methods[receiver]
    BY <1>1, <1>3, ReportMethod DEF Called
  <2>. HIDE DEF r
  <2>3. /\ reports' \in Seq(S \cup {r})
        /\ Len(reports') = Len(reports) + 1
        /\ \A i \in 1..Len(reports) : reports'[i] = reports[i]
        /\ reports'[Len(reports) + 1] = r
    BY <1>3, <2>1 DEF r
  <2>4. IsReports'
    BY <2>3 DEF IsReports
  <2>5. \A i \in 1..Len(reports') : i \in 1..Len(reports) \/ i = Len(reports) + 1
    BY <2>1, <2>3
  <2>6. \A i \in 1..Len(reports') : /\ reports'[i].receiver = receiver'
                                    /\ Method(reports'[i]) \in Methods[receiver']
    BY <1>1, <2>2, <2>3, <2>5 DEF ReceiverInv, CallsReceiver
  <2>. QED
    BY <1>1, <2>4, <2>6 DEF ReceiverInv, ArgsOfReceiver, CallsReceiver, Method, Points
<1>. QED
  BY <1>2, <1>3 DEF CallPerlObject

LEMMA ReceiverInvNext == ReceiverInv /\ [Next]_vars => ReceiverInv'
<1>. SUFFICES ASSUME ReceiverInv, [Next]_vars PROVE ReceiverInv'
  OBVIOUS
<1>1. CASE BeginInsert
  BY <1>1, ReportsForgotten DEF BeginInsert, Forget
<1>2. CASE EndInsert
  BY <1>2, ReportsKept DEF EndInsert, iterationVars
<1>3. CASE BeginAlias
  BY <1>3, ReportsForgotten DEF BeginAlias, Forget
<1>4. CASE EndAlias
  BY <1>4, ReportsKept DEF EndAlias, iterationVars
<1>5. CASE TreeStep
  BY <1>5, ReportsKept DEF TreeStep, iterationVars
<1>6. ASSUME NEW r \in Receivers, Iterate(r)
      PROVE  ReceiverInv'
  <2>1. CASE Methods[r] = {}
    BY <1>6, <2>1, ReportsForgotten DEF Iterate, Idle
  <2>2. CASE Methods[r] # {}
    BY <1>6, <2>2, ReportsForgotten DEF Iterate, NewArgs
  <2>. QED
    BY <2>1, <2>2
<1>7. CASE GoLeft \/ GoRight
  BY <1>7, ReportsKept DEF GoLeft, GoRight
<1>8. CASE ReportLeft \/ ReportRight
  BY <1>8, CallbackReports DEF ReportLeft, ReportRight
<1>9. CASE FrameReturns
  BY <1>9, ReportsKept DEF FrameReturns
<1>10. CASE IterateReturns
  BY <1>10 DEF IterateReturns, ReceiverInv, IsReports, ArgsOfReceiver, CallsReceiver,
               Method, Points
<1>11. CASE CallbackDies
  BY <1>11, ReportsForgotten DEF CallbackDies
<1>12. CASE UNCHANGED vars
  BY <1>12, ReportsKept DEF vars
<1>13. CASE InsertFails
  BY <1>13, ReportsKept DEF InsertFails, iterationVars
<1>. QED
  BY <1>1, <1>2, <1>3, <1>4, <1>5, <1>6, <1>7, <1>8, <1>9, <1>10, <1>11, <1>12, <1>13 DEF Next

\* Every callback goes to the object that the caller iterates with, and only to
\* methods that it has, whatever iterations died before.
THEOREM ReceiverCalled == Spec => []CallsReceiver
<1>1. Init => ReceiverInv
  <2>. SUFFICES ASSUME Init PROVE ReceiverInv
    OBVIOUS
  <2>1. reports = <<>> /\ op # "iterate" /\ reports \in Seq({})
    BY DEF Init
  <2>. QED
    BY <2>1 DEF ReceiverInv, IsReports, ArgsOfReceiver, CallsReceiver
<1>2. ReceiverInv => CallsReceiver
  BY DEF ReceiverInv
<1>. QED
  BY <1>1, <1>2, ReceiverInvNext, PTL DEF Spec
-------------------------------------------------------------------------------
(* The tree between calls and during them *)

\* What each call in progress does to the tree, and when numbers are up to date.
Phases ==
  /\ op \in {"none", "insert", "alias", "iterate"}
  /\ op = "insert" => NoAlias
  /\ op = "alias" => AliasesPending /\ ~is_finalized
  /\ op \in {"none", "iterate"} => calls = <<>>
  /\ op = "iterate" => is_finalized
  /\ op # "iterate" => frames = <<>>
  /\ reports # <<>> => is_finalized /\ op \in {"none", "iterate"}

TreeInv == HeapInv /\ Levels /\ CallsOwn /\ Phases

LEMMA BeginInsertTree ==
  ASSUME TreeInv, BeginInsert
  PROVE  TreeInv'
<1>1. HeapInv /\ Levels /\ Phases /\ Insert /\ ~HasAliases /\ UNCHANGED node
  BY DEF TreeInv, BeginInsert, Insert, InsertNetwork
<1>2. HeapInv'
  BY <1>1, HeapInvNext DEF AliasNext
<1>3. NoAlias'
  BY <1>1 DEF HasAliases, NoAlias, Insert, InsertNetwork, DataRecord
<1>4. Levels' /\ CallsOwn'
  BY <1>1, <1>2, <1>3, InsertLevels, NoAliasCallsOwnNext
<1>5. Phases'
  BY <1>1, <1>3 DEF Phases, BeginInsert, Forget, Idle
<1>. QED
  BY <1>2, <1>4, <1>5 DEF TreeInv

\* An insert sets data records only.
LEMMA InsertStepTree ==
  ASSUME TreeInv, TreeStep, op = "insert"
  PROVE  TreeInv'
<1>1. /\ HeapInv /\ Levels /\ CallsOwn /\ Phases /\ NoAlias
      /\ MakeNextNode \/ MergeIntoNode \/ InsertIntoParent \/ SetRecord
      /\ UNCHANGED <<op, is_finalized, frames, reports>>
  BY DEF TreeInv, Phases, TreeStep, HeapStep, iterationVars
<1>2. HeapInv' /\ NoAlias'
  BY <1>1, HeapInvNext, NoAliasNext DEF AliasNext, InsertNext, Step
<1>3. CallsOwn'
  BY <1>2, NoAliasCallsOwnNext
<1>4. Levels'
  <2>1. CASE MakeNextNode
    BY <1>1, <2>1, MakeNextNodeLevels
  <2>2. CASE SetRecord
    BY <1>1, <2>2, SetRecordLevels
  <2>3. CASE MergeIntoNode \/ InsertIntoParent
    BY <1>1, <1>2, <2>3, InsertLevels DEF MergeIntoNode, InsertIntoParent
  <2>. QED
    BY <1>1, <2>1, <2>2, <2>3
<1>5. Phases'
  BY <1>1, <1>2 DEF Phases
<1>. QED
  BY <1>2, <1>3, <1>4, <1>5 DEF TreeInv

\* The alias records are set one after the other, on ways of their own, to a node
\* that is as deep as they are, or deeper.
LEMMA BeginAliasTree ==
  ASSUME AliasesFit, TreeInv, BeginAlias
  PROVE  TreeInv'
<1>. DEFINE zeros == [i \in 1..Width |-> 0]
            parent == Way(zeros)[Ipv4Bits - 1]
            root4 == node[parent][0].value
<1>1. /\ HeapInv /\ Levels /\ Phases /\ AliasIpv4Networks /\ ~HasAliases /\ calls = <<>>
      /\ ~is_finalized /\ UNCHANGED <<node, is_finalized, frames>> /\ reports' = <<>>
      /\ op' = "alias"
  BY DEF TreeInv, BeginAlias, Phases, Idle, AliasIpv4Networks, Forget, numbering
<1>2. HeapInv'
  BY <1>1, HeapInvNext DEF AliasNext
<1>3. NoAlias
  BY <1>1 DEF NoAlias, HasAliases
<1>4. zeros \in Address /\ Ipv4Bits - 1 \in 0 .. Width - 1 /\ Ipv4Bits - 1 \in 0..Width
  BY HeapAssumption, WidthAssumption DEF Address, Bit
<1>5. /\ parent # 0 /\ node[parent][0].type = "node"
      /\ calls' = [i \in 1..Len(Ipv4Aliases) |->
                  [bytes |-> Ipv4Aliases[i][1], mask |-> Ipv4Aliases[i][2],
                   new |-> AliasRecord(root4), merge |-> FALSE]]
  BY <1>1 DEF AliasIpv4Networks, HasIpv4Node, AliasCalls
<1>. HIDE DEF zeros
<1>6. OwnWay(zeros, Ipv4Bits - 1) /\ parent \in 1..Len(node)
  BY <1>1, <1>3, <1>4, <1>5, NoAliasOwnWay, WayType DEF HeapInv
<1>7. PICK d : IsLevel(d)
  BY <1>1 DEF Levels
<1>8. d[parent] = Ipv4Bits - 1
  BY <1>1, <1>4, <1>5, <1>6, <1>7, OwnLevel
<1>. HIDE DEF parent
<1>9. d[root4] = Ipv4Bits
  <2>1. d[root4] = d[parent] + 1
    BY <1>5, <1>6, <1>7 DEF IsLevel, Bit
  <2>. QED
    BY <1>8, <2>1, HeapAssumption
<1>. HIDE DEF root4
<1>10. /\ Len(Ipv4Aliases) \in Nat
       /\ \A i \in 1..Len(Ipv4Aliases) :
            /\ Ipv4Aliases[i][1] \in Address /\ Ipv4Aliases[i][2] \in 1..Width
            /\ Depth(Ipv4Aliases[i][2]) = Ipv4Aliases[i][2]
  <2>1. /\ Len(Ipv4Aliases) \in Nat /\ \A i \in 1..Len(Ipv4Aliases) : Ipv4Aliases[i] \in Network
    BY HeapAssumption
  <2>2. \A i \in 1..Len(Ipv4Aliases) :
          Ipv4Aliases[i][1] \in Address /\ Ipv4Aliases[i][2] \in 1..Width
    BY <2>1, HeapAssumption, WidthAssumption DEF Network, AliasesFit
  <2>. QED
    BY <2>1, <2>2, DepthInTree
<1>11. Len(calls') = Len(Ipv4Aliases)
  BY <1>5, <1>10
<1>12. ASSUME NEW i \in 1..Len(calls')
       PROVE  /\ i \in 1..Len(Ipv4Aliases)
              /\ calls'[i].bytes = Ipv4Aliases[i][1] /\ calls'[i].mask = Ipv4Aliases[i][2]
              /\ calls'[i].new = AliasRecord(root4) /\ ~calls'[i].merge
  BY <1>5, <1>11
<1>13. CallsOwn'
  <2>1. ASSUME NEW i \in 1..Len(calls') PROVE OwnWay(calls'[i].bytes, Depth(calls'[i].mask) - 1)
    <3>1. calls'[i].bytes \in Address /\ Depth(calls'[i].mask) - 1 \in 0..Width
      BY <1>10, <1>12, WidthAssumption
    <3>. QED
      BY <1>1, <1>3, <3>1, NoAliasOwnWay
  <2>2. PICK calls2 : calls2 = calls'
    OBVIOUS
  <2>3. \A i \in 1..Len(calls2) : OwnWay(calls2[i].bytes, Depth(calls2[i].mask) - 1)'
    BY <1>1, <2>1, <2>2, OwnWaySame
  <2>. QED
    BY <2>2, <2>3 DEF CallsOwn
<1>14. Levels'
  <2>1. \A i \in 1..Len(calls') : d[calls'[i].new.value] >= Depth(calls'[i].mask)
    <3>. TAKE i \in 1..Len(calls')
    <3>1. calls'[i].new.value = root4 /\ Depth(calls'[i].mask) = Ipv4Aliases[i][2]
      BY <1>10, <1>12 DEF AliasRecord
    <3>2. Ipv4Aliases[i][2] \in 1..Ipv4Bits
      BY <1>12 DEF AliasesFit
    <3>. QED
      BY <1>9, <3>1, <3>2, HeapAssumption
  <2>2. IsLevel(d)'
    BY <1>1, <1>7, <2>1 DEF IsLevel
  <2>. QED
    BY <2>2 DEF Levels
<1>15. AliasesPending'
  <2>1. \A i, j \in 1..Len(calls') :
          i < j => ~Covers(calls'[i].bytes, Depth(calls'[i].mask), calls'[j].bytes)
    BY <1>10, <1>12 DEF AliasesFit
  <2>2. \A i \in 1..Len(calls') : ~calls'[i].merge /\ calls'[i].new.type = "alias"
    BY <1>12 DEF AliasRecord
  <2>. QED
    BY <2>1, <2>2 DEF AliasesPending
<1>16. Phases'
  BY <1>1, <1>15 DEF Phases
<1>. QED
  BY <1>2, <1>13, <1>14, <1>16 DEF TreeInv

LEMMA AliasStepTree ==
  ASSUME TreeInv, TreeStep, op = "alias"
  PROVE  TreeInv'
<1>1. /\ HeapInv /\ Levels /\ CallsOwn /\ Phases /\ AliasesPending /\ ~is_finalized /\ Step
      /\ UNCHANGED <<op, is_finalized, frames, reports>>
  BY DEF TreeInv, Phases, TreeStep, HeapStep, Step, iterationVars
<1>2. HeapInv' /\ CallsOwn' /\ AliasesPending' /\ (MakeNextNode \/ SetRecord)
  BY <1>1, PendingStep
<1>3. Levels'
  BY <1>1, <1>2, MakeNextNodeLevels, SetRecordLevels
<1>4. Phases'
  BY <1>1, <1>2 DEF Phases
<1>. QED
  BY <1>2, <1>3, <1>4 DEF TreeInv

\* An insert that fails leaves the nodes and no calls.
LEMMA InsertFailsTree ==
  ASSUME TreeInv, InsertFails
  PROVE  TreeInv'
<1>1. /\ HeapInv /\ Levels /\ Phases /\ Croak /\ calls' = <<>> /\ op = "insert" /\ op' = "none"
      /\ UNCHANGED <<node, is_finalized, frames, reports>>
  BY DEF TreeInv, InsertFails, Croak, numbering, iterationVars
<1>2. HeapInv'
  BY <1>1, HeapInvNext DEF AliasNext, Step
<1>3. \A i \in 1..Len(calls') : FALSE
  BY <1>1
<1>4. Levels'
  <2>1. PICK d : IsLevel(d)
    BY <1>1 DEF Levels
  <2>2. IsLevel(d)'
    BY <1>1, <1>3, <2>1 DEF IsLevel
  <2>. QED
    BY <2>2 DEF Levels
<1>5. CallsOwn'
  BY <1>3 DEF CallsOwn
<1>6. Phases'
  BY <1>1 DEF Phases
<1>. QED
  BY <1>2, <1>4, <1>5, <1>6 DEF TreeInv

\* Steps that leave the tree alone.
LEMMA TreeKept ==
  ASSUME TreeInv, UNCHANGED heapVars, Phases'
  PROVE  TreeInv'
<1>1. UNCHANGED <<node, calls>>
  BY DEF heapVars
<1>2. HeapInv' 
  BY HeapInvNext DEF TreeInv
<1>3. Levels'
  BY <1>1 DEF TreeInv, Levels, IsLevel
<1>4. CallsOwn'
  BY <1>1, WaySame DEF TreeInv, CallsOwn, OwnWay
<1>. QED
  BY <1>2, <1>3, <1>4 DEF TreeInv

LEMMA TreeInvInit == Init => TreeInv
<1>. SUFFICES ASSUME Init PROVE TreeInv
  OBVIOUS
<1>1. HeapInv /\ Levels /\ CallsOwn
  BY HeapInvInit, LevelsInit DEF Init
<1>2. Phases
  BY DEF Init, HeapInit, Phases
<1>. QED
  BY <1>1, <1>2 DEF TreeInv

LEMMA TreeInvNext == AliasesFit /\ TreeInv /\ [Next]_vars => TreeInv'
<1>. SUFFICES ASSUME AliasesFit, TreeInv, [Next]_vars PROVE TreeInv'
  OBVIOUS
<1>0. Phases
  BY DEF TreeInv
<1>1. CASE BeginInsert
  BY <1>1, BeginInsertTree
<1>2. CASE EndInsert
  <2>1. Phases'
    BY <1>0, <1>2 DEF Phases, EndInsert, Running, heapVars, iterationVars
  <2>. QED
    BY <1>2, <2>1, TreeKept DEF EndInsert
<1>3. CASE BeginAlias
  BY <1>3, BeginAliasTree
<1>4. CASE EndAlias
  <2>1. Phases'
    BY <1>0, <1>4 DEF Phases, EndAlias, Running, heapVars, numbering, iterationVars
  <2>. QED
    BY <1>4, <2>1, TreeKept DEF EndAlias
<1>5. CASE TreeStep
  <2>1. Running
    BY <1>5 DEF TreeStep, HeapStep, MakeNextNode, MergeIntoNode, InsertIntoParent, SetRecord,
                Found
  <2>2. op \in {"insert", "alias"}
    BY <1>0, <2>1 DEF Phases, Running
  <2>. QED
    BY <1>5, <2>2, InsertStepTree, AliasStepTree
<1>6. ASSUME NEW r \in Receivers, Iterate(r)
      PROVE  TreeInv'
  <2>1. Phases'
    BY <1>0, <1>6 DEF Phases, Iterate, Finalize, Idle, heapVars
  <2>. QED
    BY <1>6, <2>1, TreeKept DEF Iterate
<1>7. CASE GoLeft \/ GoRight
  <2>1. UNCHANGED <<heapVars, op, is_finalized, reports>> /\ op = "iterate"
    BY <1>7 DEF GoLeft, GoRight, InFrame, numbering
  <2>2. Phases'
    BY <1>0, <2>1 DEF Phases, heapVars
  <2>. QED
    BY <2>1, <2>2, TreeKept
<1>8. CASE ReportLeft \/ ReportRight
  <2>1. UNCHANGED <<heapVars, op, is_finalized>> /\ op = "iterate"
    BY <1>8 DEF ReportLeft, ReportRight, CallPerlObject, InFrame, numbering
  <2>2. Phases'
    BY <1>0, <2>1 DEF Phases, heapVars
  <2>. QED
    BY <2>1, <2>2, TreeKept
<1>9. CASE FrameReturns
  <2>1. UNCHANGED <<heapVars, op, is_finalized, reports>> /\ op = "iterate"
    BY <1>9 DEF FrameReturns, InFrame, numbering
  <2>2. Phases'
    BY <1>0, <2>1 DEF Phases, heapVars
  <2>. QED
    BY <2>1, <2>2, TreeKept
<1>10. CASE IterateReturns
  <2>1. Phases'
    BY <1>0, <1>10 DEF Phases, IterateReturns, heapVars, numbering
  <2>. QED
    BY <1>10, <2>1, TreeKept DEF IterateReturns
<1>11. CASE CallbackDies
  <2>1. Phases'
    BY <1>0, <1>11 DEF Phases, CallbackDies, InFrame, heapVars, numbering
  <2>. QED
    BY <1>11, <2>1, TreeKept DEF CallbackDies
<1>12. CASE UNCHANGED vars
  <2>1. UNCHANGED <<heapVars, op, is_finalized, frames, reports>>
    BY <1>12 DEF vars, numbering
  <2>2. Phases'
    BY <1>0, <2>1 DEF Phases, heapVars, NoAlias, AliasesPending
  <2>. QED
    BY <2>1, <2>2, TreeKept
<1>13. CASE InsertFails
  BY <1>13, InsertFailsTree
<1>. QED
  BY <1>1, <1>2, <1>3, <1>4, <1>5, <1>6, <1>7, <1>8, <1>9, <1>10, <1>11, <1>12, <1>13 DEF Next

-------------------------------------------------------------------------------
(* Lookups in a tree with aliases *)

\* In a tree that is aliased once and only then iterated, as a careful program does,
\* the walk of lookup_ip_address ends at a record too: "WTF - found a node or alias
\* record" never is printed.
THEOREM AliasedLookupsFind == AliasesFit => (Spec => []LookupFindsRecord)
<1>. SUFFICES ASSUME AliasesFit PROVE Spec => []LookupFindsRecord
  OBVIOUS
<1>1. TreeInv /\ [Next]_vars => TreeInv'
  BY TreeInvNext
<1>2. TreeInv => LookupFindsRecord
  BY AliasedWalksEnd DEF TreeInv
<1>. QED
  BY <1>1, <1>2, TreeInvInit, PTL DEF Spec


-------------------------------------------------------------------------------
(* What callbacks are told *)

\* The node m bits down to an address is listed, and is where iterating finds it.
InTree(a, m) ==
  /\ a \in Address /\ m \in 0 .. Width - 1
  /\ Way(a)[m] \in ToSet(Preorder) /\ OwnWay(a, m)
  /\ \A k \in m + 1 .. Width : a[k] = 0

Stages == {"left", "left_record", "right_record", "right", "done"}

FrameRecord == [node : 1..Len(node), network : Address, depth : 0 .. Width - 1, next : Stages]

FrameOK(f) == /\ f \in FrameRecord
              /\ InTree(f.network, f.depth)
              /\ f.node = Way(f.network)[f.depth]

\* A report is about a record of a node that is listed, by its numbers.
ReportOK(r) ==
  /\ InTree(r.node_network, r.node_mask)
  /\ r.node = number[Way(r.node_network)[r.node_mask]]
  /\ r.mask = r.node_mask + 1
  /\ \E side \in Bit :
       LET rec == node[Way(r.node_network)[r.node_mask]][side] IN
       /\ r.type = rec.type
       /\ r.network = IF side = 0 THEN r.node_network ELSE SetBit(r.node_network, r.mask)
       /\ r.value = IF Points(rec) THEN number[rec.value] ELSE rec.value

NumbersDistinct == \A i, j \in ToSet(Preorder) : number[i] = number[j] => i = j

IterationInv ==
  /\ TreeInv
  /\ is_finalized /\ ~failed /\ op # "insert" => NumbersDistinct
  /\ \E S : frames \in Seq(S)
  /\ \A i \in 1..Len(frames) : FrameOK(frames[i])
  /\ IsReports
  /\ \A i \in 1..Len(reports) : ReportOK(reports[i])

\* The network of a record of a node.
SideNetwork(a, m, side) == IF side = 0 THEN a ELSE SetBit(a, m + 1)

LEMMA SideBits ==
  ASSUME NEW a \in Address, NEW m \in 0 .. Width - 1, \A k \in m + 1 .. Width : a[k] = 0,
         NEW side \in Bit, NEW b, b = SideNetwork(a, m, side)
  PROVE  /\ b \in Address /\ b[m+1] = side
         /\ \A i \in 1..m : b[i] = a[i]
         /\ \A k \in m + 2 .. Width : b[k] = 0
<1>1. m + 1 \in m + 1 .. Width /\ m + 1 \in 1..Width
      /\ \A i \in 1..m : i \in 1..Width /\ i # m + 1
      /\ \A k \in m + 2 .. Width : k \in 1..Width /\ k # m + 1 /\ k \in m + 1 .. Width
  BY WidthAssumption
<1>2. CASE side = 0
  BY <1>1, <1>2 DEF SideNetwork
<1>3. CASE side = 1
  <2>1. b = [a EXCEPT ![m+1] = 1]
    BY <1>3 DEF SideNetwork, SetBit
  <2>2. b \in Address
    BY <2>1 DEF Address, Bit
  <2>3. \A i \in 1..Width : b[i] = IF i = m + 1 THEN 1 ELSE a[i]
    BY <2>1 DEF Address
  <2>. QED
    BY <1>1, <1>3, <2>2, <2>3
<1>. QED
  BY <1>2, <1>3 DEF Bit

\* Addresses that agree down to a node come to it.
LEMMA SameStart ==
  ASSUME NEW a \in Address, NEW b \in Address, NEW m \in 0 .. Width - 1,
         \A i \in 1..m : b[i] = a[i]
  PROVE  \A k \in 0..m : Way(b)[k] = Way(a)[k]
<1>. TAKE k \in 0..m
<1>1. /\ Len(a) \in Nat \ {0} /\ Len(b) \in Nat \ {0} /\ k \in Nat
      /\ k < Len(a) /\ k < Len(b) /\ \A i \in 1..k : b[i] = a[i]
  BY WidthAssumption DEF Address
<1>. QED
  BY <1>1, WayPrefix

LEMMA ListedNode ==
  ASSUME HeapInv, NEW a, NEW m, InTree(a, m)
  PROVE  /\ Way(a)[m] \in 1..Len(node)
         /\ \A b \in Bit : node[Way(a)[m]][b] \in HeapRecord
<1>1. Way(a)[m] \in 1..Len(node)
  BY OrderIsWalk DEF InTree, ToSet
<1>. QED
  BY <1>1 DEF HeapInv

\* iterate_tree goes on from a listed node to listed nodes.
LEMMA ChildInTree ==
  ASSUME HeapInv, Levels, NEW a, NEW m, InTree(a, m), NEW side \in Bit,
         NEW rec, rec = node[Way(a)[m]][side], rec.type = "node",
         NEW b, b = SideNetwork(a, m, side)
  PROVE  InTree(b, m + 1) /\ Way(b)[m+1] = rec.value
<1>1. PICK w : w = Way(a)[m]
  OBVIOUS
<1>2. /\ a \in Address /\ m \in 0 .. Width - 1 /\ OwnWay(a, m) /\ w \in ToSet(Preorder)
      /\ \A k \in m + 1 .. Width : a[k] = 0
      /\ w \in 1..Len(node)
  BY <1>1, ListedNode DEF InTree
<1>3. /\ b \in Address /\ b[m+1] = side
      /\ \A i \in 1..m : b[i] = a[i]
      /\ \A k \in m + 2 .. Width : b[k] = 0
  BY <1>2, SideBits
<1>4. PICK d : IsLevel(d)
  BY DEF Levels
<1>5. rec.value \in 1..Len(node)
  BY <1>1, <1>2, ChildOwned
<1>6. m + 1 \in 0 .. Width - 1
  <2>1. w # 0
    BY <1>2 DEF HeapInv
  <2>2. d[w] = m
    BY <1>1, <1>2, <1>4, <2>1, OwnLevel
  <2>3. d[rec.value] = d[w] + 1 /\ d[rec.value] \in 0 .. Width - 1
    BY <1>1, <1>2, <1>4, <1>5 DEF IsLevel
  <2>. QED
    BY <1>2, <2>2, <2>3
<1>7. \A k \in 0..m : Way(b)[k] = Way(a)[k]
  BY <1>2, <1>3, SameStart
<1>8. Way(b)[m] = w /\ m \in 0..m
  BY <1>1, <1>2, <1>7
<1>9. Way(b)[m+1] = rec.value
  <2>1. Way(b)[m+1] = Down(Way(b)[m], b[m+1])
    <3>1. PICK j : j = m + 1
      OBVIOUS
    <3>2. j # 0 /\ j - 1 = m /\ j \in 0 .. Width - 1
      BY <1>2, <1>6, <3>1
    <3>3. Way(b)[j] = Down(Way(b)[j-1], b[j])
      BY <1>3, <3>2, WaySteps DEF WaysGoDown
    <3>. QED
      BY <3>1, <3>2, <3>3
  <2>2. Down(w, side) = rec.value
    BY <1>1, <1>2 DEF Down, Points, HeapInv
  <2>. QED
    BY <1>3, <1>8, <2>1, <2>2
<1>10. rec.value \in ToSet(Preorder)
  BY <1>1, <1>2, OrderIsWalk
<1>11. OwnWay(b, m + 1)
  <2>. SUFFICES ASSUME NEW k \in 1 .. m + 1, Way(b)[k-1] # 0
                PROVE  node[Way(b)[k-1]][b[k]].type # "alias"
    BY DEF OwnWay
  <2>1. CASE k \in 1..m
    <3>1. k - 1 \in 0..m
      BY <1>2, <2>1
    <3>. QED
      BY <1>2, <1>3, <1>7, <2>1, <3>1 DEF OwnWay
  <2>2. CASE k = m + 1
    <3>1. k - 1 = m
      BY <1>2, <2>2
    <3>. QED
      BY <1>1, <1>3, <1>8, <2>2, <3>1
  <2>. QED
    BY <1>2, <2>1, <2>2
<1>12. \A k \in m + 1 + 1 .. Width : b[k] = 0
  <2>1. m + 1 + 1 = m + 2
    BY <1>2
  <2>. QED
    BY <1>3, <2>1
<1>. QED
  BY <1>3, <1>6, <1>9, <1>10, <1>11, <1>12 DEF InTree

LEMMA RootInTree ==
  ASSUME HeapInv
  PROVE  InTree(Zeros, 0) /\ Way(Zeros)[0] = Root
<1>1. Zeros \in Address /\ 0 \in 0 .. Width - 1 /\ \A k \in 1..Width : Zeros[k] = 0
  BY WidthAssumption DEF Zeros, Address, Bit
<1>2. Way(Zeros)[0] = Root
  BY <1>1, WaySteps DEF WaysGoDown
<1>3. Root \in ToSet(Preorder)
  BY OrderIsWalk
<1>4. OwnWay(Zeros, 0)
  BY DEF OwnWay
<1>. QED
  BY <1>1, <1>2, <1>3, <1>4 DEF InTree


LEMMA InTreeSame ==
  ASSUME UNCHANGED node
  PROVE  /\ Preorder' = Preorder
         /\ \A a, m : InTree(a, m)' <=> InTree(a, m)
         /\ \A f : FrameOK(f)' <=> FrameOK(f)
<1>1. \A bits : Way(bits)' = Way(bits)
  BY WaySame
<1>2. Preorder' = Preorder
  BY ZenonT(30) DEF Preorder
<1>3. \A a, m : OwnWay(a, m)' <=> OwnWay(a, m)
  BY <1>1 DEF OwnWay
<1>4. \A a, m : InTree(a, m)' <=> InTree(a, m)
  BY <1>1, <1>2, <1>3 DEF InTree
<1>5. FrameRecord' = FrameRecord
  BY DEF FrameRecord
<1>. QED
  BY <1>1, <1>2, <1>4, <1>5 DEF FrameOK

LEMMA ReportsSame ==
  ASSUME UNCHANGED <<node, number>>
  PROVE  /\ \A r : ReportOK(r)' <=> ReportOK(r)
         /\ NumbersDistinct' <=> NumbersDistinct
<1>1. \A bits : Way(bits)' = Way(bits)
  BY WaySame
<1>2. Preorder' = Preorder /\ \A a, m : InTree(a, m)' <=> InTree(a, m)
  BY InTreeSame
<1>3. \A r : ReportOK(r)' <=> ReportOK(r)
  BY <1>1, <1>2 DEF ReportOK
<1>. QED
  BY <1>2, <1>3 DEF NumbersDistinct

\* Steps after which nothing is iterated and nothing has been reported.
LEMMA NothingReported ==
  ASSUME TreeInv', frames' = <<>>, reports' = <<>>,
         is_finalized' /\ ~failed' /\ op' # "insert" => NumbersDistinct'
  PROVE  IterationInv'
<1>1. frames' \in Seq({}) /\ reports' \in Seq({})
  OBVIOUS
<1>2. (\E S : frames \in Seq(S))' /\ IsReports'
  BY <1>1 DEF IsReports
<1>. QED
  BY <1>2 DEF IterationInv

\* Steps of an iteration: the tree and the numbers stay.
LEMMA FramesChange ==
  ASSUME IterationInv, UNCHANGED <<heapVars, numbering, reports, failed>>,
         op' # "insert" => op # "insert",
         TreeInv', NEW S, frames' \in Seq(S), \A i \in 1..Len(frames') : FrameOK(frames'[i])
  PROVE  IterationInv'
<1>1. UNCHANGED <<node, number, is_finalized, reports, failed>>
  BY DEF heapVars, numbering
<1>2. is_finalized' /\ ~failed' /\ op' # "insert" => NumbersDistinct'
  BY <1>1, ReportsSame DEF IterationInv
<1>3. PICK frames2 : frames2 = frames'
  OBVIOUS
<1>4. \A i \in 1..Len(frames2) : FrameOK(frames2[i])'
  BY <1>1, <1>3, InTreeSame
<1>5. (\A i \in 1..Len(frames) : FrameOK(frames[i]))'
  BY <1>3, <1>4
<1>6. PICK reports2 : reports2 = reports
  OBVIOUS
<1>7. \A i \in 1..Len(reports2) : ReportOK(reports2[i])'
  BY <1>1, <1>6, ReportsSame DEF IterationInv
<1>8. (\A i \in 1..Len(reports) : ReportOK(reports[i]))'
  BY <1>1, <1>6, <1>7
<1>9. IsReports'
  BY <1>1 DEF IsReports, IterationInv
<1>. QED
  BY <1>2, <1>5, <1>8, <1>9 DEF IterationInv

LEMMA TopFrame ==
  ASSUME IterationInv, frames # <<>>
  PROVE  /\ frames \in Seq(FrameRecord) /\ Top \in FrameRecord /\ FrameOK(Top)
         /\ Tail(frames) \in Seq(FrameRecord)
         /\ \A i \in 1..Len(Tail(frames)) : FrameOK(Tail(frames)[i])
         /\ Top.node \in 1..Len(node) /\ InTree(Top.network, Top.depth)
<1>1. PICK S : frames \in Seq(S)
  BY DEF IterationInv
<1>2. \A i \in 1..Len(frames) : FrameOK(frames[i]) /\ frames[i] \in FrameRecord
  BY DEF IterationInv, FrameOK
<1>3. Len(frames) \in Nat \ {0} /\ frames \in Seq(FrameRecord)
  BY <1>1, <1>2
<1>4. /\ Top = frames[1] /\ Tail(frames) \in Seq(FrameRecord)
      /\ Len(Tail(frames)) = Len(frames) - 1
      /\ \A i \in 1..Len(Tail(frames)) : Tail(frames)[i] = frames[i+1]
  BY <1>3, HeadTailProperties DEF Top
<1>5. 1 \in 1..Len(frames) /\ \A i \in 1..Len(Tail(frames)) : i + 1 \in 1..Len(frames)
  BY <1>3, <1>4
<1>6. FrameOK(Top)
  BY <1>2, <1>4, <1>5
<1>7. Top \in FrameRecord /\ InTree(Top.network, Top.depth)
  BY <1>6 DEF FrameOK
<1>8. Top.node \in 1..Len(node)
  BY <1>7 DEF FrameRecord
<1>9. \A i \in 1..Len(Tail(frames)) : FrameOK(Tail(frames)[i])
  BY <1>2, <1>4, <1>5
<1>. QED
  BY <1>3, <1>4, <1>6, <1>7, <1>8, <1>9

LEMMA FramesInFront ==
  ASSUME NEW f, FrameOK(f), NEW s \in Seq(FrameRecord), \A i \in 1..Len(s) : FrameOK(s[i]),
         NEW t, t = <<f>> \o s
  PROVE  t \in Seq(FrameRecord) /\ \A i \in 1..Len(t) : FrameOK(t[i])
<1>1. <<f>> \in Seq(FrameRecord) /\ Len(<<f>>) = 1 /\ <<f>>[1] = f
  BY DEF FrameOK
<1>2. /\ t \in Seq(FrameRecord) /\ Len(t) = 1 + Len(s)
      /\ \A i \in 1..Len(t) : t[i] = IF i <= 1 THEN <<f>>[i] ELSE s[i-1]
  BY <1>1, ConcatProperties
<1>3. ASSUME NEW i \in 1..Len(t) PROVE FrameOK(t[i])
  <2>1. CASE i = 1
    BY <1>1, <1>2, <1>3, <2>1
  <2>2. CASE i # 1
    <3>1. i - 1 \in 1..Len(s) /\ ~(i <= 1)
      BY <1>2, <2>2
    <3>. QED
      BY <1>2, <3>1
  <2>. QED
    BY <2>1, <2>2
<1>. QED
  BY <1>2, <1>3

\* The frame on top goes on with its next step.
LEMMA GoesOn ==
  ASSUME IterationInv, frames # <<>>, NEW next \in Stages
  PROVE  GoOn(next) \in Seq(FrameRecord) /\ \A i \in 1..Len(GoOn(next)) : FrameOK(GoOn(next)[i])
<1>1. Top \in FrameRecord /\ FrameOK(Top)
  BY TopFrame
<1>. DEFINE f == [Top EXCEPT !.next = next]
<1>2. f \in FrameRecord /\ f.network = Top.network /\ f.depth = Top.depth /\ f.node = Top.node
  BY <1>1 DEF FrameRecord
<1>3. FrameOK(f)
  BY <1>1, <1>2 DEF FrameOK
<1>. HIDE DEF f
<1>4. GoOn(next) = <<f>> \o Tail(frames)
  BY DEF GoOn, f
<1>. QED
  BY <1>3, <1>4, TopFrame, FramesInFront

LEMMA DescendFrames ==
  ASSUME IterationInv, frames # <<>>, NEW side \in Bit,
         NEW next \in Stages, Descend(side, next)
  PROVE  frames' \in Seq(FrameRecord) /\ \A i \in 1..Len(frames') : FrameOK(frames'[i])
<1>1. /\ GoOn(next) \in Seq(FrameRecord)
      /\ \A i \in 1..Len(GoOn(next)) : FrameOK(GoOn(next)[i])
  BY GoesOn
<1>2. CASE ~Follows(Record(side))
  BY <1>1, <1>2 DEF Descend
<1>3. CASE Follows(Record(side))
  <2>. DEFINE rec == Record(side)
              b == RecordNetwork(side)
              f == Frame(rec.value, b, Top.depth + 1)
  <2>1. /\ HeapInv /\ Levels /\ InTree(Top.network, Top.depth) /\ Top \in FrameRecord
        /\ Top.node = Way(Top.network)[Top.depth] /\ Top.node \in 1..Len(node)
    BY TopFrame DEF IterationInv, TreeInv, FrameOK
  <2>2. /\ rec = node[Way(Top.network)[Top.depth]][side] /\ rec.type = "node"
        /\ b = SideNetwork(Top.network, Top.depth, side)
    BY <1>3, <2>1 DEF Record, Follows, RecordNetwork, SideNetwork
  <2>3. rec.value \in 1..Len(node)
    BY <2>1, <2>2, ChildOwned
  <2>. HIDE DEF rec, b
  <2>4. InTree(b, Top.depth + 1) /\ Way(b)[Top.depth + 1] = rec.value
    <3>1. PICK a, m : a = Top.network /\ m = Top.depth
      OBVIOUS
    <3>2. PICK r, c : r = rec /\ c = b
      OBVIOUS
    <3>3. HeapInv /\ Levels /\ InTree(a, m)
      BY <2>1, <3>1
    <3>4. r = node[Way(a)[m]][side] /\ r.type = "node" /\ c = SideNetwork(a, m, side)
      BY <2>2, <3>1, <3>2
    <3>5. InTree(c, m + 1) /\ Way(c)[m+1] = r.value
      BY <3>3, <3>4, ChildInTree
    <3>. QED
      BY <3>1, <3>2, <3>5
  <2>5. f \in FrameRecord /\ f.network = b /\ f.depth = Top.depth + 1 /\ f.node = rec.value
    <3>1. "left" \in Stages
      BY Zenon DEF Stages
    <3>. QED
      BY <2>3, <2>4, <3>1 DEF Frame, FrameRecord, InTree
  <2>6. FrameOK(f)
    BY <2>4, <2>5 DEF FrameOK
  <2>7. frames' = <<f>> \o GoOn(next)
    BY <1>3 DEF Descend, rec, b
  <2>. HIDE DEF f
  <2>8. PICK t : t = frames'
    OBVIOUS
  <2>9. t \in Seq(FrameRecord) /\ \A i \in 1..Len(t) : FrameOK(t[i])
    BY <1>1, <2>6, <2>7, <2>8, FramesInFront
  <2>. QED
    BY <2>8, <2>9
<1>. QED
  BY <1>2, <1>3


LEMMA CallbackIteration ==
  ASSUME IterationInv, TreeInv', NEW side \in Bit, NEW stage,
         NEW next \in Stages,
         CallPerlObject(side, stage, next)
  PROVE  IterationInv'
<1>1. /\ frames # <<>> /\ frames' = GoOn(next)
      /\ UNCHANGED <<heapVars, numbering, node, number, is_finalized, op, failed>>
  BY DEF CallPerlObject, InFrame, heapVars, numbering
<1>2. frames' \in Seq(FrameRecord) /\ \A i \in 1..Len(frames') : FrameOK(frames'[i])
  BY <1>1, GoesOn
<1>3. CASE reports' = reports
  BY <1>1, <1>2, <1>3, FramesChange
<1>4. CASE reports' = Append(reports, Report(side))
  <2>. DEFINE r == Report(side)
              rec == Record(side)
  <2>1. /\ HeapInv /\ InTree(Top.network, Top.depth) /\ Top.node \in 1..Len(node)
        /\ Top.node = Way(Top.network)[Top.depth]
    BY <1>1, TopFrame DEF IterationInv, TreeInv, FrameOK
  <2>2. /\ r.type = rec.type /\ r.node = number[Top.node] /\ r.node_network = Top.network
        /\ r.node_mask = Top.depth /\ r.network = RecordNetwork(side)
        /\ r.mask = Top.depth + 1
        /\ r.value = IF Points(rec) THEN number[rec.value] ELSE rec.value
    BY DEF Report
  <2>3. rec = node[Way(r.node_network)[r.node_mask]][side]
    BY <2>1, <2>2 DEF Record
  <2>4. r.network = IF side = 0 THEN r.node_network ELSE SetBit(r.node_network, r.mask)
    BY <2>2 DEF RecordNetwork
  <2>5. r.node = number[Way(r.node_network)[r.node_mask]] /\ r.mask = r.node_mask + 1
        /\ InTree(r.node_network, r.node_mask)
    BY <2>1, <2>2
  <2>. HIDE DEF r, rec
  <2>6. ReportOK(r)
    BY <2>2, <2>3, <2>4, <2>5 DEF ReportOK
  <2>7. PICK S : reports \in Seq(S)
    BY DEF IterationInv, IsReports
  <2>8. /\ reports' \in Seq(S \cup {r}) /\ Len(reports') = Len(reports) + 1
        /\ \A i \in 1..Len(reports) : reports'[i] = reports[i]
        /\ reports'[Len(reports) + 1] = r /\ Len(reports) \in Nat
    <3>1. PICK q : q = r
      OBVIOUS
    <3>2. reports' = Append(reports, q)
      BY <1>4, <3>1 DEF r
    <3>3. /\ reports' \in Seq(S \cup {q}) /\ Len(reports') = Len(reports) + 1
          /\ \A i \in 1..Len(reports) : reports'[i] = reports[i]
          /\ reports'[Len(reports) + 1] = q /\ Len(reports) \in Nat
      BY <2>7, <3>2
    <3>. QED
      BY <3>1, <3>3
  <2>9. \A i \in 1..Len(reports') : i \in 1..Len(reports) \/ i = Len(reports) + 1
    BY <2>8
  <2>10. PICK reports2 : reports2 = reports'
    OBVIOUS
  <2>11. \A i \in 1..Len(reports2) : ReportOK(reports2[i])
    BY <2>6, <2>8, <2>9, <2>10 DEF IterationInv
  <2>12. \A i \in 1..Len(reports2) : ReportOK(reports2[i])'
    BY <1>1, <2>11, ReportsSame
  <2>13. (\A i \in 1..Len(reports) : ReportOK(reports[i]))'
    BY <2>10, <2>12
  <2>14. PICK frames2 : frames2 = frames'
    OBVIOUS
  <2>15. \A i \in 1..Len(frames2) : FrameOK(frames2[i])'
    BY <1>1, <1>2, <2>14, InTreeSame
  <2>16. (\A i \in 1..Len(frames) : FrameOK(frames[i]))'
    BY <2>14, <2>15
  <2>17. PICK F, R : frames' \in Seq(F) /\ reports' \in Seq(R)
    BY <1>2, <2>8
  <2>18. (\E T : frames \in Seq(T))' /\ IsReports'
    BY <2>17 DEF IsReports
  <2>19. is_finalized' /\ ~failed' /\ op' # "insert" => NumbersDistinct'
    BY <1>1, ReportsSame DEF IterationInv
  <2>. QED
    BY <2>13, <2>16, <2>18, <2>19 DEF IterationInv
<1>. QED
  BY <1>3, <1>4 DEF CallPerlObject

\* Iterating a tree that has been finalized, or is finalized by it.
LEMMA IterateNumbers ==
  ASSUME IterationInv, Finalize, UNCHANGED node, op # "insert", ~failed
  PROVE  NumbersDistinct'
<1>1. HeapInv /\ Preorder' = Preorder
  BY InTreeSame DEF IterationInv, TreeInv
<1>2. CASE is_finalized
  <2>1. UNCHANGED number
    BY <1>2 DEF Finalize, FinalNumber
  <2>. QED
    BY <1>1, <1>2, <2>1 DEF IterationInv, NumbersDistinct
<1>3. CASE ~is_finalized
  <2>1. number' = Numbered
    BY <1>3 DEF Finalize, FinalNumber
  <2>2. PICK numbers : numbers = Numbered
    OBVIOUS
  <2>3. PICK order : order = Preorder
    OBVIOUS
  <2>4. \A i, j \in ToSet(order) : numbers[i] = numbers[j] => i = j
    BY <1>1, <2>2, <2>3, NumbersArePlaces
  <2>. QED
    BY <1>1, <2>1, <2>2, <2>3, <2>4 DEF NumbersDistinct
<1>. QED
  BY <1>2, <1>3

LEMMA IterateBegins ==
  ASSUME IterationInv, TreeInv', NEW r, Iterate(r)
  PROVE  IterationInv'
<1>1. /\ op = "none" /\ frames = <<>> /\ reports' = <<>> /\ UNCHANGED <<heapVars, node, failed>>
      /\ Finalize
  BY DEF IterationInv, TreeInv, Phases, Iterate, Idle, heapVars
<1>2. ~failed' => NumbersDistinct'
  BY <1>1, IterateNumbers
<1>3. CASE Methods[r] = {}
  BY <1>1, <1>2, <1>3, NothingReported DEF Iterate
<1>4. CASE Methods[r] # {}
  <2>. DEFINE f == Frame(Root, Zeros, 0)
  <2>1. frames' = <<f>>
    BY <1>4 DEF Iterate
  <2>2. HeapInv
    BY DEF IterationInv, TreeInv
  <2>3. FrameOK(f)
    <3>1. f.node = Root /\ f.network = Zeros /\ f.depth = 0
      BY DEF Frame
    <3>2. InTree(Zeros, 0) /\ Way(Zeros)[0] = Root
      BY <2>2, RootInTree
    <3>3. f \in FrameRecord
      <4>1. "left" \in Stages
        BY Zenon DEF Stages
      <4>. QED
        BY <2>2, <3>2, <4>1 DEF Frame, FrameRecord, InTree, HeapInv, Root
    <3>. QED
      BY <3>1, <3>2, <3>3 DEF FrameOK
  <2>. HIDE DEF f
  <2>4. PICK g : g = f
    OBVIOUS
  <2>5. FrameOK(g)' /\ frames' = <<g>>
    BY <1>1, <2>1, <2>3, <2>4, InTreeSame
  <2>6. (\A i \in 1..Len(frames) : FrameOK(frames[i]))'
    BY <2>5
  <2>7. frames' \in Seq({g}) /\ reports' \in Seq({})
    BY <1>1, <2>5
  <2>8. (\E S : frames \in Seq(S))' /\ IsReports'
    BY <2>7 DEF IsReports
  <2>. QED
    BY <1>1, <1>2, <2>6, <2>8 DEF IterationInv
<1>. QED
  BY <1>3, <1>4

LEMMA IterationInvInit == Init => IterationInv
<1>. SUFFICES ASSUME Init PROVE IterationInv
  OBVIOUS
<1>1. TreeInv
  BY TreeInvInit
<1>2. frames = <<>> /\ reports = <<>> /\ ~is_finalized /\ frames \in Seq({}) /\ reports \in Seq({})
  BY DEF Init, NumberingInit
<1>. QED
  BY <1>1, <1>2 DEF IterationInv, IsReports

LEMMA IterationInvNext == AliasesFit /\ IterationInv /\ [Next]_vars => IterationInv'
<1>. SUFFICES ASSUME AliasesFit, IterationInv, [Next]_vars PROVE IterationInv'
  OBVIOUS
<1>0. TreeInv' /\ Phases
  BY TreeInvNext DEF IterationInv, TreeInv
<1>1. CASE BeginInsert
  <2>1. op' = "insert" /\ frames' = <<>> /\ reports' = <<>>
    BY <1>0, <1>1 DEF BeginInsert, Forget, Idle, Phases
  <2>. QED
    BY <1>0, <2>1, NothingReported
<1>2. CASE EndInsert
  <2>1. is_finalized' = FALSE /\ frames' = <<>> /\ reports' = <<>>
    BY <1>0, <1>2 DEF EndInsert, Unfinalize, iterationVars, Phases
  <2>. QED
    BY <1>0, <2>1, NothingReported
<1>3. CASE BeginAlias
  <2>1. ~is_finalized' /\ frames' = <<>> /\ reports' = <<>>
    BY <1>0, <1>3 DEF BeginAlias, Forget, Idle, Phases, numbering
  <2>. QED
    BY <1>0, <2>1, NothingReported
<1>4. CASE EndAlias
  <2>1. ~is_finalized' /\ frames' = <<>> /\ reports' = <<>>
    BY <1>0, <1>4 DEF EndAlias, iterationVars, Phases, numbering
  <2>. QED
    BY <1>0, <2>1, NothingReported
<1>5. CASE TreeStep
  <2>1. Running
    BY <1>5 DEF TreeStep, HeapStep, MakeNextNode, MergeIntoNode, InsertIntoParent, SetRecord,
                Found
  <2>2. op \in {"insert", "alias"}
    BY <1>0, <2>1 DEF Phases, Running
  <2>3. ~(is_finalized' /\ op' # "insert") /\ frames' = <<>> /\ reports' = <<>>
    BY <1>0, <1>5, <2>2 DEF TreeStep, HeapStep, iterationVars, Phases
  <2>. QED
    BY <1>0, <2>3, NothingReported
<1>6. ASSUME NEW r \in Receivers, Iterate(r)
      PROVE  IterationInv'
  BY <1>0, <1>6, IterateBegins
<1>7. CASE GoLeft \/ GoRight
  <2>1. /\ frames # <<>> /\ UNCHANGED <<heapVars, numbering, op, reports, failed>>
        /\ Descend(0, "left_record") \/ Descend(1, "done")
    BY <1>7 DEF GoLeft, GoRight, InFrame
  <2>2. frames' \in Seq(FrameRecord) /\ \A i \in 1..Len(frames') : FrameOK(frames'[i])
    BY <2>1, DescendFrames, Zenon DEF Bit, Stages
  <2>. QED
    BY <1>0, <2>1, <2>2, FramesChange
<1>8. CASE ReportLeft \/ ReportRight
  BY <1>0, <1>8, CallbackIteration, Zenon DEF ReportLeft, ReportRight, Bit, Stages
<1>9. CASE FrameReturns
  <2>1. /\ frames # <<>> /\ frames' = Tail(frames)
        /\ UNCHANGED <<heapVars, numbering, op, reports, failed>>
    BY <1>9 DEF FrameReturns, InFrame
  <2>2. frames' \in Seq(FrameRecord) /\ \A i \in 1..Len(frames') : FrameOK(frames'[i])
    BY <2>1, TopFrame
  <2>. QED
    BY <1>0, <2>1, <2>2, FramesChange
<1>10. CASE IterateReturns
  <2>1. /\ op = "iterate" /\ frames' = <<>> /\ frames' \in Seq({})
        /\ UNCHANGED <<heapVars, numbering, reports, failed>>
    BY <1>10 DEF IterateReturns
  <2>. QED
    BY <1>0, <2>1, FramesChange
<1>11. CASE CallbackDies
  <2>1. /\ op = "iterate" /\ frames' = <<>> /\ reports' = <<>>
        /\ UNCHANGED <<node, number, is_finalized, failed>>
    BY <1>11 DEF CallbackDies, InFrame, heapVars, numbering
  <2>2. is_finalized' /\ ~failed' => NumbersDistinct'
    BY <2>1, ReportsSame DEF IterationInv
  <2>. QED
    BY <1>0, <2>1, <2>2, NothingReported
<1>12. CASE UNCHANGED vars
  <2>1. UNCHANGED <<heapVars, node, numbering, op, reports, frames, failed>>
    BY <1>12 DEF vars, heapVars
  <2>2. PICK S : frames' \in Seq(S)
    BY <2>1 DEF IterationInv
  <2>3. \A i \in 1..Len(frames') : FrameOK(frames'[i])
    BY <2>1 DEF IterationInv
  <2>. QED
    BY <1>0, <2>1, <2>2, <2>3, FramesChange
<1>13. CASE InsertFails
  <2>1. /\ is_finalized' = is_finalized /\ failed' = is_finalized
        /\ frames' = <<>> /\ reports' = <<>>
    BY <1>0, <1>13 DEF InsertFails, numbering, iterationVars, Phases
  <2>. QED
    BY <1>0, <2>1, NothingReported
<1>. QED
  BY <1>1, <1>2, <1>3, <1>4, <1>5, <1>6, <1>7, <1>8, <1>9, <1>10, <1>11, <1>12, <1>13 DEF Next


\* The walk to an address ends at one record only.
LEMMA LookupAt ==
  ASSUME HeapInv, NEW a \in Address, NEW n \in 1..Width, EndsAt(a, n)
  PROVE  Lookup(a) = node[Way(a)[n-1]][a[n]].value
<1>1. ASSUME NEW k \in 1..Width, NEW m \in 1..Width, k < m, EndsAt(a, k), EndsAt(a, m)
      PROVE  FALSE
  <2>1. k \in 0 .. Width - 1 /\ m - 1 \in k .. Width - 1 /\ k # 0
    BY <1>1, WidthAssumption
  <2>2. Way(a)[k] = Down(Way(a)[k-1], a[k])
    BY <2>1, WaySteps DEF WaysGoDown
  <2>3. Way(a)[k] = 0
    BY <1>1, <2>2 DEF EndsAt, Down
  <2>4. Way(a)[m-1] = 0
    BY <2>1, <2>3, WayEnds
  <2>. QED
    BY <1>1, <2>4 DEF EndsAt
<1>2. \A m \in 1..Width : EndsAt(a, m) => m = n
  <2>1. \A m \in 1..Width : m < n \/ n < m \/ m = n
    BY WidthAssumption
  <2>. QED
    BY <1>1, <2>1
<1>3. (CHOOSE m \in 1..Width : EndsAt(a, m)) = n
  BY <1>2
<1>. QED
  BY <1>3 DEF Lookup

LEMMA ReportLookups ==
  ASSUME HeapInv, NEW r, ReportOK(r), r.type \in {"data", "empty"},
         NEW a \in Address, Covers(r.network, r.mask, a)
  PROVE  Lookup(a) = r.value
<1>1. PICK c, m, w : c = r.node_network /\ m = r.node_mask /\ w = Way(c)[m]
  OBVIOUS
<1>2. InTree(c, m) /\ r.mask = m + 1
  BY <1>1 DEF ReportOK
<1>3. PICK side \in Bit :
        /\ r.type = node[w][side].type
        /\ r.network = SideNetwork(c, m, side)
        /\ r.value = IF Points(node[w][side]) THEN number[node[w][side].value]
                     ELSE node[w][side].value
  BY <1>1, <1>2 DEF ReportOK, SideNetwork
<1>4. ~Points(node[w][side]) /\ r.value = node[w][side].value
  BY <1>3 DEF Points
<1>5. /\ c \in Address /\ m \in 0 .. Width - 1 /\ \A k \in m + 1 .. Width : c[k] = 0
      /\ w \in 1..Len(node)
  BY <1>1, <1>2, ListedNode DEF InTree
<1>6. PICK b : b = SideNetwork(c, m, side)
  OBVIOUS
<1>7. b[m+1] = side /\ \A i \in 1..m : b[i] = c[i]
  BY <1>5, <1>6, SideBits
<1>8. m + 1 \in 1..m+1 /\ (\A i \in 1..m : i \in 1..m+1) /\ m + 1 \in 1..Width /\ m \in 0..m
  BY <1>5, WidthAssumption
<1>9. a[m+1] = side /\ \A i \in 1..m : a[i] = c[i]
  BY <1>2, <1>3, <1>6, <1>7, <1>8 DEF Covers
<1>10. Way(a)[m] = w
  BY <1>1, <1>5, <1>8, <1>9, SameStart
<1>11. PICK n : n = m + 1
  OBVIOUS
<1>12. n \in 1..Width /\ n - 1 = m
  BY <1>5, <1>8, <1>11
<1>13. Way(a)[n-1] = w /\ a[n] = side
  BY <1>9, <1>10, <1>11, <1>12
<1>14. EndsAt(a, n)
  BY <1>4, <1>5, <1>13 DEF EndsAt, HeapInv
<1>. QED
  BY <1>4, <1>12, <1>13, <1>14, LookupAt

\* "The record's network is what matches with a given data structure" (Tree.pm): what
\* callbacks are told about a network is what lookup_ip_address finds for each of its
\* addresses, with aliases in the tree, and after iterations that died too.
THEOREM ReportsAreLookups == AliasesFit => (Spec => []ReportsMatchLookups)
<1>. SUFFICES ASSUME AliasesFit PROVE Spec => []ReportsMatchLookups
  OBVIOUS
<1>1. IterationInv /\ [Next]_vars => IterationInv'
  BY IterationInvNext
<1>2. IterationInv => ReportsMatchLookups
  BY ReportLookups DEF IterationInv, TreeInv, ReportsMatchLookups
<1>. QED
  BY <1>1, <1>2, IterationInvInit, PTL DEF Spec

\* The number that is reported for a record is the one of the node it leads to.
LEMMA ReportLeads ==
  ASSUME HeapInv, NEW r, ReportOK(r), r.type = "node", NEW s, ReportOK(s),
         s.node_network = r.network, s.node_mask = r.mask
  PROVE  s.node = r.value
<1>1. PICK c, m, w : c = r.node_network /\ m = r.node_mask /\ w = Way(c)[m]
  OBVIOUS
<1>2. InTree(c, m) /\ r.mask = m + 1
  BY <1>1 DEF ReportOK
<1>3. PICK side \in Bit :
        /\ r.type = node[w][side].type
        /\ r.network = SideNetwork(c, m, side)
        /\ r.value = IF Points(node[w][side]) THEN number[node[w][side].value]
                     ELSE node[w][side].value
  BY <1>1, <1>2 DEF ReportOK, SideNetwork
<1>4. Points(node[w][side]) /\ r.value = number[node[w][side].value]
  BY <1>3 DEF Points
<1>5. /\ c \in Address /\ m \in 0 .. Width - 1 /\ \A k \in m + 1 .. Width : c[k] = 0
      /\ w \in 1..Len(node)
  BY <1>1, <1>2, ListedNode DEF InTree
<1>6. PICK b, n : b = SideNetwork(c, m, side) /\ n = m + 1
  OBVIOUS
<1>7. b \in Address /\ b[m+1] = side /\ \A i \in 1..m : b[i] = c[i]
  BY <1>5, <1>6, SideBits
<1>8. s.node = number[Way(b)[n]] /\ n \in 0 .. Width - 1 /\ n # 0 /\ n - 1 = m /\ m \in 0..m
  <2>1. n # 0 /\ n - 1 = m /\ m \in 0..m
    BY <1>5, <1>6
  <2>2. s.node_network = b /\ s.node_mask = n
    BY <1>2, <1>3, <1>6
  <2>3. InTree(b, n) /\ s.node = number[Way(b)[n]]
    BY <2>2 DEF ReportOK
  <2>. QED
    BY <2>1, <2>3 DEF InTree
<1>9. Way(b)[m] = w
  BY <1>1, <1>5, <1>7, <1>8, SameStart
<1>10. Way(b)[n] = Down(Way(b)[n-1], b[n])
  BY <1>7, <1>8, WaySteps DEF WaysGoDown
<1>11. Way(b)[n] = Down(w, side)
  BY <1>6, <1>7, <1>8, <1>9, <1>10
<1>12. Way(b)[n] = node[w][side].value
  BY <1>4, <1>5, <1>11 DEF Down, HeapInv
<1>. QED
  BY <1>4, <1>8, <1>12

\* Nodes that are reported with the same number are the same node, at the same place.
LEMMA ReportedOnce ==
  ASSUME HeapInv, NumbersDistinct, NEW r, ReportOK(r), NEW s, ReportOK(s), r.node = s.node
  PROVE  r.node_network = s.node_network /\ r.node_mask = s.node_mask
<1>1. PICK a, m, c, n : /\ a = r.node_network /\ m = r.node_mask
                        /\ c = s.node_network /\ n = s.node_mask
  OBVIOUS
<1>2. /\ InTree(a, m) /\ InTree(c, n) /\ number[Way(a)[m]] = number[Way(c)[n]]
  BY <1>1 DEF ReportOK
<1>3. /\ a \in Address /\ m \in 0 .. Width - 1 /\ OwnWay(a, m) /\ Way(a)[m] \in ToSet(Preorder)
      /\ c \in Address /\ n \in 0 .. Width - 1 /\ OwnWay(c, n) /\ Way(c)[n] \in ToSet(Preorder)
      /\ \A k \in m + 1 .. Width : a[k] = 0
      /\ \A k \in n + 1 .. Width : c[k] = 0
  BY <1>2 DEF InTree
<1>4. Way(a)[m] = Way(c)[n] /\ Way(a)[m] # 0
  BY <1>2, <1>3, ListedNode DEF NumbersDistinct, HeapInv
<1>5. m = n /\ \A i \in 1..m : a[i] = c[i]
  BY <1>3, <1>4, OwnWaysMeet
<1>6. \A i \in 1..Width : i \in 1..m \/ i \in m + 1 .. Width
  BY <1>3, WidthAssumption
<1>7. \A i \in 1..Width : a[i] = c[i]
  BY <1>3, <1>5, <1>6
<1>8. a = c
  <2>1. a = [i \in 1..Width |-> a[i]] /\ c = [i \in 1..Width |-> c[i]]
    BY <1>3 DEF Address
  <2>. QED
    BY <1>7, <2>1, Zenon
<1>. QED
  BY <1>1, <1>5, <1>8

\* The numbers that callbacks are told agree: a record is reported with the number that
\* its node reports itself with; and no two nodes have the same number, whether the tree
\* has been finalized before, and whatever aliases it has, as long as no insert has
\* failed since it was finalized.
THEOREM ReportedNumbersAgree == AliasesFit => (Spec => []NumbersAgree)
<1>. SUFFICES ASSUME AliasesFit PROVE Spec => []NumbersAgree
  OBVIOUS
<1>1. IterationInv /\ [Next]_vars => IterationInv'
  BY IterationInvNext
<1>2. IterationInv => NumbersAgree
  <2>. SUFFICES ASSUME IterationInv, NEW i \in 1..Len(reports), NEW j \in 1..Len(reports)
                PROVE  LET r == reports[i]  s == reports[j] IN
                       /\ r.type = "node" /\ s.node_network = r.network /\ s.node_mask = r.mask
                            => s.node = r.value
                       /\ ~failed /\ r.node = s.node
                            => r.node_network = s.node_network /\ r.node_mask = s.node_mask
    BY DEF NumbersAgree, NumbersNameNodes
  <2>1. HeapInv /\ ReportOK(reports[i]) /\ ReportOK(reports[j])
    BY DEF IterationInv, TreeInv
  <2>2. ~failed => NumbersDistinct
    <3>1. reports # <<>>
      <4>1. CASE reports = <<>>
        BY <4>1
      <4>. QED
        BY <4>1
    <3>. QED
      BY <3>1 DEF IterationInv, TreeInv, Phases
  <2>3. PICK r, s : r = reports[i] /\ s = reports[j]
    OBVIOUS
  <2>. QED
    BY <2>1, <2>2, <2>3, ReportLeads, ReportedOnce
<1>. QED
  BY <1>1, <1>2, IterationInvInit, PTL DEF Spec

\* What a stack holds once its first call has returned or has given way to another.
LEMMA FirstReplaced ==
  ASSUME NEW S, NEW s \in Seq(S), s # <<>>, NEW c, NEW t,
         t = Tail(s) \/ t = <<c>> \o Tail(s)
  PROVE  \A i \in 1..Len(t) : t[i] = c \/ \E j \in 1..Len(s) : t[i] = s[j]
<1>1. /\ Tail(s) \in Seq(S) /\ Len(Tail(s)) = Len(s) - 1 /\ Len(s) \in Nat
      /\ \A i \in 1..Len(Tail(s)) : Tail(s)[i] = s[i + 1]
  BY HeadTailProperties, LenProperties
<1>2. PICK u : u = Tail(s)
  OBVIOUS
<1>3. u \in Seq(S) /\ Len(u) = Len(s) - 1 /\ \A i \in 1..Len(u) : u[i] = s[i + 1]
  BY <1>1, <1>2
<1>4. ASSUME NEW i \in 1..Len(u) PROVE \E j \in 1..Len(s) : u[i] = s[j]
  <2>1. i + 1 \in 1..Len(s)
    BY <1>1, <1>3
  <2>. QED
    BY <1>3, <2>1
<1>5. CASE t = Tail(s)
  BY <1>2, <1>4, <1>5
<1>6. CASE t = <<c>> \o Tail(s)
  <2>1. /\ t = <<c>> \o u
        /\ Len(t) = 1 + Len(u)
        /\ \A i \in 1..Len(t) : t[i] = IF i <= 1 THEN <<c>>[i] ELSE u[i - 1]
    BY <1>2, <1>3, <1>6
  <2>2. <<c>>[1] = c
    OBVIOUS
  <2>3. PICK m : m = Len(t)
    OBVIOUS
  <2>4. PICK n \in Nat : n = Len(u) /\ m = 1 + n
    <3>1. Len(u) \in Nat
      BY <1>3, LenProperties
    <3>2. m = 1 + Len(u)
      BY <2>1, <2>3
    <3>. QED
      BY <3>1, <3>2, Zenon
  <2>5. ASSUME NEW i \in 1..Len(t) PROVE t[i] = c \/ \E j \in 1..Len(s) : t[i] = s[j]
    <3>1. CASE i = 1
      BY <2>1, <2>2, <3>1
    <3>2. CASE i # 1
      <4>1. i - 1 \in 1..Len(u) /\ ~(i <= 1)
        <5>1. i \in 1..m
          BY <2>3
        <5>2. i - 1 \in 1..n /\ ~(i <= 1)
          BY ONLY <2>4, <3>2, <5>1
        <5>. QED
          BY <2>4, <5>2
      <4>2. t[i] = u[i - 1]
        BY <2>1, <4>1
      <4>. QED
        BY <1>4, <4>1, <4>2
    <3>. QED
      BY <3>1, <3>2
  <2>. QED
    BY <2>5
<1>. QED
  BY <1>5, <1>6

\* Without merging no call merges, so that none can croak.
MergesNothing == ~failed /\ \A i \in 1..Len(calls) : ~calls[i].merge

LEMMA MergesNothingNext ==
  ASSUME ~MergeRecordCollisions, HeapInv, MergesNothing, [Next]_vars
  PROVE  MergesNothing'
<1>1. PICK S : calls \in Seq(S)
  BY DEF HeapInv
<1>2. Running => Current = calls[1] /\ ~Current.merge
  BY <1>1 DEF Running, Current, MergesNothing
<1>3. CASE BeginInsert
  BY <1>3 DEF BeginInsert, Insert, InsertNetwork, MergesNothing
<1>4. CASE BeginAlias
  BY <1>4, HeapAssumption DEF BeginAlias, AliasIpv4Networks, AliasCalls, MergesNothing
<1>5. CASE InsertFails
  BY <1>2, <1>5 DEF InsertFails, Croak, Found, Croaks, Descends, Merges
<1>6. CASE TreeStep
  <2>1. Running /\ failed' = failed
    BY <1>6 DEF TreeStep, HeapStep, MakeNextNode, MergeIntoNode, InsertIntoParent, SetRecord,
                Found
  <2>2. PICK c : c = [Current EXCEPT !.mask = ParentMask(@), !.new = NewRecord, !.merge = FALSE]
    OBVIOUS
  <2>3. \/ calls' = calls \/ calls' = Tail(calls) \/ calls' = <<c>> \o Tail(calls)
    BY <1>2, <1>6, <2>1, <2>2 DEF TreeStep, HeapStep, MakeNextNode, MergeIntoNode,
      InsertIntoParent, SetRecord, Descends
  <2>4. PICK s : s = calls
    OBVIOUS
  <2>5. CASE calls' = calls
    BY <2>1, <2>5 DEF MergesNothing
  <2>6. CASE calls' # calls
    <3>1. PICK t : t = calls'
      OBVIOUS
    <3>2. s # <<>> /\ (t = Tail(s) \/ t = <<c>> \o Tail(s))
      BY <2>1, <2>3, <2>4, <2>6, <3>1 DEF Running
    <3>3. \A i \in 1..Len(t) : t[i] = c \/ \E j \in 1..Len(s) : t[i] = s[j]
      BY <1>1, <2>4, <3>2, FirstReplaced
    <3>4. ~c.merge /\ \A j \in 1..Len(s) : ~s[j].merge
      BY <1>1, <1>2, <2>1, <2>2, <2>4 DEF MergesNothing, HeapInv, Call, Current
    <3>5. \A i \in 1..Len(t) : ~t[i].merge
      BY <3>3, <3>4
    <3>. QED
      BY <2>1, <3>1, <3>5 DEF MergesNothing
  <2>. QED
    BY <2>5, <2>6
<1>7. CASE UNCHANGED <<calls, failed>> \/ (calls' = calls /\ failed' = FALSE)
  BY <1>7 DEF MergesNothing
<1>. QED
  BY <1>3, <1>4, <1>5, <1>6, <1>7 DEF Next, vars, heapVars, EndInsert, EndAlias, Iterate,
    GoLeft, GoRight, ReportLeft, ReportRight, CallPerlObject, FrameReturns, IterateReturns,
    CallbackDies

\* In a tree that does not merge, numbers name nodes always.
THEOREM UnmergedNumbersNameNodes ==
  AliasesFit /\ ~MergeRecordCollisions => (Spec => []NumbersNameNodes)
<1>. SUFFICES ASSUME AliasesFit, ~MergeRecordCollisions PROVE Spec => []NumbersNameNodes
  OBVIOUS
<1>1. Init => TreeInv /\ MergesNothing
  BY TreeInvInit DEF Init, HeapInit, MergesNothing
<1>2. TreeInv /\ MergesNothing /\ [Next]_vars => TreeInv' /\ MergesNothing'
  BY TreeInvNext, MergesNothingNext DEF TreeInv
<1>3. MergesNothing /\ NumbersAgree => NumbersNameNodes
  BY DEF MergesNothing, NumbersAgree
<1>4. Spec => []NumbersAgree
  BY ReportedNumbersAgree
<1>. QED
  BY <1>1, <1>2, <1>3, <1>4, PTL DEF Spec


-------------------------------------------------------------------------------
(* The order of the networks *)

\* The two halves of a frame's network, and the addresses that it and the frames
\* above it are still to tell of.
GoesDown(f, side) == node[f.node][side].type = "node"
LeftHalf(f, a) == Covers(f.network, f.depth + 1, a)
RightHalf(f, a) == Covers(SetBit(f.network, f.depth + 1), f.depth + 1, a)

Ahead(f, a) ==
  \/ /\ LeftHalf(f, a)
     /\ f.next = "left" \/ (f.next = "left_record" /\ ~GoesDown(f, 0))
  \/ /\ RightHalf(f, a)
     /\ \/ f.next \in {"left", "left_record", "right_record"}
        \/ f.next = "right" /\ GoesDown(f, 1)

Comes(s, a) == \E k \in 1..Len(s) : Ahead(s[k], a)

Sorted(s) ==
  \A k, l \in 1..Len(s) : k < l =>
    \A a, b \in Address : Ahead(s[k], a) /\ Ahead(s[l], b) => Before(a, b)

\* Each address has been told of once, in order, or is still to come.
ToldOnce == \A a \in Address : \A i, j \in Told(a) : i = j
ToldInOrder == \A a, b \in Address : Before(a, b) => \A j \in Told(b) : \E i \in Told(a) : i <= j
RestComes == \A a \in Address : Told(a) = {} <=> Comes(frames, a)
Visiting == ToldOnce /\ ToldInOrder /\ RestComes /\ Sorted(frames)

HasAll == Methods[receiver] = {"empty", "node", "data"}
VisitInv == (reports # <<>> \/ op = "iterate") /\ HasAll => Visiting

\* What a frame in front of others adds.
LEMMA InFront ==
  ASSUME NEW f \in FrameRecord, NEW t \in Seq(FrameRecord), NEW s, s = <<f>> \o t
  PROVE  /\ \A a : Comes(s, a) <=> Ahead(f, a) \/ Comes(t, a)
         /\ Sorted(s) <=> /\ Sorted(t)
                          /\ \A a, b \in Address : Ahead(f, a) /\ Comes(t, b) => Before(a, b)
<1>1. /\ Len(t) \in Nat /\ Len(s) = Len(t) + 1 /\ s[1] = f
      /\ \A k \in 1..Len(t) : s[k+1] = t[k]
  <2>1. <<f>> \in Seq(FrameRecord) /\ Len(<<f>>) = 1 /\ <<f>>[1] = f
    OBVIOUS
  <2>2. /\ Len(s) = 1 + Len(t)
        /\ \A i \in 1..Len(s) : s[i] = IF i <= 1 THEN <<f>>[i] ELSE t[i-1]
    BY <2>1, ConcatProperties
  <2>3. Len(t) \in Nat
    OBVIOUS
  <2>. QED
    BY <2>1, <2>2, <2>3
<1>2. 1 \in 1..Len(s) /\ \A k \in 1..Len(t) : k + 1 \in 1..Len(s) /\ 1 < k + 1
  BY <1>1
<1>3. \A i \in 1..Len(s) : i # 1 => i - 1 \in 1..Len(t) /\ s[i] = t[i-1]
  <2>1. \A i \in 1..Len(s) : i # 1 => i - 1 \in 1..Len(t) /\ (i - 1) + 1 = i
    BY <1>1
  <2>. QED
    BY <1>1, <2>1
<1>4. \A a : Comes(s, a) <=> Ahead(f, a) \/ Comes(t, a)
  BY <1>1, <1>2, <1>3 DEF Comes
<1>5. ASSUME Sorted(s)
      PROVE  /\ Sorted(t)
             /\ \A a, b \in Address : Ahead(f, a) /\ Comes(t, b) => Before(a, b)
  <2>1. Sorted(t)
    <3>1. \A k, l \in 1..Len(t) : k < l => k + 1 < l + 1
      BY <1>1
    <3>. QED
      BY <1>1, <1>2, <1>5, <3>1 DEF Sorted
  <2>2. \A a, b \in Address : Ahead(f, a) /\ Comes(t, b) => Before(a, b)
    BY <1>1, <1>2, <1>5 DEF Sorted, Comes
  <2>. QED
    BY <2>1, <2>2
<1>6. ASSUME Sorted(t), \A a, b \in Address : Ahead(f, a) /\ Comes(t, b) => Before(a, b)
      PROVE  Sorted(s)
  <2>. SUFFICES ASSUME NEW k \in 1..Len(s), NEW l \in 1..Len(s), k < l,
                       NEW a \in Address, NEW b \in Address, Ahead(s[k], a), Ahead(s[l], b)
                PROVE  Before(a, b)
    BY DEF Sorted
  <2>1. l - 1 \in 1..Len(t) /\ s[l] = t[l-1]
    BY <1>1, <1>3
  <2>2. CASE k = 1
    BY <1>1, <1>6, <2>1, <2>2 DEF Comes
  <2>3. CASE k # 1
    <3>1. k - 1 \in 1..Len(t) /\ s[k] = t[k-1] /\ k - 1 < l - 1
      BY <1>1, <1>3, <2>3
    <3>. QED
      BY <1>6, <2>1, <3>1 DEF Sorted
  <2>. QED
    BY <2>2, <2>3
<1>. QED
  BY <1>4, <1>5, <1>6

\* A frame's halves are its network, and in order.
LEMMA FrameHalves ==
  ASSUME NEW f, FrameOK(f), NEW a \in Address
  PROVE  /\ Covers(f.network, f.depth, a) <=> LeftHalf(f, a) \/ RightHalf(f, a)
         /\ \A b \in Address : LeftHalf(f, a) /\ RightHalf(f, b) => Before(a, b)
<1>1. f.network \in Address /\ f.depth \in 0 .. Width-1 /\ f.network[f.depth + 1] = 0
  <2>1. f.depth + 1 \in f.depth + 1 .. Width
    BY WidthAssumption DEF FrameOK, InTree
  <2>. QED
    BY <2>1 DEF FrameOK, InTree
<1>. QED
  BY <1>1, Halves DEF LeftHalf, RightHalf

\* The frame on top, before it takes its next step and after.
LEMMA TopAhead ==
  ASSUME IterationInv, frames # <<>>, NEW next \in Stages, NEW f,
         f = [Top EXCEPT !.next = next]
  PROVE  /\ f \in FrameRecord /\ FrameOK(f) /\ f.next = next
         /\ GoOn(next) \in Seq(FrameRecord)
         /\ \A a : Comes(frames, a) <=> Ahead(Top, a) \/ Comes(Tail(frames), a)
         /\ Sorted(frames) <=>
              /\ Sorted(Tail(frames))
              /\ \A a, b \in Address : Ahead(Top, a) /\ Comes(Tail(frames), b) => Before(a, b)
         /\ \A a : Comes(GoOn(next), a) <=> Ahead(f, a) \/ Comes(Tail(frames), a)
         /\ Sorted(GoOn(next)) <=>
              /\ Sorted(Tail(frames))
              /\ \A a, b \in Address : Ahead(f, a) /\ Comes(Tail(frames), b) => Before(a, b)
         /\ \A a : LeftHalf(f, a) <=> LeftHalf(Top, a)
         /\ \A a : RightHalf(f, a) <=> RightHalf(Top, a)
         /\ \A side : GoesDown(f, side) <=> GoesDown(Top, side)
<1>1. /\ frames \in Seq(FrameRecord) /\ Top \in FrameRecord /\ FrameOK(Top)
      /\ Tail(frames) \in Seq(FrameRecord)
  BY TopFrame
<1>2. f \in FrameRecord /\ f.network = Top.network /\ f.depth = Top.depth /\ f.node = Top.node
      /\ f.next = next
  BY <1>1 DEF FrameRecord
<1>3. FrameOK(f)
  BY <1>1, <1>2 DEF FrameOK
<1>4. frames = <<Top>> \o Tail(frames)
  <2>1. PICK s : s = frames
    OBVIOUS
  <2>2. s \in Seq(FrameRecord) /\ s # <<>>
    BY <1>1, <2>1
  <2>3. s = <<Head(s)>> \o Tail(s)
    BY ONLY <2>2, HeadTailProperties
  <2>. QED
    BY <2>1, <2>3 DEF Top
<1>5. GoOn(next) = <<f>> \o Tail(frames) /\ GoOn(next) \in Seq(FrameRecord)
  BY GoesOn DEF GoOn
<1>6. PICK t : t = Tail(frames)
  OBVIOUS
<1>7. /\ \A a : Comes(frames, a) <=> Ahead(Top, a) \/ Comes(t, a)
      /\ Sorted(frames) <=>
           /\ Sorted(t)
           /\ \A a, b \in Address : Ahead(Top, a) /\ Comes(t, b) => Before(a, b)
  BY <1>1, <1>4, <1>6, InFront
<1>8. /\ \A a : Comes(GoOn(next), a) <=> Ahead(f, a) \/ Comes(t, a)
      /\ Sorted(GoOn(next)) <=>
           /\ Sorted(t)
           /\ \A a, b \in Address : Ahead(f, a) /\ Comes(t, b) => Before(a, b)
  BY <1>1, <1>2, <1>5, <1>6, InFront
<1>9. /\ \A a : LeftHalf(f, a) <=> LeftHalf(Top, a)
      /\ \A a : RightHalf(f, a) <=> RightHalf(Top, a)
      /\ \A side : GoesDown(f, side) <=> GoesDown(Top, side)
  BY <1>2 DEF LeftHalf, RightHalf, GoesDown
<1>. QED
  BY <1>2, <1>3, <1>5, <1>6, <1>7, <1>8, <1>9

\* Going down changes nothing of what is to come.
LEMMA DescendAhead ==
  ASSUME IterationInv, frames # <<>>, Sorted(frames), NEW side, NEW next, Descend(side, next),
         \/ side = 0 /\ Top.next = "left" /\ next = "left_record"
         \/ side = 1 /\ Top.next = "right" /\ next = "done"
  PROVE  Sorted(frames') /\ \A a \in Address : Comes(frames', a) <=> Comes(frames, a)
<1>. PICK f : f = [Top EXCEPT !.next = next]
  OBVIOUS
<1>1. side \in Bit /\ next \in Stages
  BY Zenon DEF Bit, Stages
<1>2. /\ f \in FrameRecord /\ FrameOK(f) /\ f.next = next
      /\ GoOn(next) \in Seq(FrameRecord)
      /\ \A a : Comes(frames, a) <=> Ahead(Top, a) \/ Comes(Tail(frames), a)
      /\ Sorted(frames) <=>
           /\ Sorted(Tail(frames))
           /\ \A a, b \in Address : Ahead(Top, a) /\ Comes(Tail(frames), b) => Before(a, b)
      /\ \A a : Comes(GoOn(next), a) <=> Ahead(f, a) \/ Comes(Tail(frames), a)
      /\ Sorted(GoOn(next)) <=>
           /\ Sorted(Tail(frames))
           /\ \A a, b \in Address : Ahead(f, a) /\ Comes(Tail(frames), b) => Before(a, b)
      /\ \A a : LeftHalf(f, a) <=> LeftHalf(Top, a)
      /\ \A a : RightHalf(f, a) <=> RightHalf(Top, a)
      /\ \A down : GoesDown(f, down) <=> GoesDown(Top, down)
  BY <1>1, TopAhead
<1>3. GoesDown(Top, side) <=> Follows(Record(side))
  BY DEF GoesDown, Follows, Record
<1>4. CASE ~Follows(Record(side))
  <2>1. frames' = GoOn(next)
    BY <1>4 DEF Descend
  <2>2. \A a : Ahead(f, a) <=> Ahead(Top, a)
    BY <1>2, <1>3, <1>4 DEF Ahead
  <2>. QED
    BY <1>2, <2>1, <2>2
<1>5. CASE Follows(Record(side))
  <2>. PICK g : g = Frame(Record(side).value, RecordNetwork(side), Top.depth + 1)
    OBVIOUS
  <2>1. frames' = <<g>> \o GoOn(next)
    BY <1>5 DEF Descend
  <2>2. g \in FrameRecord /\ FrameOK(g)
    <3>1. PICK s, t : s = frames' /\ t = GoOn(next)
      OBVIOUS
    <3>2. s \in Seq(FrameRecord) /\ \A i \in 1..Len(s) : FrameOK(s[i])
      BY <1>1, <3>1, DescendFrames
    <3>3. t \in Seq(FrameRecord) /\ s = <<g>> \o t
      BY <1>2, <2>1, <3>1
    <3>4. s[1] = g /\ 1 \in 1..Len(s)
      <4>1. PICK S : g \in S /\ t \in Seq(S)
        <5>1. t \in Seq(FrameRecord \cup {g}) /\ g \in FrameRecord \cup {g}
          BY ONLY <3>3
        <5>. QED
          BY <5>1
      <4>2. <<g>> \in Seq(S) /\ Len(<<g>>) = 1 /\ <<g>>[1] = g
        BY ONLY <4>1
      <4>3. Len(s) = 1 + Len(t) /\ s[1] = <<g>>[1] /\ Len(t) \in Nat
        BY ONLY <3>3, <4>1, <4>2, ConcatProperties
      <4>. QED
        BY ONLY <4>2, <4>3
    <3>5. FrameOK(g)
      BY ONLY <3>2, <3>4
    <3>. QED
      BY <3>5 DEF FrameOK
  <2>3. /\ \A a : Comes(frames', a) <=> Ahead(g, a) \/ Comes(GoOn(next), a)
        /\ Sorted(frames') <=>
             /\ Sorted(GoOn(next))
             /\ \A a, b \in Address : Ahead(g, a) /\ Comes(GoOn(next), b) => Before(a, b)
    BY <1>2, <2>1, <2>2, InFront
  <2>4. g.network = RecordNetwork(side) /\ g.depth = Top.depth + 1 /\ g.next = "left"
    BY DEF Frame
  <2>5. \A a \in Address : Ahead(g, a) <=> Covers(RecordNetwork(side), Top.depth + 1, a)
    BY <2>2, <2>4, FrameHalves DEF Ahead
  <2>6. \A a, b \in Address : LeftHalf(f, a) /\ RightHalf(f, b) => Before(a, b)
    BY <1>2, FrameHalves
  <2>7. CASE side = 0
    <3>1. \A a \in Address : Ahead(g, a) <=> LeftHalf(f, a)
      BY <1>2, <2>5, <2>7 DEF RecordNetwork, LeftHalf
    <3>2. Top.next = "left" /\ f.next = "left_record" /\ GoesDown(f, 0)
      BY <1>2, <1>3, <1>5, <2>7
    <3>3. \A a : /\ Ahead(Top, a) <=> LeftHalf(f, a) \/ RightHalf(f, a)
                 /\ Ahead(f, a) <=> RightHalf(f, a)
      BY <1>2, <3>2 DEF Ahead
    <3>. QED
      BY <1>2, <2>3, <2>6, <3>1, <3>3
  <2>8. CASE side = 1
    <3>1. \A a \in Address : Ahead(g, a) <=> RightHalf(f, a)
      BY <1>2, <2>5, <2>8 DEF RecordNetwork, RightHalf
    <3>2. Top.next = "right" /\ f.next = "done" /\ GoesDown(Top, 1)
      BY <1>2, <1>3, <1>5, <2>8
    <3>3. \A a : /\ Ahead(Top, a) <=> RightHalf(f, a)
                 /\ ~Ahead(f, a)
      BY <1>2, <3>2 DEF Ahead
    <3>. QED
      BY <1>2, <2>3, <3>1, <3>3
  <2>. QED
    BY <2>7, <2>8
<1>. QED
  BY <1>4, <1>5

\* A report adds its network to what has been told, if it is not of a node record.
LEMMA ReportTells ==
  ASSUME IsReports, NEW r, reports' = Append(reports, r), NEW n, n = Len(reports) + 1
  PROVE  /\ n \in Nat /\ \A a : \A i \in Told(a) : i \in 1..n-1
         /\ \A a : (Told(a))' = Told(a) \cup
                     {i \in {n} : r.type # "node" /\ Covers(r.network, r.mask, a)}
<1>. PICK S : reports \in Seq(S)
  BY DEF IsReports
<1>. PICK old, new : old = reports /\ new = reports'
  OBVIOUS
<1>1. /\ Len(new) = n /\ n \in Nat /\ n - 1 = Len(old) /\ new[n] = r
      /\ \A i \in 1..n-1 : new[i] = old[i]
  <2>1. PICK T : old \in Seq(T) /\ r \in T
    <3>1. old \in Seq(S \cup {r}) /\ r \in S \cup {r}
      OBVIOUS
    <3>. QED
      BY <3>1
  <2>2. /\ Len(new) = Len(old) + 1 /\ Len(old) \in Nat /\ new[Len(old) + 1] = r
        /\ \A i \in 1..Len(old) : new[i] = old[i]
    BY <2>1, AppendProperties
  <2>. QED
    BY <2>2
<1>2. \A a : \A i \in Told(a) : i \in 1..n-1
  BY <1>1 DEF Told
<1>3. ASSUME NEW a
      PROVE  (Told(a))' = Told(a) \cup
               {i \in {n} : r.type # "node" /\ Covers(r.network, r.mask, a)}
  <2>. DEFINE Tells(q) == q.type # "node" /\ Covers(q.network, q.mask, a)
  <2>1. (Told(a))' = {i \in 1..n : Tells(new[i])} /\ Told(a) = {i \in 1..n-1 : Tells(old[i])}
    BY <1>1 DEF Told
  <2>2. 1..n = (1..n-1) \cup {n} /\ n \notin 1..n-1
    BY <1>1
  <2>3. \A i \in 1..n-1 : Tells(new[i]) <=> Tells(old[i])
    BY <1>1
  <2>4. Tells(new[n]) <=> Tells(r)
    BY <1>1
  <2>5. {i \in {n} : r.type # "node" /\ Covers(r.network, r.mask, a)} = {i \in {n} : Tells(r)}
    OBVIOUS
  <2>. HIDE DEF Tells
  <2>. QED
    BY <2>1, <2>2, <2>3, <2>4, <2>5
<1>. QED
  BY <1>1, <1>2, <1>3

\* Telling of the addresses N, which come first of those that are to come.
LEMMA TellsNext ==
  ASSUME ToldOnce, ToldInOrder, RestComes, NEW n \in Nat, NEW N, NEW rest \in SUBSET Address,
         \A a \in Address : Told(a) \in SUBSET (1..n-1),
         \A a \in Address : (Told(a))' = Told(a) \cup {i \in {n} : a \in N},
         \A a \in Address : Comes(frames, a) <=> a \in N \/ a \in rest,
         \A a \in N, b \in rest : Before(a, b),
         N \in SUBSET Address
  PROVE  /\ ToldOnce' /\ ToldInOrder'
         /\ \A a \in Address : (Told(a))' = {} <=> a \in rest
<1>1. \A a \in N : Told(a) = {} /\ a \notin rest
  BY BeforeIsStrict DEF RestComes
<1>2. ToldOnce'
  BY <1>1 DEF ToldOnce
<1>3. \A a \in Address : (Told(a))' = {} <=> a \in rest
  BY <1>1 DEF RestComes
<1>4. ToldInOrder'
  <2>. SUFFICES ASSUME NEW a \in Address, NEW b \in Address, Before(a, b), NEW j \in (Told(b))'
                PROVE  \E i \in (Told(a))' : i <= j
    BY DEF ToldInOrder
  <2>1. CASE j \in Told(b)
    BY <2>1 DEF ToldInOrder
  <2>2. CASE j \notin Told(b)
    <3>1. j = n /\ b \in N
      BY <2>2
    <3>2. a \notin rest
      BY <3>1, BeforeIsStrict
    <3>3. PICK i \in (Told(a))' : TRUE
      BY <1>3, <3>2
    <3>4. i <= n
      BY <3>3
    <3>. QED
      BY <3>1, <3>3, <3>4
  <2>. QED
    BY <2>1, <2>2
<1>. QED
  BY <1>2, <1>3, <1>4

\* A callback about a record that is told of: of the receiver with all methods.
LEMMA CallbackVisits ==
  ASSUME IterationInv, ReceiverInv, HasAll, Visiting, NEW side, NEW stage, NEW next,
         CallPerlObject(side, stage, next),
         \/ side = 0 /\ stage = "left_record" /\ next = "right_record"
         \/ side = 1 /\ stage = "right_record" /\ next = "right"
  PROVE  Visiting'
<1>. PICK f : f = [Top EXCEPT !.next = next]
  OBVIOUS
<1>1. /\ frames # <<>> /\ Top.next = stage /\ op = "iterate" /\ frames' = GoOn(next)
      /\ UNCHANGED <<node, receiver>>
  BY DEF CallPerlObject, InFrame, heapVars
<1>2. side \in Bit /\ next \in Stages
  BY DEF Bit, Stages
<1>3. /\ f \in FrameRecord /\ FrameOK(f) /\ f.next = next
      /\ GoOn(next) \in Seq(FrameRecord)
      /\ \A a : Comes(frames, a) <=> Ahead(Top, a) \/ Comes(Tail(frames), a)
      /\ Sorted(frames) <=>
           /\ Sorted(Tail(frames))
           /\ \A a, b \in Address : Ahead(Top, a) /\ Comes(Tail(frames), b) => Before(a, b)
      /\ \A a : Comes(GoOn(next), a) <=> Ahead(f, a) \/ Comes(Tail(frames), a)
      /\ Sorted(GoOn(next)) <=>
           /\ Sorted(Tail(frames))
           /\ \A a, b \in Address : Ahead(f, a) /\ Comes(Tail(frames), b) => Before(a, b)
      /\ \A a : LeftHalf(f, a) <=> LeftHalf(Top, a)
      /\ \A a : RightHalf(f, a) <=> RightHalf(Top, a)
      /\ \A down : GoesDown(f, down) <=> GoesDown(Top, down)
  BY <1>1, <1>2, TopAhead
<1>. DEFINE r == Report(side)
            Half == {a \in Address : Covers(r.network, r.mask, a)}
<1>4. /\ r.type = Record(side).type /\ r.mask = Top.depth + 1
      /\ r.network = RecordNetwork(side)
  BY DEF Report
<1>5. GoesDown(Top, side) <=> r.type = "node"
  BY <1>4 DEF GoesDown, Record
<1>6. reports' = Append(reports, r)
  <2>1. iteration_args = receiver
    BY <1>1 DEF ReceiverInv, ArgsOfReceiver
  <2>2. Record(side).type \in {"node", "alias", "empty", "data"}
    <3>1. /\ HeapInv /\ InTree(Top.network, Top.depth)
          /\ Top.node = Way(Top.network)[Top.depth]
      BY <1>1, TopFrame DEF IterationInv, TreeInv, FrameOK
    <3>2. Record(side) \in HeapRecord
      BY <1>2, <3>1, ListedNode DEF Record
    <3>. QED
      BY <3>2 DEF HeapRecord, NoPointer, EmptyRecord, DataRecord
  <2>3. Called(side)
    BY <2>1, <2>2 DEF Called, Method, Points, HasAll
  <2>. QED
    BY <2>3 DEF CallPerlObject
<1>7. /\ side = 0 => \A a \in Address : a \in Half <=> LeftHalf(Top, a)
      /\ side = 1 => \A a \in Address : a \in Half <=> RightHalf(Top, a)
  BY <1>4 DEF RecordNetwork, LeftHalf, RightHalf
<1>. DEFINE rest == {a \in Address : Comes(GoOn(next), a)}
            n == Len(reports) + 1
            N == IF r.type = "node" THEN {} ELSE Half
<1>8. /\ n \in Nat /\ \A a \in Address : Told(a) \in SUBSET (1..n-1)
      /\ \A a \in Address : (Told(a))' = Told(a) \cup {i \in {n} : a \in N}
  <2>. PICK q, m : q = r /\ m = n
    OBVIOUS
  <2>1. /\ m \in Nat /\ \A a : \A i \in Told(a) : i \in 1..m-1
        /\ \A a : (Told(a))' = Told(a) \cup
                    {i \in {m} : q.type # "node" /\ Covers(q.network, q.mask, a)}
    <3>1. reports' = Append(reports, q) /\ m = Len(reports) + 1 /\ IsReports
      BY <1>6 DEF ReceiverInv
    <3>. QED
      BY ONLY <3>1, ReportTells
  <2>2. \A a \in Address : q.type # "node" /\ Covers(q.network, q.mask, a) <=> a \in N
    OBVIOUS
  <2>3. \A a \in Address : {i \in {m} : q.type # "node" /\ Covers(q.network, q.mask, a)}
                             = {i \in {m} : a \in N}
    BY <2>2
  <2>. HIDE DEF N, r
  <2>. QED
    BY <2>1, <2>3
<1>9. \A a \in Address : Ahead(Top, a) <=> a \in N \/ Ahead(f, a)
  <2>1. CASE r.type = "node"
    BY <1>1, <1>3, <1>5, <2>1 DEF Ahead
  <2>2. CASE r.type # "node"
    <3>. HIDE DEF Half, r
    <3>. QED
      BY <1>1, <1>3, <1>5, <1>7, <2>2 DEF Ahead
  <2>. QED
    BY <2>1, <2>2
<1>10. \A a \in N, b \in Address : Ahead(f, b) => Before(a, b)
  <2>1. \A a, b \in Address : LeftHalf(f, a) /\ RightHalf(f, b) => Before(a, b)
    BY <1>3, FrameHalves
  <2>2. CASE side = 0
    BY <1>3, <1>7, <2>1, <2>2 DEF Ahead
  <2>3. CASE side = 1
    BY <1>3, <1>5, <2>3 DEF Ahead
  <2>. QED
    BY <1>2, <2>2, <2>3 DEF Bit
<1>. HIDE DEF r, Half
<1>11. N \in SUBSET Address /\ rest \in SUBSET Address
  BY DEF Half
<1>12. \A a \in Address : Comes(frames, a) <=> a \in N \/ a \in rest
  BY <1>3, <1>9
<1>13. \A a \in N, b \in rest : Before(a, b)
  BY <1>3, <1>9, <1>10, <1>11 DEF Visiting
<1>14. Sorted(GoOn(next))
  BY <1>3, <1>9 DEF Visiting
<1>15. /\ ToldOnce' /\ ToldInOrder'
       /\ \A a \in Address : (Told(a))' = {} <=> a \in rest
  <2>. HIDE DEF N, rest, n
  <2>. QED
    BY <1>8, <1>11, <1>12, <1>13, TellsNext DEF Visiting
<1>16. PICK s : s = GoOn(next)
  OBVIOUS
<1>17. Sorted(s)' /\ \A a \in Address : Comes(s, a)' <=> Comes(s, a)
  BY <1>1, <1>14, <1>16 DEF Sorted, Comes, Ahead, GoesDown, LeftHalf, RightHalf
<1>18. RestComes' /\ Sorted(frames)'
  BY <1>1, <1>15, <1>16, <1>17 DEF RestComes
<1>. QED
  BY <1>15, <1>18 DEF Visiting

\* Steps that tell nothing.
LEMMA VisitingSame ==
  ASSUME Visiting, UNCHANGED <<node, reports>>, Sorted(frames'),
         \A a \in Address : Comes(frames', a) <=> Comes(frames, a)
  PROVE  Visiting'
<1>. PICK s : s = frames'
  OBVIOUS
<1>1. Sorted(s)' /\ \A a \in Address : Comes(s, a)' <=> Comes(s, a)
  BY DEF Sorted, Comes, Ahead, GoesDown, LeftHalf, RightHalf
<1>2. \A a : (Told(a))' = Told(a)
  BY DEF Told
<1>3. RestComes' /\ Sorted(frames)'
  BY <1>1, <1>2 DEF RestComes, Visiting
<1>. QED
  BY <1>2, <1>3 DEF Visiting, ToldOnce, ToldInOrder

\* An iteration that begins has all addresses before it.
LEMMA IterateVisits ==
  ASSUME IterationInv, NEW r, Iterate(r), Methods[r] # {}
  PROVE  Visiting'
<1>. PICK f : f = Frame(Root, Zeros, 0)
  OBVIOUS
<1>1. reports' = <<>> /\ UNCHANGED node /\ frames' = <<f>>
  BY DEF Iterate, heapVars
<1>2. f \in FrameRecord /\ FrameOK(f) /\ f.network = Zeros /\ f.depth = 0 /\ f.next = "left"
  <2>1. HeapInv
    BY DEF IterationInv, TreeInv
  <2>2. f.node = Root /\ f.network = Zeros /\ f.depth = 0 /\ f.next = "left"
    BY DEF Frame
  <2>3. InTree(Zeros, 0) /\ Way(Zeros)[0] = Root
    BY <2>1, RootInTree
  <2>4. f \in FrameRecord
    BY <2>1, <2>3 DEF Frame, FrameRecord, InTree, HeapInv, Root, Stages
  <2>. QED
    BY <2>2, <2>3, <2>4 DEF FrameOK
<1>3. \A a \in Address : Ahead(f, a)
  <2>1. \A a \in Address : Covers(f.network, f.depth, a)
    BY <1>2 DEF Covers
  <2>. QED
    BY <1>2, <2>1, FrameHalves DEF Ahead
<1>4. \A a \in Address : Comes(<<f>>, a)
  BY <1>3 DEF Comes
<1>5. Sorted(<<f>>)
  BY DEF Sorted
<1>6. Sorted(<<f>>)' /\ \A a \in Address : Comes(<<f>>, a)'
  BY <1>1, <1>4, <1>5 DEF Sorted, Comes, Ahead, GoesDown, LeftHalf, RightHalf
<1>7. \A a : (Told(a))' = {}
  BY <1>1 DEF Told
<1>8. Sorted(frames)' /\ RestComes'
  <2>1. (\A a \in Address : Comes(frames, a))' /\ Sorted(frames)'
    BY <1>1, <1>6
  <2>. QED
    BY <1>7, <2>1 DEF RestComes
<1>. QED
  BY <1>7, <1>8 DEF Visiting, ToldOnce, ToldInOrder

LEMMA VisitInvNext == IterationInv /\ ReceiverInv /\ VisitInv /\ [Next]_vars => VisitInv'
<1>. SUFFICES ASSUME IterationInv, ReceiverInv, VisitInv, [Next]_vars PROVE VisitInv'
  OBVIOUS
<1>0. Phases
  BY DEF IterationInv, TreeInv
<1>1. CASE reports' = <<>> /\ op' # "iterate"
  BY <1>1 DEF VisitInv
<1>2. CASE /\ Visiting => Visiting'
           /\ UNCHANGED receiver
           /\ reports' # <<>> \/ op' = "iterate" => reports # <<>> \/ op = "iterate"
  BY <1>2 DEF VisitInv, HasAll
<1>3. CASE BeginInsert \/ BeginAlias \/ CallbackDies
  <2>1. reports' = <<>> /\ op' # "iterate"
    BY <1>3 DEF BeginInsert, BeginAlias, CallbackDies, Forget
  <2>. QED
    BY <1>1, <2>1
<1>4. CASE EndInsert \/ InsertFails \/ EndAlias \/ TreeStep
  <2>1. reports' = reports /\ op \in {"insert", "alias"} /\ op' \in {op, "none"}
    <3>1. TreeStep => Running
      BY DEF TreeStep, HeapStep, MakeNextNode, MergeIntoNode, InsertIntoParent, SetRecord,
             Found
    <3>2. Running => op \in {"insert", "alias"}
      BY <1>0 DEF Phases, Running
    <3>. QED
      BY <1>4, <3>1, <3>2 DEF EndInsert, InsertFails, EndAlias, TreeStep, iterationVars
  <2>2. reports = <<>>
    BY <1>0, <2>1 DEF Phases
  <2>. QED
    BY <1>1, <2>1, <2>2
<1>5. ASSUME NEW r \in Receivers, Iterate(r)
      PROVE  VisitInv'
  <2>1. CASE Methods[r] = {}
    <3>1. reports' = <<>> /\ op' # "iterate"
      BY <1>5, <2>1 DEF Iterate, Idle
    <3>. QED
      BY <1>1, <3>1
  <2>2. CASE Methods[r] # {}
    BY <1>5, <2>2, IterateVisits DEF VisitInv
  <2>. QED
    BY <2>1, <2>2
<1>6. CASE GoLeft \/ GoRight
  <2>1. PICK side, next :
          /\ frames # <<>> /\ op = "iterate" /\ UNCHANGED <<node, op, reports, receiver>>
          /\ Descend(side, next)
          /\ \/ side = 0 /\ Top.next = "left" /\ next = "left_record"
             \/ side = 1 /\ Top.next = "right" /\ next = "done"
    <3>1. CASE GoLeft
      BY <3>1 DEF GoLeft, InFrame, heapVars
    <3>2. CASE GoRight
      BY <3>2 DEF GoRight, InFrame, heapVars
    <3>. QED
      BY <1>6, <3>1, <3>2
  <2>2. ASSUME Visiting PROVE Visiting'
    <3>1. Sorted(frames)
      BY <2>2 DEF Visiting
    <3>2. Sorted(frames') /\ \A a \in Address : Comes(frames', a) <=> Comes(frames, a)
      BY <2>1, <3>1, DescendAhead
    <3>. QED
      BY <2>1, <2>2, <3>2, VisitingSame
  <2>. QED
    BY <1>2, <2>1, <2>2
<1>7. CASE ReportLeft \/ ReportRight
  <2>1. PICK side, stage, next :
          /\ CallPerlObject(side, stage, next)
          /\ \/ side = 0 /\ stage = "left_record" /\ next = "right_record"
             \/ side = 1 /\ stage = "right_record" /\ next = "right"
    BY <1>7 DEF ReportLeft, ReportRight
  <2>2. op = "iterate" /\ UNCHANGED <<op, receiver>>
    BY <2>1 DEF CallPerlObject, InFrame
  <2>3. HasAll /\ Visiting => Visiting'
    BY <2>1, CallbackVisits
  <2>. QED
    BY <2>2, <2>3 DEF VisitInv, HasAll
<1>8. CASE FrameReturns
  <2>1. /\ frames # <<>> /\ Top.next = "done" /\ op = "iterate" /\ frames' = Tail(frames)
        /\ UNCHANGED <<node, op, reports, receiver>>
    BY <1>8 DEF FrameReturns, InFrame, heapVars
  <2>2. ASSUME Visiting PROVE Visiting'
    <3>1. /\ \A a : Comes(frames, a) <=> Ahead(Top, a) \/ Comes(Tail(frames), a)
          /\ Sorted(frames) => Sorted(Tail(frames))
      <4>1. "done" \in Stages
        BY DEF Stages
      <4>. QED
        BY <2>1, <4>1, TopAhead
    <3>2. \A a : ~Ahead(Top, a)
      BY <2>1 DEF Ahead
    <3>3. Sorted(frames') /\ \A a \in Address : Comes(frames', a) <=> Comes(frames, a)
      BY <2>1, <2>2, <3>1, <3>2 DEF Visiting
    <3>. QED
      BY <2>1, <2>2, <3>3, VisitingSame
  <2>. QED
    BY <1>2, <2>1, <2>2
<1>9. CASE IterateReturns \/ UNCHANGED vars
  <2>1. /\ UNCHANGED <<node, frames, reports, receiver>>
        /\ op' = "iterate" => op = "iterate"
    BY <1>9 DEF IterateReturns, vars, heapVars
  <2>2. ASSUME Visiting PROVE Visiting'
    <3>1. Sorted(frames') /\ \A a \in Address : Comes(frames', a) <=> Comes(frames, a)
      BY <2>1, <2>2 DEF Visiting
    <3>. QED
      BY <2>1, <2>2, <3>1, VisitingSame
  <2>. QED
    BY <1>2, <2>1, <2>2
<1>. QED
  BY <1>3, <1>4, <1>5, <1>6, <1>7, <1>8, <1>9 DEF Next

(***************************************************************************)
(* An iteration with a receiver that has all methods tells of every        *)
(* address once, in order, and has told of all when it returns, whatever   *)
(* is aliased and whichever earlier iterations died ("it visits each       *)
(* network in order", Tree.pm).                                            *)
(***************************************************************************)
THEOREM VisitedInOrder == AliasesFit => (Spec => []VisitsInOrder)
<1>. SUFFICES ASSUME AliasesFit PROVE Spec => []VisitsInOrder
  OBVIOUS
<1>1. Init => IterationInv /\ ReceiverInv /\ VisitInv
  <2>. SUFFICES ASSUME Init PROVE IterationInv /\ ReceiverInv /\ VisitInv
    OBVIOUS
  <2>1. reports = <<>> /\ op = "none" /\ reports \in Seq({})
    BY DEF Init
  <2>2. ReceiverInv
    BY <2>1 DEF ReceiverInv, IsReports, ArgsOfReceiver, CallsReceiver
  <2>. QED
    BY <2>1, <2>2, IterationInvInit DEF VisitInv
<1>2. IterationInv /\ ReceiverInv /\ VisitInv /\ [Next]_vars
        => IterationInv' /\ ReceiverInv' /\ VisitInv'
  BY IterationInvNext, ReceiverInvNext, VisitInvNext
<1>3. IterationInv /\ VisitInv => VisitsInOrder
  <2>. SUFFICES ASSUME IterationInv, VisitInv, reports # <<>>, HasAll PROVE
         /\ ToldOnce /\ ToldInOrder
         /\ Idle => \A a \in Address : Told(a) # {}
    BY DEF VisitsInOrder, ToldOnce, ToldInOrder, HasAll
  <2>1. Visiting
    BY DEF VisitInv
  <2>2. ASSUME Idle PROVE \A a \in Address : ~Comes(frames, a)
    <3>1. frames = <<>>
      BY <2>2 DEF IterationInv, TreeInv, Phases, Idle
    <3>. QED
      BY <3>1 DEF Comes
  <2>. QED
    BY <2>1, <2>2 DEF Visiting, RestComes
<1>. QED
  BY <1>1, <1>2, <1>3, PTL DEF Spec
===============================================================================
