------------------------------- MODULE Numbering -------------------------------
(***************************************************************************)
(* The numbers of the nodes (c/tree.c, finalize_tree and the iteration that*)
(* assigns them).  They are kept until an insert returns.                  *)
(***************************************************************************)
EXTENDS TreeHeap, SequencesExt

CONSTANT NoCount

VARIABLES
  number,                  \* the number of each node
  is_finalized,
  node_count               \* the C field

numbering == <<number, is_finalized, node_count>>

\* start_iteration with depth_first false: a node, then what is below its left
\* and its right record.  Aliases are not followed.
Preorder ==
  LET Below(visit, r) == IF r.type = "node" THEN visit[r.value] ELSE <<>>
      visit[i \in 1..Len(node)] ==
        <<i>> \o Below(visit, node[i][0]) \o Below(visit, node[i][1])
  IN visit[Root]

\* assign_node_numbers.
Numbered == [i \in 1..Len(node) |->
               IF i \in ToSet(Preorder)
               THEN (CHOOSE k \in 1..Len(Preorder) : Preorder[k] = i) - 1
               ELSE number[i]]

\* finalize_tree: a finalized tree keeps its numbers and its count.
FinalNumber == IF is_finalized THEN number ELSE Numbered
FinalCount == IF is_finalized THEN node_count ELSE Len(Preorder)

Finalize == /\ number' = FinalNumber
            /\ node_count' = FinalCount
            /\ is_finalized' = TRUE

NumberingInit == /\ number = <<0>>
                 /\ is_finalized = FALSE
                 /\ node_count = NoCount

\* insert_resolved_network: only an insert that returns resets is_finalized.
KeepsNumbers == UNCHANGED is_finalized                               \* mistake
Unfinalize == is_finalized' = FALSE

\* A step of an insert or of aliasing; new_node gives a node the number 0.
HeapStep ==
  /\ MakeNextNode \/ MergeIntoNode \/ InsertIntoParent \/ SetRecord
  /\ number' = [i \in 1..Len(node') |-> IF i \in DOMAIN number THEN number[i] ELSE 0]
  /\ UNCHANGED <<is_finalized, node_count>>

HasAliases == \E i \in 1..Len(node), b \in Bit : node[i][b].type = "alias"
===============================================================================
