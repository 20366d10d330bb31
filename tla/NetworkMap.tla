------------------------------ MODULE NetworkMap ------------------------------
(***************************************************************************)
(* What a tree promises its callers (Tree.pm, insert_network and           *)
(* merge_record_collisions): a map from addresses to payloads.  An insert  *)
(* gives every address of the network the new payload - merged with the    *)
(* old one if the tree merges collisions - and leaves the others alone.    *)
(*                                                                         *)
(* An insert is not atomic: it may fail half-way.  What it wants is fixed  *)
(* when it is called (target); addresses then get their target in numeric  *)
(* order, so an insert that fails has been applied to exactly the addresses*)
(* below the first one where old and new payload cannot be merged.         *)
(***************************************************************************)
EXTENDS Networks, Payloads

CONSTANTS
  MergeRecordCollisions,   \* the tree's option
  Inputs,                  \* payloads that callers insert
  Insertable               \* networks that callers insert

VARIABLES
  db,                      \* the payload of each address
  target                   \* the payload the insert in progress wants it to have

vars == <<db, target>>

TypeOK == /\ db \in [Address -> Data \cup {Empty}]
          /\ target \in [Address -> Data \cup {Empty, Clash}]

Idle == target = db

\* What an address that has old gets when new is inserted.
Combine(merge, old, new) ==
  IF ~merge \/ old = Empty THEN new
  ELSE IF Mergeable(old, new) THEN Merged(old, new)
  ELSE Clash

Init == /\ db = [a \in Address |-> Empty]
        /\ target = db

Insert(bytes, mask, new) ==
  /\ Idle
  /\ target' = [a \in Address |-> IF Covers(bytes, mask, a)
                                  THEN Combine(MergeRecordCollisions, db[a], new)
                                  ELSE db[a]]
  /\ UNCHANGED db

\* Some addresses get their target; an address may only change when all those
\* before it have theirs.
Apply ==
  /\ \A a \in Address :
       /\ db'[a] \in {db[a], target[a]} \ {Clash}
       /\ db'[a] # db[a] => \A b \in Address : Before(b, a) => db'[b] = target[b]
  /\ UNCHANGED target

\* The insert fails at the first address whose payloads cannot be merged.
Fail ==
  /\ \E a \in Address :
       /\ target[a] = Clash
       /\ \A b \in Address : Before(b, a) => db[b] = target[b]
  /\ target' = db
  /\ UNCHANGED db

Next == \/ \E net \in Insertable, new \in Inputs : Insert(net[1], net[2], new)
        \/ Apply
        \/ Fail

Spec == Init /\ [][Next]_vars
===============================================================================
