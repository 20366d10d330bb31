----------------------------- MODULE DataSection -----------------------------
(***************************************************************************)
(* What a serializer promises its callers (Serializer.pm, store_data; its  *)
(* VERIFY mode decodes what was stored and compares): a store that returns *)
(* a position has put the value there, and no later store - not one that   *)
(* fails half-way either - changes what a position stands for.             *)
(***************************************************************************)
EXTENDS TLC

CONSTANTS None             \* no store in progress

VARIABLES
  contents,                \* the value at each position that was returned
  request                  \* the value that is being stored

vars == <<contents, request>>

Init == contents = <<>> /\ request = None

Request == request = None /\ UNCHANGED contents

Return ==
  /\ request # None /\ request' = None
  /\ \E p \in DOMAIN contents' \ DOMAIN contents :
       contents' = (p :> request) @@ contents

Fail == request' = None /\ UNCHANGED contents

Next == Request \/ Return \/ Fail

Spec == Init /\ [][Next]_vars
===============================================================================
