----------------------------- MODULE MCPrefixTree -----------------------------
(***************************************************************************)
(* Instances of PrefixTree small enough for TLC.                           *)
(***************************************************************************)
EXTENDS PrefixTree

CONSTANTS f, g             \* fields of the hashes

\* All networks but the whole address space.
AllNetworks == {net \in Network : net[2] > 0}

\* The lower half of the space in all its pieces, the upper half in pieces of
\* at most "mask" bits: prunings and merges of every height happen in the lower
\* half, beside every kind of record in the upper one.
LowerHalfAnd(mask) == {net \in AllNetworks : net[1][1] = 0 \/ net[2] <= mask}
UpperHalves == LowerHalfAnd(1)
UpperQuarters == LowerHalfAnd(2)

\* Hashes that add a field, or conflict on one.
HashF == [k \in {f} |-> 1]
HashFG == [k \in {f, g} |-> 2]
Hashes == {HashF, HashFG}
HashAndScalars == {HashF} \cup Scalars
===============================================================================
