---------------------------- MODULE MCTreeIteration ----------------------------
(***************************************************************************)
(* Instances of TreeIteration small enough for TLC.                        *)
(***************************************************************************)
EXTENDS TreeIteration

CONSTANTS
  f,                       \* a field of the hashes
  all, onlyData, nothing

HashAndScalars == {[k \in {f} |-> v] : v \in Values} \cup Scalars

Objects == {all, onlyData, nothing}
ObjectMethods == [r \in Objects |-> CASE r = all -> {"empty", "node", "data"}
                                      [] r = onlyData -> {"data"}
                                      [] r = nothing -> {}]

\* Four bits; IPv4 below 00.  One alias as deep, one shorter.
Bits(b1, b2, b3, b4) == <<b1, b2, b3, b4>>
Aliases == << <<Bits(0,1,0,0), 2>>, <<Bits(1,0,0,0), 1>> >>
\* An insert of one meets what was inserted for another, in a record or below it;
\* the last two are where the aliases will be.
Nested == {<<Bits(0,0,0,1), 4>>, <<Bits(0,0,1,0), 3>>, <<Bits(0,0,0,0), 2>>,
           <<Bits(0,1,0,0), 2>>, <<Bits(1,0,0,0), 2>>}
===============================================================================
