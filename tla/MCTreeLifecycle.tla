---------------------------- MODULE MCTreeLifecycle ----------------------------
(***************************************************************************)
(* Instances of TreeLifecycle small enough for TLC.                        *)
(***************************************************************************)
EXTENDS TreeLifecycle

CONSTANTS f                \* a field of the hashes

HashesAndScalars == {[k \in {f} |-> v] : v \in Values} \cup Scalars

\* Three or four bits; the IPv4 network is all but one of them long.  One alias
\* is as deep as it, one shorter; both need a node that inserts have not made.
Bits(b1, b2, b3) == [i \in 1..Width |-> IF i = 1 THEN b1 ELSE IF i = 2 THEN b2
                                        ELSE IF i = Width THEN b3 ELSE 0]
Aliases == << <<Bits(0,1,0), 3>>, <<Bits(1,0,0), 2>> >>
NoAliases == <<>>

Hosts == {<<Bits(0,0,0), Width>>, <<Bits(0,0,1), Width>>}
Networks4 == Hosts \cup {<<Bits(1,0,0), 2>>}
CoveringIpv4 == Networks4 \cup {<<Bits(0,0,0), 2>>}
\* Records of every size are read back as they were encoded, both of a node.
Samples(size) == {v \in 0 .. MaxRecordValue(size) : v % 5 = 0 \/ v = MaxRecordValue(size)}
ASSUME NodeRoundTrip ==
  \A size \in RecordSize : \A left, right \in Samples(size) :
    LET bytes == EncodeNode(size, left, right) IN
    /\ Len(bytes) = NodeBytes(size)
    /\ ReadRecord(size, bytes, 0, 0) = left
    /\ ReadRecord(size, bytes, 0, 1) = right
===============================================================================
