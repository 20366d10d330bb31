------------------------------ MODULE MCTreeHeap ------------------------------
(***************************************************************************)
(* Instances of TreeHeap small enough for TLC.                             *)
(***************************************************************************)
EXTENDS TreeHeap

CONSTANTS f, g             \* fields of the hashes

Hashes == {[k \in {f} |-> 1], [k \in {f, g} |-> 2]}
HashesAndScalars == Hashes \cup Scalars

\* A chain of networks, and the neighbour of each but the widest.
Zeros == [i \in 1..Width |-> 0]
Chain == {<<Zeros, mask>> : mask \in 1..Width}
ChainAndNeighbours == Chain \cup {<<SetBit(Zeros, net[2]), net[2]>> : net \in Chain \ {<<Zeros, 1>>}}

NoAliases == <<>>

\* Four bits; IPv4 below 00 (as below ::/96 in the code).  One alias as deep as
\* the IPv4 network (::ffff:0:0/96), one shorter (2001::/32 and 2002::/16), where
\* the bits after an IPv4 address mean nothing.
Bits(b1, b2, b3, b4) == <<b1, b2, b3, b4>>
Aliases == << <<Bits(0,1,0,0), 2>>, <<Bits(1,0,0,0), 1>> >>
Ipv4Networks == {<<Bits(0,0,0,0), 4>>, <<Bits(0,0,0,1), 4>>, <<Bits(0,0,1,0), 3>>,
                 <<Bits(0,0,0,0), 2>>}
MappedNetworks == {<<Bits(0,1,0,0), 4>>, <<Bits(0,1,0,0), 3>>, <<Bits(1,1,0,0), 3>>}
TunnelHosts == {<<Bits(1,0,0,0), 4>>}
Ipv4AndMapped == Ipv4Networks \cup MappedNetworks
AndTunnelHosts == Ipv4AndMapped \cup TunnelHosts
===============================================================================
