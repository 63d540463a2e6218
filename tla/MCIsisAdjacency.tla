--------------------------- MODULE MCIsisAdjacency ---------------------------
(* Instances of IsisAdjacency for TLC. *)
EXTENDS IsisAdjacency, TLC

\* Every neighbour is heard on every interface: parallel links when there is
\* one neighbour, LANs when there are more.
AllLinks == Intfs \X Nbrs

\* Each interface has a subnet of its own, which stands for the one address of
\* its neighbour.
SubnetNets == [a \in AllLinks |-> {a[1]}]

\* Each neighbour has an address of its own, and there is one that any may take
\* over and that the data plane sends to.
SharedIps == Nbrs \cup {"shared"}
SharedNets == [a \in AllLinks |-> {a[2], "shared"}]
SharedResolving == {"shared"}

\* One address for all.
OneNet == [a \in AllLinks |-> Ips]

Symmetry == Permutations(Intfs) \cup Permutations(Nbrs)
==============================================================================
