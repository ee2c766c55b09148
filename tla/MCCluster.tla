----------------------------- MODULE MCCluster -----------------------------
(* Small instances of Cluster.                                             *)
EXTENDS Cluster

CONSTANTS A, B, C

OneMember == <<A>>
TwoMembers == <<A, B>>

Empty == [n \in Nodes |-> {}]

(* The nodes were a cluster before: three records on two of them.          *)
Populated == [n \in Nodes |-> IF n = A THEN {1, 3} ELSE IF n = B THEN {2} ELSE {}]
=============================================================================
