------------------------------ MODULE MCPools ------------------------------
(* Instances of Pools for TLC, and what is expected of releases that does  *)
(* not hold.                                                               *)
EXTENDS Pools

CONSTANT w1

ReplicaOfOne == [r \in Replicas |-> w1]

\* A worker whose row is there gets its queue back, or loses the row: the list
\* of workers that are released is worked off, and a round follows another
\* (releaseWorkers).
NoneUnservedForEver == \A w \in Workers : w \in rows \ wqueues ~> w \notin rows \ wqueues
=============================================================================
