------------------------------ MODULE MCLeases ------------------------------
(* Instances of Leases for TLC, and what the code's comments say that does *)
(* not hold.                                                               *)
EXTENDS Leases, TLC

Processes == Permutations(Beaters) \cup Permutations(Releasers) \cup Permutations(Allocs)

\* "updates ttls of various entities under the workers responsibility"
\* (client.go:123): an alloc that the worker reports in heartbeats that come in
\* time, and whose TTL has been moved once, does not expire while it has a row.
ReportedAllocsRenewed ==
    renewing /\ faults = 0 /\ Ample(AllocTTL)
        => \A a \in renewed \cap running \cap DOMAIN leases : leases[a] >= 0

\* "queries a pool's expired allocations, replicas and workers"
\* (handle_release.go:236): what is released has expired.
OnlyExpiredReleased ==
    [][\A r \in Releasers : rel[r].pc # "idle" /\ rel'[r].pc = rel[r].pc =>
          \A x \in (rel[r].todo \ rel'[r].todo) \cap DOMAIN leases :
              x \in DOMAIN leases' \/ leases[x] < 0]_vars
=============================================================================
