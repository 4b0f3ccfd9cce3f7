SPECIFICATION Spec
CONSTANTS
    w1 = w1
    p1 = p1
    p2 = p2
    Pools = {p1, p2}
    NoPool = none
    Existing = {p2}
    Workers = {w1}
    Replicas = {d1}
    Of <- ReplicaOfOne
    Allocs = {a1}
    Failing = {}
    Scans = {h1}
    Releasers = {r1}
    MaxFaults = 1
INVARIANTS TypeOK PoolQueuesHaveRows QueuesHaveRows RowsHaveQueues
PROPERTIES QuietStays
