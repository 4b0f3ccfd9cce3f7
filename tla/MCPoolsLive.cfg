SPECIFICATION FairSpec
CONSTANTS
    w1 = w1
    p1 = p1
    p2 = p2
    Pools = {p1, p2}
    NoPool = none
    Existing = {p1, p2}
    Workers = {w1}
    Replicas = {}
    Of <- ReplicaOfOne
    Allocs = {a1}
    Failing = {p2}
    Scans = {h1}
    Releasers = {r1}
    MaxFaults = 0
PROPERTIES ComesToRest
