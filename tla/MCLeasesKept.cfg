SPECIFICATION Spec
CONSTANTS
    Worker = Worker
    Datasets = {d1}
    Allocs = {a1}
    Beaters = {b1, b2}
    Releasers = {r1, r2}
    WorkerTTL = 4
    ReplicaTTL = 4
    AllocTTL = 2
    Period = 2
    Latency = 1
    MaxFaults = 1
SYMMETRY Processes
INVARIANTS TypeOK WorkerKept ReplicasKept
PROPERTIES AllocsStayGone
