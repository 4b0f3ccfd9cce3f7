SPECIFICATION FairSpec
CONSTANTS
    Worker = Worker
    Datasets = {d1}
    Allocs = {a1}
    Beaters = {b1}
    Releasers = {r1}
    WorkerTTL = 2
    ReplicaTTL = 1
    AllocTTL = 1
    Period = 1
    Latency = 1
    MaxFaults = 2
PROPERTIES EverythingReleased
