SPECIFICATION Spec
CONSTANTS
    e1 = e1
    Evals = {e1, e2}
    Workers = {w1}
    Schedulers = {s1}
    Releasers = {r1}
    Completers = {c1}
    Size <- SizeMixed
    Capacity <- CapacityTwo
    MaxRetry = 2
    MaxMsgs = 3
    MaxAllocs = 3
SYMMETRY Processes
INVARIANTS AllocsFit
