SPECIFICATION Spec
CONSTANTS
    e1 = e1
    Evals = {e1}
    Workers = {w1}
    Schedulers = {s1, s2}
    Releasers = {r1, r2}
    Completers = {c1}
    Size <- SizeMixed
    Capacity <- CapacityOne
    MaxRetry = 1
    MaxMsgs = 2
    MaxAllocs = 2
SYMMETRY Processes
INVARIANTS Provenance NoOverclaim CapacityAccounted
PROPERTIES KeepsLedger NoResurrection
