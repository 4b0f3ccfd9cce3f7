SPECIFICATION Spec
CONSTANTS
    e1 = e1
    e2 = e2
    w1 = w1
    w2 = w2
    Evals = {e1}
    Workers = {w1}
    Schedulers = {s1, s2}
    Releasers = {r1}
    Completers = {c1}
    Size <- SizeMixed
    Capacity <- CapacityTwo
    MaxRetry = 2
    MaxMsgs = 2
    MaxAllocs = 2
SYMMETRY Processes
INVARIANTS TypeOK RetryBound EveryTryMade EvalNeverLost HandedOver
