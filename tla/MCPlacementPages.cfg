SPECIFICATION Spec
CONSTANTS
    e1 = e1
    d1 = d1
    d2 = d2
    w1 = w1
    w2 = w2
    w3 = w3
    Evals = {e1}
    Workers = {w1, w2, w3}
    Schedulers = {s1}
    Datasets = {d1, d2}
    NoDataset = none
    Size <- SizeUneven
    Dataset <- DatasetOne
    Offer <- OfferUneven
    Reports <- ReportsOfTwo
    Prefixes <- OnePrefix
    WorkerLimit = 2
    ReplicaLimit = 1
    MaxRenewals = 0
    MaxFaults = 1
INVARIANT TypeOK
PROPERTIES NoneIsHidden EvalsSpread ReplicasLocated
