SPECIFICATION FairSpec
CONSTANTS
    e1 = e1
    d1 = d1
    d2 = d2
    w1 = w1
    w2 = w2
    Evals = {e1}
    Workers = {w1, w2}
    Schedulers = {s1, s2}
    Datasets = {}
    NoDataset = none
    Size <- SizeUneven
    Dataset <- DatasetNone
    Offer <- OfferUneven
    Reports <- ReportsNone
    Prefixes <- OnePrefix
    WorkerLimit = 1
    ReplicaLimit = 1
    MaxRenewals = 1
    MaxFaults = 1
PROPERTY EvalsPlaced
