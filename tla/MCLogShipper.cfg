SPECIFICATION FairSpec
CONSTANTS
    Lines = 5
    LongAt = {4}
    BufSize = 2
    MaxFaults = 2
INVARIANTS TypeOK ShippedInOrder WholeUnlessFailed
PROPERTIES  LogRead
CHECK_DEADLOCK FALSE
