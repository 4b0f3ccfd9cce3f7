SPECIFICATION FairSpec
CONSTANTS
    Tasks = {t1}
    None = None
    Cap = 2
    MaxRuns = 1
    MaxFaults = 1
PROPERTIES HeartbeatsGoOn RoomComesBack ClosedRemoved QueueDrains
CHECK_DEADLOCK FALSE
