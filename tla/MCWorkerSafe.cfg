SPECIFICATION Spec
CONSTANTS
    Tasks = {t1}
    None = None
    Cap = 1
    MaxRuns = 2
    MaxFaults = 2
INVARIANTS TypeOK OutcomesTrue ContainersKept TasksKept
PROPERTIES ServesActivity
CHECK_DEADLOCK FALSE
