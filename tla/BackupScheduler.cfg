\* A failing schedule beside a healthy one, and one fault.
SPECIFICATION FairSpec
CONSTANTS
    None = None
    b1 = b1
    b2 = b2
    d1 = d1
    d2 = d2
    Dirs = {d1, d2}
    Schedules = {b1, b2}
    Configs <- MCConfigs
    Faults = {"export", "put", "delete", "db", "halt"}
    MaxFaults = 1
    MaxTime = 3
CHECK_DEADLOCK FALSE
INVARIANTS
    KeptSnapshotsAreStored
    PrunedToLimit
    OneShotSucceedsOnce
    StoreMatchesLedger
    RunsReachAnOutcome
PROPERTIES
    NoSlotSkipped
    DueGetsARun
