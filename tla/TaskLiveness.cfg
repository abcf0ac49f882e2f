SPECIFICATION FairSpec
CONSTANTS
    None = None
    Tasks = {t1}
    Subs = {s1}
    Responders = {r1}
    Clearers = {c1}
    MaxLines = 1
    MaxProgress = 1
    MaxAsks = 1
    QueueMax = 2
    MaxCompleted = 1
CHECK_DEADLOCK FALSE
PROPERTIES
    DoneReachesStream
    CancelLands
