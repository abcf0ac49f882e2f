SPECIFICATION Spec
CONSTANTS
    None = None
    Tasks = {t1}
    Subs = {s1}
    Responders = {r1,r2}
    Clearers = {c1}
    MaxLines = 2
    MaxProgress = 0
    MaxAsks = 2
    QueueMax = 2
    MaxCompleted = 0
SYMMETRY Symmetry
CHECK_DEADLOCK FALSE
INVARIANTS
    TypeOK
    StreamContiguous
    WaitingIsWakeable
    AnswersAreGenuine
    LiveIsRegistered
PROPERTIES
    LifecycleSpec
