SPECIFICATION FairSpec
CONSTANTS
    Peers = {p1, p2}
    Admins = {1, 2}
    Slots = 1
    MaxBackoff = 1
    Faults = {"pull", "push", "db"}
    Kinds <- MCKinds
    MaxGen = 2
    MaxChanges = 2
    MaxKicks = 1
CHECK_DEADLOCK FALSE
INVARIANTS TypeOK LoopsAreRegistered SlotsAreConserved SettledPeersHaveTasks
PROPERTIES EnabledPeersKeepSyncing
