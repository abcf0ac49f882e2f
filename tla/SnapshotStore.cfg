\* Each of the three sinks, with failing and dying clients.
SPECIFICATION StoreSpec
CONSTANTS
    c1 = c1
    c2 = c2
    l1 = l1
    l2 = l2
    b1 = b1
    b2 = b2
    Clients = {c1, c2}
    Locators = {l1, l2}
    Blobs = {b1, b2}
    Nothing = Nothing
    Sinks = {"disk", "node", "store"}
    StoreFaults = {"fail", "crash"}
    MaxOps = 4
SYMMETRY StoreSymmetry
INVARIANTS ListedSnapshotsAreWhole RecordedSnapshotsStay
CHECK_DEADLOCK FALSE
