\* Two nodes that pull and push at the same time, with failing calls and rows,
\* a vault that is locked, keys that are rotated, and clocks that differ.
SPECIFICATION Spec
CONSTANTS
    n1 = n1
    n2 = n2
    Nodes = {n1, n2}
    Rows = {"user"}
    Blind = {}
    None = None
    Rotations = {1}
    ForeignKeys = TRUE
    Faults = {"net", "row", "vault"}
    MaxSkew = 1
    MaxTime = 3
    MaxWrites = 2
    MaxChanges = 1
    MaxCycles = 2
    MaxKeys = 2
SYMMETRY NodeSymmetry
INVARIANTS ReceivedRowsAreSettled
PROPERTIES NoStaleOverwrite
CHECK_DEADLOCK FALSE
