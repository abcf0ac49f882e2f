\* Two clones of one remote, two sinks in the first of them.
SPECIFICATION Spec
CONSTANTS
    k1 = k1
    k2 = k2
    s1 = s1
    s2 = s2
    s3 = s3
    b1 = b1
    b2 = b2
    Clones = {k1, k2}
    Sinks = {s1, s2, s3}
    CloneOf <- MCCloneOf
    Blobs = {b1, b2}
    None = None
    Lfs = TRUE
    Faults = {"net", "git", "crash"}
    MaxOps = 4
SYMMETRY GitSymmetry
INVARIANTS AckedIsKept SilentPutsArePushed PushesCatchUp
CHECK_DEADLOCK FALSE
