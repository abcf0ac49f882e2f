--------------------------- MODULE MCSnapshotStore ---------------------------
(* The three sinks with two files for TLC. *)
EXTENDS SnapshotStore

CONSTANTS c1, c2, l1, l2, b1, b2
StoreSymmetry == Permutations({c1, c2}) \cup Permutations({l1, l2}) \cup Permutations({b1, b2})
=============================================================================
