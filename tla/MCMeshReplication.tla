------------------------- MODULE MCMeshReplication -------------------------
(* Two installations for TLC. *)
EXTENDS MeshReplication

CONSTANTS n1, n2
NodeSymmetry == Permutations({n1, n2})
=============================================================================
