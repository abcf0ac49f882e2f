----------------------------- MODULE MCMeshEngine -----------------------------
(* Instances of MeshEngine for TLC; the sets and bounds are in the .cfg files. *)
EXTENDS MeshEngine

(* Peers are created ready to sync; changes disable them or take the key away. *)
MCKinds == {[enabled |-> TRUE, key |-> "ok"]}
=============================================================================
