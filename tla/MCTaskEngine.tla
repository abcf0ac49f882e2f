---------------------------- MODULE MCTaskEngine ----------------------------
(* Instances of TaskEngine for TLC; the sets and bounds are in the .cfg files. *)
EXTENDS TaskEngine, TLC

(* Connections, and requests of one kind, are interchangeable. *)
Symmetry == Permutations(Subs) \cup Permutations(Responders) \cup Permutations(Clearers)

(* Tasks too. *)
TaskSymmetry == Permutations(Tasks) \cup Symmetry
=============================================================================
