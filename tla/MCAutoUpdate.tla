---------------------------- MODULE MCAutoUpdate ----------------------------
(* Two requests on the settings while two polls run on the same table.     *)
(* The versions are v1.1, v1.2 and v1.10.                                  *)
EXTENDS AutoUpdate, TLC

CONSTANTS r1, r2, u1, u2
MCBegins == {<<1, 3>>}
UpdateSymmetry == Permutations({r1, r2}) \cup Permutations({u1, u2})
=============================================================================
