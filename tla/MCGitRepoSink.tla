---------------------------- MODULE MCGitRepoSink ----------------------------
(* Two clones; in the first a schedule and a request run at the same time. *)
EXTENDS GitRepoSink

CONSTANTS k1, k2, s1, s2, s3, b1, b2
MCCloneOf == (s1 :> k1) @@ (s2 :> k1) @@ (s3 :> k2)
GitSymmetry == Permutations({s1, s2}) \cup Permutations({b1, b2})
=============================================================================
