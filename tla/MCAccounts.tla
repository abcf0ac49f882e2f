----------------------------- MODULE MCAccounts -----------------------------
(* Instances of Accounts for TLC; the sets and bounds are in the .cfg files. *)
EXTENDS Accounts, TLC

(* Requests, passwords and codes are interchangeable. *)
Symmetry == Permutations(Requests) \cup Permutations(Passwords) \cup Permutations(Codes)
=============================================================================
