--------------------------- MODULE MCBackupBundles ---------------------------
(* Instances of BackupBundles for TLC. *)
EXTENDS BackupBundles, TLC

CONSTANTS tr, ua, ub, uc, ur, sg, it, iu, fa, fb, fd, al, ten, e1, r1, k1, k2

(* One tenant; a user with a role, who has another primary key elsewhere, *)
(* and a user to be made; a global setting that is a secret; an item and   *)
(* one to be made; a file, a name to rename it to and one to be uploaded;  *)
(* an audit entry.                                                         *)
MCTable  == tr :> "tenants" @@ ua :> "users" @@ ub :> "users" @@ uc :> "users" @@ ur :> "user_tenant_roles" 
            @@ sg :> "settings" @@ it :> "items" @@ iu :> "items" @@ fa :> "files" @@ fb :> "files"
            @@ fd :> "files" @@ al :> "audit_log"
MCOwner  == tr :> None @@ ua :> None @@ ub :> None @@ uc :> None @@ ur :> None @@ sg :> None
            @@ it :> ten @@ iu :> ten @@ fa :> ten @@ fb :> None @@ fd :> ten @@ al :> None
MCName   == tr :> 1 @@ ua :> 2 @@ ub :> 2 @@ uc :> 12 @@ ur :> 4 @@ sg :> 3
            @@ it :> 5 @@ iu :> 9 @@ fa :> 6 @@ fb :> 7 @@ fd :> 11 @@ al :> 8
MCTenants == ten :> tr
MCRows    == DOMAIN MCTable
(* A bundle made elsewhere, where the user has another primary key, one of *)
(* a later release, and one of the tenant.                                 *)
MCForeign ==
    {[scope |-> [kind |-> "platform", tenant |-> None], version |-> v, key |-> None,
      data |-> [c \in {"tenants", "users"} |-> IF c = "users" THEN ub :> 2 @@ ur :> 2 ELSE tr :> 2]]
        : v \in {1, 2}}
    \cup {[scope |-> [kind |-> "tenant", tenant |-> ten], version |-> 1, key |-> None,
           data |-> [c \in {"items", "files"} |-> IF c = "items" THEN it :> 2 ELSE fa :> 2]]}
MCInitially == [r \in MCRows |-> IF r \in {ub, uc, iu, fb, fd, al} THEN 0 ELSE 1]
(* Passphrases are only compared. *)
KeySymmetry == Permutations({k1, k2})
=============================================================================
