------------------------------ MODULE Accounts ------------------------------
(***************************************************************************)
(* User accounts: password login with its lockout, session versions,       *)
(* one-time codes, and the administration of users, as requests that each  *)
(* take several database transactions and interleave between them.         *)
(*                                                                         *)
(* A user is identified by the email, which is unique.  A request that     *)
(* reads a row and writes it later keeps what it read in req[r].row: the   *)
(* transactions run at READ COMMITTED and lock nothing.  Requests that are *)
(* refused without having written anything leave no trace and are left     *)
(* out.  Time is kept as the age of attempts and tokens, in steps of five  *)
(* minutes, and stops counting where the code stops looking.               *)
(***************************************************************************)
EXTENDS Integers, Sequences, FiniteSetsExt

CONSTANTS Emails,         \* addresses that may get an account
          AdminEmail,     \* settings.admin_email
          Passwords,      \* passwords users choose and clients try
          Sentinel,       \* password of accounts made for an identity provider
          Codes,          \* the backup codes of one issue
          Requests,       \* requests that can be under way at the same time
          None,
          Providers,      \* is an identity provider's header trusted?
          Faults,         \* "record": an attempt may fail to be recorded
          MaxFailed,      \* _MAX_FAILED_ATTEMPTS
          Window,         \* _LOCKOUT_WINDOW_MINUTES
          Duration,       \* _LOCKOUT_DURATION_MINUTES
          TokenLife,      \* session_timeout_minutes and the token's expiry
          PartialLife,    \* _TOTP_PARTIAL_TOKEN_MINUTES
          MaxRequests     \* bound: requests begun

ASSUME AccountsAssumption ==
    /\ MaxFailed \in Nat \ {0} /\ Window \in Nat /\ Duration \in Nat
    /\ TokenLife \in Nat /\ PartialLife \in Nat
    /\ MaxRequests \in Nat
    /\ Sentinel \notin Passwords /\ None \notin Passwords \cup Codes \cup {Sentinel}
    /\ IsFiniteSet(Requests) /\ Providers \in BOOLEAN

VARIABLES user,       \* table users with user_tenant_roles
          attempts,   \* table login_attempts, per address, oldest first
          tokens,     \* JWTs handed out
          req,        \* what each request has read and does next
          begun,      \* requests begun so far
          revoked,    \* history: revocations (password or deactivation) per user
          used,       \* history: backup codes accepted since they were issued
          clash       \* history: users two of whose updates have overlapped
db   == <<user, attempts, tokens>>
vars == <<user, attempts, tokens, req, begun, revoked, used, clash>>

(* Roles within the tenant whose users are administered (ROLE_HIERARCHY):  *)
(* none, viewer, analyst, admin; an analyst manages users no more than a   *)
(* viewer does and is left out.                                            *)
Roles == {0, 1, 3}
NoUser == [exists |-> FALSE, active |-> TRUE, super |-> FALSE, pw |-> None,
           sv |-> 0, totp |-> FALSE, codes |-> {}, role |-> 0]
Idle   == [at |-> "idle", e |-> None, arg |-> None, row |-> NoUser, born |-> 0]

(* No step distinguishes ages beyond these. *)
AttemptAge == Window + 1
TokenAge   == Max({TokenLife, PartialLife}) + 1

-----------------------------------------------------------------------------
(* Tokens. *)

(* create_access_token.  born is history: how many revocations the row the *)
(* token was made from had seen.                                           *)
Token(e, sv, pending, born) ==
    [e |-> e, sv |-> sv, pending |-> pending, born |-> born, age |-> 0]

(* _resolve_jwt_user: no partial token, no token older than the session    *)
(* timeout, an active user, and a session version that is not outdated.    *)
Accepted(t) == /\ ~t.pending
               /\ t.age <= TokenLife
               /\ user[t.e].exists /\ user[t.e].active
               /\ t.sv >= user[t.e].sv

(* Someone whom get_current_user resolves to e: the header of a trusted    *)
(* provider comes before cookies and bearer tokens.                        *)
Caller(e) == \/ Providers /\ user[e].exists
             \/ \E t \in tokens : t.e = e /\ Accepted(t)

(* require_role for the tenant. *)
HasRole(e, minimum) == user[e].super \/ user[e].role >= minimum

-----------------------------------------------------------------------------
(* Lockout. *)

(* The rows within the window. *)
RecentAttempts(e) == {i \in DOMAIN attempts[e] : attempts[e][i].age <= Window}

(* The failures since the last success among them. *)
ConsecutiveFailures(e) ==
    {i \in RecentAttempts(e) : \A j \in RecentAttempts(e) : i <= j => ~attempts[e][j].ok}

(* Slip: the limit itself is still let through. *)
SlipLocked(e) == Cardinality(ConsecutiveFailures(e)) > MaxFailed

(* check_lockout: enough failures, and the newest attempt is not too old. *)
Locked(e) == /\ Cardinality(ConsecutiveFailures(e)) >= MaxFailed
             /\ \E i \in RecentAttempts(e) : /\ \A j \in RecentAttempts(e) : j <= i
                                              /\ attempts[e][i].age <= Duration

(* A row of login_attempts.  tested is history: whether a password was     *)
(* compared.                                                               *)
Attempt(ok, tested) == [ok |-> ok, age |-> 0, tested |-> tested]

(* record_login_attempt, which swallows its own failure. *)
RecordAttempt(e, ok, tested) ==
    \/ attempts' = [attempts EXCEPT ![e] =
                       Append(@, Attempt(ok, tested))]
    \/ "record" \in Faults /\ UNCHANGED attempts

-----------------------------------------------------------------------------
(* Login: five transactions. *)

Becomes(r, at) == req' = [req EXCEPT ![r].at = at]
Done(r)        == req' = [req EXCEPT ![r] = Idle]
Start(r, at, e, arg, row, born) ==
    /\ req[r].at = "idle"
    /\ req' = [req EXCEPT ![r] = [at |-> at, e |-> e, arg |-> arg, row |-> row, born |-> born]]
NewRequest == begun < MaxRequests /\ begun' = begun + 1
NoHistory  == UNCHANGED <<revoked, used, clash>>

LoginChecksLockout(r, e, p) ==
    /\ NewRequest
    /\ Start(r, IF Locked(e) THEN "locked" ELSE "creds", e, p, NoUser, 0)
    /\ UNCHANGED db /\ NoHistory

LoginComparesPassword(r) ==
    LET e == req[r].e IN
    /\ req[r].at = "creds"
    /\ Becomes(r, IF user[e].exists /\ user[e].pw = req[r].arg THEN "load" ELSE "wrong")
    /\ UNCHANGED <<db, begun>> /\ NoHistory

LoginLoadsUser(r) ==
    LET e == req[r].e IN
    /\ req[r].at = "load"
    /\ req' = [req EXCEPT ![r].at = IF user[e].active THEN "grant" ELSE "wrong",
                          ![r].row = user[e], ![r].born = revoked[e]]
    /\ UNCHANGED <<db, begun>> /\ NoHistory

LoginIsRefused(r) ==
    /\ req[r].at \in {"locked", "wrong"}
    /\ RecordAttempt(req[r].e, FALSE, req[r].at = "wrong")
    /\ Done(r)
    /\ UNCHANGED <<user, tokens, begun>> /\ NoHistory

(* The token carries the session version of the row read before; with      *)
(* two-factor authentication it is only a partial one.                     *)
LoginIsGranted(r) ==
    LET q == req[r] IN
    /\ q.at = "grant"
    /\ RecordAttempt(q.e, TRUE, TRUE)
    /\ tokens' = tokens \cup {Token(q.e, q.row.sv, q.row.totp, q.born)}
    /\ Done(r)
    /\ UNCHANGED <<user, begun>> /\ NoHistory

-----------------------------------------------------------------------------
(* Two-factor authentication. *)

(* Requests of e that have read the row and will write it.                 *)
Updating(e) == {r \in Requests : req[r].e = e /\
                                 req[r].at \in {"update", "passwd", "consume", "disable"}}
Overlaps(e) == clash' = IF Updating(e) # {} THEN clash \cup {e} ELSE clash

(* set_totp and clear_totp: what they do to the row. *)
WithTotp(row, codes) == [row EXCEPT !.totp = TRUE, !.codes = codes]
WithoutTotp(row)     == [row EXCEPT !.totp = FALSE, !.codes = {}]

(* enable_totp: the secret is confirmed with a code of the authenticator   *)
(* and stored with freshly made backup codes.                              *)
EnableTotp(r, e) ==
    /\ NewRequest /\ req[r].at = "idle" /\ Caller(e)
    /\ user' = [user EXCEPT ![e] = WithTotp(@, Codes)]
    /\ used' = [used EXCEPT ![e] = {}]
    /\ Overlaps(e)
    /\ UNCHANGED <<attempts, tokens, req, revoked>>

(* What a successful verification is for: a full token (totp_verify) or    *)
(* switching two-factor authentication off (totp_disable).                 *)
AuthorizedVerify(e, goal) ==
    \/ goal = "token" /\ \E t \in tokens : t.e = e /\ t.pending /\ t.age <= PartialLife
    \/ goal = "disable" /\ Caller(e)

(* The token of totp_verify is made without a session version. *)
IssueVerifiedToken(e) == tokens' = tokens \cup {Token(e, 0, FALSE, revoked[e])}

(* verify_totp with a code of the authenticator: nothing is consumed. *)
VerifyByAuthenticator(r, e, goal) ==
    /\ NewRequest /\ AuthorizedVerify(e, goal)
    /\ user[e].exists /\ user[e].totp
    /\ \/ goal = "token" /\ req[r].at = "idle" /\ IssueVerifiedToken(e)
          /\ UNCHANGED <<req, clash>>
       \/ goal = "disable" /\ Start(r, "disable", e, None, user[e], 0)
          /\ Overlaps(e) /\ UNCHANGED tokens
    /\ UNCHANGED <<user, attempts, revoked, used>>

(* verify_totp with a backup code: the list is read here ...               *)
VerifyByBackupCode(r, e, goal, code) ==
    /\ NewRequest /\ AuthorizedVerify(e, goal)
    /\ user[e].exists /\ user[e].totp /\ code \in user[e].codes
    /\ Start(r, "consume", e, <<goal, code>>, user[e], 0)
    /\ Overlaps(e)
    /\ UNCHANGED <<db, revoked, used>>

(* Slip: the code is accepted and stays in the list. *)
SlipConsumeBackupCode(r) ==
    LET q == req[r] IN
    /\ q.at = "consume"
    /\ used' = [used EXCEPT ![q.e] = @ \cup {q.arg[2]}]
    /\ Done(r)
    /\ UNCHANGED <<db, begun, revoked, clash>>

(* ... and consume_backup_code writes back what is left of it. *)
ConsumeBackupCode(r) ==
    LET q == req[r] goal == q.arg[1] code == q.arg[2] IN
    /\ q.at = "consume"
    /\ user' = [user EXCEPT ![q.e].codes = q.row.codes \ {code}]
    /\ used' = [used EXCEPT ![q.e] = @ \cup {code}]
    /\ IF goal = "token" THEN IssueVerifiedToken(q.e) /\ Done(r)
                         ELSE Becomes(r, "disable") /\ UNCHANGED tokens
    /\ UNCHANGED <<attempts, begun, revoked, clash>>

DisableTotp(r) ==
    LET q == req[r] IN
    /\ q.at = "disable"
    /\ user' = [user EXCEPT ![q.e] = WithoutTotp(@)]
    /\ Done(r)
    /\ UNCHANGED <<attempts, tokens, begun, revoked, used, clash>>

-----------------------------------------------------------------------------
(* Administration of users. *)

Insert(e, row) == IF user[e].exists THEN UNCHANGED user
                  ELSE user' = [user EXCEPT ![e] = row]
NewUser(p)     == [NoUser EXCEPT !.exists = TRUE, !.pw = p]

(* initial_setup: counts the users ... *)
SetupCounts(r, e, p) ==
    /\ NewRequest
    /\ \A x \in Emails : ~user[x].exists
    /\ Start(r, "setup", e, p, NoUser, 0)
    /\ UNCHANGED db /\ NoHistory

(* ... and creates the superadmin.  The look-up of create_superadmin and   *)
(* the unique index refuse an address that is taken.                       *)
SetupCreates(r) ==
    /\ req[r].at = "setup"
    /\ Insert(req[r].e, [NewUser(req[r].arg) EXCEPT !.super = TRUE])
    /\ Done(r)
    /\ UNCHANGED <<attempts, tokens, begun>> /\ NoHistory

(* create_for_tenant: user and role in one transaction. *)
CreateForTenant(r, by, e, p, role) ==
    /\ NewRequest /\ req[r].at = "idle"
    /\ Caller(by) /\ HasRole(by, 3)
    /\ Insert(e, [NewUser(p) EXCEPT !.role = role])
    /\ UNCHANGED <<attempts, tokens, req>> /\ NoHistory

(* create_external_user and promote_to_superadmin. *)
Provisioned(row) == IF row.exists THEN row ELSE NewUser(Sentinel)
Promoted(e, row) == [row EXCEPT !.super = @ \/ e = AdminEmail]

(* _resolve_external_user: provisions an unknown address, and promotes the *)
(* administrator's.                                                        *)
ResolveExternal(r, e) ==
    /\ Providers /\ req[r].at = "idle" /\ NewRequest
    /\ user' = [user EXCEPT ![e] = Promoted(e, Provisioned(@))]
    /\ UNCHANGED <<attempts, tokens, req>> /\ NoHistory

(* What an administrator changes: deactivate_for_tenant, or the body of    *)
(* update_user with is_active or a role.                                   *)
Deactivation == <<"active", FALSE>>
Changes == {Deactivation, <<"active", TRUE>>} \cup {<<"role", n>> : n \in Roles \ {0}}

(* update_for_tenant reads the row ... *)
UpdateReads(r, by, e, change) ==
    /\ NewRequest
    /\ Caller(by) /\ HasRole(by, 3) /\ user[e].exists
    /\ Start(r, "update", e, change, user[e], 0)
    /\ Overlaps(e)
    /\ UNCHANGED <<db, revoked, used>>

(* ... and writes the columns that differ from the row read; deactivation  *)
(* also writes the next session version.                                   *)
UpdateCommits(r) ==
    LET q == req[r] field == q.arg[1] val == q.arg[2]
        off == q.arg = Deactivation
    IN
    /\ q.at = "update"
    /\ user' = [user EXCEPT
          ![q.e].active = IF field = "active" /\ q.row.active # val THEN val ELSE @,
          ![q.e].role   = IF field = "role" THEN val ELSE @,
          ![q.e].sv     = IF off THEN q.row.sv + 1 ELSE @]
    /\ revoked' = IF off THEN [revoked EXCEPT ![q.e] = @ + 1] ELSE revoked
    /\ Done(r)
    /\ UNCHANGED <<attempts, tokens, begun, used, clash>>

(* change_password: compares the current password with the row ...         *)
PasswordReads(r, e, new) ==
    /\ NewRequest /\ Caller(e)
    /\ user[e].exists /\ user[e].pw # Sentinel
    /\ Start(r, "passwd", e, new, user[e], 0)
    /\ Overlaps(e)
    /\ UNCHANGED <<db, revoked, used>>

(* Slip: the new password leaves the session version alone. *)
SlipPasswordCommits(r) ==
    LET q == req[r] IN
    /\ q.at = "passwd"
    /\ user' = [user EXCEPT ![q.e].pw = q.arg]
    /\ revoked' = [revoked EXCEPT ![q.e] = @ + 1]
    /\ Done(r)
    /\ UNCHANGED <<attempts, tokens, begun, used, clash>>

(* ... and writes the new hash with the next session version. *)
PasswordCommits(r) ==
    LET q == req[r] IN
    /\ q.at = "passwd"
    /\ user' = [user EXCEPT ![q.e].pw = q.arg, ![q.e].sv = q.row.sv + 1]
    /\ revoked' = [revoked EXCEPT ![q.e] = @ + 1]
    /\ Done(r)
    /\ UNCHANGED <<attempts, tokens, begun, used, clash>>

(* Five minutes pass. *)
Tick ==
    LET older(n, max) == IF n < max THEN n + 1 ELSE n IN
    /\ attempts' = [e \in Emails |-> [i \in DOMAIN attempts[e] |->
                        [attempts[e][i] EXCEPT !.age = older(@, AttemptAge)]]]
    /\ tokens' = {[t EXCEPT !.age = older(@, TokenAge)] : t \in tokens}
    /\ UNCHANGED <<user, req, begun>> /\ NoHistory

-----------------------------------------------------------------------------
(* A fresh installation, or one that was set up before. *)
Init == /\ \/ user = [e \in Emails |-> NoUser]
           \/ \E e \in Emails, p \in Passwords :
                 user = [[x \in Emails |-> NoUser] EXCEPT
                            ![e] = [NewUser(p) EXCEPT !.super = TRUE]]
        /\ attempts = [e \in Emails |-> <<>>]
        /\ tokens = {}
        /\ req = [r \in Requests |-> Idle]
        /\ begun = 0
        /\ revoked = [e \in Emails |-> 0]
        /\ used = [e \in Emails |-> {}]
        /\ clash = {}

LoginStep(r) == \/ LoginComparesPassword(r) \/ LoginLoadsUser(r)
                \/ LoginIsRefused(r) \/ LoginIsGranted(r)
WriteStep(r) == \/ ConsumeBackupCode(r) \/ DisableTotp(r) \/ SetupCreates(r)
                \/ UpdateCommits(r) \/ PasswordCommits(r)

Begin(r) == \E e \in Emails :
    \/ \E p \in Passwords : LoginChecksLockout(r, e, p) \/ SetupCounts(r, e, p)
                            \/ PasswordReads(r, e, p)
    \/ EnableTotp(r, e)
    \/ \E goal \in {"token", "disable"} :
          \/ VerifyByAuthenticator(r, e, goal)
          \/ \E c \in Codes : VerifyByBackupCode(r, e, goal, c)
    \/ ResolveExternal(r, e)
    \/ \E by \in Emails :
          \/ \E p \in Passwords, role \in Roles \ {0} : CreateForTenant(r, by, e, p, role)
          \/ \E c \in Changes : UpdateReads(r, by, e, c)

Next == Tick \/ \E r \in Requests : Begin(r) \/ LoginStep(r) \/ WriteStep(r)

Spec == Init /\ [][Next]_vars

-----------------------------------------------------------------------------
(* Properties. *)

(* Recent failures in a row for which a password was compared. *)
Tested(e) == {i \in ConsecutiveFailures(e) : attempts[e][i].tested}

(* The check of the lockout and the record of the attempt are different    *)
(* transactions, so requests under way together can each get past the      *)
(* check.  Between two successes no more passwords are compared within a   *)
(* window than the limit allows, and one for each request under way.       *)
OvershootIsBounded ==
    \A e \in Emails : Cardinality(Tested(e)) < MaxFailed + Cardinality(Requests)

(* "Increment session_version to invalidate all previously issued tokens": *)
(* a token made from a row that has been revoked since (by a new password  *)
(* or by a deactivation, even one followed by a reactivation) is refused.  *)
(* It holds for a user whose updates have never overlapped: two updates    *)
(* that read the same version write the same next one.                     *)
RevokedTokensStayOut ==
    \A t \in tokens : t.e \notin clash /\ t.born < revoked[t.e] => ~Accepted(t)

(* "Backup codes are one-time-use": an accepted code is not in the list    *)
(* again before new ones are issued, again without overlapping updates.    *)
UsedCodesAreGone ==
    \A e \in Emails : e \notin clash => used[e] \cap user[e].codes = {}
=============================================================================
