--------------------------- MODULE AccountsProofs ---------------------------
(***************************************************************************)
(* Proofs about Accounts, for any users, passwords, backup codes, number   *)
(* of requests under way and lengths of time.                              *)
(***************************************************************************)
EXTENDS Accounts, FiniteSetTheorems, TLAPS

UserRow == [exists : BOOLEAN, active : BOOLEAN, super : BOOLEAN,
            pw : Passwords \cup {Sentinel, None}, sv : Nat, totp : BOOLEAN,
            codes : SUBSET Codes, role : Roles]
TokenRow == [e : Emails, sv : Nat, pending : BOOLEAN, born : Nat, age : Nat]

(* Where a request has read the row it will write. *)
WritePoints == {"update", "passwd", "consume", "disable"}
Points == WritePoints \cup {"idle", "locked", "creds", "load", "wrong", "grant", "setup"}
Orders == {"token", "disable"} \X Codes
Request == [at : Points, e : Emails \cup {None}, arg : Passwords \cup {None} \cup Changes \cup Orders,
            row : UserRow, born : Nat]

TypesOK == /\ user \in [Emails -> UserRow] /\ tokens \subseteq TokenRow
           /\ req \in [Requests -> Request]
           /\ revoked \in [Emails -> Nat] /\ used \in [Emails -> SUBSET Codes]
           /\ clash \subseteq Emails

(* A request has the argument its next step expects. *)
Sensible(q) == /\ q.at # "idle" => q.e \in Emails
               /\ q.at = "update" => q.arg \in Changes
               /\ q.at \in {"passwd", "setup"} => q.arg \in Passwords
               /\ q.at = "consume" => q.arg \in Orders

(* What it has read of user u is still true where it matters. *)
Current(q, u, codes) == /\ q.at \in {"update", "passwd"} => q.row.sv = u.sv
                        /\ q.at = "consume" => q.row.codes \cap codes = {}
                        /\ q.at = "grant" => q.row.sv <= q.born

Writes(q, e) == q.e = e /\ q.at \in WritePoints
Revokes(q, e) == q.e = e /\ q.at \in {"update", "passwd"}

(* While no two updates of a user overlap, the session version counts the  *)
(* revocations and the used codes are gone, and so it is for what the      *)
(* requests under way have read.                                           *)
AccountOK(e) ==
    /\ ~user[e].exists => user[e].sv = 0 /\ \A r \in Requests : ~Revokes(req[r], e)
    /\ e \notin clash =>
          /\ user[e].sv = revoked[e] /\ used[e] \cap user[e].codes = {}
          /\ \A r \in Requests : req[r].e = e => Current(req[r], user[e], used[e])
          /\ \A r, s \in Requests : Writes(req[r], e) /\ Writes(req[s], e) => r = s

(* A token carries no version later than the row it was made from. *)
TokensOK == \A t \in tokens : t.e \notin clash => t.sv <= t.born

(* The inductive invariant. *)
AccountsInv == /\ TypesOK /\ TokensOK
               /\ \A r \in Requests : Sensible(req[r])
               /\ \A e \in Emails : AccountOK(e)

-----------------------------------------------------------------------------
(* A step of request r that concerns user e and nobody else. *)
LEMMA OneAccount ==
    ASSUME AccountsInv, NEW r \in Requests, NEW e \in Emails, TypesOK', clash \subseteq clash',
           \A x \in Emails \ {e} : /\ user'[x] = user[x] /\ revoked'[x] = revoked[x]
                                   /\ used'[x] = used[x] /\ (x \in clash' => x \in clash),
           \A s \in Requests \ {r} : req'[s] = req[s],
           req'[r] = req[r] \/ req'[r].at = "idle" \/ req'[r].e = e,
           Sensible(req'[r]),
           ~user'[e].exists => user'[e].sv = 0 /\ \A s \in Requests : ~Revokes(req'[s], e),
           e \notin clash' =>
              /\ user'[e].sv = revoked'[e] /\ used'[e] \cap user'[e].codes = {}
              /\ \A s \in Requests : req'[s].e = e => Current(req'[s], user'[e], used'[e])
              /\ \A s, t \in Requests : Writes(req'[s], e) /\ Writes(req'[t], e) => s = t,
           \A t \in tokens' \ tokens : t.e \notin clash' => t.sv <= t.born
    PROVE  AccountsInv'
<1>1. TokensOK'
  BY DEF AccountsInv, TokensOK
<1>2. \A s \in Requests : Sensible(req'[s])
  BY DEF AccountsInv
<1>3. AccountOK(e)'
  BY DEF AccountOK
<1>4. ASSUME NEW x \in Emails \ {e} PROVE AccountOK(x)'
  <2>1. AccountOK(x)
    BY DEF AccountsInv
  <2>2. \A s \in Requests : req'[s].e = x => req'[s] = req[s] \/ req'[s].at = "idle"
    OBVIOUS
  <2>3. \A s \in Requests : Writes(req'[s], x) => Writes(req[s], x)
    BY <2>2 DEF Writes, WritePoints
  <2>4. x \notin clash' => \A s \in Requests : req'[s].e = x => Current(req'[s], user'[x], used'[x])
    BY <2>1, <2>2 DEF AccountOK, Current
  <2>5. \A s \in Requests : Revokes(req'[s], x) => Revokes(req[s], x)
    BY <2>2 DEF Revokes
  <2> QED BY <2>1, <2>3, <2>4, <2>5 DEF AccountOK
<1> QED BY <1>1, <1>2, <1>3, <1>4 DEF AccountsInv

(* A request goes on and writes nothing. *)
LEMMA OnlyReads ==
    ASSUME AccountsInv, NEW r \in Requests, NEW q \in Request, req' = [req EXCEPT ![r] = q],
           Sensible(q), q.at # "idle" => q.e \in Emails, q.at \notin WritePoints,
           q.at = "grant" => q.e \in clash \/ q.row.sv <= q.born,
           UNCHANGED <<user, tokens, revoked, used, clash>>
    PROVE  AccountsInv'
<1>1. /\ req' \in [Requests -> Request] /\ req'[r] = q
      /\ \A s \in Requests \ {r} : req'[s] = req[s]
  BY DEF AccountsInv, TypesOK
<1>2. TypesOK' /\ TokensOK'
  BY <1>1 DEF AccountsInv, TypesOK, TokensOK
<1>3. \A s \in Requests : Sensible(req'[s])
  BY <1>1 DEF AccountsInv
<1>4. ASSUME NEW e \in Emails PROVE AccountOK(e)'
  <2>1. AccountOK(e)
    BY DEF AccountsInv
  <2>2. \A s \in Requests : Writes(req'[s], e) => Writes(req[s], e)
    BY <1>1 DEF Writes
  <2>3. e \notin clash' => \A s \in Requests : req'[s].e = e => Current(req'[s], user'[e], used'[e])
    BY <1>1, <2>1 DEF AccountOK, Current, WritePoints
  <2>4. \A s \in Requests : Revokes(req'[s], e) => Revokes(req[s], e)
    BY <1>1 DEF Revokes, WritePoints
  <2> QED BY <2>1, <2>2, <2>3, <2>4 DEF AccountOK
<1> QED BY <1>2, <1>3, <1>4 DEF AccountsInv

LEMMA RowFacts ==
    /\ NoUser \in UserRow /\ NoUser.sv = 0 /\ NoUser.exists = FALSE /\ NoUser.codes = {}
    /\ Idle \in Request /\ Idle.at = "idle" /\ Sensible(Idle)
<1>1. NoUser \in UserRow /\ NoUser.sv = 0 /\ NoUser.exists = FALSE /\ NoUser.codes = {}
  BY DEF NoUser, UserRow, Roles
<1> HIDE DEF NoUser
<1>2. Idle \in Request /\ Idle.at = "idle"
  BY <1>1 DEF Idle, Request, Points
<1>3. Sensible(Idle)
  BY <1>2 DEF Sensible
<1> QED BY <1>1, <1>2, <1>3

(* A request that has just begun. *)
LEMMA StartFacts ==
    ASSUME AccountsInv, NEW r \in Requests, NEW at \in Points, NEW e \in Emails,
           NEW arg \in Passwords \cup {None} \cup Changes \cup Orders, NEW row \in UserRow,
           Start(r, at, e, arg, row, 0)
    PROVE  \E q \in Request : /\ q.at = at /\ q.e = e /\ q.arg = arg /\ q.row = row /\ q.born = 0
                              /\ req' = [req EXCEPT ![r] = q]
<1> DEFINE q == [at |-> at, e |-> e, arg |-> arg, row |-> row, born |-> 0]
<1>1. q \in Request /\ q.at = at /\ q.e = e /\ q.arg = arg /\ q.row = row /\ q.born = 0
  BY DEF Request
<1>2. req' = [req EXCEPT ![r] = q]
  BY DEF Start
<1> HIDE DEF q
<1> QED BY <1>1, <1>2

(* What a request of the tables is: a typed record. *)
LEMMA ReqFacts ==
    ASSUME AccountsInv, NEW r \in Requests
    PROVE  /\ req[r] \in Request /\ Sensible(req[r])
           /\ req[r].at # "idle" => req[r].e \in Emails /\ user[req[r].e] \in UserRow
BY DEF AccountsInv, TypesOK, Sensible

(* The request ends without having written. *)
LEMMA JustDone ==
    ASSUME AccountsInv, NEW r \in Requests, Done(r), UNCHANGED <<user, tokens, revoked, used, clash>>
    PROVE  AccountsInv'
<1>1. req' = [req EXCEPT ![r] = Idle]
  BY DEF Done
<1>2. Idle.at \notin WritePoints /\ Idle.at # "grant"
  BY RowFacts DEF WritePoints
<1> QED BY <1>1, <1>2, RowFacts, OnlyReads

(* The request goes to another point that writes nothing. *)
LEMMA JustBecomes ==
    ASSUME AccountsInv, NEW r \in Requests, NEW at \in {"load", "wrong"}, req[r].at # "idle",
           Becomes(r, at), UNCHANGED <<user, tokens, revoked, used, clash>>
    PROVE  AccountsInv'
<1> DEFINE q == [req[r] EXCEPT !.at = at]
<1>1. q \in Request /\ q.at = at /\ q.e = req[r].e
  <2>1. at \in Points
    BY DEF Points
  <2> QED BY <2>1, ReqFacts DEF Request
<1>2. req' = [req EXCEPT ![r] = q]
  BY DEF Becomes
<1> HIDE DEF q
<1>3. Sensible(q) /\ q.at \notin WritePoints /\ q.at # "grant" /\ q.e \in Emails
  BY <1>1, ReqFacts DEF Sensible, WritePoints
<1> QED BY <1>1, <1>2, <1>3, OnlyReads

LEMMA LoginChecksLockoutStep ==
    ASSUME AccountsInv, NEW r \in Requests, NEW e \in Emails, NEW p \in Passwords,
           LoginChecksLockout(r, e, p)
    PROVE  AccountsInv'
<1>1. PICK at \in {"locked", "creds"} : Start(r, at, e, p, NoUser, 0)
  BY DEF LoginChecksLockout
<1>2. UNCHANGED <<user, tokens, revoked, used, clash>>
  BY DEF LoginChecksLockout, db, NoHistory
<1>3. at \in Points
  BY DEF Points
<1>4. PICK q \in Request : q.at = at /\ q.e = e /\ q.arg = p /\ req' = [req EXCEPT ![r] = q]
  BY <1>1, <1>3, RowFacts, StartFacts
<1>5. Sensible(q) /\ q.at \notin WritePoints /\ q.at # "grant" /\ q.e \in Emails
  BY <1>4 DEF Sensible, WritePoints
<1> QED BY <1>2, <1>4, <1>5, OnlyReads

LEMMA SetupCountsStep ==
    ASSUME AccountsInv, NEW r \in Requests, NEW e \in Emails, NEW p \in Passwords, SetupCounts(r, e, p)
    PROVE  AccountsInv'
<1>1. Start(r, "setup", e, p, NoUser, 0) /\ UNCHANGED <<user, tokens, revoked, used, clash>>
  BY DEF SetupCounts, db, NoHistory
<1>2. "setup" \in Points
  BY DEF Points
<1>3. PICK q \in Request : q.at = "setup" /\ q.e = e /\ q.arg = p /\ req' = [req EXCEPT ![r] = q]
  BY <1>1, <1>2, RowFacts, StartFacts
<1>4. Sensible(q) /\ q.at \notin WritePoints /\ q.at # "grant" /\ q.e \in Emails
  BY <1>3 DEF Sensible, WritePoints
<1> QED BY <1>1, <1>3, <1>4, OnlyReads

LEMMA LoginComparesPasswordStep ==
    ASSUME AccountsInv, NEW r \in Requests, LoginComparesPassword(r) PROVE AccountsInv'
<1>1. /\ req[r].at # "idle" /\ \E at \in {"load", "wrong"} : Becomes(r, at)
      /\ UNCHANGED <<user, tokens, revoked, used, clash>>
  BY DEF LoginComparesPassword, db, NoHistory
<1> QED BY <1>1, JustBecomes

(* The version read is the number of revocations, unless updates overlap. *)
LEMMA LoginLoadsUserStep ==
    ASSUME AccountsInv, NEW r \in Requests, LoginLoadsUser(r) PROVE AccountsInv'
<1> DEFINE e == req[r].e
           at == IF user[e].active THEN "grant" ELSE "wrong"
           q == [req[r] EXCEPT !.at = at, !.row = user[e], !.born = revoked[e]]
<1>1. /\ e \in Emails /\ req[r] \in Request /\ user[e] \in UserRow /\ revoked[e] \in Nat
      /\ UNCHANGED <<user, tokens, revoked, used, clash>>
  BY ReqFacts DEF LoginLoadsUser, db, NoHistory, AccountsInv, TypesOK
<1>2. at \in {"grant", "wrong"} /\ at \in Points
  BY DEF Points
<1>3. req' = [req EXCEPT ![r] = q]
  BY DEF LoginLoadsUser
<1> HIDE DEF e, at
<1>4. q \in Request /\ q.at = at /\ q.e = e /\ q.row = user[e] /\ q.born = revoked[e]
  BY <1>1, <1>2 DEF Request, e
<1> HIDE DEF q
<1>5. Sensible(q) /\ q.at \notin WritePoints
  BY <1>1, <1>2, <1>4 DEF Sensible, WritePoints
<1>6. q.e \in clash \/ q.row.sv <= q.born
  <2>1. e \in clash \/ user[e].sv = revoked[e]
    BY <1>1 DEF AccountsInv, AccountOK
  <2> QED BY <1>1, <1>4, <2>1
<1> QED BY <1>1, <1>3, <1>4, <1>5, <1>6, OnlyReads

LEMMA LoginIsRefusedStep ==
    ASSUME AccountsInv, NEW r \in Requests, LoginIsRefused(r) PROVE AccountsInv'
<1>1. Done(r) /\ UNCHANGED <<user, tokens, revoked, used, clash>>
  BY DEF LoginIsRefused, NoHistory
<1> QED BY <1>1, JustDone

-----------------------------------------------------------------------------
(* Steps that hand out a token. *)
LEMMA TokenFacts ==
    ASSUME NEW e \in Emails, NEW sv \in Nat, NEW pending \in BOOLEAN, NEW born \in Nat
    PROVE  /\ Token(e, sv, pending, born) \in TokenRow /\ Token(e, sv, pending, born).e = e
           /\ Token(e, sv, pending, born).sv = sv /\ Token(e, sv, pending, born).born = born
BY DEF Token, TokenRow

(* A token is handed out, and the request is over or was none. *)
LEMMA TokenIssued ==
    ASSUME AccountsInv, NEW r \in Requests, NEW t \in TokenRow,
           tokens' = tokens \cup {t}, t.e \in clash \/ t.sv <= t.born,
           UNCHANGED req \/ Done(r), UNCHANGED <<user, revoked, used, clash>>
    PROVE  AccountsInv'
<1>1. /\ req' \in [Requests -> Request] /\ \A s \in Requests : req'[s] = req[s] \/ req'[s] = Idle
  BY RowFacts DEF AccountsInv, TypesOK, Done
<1>2. TypesOK' /\ TokensOK'
  BY <1>1 DEF AccountsInv, TypesOK, TokensOK
<1>3. \A s \in Requests : Sensible(req'[s])
  BY <1>1, RowFacts DEF AccountsInv
<1>4. ASSUME NEW e \in Emails PROVE AccountOK(e)'
  <2>1. AccountOK(e)
    BY DEF AccountsInv
  <2>2. \A s \in Requests : Writes(req'[s], e) => Writes(req[s], e)
    BY <1>1, RowFacts DEF Writes, WritePoints
  <2>3. e \notin clash' => \A s \in Requests : req'[s].e = e => Current(req'[s], user'[e], used'[e])
    BY <1>1, <2>1, RowFacts DEF AccountOK, Current
  <2>4. \A s \in Requests : Revokes(req'[s], e) => Revokes(req[s], e)
    BY <1>1, RowFacts DEF Revokes
  <2> QED BY <2>1, <2>2, <2>3, <2>4 DEF AccountOK
<1> QED BY <1>2, <1>3, <1>4 DEF AccountsInv

LEMMA LoginIsGrantedStep ==
    ASSUME AccountsInv, NEW r \in Requests, LoginIsGranted(r) PROVE AccountsInv'
<1> DEFINE q == req[r]
           t == Token(q.e, q.row.sv, q.row.totp, q.born)
<1>1. /\ q.at = "grant" /\ tokens' = tokens \cup {t} /\ Done(r)
      /\ UNCHANGED <<user, revoked, used, clash>>
  BY DEF LoginIsGranted, NoHistory
<1>2. q.e \in Emails /\ q.row.sv \in Nat /\ q.row.totp \in BOOLEAN /\ q.born \in Nat
  BY <1>1, ReqFacts DEF Request, UserRow
<1>3. t \in TokenRow /\ t.e = q.e /\ t.sv = q.row.sv /\ t.born = q.born
  BY <1>2, TokenFacts
<1>4. q.e \in clash \/ q.row.sv <= q.born
  BY <1>1, <1>2 DEF AccountsInv, AccountOK, Current
<1> HIDE DEF t, q
<1> QED BY <1>1, <1>3, <1>4, TokenIssued

(* The token of a verification has the lowest version there is. *)
LEMMA VerifiedTokenFacts ==
    ASSUME AccountsInv, NEW e \in Emails, IssueVerifiedToken(e)
    PROVE  \E t \in TokenRow : tokens' = tokens \cup {t} /\ t.e = e /\ t.sv <= t.born
<1>1. revoked[e] \in Nat
  BY DEF AccountsInv, TypesOK
<1> DEFINE t == Token(e, 0, FALSE, revoked[e])
<1>2. t \in TokenRow /\ t.e = e /\ t.sv = 0 /\ t.born = revoked[e]
  BY <1>1 DEF Token, TokenRow
<1>3. tokens' = tokens \cup {t}
  BY DEF IssueVerifiedToken
<1> HIDE DEF t
<1> QED BY <1>1, <1>2, <1>3

-----------------------------------------------------------------------------
(* A request begins that will write the row it reads now; an overlap with  *)
(* another one is noticed.                                                 *)
LEMMA WriteBegins ==
    ASSUME AccountsInv, NEW r \in Requests, NEW e \in Emails, NEW at \in WritePoints,
           NEW arg \in Passwords \cup {None} \cup Changes \cup Orders,
           at = "update" => arg \in Changes, at = "passwd" => arg \in Passwords,
           at = "consume" => arg \in Orders, at \in {"update", "passwd"} => user[e].exists,
           Start(r, at, e, arg, user[e], 0), Overlaps(e), UNCHANGED <<user, tokens, revoked, used>>
    PROVE  AccountsInv'
<1>1. at \in Points /\ user[e] \in UserRow
  BY DEF Points, AccountsInv, TypesOK
<1>2. PICK q \in Request : /\ q.at = at /\ q.e = e /\ q.arg = arg /\ q.row = user[e]
                           /\ req' = [req EXCEPT ![r] = q]
  BY <1>1, StartFacts
<1>3. /\ req' \in [Requests -> Request] /\ req'[r] = q
      /\ \A s \in Requests \ {r} : req'[s] = req[s]
  BY <1>2 DEF AccountsInv, TypesOK
<1>4. /\ clash \subseteq clash' /\ clash' \subseteq Emails /\ \A x \in Emails \ {e} : x \in clash' => x \in clash
      /\ e \notin clash' => e \notin clash /\ Updating(e) = {}
  BY DEF Overlaps, AccountsInv, TypesOK
<1>5. TypesOK'
  BY <1>3, <1>4 DEF AccountsInv, TypesOK
<1>6. Sensible(q)
  BY <1>2 DEF Sensible, WritePoints
<1>7. ~user[e].exists => user[e].sv = 0 /\ \A s \in Requests : ~Revokes(req'[s], e)
  BY <1>2, <1>3 DEF AccountsInv, AccountOK, Revokes
<1>8. ASSUME e \notin clash'
      PROVE  /\ user[e].sv = revoked[e] /\ used[e] \cap user[e].codes = {}
             /\ \A s \in Requests : req'[s].e = e => Current(req'[s], user[e], used[e])
             /\ \A s, t \in Requests : Writes(req'[s], e) /\ Writes(req'[t], e) => s = t
  <2>1. /\ user[e].sv = revoked[e] /\ used[e] \cap user[e].codes = {}
        /\ \A s \in Requests : req[s].e = e => Current(req[s], user[e], used[e])
    BY <1>4, <1>8 DEF AccountsInv, AccountOK
  <2>2. \A s \in Requests : ~Writes(req[s], e)
    BY <1>4, <1>8 DEF Updating, Writes, WritePoints
  <2>3. Current(q, user[e], used[e])
    BY <1>2, <2>1 DEF Current, WritePoints
  <2>4. \A s \in Requests : req'[s].e = e => Current(req'[s], user[e], used[e])
    BY <1>3, <2>1, <2>3
  <2>5. \A s \in Requests : Writes(req'[s], e) => s = r
    BY <1>3, <2>2
  <2> QED BY <2>1, <2>4, <2>5
<1> QED BY <1>2, <1>3, <1>4, <1>5, <1>6, <1>7, <1>8, OneAccount

LEMMA UpdateReadsStep ==
    ASSUME AccountsInv, NEW r \in Requests, NEW by \in Emails, NEW e \in Emails, NEW c \in Changes,
           UpdateReads(r, by, e, c)
    PROVE  AccountsInv'
<1>1. "update" \in WritePoints
  BY DEF WritePoints
<1> QED BY <1>1, WriteBegins DEF UpdateReads, db

LEMMA PasswordReadsStep ==
    ASSUME AccountsInv, NEW r \in Requests, NEW e \in Emails, NEW p \in Passwords, PasswordReads(r, e, p)
    PROVE  AccountsInv'
<1>1. "passwd" \in WritePoints
  BY DEF WritePoints
<1> QED BY <1>1, WriteBegins DEF PasswordReads, db

LEMMA VerifyByBackupCodeStep ==
    ASSUME AccountsInv, NEW r \in Requests, NEW e \in Emails, NEW goal \in {"token", "disable"},
           NEW c \in Codes, VerifyByBackupCode(r, e, goal, c)
    PROVE  AccountsInv'
<1>1. "consume" \in WritePoints /\ <<goal, c>> \in Orders
  BY DEF WritePoints, Orders
<1>2. /\ Start(r, "consume", e, <<goal, c>>, user[e], 0) /\ Overlaps(e)
      /\ UNCHANGED <<user, tokens, revoked, used>>
  BY DEF VerifyByBackupCode, db
<1> QED BY <1>1, <1>2, WriteBegins

LEMMA VerifyByAuthenticatorStep ==
    ASSUME AccountsInv, NEW r \in Requests, NEW e \in Emails, NEW goal \in {"token", "disable"},
           VerifyByAuthenticator(r, e, goal)
    PROVE  AccountsInv'
<1>1. CASE IssueVerifiedToken(e) /\ UNCHANGED <<req, clash>>
  <2>1. PICK t \in TokenRow : tokens' = tokens \cup {t} /\ t.e = e /\ t.sv <= t.born
    BY <1>1, VerifiedTokenFacts
  <2> QED BY <1>1, <2>1, TokenIssued DEF VerifyByAuthenticator
<1>2. CASE Start(r, "disable", e, None, user[e], 0) /\ Overlaps(e) /\ UNCHANGED tokens
  <2>1. "disable" \in WritePoints
    BY DEF WritePoints
  <2>2. UNCHANGED <<user, tokens, revoked, used>>
    BY <1>2 DEF VerifyByAuthenticator
  <2> QED BY <1>2, <2>1, <2>2, WriteBegins
<1> QED BY <1>1, <1>2 DEF VerifyByAuthenticator

-----------------------------------------------------------------------------
(* The row is written by the request that read it, which without overlaps  *)
(* is the only one that will.                                              *)
LEMMA RowWritten ==
    ASSUME AccountsInv, NEW r \in Requests, NEW e \in Emails, NEW u \in UserRow, NEW q \in Request,
           Writes(req[r], e), user' = [user EXCEPT ![e] = u], req' = [req EXCEPT ![r] = q],
           q.at = "idle" \/ (q.at = "disable" /\ q.e = e), Sensible(q),
           revoked' \in [Emails -> Nat], used' \in [Emails -> SUBSET Codes], clash' = clash,
           \A x \in Emails \ {e} : revoked'[x] = revoked[x] /\ used'[x] = used[x],
           u.exists = user[e].exists, ~u.exists => u.sv = 0,
           e \notin clash => u.sv = revoked'[e] /\ used'[e] \cap u.codes = {},
           tokens' \subseteq TokenRow, \A t \in tokens' \ tokens : t.sv <= t.born
    PROVE  AccountsInv'
<1>1. /\ req' \in [Requests -> Request] /\ req'[r] = q
      /\ \A s \in Requests \ {r} : req'[s] = req[s]
  BY DEF AccountsInv, TypesOK
<1>2. /\ user' \in [Emails -> UserRow] /\ user'[e] = u
      /\ \A x \in Emails \ {e} : user'[x] = user[x]
  BY DEF AccountsInv, TypesOK
<1>3. TypesOK'
  BY <1>1, <1>2 DEF AccountsInv, TypesOK
<1>4. ASSUME e \notin clash
      PROVE  /\ \A s \in Requests : req'[s].e = e => Current(req'[s], user'[e], used'[e])
             /\ \A s, t \in Requests : Writes(req'[s], e) /\ Writes(req'[t], e) => s = t
  <2>1. /\ \A s \in Requests : req[s].e = e => Current(req[s], user[e], used[e])
        /\ \A s, t \in Requests : Writes(req[s], e) /\ Writes(req[t], e) => s = t
    BY <1>4 DEF AccountsInv, AccountOK
  <2>2. \A s \in Requests \ {r} : ~Writes(req'[s], e)
    BY <1>1, <2>1
  <2>3. \A s \in Requests \ {r} : req'[s].e = e => Current(req'[s], user'[e], used'[e])
    BY <1>1, <2>1, <2>2 DEF Current, Writes, WritePoints
  <2>4. Current(q, user'[e], used'[e])
    BY DEF Current
  <2> QED BY <1>1, <2>2, <2>3, <2>4
<1>5. ~u.exists => u.sv = 0 /\ \A s \in Requests : ~Revokes(req'[s], e)
  BY <1>1 DEF AccountsInv, AccountOK, Revokes
<1> QED BY <1>1, <1>2, <1>3, <1>4, <1>5, OneAccount

(* The request of a write point, and the row it writes. *)
LEMMA WriterFacts ==
    ASSUME AccountsInv, NEW r \in Requests, req[r].at \in WritePoints
    PROVE  /\ req[r].e \in Emails /\ Writes(req[r], req[r].e) /\ user[req[r].e] \in UserRow
           /\ req[r] \in Request /\ req[r].row \in UserRow
           /\ revoked[req[r].e] \in Nat /\ used[req[r].e] \in SUBSET Codes
           /\ ~user[req[r].e].exists => user[req[r].e].sv = 0
           /\ req[r].at \in {"update", "passwd"} => user[req[r].e].exists
           /\ req[r].e \notin clash => /\ user[req[r].e].sv = revoked[req[r].e]
                                       /\ used[req[r].e] \cap user[req[r].e].codes = {}
                                       /\ Current(req[r], user[req[r].e], used[req[r].e])
<1>1. req[r] \in Request /\ req[r].e \in Emails
  BY ReqFacts DEF WritePoints
<1>2. AccountOK(req[r].e)
  BY <1>1 DEF AccountsInv
<1>3. req[r].at \in {"update", "passwd"} => user[req[r].e].exists
  BY <1>2 DEF AccountOK, Revokes
<1> QED BY <1>1, <1>2, <1>3 DEF AccountsInv, TypesOK, Request, Writes, AccountOK

LEMMA ConsumeBackupCodeStep ==
    ASSUME AccountsInv, NEW r \in Requests, ConsumeBackupCode(r) PROVE AccountsInv'
<1> DEFINE e == req[r].e
           code == req[r].arg[2]
           u == [user[e] EXCEPT !.codes = req[r].row.codes \ {code}]
           d == [req[r] EXCEPT !.at = "disable"]
<1>1. req[r].at = "consume" /\ req[r].at \in WritePoints
  BY DEF ConsumeBackupCode, WritePoints
<1>2. /\ e \in Emails /\ Writes(req[r], e) /\ user[e] \in UserRow /\ req[r] \in Request
      /\ req[r].row \in UserRow
      /\ ~user[e].exists => user[e].sv = 0
      /\ e \notin clash => /\ user[e].sv = revoked[e] /\ req[r].row.codes \cap used[e] = {}
  BY <1>1, WriterFacts DEF Current
<1>3. code \in Codes
  BY <1>1, ReqFacts DEF Sensible, Orders
<1>4. /\ user' = [user EXCEPT ![e] = u] /\ used' = [used EXCEPT ![e] = used[e] \cup {code}]
      /\ UNCHANGED <<revoked, clash>>
  BY DEF ConsumeBackupCode
<1>5. \/ IssueVerifiedToken(e) /\ req' = [req EXCEPT ![r] = Idle]
      \/ req' = [req EXCEPT ![r] = d] /\ UNCHANGED tokens
  BY DEF ConsumeBackupCode, Done, Becomes
<1>6. /\ u \in UserRow /\ u.exists = user[e].exists /\ u.sv = user[e].sv
      /\ u.codes = req[r].row.codes \ {code}
  BY <1>2 DEF UserRow
<1>7. d \in Request /\ d.at = "disable" /\ d.e = e /\ Sensible(d)
  <2>1. "disable" \in Points
    BY DEF Points, WritePoints
  <2>2. d \in Request /\ d.at = "disable" /\ d.e = e
    BY <1>2, <2>1 DEF Request
  <2> QED BY <1>2, <2>2 DEF Sensible
<1> HIDE DEF u, d, e, code
<1>8. /\ used' \in [Emails -> SUBSET Codes] /\ used'[e] = used[e] \cup {code}
      /\ \A x \in Emails \ {e} : used'[x] = used[x]
  BY <1>2, <1>3, <1>4 DEF AccountsInv, TypesOK
<1>9. e \notin clash => u.sv = revoked'[e] /\ used'[e] \cap u.codes = {}
  BY <1>2, <1>4, <1>6, <1>8
<1>10. tokens' \subseteq TokenRow /\ \A t \in tokens' \ tokens : t.sv <= t.born
  BY <1>2, <1>5, VerifiedTokenFacts DEF AccountsInv, TypesOK
<1>11. revoked' \in [Emails -> Nat]
  BY <1>4 DEF AccountsInv, TypesOK
<1>12. PICK q \in {d, Idle} : req' = [req EXCEPT ![r] = q]
  BY <1>5
<1>13. q \in Request /\ Sensible(q) /\ (q.at = "idle" \/ (q.at = "disable" /\ q.e = e))
  BY <1>7, RowFacts
<1> QED BY <1>2, <1>4, <1>6, <1>8, <1>9, <1>10, <1>11, <1>12, <1>13, RowWritten

LEMMA DisableTotpStep ==
    ASSUME AccountsInv, NEW r \in Requests, DisableTotp(r) PROVE AccountsInv'
<1> DEFINE e == req[r].e
           u == WithoutTotp(user[e])
<1>1. req[r].at \in WritePoints
  BY DEF DisableTotp, WritePoints
<1>2. /\ e \in Emails /\ Writes(req[r], e) /\ user[e] \in UserRow
      /\ ~user[e].exists => user[e].sv = 0
      /\ e \notin clash => user[e].sv = revoked[e]
  BY <1>1, WriterFacts
<1>3. u \in UserRow /\ u.exists = user[e].exists /\ u.sv = user[e].sv /\ u.codes = {}
  BY <1>2 DEF UserRow, WithoutTotp
<1>4. /\ user' = [user EXCEPT ![e] = u] /\ req' = [req EXCEPT ![r] = Idle]
      /\ UNCHANGED <<tokens, revoked, used, clash>>
  BY DEF DisableTotp, Done
<1>5. revoked \in [Emails -> Nat] /\ used \in [Emails -> SUBSET Codes] /\ tokens \subseteq TokenRow
  BY DEF AccountsInv, TypesOK
<1> HIDE DEF u, e
<1> QED BY <1>2, <1>3, <1>4, <1>5, RowFacts, RowWritten

(* Deactivation and a new password write the next version: without         *)
(* overlaps the next of the one that is stored.                            *)
LEMMA UpdateCommitsStep ==
    ASSUME AccountsInv, NEW r \in Requests, UpdateCommits(r) PROVE AccountsInv'
<1> DEFINE q == req[r]
           e == q.e
           off == q.arg = Deactivation
           a == IF q.arg[1] = "active" /\ q.row.active # q.arg[2] THEN q.arg[2] ELSE user[e].active
           o == IF q.arg[1] = "role" THEN q.arg[2] ELSE user[e].role
           n == IF off THEN q.row.sv + 1 ELSE user[e].sv
           u == [user[e] EXCEPT !.active = a, !.role = o, !.sv = n]
<1>1. q.at = "update" /\ q.at \in WritePoints
  BY DEF UpdateCommits, WritePoints
<1>2. /\ e \in Emails /\ Writes(q, e) /\ user[e] \in UserRow /\ q \in Request /\ q.row \in UserRow
      /\ revoked[e] \in Nat /\ q.arg \in Changes /\ user[e].exists
      /\ e \notin clash => /\ user[e].sv = revoked[e] /\ used[e] \cap user[e].codes = {}
                           /\ q.row.sv = user[e].sv
  BY <1>1, WriterFacts, ReqFacts DEF Current, Sensible
<1>3. user' = [user EXCEPT ![e] = u]
  BY DEF UpdateCommits
<1>4. /\ req' = [req EXCEPT ![r] = Idle] /\ UNCHANGED <<tokens, used, clash>>
      /\ revoked' = IF off THEN [revoked EXCEPT ![e] = revoked[e] + 1] ELSE revoked
  BY DEF UpdateCommits, Done
<1>5. a \in BOOLEAN /\ o \in Roles /\ n \in Nat
  <2>0. \/ \E b \in BOOLEAN : q.arg = <<"active", b>>
        \/ \E k \in Roles : q.arg = <<"role", k>>
    BY <1>2 DEF Changes, Deactivation
  <2> HIDE DEF q
  <2>1. q.arg[1] = "active" => q.arg[2] \in BOOLEAN
    BY <2>0
  <2>2. q.arg[1] = "role" => q.arg[2] \in Roles
    BY <2>0
  <2>3. user[e].active \in BOOLEAN /\ user[e].role \in Roles /\ user[e].sv \in Nat /\ q.row.sv \in Nat
    BY <1>2 DEF UserRow
  <2> QED BY <2>1, <2>2, <2>3
<1> HIDE DEF a, o, q, e, off
<1>6. u \in UserRow /\ u.exists = user[e].exists /\ u.sv = n /\ u.codes = user[e].codes
  BY <1>2, <1>5 DEF UserRow
<1> HIDE DEF u
<1>7. /\ revoked' \in [Emails -> Nat] /\ revoked'[e] = (IF off THEN revoked[e] + 1 ELSE revoked[e])
      /\ \A x \in Emails \ {e} : revoked'[x] = revoked[x]
  BY <1>2, <1>4 DEF AccountsInv, TypesOK
<1>8. e \notin clash => u.sv = revoked'[e] /\ used[e] \cap u.codes = {}
  BY <1>2, <1>6, <1>7
<1>9. used \in [Emails -> SUBSET Codes] /\ tokens \subseteq TokenRow
  BY DEF AccountsInv, TypesOK
<1>10. ~u.exists => u.sv = 0
  BY <1>2, <1>6
<1> QED BY <1>2, <1>3, <1>4, <1>6, <1>7, <1>8, <1>9, <1>10, RowFacts, RowWritten DEF q

LEMMA PasswordCommitsStep ==
    ASSUME AccountsInv, NEW r \in Requests, PasswordCommits(r) PROVE AccountsInv'
<1> DEFINE q == req[r]
           e == q.e
           u == [user[e] EXCEPT !.pw = q.arg, !.sv = q.row.sv + 1]
<1>1. q.at = "passwd" /\ q.at \in WritePoints
  BY DEF PasswordCommits, WritePoints
<1>2. /\ e \in Emails /\ Writes(q, e) /\ user[e] \in UserRow /\ q \in Request /\ q.row.sv \in Nat
      /\ revoked[e] \in Nat /\ q.arg \in Passwords /\ user[e].exists
      /\ e \notin clash => /\ user[e].sv = revoked[e] /\ used[e] \cap user[e].codes = {}
                           /\ q.row.sv = user[e].sv
  BY <1>1, WriterFacts, ReqFacts DEF Current, Sensible, UserRow
<1>3. user' = [user EXCEPT ![e] = u]
  BY DEF PasswordCommits
<1>4. /\ req' = [req EXCEPT ![r] = Idle] /\ UNCHANGED <<tokens, used, clash>>
      /\ revoked' = [revoked EXCEPT ![e] = revoked[e] + 1]
  BY DEF PasswordCommits, Done
<1>5. q.row.sv + 1 \in Nat
  BY <1>2
<1> HIDE DEF q, e
<1>6. /\ u \in UserRow /\ u.exists = user[e].exists /\ u.sv = q.row.sv + 1
      /\ u.codes = user[e].codes
  BY <1>2, <1>5 DEF UserRow
<1> HIDE DEF u
<1>7. /\ revoked' \in [Emails -> Nat] /\ revoked'[e] = revoked[e] + 1
      /\ \A x \in Emails \ {e} : revoked'[x] = revoked[x]
  BY <1>2, <1>4 DEF AccountsInv, TypesOK
<1>8. e \notin clash => u.sv = revoked'[e] /\ used[e] \cap u.codes = {}
  BY <1>2, <1>6, <1>7
<1>9. used \in [Emails -> SUBSET Codes] /\ tokens \subseteq TokenRow
  BY DEF AccountsInv, TypesOK
<1>10. ~u.exists => u.sv = 0
  BY <1>2, <1>6
<1> QED BY <1>2, <1>3, <1>4, <1>6, <1>7, <1>8, <1>9, <1>10, RowFacts, RowWritten DEF q

(* New codes are issued: none of them is used yet. *)
LEMMA EnableTotpStep ==
    ASSUME AccountsInv, NEW r \in Requests, NEW e \in Emails, EnableTotp(r, e) PROVE AccountsInv'
<1> DEFINE u == WithTotp(user[e], Codes)
<1>1. user[e] \in UserRow /\ AccountOK(e)
  BY DEF AccountsInv, TypesOK
<1>2. u \in UserRow /\ u.exists = user[e].exists /\ u.sv = user[e].sv
  BY <1>1 DEF UserRow, WithTotp
<1>3. user' = [user EXCEPT ![e] = u]
  BY DEF EnableTotp
<1> HIDE DEF u
<1>4. /\ user' \in [Emails -> UserRow] /\ user'[e] = u /\ used' \in [Emails -> SUBSET Codes] /\ used'[e] = {}
      /\ \A x \in Emails \ {e} : user'[x] = user[x] /\ used'[x] = used[x]
      /\ UNCHANGED <<tokens, req, revoked>>
  BY <1>2, <1>3 DEF EnableTotp, AccountsInv, TypesOK
<1>5. /\ clash \subseteq clash' /\ clash' \subseteq Emails /\ \A x \in Emails \ {e} : x \in clash' => x \in clash
      /\ e \notin clash' => e \notin clash /\ Updating(e) = {}
  BY DEF EnableTotp, Overlaps, AccountsInv, TypesOK
<1>6. TypesOK'
  BY <1>4, <1>5 DEF AccountsInv, TypesOK
<1>7. e \notin clash' => /\ u.sv = revoked'[e] /\ used'[e] \cap u.codes = {}
                         /\ \A s \in Requests : req[s].e = e => Current(req[s], u, used'[e])
                         /\ \A s, t \in Requests : Writes(req[s], e) /\ Writes(req[t], e) => s = t
  BY <1>1, <1>2, <1>4, <1>5 DEF AccountOK, Current
<1>8. ~u.exists => u.sv = 0 /\ \A s \in Requests : ~Revokes(req[s], e)
  BY <1>1, <1>2 DEF AccountOK
<1>9. Sensible(req[r])
  BY DEF AccountsInv
<1> QED BY <1>4, <1>5, <1>6, <1>7, <1>8, <1>9, OneAccount

(* A user is added, or changed in what the session version does not cover. *)
LEMMA VersionKept ==
    ASSUME AccountsInv, NEW r \in Requests, NEW e \in Emails, NEW u \in UserRow,
           user' = [user EXCEPT ![e] = u], u.exists, u.sv = user[e].sv, u.codes \subseteq user[e].codes,
           UNCHANGED req \/ Done(r), UNCHANGED <<tokens, revoked, used, clash>>
    PROVE  AccountsInv'
<1>1. /\ req' \in [Requests -> Request] /\ (req'[r] = req[r] \/ req'[r] = Idle)
      /\ \A s \in Requests \ {r} : req'[s] = req[s]
  BY RowFacts DEF AccountsInv, TypesOK, Done
<1>2. /\ user' \in [Emails -> UserRow] /\ user'[e] = u
      /\ \A x \in Emails \ {e} : user'[x] = user[x]
  BY DEF AccountsInv, TypesOK
<1>3. TypesOK'
  BY <1>1, <1>2 DEF AccountsInv, TypesOK
<1>4. AccountOK(e)
  BY DEF AccountsInv
<1>5. e \notin clash => /\ u.sv = revoked[e] /\ used[e] \cap u.codes = {}
                        /\ \A s \in Requests : req'[s].e = e => Current(req'[s], u, used[e])
                        /\ \A s, t \in Requests : Writes(req'[s], e) /\ Writes(req'[t], e) => s = t
  <2>1. \A s \in Requests : Writes(req'[s], e) => Writes(req[s], e)
    BY <1>1, RowFacts DEF Writes, WritePoints
  <2>2. e \notin clash => \A s \in Requests : req'[s].e = e => Current(req'[s], u, used[e])
    BY <1>1, <1>4, RowFacts DEF AccountOK, Current
  <2> QED BY <1>4, <2>1, <2>2 DEF AccountOK
<1>6. Sensible(req'[r]) /\ (req'[r] = req[r] \/ req'[r].at = "idle")
  BY <1>1, RowFacts DEF AccountsInv
<1> QED BY <1>1, <1>2, <1>3, <1>5, <1>6, OneAccount

LEMMA NewUserFacts ==
    ASSUME NEW p \in Passwords \cup {Sentinel}
    PROVE  /\ NewUser(p) \in UserRow /\ NewUser(p).exists /\ NewUser(p).sv = 0 /\ NewUser(p).codes = {}
           /\ \A b \in BOOLEAN : /\ [NewUser(p) EXCEPT !.super = b] \in UserRow
                                 /\ [NewUser(p) EXCEPT !.super = b].exists
                                 /\ [NewUser(p) EXCEPT !.super = b].sv = 0
                                 /\ [NewUser(p) EXCEPT !.super = b].codes = {}
           /\ \A k \in Roles : /\ [NewUser(p) EXCEPT !.role = k] \in UserRow
                               /\ [NewUser(p) EXCEPT !.role = k].exists
                               /\ [NewUser(p) EXCEPT !.role = k].sv = 0
                               /\ [NewUser(p) EXCEPT !.role = k].codes = {}
<1>1. NewUser(p) \in UserRow /\ NewUser(p).exists /\ NewUser(p).sv = 0 /\ NewUser(p).codes = {}
  BY RowFacts DEF NewUser, UserRow
<1> QED BY <1>1 DEF UserRow

(* Insert: an address that is taken is left alone. *)
LEMMA Inserted ==
    ASSUME AccountsInv, NEW r \in Requests, NEW e \in Emails, NEW u \in UserRow,
           Insert(e, u), u.exists, u.sv = 0, u.codes = {},
           UNCHANGED req \/ Done(r), UNCHANGED <<tokens, revoked, used, clash>>
    PROVE  AccountsInv'
<1>1. user \in [Emails -> UserRow] /\ user[e] \in UserRow /\ AccountOK(e)
  BY DEF AccountsInv, TypesOK
<1>2. CASE user[e].exists
  <2>1. user' = [user EXCEPT ![e] = user[e]]
    BY <1>1, <1>2 DEF Insert
  <2> QED BY <1>1, <1>2, <2>1, VersionKept
<1>3. CASE ~user[e].exists
  <2>1. user' = [user EXCEPT ![e] = u] /\ user[e].sv = 0
    BY <1>1, <1>3 DEF Insert, AccountOK
  <2> QED BY <2>1, VersionKept
<1> QED BY <1>2, <1>3

LEMMA SetupCreatesStep ==
    ASSUME AccountsInv, NEW r \in Requests, SetupCreates(r) PROVE AccountsInv'
<1>1. req[r].e \in Emails /\ req[r].arg \in Passwords
  BY ReqFacts DEF SetupCreates, Sensible
<1>2. /\ Insert(req[r].e, [NewUser(req[r].arg) EXCEPT !.super = TRUE]) /\ Done(r)
      /\ UNCHANGED <<tokens, revoked, used, clash>>
  BY DEF SetupCreates, NoHistory
<1> DEFINE u == [NewUser(req[r].arg) EXCEPT !.super = TRUE]
<1>3. u \in UserRow /\ u.exists /\ u.sv = 0 /\ u.codes = {}
  BY <1>1, NewUserFacts
<1> HIDE DEF u
<1> QED BY <1>1, <1>2, <1>3, Inserted DEF u

LEMMA CreateForTenantStep ==
    ASSUME AccountsInv, NEW r \in Requests, NEW by \in Emails, NEW e \in Emails,
           NEW p \in Passwords, NEW k \in Roles, CreateForTenant(r, by, e, p, k)
    PROVE  AccountsInv'
<1> DEFINE u == [NewUser(p) EXCEPT !.role = k]
<1>1. Insert(e, u) /\ UNCHANGED <<req, tokens, revoked, used, clash>>
  BY DEF CreateForTenant, NoHistory
<1>2. u \in UserRow /\ u.exists /\ u.sv = 0 /\ u.codes = {}
  BY NewUserFacts
<1> HIDE DEF u
<1> QED BY <1>1, <1>2, Inserted

LEMMA ResolveExternalStep ==
    ASSUME AccountsInv, NEW r \in Requests, NEW e \in Emails, ResolveExternal(r, e)
    PROVE  AccountsInv'
<1> DEFINE v == Provisioned(user[e])
           u == Promoted(e, v)
<1>1. user[e] \in UserRow /\ AccountOK(e)
  BY DEF AccountsInv, TypesOK
<1>2. v \in UserRow /\ v.exists /\ v.sv = user[e].sv /\ v.codes \subseteq user[e].codes
  <2>1. CASE user[e].exists
    BY <1>1, <2>1 DEF Provisioned
  <2>2. CASE ~user[e].exists
    BY <1>1, <2>2, NewUserFacts DEF Provisioned, AccountOK
  <2> QED BY <2>1, <2>2
<1>3. user' = [user EXCEPT ![e] = u] /\ UNCHANGED <<req, tokens, revoked, used, clash>>
  BY DEF ResolveExternal, NoHistory
<1> HIDE DEF v
<1>4. u \in UserRow /\ u.exists /\ u.sv = v.sv /\ u.codes = v.codes
  <2>1. (v.super \/ e = AdminEmail) \in BOOLEAN
    OBVIOUS
  <2> QED BY <1>2, <2>1 DEF Promoted, UserRow
<1> HIDE DEF u
<1> QED BY <1>2, <1>3, <1>4, VersionKept

LEMMA TickStep == ASSUME AccountsInv, Tick PROVE AccountsInv'
<1>1. UNCHANGED <<user, req, revoked, used, clash>>
  BY DEF Tick, NoHistory
<1>2. \A t \in tokens' : t \in TokenRow /\ \E o \in tokens : t.e = o.e /\ t.sv = o.sv /\ t.born = o.born
  <2> DEFINE Older(t) == [t EXCEPT !.age = IF t.age < TokenAge THEN t.age + 1 ELSE t.age]
  <2>1. tokens' = {Older(t) : t \in tokens}
    BY DEF Tick
  <2>2. ASSUME NEW t \in TokenRow
        PROVE  Older(t) \in TokenRow /\ Older(t).e = t.e /\ Older(t).sv = t.sv /\ Older(t).born = t.born
    <3> DEFINE a == IF t.age < TokenAge THEN t.age + 1 ELSE t.age
    <3>1. t.age \in Nat
      BY DEF TokenRow
    <3>2. a \in Nat
      BY <3>1
    <3> HIDE DEF a
    <3> QED BY <3>2 DEF TokenRow, a
  <2>3. \A t \in tokens : t \in TokenRow
    BY DEF AccountsInv, TypesOK
  <2> HIDE DEF Older
  <2> QED BY <2>1, <2>2, <2>3
<1>3. TypesOK'
  BY <1>1, <1>2 DEF AccountsInv, TypesOK
<1>4. TokensOK'
  BY <1>1, <1>2 DEF AccountsInv, TokensOK
<1>5. \A e \in Emails : AccountOK(e)'
  BY <1>1 DEF AccountsInv, AccountOK
<1> QED BY <1>1, <1>3, <1>4, <1>5 DEF AccountsInv

-----------------------------------------------------------------------------
LEMMA AccountsInit == Init => AccountsInv
<1> SUFFICES ASSUME Init PROVE AccountsInv
  OBVIOUS
<1>1. /\ tokens = {} /\ req = [r \in Requests |-> Idle] /\ revoked = [e \in Emails |-> 0]
      /\ used = [e \in Emails |-> {}] /\ clash = {}
  BY DEF Init
<1>2. user \in [Emails -> UserRow] /\ \A e \in Emails : user[e].sv = 0
  <2>1. CASE user = [e \in Emails |-> NoUser]
    BY <2>1, RowFacts
  <2>2. ASSUME NEW x \in Emails, NEW p \in Passwords,
               user = [[y \in Emails |-> NoUser] EXCEPT ![x] = [NewUser(p) EXCEPT !.super = TRUE]]
        PROVE  user \in [Emails -> UserRow] /\ \A e \in Emails : user[e].sv = 0
    <3> DEFINE u == [NewUser(p) EXCEPT !.super = TRUE]
    <3>1. u \in UserRow /\ u.sv = 0
      BY NewUserFacts
    <3> HIDE DEF u
    <3> QED BY <2>2, <3>1, RowFacts DEF u
  <2> QED BY <2>1, <2>2 DEF Init
<1>3. \A r \in Requests : req[r] = Idle
  BY <1>1
<1>4. TypesOK /\ TokensOK
  BY <1>1, <1>2, RowFacts DEF TypesOK, TokensOK
<1>5. \A e \in Emails : AccountOK(e)
  BY <1>1, <1>2, <1>3, RowFacts DEF AccountOK, Current, Writes, Revokes, WritePoints
<1> QED BY <1>3, <1>4, <1>5, RowFacts DEF AccountsInv

LEMMA BeginStep ==
    ASSUME AccountsInv, NEW r \in Requests, Begin(r) PROVE AccountsInv'
BY LoginChecksLockoutStep, SetupCountsStep, PasswordReadsStep, EnableTotpStep,
   VerifyByAuthenticatorStep, VerifyByBackupCodeStep, ResolveExternalStep, CreateForTenantStep,
   UpdateReadsStep DEF Begin

(* AccountsInv holds in every reachable state. *)
THEOREM AccountsInvariant == Spec => []AccountsInv
<1>1. AccountsInv /\ [Next]_vars => AccountsInv'
  <2> SUFFICES ASSUME AccountsInv, [Next]_vars PROVE AccountsInv'
    OBVIOUS
  <2>1. CASE UNCHANGED vars
    BY <2>1 DEF vars, AccountsInv, TypesOK, TokensOK, AccountOK
  <2>2. CASE Tick
    BY <2>2, TickStep
  <2>3. ASSUME NEW r \in Requests, LoginStep(r) PROVE AccountsInv'
    BY <2>3, LoginComparesPasswordStep, LoginLoadsUserStep, LoginIsRefusedStep, LoginIsGrantedStep
    DEF LoginStep
  <2>4. ASSUME NEW r \in Requests, WriteStep(r) PROVE AccountsInv'
    BY <2>4, ConsumeBackupCodeStep, DisableTotpStep, SetupCreatesStep, UpdateCommitsStep,
       PasswordCommitsStep DEF WriteStep
  <2> QED BY <2>1, <2>2, <2>3, <2>4, BeginStep DEF Next
<1> QED BY <1>1, AccountsInit, PTL DEF Spec

(* A token made before a new password or a deactivation is refused, unless *)
(* two updates of the user have overlapped.                                *)
THEOREM RevocationHolds == Spec => []RevokedTokensStayOut
<1>1. AccountsInv => RevokedTokensStayOut
  <2> SUFFICES ASSUME AccountsInv, NEW t \in tokens, t.e \notin clash, t.born < revoked[t.e]
               PROVE  ~Accepted(t)
    BY DEF RevokedTokensStayOut
  <2>1. t \in TokenRow
    BY DEF AccountsInv, TypesOK
  <2>2. t.e \in Emails /\ t.sv \in Nat /\ t.born \in Nat
    BY <2>1 DEF TokenRow
  <2>3. t.sv <= t.born /\ user[t.e].sv = revoked[t.e] /\ revoked[t.e] \in Nat
    BY <2>2 DEF AccountsInv, TokensOK, AccountOK, TypesOK
  <2> QED BY <2>2, <2>3 DEF Accepted
<1> QED BY <1>1, AccountsInvariant, PTL

(* A backup code that was accepted is not in the list again before new     *)
(* ones are issued, unless two updates of the user have overlapped.        *)
THEOREM CodesWorkOnce == Spec => []UsedCodesAreGone
<1>1. AccountsInv => UsedCodesAreGone
  BY DEF AccountsInv, AccountOK, UsedCodesAreGone
<1> QED BY <1>1, AccountsInvariant, PTL

-----------------------------------------------------------------------------
(* The lockout.  Attempts are in the order of their times, and the failed  *)
(* comparisons together with the requests that are about to compare stay   *)
(* under the bound.                                                        *)
AttemptRow == [ok : BOOLEAN, age : Nat, tested : BOOLEAN]
AttemptsOK ==
    /\ attempts \in [Emails -> Seq(AttemptRow)]
    /\ \A e \in Emails : \A i, j \in DOMAIN attempts[e] : i <= j => attempts[e][j].age <= attempts[e][i].age
Comparing(e) == {r \in Requests : req[r].e = e /\ req[r].at \in {"creds", "load", "wrong"}}
Bounded(e) == Cardinality(Tested(e)) + Cardinality(Comparing(e)) < MaxFailed + Cardinality(Requests)
LockoutInv == AttemptsOK /\ \A e \in Emails : Bounded(e)

(* The sets that are counted are finite. *)
LEMMA LockoutSets ==
    ASSUME AttemptsOK, NEW e \in Emails
    PROVE  /\ IsFiniteSet(ConsecutiveFailures(e)) /\ Cardinality(ConsecutiveFailures(e)) \in Nat
           /\ IsFiniteSet(Tested(e)) /\ Cardinality(Tested(e)) \in Nat
           /\ Cardinality(Tested(e)) <= Cardinality(ConsecutiveFailures(e))
           /\ IsFiniteSet(Comparing(e)) /\ Cardinality(Comparing(e)) \in Nat
           /\ Cardinality(Requests) \in Nat
<1>1. Len(attempts[e]) \in Nat /\ DOMAIN attempts[e] = 1..Len(attempts[e])
  BY DEF AttemptsOK
<1>2. IsFiniteSet(1..Len(attempts[e]))
  BY <1>1, FS_Interval
<1>3. ConsecutiveFailures(e) \in SUBSET (1..Len(attempts[e])) /\ Tested(e) \in SUBSET ConsecutiveFailures(e)
  BY <1>1 DEF ConsecutiveFailures, RecentAttempts, Tested
<1>4. IsFiniteSet(ConsecutiveFailures(e))
  BY <1>2, <1>3, FS_Subset
<1>5. IsFiniteSet(Tested(e)) /\ Cardinality(Tested(e)) <= Cardinality(ConsecutiveFailures(e))
  BY <1>3, <1>4, FS_Subset
<1>6. IsFiniteSet(Requests) /\ Comparing(e) \in SUBSET Requests
  BY AccountsAssumption DEF Comparing
<1>7. IsFiniteSet(Comparing(e))
  BY <1>6, FS_Subset
<1> QED BY <1>4, <1>5, <1>6, <1>7, FS_CardinalityType

(* Fewer of both are no more. *)
LEMMA FewerBounded ==
    ASSUME LockoutInv, NEW e \in Emails, Tested(e)' \subseteq Tested(e), Comparing(e)' \subseteq Comparing(e)
    PROVE  Bounded(e)'
<1>1. AttemptsOK /\ Bounded(e)
  BY DEF LockoutInv
<1>2. /\ Cardinality(Tested(e)') <= Cardinality(Tested(e)) /\ Cardinality(Tested(e)') \in Nat
      /\ Cardinality(Tested(e)) \in Nat
  BY <1>1, LockoutSets, FS_Subset, FS_CardinalityType
<1>3. /\ Cardinality(Comparing(e)') <= Cardinality(Comparing(e)) /\ Cardinality(Comparing(e)') \in Nat
      /\ Cardinality(Comparing(e)) \in Nat
  BY <1>1, LockoutSets, FS_Subset, FS_CardinalityType
<1>4. MaxFailed \in Nat /\ Cardinality(Requests) \in Nat
  BY <1>1, LockoutSets, AccountsAssumption
<1>5. Bounded(e)' = (Cardinality(Tested(e)') + Cardinality(Comparing(e)') < MaxFailed + Cardinality(Requests))
  BY DEF Bounded
<1> QED BY <1>1, <1>2, <1>3, <1>4, <1>5 DEF Bounded

(* A step that records nothing and lets nobody compare. *)
LEMMA NobodyCompares ==
    ASSUME LockoutInv, UNCHANGED attempts, \A e \in Emails : Comparing(e)' \subseteq Comparing(e)
    PROVE  LockoutInv'
<1>1. AttemptsOK'
  BY DEF LockoutInv, AttemptsOK
<1>2. \A e \in Emails : Tested(e)' = Tested(e)
  BY DEF Tested, ConsecutiveFailures, RecentAttempts
<1> QED BY <1>1, <1>2, FewerBounded DEF LockoutInv

(* The step changes one request, and not to one that may compare. *)
LEMMA OneRequestMoves ==
    ASSUME AccountsInv, NEW r \in Requests, NEW q, req' = [req EXCEPT ![r] = q],
           q.at \in {"creds", "load", "wrong"} =>
               q.e = req[r].e /\ req[r].at \in {"creds", "load", "wrong"}
    PROVE  \A e \in Emails : Comparing(e)' \subseteq Comparing(e)
<1>1. req'[r] = q /\ \A s \in Requests \ {r} : req'[s] = req[s]
  BY DEF AccountsInv, TypesOK
<1> QED BY <1>1 DEF Comparing

(* A new row of login_attempts. *)
LEMMA Recorded ==
    ASSUME AttemptsOK, NEW e \in Emails, NEW ok \in BOOLEAN, NEW tested \in BOOLEAN,
           attempts' = [attempts EXCEPT ![e] = Append(@, Attempt(ok, tested))]
    PROVE  /\ AttemptsOK'
           /\ \A x \in Emails \ {e} : Tested(x)' = Tested(x)
           /\ ok => Tested(e)' = {}
           /\ ~ok => Tested(e)' = IF tested THEN Tested(e) \cup {Len(attempts[e]) + 1} ELSE Tested(e)
           /\ Len(attempts[e]) + 1 \notin Tested(e)
<1> DEFINE n == Len(attempts[e]) + 1
           a == attempts[e]
           b == attempts'[e]
<1>0. Window \in Nat
  BY AccountsAssumption
<1>1. /\ a \in Seq(AttemptRow) /\ Len(a) \in Nat /\ DOMAIN a = 1..Len(a)
      /\ \A i \in DOMAIN a : a[i] \in AttemptRow
  BY DEF AttemptsOK
<1>2. /\ Attempt(ok, tested) \in AttemptRow /\ Attempt(ok, tested).ok = ok
      /\ Attempt(ok, tested).age = 0 /\ Attempt(ok, tested).tested = tested
  BY DEF Attempt, AttemptRow
<1>3. attempts' \in [Emails -> Seq(AttemptRow)] /\ \A x \in Emails \ {e} : attempts'[x] = attempts[x]
  BY <1>1, <1>2 DEF AttemptsOK
<1>4. b = Append(a, Attempt(ok, tested))
  BY DEF AttemptsOK
<1>5. /\ DOMAIN b = DOMAIN a \cup {n} /\ n \notin DOMAIN a /\ n \in Nat /\ \A i \in DOMAIN a : i < n /\ i \in Nat
      /\ b[n] = Attempt(ok, tested) /\ \A i \in DOMAIN a : b[i] = a[i]
  BY <1>1, <1>2, <1>4
<1> HIDE DEF n, a, b
<1>a. \A i \in DOMAIN a : a[i].age \in Nat
  BY <1>1 DEF AttemptRow
<1>6. AttemptsOK'
  <2>1. \A i, j \in DOMAIN b : i <= j => b[j].age <= b[i].age
    <3> TAKE i, j \in DOMAIN b
    <3> HAVE i <= j
    <3>1. CASE i \in DOMAIN a /\ j \in DOMAIN a
      BY <1>5, <3>1 DEF AttemptsOK, a
    <3>2. CASE j = n
      BY <1>2, <1>5, <1>a, <3>2
    <3>3. CASE i = n /\ j \in DOMAIN a
      BY <1>5, <3>3
    <3> QED BY <1>5, <3>1, <3>2, <3>3
  <2> QED BY <1>3, <2>1 DEF AttemptsOK, b
<1>7. ASSUME NEW x \in Emails \ {e} PROVE Tested(x)' = Tested(x)
  BY <1>3 DEF Tested, ConsecutiveFailures, RecentAttempts
<1>8. RecentAttempts(e)' = RecentAttempts(e) \cup {n}
  <2>1. RecentAttempts(e)' = {i \in DOMAIN b : b[i].age <= Window}
    BY DEF RecentAttempts, b
  <2>2. RecentAttempts(e) = {i \in DOMAIN a : a[i].age <= Window}
    BY DEF RecentAttempts, a
  <2>3. b[n].age <= Window
    BY <1>0, <1>2, <1>5
  <2> QED BY <1>5, <2>1, <2>2, <2>3
<1>9. RecentAttempts(e) \subseteq DOMAIN a
  BY DEF RecentAttempts, a
<1>10. ConsecutiveFailures(e)' =
          {i \in RecentAttempts(e) \cup {n} : \A j \in RecentAttempts(e) \cup {n} : i <= j => ~b[j].ok}
  BY <1>8 DEF ConsecutiveFailures, b
<1>11. Tested(e)' = {i \in ConsecutiveFailures(e)' : b[i].tested}
  BY DEF Tested, b
<1>12. CASE ok
  <2>1. ConsecutiveFailures(e)' = {}
    <3>1. \A i \in RecentAttempts(e) \cup {n} : i <= n
      BY <1>5, <1>9
    <3>2. b[n].ok
      BY <1>2, <1>5, <1>12, Zenon
    <3> QED BY <1>10, <3>1, <3>2
  <2>2. Tested(e)' = {}
    BY <1>11, <2>1
  <2> QED BY <1>5, <1>6, <1>7, <1>9, <1>12, <2>2 DEF Tested, ConsecutiveFailures, n
<1>13. CASE ~ok
  <2>1. ConsecutiveFailures(e) =
          {i \in RecentAttempts(e) : \A j \in RecentAttempts(e) : i <= j => ~a[j].ok}
    BY DEF ConsecutiveFailures, a
  <2>2. ConsecutiveFailures(e)' = ConsecutiveFailures(e) \cup {n}
    <3>1. \A i \in RecentAttempts(e) : ~(n <= i) /\ b[i] = a[i]
      BY <1>5, <1>9
    <3>2. ~b[n].ok
      BY <1>2, <1>5, <1>13
    <3> QED BY <1>10, <2>1, <3>1, <3>2
  <2>3. Tested(e) = {i \in ConsecutiveFailures(e) : a[i].tested}
    BY DEF Tested, a
  <2>4. ConsecutiveFailures(e) \subseteq DOMAIN a
    BY <1>9, <2>1
  <2>5. b[n].tested = tested
    BY <1>2, <1>5
  <2>6. Tested(e)' = IF tested THEN Tested(e) \cup {n} ELSE Tested(e)
    BY <1>5, <1>11, <2>2, <2>3, <2>4, <2>5
  <2>7. n \notin Tested(e)
    BY <1>5, <2>3, <2>4
  <2> QED BY <1>6, <1>7, <1>13, <2>6, <2>7 DEF n
<1> QED BY <1>12, <1>13

(* check_lockout lets through only while there are fewer failures than the *)
(* limit: the newest one is recent, so it is not older than the lockout.   *)
LEMMA LetThrough ==
    ASSUME AttemptsOK, Window <= Duration, NEW e \in Emails, ~Locked(e)
    PROVE  Cardinality(ConsecutiveFailures(e)) < MaxFailed
<1> SUFFICES ASSUME ~(Cardinality(ConsecutiveFailures(e)) < MaxFailed) PROVE FALSE
  OBVIOUS
<1> DEFINE n == Len(attempts[e])
<1>0. MaxFailed \in Nat \ {0} /\ Window \in Nat /\ Duration \in Nat
  BY AccountsAssumption
<1>1. Cardinality(ConsecutiveFailures(e)) >= MaxFailed /\ Cardinality(ConsecutiveFailures(e)) \in Nat
  BY <1>0, LockoutSets
<1>2. ConsecutiveFailures(e) # {}
  <2> SUFFICES ASSUME ConsecutiveFailures(e) = {} PROVE FALSE
    OBVIOUS
  <2>1. Cardinality(ConsecutiveFailures(e)) = 0
    BY FS_EmptySet
  <2> QED BY <1>0, <1>1, <2>1
<1>3. PICK i \in RecentAttempts(e) : TRUE
  BY <1>2 DEF ConsecutiveFailures
<1>4. /\ n \in Nat /\ DOMAIN attempts[e] = 1..n /\ \A k \in 1..n : attempts[e][k] \in AttemptRow
  BY DEF AttemptsOK
<1>5. i \in 1..n /\ n \in 1..n /\ attempts[e][i].age <= Window
  BY <1>3, <1>4 DEF RecentAttempts
<1>6. attempts[e][n].age <= attempts[e][i].age
  BY <1>4, <1>5 DEF AttemptsOK
<1>7. attempts[e][n].age \in Nat /\ attempts[e][i].age \in Nat
  BY <1>4, <1>5 DEF AttemptRow
<1>8. attempts[e][n].age <= Window /\ attempts[e][n].age <= Duration
  BY <1>0, <1>5, <1>6, <1>7
<1>9. n \in RecentAttempts(e) /\ \A j \in RecentAttempts(e) : j <= n
  BY <1>4, <1>5, <1>8 DEF RecentAttempts
<1> QED BY <1>1, <1>8, <1>9 DEF Locked

(* The check of the lockout. *)
LEMMA LockoutChecked ==
    ASSUME AccountsInv, LockoutInv, Window <= Duration, NEW r \in Requests, NEW e \in Emails,
           NEW p \in Passwords, LoginChecksLockout(r, e, p)
    PROVE  LockoutInv'
<1> DEFINE q == [at |-> IF Locked(e) THEN "locked" ELSE "creds", e |-> e, arg |-> p, row |-> NoUser, born |-> 0]
<1>1. req' = [req EXCEPT ![r] = q] /\ UNCHANGED attempts
  BY DEF LoginChecksLockout, Start, db
<1>2. q.at = (IF Locked(e) THEN "locked" ELSE "creds") /\ q.e = e
  OBVIOUS
<1> HIDE DEF q
<1>3. CASE Locked(e)
  BY <1>1, <1>2, <1>3, OneRequestMoves, NobodyCompares
<1>4. CASE ~Locked(e)
  <2>1. req'[r] = q /\ \A s \in Requests \ {r} : req'[s] = req[s]
    BY <1>1 DEF AccountsInv, TypesOK
  <2>2. AttemptsOK' /\ \A x \in Emails : Tested(x)' = Tested(x)
    BY <1>1 DEF LockoutInv, AttemptsOK, Tested, ConsecutiveFailures, RecentAttempts
  <2>3. \A x \in Emails \ {e} : Bounded(x)'
    <3> TAKE x \in Emails \ {e}
    <3>1. req'[r].at # req[r].at /\ req'[r].e = e
      BY <1>2, <1>4, <2>1 DEF LoginChecksLockout, Start
    <3>2. Comparing(x)' \subseteq Comparing(x)
      BY <2>1, <3>1 DEF Comparing
    <3> QED BY <2>2, <3>2, FewerBounded
  <2>4. Bounded(e)'
    <3>1. AttemptsOK /\ MaxFailed \in Nat
      BY AccountsAssumption DEF LockoutInv
    <3>2. /\ Cardinality(Tested(e)) < MaxFailed /\ Cardinality(Tested(e)) \in Nat
          /\ Cardinality(Requests) \in Nat
      <4>1. Cardinality(ConsecutiveFailures(e)) < MaxFailed
        BY <1>4, <3>1, LetThrough
      <4> QED BY <3>1, <4>1, LockoutSets
    <3>3. Comparing(e)' \in SUBSET Requests /\ IsFiniteSet(Requests)
      BY AccountsAssumption DEF Comparing
    <3>4. Cardinality(Comparing(e)') <= Cardinality(Requests) /\ Cardinality(Comparing(e)') \in Nat
      BY <3>3, FS_Subset, FS_CardinalityType
    <3>5. Cardinality(Tested(e)) + Cardinality(Comparing(e)') < MaxFailed + Cardinality(Requests)
      BY <3>1, <3>2, <3>4
    <3>6. Cardinality(Tested(e)') = Cardinality(Tested(e))
      BY <2>2
    <3> QED BY <3>5, <3>6 DEF Bounded
  <2> QED BY <2>2, <2>3, <2>4 DEF LockoutInv
<1> QED BY <1>3, <1>4

(* The other requests that begin. *)
LEMMA OthersBegin ==
    ASSUME AccountsInv, LockoutInv, NEW r \in Requests, Begin(r),
           ~(\E e \in Emails, p \in Passwords : LoginChecksLockout(r, e, p))
    PROVE  LockoutInv'
<1>1. ASSUME UNCHANGED <<attempts, req>> PROVE LockoutInv'
  BY <1>1, NobodyCompares DEF Comparing
<1>2. ASSUME NEW at \in {"setup", "passwd", "disable", "consume", "update"}, NEW e, NEW arg, NEW row,
             Start(r, at, e, arg, row, 0), UNCHANGED attempts
      PROVE  LockoutInv'
  <2> DEFINE q == [at |-> at, e |-> e, arg |-> arg, row |-> row, born |-> 0]
  <2>1. req' = [req EXCEPT ![r] = q] /\ q.at = at
    BY <1>2 DEF Start
  <2> HIDE DEF q
  <2> QED BY <1>2, <2>1, OneRequestMoves, NobodyCompares
<1>3. ASSUME NEW e \in Emails, EnableTotp(r, e) \/ ResolveExternal(r, e) PROVE LockoutInv'
  BY <1>1, <1>3 DEF EnableTotp, ResolveExternal
<1>4. ASSUME NEW e \in Emails, NEW p \in Passwords, SetupCounts(r, e, p) \/ PasswordReads(r, e, p)
      PROVE  LockoutInv'
  BY <1>2, <1>4 DEF SetupCounts, PasswordReads, db
<1>5. ASSUME NEW e \in Emails, NEW goal, VerifyByAuthenticator(r, e, goal) PROVE LockoutInv'
  BY <1>1, <1>2, <1>5 DEF VerifyByAuthenticator
<1>6. ASSUME NEW e \in Emails, NEW goal, NEW c, VerifyByBackupCode(r, e, goal, c) PROVE LockoutInv'
  BY <1>2, <1>6 DEF VerifyByBackupCode, db
<1>7. ASSUME NEW e \in Emails, NEW by \in Emails, NEW p, NEW role, CreateForTenant(r, by, e, p, role)
      PROVE  LockoutInv'
  BY <1>1, <1>7 DEF CreateForTenant
<1>8. ASSUME NEW e \in Emails, NEW by \in Emails, NEW c, UpdateReads(r, by, e, c) PROVE LockoutInv'
  BY <1>2, <1>8 DEF UpdateReads, db
<1> QED BY <1>3, <1>4, <1>5, <1>6, <1>7, <1>8 DEF Begin

(* A row of login_attempts is written for a request that ends. *)
LEMMA AttemptRecorded ==
    ASSUME AccountsInv, LockoutInv, NEW r \in Requests, req[r].at \in {"locked", "wrong", "grant"}, Done(r),
           NEW e \in Emails, req[r].e = e,
           NEW ok \in BOOLEAN, ok <=> req[r].at = "grant",
           NEW tested \in BOOLEAN, ~ok => (tested <=> req[r].at = "wrong"),
           RecordAttempt(e, ok, tested)
    PROVE  LockoutInv'
<1>1. \A x \in Emails : Comparing(x)' \subseteq Comparing(x)
  BY RowFacts, OneRequestMoves DEF Done
<1>2. CASE UNCHANGED attempts
  BY <1>1, <1>2, NobodyCompares
<1>3. CASE attempts' = [attempts EXCEPT ![e] = Append(@, Attempt(ok, tested))]
  <2>1. AttemptsOK
    BY DEF LockoutInv
  <2>2. /\ AttemptsOK'
        /\ \A x \in Emails \ {e} : Tested(x)' = Tested(x)
        /\ ok => Tested(e)' = {}
        /\ ~ok => Tested(e)' = IF tested THEN Tested(e) \cup {Len(attempts[e]) + 1} ELSE Tested(e)
        /\ Len(attempts[e]) + 1 \notin Tested(e)
    BY <1>3, <2>1, Recorded
  <2>3. \A x \in Emails \ {e} : Bounded(x)'
    BY <1>1, <2>2, FewerBounded
  <2>4. CASE ok \/ ~tested
    <3>1. Tested(e)' \subseteq Tested(e)
      BY <2>2, <2>4
    <3>2. Bounded(e)'
      BY <1>1, <3>1, FewerBounded
    <3> QED BY <2>2, <2>3, <3>2 DEF LockoutInv
  <2>5. CASE ~ok /\ tested
    <3> DEFINE n == Len(attempts[e]) + 1
    <3>1. Tested(e)' = Tested(e) \cup {n} /\ n \notin Tested(e)
      BY <2>2, <2>5
    <3>2. r \in Comparing(e)
      BY <2>5 DEF Comparing
    <3>3. Comparing(e)' = Comparing(e) \ {r}
      <4>1. req'[r].at = "idle" /\ \A s \in Requests \ {r} : req'[s] = req[s]
        BY RowFacts DEF Done, AccountsInv, TypesOK
      <4>2. \A s \in Requests : s \in Comparing(e)' <=> s \in Comparing(e) \ {r}
        <5> TAKE s \in Requests
        <5>1. CASE s = r
          BY <4>1, <5>1 DEF Comparing
        <5>2. CASE s # r
          BY <4>1, <5>2 DEF Comparing
        <5> QED BY <5>1, <5>2
      <4> QED BY <4>2 DEF Comparing
    <3> HIDE DEF n
    <3>4. IsFiniteSet(Tested(e)) /\ IsFiniteSet(Comparing(e))
      BY <2>1, LockoutSets
    <3>5. Cardinality(Tested(e)') = Cardinality(Tested(e)) + 1
      <4>1. Cardinality(Tested(e) \cup {n}) = IF n \in Tested(e) THEN Cardinality(Tested(e))
                                                               ELSE Cardinality(Tested(e)) + 1
        BY <3>4, FS_AddElement
      <4> QED BY <3>1, <4>1
    <3>6. Cardinality(Comparing(e)') = Cardinality(Comparing(e)) - 1
      BY <3>2, <3>3, <3>4, FS_RemoveElement
    <3>7. /\ Cardinality(Tested(e)) \in Nat /\ Cardinality(Comparing(e)) \in Nat
          /\ Cardinality(Requests) \in Nat /\ MaxFailed \in Nat
      BY <2>1, LockoutSets, AccountsAssumption
    <3>8. Cardinality(Tested(e)) + Cardinality(Comparing(e)) < MaxFailed + Cardinality(Requests)
      BY DEF LockoutInv, Bounded
    <3>9. Cardinality(Tested(e)') + Cardinality(Comparing(e)') < MaxFailed + Cardinality(Requests)
      BY <3>5, <3>6, <3>7, <3>8
    <3>10. \A x \in Emails : Bounded(x)'
      BY <2>3, <3>9 DEF Bounded
    <3> QED BY <2>2, <3>10 DEF LockoutInv
  <2> QED BY <2>4, <2>5
<1> QED BY <1>2, <1>3 DEF RecordAttempt

(* The other steps of a request. *)
LEMMA RequestGoesOn ==
    ASSUME AccountsInv, LockoutInv, NEW r \in Requests, LoginStep(r) \/ WriteStep(r)
    PROVE  LockoutInv'
<1>0. req[r] \in Request
  BY ReqFacts
<1>1. ASSUME NEW at \in {"load", "wrong", "disable"}, Becomes(r, at), UNCHANGED attempts,
             at # "disable" => req[r].at = "creds"
      PROVE  LockoutInv'
  <2> DEFINE q == [req[r] EXCEPT !.at = at]
  <2>1. q.at = at /\ q.e = req[r].e
    BY <1>0 DEF Request
  <2>2. req' = [req EXCEPT ![r] = q]
    BY <1>1 DEF Becomes
  <2> HIDE DEF q
  <2> QED BY <1>1, <2>1, <2>2, OneRequestMoves, NobodyCompares
<1>2. ASSUME Done(r), UNCHANGED attempts PROVE LockoutInv'
  BY <1>2, RowFacts, OneRequestMoves, NobodyCompares DEF Done
<1>3. CASE LoginComparesPassword(r)
  <2>1. \E at \in {"load", "wrong"} : Becomes(r, at)
    BY <1>3 DEF LoginComparesPassword
  <2> QED BY <1>1, <1>3, <2>1 DEF LoginComparesPassword, db
<1>4. CASE LoginLoadsUser(r)
  <2> DEFINE at == IF user[req[r].e].active THEN "grant" ELSE "wrong"
             q == [req[r] EXCEPT !.at = at, !.row = user[req[r].e], !.born = revoked[req[r].e]]
  <2>1. q.e = req[r].e
    BY <1>0 DEF Request
  <2>2. req' = [req EXCEPT ![r] = q] /\ UNCHANGED attempts /\ req[r].at = "load"
    BY <1>4 DEF LoginLoadsUser, db
  <2> HIDE DEF q
  <2> QED BY <2>1, <2>2, OneRequestMoves, NobodyCompares
<1>5. CASE LoginIsRefused(r)
  <2>1. /\ req[r].at \in {"locked", "wrong"} /\ Done(r) /\ req[r].e \in Emails
        /\ RecordAttempt(req[r].e, FALSE, req[r].at = "wrong")
    BY <1>5, ReqFacts DEF LoginIsRefused
  <2> QED BY <2>1, AttemptRecorded
<1>6. CASE LoginIsGranted(r)
  <2>1. req[r].at = "grant" /\ Done(r) /\ req[r].e \in Emails /\ RecordAttempt(req[r].e, TRUE, TRUE)
    BY <1>6, ReqFacts DEF LoginIsGranted
  <2> QED BY <2>1, AttemptRecorded
<1>7. CASE ConsumeBackupCode(r)
  BY <1>1, <1>2, <1>7 DEF ConsumeBackupCode
<1>8. CASE DisableTotp(r) \/ SetupCreates(r) \/ UpdateCommits(r) \/ PasswordCommits(r)
  BY <1>2, <1>8 DEF DisableTotp, SetupCreates, UpdateCommits, PasswordCommits
<1> QED BY <1>3, <1>4, <1>5, <1>6, <1>7, <1>8 DEF LoginStep, WriteStep

(* Time passes: an attempt that leaves the window takes the older ones     *)
(* with it, so that no success is forgotten before the failures it ended.  *)
LEMMA AttemptsAge ==
    ASSUME LockoutInv, Tick PROVE LockoutInv'
<1> DEFINE Older(n) == IF n < AttemptAge THEN n + 1 ELSE n
           Aged(a) == [a EXCEPT !.age = Older(a.age)]
<1>0. Window \in Nat /\ AttemptAge = Window + 1
  BY AccountsAssumption DEF AttemptAge
<1>1. /\ UNCHANGED req
      /\ attempts' = [e \in Emails |-> [i \in DOMAIN attempts[e] |-> Aged(attempts[e][i])]]
  BY DEF Tick
<1>2. ASSUME NEW a \in AttemptRow
      PROVE  /\ Aged(a) \in AttemptRow /\ Aged(a).ok = a.ok /\ Aged(a).tested = a.tested
             /\ Aged(a).age = Older(a.age)
  <2>1. a.age \in Nat
    BY DEF AttemptRow
  <2>2. Older(a.age) \in Nat
    BY <1>0, <2>1
  <2> HIDE DEF Older
  <2> QED BY <2>2 DEF AttemptRow
<1>3. /\ \A m, n \in Nat : m <= n => Older(m) <= Older(n)
      /\ \A n \in Nat : Older(n) <= Window => n <= Window
  BY <1>0
<1> HIDE DEF Older, Aged
<1>4. ASSUME NEW e \in Emails
      PROVE  /\ attempts[e] \in Seq(AttemptRow) /\ attempts'[e] \in Seq(AttemptRow)
             /\ DOMAIN attempts'[e] = DOMAIN attempts[e] /\ DOMAIN attempts[e] \subseteq Nat
             /\ \A i \in DOMAIN attempts[e] :
                   /\ attempts[e][i].age \in Nat /\ attempts'[e][i].age = Older(attempts[e][i].age)
                   /\ attempts'[e][i].ok = attempts[e][i].ok /\ attempts'[e][i].tested = attempts[e][i].tested
             /\ \A i, j \in DOMAIN attempts[e] : i <= j => attempts[e][j].age <= attempts[e][i].age
  <2> DEFINE a == attempts[e]
  <2>1. a \in Seq(AttemptRow) /\ \A i, j \in DOMAIN a : i <= j => a[j].age <= a[i].age
    BY DEF LockoutInv, AttemptsOK
  <2>2. Len(a) \in Nat /\ DOMAIN a = 1..Len(a) /\ \A i \in DOMAIN a : a[i] \in AttemptRow
    BY <2>1
  <2>3. attempts'[e] = [i \in DOMAIN a |-> Aged(a[i])]
    BY <1>1
  <2>4. attempts'[e] \in [1..Len(a) -> AttemptRow]
    BY <1>2, <2>2, <2>3
  <2>5. attempts'[e] \in Seq(AttemptRow)
    BY <2>2, <2>4
  <2>6. \A i \in DOMAIN a : /\ a[i].age \in Nat /\ attempts'[e][i].age = Older(a[i].age)
                            /\ attempts'[e][i].ok = a[i].ok /\ attempts'[e][i].tested = a[i].tested
    <3> TAKE i \in DOMAIN a
    <3>1. attempts'[e][i] = Aged(a[i]) /\ a[i] \in AttemptRow
      BY <2>2, <2>3
    <3>2. a[i].age \in Nat
      BY <3>1 DEF AttemptRow
    <3> QED BY <1>2, <3>1, <3>2
  <2>7. DOMAIN attempts'[e] = DOMAIN a /\ DOMAIN a \subseteq Nat
    BY <2>2, <2>3
  <2> QED BY <2>1, <2>5, <2>6, <2>7
<1>5. AttemptsOK'
  <2>1. attempts' \in [Emails -> Seq(AttemptRow)]
    BY <1>1, <1>4
  <2>2. ASSUME NEW e \in Emails, NEW i \in DOMAIN attempts'[e], NEW j \in DOMAIN attempts'[e], i <= j
        PROVE  attempts'[e][j].age <= attempts'[e][i].age
    BY <1>3, <1>4, <2>2
  <2> QED BY <2>1, <2>2 DEF AttemptsOK
<1>6. ASSUME NEW e \in Emails PROVE Tested(e)' \subseteq Tested(e)
  <2>1. \A i \in DOMAIN attempts[e] : attempts'[e][i].age <= Window => attempts[e][i].age <= Window
    BY <1>3, <1>4
  <2>2. RecentAttempts(e)' \subseteq RecentAttempts(e) /\ RecentAttempts(e) \subseteq DOMAIN attempts[e]
    BY <1>4, <2>1 DEF RecentAttempts
  <2>3. ASSUME NEW i \in RecentAttempts(e)', NEW j \in RecentAttempts(e), i <= j
        PROVE  j \in RecentAttempts(e)'
    <3>1. i \in DOMAIN attempts[e] /\ j \in DOMAIN attempts[e] /\ attempts'[e][i].age <= Window
      BY <1>4, <2>2 DEF RecentAttempts
    <3>2. attempts'[e][j].age <= attempts'[e][i].age
      BY <1>4, <1>5, <2>3, <3>1 DEF AttemptsOK
    <3>3. attempts'[e][i].age \in Nat /\ attempts'[e][j].age \in Nat
      <4>1. attempts'[e][i] \in AttemptRow /\ attempts'[e][j] \in AttemptRow
        BY <1>4, <3>1
      <4> QED BY <4>1 DEF AttemptRow
    <3>4. attempts'[e][j].age <= Window
      BY <1>0, <3>1, <3>2, <3>3
    <3> QED BY <1>4, <3>1, <3>4 DEF RecentAttempts
  <2>4. ConsecutiveFailures(e)' \subseteq ConsecutiveFailures(e)
    <3> SUFFICES ASSUME NEW i \in RecentAttempts(e)', NEW j \in RecentAttempts(e), i <= j,
                        \A k \in RecentAttempts(e)' : i <= k => ~attempts'[e][k].ok
                 PROVE  ~attempts[e][j].ok
      BY <2>2 DEF ConsecutiveFailures
    <3>1. ~attempts'[e][j].ok
      BY <2>3
    <3>2. attempts'[e][j].ok = attempts[e][j].ok
      BY <1>4, <2>2
    <3> QED BY <3>1, <3>2
  <2>5. \A i \in ConsecutiveFailures(e)' : attempts'[e][i].tested = attempts[e][i].tested
    BY <1>4, <2>2, <2>4 DEF ConsecutiveFailures
  <2>6. \A i \in ConsecutiveFailures(e)' : attempts'[e][i].tested => attempts[e][i].tested
    BY <2>5
  <2> QED BY <2>4, <2>6 DEF Tested
<1>7. \A e \in Emails : Comparing(e)' = Comparing(e)
  BY <1>1 DEF Comparing
<1> QED BY <1>5, <1>6, <1>7, FewerBounded DEF LockoutInv

(* check_lockout and record_login_attempt: between two successes no more   *)
(* passwords are compared within a window than the limit allows and one    *)
(* for each request under way, when the lockout lasts as long as the       *)
(* window, as it does in the code (30 and 15 minutes).                     *)
THEOREM OvershootStaysBounded == ASSUME Window <= Duration PROVE Spec => []OvershootIsBounded
<1>1. Init => LockoutInv
  <2> SUFFICES ASSUME Init PROVE LockoutInv
    OBVIOUS
  <2>1. attempts = [e \in Emails |-> <<>>] /\ \A r \in Requests : req[r] = Idle
    BY DEF Init
  <2>2. AttemptsOK
    BY <2>1 DEF AttemptsOK
  <2>3. ASSUME NEW e \in Emails PROVE Bounded(e)
    <3>1. Tested(e) = {}
      BY <2>1 DEF Tested, ConsecutiveFailures, RecentAttempts
    <3>2. Comparing(e) = {}
      BY <2>1, RowFacts DEF Comparing
    <3>3. Cardinality(Tested(e)) = 0 /\ Cardinality(Comparing(e)) = 0
      BY <3>1, <3>2, FS_EmptySet
    <3>4. MaxFailed \in Nat \ {0} /\ Cardinality(Requests) \in Nat
      BY <2>2, LockoutSets, AccountsAssumption
    <3> QED BY <3>3, <3>4 DEF Bounded
  <2> QED BY <2>2, <2>3 DEF LockoutInv
<1>2. AccountsInv /\ LockoutInv /\ [Next]_vars => LockoutInv'
  <2> SUFFICES ASSUME AccountsInv, LockoutInv, [Next]_vars PROVE LockoutInv'
    OBVIOUS
  <2>1. CASE UNCHANGED vars
    <3>1. UNCHANGED <<attempts, req>>
      BY <2>1 DEF vars
    <3> QED BY <3>1, NobodyCompares DEF Comparing
  <2>2. CASE Tick
    BY <2>2, AttemptsAge
  <2>3. ASSUME NEW r \in Requests, Begin(r) PROVE LockoutInv'
    BY <2>3, LockoutChecked, OthersBegin
  <2>4. ASSUME NEW r \in Requests, LoginStep(r) \/ WriteStep(r) PROVE LockoutInv'
    BY <2>4, RequestGoesOn
  <2> QED BY <2>1, <2>2, <2>3, <2>4 DEF Next
<1>3. LockoutInv => OvershootIsBounded
  <2> SUFFICES ASSUME LockoutInv, NEW e \in Emails
               PROVE  Cardinality(Tested(e)) < MaxFailed + Cardinality(Requests)
    BY DEF OvershootIsBounded
  <2>1. AttemptsOK /\ Bounded(e) /\ MaxFailed \in Nat
    BY AccountsAssumption DEF LockoutInv
  <2> QED BY <2>1, LockoutSets DEF Bounded
<1> QED BY <1>1, <1>2, <1>3, AccountsInvariant, PTL DEF Spec
=============================================================================
