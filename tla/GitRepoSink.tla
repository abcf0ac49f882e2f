----------------------------- MODULE GitRepoSink -----------------------------
(***************************************************************************)
(* Snapshots kept in a git repository.  Each installation has a clone; its *)
(* scheduler and its requests build a sink object each, with a lock of its *)
(* own, so their git commands meet in the clone.  Several clones push to   *)
(* one remote.  Every git command is one step; the process may end between *)
(* two of them.                                                            *)
(*                                                                         *)
(* Paths carry microseconds, so a bundle and its sidecar are stored once   *)
(* under their path and removed at most once: a history is the set of its  *)
(* changes, one history can be fast-forwarded to another that contains it, *)
(* and two histories rebase without conflicts.                             *)
(***************************************************************************)
EXTENDS Integers, FiniteSets, TLC

CONSTANTS Clones, Sinks, CloneOf, Blobs, None,
          Lfs,      \* lfs_enabled
          Faults,   \* among "net", "git" (a lock file, a full disk), "crash"
          MaxOps    \* bound: operations begun

ASSUME GitAssumption ==
    /\ CloneOf \in [Sinks -> Clones] /\ None \notin Blobs \cup Clones
    /\ Lfs \in BOOLEAN /\ MaxOps \in Nat

VARIABLES remote,   \* the branch at the forge: a set of changes
          clone,    \* clone[k]: the history, the index and the untracked files
          op,       \* op[s]: what a sink object is doing
          ops,      \* operations begun
          acked,    \* history: puts that returned
          warned,   \* history: changes reported as local only
          crashed,  \* history: clones whose process ended during an operation
          behind    \* history: clones that have not pushed since a push was
                    \*   given up or the process ended
hist == <<acked, warned, crashed, behind>>
vars == <<remote, clone, op, ops, hist>>

(* A change of the tree: a bundle and its sidecar come or go, or           *)
(* .gitattributes comes, by a commit of this clone.                        *)
Change(k, kind, b) == [kind |-> kind, b |-> b, by |-> k]
Has(log, kind, b) == \E x \in log : x.kind = kind /\ x.b = b

Idle == [at |-> "idle", kind |-> None, b |-> None]
Start == "clone"
Step(s, at) == op' = [op EXCEPT ![s].at = at]
Done(s) == op' = [op EXCEPT ![s] = Idle]

Init == /\ remote = {}
        /\ clone = [k \in Clones |-> [exists |-> FALSE, log |-> {}, index |-> {}, loose |-> {}]]
        /\ op = [s \in Sinks |-> Idle] /\ ops = 0
        /\ acked = {} /\ warned = {} /\ crashed = {} /\ behind = {}

(* What the working tree holds. *)
Tree(k) == LET log == clone[k].log \cup clone[k].index
           IN  {b \in Blobs : Has(log, "add", b) /\ ~Has(log, "del", b)} \cup clone[k].loose

(* _render_path: no two bundles have one path. *)
Used(b) == \/ \E s \in Sinks : op[s].b = b
           \/ \E k \in Clones : b \in clone[k].loose \/ Has(clone[k].log \cup clone[k].index, "add", b)

-----------------------------------------------------------------------------
(* Operations begin: put of a new bundle, delete, and get, verify or list. *)
Begin(s) ==
    /\ op[s] = Idle /\ ops < MaxOps /\ ops' = ops + 1
    /\ \/ \E b \in Blobs : ~Used(b) /\ op' = [op EXCEPT ![s] = [at |-> Start, kind |-> "put", b |-> b]]
       \/ \E b \in Blobs : op' = [op EXCEPT ![s] = [at |-> Start, kind |-> "delete", b |-> b]]
       \/ op' = [op EXCEPT ![s] = [at |-> Start, kind |-> "list", b |-> None]]
    /\ UNCHANGED <<remote, clone, hist>>

AfterInit(s) == IF op[s].kind = "put" THEN "write" ELSE "pull"

(* _sync_init: the clone is made or adopted.  A clone that fails with "not *)
(* found" is taken for an empty remote; any other failure is raised.       *)
Clone(s) ==
    LET k == CloneOf[s] IN
    /\ op[s].at = Start
    /\ \/ clone[k].exists /\ Step(s, "attributes") /\ UNCHANGED clone
       \/ /\ ~clone[k].exists
          /\ \E log \in {remote} \cup (IF "net" \in Faults THEN {{}} ELSE {}) :
                clone' = [clone EXCEPT ![k].exists = TRUE, ![k].log = log]
          /\ Step(s, "attributes")
       \/ ~clone[k].exists /\ "net" \in Faults /\ Done(s) /\ UNCHANGED clone
    /\ UNCHANGED <<remote, ops, hist>>

(* _sync_init: .gitattributes is committed if it is missing, with whatever *)
(* is in the index.                                                        *)
Attributes(s) ==
    LET k == CloneOf[s] IN
    /\ op[s].at = "attributes"
    /\ IF Lfs /\ ~Has(clone[k].log, "attr", None)
       THEN /\ clone' = [clone EXCEPT ![k].log = @ \cup clone[k].index \cup {Change(k, "attr", None)},
                                      ![k].index = {}]
            /\ Step(s, "first push")
       ELSE Step(s, AfterInit(s)) /\ UNCHANGED clone
    /\ UNCHANGED <<remote, ops, hist>>

(* The remote takes a history that contains its own. *)
FastForward(k) == remote \subseteq clone[k].log

(* git push is taken: the branch goes over as a whole, earlier commits     *)
(* included.                                                               *)
Pushed(k) == /\ FastForward(k)
             /\ remote' = clone[k].log /\ behind' = behind \ {k}
             /\ UNCHANGED warned

(* "commit is local only". *)
GivenUp(k) == /\ warned' = warned \cup clone[k].log /\ behind' = behind \cup {k}
              /\ UNCHANGED remote

(* _try_push_sync. *)
FirstPush(s) ==
    LET k == CloneOf[s] IN
    /\ op[s].at = "first push"
    /\ \/ Pushed(k)
       \/ (~FastForward(k) \/ "net" \in Faults) /\ GivenUp(k)
    /\ Step(s, AfterInit(s))
    /\ UNCHANGED <<clone, ops, acked, crashed>>

-----------------------------------------------------------------------------
(* put *)

Write(s) ==
    /\ op[s].at = "write"
    /\ clone' = [clone EXCEPT ![CloneOf[s]].loose = @ \cup {op[s].b}]
    /\ Step(s, "add")
    /\ UNCHANGED <<remote, ops, hist>>

(* _commit_and_push: git add. *)
Add(s) ==
    LET k == CloneOf[s] IN
    /\ op[s].at = "add"
    /\ clone' = [clone EXCEPT ![k].loose = @ \ {op[s].b},
                              ![k].index = @ \cup {Change(k, "add", op[s].b)}]
    /\ Step(s, "commit")
    /\ UNCHANGED <<remote, ops, hist>>

(* Slip: the status is not looked at for changes that are staged. *)
SlipClean(k) == clone[k].loose = {}

(* git status --porcelain prints nothing. *)
Clean(k) == clone[k].index = {} /\ clone[k].loose = {}

(* The operation returns. *)
Return(s) == /\ acked' = IF op[s].kind = "put" THEN acked \cup {op[s].b} ELSE acked
             /\ Done(s)

(* git status and git commit, which takes all that is staged and fails     *)
(* when only untracked files are there.                                    *)
Commit(s) ==
    LET k == CloneOf[s] IN
    /\ op[s].at = "commit"
    /\ IF Clean(k) THEN Return(s) /\ UNCHANGED clone
       ELSE IF clone[k].index = {} THEN Done(s) /\ UNCHANGED <<clone, acked>>
       ELSE /\ clone' = [clone EXCEPT ![k].log = @ \cup clone[k].index, ![k].index = {}]
            /\ Step(s, "push") /\ UNCHANGED acked
    /\ UNCHANGED <<remote, ops, warned, crashed, behind>>

(* Slip: a push that is rejected is taken for done. *)
SlipPush(s) ==
    LET k == CloneOf[s] IN
    /\ op[s].at = "push"
    /\ \/ Pushed(k) /\ Return(s)
       \/ ~FastForward(k) /\ Return(s) /\ UNCHANGED <<remote, warned, behind>>
       \/ "net" \in Faults /\ GivenUp(k) /\ Return(s)
    /\ UNCHANGED <<clone, ops, crashed>>

(* _try_push: taken, rejected, or failed for another reason. *)
Push(s) ==
    LET k == CloneOf[s] IN
    /\ op[s].at = "push"
    /\ \/ Pushed(k) /\ Return(s)
       \/ ~FastForward(k) /\ Step(s, "rebase") /\ UNCHANGED <<remote, acked, warned, behind>>
       \/ "net" \in Faults /\ GivenUp(k) /\ Return(s)
    /\ UNCHANGED <<clone, ops, crashed>>

(* git pull --rebase: local commits that became empty are dropped. *)
Rebased(log) == remote \cup {x \in log : ~Has(remote, x.kind, x.b)}

(* It refuses when something is staged. *)
Rebase(s) ==
    LET k == CloneOf[s] IN
    /\ op[s].at = "rebase"
    /\ \/ /\ clone[k].index = {}
          /\ clone' = [clone EXCEPT ![k].log = Rebased(@)]
          /\ Step(s, "repush") /\ UNCHANGED <<remote, acked, warned, behind>>
       \/ /\ clone[k].index # {} \/ "net" \in Faults
          /\ GivenUp(k) /\ Return(s) /\ UNCHANGED clone
    /\ UNCHANGED <<ops, crashed>>

(* Slip: the second push is taken for done when it is rejected. *)
SlipRepush(s) ==
    LET k == CloneOf[s] IN
    /\ op[s].at = "repush"
    /\ \/ Pushed(k)
       \/ ~FastForward(k) /\ UNCHANGED <<remote, warned, behind>>
       \/ "net" \in Faults /\ GivenUp(k)
    /\ Return(s)
    /\ UNCHANGED <<clone, ops, crashed>>

(* The second push is the last. *)
Repush(s) ==
    LET k == CloneOf[s] IN
    /\ op[s].at = "repush"
    /\ \/ Pushed(k)
       \/ (~FastForward(k) \/ "net" \in Faults) /\ GivenUp(k)
    /\ Return(s)
    /\ UNCHANGED <<clone, ops, crashed>>

-----------------------------------------------------------------------------
(* get, verify, list_snapshots and delete *)

(* _pull: fast-forward only, and no error if it fails. *)
Pull(s) ==
    LET k == CloneOf[s] IN
    /\ op[s].at = "pull"
    /\ \/ clone[k].log \subseteq remote /\ clone' = [clone EXCEPT ![k].log = remote]
       \/ ~(clone[k].log \subseteq remote) /\ UNCHANGED clone
       \/ "net" \in Faults /\ UNCHANGED clone
    /\ Step(s, IF op[s].kind = "delete" THEN "rm" ELSE "read")
    /\ UNCHANGED <<remote, ops, hist>>

(* list_snapshots: the sidecars in the working tree, tracked or not. *)
Listed(k) == Tree(k)

(* get, verify and list_snapshots return. *)
Read(s) == /\ op[s].at = "read"
           /\ Done(s)
           /\ UNCHANGED <<remote, clone, ops, hist>>

(* _resolve, git rm.  It fails for a bundle that is not there, untracked   *)
(* or only staged.                                                         *)
Rm(s) ==
    LET k == CloneOf[s]
        b == op[s].b
    IN  /\ op[s].at = "rm"
        /\ IF b \in Tree(k) /\ b \notin clone[k].loose /\ ~Has(clone[k].index, "add", b)
           THEN /\ clone' = [clone EXCEPT ![k].index = @ \cup {Change(k, "del", b)}]
                /\ Step(s, "commit")
           ELSE Done(s) /\ UNCHANGED clone
        /\ UNCHANGED <<remote, ops, hist>>

-----------------------------------------------------------------------------
(* _run_git_sync: a command on the clone fails, and the operation with it. *)
Fail(s) ==
    /\ "git" \in Faults /\ op[s].at \in {"write", "add", "commit", "rm"}
    /\ Done(s)
    /\ UNCHANGED <<remote, clone, ops, hist>>

(* The process of a clone ends. *)
Crash(k) ==
    /\ "crash" \in Faults /\ \E s \in Sinks : CloneOf[s] = k /\ op[s] # Idle
    /\ op' = [s \in Sinks |-> IF CloneOf[s] = k THEN Idle ELSE op[s]]
    /\ crashed' = crashed \cup {k} /\ behind' = behind \cup {k}
    /\ UNCHANGED <<remote, clone, ops, acked, warned>>

Next == \/ \E s \in Sinks : \/ Begin(s) \/ Clone(s) \/ Attributes(s) \/ FirstPush(s)
                            \/ Write(s) \/ Add(s) \/ Commit(s) \/ Push(s) \/ Rebase(s) \/ Repush(s)
                            \/ Pull(s) \/ Read(s) \/ Rm(s) \/ Fail(s)
        \/ \E k \in Clones : Crash(k)

Spec == Init /\ [][Next]_vars

-----------------------------------------------------------------------------
Quiet(k) == \A s \in Sinks : CloneOf[s] = k => op[s] = Idle

(* A snapshot whose put returned is in the history of some clone or of the *)
(* remote, whatever other operations, processes and failures do            *)
(* (_commit_and_push, _try_push).                                          *)
AckedIsKept ==
    \A b \in acked : \E log \in {remote} \cup {clone[k].log : k \in Clones} : Has(log, "add", b)

(* Commits that stayed local catch up: once a push of the clone has been   *)
(* taken after the last one that was given up, and after the last end of   *)
(* the process, a quiet clone has nothing that the remote has not: no      *)
(* bundle, deletion or .gitattributes, its own or one that another sink    *)
(* object left staged or committed in between (_commit_and_push,           *)
(* _try_push).                                                             *)
PushesCatchUp ==
    \A k \in Clones \ behind : Quiet(k) =>
       \A x \in clone[k].log : Has(remote, x.kind, x.b)

(* A snapshot that put reported as stored is at the remote once its clone  *)
(* is quiet, or a warning said that it is local only; the end of the       *)
(* process excuses it, since another operation may have committed it.      *)
SilentPutsArePushed ==
    \A k \in Clones \ crashed : Quiet(k) =>
       \A x \in clone[k].log :
          x.kind = "add" /\ x.b \in acked => Has(remote, "add", x.b) \/ x \in warned
=============================================================================
