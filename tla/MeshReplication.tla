--------------------------- MODULE MeshReplication ---------------------------
(***************************************************************************)
(* What the mesh replicates.  Two installations that run this code, each   *)
(* with a peer entry for the other, pull from and push to one another and  *)
(* settle every row by its time of last change.  A bundle is applied row   *)
(* by row, each row in three transactions (get_row, restore, origin), and  *)
(* at one node the sync cycle and the handler of a peer's push apply       *)
(* bundles at the same time.  Each row stands for the table of one         *)
(* contributor.  Every installation stamps what it writes with a clock of  *)
(* its own; the clocks differ by no more than the engine assumes.          *)
(*                                                                         *)
(* The HTTP endpoints belong to the applications; they are taken to        *)
(* authenticate the peer and to call apply_inbound_bundle for a push, and  *)
(* to answer a pull with what they have, as the engine's comments say.     *)
(* The loop around the cycle, its backoff and its tasks are in MeshEngine. *)
(***************************************************************************)
EXTENDS Integers, FiniteSets, TLC

CONSTANTS Nodes,        \* the two installations
          Rows,         \* rows whose contributor implements get_row
          Blind,        \* rows whose contributor does not (secrets, roles, audit)
          None,
          Rotations,    \* requests that rotate a key, which may overlap
          ForeignKeys,  \* the database enforces them (PostgreSQL; SQLite does not)
          Faults,       \* among "net", "row", "vault"
          MaxSkew,      \* CLOCK_SKEW_TOLERANCE_S: how far clocks may be apart
          MaxTime,      \* bound: time
          MaxWrites,    \* bound: changes of rows by users
          MaxChanges,   \* bound: changes by operators, and failures
          MaxCycles,    \* bound: sync cycles of both nodes
          MaxKeys       \* bound: keys issued per node

(* create_platform_node_idempotent: the id of every node. *)
NodeId == "singleton"
(* _apply_bundle for a pull: the bundle does not say where a row comes from. *)
Unknown == "unknown"

ASSUME ReplicationAssumption ==
    /\ \E m, n \in Nodes : m # n /\ Nodes = {m, n}
    /\ None \notin Nodes \cup Rows \cup Blind \cup {NodeId, Unknown}
    /\ Rows \cap Blind = {} /\ MaxTime \in Nat \ {0} /\ MaxSkew \in Nat
    /\ MaxWrites \in Nat /\ MaxChanges \in Nat /\ MaxCycles \in Nat /\ MaxKeys \in Nat \ {0} /\ ForeignKeys \in BOOLEAN

AllRows == Rows \cup Blind
Other(n) == CHOOSE m \in Nodes : m # n
(* A node's own cycle, and its handler for what the other node pushes. *)
Workers == Nodes \X {"cycle", "inbound"}

VARIABLES row,     \* row[n][r]: updated_at (0: absent), which write the contents are
                   \* from, and (history) when the version was stamped
          origin,  \* table sync_row_origin: the node id recorded for a row
          conf,    \* table sync_conflicts: versions that lost
          peer,    \* peer[n]: node n's entry in sync_peers for the other node
          keys,    \* peer_api_keys of n: keys issued to the other node, and the active ones
          rot,     \* rotations under way: the keys found active
          vault,   \* vault[n]: n's vault is unlocked
          work,    \* what each worker is doing
          now,     \* time
          skew,    \* skew[n]: how far the clock of n is ahead of time
          writes, changes, cycles,
          raced    \* history: rows written on top of a version that was not compared
tables == <<row, origin, conf>>
admin == <<peer, keys, rot, vault>>
env == <<now, skew, writes, changes, cycles, raced>>
vars == <<tables, admin, work, env>>

Absent == [ts |-> 0, text |-> 0, born |-> 0]
NoWork == [at |-> "idle", got |-> <<>>, todo |-> {}, r |-> None, seen |-> Absent,
           from |-> None, dropped |-> {}, failed |-> {}]
At(w, at) == work' = [work EXCEPT ![w].at = at]
(* The worker is done with its row. *)
RowDone(w) == [work[w] EXCEPT !.at = "filter", !.r = None, !.seen = Absent]

(* Each node has run create_peer for the other, and the keys they issued   *)
(* were entered.                                                           *)
Init == /\ row = [n \in Nodes |-> [r \in AllRows |-> Absent]]
        /\ origin = [n \in Nodes |-> [r \in AllRows |-> None]]
        /\ conf = [n \in Nodes |-> {}]
        /\ peer = [n \in Nodes |-> [exists |-> TRUE, enabled |-> TRUE, key |-> 1,
                                    sealed |-> FALSE, node |-> None, pushed |-> FALSE]]
        /\ keys = [n \in Nodes |-> [issued |-> 1, active |-> {1}]]
        /\ rot = [x \in Nodes \X Rotations |-> None]
        /\ vault = [n \in Nodes |-> TRUE]
        /\ work = [w \in Workers |-> NoWork]
        /\ now = 1 /\ skew \in [Nodes -> 0 .. MaxSkew]
        /\ writes = 0 /\ changes = 0 /\ cycles = 0 /\ raced = {}

-----------------------------------------------------------------------------
(* Time, users and operators. *)

Tick == /\ now < MaxTime
        /\ now' = now + 1
        /\ UNCHANGED <<tables, admin, work, skew, writes, changes, cycles, raced>>

(* func.now(), datetime.now(timezone.utc): the clock of node n. *)
Clock(n) == now + skew[n]

(* A version that node n stamps. *)
Stamped(n, text) == [ts |-> Clock(n), text |-> text, born |-> now]

(* A user creates or changes a row; updated_at is set by the database. *)
LocalWrite(n, r) ==
    /\ writes < MaxWrites
    /\ row' = [row EXCEPT ![n][r] = Stamped(n, writes + 1)]
    /\ writes' = writes + 1
    /\ UNCHANGED <<origin, conf, admin, work, now, skew, changes, cycles, raced>>

(* One more change by an operator, or failure. *)
Change == changes < MaxChanges /\ changes' = changes + 1 /\ UNCHANGED <<now, skew, writes, cycles, raced>>

(* The clock of a node is set, forward or back. *)
SetClock(n) ==
    /\ changes < MaxChanges /\ changes' = changes + 1
    /\ \E s \in 0 .. MaxSkew : skew' = [skew EXCEPT ![n] = s]
    /\ UNCHANGED <<tables, admin, work, now, writes, cycles, raced>>

(* The vault is unlocked, or the node restarts with it locked. *)
Vault(n) == /\ Change
            /\ "vault" \in Faults
            /\ vault' = [vault EXCEPT ![n] = ~@]
            /\ UNCHANGED <<tables, peer, keys, rot, work>>

(* update_peer: the peer is enabled or disabled. *)
TogglePeer(n) ==
    /\ Change
    /\ peer[n].exists
    /\ peer' = [peer EXCEPT ![n].enabled = ~@]
    /\ UNCHANGED <<tables, keys, rot, vault, work>>

(* encrypt_their_key: whether the key is encrypted. *)
Encrypted(n) == vault[n]

(* update_peer: a key that the other node issued is entered, encrypted if  *)
(* the vault is unlocked.                                                  *)
EnterKey(n, k) ==
    /\ Change
    /\ peer[n].exists /\ k \in 1 .. keys[Other(n)].issued
    /\ peer' = [peer EXCEPT ![n].key = k, ![n].sealed = Encrypted(n)]
    /\ peer' # peer
    /\ UNCHANGED <<tables, keys, rot, vault, work>>

(* migrate_plaintext_peer_keys. *)
MigrateKeys(n) ==
    /\ Change
    /\ vault[n] /\ peer[n].exists /\ ~peer[n].sealed
    /\ peer' = [peer EXCEPT ![n].sealed = TRUE]
    /\ UNCHANGED <<tables, keys, rot, vault, work>>

(* delete_peer.  What refers to the peer goes with it where foreign keys   *)
(* are enforced; keys that stay have no peer and are refused.              *)
DeletePeer(n) ==
    /\ Change
    /\ peer[n].exists
    /\ peer' = [peer EXCEPT ![n].exists = FALSE]
    /\ keys' = [keys EXCEPT ![n].active = {}]
    /\ rot' = [x \in DOMAIN rot |-> IF x[1] = n THEN None ELSE rot[x]]
    /\ conf' = IF ForeignKeys THEN [conf EXCEPT ![n] = {}] ELSE conf
    /\ UNCHANGED <<row, origin, vault, work>>

(* resolve_conflict marks the conflict; no row is written. *)
ResolveConflict(n) ==
    \E c \in conf[n] :
       /\ c.open
       /\ conf' = [conf EXCEPT ![n] = (@ \ {c}) \cup {[c EXCEPT !.open = FALSE]}]
       /\ UNCHANGED <<row, origin, admin, work, env>>

-----------------------------------------------------------------------------
(* Keys of peers. *)

(* rotate_peer_key up to deactivate_peer_keys, which finds the keys that   *)
(* are active when its statement begins.                                   *)
Deactivate(n, x) ==
    /\ Change
    /\ peer[n].exists /\ rot[<<n, x>>] = None
    /\ keys[n].issued + Cardinality({y \in Rotations : rot[<<n, y>>] # None}) < MaxKeys
    /\ rot' = [rot EXCEPT ![<<n, x>>] = keys[n].active]
    /\ UNCHANGED <<tables, peer, keys, vault, work>>

(* generate_peer_key: keys are never issued twice. *)
NewKey(k) == k.issued + 1

(* deactivate_peer_keys and create_peer_api_key. *)
Rotated(k, old) == [k EXCEPT !.issued = NewKey(k), !.active = (@ \ old) \cup {NewKey(k)}]

(* rotate_peer_key commits. *)
RotateKey(n, x) ==
    /\ rot[<<n, x>>] # None
    /\ keys' = [keys EXCEPT ![n] = Rotated(@, rot[<<n, x>>])]
    /\ rot' = [rot EXCEPT ![<<n, x>>] = None]
    /\ UNCHANGED <<tables, peer, vault, work, env>>

(* get_active_key_by_prefix and verify_peer_key. *)
ActiveKey(n, k) == k \in keys[n].active

(* authenticate_peer at node n, for key k. *)
Authenticated(n, k) == ActiveKey(n, k) /\ peer[n].exists /\ peer[n].enabled

(* decrypt_their_key. *)
Decrypted(n) == ~peer[n].sealed \/ vault[n]

(* probe_peer sends the key as it is stored, so a sealed one is refused. *)
Probe(n) ==
    /\ Change
    /\ peer[n].exists
    /\ ~peer[n].sealed /\ Authenticated(Other(n), peer[n].key)
    /\ peer[n].node # NodeId
    /\ peer' = [peer EXCEPT ![n].node = NodeId]
    /\ UNCHANGED <<tables, keys, rot, vault, work>>

-----------------------------------------------------------------------------
(* Exchange. *)

(* _run_delta_export for the platform: of its tables only the audit log    *)
(* has a delta, so everything is sent.                                     *)
DeltaExport(n) == [r \in {q \in AllRows : row[n][q].ts > 0} |-> row[n][r]]

(* AuditLogContributor.export_delta filters by a column that audit_log     *)
(* does not have: an export with a time to start from raises.              *)
DeltaRaises(since) == since

(* _build_push_bundle: a failure gives an empty bundle. *)
PushBundle(n) == IF DeltaRaises(peer[n].pushed) THEN <<>> ELSE DeltaExport(n)

(* _extract_bundle: a worker holds the rows of a bundle. *)
Received(got, from) == [NoWork EXCEPT !.at = "filter", !.got = got,
                                      !.todo = DOMAIN got, !.from = from]

(* _sync_cycle up to the answer of the peer. *)
CallPull(n) ==
    /\ cycles < MaxCycles /\ work[<<n, "cycle">>].at = "idle"
    /\ peer[n].exists /\ peer[n].enabled /\ Decrypted(n)
    /\ Authenticated(Other(n), peer[n].key)
    /\ work' = [work EXCEPT ![<<n, "cycle">>] = Received(DeltaExport(Other(n)), Unknown)]
    /\ cycles' = cycles + 1
    /\ UNCHANGED <<tables, admin, now, skew, writes, changes, raced>>

(* _filter_rows_by_origin: exclude = [self._local_node.id]. *)
KeptByOrigin(n, r) == origin[n][r] = None \/ origin[n][r] # NodeId

(* The next contributor: its rows are filtered by their origin. *)
FilterRows(w) ==
    /\ work[w].at = "filter"
    /\ \E r \in work[w].todo :
         work' = IF KeptByOrigin(w[1], r)
                 THEN [work EXCEPT ![w].todo = @ \ {r}, ![w].at = "get", ![w].r = r]
                 ELSE [work EXCEPT ![w].todo = @ \ {r}, ![w].dropped = @ \cup {r}]
    /\ UNCHANGED <<tables, admin, env>>

(* UsersContributor.get_row and the like; others have no version to show. *)
LocalRow(n, r) == IF r \in Blind THEN Absent ELSE row[n][r]

(* A row is read to compare it, in a session of its own. *)
GetRow(w) ==
    /\ work[w].at = "get"
    /\ work' = [work EXCEPT ![w].at = "decide",
                            ![w].seen = LocalRow(w[1], work[w].r)]
    /\ UNCHANGED <<tables, admin, env>>

(* Slip: the tolerance for clock skew is granted here too. *)
SlipRemoteWins(remote, local) == local.ts = 0 \/ remote.ts + MaxSkew >= local.ts

(* _lww_remote_wins.  The ids that break a tie are "unknown" or            *)
(* "singleton" against "singleton": the remote one is never the smaller.   *)
RemoteWins(remote, local) == local.ts = 0 \/ remote.ts >= local.ts

(* Slip: within the tolerance for clock skew no conflict is recorded. *)
SlipConflict(x) == IF x.got[x.r].ts + MaxSkew >= x.seen.ts THEN {}
                   ELSE {[r |-> x.r, local |-> x.seen, remote |-> x.got[x.r], open |-> TRUE]}

(* create_conflict with both versions. *)
Conflict(x) == {[r |-> x.r, local |-> x.seen, remote |-> x.got[x.r], open |-> TRUE]}

(* The local row is newer: the conflict is recorded and the row is kept.   *)
(* With the peer deleted there is nothing the conflict could refer to.     *)
KeepLocal(w) ==
    LET x == work[w] IN
    /\ x.at = "decide" /\ ~RemoteWins(x.got[x.r], x.seen)
    /\ IF ForeignKeys /\ ~peer[w[1]].exists
       THEN work' = [work EXCEPT ![w] = [RowDone(w) EXCEPT !.failed = @ \cup {x.r}]] /\ UNCHANGED conf
       ELSE work' = [work EXCEPT ![w] = RowDone(w)] /\ conf' = [conf EXCEPT ![w[1]] = @ \cup Conflict(x)]
    /\ UNCHANGED <<row, origin, admin, env>>

(* merge(): updated_at is written when it differs, and set to the present  *)
(* by onupdate when only other columns do.                                 *)
Merged(n, old, new) == CASE old.ts # new.ts -> new
                         [] old.ts = new.ts /\ old.text = new.text -> old
                         [] old.ts = new.ts /\ old.text # new.text -> Stamped(n, new.text)

(* The remote row wins, or there is nothing to compare: restore writes it. *)
Restore(w) ==
    LET x == work[w]
        n == w[1]
    IN  /\ x.at = "decide" /\ RemoteWins(x.got[x.r], x.seen)
        /\ row' = [row EXCEPT ![n][x.r] = Merged(n, @, x.got[x.r])]
        /\ raced' = IF row[n][x.r] # x.seen THEN raced \cup {<<n, x.r>>} ELSE raced
        /\ At(w, "origin")
        /\ UNCHANGED <<origin, conf, admin, now, skew, writes, changes, cycles>>

(* record_row_origin, in a transaction of its own. *)
RecordOrigin(w) ==
    /\ work[w].at = "origin"
    /\ origin' = [origin EXCEPT ![w[1]][work[w].r] = work[w].from]
    /\ work' = [work EXCEPT ![w] = RowDone(w)]
    /\ UNCHANGED <<row, conf, admin, env>>

(* A row cannot be applied: it is counted as skipped and the rest goes on. *)
RowFails(w) ==
    /\ Change
    /\ "row" \in Faults
    /\ work[w].at \in {"get", "decide", "origin"}
    /\ work' = [work EXCEPT ![w] = [RowDone(w) EXCEPT !.failed = @ \cup {work[w].r}]]
    /\ UNCHANGED <<tables, admin>>

(* The bundle is applied.  A cycle records the pull and goes on to push; a *)
(* handler answers.                                                        *)
ApplyDone(w) ==
    /\ work[w].at = "filter" /\ work[w].todo = {}
    /\ IF w[2] = "cycle" THEN At(w, "push") ELSE work' = [work EXCEPT ![w] = NoWork]
    /\ UNCHANGED <<tables, admin, env>>

(* _push_cycle: the other node's handler takes the bundle, and the time of *)
(* the push is recorded, or the answer is lost.                            *)
Push(n) ==
    LET m == Other(n) IN
    /\ work[<<n, "cycle">>].at = "push"
    /\ peer[n].exists /\ PushBundle(n) # <<>> /\ Decrypted(n)
    /\ Authenticated(m, peer[n].key) /\ work[<<m, "inbound">>].at = "idle"
    /\ work' = [work EXCEPT ![<<n, "cycle">>] = NoWork,
                            ![<<m, "inbound">>] = Received(PushBundle(n), NodeId)]
    /\ \/ peer' = [peer EXCEPT ![n].pushed = TRUE] /\ UNCHANGED env
       \/ "net" \in Faults /\ UNCHANGED peer /\ Change
    /\ UNCHANGED <<tables, keys, rot, vault>>

(* The peer's entry is gone, its key cannot be decrypted, or there is      *)
(* nothing to send.                                                        *)
SkipPush(n) ==
    /\ work[<<n, "cycle">>].at = "push"
    /\ ~peer[n].exists \/ PushBundle(n) = <<>> \/ ~Decrypted(n)
    /\ work' = [work EXCEPT ![<<n, "cycle">>] = NoWork]
    /\ UNCHANGED <<tables, admin, env>>

(* The push does not reach the peer or is refused: the cycle ends. *)
PushFails(n) ==
    /\ work[<<n, "cycle">>].at = "push"
    /\ peer[n].exists /\ PushBundle(n) # <<>> /\ Decrypted(n)
    /\ \/ "net" \in Faults /\ Change
       \/ ~Authenticated(Other(n), peer[n].key) /\ UNCHANGED env
    /\ work' = [work EXCEPT ![<<n, "cycle">>] = NoWork]
    /\ UNCHANGED <<tables, admin>>

-----------------------------------------------------------------------------
Next == \/ Tick
        \/ \E n \in Nodes : \/ \E r \in AllRows : LocalWrite(n, r)
                            \/ SetClock(n) \/ Vault(n) \/ TogglePeer(n) \/ MigrateKeys(n) \/ DeletePeer(n)
                            \/ \E k \in 1 .. MaxKeys : EnterKey(n, k)
                            \/ ResolveConflict(n) \/ Probe(n)
                            \/ \E x \in Rotations : Deactivate(n, x) \/ RotateKey(n, x)
                            \/ CallPull(n) \/ Push(n) \/ SkipPush(n) \/ PushFails(n)
        \/ \E w \in Workers : \/ FilterRows(w) \/ GetRow(w) \/ KeepLocal(w) \/ Restore(w)
                              \/ RecordOrigin(w) \/ RowFails(w) \/ ApplyDone(w)

Spec == Init /\ [][Next]_vars

-----------------------------------------------------------------------------

(* Last write wins, as far as clocks allow it: a version is replaced by    *)
(* one that was stamped more than the tolerated skew before it only where  *)
(* get_row read another version than the one that restore replaces, since  *)
(* the two are separate transactions (_apply_contributor_rows).  A version *)
(* that meets another of the same time is stamped anew when it is merged.  *)
NoStaleOverwrite ==
    [][\A n \in Nodes, r \in Rows :
          row'[n][r].born + MaxSkew < row[n][r].born =>
             \E w \in Workers : /\ w[1] = n /\ work[w].at = "decide" /\ work[w].r = r
                                /\ work[w].seen # row[n][r]]_vars

(* When a bundle is applied (_apply_bundle), each of its rows was counted  *)
(* as failed, is stored with a stamp no earlier than the time its version  *)
(* was made, with its origin or the conflict it lost on record, or was     *)
(* dropped for its origin; except where a write raced.  Every node is      *)
(* "singleton", so a row that a peer has pushed once counts as written     *)
(* here and its later versions are dropped; all that is promised of a row  *)
(* that is dropped is that an earlier version of it is here.               *)
ReceivedRowsAreSettled ==
    \A w \in Workers :
       work[w].at \in {"filter", "push"} =>
          \A r \in DOMAIN work[w].got \ (work[w].todo \cup work[w].failed \cup Blind) :
             LET n == w[1] IN
             \/ <<n, r>> \in raced
             \/ r \in work[w].dropped /\ origin[n][r] # None /\ row[n][r].ts > 0
             \/ /\ row[n][r].ts >= work[w].got[r].born
                /\ \/ origin[n][r] # None
                   \/ \E c \in conf[n] : c.r = r /\ c.remote = work[w].got[r]
                   \/ ForeignKeys /\ ~peer[n].exists
=============================================================================
