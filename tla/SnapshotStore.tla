---------------------------- MODULE SnapshotStore ----------------------------
(***************************************************************************)
(* The sinks that keep a snapshot as two files, the bundle and its         *)
(* ".meta.json" sidecar: a directory (LocalDiskSink), a directory on       *)
(* another host reached by scp and ssh (RemoteNodeSink), and the           *)
(* orchestrator's store (ScottyDevSink and the /store endpoints it calls). *)
(* Several POST /export requests put a snapshot and record it in           *)
(* backup_runs, others delete, others list, and any of them may fail or    *)
(* die between the two files or before the row.                            *)
(***************************************************************************)
EXTENDS Integers, FiniteSets, TLC

CONSTANTS Clients, Locators, Blobs, Nothing,
          Sinks,        \* among "disk", "node", "store"
          StoreFaults,  \* among "fail" (a full disk, a lost connection), "crash"
          MaxOps        \* bound: operations begun

(* A file that was not written to its end. *)
Torn == "torn"

ASSUME StoreAssumption ==
    /\ Nothing \notin Blobs \cup Locators \cup {Torn} /\ Torn \notin Blobs
    /\ Sinks \subseteq {"disk", "node", "store"}
    /\ MaxOps \in Nat

VARIABLES sink,      \* the sink in use
          file,      \* file[l]: the bundle: a blob, Torn or Nothing
          side,      \* side[l]: the sidecar: the hash it records, Torn or Nothing
          op,        \* op[c]: the operation a client is in
          ops,       \* operations begun
          rows,      \* backup_runs: rows[l]: the sha256 recorded for a locator
          doomed,    \* history: deletes that began
          reused     \* history: locators used by two operations at once, or again
hist == <<doomed, reused>>
storeVars == <<sink, file, side, rows, op, ops, hist>>

(* sha256: what differs has different hashes. *)
Hash(b) == b
Idle == [at |-> "idle", l |-> Nothing, b |-> Nothing]
Step(c, at) == op' = [op EXCEPT ![c].at = at]
Busy(l) == \E c \in Clients : op[c].l = l

StoreInit == /\ sink \in Sinks
             /\ file = [l \in Locators |-> Nothing] /\ side = [l \in Locators |-> Nothing]
             /\ op = [c \in Clients |-> Idle] /\ ops = 0
             /\ rows = [l \in Locators |-> Nothing]
             /\ doomed = {} /\ reused = {}

-----------------------------------------------------------------------------
(* put *)

(* default_filename gives the locator: two puts of a second share one.     *)
(* The node's directory is made; the temporary files are this host's.      *)
Put(c, l, b) ==
    /\ op[c] = Idle /\ ops < MaxOps /\ ops' = ops + 1
    /\ op' = [op EXCEPT ![c] = [at |-> "bundle", l |-> l, b |-> b]]
    /\ reused' = IF Busy(l) \/ file[l] # Nothing \/ side[l] # Nothing \/ l \in doomed
                 THEN reused \cup {l} ELSE reused
    /\ UNCHANGED <<sink, file, side, rows, doomed>>

(* LocalDiskSink.put: written beside and renamed. *)
DiskBundle(c) ==
    /\ sink = "disk" /\ op[c].at = "bundle"
    /\ file' = [file EXCEPT ![op[c].l] = op[c].b]
    /\ Step(c, "sidecar")
    /\ UNCHANGED <<sink, side, rows, ops, hist>>

(* The sidecar is opened and then written. *)
DiskSidecar(c) ==
    /\ sink = "disk" /\ op[c].at = "sidecar"
    /\ side' = [side EXCEPT ![op[c].l] = Torn]
    /\ Step(c, "closing")
    /\ UNCHANGED <<sink, file, rows, ops, hist>>

(* RemoteNodeSink.put: _scp_put writes in place, the bundle first. *)
NodeScp(c) ==
    /\ sink = "node"
    /\ \/ /\ op[c].at = "bundle" /\ file' = [file EXCEPT ![op[c].l] = Torn]
          /\ Step(c, "copying") /\ UNCHANGED side
       \/ /\ op[c].at = "copying" /\ file' = [file EXCEPT ![op[c].l] = op[c].b]
          /\ Step(c, "sidecar") /\ UNCHANGED side
       \/ /\ op[c].at = "sidecar" /\ side' = [side EXCEPT ![op[c].l] = Torn]
          /\ Step(c, "closing") /\ UNCHANGED file
    /\ UNCHANGED <<sink, rows, ops, hist>>

(* sink_store_put writes the body without giving up the event loop; only   *)
(* the end of the process tears the file.                                  *)
StorePut(f, l, whole) == \/ f' = [f EXCEPT ![l] = whole]
                         \/ "crash" \in StoreFaults /\ f' = [f EXCEPT ![l] = Torn]

(* Slip: the sidecar is uploaded first. *)
SlipStoreUpload(c) ==
    /\ sink = "store"
    /\ \/ /\ op[c].at = "sidecar" /\ StorePut(file, op[c].l, op[c].b) /\ UNCHANGED side
          /\ IF file'[op[c].l] = Torn THEN op' = [op EXCEPT ![c] = Idle] ELSE Step(c, "record")
       \/ /\ op[c].at = "bundle" /\ StorePut(side, op[c].l, Hash(op[c].b)) /\ UNCHANGED file
          /\ IF side'[op[c].l] = Torn THEN op' = [op EXCEPT ![c] = Idle] ELSE Step(c, "sidecar")
    /\ UNCHANGED <<sink, rows, ops, hist>>

(* ScottyDevSink.put: two uploads; an error of the first ends it. *)
StoreUpload(c) ==
    /\ sink = "store"
    /\ \/ /\ op[c].at = "bundle" /\ StorePut(file, op[c].l, op[c].b) /\ UNCHANGED side
          /\ IF file'[op[c].l] = Torn THEN op' = [op EXCEPT ![c] = Idle] ELSE Step(c, "sidecar")
       \/ /\ op[c].at = "sidecar" /\ StorePut(side, op[c].l, Hash(op[c].b)) /\ UNCHANGED file
          /\ IF side'[op[c].l] = Torn THEN op' = [op EXCEPT ![c] = Idle] ELSE Step(c, "record")
    /\ UNCHANGED <<sink, rows, ops, hist>>

(* Slip: put returns before the sidecar is written out. *)
SlipCloseSidecar(c) ==
    /\ op[c].at = "closing"
    /\ Step(c, "record")
    /\ UNCHANGED <<sink, file, side, rows, ops, hist>>

(* The sidecar is closed. *)
CloseSidecar(c) ==
    /\ op[c].at = "closing"
    /\ side' = [side EXCEPT ![op[c].l] = Hash(op[c].b)]
    /\ Step(c, "record")
    /\ UNCHANGED <<sink, file, rows, ops, hist>>

(* put returns the locator, and export records a run that is born a success. *)
ExportRecord(c) ==
    /\ op[c].at = "record"
    /\ rows' = [rows EXCEPT ![op[c].l] = Hash(op[c].b)]
    /\ op' = [op EXCEPT ![c] = Idle]
    /\ UNCHANGED <<sink, file, side, ops, hist>>

-----------------------------------------------------------------------------
(* delete *)

(* _resolve; "test -f" on the node. *)
Resolved(l) == file[l] # Nothing

Delete(c, l) ==
    /\ op[c] = Idle /\ ops < MaxOps /\ ops' = ops + 1
    /\ Resolved(l)
    /\ op' = [op EXCEPT ![c] = [at |-> "unlink", l |-> l, b |-> Nothing]]
    /\ doomed' = doomed \cup {l}
    /\ reused' = IF Busy(l) THEN reused \cup {l} ELSE reused
    /\ UNCHANGED <<sink, file, side, rows>>

(* LocalDiskSink.delete: unlink raises when another delete was first. *)
DiskUnlink(c) ==
    /\ sink = "disk" /\ op[c].at = "unlink"
    /\ file' = [file EXCEPT ![op[c].l] = Nothing]
    /\ IF Resolved(op[c].l) THEN Step(c, "unlink sidecar") ELSE op' = [op EXCEPT ![c] = Idle]
    /\ UNCHANGED <<sink, side, rows, ops, hist>>

(* RemoteNodeSink.delete: "rm -f" of both, in this order. *)
NodeRm(c) ==
    /\ sink = "node" /\ op[c].at = "unlink"
    /\ file' = [file EXCEPT ![op[c].l] = Nothing]
    /\ Step(c, "unlink sidecar")
    /\ UNCHANGED <<sink, side, rows, ops, hist>>

(* sink_store_delete, or its 404; the process may end between the two.     *)
StoreDelete(c) ==
    LET l == op[c].l IN
    /\ sink = "store" /\ op[c].at = "unlink"
    /\ file' = [file EXCEPT ![l] = Nothing]
    /\ \/ side' = (IF Resolved(l) THEN [side EXCEPT ![l] = Nothing] ELSE side)
       \/ "crash" \in StoreFaults /\ UNCHANGED side
    /\ op' = [op EXCEPT ![c] = Idle]
    /\ UNCHANGED <<sink, rows, ops, hist>>

UnlinkSidecar(c) ==
    /\ op[c].at = "unlink sidecar"
    /\ side' = [side EXCEPT ![op[c].l] = Nothing]
    /\ op' = [op EXCEPT ![c] = Idle]
    /\ UNCHANGED <<sink, file, rows, ops, hist>>

-----------------------------------------------------------------------------
(* An operation raises where it is: the disk is full, ssh or scp fails     *)
(* (_ssh, _scp_put), the store answers with an error (_raise_for_status),  *)
(* the row cannot be written.                                              *)
Fail(c) ==
    /\ "fail" \in StoreFaults /\ op[c] # Idle
    /\ op' = [op EXCEPT ![c] = Idle]
    /\ UNCHANGED <<sink, file, side, rows, ops, hist>>

(* The host of the clients goes down. *)
HostDown ==
    /\ "crash" \in StoreFaults /\ \E c \in Clients : op[c] # Idle
    /\ op' = [c \in Clients |-> Idle]
    /\ UNCHANGED <<sink, file, side, rows, ops, hist>>

StoreNext == \/ \E c \in Clients : \/ \E l \in Locators : Delete(c, l) \/ \E b \in Blobs : Put(c, l, b)
                                   \/ DiskBundle(c) \/ DiskSidecar(c) \/ NodeScp(c) \/ StoreUpload(c)
                                   \/ CloseSidecar(c) \/ ExportRecord(c)
                                   \/ DiskUnlink(c) \/ NodeRm(c) \/ StoreDelete(c) \/ UnlinkSidecar(c)
                                   \/ Fail(c)
             \/ HostDown

StoreSpec == StoreInit /\ [][StoreNext]_storeVars

-----------------------------------------------------------------------------
(* list_snapshots, get and verify: what a client sees. *)

(* A sidecar that is not JSON yet is passed over. *)
Readable(l) == side[l] \notin {Nothing, Torn}

(* LocalDiskSink.list_snapshots: the sidecars whose bundle is there. *)
DiskListed(l) == Readable(l) /\ file[l] # Nothing
(* RemoteNodeSink.list_snapshots: the sidecars. *)
NodeListed(l) == Readable(l)
(* sink_store_index, for ScottyDevSink.list_snapshots. *)
IndexListed(l) == Readable(l) /\ file[l] # Nothing

Listed(l) == CASE sink = "disk" -> DiskListed(l)
               [] sink = "node" -> NodeListed(l)
               [] sink = "store" -> IndexListed(l)

(* get *)
DiskGet(l) == file[l]
NodeGet(l) == file[l]
StoreGet(l) == file[l]
Got(l) == CASE sink = "disk" -> DiskGet(l) [] sink = "node" -> NodeGet(l) [] sink = "store" -> StoreGet(l)

(* LocalDiskSink.verify streams the file; the others read the blob back. *)
DiskVerified(l, sha256) == Resolved(l) /\ Hash(file[l]) = sha256
Verified(l, sha256) == IF sink = "disk" THEN DiskVerified(l, sha256)
                       ELSE Got(l) # Nothing /\ Hash(Got(l)) = sha256

-----------------------------------------------------------------------------

(* A snapshot in a listing is whole: verify succeeds with the hash that    *)
(* the listing gives, whoever failed or died where, as the bundle is       *)
(* written before its sidecar.  Only the remote node, whose listing does   *)
(* not look for the bundle, shows one that is being or was half deleted.   *)
ListedSnapshotsAreWhole ==
    \A l \in Locators \ reused :
       Listed(l) /\ (sink = "node" => l \notin doomed) => Verified(l, side[l])

(* A snapshot that export recorded in backup_runs is listed and verifies   *)
(* against the sha256 of its row until somebody deletes it or the locator  *)
(* is used again.                                                          *)
RecordedSnapshotsStay ==
    \A l \in Locators \ (doomed \cup reused) :
       rows[l] # Nothing => Listed(l) /\ Verified(l, rows[l])
=============================================================================
