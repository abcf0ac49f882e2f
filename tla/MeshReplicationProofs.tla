------------------------ MODULE MeshReplicationProofs ------------------------
(***************************************************************************)
(* Proofs about MeshReplication, for any rows, rotations and faults, with  *)
(* or without foreign keys, and for any number of writes and cycles.       *)
(***************************************************************************)
EXTENDS MeshReplication, TLAPS

Versions == [ts : Nat, text : Nat, born : Nat]
Bundles == UNION {[D -> Versions] : D \in SUBSET AllRows}
Conflicts == [r : AllRows, local : Versions, remote : Versions, open : BOOLEAN]
PeerRecord == [exists : BOOLEAN, enabled : BOOLEAN, key : Nat, sealed : BOOLEAN,
               node : {None, NodeId}, pushed : BOOLEAN]
Busy == {"get", "decide", "origin"}
WorkRecord == [at : {"idle", "filter", "push"} \cup Busy, got : Bundles, todo : SUBSET AllRows,
               r : AllRows \cup {None}, seen : Versions, from : {None, NodeId, Unknown},
               dropped : SUBSET AllRows, failed : SUBSET AllRows]

ReplicationTypeOK ==
    /\ row \in [Nodes -> [AllRows -> Versions]]
    /\ origin \in [Nodes -> [AllRows -> {None, NodeId, Unknown}]]
    /\ conf \in [Nodes -> SUBSET Conflicts]
    /\ peer \in [Nodes -> PeerRecord] /\ vault \in [Nodes -> BOOLEAN]
    /\ work \in [Workers -> WorkRecord]
    /\ now \in Nat \ {0} /\ writes \in Nat /\ skew \in [Nodes -> 0 .. MaxSkew]

(* The stamp of a version is from a clock within the skew. *)
StampOK(v) == v.born <= v.ts /\ v.ts <= v.born + MaxSkew /\ v.born <= now
RowsStamped == \A n \in Nodes, r \in AllRows : StampOK(row[n][r])

(* A row whose origin is on record is there. *)
OriginsHeld == \A n \in Nodes, r \in AllRows : origin[n][r] # None => row[n][r].ts > 0

(* Version v of row r is dealt with at node n. *)
SettledAt(n, r, v) ==
    \/ <<n, r>> \in raced
    \/ /\ row[n][r].ts >= v.born
       /\ \/ origin[n][r] # None
          \/ \E c \in conf[n] : c.r = r /\ c.remote = v
          \/ ForeignKeys /\ ~peer[n].exists

(* Row r of node n has come to ts, or a write raced. *)
Reached(n, r, ts) == <<n, r>> \in raced \/ row[n][r].ts >= ts

(* The bundle a worker with record x at node n holds. *)
BundleOK(x) == /\ x.todo \subseteq DOMAIN x.got
               /\ x.at # "idle" => x.from # None
               /\ x.at \in Busy => x.r \in DOMAIN x.got
BundleStamped(x) == \A r \in DOMAIN x.got : StampOK(x.got[r]) /\ x.got[r].ts > 0

(* The row it is at: what was compared, and what was written. *)
CurrentOK(x, n) ==
    /\ x.at = "origin" => row[n][x.r].ts > 0
    /\ x.r \in Rows =>
          /\ x.at = "decide" /\ x.seen.ts >= x.got[x.r].born => Reached(n, x.r, x.got[x.r].born)
          /\ x.at = "origin" => Reached(n, x.r, x.got[x.r].born)

(* The rows behind it. *)
BehindOK(x, n) == \A r \in DOMAIN x.got \ (x.todo \cup x.dropped \cup x.failed \cup Blind) :
                     (x.at \in Busy /\ r = x.r) \/ SettledAt(n, r, x.got[r])

(* The rows it dropped. *)
DroppedOK(x, n) == \A r \in x.dropped : origin[n][r] # None

WorkerOK(x, n) == /\ BundleOK(x) /\ BundleStamped(x) /\ CurrentOK(x, n)
                  /\ BehindOK(x, n) /\ DroppedOK(x, n)

(* The inductive invariant. *)
ReplicationInv == /\ ReplicationTypeOK /\ RowsStamped /\ OriginsHeld
                  /\ \A w \in Workers : WorkerOK(work[w], w[1])

(* What no step takes back: time, history, origins, the deletion of a      *)
(* peer, a conflict while its peer is there, that a row is there and,      *)
(* unless a write raced, that its stamp has come to a time that is past.   *)
Forward ==
    /\ now' >= now
    /\ raced \subseteq raced'
    /\ \A n \in Nodes, r \in Rows :
          <<n, r>> \in raced' \/ row'[n][r].ts >= row[n][r].ts \/ row'[n][r].ts >= now
    /\ \A n \in Nodes, r \in AllRows : row[n][r].ts > 0 => row'[n][r].ts > 0
    /\ \A n \in Nodes, r \in AllRows : origin[n][r] # None => origin'[n][r] # None
    /\ \A n \in Nodes : ~peer[n].exists => ~peer'[n].exists
    /\ \A n \in Nodes : \A c \in conf[n] :
          (ForeignKeys /\ ~peer'[n].exists) \/ \E d \in conf'[n] : d.r = c.r /\ d.remote = c.remote

-----------------------------------------------------------------------------
(* Helpers. *)

LEMMA OtherNode == \A n \in Nodes : Other(n) \in Nodes
  BY ReplicationAssumption DEF Other

LEMMA BundleValues ==
    ASSUME NEW b \in Bundles
    PROVE  DOMAIN b \subseteq AllRows /\ \A r \in DOMAIN b : b[r] \in Versions
  BY DEF Bundles

LEMMA EmptyBundle == <<>> \in Bundles /\ DOMAIN <<>> = {}
<1>1. DOMAIN <<>> = {} /\ <<>> = [r \in {} |-> r]
  OBVIOUS
<1>2. <<>> \in [{} -> Versions]
  BY <1>1
<1> QED BY <1>1, <1>2 DEF Bundles

LEMMA WorkerPairs == \A w \in Workers : w[1] \in Nodes /\ w = <<w[1], w[2]>>
  BY DEF Workers

LEMMA IdleWork == NoWork \in WorkRecord /\ NoWork.at = "idle" /\ NoWork.got = <<>> /\ NoWork.todo = {} /\ NoWork.dropped = {}
  BY EmptyBundle DEF NoWork, WorkRecord, Versions, Absent, Busy

(* The record of a worker that has just received a bundle. *)
LEMMA ReceivedWork ==
    ASSUME NEW got \in Bundles, NEW from \in {NodeId, Unknown}
    PROVE  LET x == Received(got, from) IN
           /\ x \in WorkRecord /\ x.at = "filter" /\ x.got = got /\ x.todo = DOMAIN got
           /\ x.from = from /\ x.dropped = {}
<1>1. DOMAIN got \subseteq AllRows
  BY BundleValues
<1>2. Received(got, from) \in WorkRecord
  BY <1>1, IdleWork DEF Received, WorkRecord
<1> QED BY <1>2 DEF Received, NoWork

(* _run_delta_export sends rows as they are. *)
LEMMA Exports ==
    ASSUME ReplicationTypeOK, RowsStamped, NEW n \in Nodes
    PROVE  /\ DeltaExport(n) \in Bundles
           /\ \A r \in DOMAIN DeltaExport(n) : StampOK(DeltaExport(n)[r]) /\ DeltaExport(n)[r].ts > 0
<1> DEFINE D == {q \in AllRows : row[n][q].ts > 0}
<1>1. D \subseteq AllRows /\ DeltaExport(n) \in [D -> Versions]
  BY DEF DeltaExport, ReplicationTypeOK
<1>2. DeltaExport(n) \in Bundles
  BY <1>1 DEF Bundles
<1>3. \A r \in DOMAIN DeltaExport(n) : r \in D /\ DeltaExport(n)[r] = row[n][r]
  BY DEF DeltaExport
<1> QED BY <1>2, <1>3 DEF RowsStamped

LEMMA PushedBundle ==
    ASSUME ReplicationTypeOK, RowsStamped, NEW n \in Nodes
    PROVE  /\ PushBundle(n) \in Bundles
           /\ \A r \in DOMAIN PushBundle(n) : StampOK(PushBundle(n)[r]) /\ PushBundle(n)[r].ts > 0
  BY Exports, EmptyBundle DEF PushBundle

LEMMA RowDoneWork ==
    ASSUME ReplicationTypeOK, NEW w \in Workers
    PROVE  LET x == RowDone(w) IN
           /\ x \in WorkRecord /\ x.at = "filter" /\ x.got = work[w].got /\ x.todo = work[w].todo
           /\ x.from = work[w].from /\ x.dropped = work[w].dropped /\ x.failed = work[w].failed
<1>1. work[w] \in WorkRecord /\ Absent \in Versions
  BY DEF ReplicationTypeOK, Absent, Versions
<1> QED BY <1>1 DEF RowDone, WorkRecord

(* A version that a node stamps. *)
LEMMA StampedVersion ==
    ASSUME ReplicationTypeOK, NEW n \in Nodes, NEW text \in Nat
    PROVE  LET v == Stamped(n, text) IN
           v \in Versions /\ StampOK(v) /\ v.ts >= now /\ v.born = now
<1>1. now \in Nat /\ skew[n] \in 0 .. MaxSkew /\ MaxSkew \in Nat
  BY ReplicationAssumption DEF ReplicationTypeOK
<1> QED BY <1>1 DEF Stamped, Clock, Versions, StampOK

(* What restore leaves in a row: what it was given, or what was there with *)
(* the same time, or a version stamped now.                                *)
LEMMA MergedVersion ==
    ASSUME ReplicationTypeOK, NEW n \in Nodes, NEW old \in Versions, NEW new \in Versions,
           StampOK(old), StampOK(new)
    PROVE  LET v == Merged(n, old, new) IN
           /\ v \in Versions /\ StampOK(v)
           /\ v.ts = new.ts \/ (v.ts >= now /\ v.born = now)
           /\ v = new \/ v = old \/ v.born = now
<1>1. LET v == Stamped(n, new.text) IN v \in Versions /\ StampOK(v) /\ v.ts >= now /\ v.born = now
  BY StampedVersion DEF Versions
<1>2. CASE old.ts # new.ts
  <2>1. Merged(n, old, new) = new
    BY <1>2 DEF Merged
  <2> QED BY <2>1
<1>3. CASE old.ts = new.ts /\ old.text = new.text
  <2>1. Merged(n, old, new) = old
    BY <1>3 DEF Merged
  <2> QED BY <1>3, <2>1
<1>4. CASE old.ts = new.ts /\ old.text # new.text
  <2>1. Merged(n, old, new) = Stamped(n, new.text)
    BY <1>4 DEF Merged
  <2> QED BY <1>1, <2>1
<1> QED BY <1>2, <1>3, <1>4

-----------------------------------------------------------------------------
(* What a worker knows stays true while others work. *)

LEMMA SettledStays ==
    ASSUME ReplicationTypeOK, ReplicationTypeOK', Forward
    PROVE  \A n \in Nodes, r \in Rows, v \in Versions :
              SettledAt(n, r, v) /\ v.born <= now => SettledAt(n, r, v)'
<1> SUFFICES ASSUME NEW n \in Nodes, NEW r \in Rows, NEW v \in Versions, SettledAt(n, r, v),
                    v.born <= now
             PROVE  SettledAt(n, r, v)'
  OBVIOUS
<1>1. CASE <<n, r>> \in raced'
  BY <1>1 DEF SettledAt
<1>2. CASE <<n, r>> \notin raced'
  <2>1. <<n, r>> \notin raced /\ r \in AllRows
    BY <1>2 DEF Forward, AllRows
  <2>2. row[n][r].ts \in Nat /\ row'[n][r].ts \in Nat /\ v.born \in Nat /\ now \in Nat
    BY <2>1 DEF ReplicationTypeOK, Versions
  <2>3. /\ row'[n][r].ts >= row[n][r].ts \/ row'[n][r].ts >= now
        /\ row[n][r].ts >= v.born
    BY <1>2, <2>1 DEF SettledAt, Forward
  <2>4. row'[n][r].ts >= v.born
    BY <2>2, <2>3
  <2>5. CASE origin[n][r] # None
    BY <2>1, <2>4, <2>5 DEF SettledAt, Forward
  <2>6. CASE ForeignKeys /\ ~peer[n].exists
    BY <2>4, <2>6 DEF SettledAt, Forward
  <2>7. CASE \E c \in conf[n] : c.r = r /\ c.remote = v
    BY <2>4, <2>7 DEF SettledAt, Forward
  <2> QED BY <2>1, <2>5, <2>6, <2>7 DEF SettledAt
<1> QED BY <1>1, <1>2

LEMMA ReachedStays ==
    ASSUME ReplicationTypeOK, ReplicationTypeOK', Forward
    PROVE  \A n \in Nodes, r \in Rows, ts \in Nat : Reached(n, r, ts) /\ ts <= now => Reached(n, r, ts)'
<1> SUFFICES ASSUME NEW n \in Nodes, NEW r \in Rows, NEW ts \in Nat, Reached(n, r, ts), ts <= now
             PROVE  Reached(n, r, ts)'
  OBVIOUS
<1>1. row[n][r].ts \in Nat /\ row'[n][r].ts \in Nat /\ now \in Nat
  BY DEF ReplicationTypeOK, Versions, AllRows
<1>2. <<n, r>> \in raced => <<n, r>> \in raced'
  BY DEF Forward
<1>3. <<n, r>> \in raced' \/ row'[n][r].ts >= row[n][r].ts \/ row'[n][r].ts >= now
  BY DEF Forward
<1> QED BY <1>1, <1>2, <1>3 DEF Reached

(* The rows behind a worker that goes on with its bundle. *)
LEMMA BehindStays ==
    ASSUME ReplicationTypeOK, ReplicationTypeOK', Forward, NEW w \in Workers,
           BehindOK(work[w], w[1]), BundleStamped(work[w]), work'[w].got = work[w].got,
           LET x == work[w]
               y == work'[w]
           IN  /\ \A r \in x.todo \cup x.dropped \cup x.failed :
                     r \in y.todo \cup y.dropped \cup y.failed \/ (y.at \in Busy /\ r = y.r)
               /\ \A r \in Rows : x.at \in Busy /\ r = x.r =>
                     (y.at \in Busy /\ y.r = r) \/ r \in y.failed \/ SettledAt(w[1], r, work[w].got[r])'
    PROVE  BehindOK(work[w], w[1])'
<1> DEFINE x == work[w]
           y == work'[w]
<1> SUFFICES ASSUME NEW r \in DOMAIN y.got \ (y.todo \cup y.dropped \cup y.failed \cup Blind),
                    ~(y.at \in Busy /\ r = y.r)
             PROVE  SettledAt(w[1], r, work[w].got[r])'
  BY DEF BehindOK
<1>1. x.got \in Bundles /\ w[1] \in Nodes
  BY WorkerPairs DEF ReplicationTypeOK, WorkRecord
<1>2. r \in Rows /\ r \in DOMAIN x.got /\ x.got[r] \in Versions
  BY <1>1, BundleValues DEF AllRows
<1>3. r \notin x.todo \cup x.dropped \cup x.failed
  OBVIOUS
<1>4. (x.at \in Busy /\ r = x.r) \/ SettledAt(w[1], r, x.got[r])
  BY <1>2, <1>3 DEF BehindOK
<1>5. CASE x.at \in Busy /\ r = x.r
  BY <1>2, <1>5
<1>6. CASE SettledAt(w[1], r, x.got[r])
  <2>1. x.got[r].born <= now
    BY <1>2 DEF BundleStamped, StampOK
  <2> QED BY <1>1, <1>2, <1>6, <2>1, SettledStays DEF SettledAt
<1> QED BY <1>4, <1>5, <1>6

(* A worker that does nothing. *)
LEMMA WorkerStays ==
    ASSUME ReplicationTypeOK, ReplicationTypeOK', Forward, NEW w \in Workers,
           WorkerOK(work[w], w[1]), work'[w] = work[w]
    PROVE  WorkerOK(work[w], w[1])'
<1>1. work[w] \in WorkRecord /\ work[w].got \in Bundles /\ w[1] \in Nodes
  BY WorkerPairs DEF ReplicationTypeOK, WorkRecord
<1>2. BundleOK(work[w])'
  BY DEF WorkerOK, BundleOK
<1>3. BundleStamped(work[w])'
  <2> SUFFICES ASSUME NEW r \in DOMAIN work[w].got
               PROVE  StampOK(work[w].got[r])' /\ work[w].got[r].ts > 0
    BY DEF BundleStamped, StampOK
  <2>1. work[w].got[r] \in Versions /\ StampOK(work[w].got[r]) /\ work[w].got[r].ts > 0
    BY <1>1, BundleValues DEF WorkerOK, BundleStamped
  <2> QED BY <2>1 DEF Forward, ReplicationTypeOK, StampOK, Versions
<1>4. CurrentOK(work[w], w[1])'
  <2>1. work[w].at = "origin" => row'[w[1]][work[w].r].ts > 0
    <3>1. work[w].at = "origin" => work[w].r \in AllRows /\ row[w[1]][work[w].r].ts > 0
      BY <1>1, BundleValues DEF WorkerOK, CurrentOK, BundleOK, Busy
    <3> QED BY <1>1, <3>1 DEF Forward
  <2>2. work[w].at \in {"decide", "origin"} =>
           work[w].got[work[w].r].born \in Nat /\ work[w].got[work[w].r].born <= now
    BY <1>1, BundleValues DEF WorkerOK, BundleOK, Busy, Versions, BundleStamped, StampOK
  <2>3. ASSUME work[w].r \in Rows, work[w].at = "decide",
               work[w].seen.ts >= work[w].got[work[w].r].born
        PROVE  Reached(w[1], work[w].r, work[w].got[work[w].r].born)'
    BY <1>1, <2>2, <2>3, ReachedStays DEF WorkerOK, CurrentOK, Reached
  <2>4. ASSUME work[w].r \in Rows, work[w].at = "origin"
        PROVE  Reached(w[1], work[w].r, work[w].got[work[w].r].born)'
    BY <1>1, <2>2, <2>4, ReachedStays DEF WorkerOK, CurrentOK, Reached
  <2> QED BY <2>1, <2>3, <2>4 DEF CurrentOK, Reached
<1>5. BehindOK(work[w], w[1])'
  BY BehindStays DEF WorkerOK
<1>6. DroppedOK(work[w], w[1])'
  BY <1>1 DEF WorkerOK, DroppedOK, Forward, WorkRecord
<1> QED BY <1>2, <1>3, <1>4, <1>5, <1>6 DEF WorkerOK

(* A step, in which some workers move. *)
LEMMA WorkersStep ==
    ASSUME ReplicationInv, ReplicationTypeOK', RowsStamped', OriginsHeld', Forward,
           \A w \in Workers : work'[w] = work[w] \/ WorkerOK(work[w], w[1])'
    PROVE  ReplicationInv'
<1>1. ASSUME NEW w \in Workers PROVE WorkerOK(work[w], w[1])'
  BY WorkerStays DEF ReplicationInv
<1> QED BY <1>1 DEF ReplicationInv

(* A worker that has nothing, or holds a bundle none of which is applied. *)
LEMMA WorkerBegins ==
    ASSUME NEW w \in Workers,
           \/ work'[w] = NoWork
           \/ /\ work'[w].at = "filter" /\ work'[w].from # None
              /\ work'[w].todo = DOMAIN work'[w].got
              /\ work'[w].dropped = {}
              /\ \A r \in DOMAIN work'[w].got : StampOK(work[w].got[r])' /\ work'[w].got[r].ts > 0
    PROVE  WorkerOK(work[w], w[1])'
<1>1. CASE work'[w] = NoWork
  <2>1. /\ work'[w].at = "idle" /\ DOMAIN work'[w].got = {} /\ work'[w].todo = {} /\ work'[w].dropped = {}
    BY <1>1, IdleWork, EmptyBundle
  <2> QED BY <2>1 DEF WorkerOK, BundleOK, BundleStamped, CurrentOK, BehindOK, DroppedOK, Busy
<1>2. CASE /\ work'[w].at = "filter" /\ work'[w].from # None
           /\ work'[w].todo = DOMAIN work'[w].got
           /\ work'[w].dropped = {}
           /\ \A r \in DOMAIN work'[w].got : StampOK(work[w].got[r])' /\ work'[w].got[r].ts > 0
  BY <1>2 DEF WorkerOK, BundleOK, BundleStamped, CurrentOK, BehindOK, DroppedOK, Busy
<1> QED BY <1>1, <1>2

(* Nothing is written but what operators keep, and no peer comes back. *)
LEMMA TablesKept ==
    ASSUME ReplicationInv, UNCHANGED <<row, origin, conf, now, raced>>,
           \A n \in Nodes : ~peer[n].exists => ~peer'[n].exists
    PROVE  Forward /\ RowsStamped' /\ OriginsHeld'
<1>1. \A n \in Nodes, r \in Rows : row[n][r].ts \in Nat
  BY DEF ReplicationInv, ReplicationTypeOK, Versions, AllRows
<1>2. now \in Nat
  BY DEF ReplicationInv, ReplicationTypeOK
<1>3. Forward
  BY <1>1, <1>2 DEF Forward
<1> QED BY <1>3 DEF ReplicationInv, RowsStamped, StampOK, OriginsHeld

-----------------------------------------------------------------------------
(* Time, users and operators. *)

LEMMA TickStep == ASSUME ReplicationInv, Tick PROVE ReplicationInv'
<1> USE DEF Tick, tables, admin
<1>1. ReplicationTypeOK'
  BY DEF ReplicationInv, ReplicationTypeOK
<1>2. \A n \in Nodes, r \in AllRows : row[n][r] \in Versions
  BY DEF ReplicationInv, ReplicationTypeOK
<1>3. now \in Nat /\ now' = now + 1
  BY DEF ReplicationInv, ReplicationTypeOK
<1>4. RowsStamped' /\ OriginsHeld'
  BY <1>2, <1>3 DEF ReplicationInv, RowsStamped, StampOK, OriginsHeld, Versions
<1>5. Forward
  BY <1>2, <1>3 DEF Forward, AllRows, Versions
<1> QED BY <1>1, <1>4, <1>5, WorkersStep

LEMMA SetClockStep == ASSUME ReplicationInv, NEW n \in Nodes, SetClock(n) PROVE ReplicationInv'
<1> USE DEF SetClock, tables, admin
<1>1. skew' \in [Nodes -> 0 .. MaxSkew]
  BY DEF ReplicationInv, ReplicationTypeOK
<1>2. ReplicationTypeOK'
  BY <1>1 DEF ReplicationInv, ReplicationTypeOK
<1> QED BY <1>2, TablesKept, WorkersStep

LEMMA LocalWriteStep ==
    ASSUME ReplicationInv, NEW n \in Nodes, NEW r \in AllRows, LocalWrite(n, r)
    PROVE  ReplicationInv'
<1> USE DEF LocalWrite, admin
<1> DEFINE v == Stamped(n, writes + 1)
<1>1. v \in Versions /\ StampOK(v) /\ v.ts >= now /\ now \in Nat /\ writes + 1 \in Nat
  BY StampedVersion DEF ReplicationInv, ReplicationTypeOK
<1>2. row' = [row EXCEPT ![n][r] = v] /\ now' = now
  OBVIOUS
<1> HIDE DEF v
<1>3. row' \in [Nodes -> [AllRows -> Versions]]
  BY <1>1, <1>2 DEF ReplicationInv, ReplicationTypeOK
<1>4. ReplicationTypeOK'
  BY <1>1, <1>3 DEF ReplicationInv, ReplicationTypeOK
<1>5. \A m \in Nodes, q \in AllRows : row'[m][q] = row[m][q] \/ row'[m][q] = v
  BY <1>2 DEF ReplicationInv, ReplicationTypeOK
<1>6. \A m \in Nodes, q \in AllRows : row[m][q] \in Versions /\ StampOK(row[m][q])
  BY DEF ReplicationInv, ReplicationTypeOK, RowsStamped
<1>7. RowsStamped'
  BY <1>1, <1>2, <1>5, <1>6 DEF RowsStamped, StampOK
<1>8. v.ts > 0
  BY <1>1 DEF ReplicationInv, ReplicationTypeOK, Versions
<1>9. \A m \in Nodes, q \in AllRows : row[m][q].ts > 0 => row'[m][q].ts > 0
  BY <1>5, <1>8
<1>10. OriginsHeld'
  BY <1>9 DEF ReplicationInv, OriginsHeld
<1>11. Forward
  BY <1>1, <1>5, <1>6, <1>9 DEF Forward, AllRows, Versions
<1> QED BY <1>4, <1>7, <1>10, <1>11, WorkersStep

(* Changes of the entry for the peer that do not create one. *)
LEMMA PeerStep ==
    ASSUME ReplicationInv, peer' \in [Nodes -> PeerRecord],
           \A n \in Nodes : ~peer[n].exists => ~peer'[n].exists,
           UNCHANGED <<row, origin, conf, now, skew, writes, raced, vault, work>>
    PROVE  ReplicationInv'
<1>1. ReplicationTypeOK'
  BY DEF ReplicationInv, ReplicationTypeOK
<1> QED BY <1>1, TablesKept, WorkersStep

LEMMA PeerActions ==
    ASSUME ReplicationInv, NEW n \in Nodes,
           \/ TogglePeer(n) \/ MigrateKeys(n) \/ Probe(n)
           \/ \E k \in 1 .. MaxKeys : EnterKey(n, k)
    PROVE  ReplicationInv'
<1>1. /\ peer \in [Nodes -> PeerRecord]
      /\ vault' = vault /\ UNCHANGED <<row, origin, conf, now, skew, writes, raced, work>>
  BY DEF ReplicationInv, ReplicationTypeOK, TogglePeer, MigrateKeys, Probe, EnterKey, Change, tables
<1>2. CASE TogglePeer(n)
  BY <1>1, <1>2, PeerStep DEF TogglePeer, PeerRecord
<1>3. CASE MigrateKeys(n)
  BY <1>1, <1>3, PeerStep DEF MigrateKeys, PeerRecord
<1>4. CASE Probe(n)
  BY <1>1, <1>4, PeerStep DEF Probe, PeerRecord
<1>5. ASSUME NEW k \in 1 .. MaxKeys, EnterKey(n, k) PROVE ReplicationInv'
  <2>1. k \in Nat /\ peer[n].exists
    BY <1>5, ReplicationAssumption DEF EnterKey
  <2> DEFINE s == Encrypted(n)
  <2>2. peer' = [peer EXCEPT ![n].key = k, ![n].sealed = s]
    BY <1>5 DEF EnterKey
  <2>3. s \in BOOLEAN
    BY DEF Encrypted, ReplicationInv, ReplicationTypeOK
  <2> HIDE DEF s
  <2>4. peer' \in [Nodes -> PeerRecord] /\ \A m \in Nodes : peer'[m].exists = peer[m].exists
    BY <1>1, <2>1, <2>2, <2>3, ZenonT(30) DEF PeerRecord
  <2> QED BY <1>1, <2>4, PeerStep
<1> QED BY <1>2, <1>3, <1>4, <1>5
(* The vault and the keys issued here are outside the invariant. *)
LEMMA KeyActions ==
    ASSUME ReplicationInv, NEW n \in Nodes,
           Vault(n) \/ \E x \in Rotations : Deactivate(n, x) \/ RotateKey(n, x)
    PROVE  ReplicationInv'
<1>1. UNCHANGED <<row, origin, conf, now, skew, writes, raced, peer, work>>
  BY DEF Vault, Deactivate, RotateKey, Change, tables, env
<1>2. vault' \in [Nodes -> BOOLEAN]
  BY DEF ReplicationInv, ReplicationTypeOK, Vault, Deactivate, RotateKey
<1>3. ReplicationTypeOK'
  BY <1>1, <1>2 DEF ReplicationInv, ReplicationTypeOK
<1> QED BY <1>1, <1>3, TablesKept, WorkersStep

LEMMA DeletePeerStep ==
    ASSUME ReplicationInv, NEW n \in Nodes, DeletePeer(n) PROVE ReplicationInv'
<1> USE DEF DeletePeer, Change
<1>1. /\ peer' \in [Nodes -> PeerRecord] /\ ~peer'[n].exists
      /\ \A m \in Nodes \ {n} : peer'[m] = peer[m]
  BY DEF ReplicationInv, ReplicationTypeOK, PeerRecord
<1>2. conf' \in [Nodes -> SUBSET Conflicts]
  BY DEF ReplicationInv, ReplicationTypeOK
<1>3. ReplicationTypeOK'
  BY <1>1, <1>2 DEF ReplicationInv, ReplicationTypeOK
<1>4. ASSUME NEW m \in Nodes, NEW c \in conf[m]
      PROVE  \/ ForeignKeys /\ ~peer'[m].exists
             \/ \E d \in conf'[m] : d.r = c.r /\ d.remote = c.remote
  BY <1>1 DEF ReplicationInv, ReplicationTypeOK
<1>5. \A m \in Nodes, r \in Rows : row[m][r].ts \in Nat
  BY DEF ReplicationInv, ReplicationTypeOK, Versions, AllRows
<1>6. Forward
  BY <1>1, <1>4, <1>5 DEF Forward, ReplicationInv, ReplicationTypeOK
<1>7. RowsStamped' /\ OriginsHeld'
  BY DEF ReplicationInv, RowsStamped, StampOK, OriginsHeld
<1> QED BY <1>3, <1>6, <1>7, WorkersStep

(* A conflict that grows, or is marked: every old one is still there with  *)
(* the same row and version.                                               *)
LEMMA ConflictsKept ==
    ASSUME ReplicationInv, UNCHANGED <<row, origin, now, raced, peer>>,
           \A n \in Nodes : \A c \in conf[n] :
              \E d \in conf'[n] : d.r = c.r /\ d.remote = c.remote
    PROVE  Forward /\ RowsStamped' /\ OriginsHeld'
<1>1. \A n \in Nodes, r \in Rows : row[n][r].ts \in Nat
  BY DEF ReplicationInv, ReplicationTypeOK, Versions, AllRows
<1>2. now \in Nat
  BY DEF ReplicationInv, ReplicationTypeOK
<1>3. Forward
  BY <1>1, <1>2 DEF Forward
<1> QED BY <1>3 DEF ReplicationInv, RowsStamped, StampOK, OriginsHeld

LEMMA ResolveConflictStep ==
    ASSUME ReplicationInv, NEW n \in Nodes, ResolveConflict(n) PROVE ReplicationInv'
<1>1. PICK c \in conf[n] :
        /\ conf' = [conf EXCEPT ![n] = (conf[n] \ {c}) \cup {[c EXCEPT !.open = FALSE]}]
        /\ UNCHANGED <<row, origin, admin, work, env>>
  BY DEF ResolveConflict
<1> DEFINE e == [c EXCEPT !.open = FALSE]
<1>2. c \in Conflicts
  BY DEF ReplicationInv, ReplicationTypeOK
<1>3. e \in Conflicts /\ e.r = c.r /\ e.remote = c.remote
  BY <1>2 DEF Conflicts
<1>4. conf' = [conf EXCEPT ![n] = (conf[n] \ {c}) \cup {e}]
  BY <1>1
<1> HIDE DEF e
<1>5. conf' \in [Nodes -> SUBSET Conflicts]
  BY <1>3, <1>4 DEF ReplicationInv, ReplicationTypeOK
<1>6. UNCHANGED <<row, origin, now, skew, writes, raced, peer, vault, work>>
  BY <1>1 DEF admin, env
<1>7. ReplicationTypeOK'
  BY <1>5, <1>6 DEF ReplicationInv, ReplicationTypeOK
<1>8. ASSUME NEW m \in Nodes, NEW d \in conf[m]
      PROVE  \E f \in conf'[m] : f.r = d.r /\ f.remote = d.remote
  <2>1. CASE m = n /\ d = c
    BY <1>3, <1>4, <2>1 DEF ReplicationInv, ReplicationTypeOK
  <2>2. CASE ~(m = n /\ d = c)
    BY <1>4, <2>2 DEF ReplicationInv, ReplicationTypeOK
  <2> QED BY <2>1, <2>2
<1> QED BY <1>6, <1>7, <1>8, ConflictsKept, WorkersStep

-----------------------------------------------------------------------------
(* Exchange. *)

(* A cycle ends or is skipped. *)
LEMMA CycleEnds ==
    ASSUME ReplicationInv, NEW n \in Nodes, SkipPush(n) \/ PushFails(n) PROVE ReplicationInv'
<1> DEFINE w == <<n, "cycle">>
<1>1. w \in Workers /\ work' = [work EXCEPT ![w] = NoWork]
  BY DEF SkipPush, PushFails, Workers
<1>2. UNCHANGED <<row, origin, conf, now, skew, writes, raced, peer, vault>>
  BY DEF SkipPush, PushFails, tables, admin, env, Change
<1>3. work' \in [Workers -> WorkRecord]
  BY <1>1, IdleWork DEF ReplicationInv, ReplicationTypeOK
<1>4. ReplicationTypeOK'
  BY <1>2, <1>3 DEF ReplicationInv, ReplicationTypeOK
<1>5. ASSUME NEW v \in Workers PROVE work'[v] = work[v] \/ WorkerOK(work[v], v[1])'
  <2>1. work'[v] = work[v] \/ work'[v] = NoWork
    BY <1>1 DEF ReplicationInv, ReplicationTypeOK
  <2> QED BY <2>1, WorkerBegins
<1> QED BY <1>2, <1>4, <1>5, TablesKept, WorkersStep

LEMMA CallPullStep ==
    ASSUME ReplicationInv, NEW n \in Nodes, CallPull(n) PROVE ReplicationInv'
<1> DEFINE w == <<n, "cycle">>
           x == Received(DeltaExport(Other(n)), Unknown)
<1>1. w \in Workers /\ work' = [work EXCEPT ![w] = x]
  BY DEF CallPull, Workers
<1>2. UNCHANGED <<row, origin, conf, now, skew, writes, raced, peer, vault>>
  BY DEF CallPull, tables, admin
<1>3. /\ DeltaExport(Other(n)) \in Bundles
      /\ \A r \in DOMAIN DeltaExport(Other(n)) : StampOK(DeltaExport(Other(n))[r]) /\ DeltaExport(Other(n))[r].ts > 0
  BY OtherNode, Exports DEF ReplicationInv
<1>4. /\ x \in WorkRecord /\ x.at = "filter" /\ x.got = DeltaExport(Other(n))
      /\ x.todo = DOMAIN x.got /\ x.from = Unknown /\ x.dropped = {}
  BY <1>3, ReceivedWork
<1>5. Unknown # None
  BY ReplicationAssumption
<1> HIDE DEF x
<1>6. work' \in [Workers -> WorkRecord]
  BY <1>1, <1>4 DEF ReplicationInv, ReplicationTypeOK
<1>7. ReplicationTypeOK'
  BY <1>2, <1>6 DEF ReplicationInv, ReplicationTypeOK
<1>8. ASSUME NEW v \in Workers PROVE work'[v] = work[v] \/ WorkerOK(work[v], v[1])'
  <2>1. work'[v] = work[v] \/ work'[v] = x
    BY <1>1 DEF ReplicationInv, ReplicationTypeOK
  <2>2. CASE work'[v] = x
    BY <1>2, <1>3, <1>4, <1>5, <2>2, WorkerBegins DEF StampOK
  <2> QED BY <2>1, <2>2
<1> QED BY <1>2, <1>7, <1>8, TablesKept, WorkersStep

LEMMA PushStep ==
    ASSUME ReplicationInv, NEW n \in Nodes, Push(n) PROVE ReplicationInv'
<1> DEFINE w == <<n, "cycle">>
           u == <<Other(n), "inbound">>
           x == Received(PushBundle(n), NodeId)
<1>1. w \in Workers /\ u \in Workers /\ work' = [work EXCEPT ![w] = NoWork, ![u] = x]
  BY OtherNode DEF Push, Workers
<1>2. UNCHANGED <<row, origin, conf, now, skew, writes, raced, vault>>
  BY DEF Push, tables, env, Change
<1>3. PushBundle(n) \in Bundles /\ \A r \in DOMAIN PushBundle(n) : StampOK(PushBundle(n)[r]) /\ PushBundle(n)[r].ts > 0
  BY PushedBundle DEF ReplicationInv
<1>4. /\ x \in WorkRecord /\ x.at = "filter" /\ x.got = PushBundle(n)
      /\ x.todo = DOMAIN x.got /\ x.from = NodeId /\ x.dropped = {}
  BY <1>3, ReceivedWork
<1>5. NodeId # None
  BY ReplicationAssumption
<1> HIDE DEF x
<1>6. work' \in [Workers -> WorkRecord]
  BY <1>1, <1>4, IdleWork DEF ReplicationInv, ReplicationTypeOK
<1>7. peer' \in [Nodes -> PeerRecord] /\ \A m \in Nodes : peer'[m].exists = peer[m].exists
  <2>1. peer' = [peer EXCEPT ![n].pushed = TRUE] \/ peer' = peer
    BY DEF Push
  <2>2. peer \in [Nodes -> PeerRecord]
    BY DEF ReplicationInv, ReplicationTypeOK
  <2>3. CASE peer' = peer
    BY <2>2, <2>3
  <2>4. CASE peer' = [peer EXCEPT ![n].pushed = TRUE]
    BY <2>2, <2>4 DEF PeerRecord
  <2> QED BY <2>1, <2>3, <2>4
<1>8. ReplicationTypeOK'
  BY <1>2, <1>6, <1>7 DEF ReplicationInv, ReplicationTypeOK
<1>9. ASSUME NEW v \in Workers PROVE work'[v] = work[v] \/ WorkerOK(work[v], v[1])'
  <2>1. work'[v] = work[v] \/ work'[v] = NoWork \/ work'[v] = x
    BY <1>1 DEF ReplicationInv, ReplicationTypeOK
  <2>2. CASE work'[v] = x
    BY <1>2, <1>3, <1>4, <1>5, <2>2, WorkerBegins DEF StampOK
  <2>3. CASE work'[v] = NoWork
    BY <2>3, WorkerBegins
  <2> QED BY <2>1, <2>2, <2>3
<1> QED BY <1>2, <1>7, <1>8, <1>9, TablesKept, WorkersStep
-----------------------------------------------------------------------------
(* The steps of applying a bundle.  The worker keeps its bundle; what is   *)
(* left to show is the row it is at and the row it leaves.                 *)
LEMMA ApplyStep ==
    ASSUME ReplicationInv, ReplicationTypeOK', RowsStamped', OriginsHeld', Forward, now' = now,
           NEW w \in Workers, \A v \in Workers \ {w} : work'[v] = work[v],
           work'[w].got = work[w].got, work'[w].from = work[w].from, work[w].at # "idle",
           work'[w].todo \subseteq work[w].todo,
           work'[w].at \in Busy => work'[w].r \in work[w].todo \/ (work[w].at \in Busy /\ work'[w].r = work[w].r),
           CurrentOK(work[w], w[1])',
           \A r \in work'[w].dropped : r \in work[w].dropped \/ origin[w[1]][r] # None,
           \A r \in work[w].todo \cup work[w].dropped \cup work[w].failed :
              \/ r \in work'[w].todo \cup work'[w].dropped \cup work'[w].failed
              \/ work'[w].at \in Busy /\ r = work'[w].r,
           \A r \in Rows : work[w].at \in Busy /\ r = work[w].r =>
              \/ work'[w].at \in Busy /\ work'[w].r = r
              \/ r \in work'[w].failed \/ SettledAt(w[1], r, work[w].got[r])'
    PROVE  ReplicationInv'
<1>1. WorkerOK(work[w], w[1])
  BY DEF ReplicationInv
<1>2. BundleOK(work[w])'
  BY <1>1 DEF WorkerOK, BundleOK
<1>3. BundleStamped(work[w])'
  BY <1>1 DEF WorkerOK, BundleStamped, StampOK
<1>4. BehindOK(work[w], w[1])'
  BY <1>1, BehindStays DEF WorkerOK, ReplicationInv
<1>5. DroppedOK(work[w], w[1])'
  <2>1. work'[w].dropped \subseteq AllRows /\ w[1] \in Nodes
    BY WorkerPairs DEF ReplicationTypeOK, WorkRecord
  <2> QED BY <1>1, <2>1 DEF WorkerOK, DroppedOK, Forward
<1>6. WorkerOK(work[w], w[1])'
  BY <1>2, <1>3, <1>4, <1>5 DEF WorkerOK
<1>7. \A v \in Workers : work'[v] = work[v] \/ WorkerOK(work[v], v[1])'
  <2> TAKE v \in Workers
  <2>1. CASE v = w
    BY <1>6, <2>1
  <2>2. CASE v # w
    BY <2>2
  <2> QED BY <2>1, <2>2
<1> QED BY <1>7, WorkersStep

LEMMA FilterRowsStep ==
    ASSUME ReplicationInv, NEW w \in Workers, FilterRows(w) PROVE ReplicationInv'
<1>1. PICK r \in work[w].todo :
        work' = IF KeptByOrigin(w[1], r)
                THEN [work EXCEPT ![w].todo = work[w].todo \ {r}, ![w].at = "get", ![w].r = r]
                ELSE [work EXCEPT ![w].todo = work[w].todo \ {r},
                                  ![w].dropped = work[w].dropped \cup {r}]
  BY DEF FilterRows
<1>2. /\ UNCHANGED <<row, origin, conf, now, skew, writes, raced, peer, vault>>
      /\ work[w].at = "filter" /\ work \in [Workers -> WorkRecord]
  BY DEF FilterRows, tables, admin, env, ReplicationInv, ReplicationTypeOK
<1>3. r \in AllRows /\ work[w] \in WorkRecord
  BY <1>2 DEF WorkRecord
<1>4. CASE KeptByOrigin(w[1], r)
  <2>1. work' = [work EXCEPT ![w].todo = work[w].todo \ {r}, ![w].at = "get", ![w].r = r]
    BY <1>1, <1>4
  <2>2. /\ work'[w] \in WorkRecord /\ work' \in [Workers -> WorkRecord]
        /\ work'[w].todo = work[w].todo \ {r} /\ work'[w].at = "get" /\ work'[w].r = r
        /\ work'[w].got = work[w].got /\ work'[w].from = work[w].from
        /\ work'[w].dropped = work[w].dropped /\ work'[w].failed = work[w].failed
        /\ \A v \in Workers \ {w} : work'[v] = work[v]
    BY <1>2, <1>3, <2>1 DEF WorkRecord, Busy
  <2>3. ReplicationTypeOK'
    BY <1>2, <2>2 DEF ReplicationInv, ReplicationTypeOK
  <2>4. CurrentOK(work[w], w[1])'
    BY <2>2 DEF CurrentOK
  <2> QED BY <1>2, <2>2, <2>3, <2>4, TablesKept, ApplyStep DEF Busy
<1>5. CASE ~KeptByOrigin(w[1], r)
  <2>1. work' = [work EXCEPT ![w].todo = work[w].todo \ {r},
                             ![w].dropped = work[w].dropped \cup {r}]
    BY <1>1, <1>5
  <2>2. /\ work'[w] \in WorkRecord /\ work' \in [Workers -> WorkRecord]
        /\ work'[w].todo = work[w].todo \ {r} /\ work'[w].at = "filter"
        /\ work'[w].got = work[w].got /\ work'[w].from = work[w].from
        /\ work'[w].dropped = work[w].dropped \cup {r} /\ work'[w].failed = work[w].failed
        /\ \A v \in Workers \ {w} : work'[v] = work[v]
    BY <1>2, <1>3, <2>1 DEF WorkRecord, Busy
  <2>3. ReplicationTypeOK'
    BY <1>2, <2>2 DEF ReplicationInv, ReplicationTypeOK
  <2>4. CurrentOK(work[w], w[1])'
    BY <2>2 DEF CurrentOK
  <2>5. origin[w[1]][r] # None
    BY <1>5 DEF KeptByOrigin
  <2> QED BY <1>2, <2>2, <2>3, <2>4, <2>5, TablesKept, ApplyStep DEF Busy
<1> QED BY <1>4, <1>5

LEMMA GetRowStep ==
    ASSUME ReplicationInv, NEW w \in Workers, GetRow(w) PROVE ReplicationInv'
<1> DEFINE v0 == LocalRow(w[1], work[w].r)
<1>1. /\ UNCHANGED <<row, origin, conf, now, skew, writes, raced, peer, vault>>
      /\ work[w].at = "get" /\ work \in [Workers -> WorkRecord]
      /\ work' = [work EXCEPT ![w].at = "decide", ![w].seen = v0]
  BY DEF GetRow, tables, admin, env, ReplicationInv, ReplicationTypeOK
<1>2. /\ work[w] \in WorkRecord /\ w[1] \in Nodes /\ work[w].r \in AllRows
  <2>1. work[w].r \in DOMAIN work[w].got
    BY <1>1 DEF ReplicationInv, WorkerOK, BundleOK, Busy
  <2>2. work[w] \in WorkRecord /\ work[w].got \in Bundles
    BY <1>1 DEF WorkRecord
  <2> QED BY <2>1, <2>2, BundleValues, WorkerPairs
<1>3. v0 \in Versions
  BY <1>2 DEF LocalRow, Absent, Versions, ReplicationInv, ReplicationTypeOK
<1>4. work[w].r \in Rows => v0 = row[w[1]][work[w].r]
  BY ReplicationAssumption DEF LocalRow
<1> HIDE DEF v0
<1>5. /\ work'[w] \in WorkRecord /\ work' \in [Workers -> WorkRecord]
      /\ work'[w].todo = work[w].todo /\ work'[w].at = "decide" /\ work'[w].r = work[w].r
      /\ work'[w].got = work[w].got /\ work'[w].from = work[w].from /\ work'[w].seen = v0
      /\ work'[w].dropped = work[w].dropped /\ work'[w].failed = work[w].failed
      /\ \A v \in Workers \ {w} : work'[v] = work[v]
  BY <1>1, <1>2, <1>3 DEF WorkRecord, Busy
<1>6. ReplicationTypeOK'
  BY <1>1, <1>5 DEF ReplicationInv, ReplicationTypeOK
<1>7. CurrentOK(work[w], w[1])'
  BY <1>1, <1>4, <1>5 DEF CurrentOK, Reached
<1> QED BY <1>1, <1>5, <1>6, <1>7, TablesKept, ApplyStep DEF Busy
(* Where a worker that is at a row stands. *)
LEMMA AtRow ==
    ASSUME ReplicationInv, NEW w \in Workers, work[w].at \in Busy
    PROVE  /\ work[w] \in WorkRecord /\ w[1] \in Nodes /\ work[w].got \in Bundles
           /\ work[w].r \in DOMAIN work[w].got /\ work[w].r \in AllRows
           /\ work[w].got[work[w].r] \in Versions /\ StampOK(work[w].got[work[w].r])
           /\ work[w].got[work[w].r].ts > 0
           /\ work[w].seen \in Versions /\ row[w[1]][work[w].r] \in Versions
           /\ work[w].from # None /\ work[w].from \in {NodeId, Unknown}
<1>1. work[w] \in WorkRecord /\ WorkerOK(work[w], w[1])
  BY DEF ReplicationInv, ReplicationTypeOK
<1>2. /\ work[w].got \in Bundles /\ work[w].seen \in Versions
      /\ work[w].from \in {None, NodeId, Unknown}
  BY <1>1 DEF WorkRecord
<1>3. work[w].at # "idle"
  BY DEF Busy
<1>4. work[w].r \in DOMAIN work[w].got /\ work[w].from # None
  BY <1>1, <1>3 DEF WorkerOK, BundleOK
<1>5. /\ work[w].r \in AllRows /\ work[w].got[work[w].r] \in Versions
  BY <1>2, <1>4, BundleValues
<1>6. StampOK(work[w].got[work[w].r]) /\ work[w].got[work[w].r].ts > 0
  BY <1>1, <1>4 DEF WorkerOK, BundleStamped
<1>7. w[1] \in Nodes /\ row[w[1]][work[w].r] \in Versions
  BY <1>5, WorkerPairs DEF ReplicationInv, ReplicationTypeOK
<1> QED BY <1>1, <1>2, <1>4, <1>5, <1>6, <1>7

(* The worker is done with its row, which failed or is settled. *)
LEMMA RowDoneStep ==
    ASSUME ReplicationInv, NEW w \in Workers, work[w].at \in Busy, Forward, RowsStamped', OriginsHeld',
           now' = now, NEW F \in SUBSET AllRows,
           work' = [work EXCEPT ![w] = [RowDone(w) EXCEPT !.failed = F]],
           work[w].failed \subseteq F,
           work' \in [Workers -> WorkRecord] => ReplicationTypeOK',
           \A r \in Rows : r = work[w].r => r \in F \/ SettledAt(w[1], r, work[w].got[r])'
    PROVE  ReplicationInv'
<1> DEFINE y == [RowDone(w) EXCEPT !.failed = F]
<1>1. work \in [Workers -> WorkRecord] /\ work' = [work EXCEPT ![w] = y]
  BY DEF ReplicationInv, ReplicationTypeOK
<1>2. LET x == RowDone(w) IN
      /\ x \in WorkRecord /\ x.at = "filter" /\ x.got = work[w].got /\ x.todo = work[w].todo
      /\ x.from = work[w].from /\ x.dropped = work[w].dropped /\ x.failed = work[w].failed
  BY RowDoneWork DEF ReplicationInv
<1>3. /\ y \in WorkRecord /\ y.at = "filter" /\ y.got = work[w].got /\ y.todo = work[w].todo
      /\ y.from = work[w].from /\ y.dropped = work[w].dropped /\ y.failed = F
  BY <1>2 DEF WorkRecord
<1> HIDE DEF y
<1>4. /\ work' \in [Workers -> WorkRecord] /\ work'[w] = y
      /\ \A v \in Workers \ {w} : work'[v] = work[v]
  BY <1>1, <1>3
<1>5. CurrentOK(work[w], w[1])'
  BY <1>3, <1>4 DEF CurrentOK
<1> QED BY <1>3, <1>4, <1>5, ApplyStep DEF Busy

(* RowDone with the failures that were there before. *)
LEMMA SameFailures ==
    ASSUME ReplicationTypeOK, NEW w \in Workers
    PROVE  RowDone(w) = [RowDone(w) EXCEPT !.failed = work[w].failed]
<1>1. RowDone(w) \in WorkRecord /\ RowDone(w).failed = work[w].failed
  BY RowDoneWork
<1> QED BY <1>1 DEF WorkRecord

LEMMA KeepLocalStep ==
    ASSUME ReplicationInv, NEW w \in Workers, KeepLocal(w) PROVE ReplicationInv'
<1> DEFINE x == work[w]
           n == w[1]
<1>1. /\ x.at = "decide" /\ x.at \in Busy /\ ~RemoteWins(x.got[x.r], x.seen)
      /\ UNCHANGED <<row, origin, now, skew, writes, raced, peer, vault>>
  BY DEF KeepLocal, admin, env, Busy
<1>2. /\ x \in WorkRecord /\ n \in Nodes /\ x.r \in AllRows
      /\ x.got[x.r] \in Versions /\ x.seen \in Versions /\ row[n][x.r] \in Versions
  BY <1>1, AtRow
<1>3. x.failed \in SUBSET AllRows
  BY <1>2 DEF WorkRecord
<1>4. x.r \in Rows => Reached(n, x.r, x.got[x.r].born)
  <2>1. x.got[x.r] \in Versions /\ StampOK(x.got[x.r]) /\ x.seen \in Versions
    BY <1>1, AtRow
  <2>2. x.seen.ts >= x.got[x.r].born
    BY <1>1, <2>1 DEF RemoteWins, Versions, StampOK
  <2> QED BY <1>1, <2>2 DEF ReplicationInv, WorkerOK, CurrentOK
<1>5. CASE ForeignKeys /\ ~peer[n].exists
  <2>1. work' = [work EXCEPT ![w] = [RowDone(w) EXCEPT !.failed = RowDone(w).failed \cup {x.r}]]
        /\ conf' = conf
    BY <1>5 DEF KeepLocal
  <2>2. RowDone(w).failed = x.failed
    BY RowDoneWork DEF ReplicationInv
  <2>3. Forward /\ RowsStamped' /\ OriginsHeld'
    BY <1>1, <2>1, TablesKept
  <2>4. work' \in [Workers -> WorkRecord] => ReplicationTypeOK'
    BY <1>1, <2>1 DEF ReplicationInv, ReplicationTypeOK
  <2> DEFINE F == x.failed \cup {x.r}
  <2>5. F \in SUBSET AllRows /\ x.failed \subseteq F /\ x.r \in F
    BY <1>2, <1>3
  <2>6. work' = [work EXCEPT ![w] = [RowDone(w) EXCEPT !.failed = F]]
    BY <2>1, <2>2
  <2> HIDE DEF F
  <2> QED BY <1>1, <2>3, <2>4, <2>5, <2>6, RowDoneStep
<1>6. CASE ~(ForeignKeys /\ ~peer[n].exists)
  <2> DEFINE c == [r |-> x.r, local |-> x.seen, remote |-> x.got[x.r], open |-> TRUE]
  <2>1. /\ work' = [work EXCEPT ![w] = RowDone(w)]
        /\ conf' = [conf EXCEPT ![n] = conf[n] \cup {c}]
    BY <1>6 DEF KeepLocal, Conflict
  <2>2. c \in Conflicts /\ c.r = x.r /\ c.remote = x.got[x.r]
    BY <1>2 DEF Conflicts
  <2> HIDE DEF c
  <2>3. /\ conf' \in [Nodes -> SUBSET Conflicts] /\ c \in conf'[n]
        /\ \A m \in Nodes : conf[m] \subseteq conf'[m]
    BY <1>2, <2>1, <2>2 DEF ReplicationInv, ReplicationTypeOK
  <2>4. Forward /\ RowsStamped' /\ OriginsHeld'
    BY <1>1, <2>3, ConflictsKept
  <2>5. work' \in [Workers -> WorkRecord] => ReplicationTypeOK'
    BY <1>1, <2>3 DEF ReplicationInv, ReplicationTypeOK
  <2>6. work' = [work EXCEPT ![w] = [RowDone(w) EXCEPT !.failed = x.failed]]
    BY <2>1, SameFailures DEF ReplicationInv
  <2>7. RowDone(w).got = x.got /\ work'[w] = RowDone(w)
    BY <2>1, RowDoneWork DEF ReplicationInv, ReplicationTypeOK
  <2>8. \A r \in Rows : r = work[w].r => SettledAt(w[1], r, work[w].got[r])'
    BY <1>1, <1>4, <2>2, <2>3, <2>7 DEF SettledAt, Reached
  <2> QED BY <1>1, <1>3, <2>4, <2>5, <2>6, <2>8, RowDoneStep
<1> QED BY <1>5, <1>6

LEMMA RecordOriginStep ==
    ASSUME ReplicationInv, NEW w \in Workers, RecordOrigin(w) PROVE ReplicationInv'
<1> DEFINE x == work[w]
           n == w[1]
<1>1. /\ x.at = "origin" /\ x.at \in Busy
      /\ UNCHANGED <<row, conf, now, skew, writes, raced, peer, vault>>
      /\ origin' = [origin EXCEPT ![n][x.r] = x.from]
      /\ work' = [work EXCEPT ![w] = RowDone(w)]
  BY DEF RecordOrigin, admin, env, Busy
<1>2. /\ x \in WorkRecord /\ n \in Nodes /\ x.r \in AllRows
      /\ x.from # None /\ x.from \in {NodeId, Unknown}
  BY <1>1, AtRow
<1>3. x.failed \in SUBSET AllRows
  BY <1>2 DEF WorkRecord
<1>4. /\ origin' \in [Nodes -> [AllRows -> {None, NodeId, Unknown}]] /\ origin'[n][x.r] # None
      /\ \A m \in Nodes, r \in AllRows : origin[m][r] # None => origin'[m][r] # None
  BY <1>1, <1>2 DEF ReplicationInv, ReplicationTypeOK
<1>5. /\ \A m \in Nodes, r \in Rows : row[m][r].ts \in Nat
      /\ now \in Nat
  BY DEF ReplicationInv, ReplicationTypeOK, Versions, AllRows
<1>6. Forward /\ RowsStamped' /\ OriginsHeld'
  <2>1. row[n][x.r].ts > 0
    BY <1>1 DEF ReplicationInv, WorkerOK, CurrentOK
  <2>2. OriginsHeld'
    BY <1>1, <1>2, <2>1 DEF ReplicationInv, ReplicationTypeOK, OriginsHeld
  <2>3. RowsStamped'
    BY <1>1 DEF ReplicationInv, RowsStamped, StampOK
  <2> QED BY <1>1, <1>4, <1>5, <2>2, <2>3 DEF Forward
<1>7. work' \in [Workers -> WorkRecord] => ReplicationTypeOK'
  BY <1>1, <1>4 DEF ReplicationInv, ReplicationTypeOK
<1>8. work' = [work EXCEPT ![w] = [RowDone(w) EXCEPT !.failed = x.failed]]
  BY <1>1, SameFailures DEF ReplicationInv
<1>9. RowDone(w).got = x.got /\ work'[w] = RowDone(w)
  BY <1>1, RowDoneWork DEF ReplicationInv, ReplicationTypeOK
<1>10. x.r \in Rows => Reached(n, x.r, x.got[x.r].born)
  BY <1>1 DEF ReplicationInv, WorkerOK, CurrentOK
<1>11. \A r \in Rows : r = work[w].r => SettledAt(w[1], r, work[w].got[r])'
  BY <1>1, <1>4, <1>9, <1>10 DEF SettledAt, Reached
<1> QED BY <1>1, <1>3, <1>6, <1>7, <1>8, <1>11, RowDoneStep

LEMMA RowFailsStep ==
    ASSUME ReplicationInv, NEW w \in Workers, RowFails(w) PROVE ReplicationInv'
<1> DEFINE x == work[w]
           F == x.failed \cup {x.r}
<1>1. /\ x.at \in Busy /\ UNCHANGED <<row, origin, conf, now, skew, writes, raced, peer, vault>>
      /\ work' = [work EXCEPT ![w] = [RowDone(w) EXCEPT !.failed = RowDone(w).failed \cup {x.r}]]
  BY DEF RowFails, tables, admin, env, Busy, Change
<1>2. x \in WorkRecord /\ x.r \in AllRows
  BY <1>1, AtRow
<1>3. F \in SUBSET AllRows /\ x.failed \subseteq F /\ x.r \in F
  BY <1>2 DEF WorkRecord
<1>4. RowDone(w).failed = x.failed
  BY RowDoneWork DEF ReplicationInv
<1>5. work' = [work EXCEPT ![w] = [RowDone(w) EXCEPT !.failed = F]]
  BY <1>1, <1>4
<1>6. Forward /\ RowsStamped' /\ OriginsHeld'
  BY <1>1, TablesKept
<1>7. work' \in [Workers -> WorkRecord] => ReplicationTypeOK'
  BY <1>1 DEF ReplicationInv, ReplicationTypeOK
<1> HIDE DEF F
<1> QED BY <1>1, <1>3, <1>5, <1>6, <1>7, RowDoneStep

LEMMA ApplyDoneStep ==
    ASSUME ReplicationInv, NEW w \in Workers, ApplyDone(w) PROVE ReplicationInv'
<1>1. /\ UNCHANGED <<row, origin, conf, now, skew, writes, raced, peer, vault>>
      /\ work[w].at = "filter" /\ work \in [Workers -> WorkRecord] /\ work[w] \in WorkRecord
  BY DEF ApplyDone, tables, admin, env, ReplicationInv, ReplicationTypeOK
<1>2. Forward /\ RowsStamped' /\ OriginsHeld'
  BY <1>1, TablesKept
<1>3. CASE w[2] = "cycle"
  <2>1. work' = [work EXCEPT ![w].at = "push"]
    BY <1>3 DEF ApplyDone, At
  <2>2. /\ work'[w] \in WorkRecord /\ work' \in [Workers -> WorkRecord]
        /\ work'[w].todo = work[w].todo /\ work'[w].at = "push"
        /\ work'[w].got = work[w].got /\ work'[w].from = work[w].from
        /\ work'[w].dropped = work[w].dropped /\ work'[w].failed = work[w].failed
        /\ \A v \in Workers \ {w} : work'[v] = work[v]
    BY <1>1, <2>1 DEF WorkRecord
  <2>3. ReplicationTypeOK'
    BY <1>1, <2>2 DEF ReplicationInv, ReplicationTypeOK
  <2>4. CurrentOK(work[w], w[1])'
    BY <2>2 DEF CurrentOK
  <2> QED BY <1>1, <1>2, <2>2, <2>3, <2>4, ApplyStep DEF Busy
<1>4. CASE w[2] # "cycle"
  <2>1. work' = [work EXCEPT ![w] = NoWork]
    BY <1>4 DEF ApplyDone
  <2>2. work' \in [Workers -> WorkRecord]
    BY <1>1, <2>1, IdleWork
  <2>3. ReplicationTypeOK'
    BY <1>1, <2>2 DEF ReplicationInv, ReplicationTypeOK
  <2>4. ASSUME NEW v \in Workers PROVE work'[v] = work[v] \/ WorkerOK(work[v], v[1])'
    <3>1. work'[v] = work[v] \/ work'[v] = NoWork
      BY <1>1, <2>1
    <3> QED BY <3>1, WorkerBegins
  <2> QED BY <1>2, <2>3, <2>4, WorkersStep
<1> QED BY <1>3, <1>4
(* restore writes a version whose stamp has reached what was given to it;  *)
(* where the row is the one that was compared, it goes back neither to an  *)
(* earlier stamp than both that one and the present, nor to a version made *)
(* more than the skew before it.                                           *)
LEMMA RestoreWrites ==
    ASSUME ReplicationInv, NEW w \in Workers, Restore(w)
    PROVE  LET n == w[1]
               q == work[w].r
           IN  /\ row' \in [Nodes -> [AllRows -> Versions]] /\ RowsStamped'
               /\ \A m \in Nodes, r \in AllRows : row'[m][r] = row[m][r] \/ (m = n /\ r = q)
               /\ row'[n][q].ts >= work[w].got[q].born /\ row'[n][q].ts > 0
               /\ row[n][q] = work[w].seen => \/ row'[n][q].ts >= row[n][q].ts
                                             \/ row'[n][q].ts >= now
               /\ row[n][q] = work[w].seen => row'[n][q].born + MaxSkew >= row[n][q].born
<1> DEFINE x == work[w]
           n == w[1]
           old == row[n][x.r]
           v == Merged(n, old, x.got[x.r])
<1>1. /\ x.at \in Busy /\ RemoteWins(x.got[x.r], x.seen) /\ now' = now
      /\ row' = [row EXCEPT ![n][x.r] = v]
  BY DEF Restore, Busy
<1>2. /\ n \in Nodes /\ x.r \in AllRows /\ x.got[x.r] \in Versions /\ StampOK(x.got[x.r])
      /\ x.got[x.r].ts > 0 /\ x.seen \in Versions /\ old \in Versions
  BY <1>1, AtRow
<1>3. StampOK(old) /\ now \in Nat \ {0} /\ MaxSkew \in Nat
  BY <1>2, ReplicationAssumption DEF ReplicationInv, ReplicationTypeOK, RowsStamped
<1>4. /\ v \in Versions /\ StampOK(v)
      /\ v.ts = x.got[x.r].ts \/ (v.ts >= now /\ v.born = now)
      /\ v = x.got[x.r] \/ v = old \/ v.born = now
  BY <1>2, <1>3, MergedVersion DEF ReplicationInv
<1> HIDE DEF v
<1>5. v.ts >= x.got[x.r].born /\ v.ts > 0
  BY <1>2, <1>3, <1>4 DEF Versions, StampOK
<1>6. ASSUME old = x.seen
      PROVE  (v.ts >= old.ts \/ v.ts >= now) /\ v.born + MaxSkew >= old.born
  BY <1>1, <1>2, <1>3, <1>4, <1>6 DEF RemoteWins, Versions, StampOK
<1>7. /\ row' \in [Nodes -> [AllRows -> Versions]] /\ row'[n][x.r] = v
      /\ \A m \in Nodes, r \in AllRows : row'[m][r] = row[m][r] \/ (m = n /\ r = x.r)
  BY <1>1, <1>2, <1>4 DEF ReplicationInv, ReplicationTypeOK
<1>8. RowsStamped'
  BY <1>1, <1>4, <1>7 DEF ReplicationInv, RowsStamped, StampOK
<1> QED BY <1>5, <1>6, <1>7, <1>8

LEMMA RestoreStep ==
    ASSUME ReplicationInv, NEW w \in Workers, Restore(w) PROVE ReplicationInv'
<1> DEFINE x == work[w]
           n == w[1]
<1>1. /\ x.at = "decide" /\ x.at \in Busy
      /\ UNCHANGED <<origin, conf, now, skew, writes, peer, vault>>
      /\ work' = [work EXCEPT ![w].at = "origin"]
      /\ raced' = IF row[n][x.r] # x.seen THEN raced \cup {<<n, x.r>>} ELSE raced
  BY DEF Restore, At, admin, Busy
<1>2. /\ x \in WorkRecord /\ n \in Nodes /\ x.r \in AllRows /\ x.r \in DOMAIN x.got
      /\ work \in [Workers -> WorkRecord]
  BY <1>1, AtRow DEF ReplicationInv, ReplicationTypeOK
<1>3. /\ work'[w] \in WorkRecord /\ work' \in [Workers -> WorkRecord]
      /\ work'[w].todo = x.todo /\ work'[w].at = "origin" /\ work'[w].r = x.r
      /\ work'[w].got = x.got /\ work'[w].from = x.from
      /\ work'[w].dropped = x.dropped /\ work'[w].failed = x.failed
      /\ \A u \in Workers \ {w} : work'[u] = work[u]
  BY <1>1, <1>2 DEF WorkRecord, Busy
<1>4. ReplicationTypeOK' /\ RowsStamped'
  BY <1>1, <1>3, RestoreWrites DEF ReplicationInv, ReplicationTypeOK
<1>5. \A m \in Nodes, r \in AllRows : row[m][r].ts > 0 => row'[m][r].ts > 0
  BY RestoreWrites
<1>6. OriginsHeld'
  BY <1>1, <1>5 DEF ReplicationInv, OriginsHeld
<1>7. raced \subseteq raced' /\ (row[n][x.r] # x.seen => <<n, x.r>> \in raced')
  BY <1>1
<1>8. ASSUME NEW m \in Nodes, NEW r \in Rows
      PROVE  <<m, r>> \in raced' \/ row'[m][r].ts >= row[m][r].ts \/ row'[m][r].ts >= now
  <2>1. r \in AllRows /\ row[m][r].ts \in Nat
    BY DEF ReplicationInv, ReplicationTypeOK, Versions, AllRows
  <2>2. CASE row'[m][r] = row[m][r]
    BY <2>1, <2>2
  <2>3. CASE m = n /\ r = x.r
    BY <1>7, <2>3, RestoreWrites
  <2> QED BY <2>1, <2>2, <2>3, RestoreWrites
<1>9. now \in Nat
  BY DEF ReplicationInv, ReplicationTypeOK
<1>10. Forward
  BY <1>1, <1>5, <1>7, <1>8, <1>9 DEF Forward
<1>11. CurrentOK(work[w], w[1])'
  BY <1>3, RestoreWrites DEF CurrentOK, Reached
<1> QED BY <1>1, <1>3, <1>4, <1>6, <1>10, <1>11, ApplyStep DEF Busy

-----------------------------------------------------------------------------
LEMMA ReplicationInit == Init => ReplicationInv
<1> SUFFICES ASSUME Init PROVE ReplicationInv
  OBVIOUS
<1> USE DEF Init
<1>1. Absent \in Versions /\ StampOK(Absent)
  BY ReplicationAssumption DEF Absent, Versions, StampOK
<1>2. /\ row \in [Nodes -> [AllRows -> Versions]] /\ work \in [Workers -> WorkRecord]
      /\ \A w \in Workers : work[w] = NoWork
  BY <1>1, IdleWork
<1>3. peer \in [Nodes -> PeerRecord]
  BY DEF PeerRecord
<1>4. ReplicationTypeOK
  <2>1. origin \in [Nodes -> [AllRows -> {None, NodeId, Unknown}]] /\ conf \in [Nodes -> SUBSET Conflicts]
    OBVIOUS
  <2>2. vault \in [Nodes -> BOOLEAN] /\ now \in Nat \ {0} /\ writes \in Nat
    OBVIOUS
  <2> QED BY <1>2, <1>3, <2>1, <2>2 DEF ReplicationTypeOK
<1>5. RowsStamped /\ OriginsHeld
  BY <1>1 DEF RowsStamped, OriginsHeld
<1>6. ASSUME NEW w \in Workers PROVE WorkerOK(work[w], w[1])
  <2>1. /\ work[w].at = "idle" /\ DOMAIN work[w].got = {} /\ work[w].todo = {} /\ work[w].dropped = {}
    BY <1>2, IdleWork, EmptyBundle
  <2> QED BY <2>1 DEF WorkerOK, BundleOK, BundleStamped, CurrentOK, BehindOK, DroppedOK, Busy
<1> QED BY <1>4, <1>5, <1>6 DEF ReplicationInv

LEMMA ReplicationStep == ReplicationInv /\ [Next]_vars => ReplicationInv'
<1> SUFFICES ASSUME ReplicationInv, [Next]_vars PROVE ReplicationInv'
  OBVIOUS
<1>1. CASE UNCHANGED vars
  <2>1. UNCHANGED <<row, origin, conf, peer, vault, work, now, skew, writes, raced>>
    BY <1>1 DEF vars, tables, admin, env
  <2>2. ReplicationTypeOK'
    BY <2>1 DEF ReplicationInv, ReplicationTypeOK
  <2> QED BY <2>1, <2>2, TablesKept, WorkersStep
<1>2. CASE Tick
  BY <1>2, TickStep
<1>3. ASSUME NEW n \in Nodes,
             \/ \E r \in AllRows : LocalWrite(n, r)
             \/ SetClock(n) \/ Vault(n) \/ TogglePeer(n) \/ MigrateKeys(n) \/ DeletePeer(n)
             \/ \E k \in 1 .. MaxKeys : EnterKey(n, k)
             \/ ResolveConflict(n) \/ Probe(n)
             \/ \E x \in Rotations : Deactivate(n, x) \/ RotateKey(n, x)
             \/ CallPull(n) \/ Push(n) \/ SkipPush(n) \/ PushFails(n)
      PROVE  ReplicationInv'
  BY <1>3, LocalWriteStep, SetClockStep, PeerActions, KeyActions, DeletePeerStep, ResolveConflictStep,
     CallPullStep, PushStep, CycleEnds
<1>4. ASSUME NEW w \in Workers,
             \/ FilterRows(w) \/ GetRow(w) \/ KeepLocal(w) \/ Restore(w)
             \/ RecordOrigin(w) \/ RowFails(w) \/ ApplyDone(w)
      PROVE  ReplicationInv'
  BY <1>4, FilterRowsStep, GetRowStep, KeepLocalStep, RestoreStep, RecordOriginStep,
     RowFailsStep, ApplyDoneStep
<1> QED BY <1>1, <1>2, <1>3, <1>4 DEF Next

(* The inductive invariant holds: types, every stamp within the skew of    *)
(* the time it was made, rows there whose origin is on record, and for     *)
(* every worker of _apply_bundle the rows it has dealt with.               *)
THEOREM ReplicationInvariant == Spec => []ReplicationInv
  BY ReplicationInit, ReplicationStep, PTL DEF Spec

(* _apply_bundle: whatever runs beside it and whatever the clocks show     *)
(* within the skew, each row of a bundle was counted as failed, is stored  *)
(* with a stamp no earlier than its version, with its origin or the        *)
(* conflict it lost on record, or was dropped where an earlier version of  *)
(* it is; unless a write raced.                                            *)
THEOREM RowsAreSettled == Spec => []ReceivedRowsAreSettled
<1>1. ReplicationInv => ReceivedRowsAreSettled
  <2> SUFFICES ASSUME ReplicationInv, NEW w \in Workers, work[w].at \in {"filter", "push"},
                      NEW r \in DOMAIN work[w].got \ (work[w].todo \cup work[w].failed \cup Blind)
               PROVE  \/ SettledAt(w[1], r, work[w].got[r])
                      \/ r \in work[w].dropped /\ origin[w[1]][r] # None /\ row[w[1]][r].ts > 0
    BY DEF ReceivedRowsAreSettled, SettledAt
  <2>1. BehindOK(work[w], w[1]) /\ DroppedOK(work[w], w[1]) /\ work[w].at \notin Busy
    BY DEF ReplicationInv, WorkerOK, Busy
  <2>2. CASE r \in work[w].dropped
    <3>1. r \in AllRows /\ w[1] \in Nodes /\ origin[w[1]][r] # None
      BY <2>1, <2>2, WorkerPairs DEF DroppedOK, ReplicationInv, ReplicationTypeOK, WorkRecord
    <3> QED BY <2>2, <3>1 DEF ReplicationInv, OriginsHeld
  <2>3. CASE r \notin work[w].dropped
    BY <2>1, <2>3 DEF BehindOK
  <2> QED BY <2>2, <2>3
<1> QED BY <1>1, ReplicationInvariant, PTL

(* _lww_remote_wins, get_row and restore, with clocks that are off by no   *)
(* more than the tolerance: a row goes back to a version stamped more than *)
(* that before it only where the version that is replaced is not the one   *)
(* that was compared, however the cycle, the handler of pushes and users   *)
(* interleave.                                                             *)
THEOREM OnlyRacesOverwrite == Spec => NoStaleOverwrite
<1> DEFINE Raced(n, r) == \E w \in Workers : /\ w[1] = n /\ work[w].at = "decide" /\ work[w].r = r
                                             /\ work[w].seen # row[n][r]
           Kept == \A n \in Nodes, r \in Rows :
                      row'[n][r].born + MaxSkew < row[n][r].born => Raced(n, r)
<1>1. ReplicationInv /\ [Next]_vars => [Kept]_vars
  <2> SUFFICES ASSUME ReplicationInv, Next, NEW n \in Nodes, NEW r \in Rows,
                      row'[n][r].born + MaxSkew < row[n][r].born
               PROVE  Raced(n, r)
    OBVIOUS
  <2>1. /\ r \in AllRows /\ row[n][r].born \in Nat /\ row[n][r].born <= now /\ now \in Nat
        /\ MaxSkew \in Nat
    BY ReplicationAssumption
    DEF ReplicationInv, ReplicationTypeOK, RowsStamped, StampOK, Versions, AllRows
  <2>2. row' # row
    BY <2>1
  <2>3. CASE \E m \in Nodes, q \in AllRows : LocalWrite(m, q)
    <3>1. PICK m \in Nodes, q \in AllRows : LocalWrite(m, q)
      BY <2>3
    <3>2. row'[n][r] = row[n][r] \/ row'[n][r].born = now
      BY <2>1, <3>1 DEF LocalWrite, Stamped, ReplicationInv, ReplicationTypeOK
    <3> QED BY <2>1, <3>2
  <2>4. CASE \E w \in Workers : Restore(w)
    <3>1. PICK w \in Workers : Restore(w)
      BY <2>4
    <3>2. w[1] = n /\ work[w].r = r
      BY <2>1, <3>1, RestoreWrites
    <3>3. work[w].at = "decide"
      BY <3>1 DEF Restore
    <3>4. row'[n][r].born \in Nat
      BY <2>1, <3>1, RestoreWrites DEF Versions
    <3>5. work[w].seen # row[n][r]
      BY <2>1, <3>1, <3>2, <3>4, RestoreWrites
    <3> QED BY <3>2, <3>3, <3>5
  <2>5. CASE row' = row
    BY <2>2, <2>5
  <2>6. \/ \E m \in Nodes, q \in AllRows : LocalWrite(m, q)
        \/ \E w \in Workers : Restore(w)
        \/ row' = row
    BY DEF Next, Tick, SetClock, Vault, TogglePeer, MigrateKeys, DeletePeer, EnterKey, ResolveConflict,
           Probe, Deactivate, RotateKey, CallPull, Push, SkipPush, PushFails, FilterRows, GetRow,
           KeepLocal, RecordOrigin, RowFails, ApplyDone, tables
  <2> QED BY <2>3, <2>4, <2>5, <2>6
<1> QED BY <1>1, ReplicationInvariant, PTL DEF Spec, NoStaleOverwrite
=============================================================================
