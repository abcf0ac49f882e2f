--------------------------- MODULE SnapshotProofs ---------------------------
(***************************************************************************)
(* Proofs about snapshots: how they are kept in a sink (SnapshotStore),    *)
(* then what is in them and where a restore puts it (BackupBundles).       *)
(***************************************************************************)
EXTENDS SnapshotStore, BackupBundles, TLAPS

Putting  == {"bundle", "copying", "sidecar", "closing", "record"}
Deleting == {"unlink", "unlink sidecar"}
PutOp    == [at : Putting, l : Locators, b : Blobs]
DeleteOp == [at : Deleting, l : Locators, b : {Nothing}]
OpRecord == {Idle} \cup PutOp \cup DeleteOp
Contents == Blobs \cup {Nothing, Torn}

StoreTypeOK ==
    /\ sink \in Sinks
    /\ file \in [Locators -> Contents]
    /\ side \in [Locators -> Contents]
    /\ rows \in [Locators -> Blobs \cup {Nothing}]
    /\ op \in [Clients -> OpRecord]
    /\ doomed \subseteq Locators
    /\ reused \subseteq Locators

(* A locator that was not reused has one client at most. *)
OneClient == \A c, d \in Clients :
                op[c] # Idle /\ op[d] # Idle /\ op[c].l = op[d].l /\ op[c].l \notin reused => c = d

(* How far the client with operation r has come with the bundle f and the  *)
(* sidecar s of its locator, which is doomed or not.                       *)
Phase(r, f, s, dead) ==
    /\ dead <=> r.at \in Deleting
    /\ r.at = "bundle"  => f = Nothing /\ s = Nothing
    /\ r.at = "copying" => f = Torn /\ s = Nothing
    /\ r.at = "sidecar" => f = r.b /\ s = Nothing
    /\ r.at = "closing" => f = r.b /\ s = Torn
    /\ r.at = "record"  => f = r.b /\ s = r.b
    /\ r.at = "unlink sidecar" => f = Nothing

(* A sidecar that can be read has its bundle, or had it before a delete;   *)
(* a recorded snapshot that nobody deletes has both.                       *)
Kept(f, s, w, dead) ==
    /\ s \in Blobs => f = s \/ (dead /\ f = Nothing)
    /\ w # Nothing /\ ~dead => f = w /\ s = w

ClientsInPhase ==
    \A c \in Clients : op[c] # Idle /\ op[c].l \notin reused =>
        Phase(op[c], file[op[c].l], side[op[c].l], op[c].l \in doomed)
FilesKept == \A l \in Locators \ reused : Kept(file[l], side[l], rows[l], l \in doomed)

(* The inductive invariant. *)
StoreInv == StoreTypeOK /\ OneClient /\ ClientsInPhase /\ FilesKept

USE DEF Putting, Deleting, PutOp, DeleteOp, OpRecord, Contents, Torn

(* An operation under way is not Idle. *)
LEMMA OpsDiffer ==
    ASSUME NEW r \in PutOp \cup DeleteOp
    PROVE  /\ r # Idle /\ r.at \in Putting \cup Deleting /\ r.l \in Locators
           /\ r.at \in Putting => r \in PutOp /\ r.b \in Blobs
<1>1. r.at \in Putting \cup Deleting
  OBVIOUS
<1>2. Idle.at = "idle"
  BY DEF Idle
<1>3. r # Idle
  BY <1>1, <1>2
<1> QED BY <1>1, <1>3

(* What Step leaves of an operation. *)
LEMMA PhaseOnly ==
    ASSUME NEW Phases, NEW x \in [at : Phases, l : Locators, b : Contents], NEW at
    PROVE  [x EXCEPT !.at = at] = [at |-> at, l |-> x.l, b |-> x.b]
OBVIOUS

(* Before the first operation there is nothing. *)
LEMMA StoreStarts == StoreInit => StoreInv
<1> SUFFICES ASSUME StoreInit PROVE StoreInv OBVIOUS
<1> USE StoreAssumption DEF StoreInit
<1>1. StoreTypeOK BY DEF StoreTypeOK
<1>2. OneClient BY DEF OneClient
<1>3. ClientsInPhase BY DEF ClientsInPhase
<1>4. FilesKept BY DEF FilesKept, Kept
<1> QED BY <1>1, <1>2, <1>3, <1>4 DEF StoreInv

(* Put: a locator that is busy, present or doomed is marked reused. *)
LEMMA PutStep ==
    ASSUME StoreInv, NEW c \in Clients, NEW l \in Locators, NEW b \in Blobs, Put(c, l, b)
    PROVE  StoreInv'
<1> USE StoreAssumption DEF StoreInv, StoreTypeOK
<1>0. op' = [op EXCEPT ![c] = [at |-> "bundle", l |-> l, b |-> b]] /\ op[c] = Idle
  BY DEF Put
<1>1. StoreTypeOK'
  BY DEF Put
<1>2. OneClient'
  BY DEF Put, OneClient, Busy, Idle
<1>3. ClientsInPhase'
  <2> SUFFICES ASSUME NEW d \in Clients, op'[d] # Idle, op'[d].l \notin reused'
               PROVE  Phase(op'[d], file'[op'[d].l], side'[op'[d].l], op'[d].l \in doomed')
    BY DEF ClientsInPhase
  <2>1. CASE d = c
    <3> DEFINE r == [at |-> "bundle", l |-> l, b |-> b]
    <3>1. r.at = "bundle" /\ r.l = l
      OBVIOUS
    <3>2. op'[d] = r
      BY <2>1, <1>0
    <3> HIDE DEF r
    <3> QED BY <3>1, <3>2 DEF Put, Phase
  <2>2. CASE d # c
    BY <2>2, <1>0 DEF Put, ClientsInPhase
  <2> QED BY <2>1, <2>2
<1>4. FilesKept'
  BY DEF Put, FilesKept
<1> QED BY <1>1, <1>2, <1>3, <1>4

(* Delete: the locator is doomed, and reused when it was busy. *)
LEMMA DeleteStep ==
    ASSUME StoreInv, NEW c \in Clients, NEW l \in Locators, Delete(c, l)
    PROVE  StoreInv'
<1> USE StoreAssumption DEF StoreInv, StoreTypeOK
<1>0. op' = [op EXCEPT ![c] = [at |-> "unlink", l |-> l, b |-> Nothing]] /\ op[c] = Idle
  BY DEF Delete
<1>1. StoreTypeOK'
  BY DEF Delete
<1>2. OneClient'
  BY DEF Delete, OneClient, Busy, Idle
<1>3. ClientsInPhase'
  <2> SUFFICES ASSUME NEW d \in Clients, op'[d] # Idle, op'[d].l \notin reused'
               PROVE  Phase(op'[d], file'[op'[d].l], side'[op'[d].l], op'[d].l \in doomed')
    BY DEF ClientsInPhase
  <2>1. CASE d = c
    <3> DEFINE r == [at |-> "unlink", l |-> l, b |-> Nothing]
    <3>1. r.at = "unlink" /\ r.l = l
      OBVIOUS
    <3>2. op'[d] = r
      BY <2>1, <1>0
    <3> HIDE DEF r
    <3> QED BY <3>1, <3>2 DEF Delete, Phase
  <2>2. CASE d # c
    <3>1. op'[d] = op[d] /\ op[d].l # l
      BY <2>2, <1>0 DEF Delete, Busy
    <3>2. Phase(op[d], file[op[d].l], side[op[d].l], op[d].l \in doomed)
      BY <3>1 DEF Delete, ClientsInPhase
    <3>3. op[d].l \in doomed' <=> op[d].l \in doomed
      BY <3>1 DEF Delete
    <3> QED BY <3>1, <3>2, <3>3 DEF Delete, Phase
  <2> QED BY <2>1, <2>2
<1>4. FilesKept'
  BY DEF Delete, FilesKept, Kept
<1> QED BY <1>1, <1>2, <1>3, <1>4

(* A client whose locator is its own moves the bundle, the sidecar and the *)
(* row of that locator from one agreeing state to another.                 *)
LEMMA OwnStep ==
    ASSUME StoreInv, StoreTypeOK', NEW c \in Clients, NEW l \in Locators,
           op[c] # Idle, op[c].l = l,
           op'[c] = Idle \/ op'[c].l = l,
           \A d \in Clients \ {c} : op'[d] = op[d],
           \A m \in Locators \ {l} : file'[m] = file[m] /\ side'[m] = side[m] /\ rows'[m] = rows[m],
           doomed' = doomed, reused' = reused,
           l \notin reused =>
               /\ op'[c] # Idle => Phase(op'[c], file'[l], side'[l], l \in doomed)
               /\ Kept(file'[l], side'[l], rows'[l], l \in doomed)
    PROVE  StoreInv'
<1> USE DEF StoreInv
<1>2. OneClient'
  <2>1. \A d \in Clients : op'[d] # Idle => op[d] # Idle /\ op'[d].l = op[d].l
    OBVIOUS
  <2> SUFFICES ASSUME NEW d \in Clients, NEW e \in Clients, op'[d] # Idle, op'[e] # Idle,
                      op'[d].l = op'[e].l, op'[d].l \notin reused
               PROVE  d = e
    BY DEF OneClient
  <2>2. op[d] # Idle /\ op[e] # Idle /\ op[d].l = op[e].l /\ op[d].l \notin reused
    BY ONLY <2>1, op'[d] # Idle, op'[e] # Idle, op'[d].l = op'[e].l, op'[d].l \notin reused,
            d \in Clients, e \in Clients
  <2> QED BY <2>2 DEF OneClient
<1>3. ClientsInPhase'
  <2> SUFFICES ASSUME NEW d \in Clients, op'[d] # Idle, op'[d].l \notin reused
               PROVE  Phase(op'[d], file'[op'[d].l], side'[op'[d].l], op'[d].l \in doomed')
    BY DEF ClientsInPhase
  <2>1. CASE d = c
    BY <2>1
  <2>2. CASE d # c
    <3>1. op'[d] = op[d] /\ op[d].l # l
      BY <2>2 DEF OneClient
    <3>2. op[d].l \in Locators
      BY <3>1, OpsDiffer DEF StoreTypeOK
    <3> QED BY <3>1, <3>2 DEF ClientsInPhase
  <2> QED BY <2>1, <2>2
<1>4. FilesKept'
  BY DEF FilesKept
<1> QED BY <1>2, <1>3, <1>4

(* Step(c, at) of a client that puts. *)
LEMMA NextPhase ==
    ASSUME StoreInv, NEW c \in Clients, NEW at \in Putting, op[c].at \in Putting, Step(c, at)
    PROVE  /\ op[c] \in PutOp /\ op[c].l \in Locators /\ op[c].b \in Blobs
           /\ op' = [op EXCEPT ![c] = [at |-> at, l |-> op[c].l, b |-> op[c].b]]
<1>0. Idle.at = "idle"
  BY DEF Idle
<1>1. op[c] \in PutOp
  BY <1>0, OpsDiffer DEF StoreInv, StoreTypeOK
<1>2. [op[c] EXCEPT !.at = at] = [at |-> at, l |-> op[c].l, b |-> op[c].b]
  BY <1>1
<1>3. op' = [op EXCEPT ![c] = [op[c] EXCEPT !.at = at]]
  BY DEF Step
<1> QED BY <1>1, <1>2, <1>3

(* A client that puts goes on to its next phase, having written f and s. *)
LEMMA PuttingStep ==
    ASSUME StoreInv, NEW c \in Clients, NEW at \in Putting, op[c].at \in Putting, Step(c, at),
           NEW f \in Contents, file' = [file EXCEPT ![op[c].l] = f],
           NEW s \in Contents, side' = [side EXCEPT ![op[c].l] = s],
           rows' = rows, sink' = sink, doomed' = doomed, reused' = reused,
           at # "bundle",
           at = "copying" => op[c].at = "bundle" /\ f = Torn /\ s = side[op[c].l],
           at = "sidecar" => op[c].at \in {"bundle", "copying"} /\ f = op[c].b /\ s = side[op[c].l],
           at = "closing" => op[c].at = "sidecar" /\ f = file[op[c].l] /\ s = Torn,
           at = "record"  => op[c].at \in {"sidecar", "closing"} /\ f = file[op[c].l] /\ s = op[c].b
    PROVE  StoreInv'
<1> DEFINE l == op[c].l
           b == op[c].b
           r == [at |-> at, l |-> l, b |-> b]
<1>1. op[c] \in PutOp /\ l \in Locators /\ b \in Blobs /\ op' = [op EXCEPT ![c] = r]
  BY NextPhase
<1>2. r.at = at /\ r.l = l /\ r.b = b /\ r \in OpRecord
  BY <1>1
<1> HIDE DEF r
<1>3. file'[l] = f /\ side'[l] = s /\ rows'[l] = rows[l] /\ op'[c] = r /\ StoreTypeOK'
  BY <1>1, <1>2 DEF StoreInv, StoreTypeOK
<1>4. ASSUME l \notin reused
      PROVE  Phase(r, f, s, l \in doomed) /\ Kept(f, s, rows[l], l \in doomed)
  <2>1. Phase(op[c], file[l], side[l], l \in doomed) /\ op[c] # Idle
    BY <1>1, <1>4, OpsDiffer DEF StoreInv, ClientsInPhase
  <2>2. Kept(file[l], side[l], rows[l], l \in doomed)
    BY <1>1, <1>4 DEF StoreInv, FilesKept
  <2>3. rows[l] = Nothing \/ rows[l] \in Blobs
    BY <1>1 DEF StoreInv, StoreTypeOK
  <2> HIDE DEF l, b
  <2>4. l \notin doomed
    BY <2>1 DEF Phase, l
  <2>5. rows[l] = Nothing
    BY <2>1, <2>2, <2>3, <2>4, StoreAssumption DEF Phase, Kept
  <2>6. Phase(r, f, s, l \in doomed)
    BY <1>2, <2>1, <2>4 DEF Phase, l, b
  <2>7. Kept(f, s, rows[l], l \in doomed)
    BY <1>1, <2>1, <2>5, StoreAssumption DEF Phase, Kept, l, b
  <2> QED BY <2>6, <2>7
<1>5. l \notin reused =>
          /\ op'[c] # Idle => Phase(op'[c], file'[l], side'[l], l \in doomed)
          /\ Kept(file'[l], side'[l], rows'[l], l \in doomed)
  BY <1>3, <1>4
<1>6. /\ op[c] # Idle /\ op'[c].l = l
      /\ \A d \in Clients \ {c} : op'[d] = op[d]
      /\ \A m \in Locators \ {l} : file'[m] = file[m] /\ side'[m] = side[m] /\ rows'[m] = rows[m]
  BY <1>1, <1>2, OpsDiffer DEF StoreInv, StoreTypeOK
<1> QED BY <1>1, <1>3, <1>5, <1>6, OwnStep

(* An operation ends: what it leaves of the bundle f and the sidecar s of  *)
(* its locator, and the row w, agree.                                      *)
LEMMA EndStep ==
    ASSUME StoreInv, NEW c \in Clients, op[c] # Idle, op' = [op EXCEPT ![c] = Idle],
           NEW f \in Contents, file' = [file EXCEPT ![op[c].l] = f],
           NEW s \in Contents, side' = [side EXCEPT ![op[c].l] = s],
           NEW w \in Blobs \cup {Nothing}, rows' = [rows EXCEPT ![op[c].l] = w],
           sink' = sink, doomed' = doomed, reused' = reused,
           op[c].l \notin reused => Kept(f, s, w, op[c].l \in doomed)
    PROVE  StoreInv'
<1> DEFINE l == op[c].l
<1>1. l \in Locators
  BY OpsDiffer DEF StoreInv, StoreTypeOK
<1>2. file'[l] = f /\ side'[l] = s /\ rows'[l] = w /\ op'[c] = Idle /\ StoreTypeOK'
  BY <1>1 DEF StoreInv, StoreTypeOK
<1>3. /\ \A d \in Clients \ {c} : op'[d] = op[d]
      /\ \A m \in Locators \ {l} : file'[m] = file[m] /\ side'[m] = side[m] /\ rows'[m] = rows[m]
  BY <1>1 DEF StoreInv, StoreTypeOK
<1>4. l \notin reused => Kept(file'[l], side'[l], rows'[l], l \in doomed)
  BY <1>2
<1> QED BY <1>1, <1>2, <1>3, <1>4, OwnStep

(* Facts about a client and its locator that the actions below share. *)
LEMMA OwnFacts ==
    ASSUME StoreInv, NEW c \in Clients, op[c] # Idle
    PROVE  /\ op[c].l \in Locators /\ op[c].at \in Putting \cup Deleting
           /\ op[c].at \in Putting => op[c].b \in Blobs
           /\ file[op[c].l] \in Contents /\ side[op[c].l] \in Contents
           /\ rows[op[c].l] \in Blobs \cup {Nothing}
           /\ file = [file EXCEPT ![op[c].l] = file[op[c].l]]
           /\ side = [side EXCEPT ![op[c].l] = side[op[c].l]]
           /\ rows = [rows EXCEPT ![op[c].l] = rows[op[c].l]]
           /\ op[c].l \notin reused =>
                 /\ Phase(op[c], file[op[c].l], side[op[c].l], op[c].l \in doomed)
                 /\ Kept(file[op[c].l], side[op[c].l], rows[op[c].l], op[c].l \in doomed)
<1>1. op[c] \in PutOp \cup DeleteOp
  BY DEF StoreInv, StoreTypeOK
<1>2. op[c].l \in Locators /\ op[c].at \in Putting \cup Deleting
  BY <1>1, OpsDiffer
<1>3. op[c].at \in Putting => op[c].b \in Blobs
  BY <1>1, OpsDiffer
<1> HIDE DEF Putting, Deleting, PutOp, DeleteOp, OpRecord
<1>4. /\ file[op[c].l] \in Contents /\ side[op[c].l] \in Contents
      /\ rows[op[c].l] \in Blobs \cup {Nothing}
      /\ file = [file EXCEPT ![op[c].l] = file[op[c].l]]
      /\ side = [side EXCEPT ![op[c].l] = side[op[c].l]]
      /\ rows = [rows EXCEPT ![op[c].l] = rows[op[c].l]]
  BY <1>2 DEF StoreInv, StoreTypeOK
<1>5. op[c].l \notin reused =>
         /\ Phase(op[c], file[op[c].l], side[op[c].l], op[c].l \in doomed)
         /\ Kept(file[op[c].l], side[op[c].l], rows[op[c].l], op[c].l \in doomed)
  BY <1>2 DEF StoreInv, ClientsInPhase, FilesKept
<1> QED BY <1>2, <1>3, <1>4, <1>5

(* A client that is at some phase is not Idle. *)
LEMMA BusyIsNotIdle == \A c \in Clients : op[c].at # "idle" => op[c] # Idle
BY DEF Idle

(* The bundle of a directory appears whole. *)
LEMMA DiskBundleStep ==
    ASSUME StoreInv, NEW c \in Clients, DiskBundle(c)
    PROVE  StoreInv'
<1>1. op[c].at = "bundle" /\ op[c] # Idle
  BY BusyIsNotIdle DEF DiskBundle
<1>2. /\ Step(c, "sidecar") /\ rows' = rows /\ sink' = sink /\ doomed' = doomed /\ reused' = reused
      /\ file' = [file EXCEPT ![op[c].l] = op[c].b] /\ op[c].b \in Contents
      /\ side' = [side EXCEPT ![op[c].l] = side[op[c].l]] /\ side[op[c].l] \in Contents
  BY <1>1, OwnFacts DEF DiskBundle, hist, Hash
<1> QED BY <1>1, <1>2, PuttingStep

(* The sidecar of a directory is opened when its bundle is there. *)
LEMMA DiskSidecarStep ==
    ASSUME StoreInv, NEW c \in Clients, DiskSidecar(c)
    PROVE  StoreInv'
<1>1. op[c].at = "sidecar" /\ op[c] # Idle
  BY BusyIsNotIdle DEF DiskSidecar
<1>2. /\ Step(c, "closing") /\ rows' = rows /\ sink' = sink /\ doomed' = doomed /\ reused' = reused
      /\ file' = [file EXCEPT ![op[c].l] = file[op[c].l]] /\ file[op[c].l] \in Contents
      /\ side' = [side EXCEPT ![op[c].l] = Torn] /\ Torn \in Contents
  BY <1>1, OwnFacts DEF DiskSidecar, hist, Hash
<1> QED BY <1>1, <1>2, PuttingStep

(* The sidecar is closed with the hash of its bundle. *)
LEMMA CloseSidecarStep ==
    ASSUME StoreInv, NEW c \in Clients, CloseSidecar(c)
    PROVE  StoreInv'
<1>1. op[c].at = "closing" /\ op[c] # Idle
  BY BusyIsNotIdle DEF CloseSidecar
<1>2. /\ Step(c, "record") /\ rows' = rows /\ sink' = sink /\ doomed' = doomed /\ reused' = reused
      /\ file' = [file EXCEPT ![op[c].l] = file[op[c].l]] /\ file[op[c].l] \in Contents
      /\ side' = [side EXCEPT ![op[c].l] = op[c].b] /\ op[c].b \in Contents
  BY <1>1, OwnFacts DEF CloseSidecar, hist, Hash
<1> QED BY <1>1, <1>2, PuttingStep

(* scp writes the bundle, and opens the sidecar when the bundle is whole. *)
LEMMA NodeScpStep ==
    ASSUME StoreInv, NEW c \in Clients, NodeScp(c)
    PROVE  StoreInv'
<1>1. CASE op[c].at = "bundle"
  <2>1. op[c] # Idle
    BY <1>1, BusyIsNotIdle
  <2>2. /\ Step(c, "copying") /\ rows' = rows /\ sink' = sink /\ doomed' = doomed /\ reused' = reused
        /\ file' = [file EXCEPT ![op[c].l] = Torn] /\ Torn \in Contents
        /\ side' = [side EXCEPT ![op[c].l] = side[op[c].l]] /\ side[op[c].l] \in Contents
    BY <1>1, <2>1, OwnFacts DEF NodeScp, hist, Hash
  <2> QED BY <1>1, <2>2, PuttingStep
<1>2. CASE op[c].at = "copying"
  <2>1. op[c] # Idle
    BY <1>2, BusyIsNotIdle
  <2>2. /\ Step(c, "sidecar") /\ rows' = rows /\ sink' = sink /\ doomed' = doomed /\ reused' = reused
        /\ file' = [file EXCEPT ![op[c].l] = op[c].b] /\ op[c].b \in Contents
        /\ side' = [side EXCEPT ![op[c].l] = side[op[c].l]] /\ side[op[c].l] \in Contents
    BY <1>2, <2>1, OwnFacts DEF NodeScp, hist, Hash
  <2> QED BY <1>2, <2>2, PuttingStep
<1>3. CASE op[c].at = "sidecar"
  <2>1. op[c] # Idle
    BY <1>3, BusyIsNotIdle
  <2>2. /\ Step(c, "closing") /\ rows' = rows /\ sink' = sink /\ doomed' = doomed /\ reused' = reused
        /\ file' = [file EXCEPT ![op[c].l] = file[op[c].l]] /\ file[op[c].l] \in Contents
        /\ side' = [side EXCEPT ![op[c].l] = Torn] /\ Torn \in Contents
    BY <1>3, <2>1, OwnFacts DEF NodeScp, hist, Hash
  <2> QED BY <1>3, <2>2, PuttingStep
<1> QED BY <1>1, <1>2, <1>3 DEF NodeScp

(* An upload is whole, or it is torn and the process of the store is gone: *)
(* a torn bundle has no sidecar, and a torn sidecar is not readable.       *)
LEMMA StoreUploadStep ==
    ASSUME StoreInv, NEW c \in Clients, StoreUpload(c)
    PROVE  StoreInv'
<1> USE StoreAssumption DEF StoreUpload, StorePut, hist, Hash
<1>0. op[c] # Idle /\ op[c].at \in {"bundle", "sidecar"}
  BY BusyIsNotIdle
<1>1. op[c].l \in Locators /\ op[c].b \in Blobs
  BY <1>0, OwnFacts
<1>2. ASSUME op[c].at = "bundle", file' = [file EXCEPT ![op[c].l] = op[c].b] PROVE StoreInv'
  <2>1. file'[op[c].l] # Torn
    BY <1>1, <1>2 DEF StoreInv, StoreTypeOK
  <2>2. /\ Step(c, "sidecar") /\ rows' = rows /\ sink' = sink /\ doomed' = doomed /\ reused' = reused
        /\ op[c].b \in Contents /\ side[op[c].l] \in Contents
        /\ side' = [side EXCEPT ![op[c].l] = side[op[c].l]]
    BY <1>0, <1>1, <1>2, <2>1, OwnFacts
  <2> QED BY <1>2, <2>2, PuttingStep
<1>3. ASSUME op[c].at = "bundle", file' = [file EXCEPT ![op[c].l] = Torn] PROVE StoreInv'
  <2>1. file'[op[c].l] = Torn
    BY <1>1, <1>3 DEF StoreInv, StoreTypeOK
  <2>2. /\ op' = [op EXCEPT ![c] = Idle] /\ sink' = sink /\ doomed' = doomed /\ reused' = reused
        /\ side' = [side EXCEPT ![op[c].l] = side[op[c].l]] /\ side[op[c].l] \in Contents
        /\ rows' = [rows EXCEPT ![op[c].l] = rows[op[c].l]] /\ rows[op[c].l] \in Blobs \cup {Nothing}
    BY <1>0, <1>3, <2>1, OwnFacts
  <2>3. op[c].l \notin reused => Kept(Torn, side[op[c].l], rows[op[c].l], op[c].l \in doomed)
    BY <1>0, <1>3, <2>2, OwnFacts DEF Phase, Kept
  <2> QED BY <1>0, <1>3, <2>2, <2>3, EndStep
<1>4. ASSUME op[c].at = "sidecar", side' = [side EXCEPT ![op[c].l] = op[c].b] PROVE StoreInv'
  <2>1. side'[op[c].l] # Torn
    BY <1>1, <1>4 DEF StoreInv, StoreTypeOK
  <2>2. /\ Step(c, "record") /\ rows' = rows /\ sink' = sink /\ doomed' = doomed /\ reused' = reused
        /\ op[c].b \in Contents /\ file[op[c].l] \in Contents
        /\ file' = [file EXCEPT ![op[c].l] = file[op[c].l]]
    BY <1>0, <1>1, <1>4, <2>1, OwnFacts
  <2> QED BY <1>4, <2>2, PuttingStep
<1>5. ASSUME op[c].at = "sidecar", side' = [side EXCEPT ![op[c].l] = Torn] PROVE StoreInv'
  <2>1. side'[op[c].l] = Torn
    BY <1>1, <1>5 DEF StoreInv, StoreTypeOK
  <2>2. /\ op' = [op EXCEPT ![c] = Idle] /\ sink' = sink /\ doomed' = doomed /\ reused' = reused
        /\ file' = [file EXCEPT ![op[c].l] = file[op[c].l]] /\ file[op[c].l] \in Contents
        /\ rows' = [rows EXCEPT ![op[c].l] = rows[op[c].l]] /\ rows[op[c].l] \in Blobs \cup {Nothing}
    BY <1>0, <1>5, <2>1, OwnFacts
  <2>3. op[c].l \notin reused => Kept(file[op[c].l], Torn, rows[op[c].l], op[c].l \in doomed)
    BY <1>0, <1>5, <2>2, OwnFacts DEF Phase, Kept
  <2> QED BY <1>0, <1>5, <2>2, <2>3, EndStep
<1> QED BY <1>2, <1>3, <1>4, <1>5

(* The row is written for two whole files. *)
LEMMA ExportRecordStep ==
    ASSUME StoreInv, NEW c \in Clients, ExportRecord(c)
    PROVE  StoreInv'
<1>0. op[c] # Idle /\ op[c].at = "record"
  BY BusyIsNotIdle DEF ExportRecord
<1>1. /\ op' = [op EXCEPT ![c] = Idle] /\ sink' = sink /\ doomed' = doomed /\ reused' = reused
      /\ file' = [file EXCEPT ![op[c].l] = file[op[c].l]] /\ file[op[c].l] \in Contents
      /\ side' = [side EXCEPT ![op[c].l] = side[op[c].l]] /\ side[op[c].l] \in Contents
      /\ rows' = [rows EXCEPT ![op[c].l] = op[c].b] /\ op[c].b \in Blobs \cup {Nothing}
  BY <1>0, OwnFacts DEF ExportRecord, hist, Hash
<1>2. op[c].l \notin reused => Kept(file[op[c].l], side[op[c].l], op[c].b, op[c].l \in doomed)
  BY <1>0, OwnFacts DEF Phase, Kept
<1> QED BY <1>0, <1>1, <1>2, EndStep

(* A delete takes the bundle and goes on to the sidecar. *)
LEMMA BundleGoneStep ==
    ASSUME StoreInv, NEW c \in Clients, op[c].at = "unlink", Step(c, "unlink sidecar"),
           file' = [file EXCEPT ![op[c].l] = Nothing],
           side' = side, rows' = rows, sink' = sink, doomed' = doomed, reused' = reused
    PROVE  StoreInv'
<1> DEFINE l == op[c].l
           r == [at |-> "unlink sidecar", l |-> l, b |-> op[c].b]
<1>1. op[c] # Idle /\ l \in Locators
  BY BusyIsNotIdle, OwnFacts
<1>2. op[c] \in DeleteOp
  BY <1>1 DEF StoreInv, StoreTypeOK
<1>3. /\ [op[c] EXCEPT !.at = "unlink sidecar"] = r
      /\ r \in DeleteOp
  <2>0. op[c] \in [at : Deleting, l : Locators, b : Contents]
    BY <1>2
  <2>1. [op[c] EXCEPT !.at = "unlink sidecar"] = r
    BY <2>0, PhaseOnly
  <2>2. op[c].b \in {Nothing}
    BY <1>2
  <2> QED BY <1>1, <2>1, <2>2
<1>4. r.at = "unlink sidecar" /\ r.l = l
  OBVIOUS
<1> HIDE DEF r
<1>5. op' = [op EXCEPT ![c] = r]
  BY <1>3 DEF Step
<1>6. op'[c] = r /\ file'[l] = Nothing /\ StoreTypeOK'
  BY <1>1, <1>3, <1>5 DEF StoreInv, StoreTypeOK
<1>7. /\ \A d \in Clients \ {c} : op'[d] = op[d]
      /\ \A m \in Locators \ {l} : file'[m] = file[m] /\ side'[m] = side[m] /\ rows'[m] = rows[m]
  BY <1>1, <1>5 DEF StoreInv, StoreTypeOK
<1>8. l \notin reused =>
          /\ Phase(op'[c], file'[l], side'[l], l \in doomed)
          /\ Kept(file'[l], side'[l], rows'[l], l \in doomed)
  <2>1. l \notin reused => l \in doomed
    BY <1>1, OwnFacts DEF Phase
  <2> QED BY <2>1, <1>4, <1>6 DEF Phase, Kept
<1> QED BY <1>1, <1>4, <1>6, <1>7, <1>8, OwnStep

(* A delete ends: of a doomed locator the bundle is gone, whatever is left *)
(* of the sidecar.                                                         *)
LEMMA DeleteEndStep ==
    ASSUME StoreInv, NEW c \in Clients, op[c].at \in Deleting, op' = [op EXCEPT ![c] = Idle],
           file' = [file EXCEPT ![op[c].l] = Nothing],
           NEW s \in Contents, side' = [side EXCEPT ![op[c].l] = s],
           rows' = rows, sink' = sink, doomed' = doomed, reused' = reused
    PROVE  StoreInv'
<1>1. op[c] # Idle
  BY BusyIsNotIdle
<1>2. /\ rows' = [rows EXCEPT ![op[c].l] = rows[op[c].l]]
      /\ rows[op[c].l] \in Blobs \cup {Nothing} /\ Nothing \in Contents
  BY <1>1, OwnFacts
<1>3. op[c].l \notin reused => Kept(Nothing, s, rows[op[c].l], op[c].l \in doomed)
  BY <1>1, OwnFacts DEF Phase, Kept
<1> QED BY <1>1, <1>2, <1>3, EndStep

(* LocalDiskSink.delete goes on to the sidecar, or raises. *)
LEMMA DiskUnlinkStep ==
    ASSUME StoreInv, NEW c \in Clients, DiskUnlink(c)
    PROVE  StoreInv'
<1>1. /\ op[c].at = "unlink" /\ file' = [file EXCEPT ![op[c].l] = Nothing]
      /\ side' = side /\ rows' = rows /\ sink' = sink /\ doomed' = doomed /\ reused' = reused
  BY DEF DiskUnlink, hist
<1>2. CASE Step(c, "unlink sidecar")
  BY <1>1, <1>2, BundleGoneStep
<1>3. CASE op' = [op EXCEPT ![c] = Idle]
  <2>1. side' = [side EXCEPT ![op[c].l] = side[op[c].l]] /\ side[op[c].l] \in Contents
    BY <1>1, BusyIsNotIdle, OwnFacts
  <2> QED BY <1>1, <1>3, <2>1, DeleteEndStep
<1> QED BY <1>2, <1>3 DEF DiskUnlink

(* "rm -f" takes the bundle first. *)
LEMMA NodeRmStep ==
    ASSUME StoreInv, NEW c \in Clients, NodeRm(c)
    PROVE  StoreInv'
BY BundleGoneStep DEF NodeRm, hist

(* The store removes both files, or dies after the bundle. *)
LEMMA StoreDeleteStep ==
    ASSUME StoreInv, NEW c \in Clients, StoreDelete(c)
    PROVE  StoreInv'
<1>1. /\ op[c].at \in Deleting /\ op' = [op EXCEPT ![c] = Idle]
      /\ file' = [file EXCEPT ![op[c].l] = Nothing]
      /\ rows' = rows /\ sink' = sink /\ doomed' = doomed /\ reused' = reused
  BY DEF StoreDelete, hist
<1>2. CASE side' = [side EXCEPT ![op[c].l] = Nothing]
  BY <1>1, <1>2, DeleteEndStep
<1>3. CASE side' = side
  <2>1. side' = [side EXCEPT ![op[c].l] = side[op[c].l]] /\ side[op[c].l] \in Contents
    BY <1>1, <1>3, BusyIsNotIdle, OwnFacts
  <2> QED BY <1>1, <2>1, DeleteEndStep
<1> QED BY <1>2, <1>3 DEF StoreDelete

(* The sidecar goes last. *)
LEMMA UnlinkSidecarStep ==
    ASSUME StoreInv, NEW c \in Clients, UnlinkSidecar(c)
    PROVE  StoreInv'
<1>1. /\ op[c].at = "unlink sidecar" /\ op' = [op EXCEPT ![c] = Idle]
      /\ side' = [side EXCEPT ![op[c].l] = Nothing] /\ Nothing \in Contents
      /\ sink' = sink /\ doomed' = doomed /\ reused' = reused
  BY DEF UnlinkSidecar, hist
<1>2. /\ op[c] # Idle
      /\ rows' = [rows EXCEPT ![op[c].l] = rows[op[c].l]] /\ rows[op[c].l] \in Blobs \cup {Nothing}
      /\ file' = [file EXCEPT ![op[c].l] = file[op[c].l]] /\ file[op[c].l] \in Contents
  BY <1>1, BusyIsNotIdle, OwnFacts DEF UnlinkSidecar
<1>3. op[c].l \notin reused => Kept(file[op[c].l], Nothing, rows[op[c].l], op[c].l \in doomed)
  BY <1>1, <1>2, OwnFacts, StoreAssumption DEF Phase, Kept
<1> QED BY <1>1, <1>2, <1>3, EndStep

(* A client that raises leaves the files as they are, and they agree. *)
LEMMA FailStep ==
    ASSUME StoreInv, NEW c \in Clients, Fail(c)
    PROVE  StoreInv'
<1>1. op[c] # Idle /\ op' = [op EXCEPT ![c] = Idle]
  BY DEF Fail
<1>2. /\ rows' = [rows EXCEPT ![op[c].l] = rows[op[c].l]] /\ rows[op[c].l] \in Blobs \cup {Nothing}
      /\ file' = [file EXCEPT ![op[c].l] = file[op[c].l]] /\ file[op[c].l] \in Contents
      /\ side' = [side EXCEPT ![op[c].l] = side[op[c].l]] /\ side[op[c].l] \in Contents
      /\ sink' = sink /\ doomed' = doomed /\ reused' = reused
      /\ op[c].l \notin reused =>
            Kept(file[op[c].l], side[op[c].l], rows[op[c].l], op[c].l \in doomed)
  BY <1>1, OwnFacts DEF Fail, hist
<1> QED BY <1>1, <1>2, EndStep

(* So does a crash of all the clients at once. *)
LEMMA CrashStep == StoreInv /\ HostDown => StoreInv'
<1> SUFFICES ASSUME StoreInv, HostDown PROVE StoreInv'
  OBVIOUS
<1>1. StoreTypeOK'
  BY DEF HostDown, hist, StoreInv, StoreTypeOK
<1>2. OneClient' /\ ClientsInPhase'
  BY DEF HostDown, OneClient, ClientsInPhase
<1>3. FilesKept'
  BY DEF HostDown, hist, StoreInv, FilesKept
<1> QED BY <1>1, <1>2, <1>3 DEF StoreInv

(* StoreInv holds in every reachable state. *)
THEOREM StoreInvariant == StoreSpec => []StoreInv
<1>1. StoreInit => StoreInv
  BY StoreStarts
<1>2. StoreInv /\ [StoreNext]_storeVars => StoreInv'
  <2> SUFFICES ASSUME StoreInv, [StoreNext]_storeVars PROVE StoreInv'
    OBVIOUS
  <2>1. CASE UNCHANGED storeVars
    BY <2>1 DEF storeVars, hist, StoreInv, StoreTypeOK, OneClient, ClientsInPhase, FilesKept
  <2>2. CASE HostDown
    BY <2>2, CrashStep
  <2>3. ASSUME NEW c \in Clients, NEW l \in Locators, Delete(c, l) \/ \E b \in Blobs : Put(c, l, b)
        PROVE  StoreInv'
    BY <2>3, DeleteStep, PutStep
  <2>4. ASSUME NEW c \in Clients,
               \/ DiskBundle(c) \/ DiskSidecar(c) \/ NodeScp(c) \/ StoreUpload(c)
               \/ CloseSidecar(c) \/ ExportRecord(c)
        PROVE  StoreInv'
    BY <2>4, DiskBundleStep, DiskSidecarStep, NodeScpStep, StoreUploadStep, CloseSidecarStep,
       ExportRecordStep
  <2>5. ASSUME NEW c \in Clients,
               DiskUnlink(c) \/ NodeRm(c) \/ StoreDelete(c) \/ UnlinkSidecar(c) \/ Fail(c)
        PROVE  StoreInv'
    BY <2>5, DiskUnlinkStep, NodeRmStep, StoreDeleteStep, UnlinkSidecarStep, FailStep
  <2> QED BY <2>1, <2>2, <2>3, <2>4, <2>5 DEF StoreNext
<1> QED BY <1>1, <1>2, PTL DEF StoreSpec

(* What a listing shows, whichever of the three sinks it is. *)
LEMMA ListingFacts ==
    ASSUME StoreInv, NEW l \in Locators
    PROVE  /\ Listed(l) => side[l] \in Blobs /\ (sink # "node" => file[l] # Nothing)
           /\ side[l] \in Blobs /\ file[l] # Nothing => Listed(l)
           /\ \A h : file[l] # Nothing /\ file[l] = h => Verified(l, h)
<1> USE StoreAssumption DEF StoreInv, StoreTypeOK, Listed, Verified, DiskVerified, Got, DiskGet, NodeGet,
        StoreGet, Resolved, Hash, DiskListed, NodeListed, IndexListed, Readable
<1>1. sink = "disk" \/ sink = "node" \/ sink = "store"
  OBVIOUS
<1>2. CASE sink = "disk"
  BY <1>2
<1>3. CASE sink = "node"
  BY <1>3
<1>4. CASE sink = "store"
  BY <1>4
<1> QED BY <1>1, <1>2, <1>3, <1>4

(* Whoever failed or died where, a snapshot in a listing verifies against  *)
(* the hash that the listing gives (put writes the bundle before the       *)
(* sidecar, delete takes it first).                                        *)
THEOREM ListedWhole == StoreSpec => []ListedSnapshotsAreWhole
<1>1. StoreInv => ListedSnapshotsAreWhole
  <2> SUFFICES ASSUME StoreInv, NEW l \in Locators \ reused,
                      Listed(l), sink = "node" => l \notin doomed
               PROVE  Verified(l, side[l])
    BY DEF ListedSnapshotsAreWhole
  <2>1. side[l] \in Blobs /\ (sink # "node" => file[l] # Nothing)
    BY ListingFacts
  <2>2. file[l] = side[l] \/ (l \in doomed /\ file[l] = Nothing)
    BY <2>1 DEF StoreInv, FilesKept, Kept
  <2>3. file[l] = side[l] /\ file[l] # Nothing
    BY <2>1, <2>2, StoreAssumption
  <2> QED BY <2>3, ListingFacts
<1> QED BY <1>1, StoreInvariant, PTL

(* A snapshot that export recorded is listed and verifies against its row  *)
(* until somebody deletes it or uses its locator again.                    *)
THEOREM RecordedStay == StoreSpec => []RecordedSnapshotsStay
<1>1. StoreInv => RecordedSnapshotsStay
  <2> SUFFICES ASSUME StoreInv, NEW l \in Locators \ (doomed \cup reused), rows[l] # Nothing
               PROVE  Listed(l) /\ Verified(l, rows[l])
    BY DEF RecordedSnapshotsStay
  <2>1. file[l] = rows[l] /\ side[l] = rows[l] /\ rows[l] \in Blobs
    BY DEF StoreInv, StoreTypeOK, FilesKept, Kept
  <2> QED BY <2>1, ListingFacts
<1> QED BY <1>1, StoreInvariant, PTL

-----------------------------------------------------------------------------
(* The bundles.  Contributors, their places and what they read and write,  *)
(* by their names.                                                         *)
Names == {"tenants", "users", "settings", "secrets", "items", "audit_log", "files"}

LEMMA RegisteredFacts ==
    /\ DOMAIN Registered = Names
    /\ \A c \in Names : Registered[c] \in 1 .. 7
    /\ \A c, d \in Names : Registered[c] = Registered[d] => c = d
    /\ Registered["settings"] < Registered["secrets"]
<1>1. DOMAIN Registered = Names
  BY DEF Registered, Names
<1>2. /\ Registered["tenants"] = 1 /\ Registered["users"] = 2 /\ Registered["settings"] = 3
      /\ Registered["secrets"] = 4 /\ Registered["items"] = 5 /\ Registered["audit_log"] = 6
      /\ Registered["files"] = 7
  BY DEF Registered
<1> QED BY <1>1, <1>2 DEF Names

LEMMA ReadsFacts ==
    /\ Reads("users") = UsersExport /\ Reads("tenants") = TenantsExport /\ Reads("secrets") = <<"settings">>
    /\ \A c \in Names \ {"users", "tenants", "secrets"} : Reads(c) = <<c>>
<1>1. Reads("users") = UsersExport
  BY DEF Reads, Names
<1>2. Reads("tenants") = TenantsExport
  BY DEF Reads, Names
<1>3. Reads("secrets") = <<"settings">>
  BY DEF Reads, Names
<1>4. ASSUME NEW c \in Names \ {"users", "tenants", "secrets"} PROVE Reads(c) = <<c>>
  BY <1>4 DEF Reads, Names
<1> QED BY <1>1, <1>2, <1>3, <1>4

LEMMA ScopesFacts ==
    /\ ScopesOf("tenants") = {"platform"} /\ ScopesOf("users") = {"platform"}
    /\ ScopesOf("secrets") = {"platform", "tenant"}
<1>1. ScopesOf("tenants") = {"platform"}
  BY DEF ScopesOf
<1>2. ScopesOf("users") = {"platform"}
  BY DEF ScopesOf
<1>3. ScopesOf("secrets") = {"platform", "tenant"}
  BY DEF ScopesOf
<1> QED BY <1>1, <1>2, <1>3

LEMMA SelectedFacts ==
    ASSUME NEW scope
    PROVE  /\ Selected("settings", "settings", scope) = SettingsExport(scope)
           /\ Selected("secrets", "settings", scope) = SecretsExport(scope)
           /\ Selected("items", "items", scope) = ItemsExport(scope)
           /\ Selected("audit_log", "audit_log", scope) = AuditExport(scope)
           /\ Selected("files", "files", scope) = FilesExport(scope)
           /\ \A table : Selected("users", table, scope) = {r \in Rows : Table[r] = table}
           /\ \A table : Selected("tenants", table, scope) = {r \in Rows : Table[r] = table}
<1>1. Selected("settings", "settings", scope) = SettingsExport(scope)
  BY DEF Selected
<1>2. Selected("secrets", "settings", scope) = SecretsExport(scope)
  BY DEF Selected
<1>3. Selected("items", "items", scope) = ItemsExport(scope)
  BY DEF Selected
<1>4. Selected("audit_log", "audit_log", scope) = AuditExport(scope)
  BY DEF Selected
<1>5. Selected("files", "files", scope) = FilesExport(scope)
  BY DEF Selected
<1>6. \A table : Selected("users", table, scope) = {r \in Rows : Table[r] = table}
  BY DEF Selected
<1>7. \A table : Selected("tenants", table, scope) = {r \in Rows : Table[r] = table}
  BY DEF Selected
<1> QED BY <1>1, <1>2, <1>3, <1>4, <1>5, <1>6, <1>7

LEMMA SectionFacts ==
    ASSUME NEW data
    PROVE  /\ Section(data, "users") = UsersRestore(data["users"])
           /\ Section(data, "tenants") = TenantsRestore(data["tenants"])
           /\ Section(data, "secrets") = SecretsRestore(data["secrets"])
           /\ \A c \in Names \ {"users", "tenants", "secrets"} : Section(data, c) = data[c]
<1>1. Section(data, "users") = UsersRestore(data["users"])
  BY DEF Section
<1>2. Section(data, "tenants") = TenantsRestore(data["tenants"])
  BY DEF Section
<1>3. Section(data, "secrets") = SecretsRestore(data["secrets"])
  BY DEF Section
<1>4. ASSUME NEW c \in Names \ {"users", "tenants", "secrets"} PROVE Section(data, c) = data[c]
  BY <1>4 DEF Section, SettingsRestore, ItemsRestore, AuditRestore
<1> QED BY <1>1, <1>2, <1>3, <1>4
(* A section that a contributor writes: rows of its own tables. *)
LEMMA SectionRows ==
    ASSUME NEW x, WellFormed(x), NEW c \in Names, c \in DOMAIN x.data,
           NEW r, r \in DOMAIN Section(x.data, c)
    PROVE  /\ r \in Rows /\ r \in DOMAIN x.data[c] /\ Section(x.data, c)[r] = x.data[c][r]
           /\ Table[r] = "files" => c = "files"
           /\ r \in Secrets => c \in {"settings", "secrets"}
           /\ x.scope.kind = "tenant" => Owner[r] = x.scope.tenant
<1>1. CASE c \in {"users", "tenants", "secrets"}
  <2>0. ASSUME NEW taken, Section(x.data, c) = Only(x.data[c], taken)
        PROVE  r \in taken /\ r \in DOMAIN x.data[c] /\ Section(x.data, c)[r] = x.data[c][r]
    BY <2>0 DEF Only
  <2>1. r \in DOMAIN x.data[c] /\ Section(x.data, c)[r] = x.data[c][r]
    BY <1>1, <2>0, SectionFacts DEF UsersRestore, TenantsRestore, SecretsRestore
  <2>2. /\ c = "users" => Table[r] \in {"users", "user_tenant_roles"}
        /\ c = "tenants" => Table[r] \in {"tenants", "roles"}
    <3>1. CASE c = "users"
      <4>1. Section(x.data, c) = Only(x.data[c], {q \in Rows : Table[q] \in {"users", "user_tenant_roles"}})
        BY <3>1, SectionFacts DEF UsersRestore
      <4>2. r \in {q \in Rows : Table[q] \in {"users", "user_tenant_roles"}}
        BY <2>0, <4>1
      <4> QED BY <3>1, <4>2
    <3>2. CASE c = "tenants"
      <4>1. Section(x.data, c) = Only(x.data[c], {q \in Rows : Table[q] \in {"tenants", "roles"}})
        BY <3>2, SectionFacts DEF TenantsRestore
      <4>2. r \in {q \in Rows : Table[q] \in {"tenants", "roles"}}
        BY <2>0, <4>1
      <4> QED BY <3>2, <4>2
    <3> QED BY <3>1, <3>2
  <2>3. c = "secrets" => r \in Secrets
    BY <2>0, SectionFacts DEF SecretsRestore
  <2>4. r \in Secrets => Table[r] = "settings"
    BY BundlesAssumption
  <2> QED BY <1>1, <2>1, <2>2, <2>3, <2>4 DEF WellFormed
<1>2. CASE c \in Names \ {"users", "tenants", "secrets"}
  <2>1. Section(x.data, c) = x.data[c]
    BY <1>2, SectionFacts
  <2>2. r \in Rows /\ Table[r] = c /\ (x.scope.kind = "tenant" => Owner[r] = x.scope.tenant)
    BY <1>2, <2>1 DEF WellFormed
  <2>3. r \in Secrets => Table[r] = "settings"
    BY BundlesAssumption
  <2> QED BY <1>2, <2>1, <2>2, <2>3
<1> QED BY <1>1, <1>2

JobFields == {"at", "front", "scope", "key", "todo", "data", "base", "dirty", "restored", "warned"}

(* The contributors that a restore calls: those before a place have been   *)
(* called, the others are left.                                            *)
Called(x) == Contributors(x.front, x.scope) \cap DOMAIN x.data
RestoreOK(x) ==
    /\ x.scope \in Scopes
    /\ x.todo \cup x.restored \cup x.warned = Called(x)
    /\ \A c \in x.restored \cup x.warned, d \in x.todo : Registered[c] < Registered[d]
    /\ x.at = "done" => x.todo = {}

JobOK(x) ==
    /\ DOMAIN x = JobFields /\ WellFormed(x)
    /\ x.at = "idle" => x.base = <<>>
    /\ x.at \in {"export", "pack"} => x.scope \in Scopes /\ x.base = <<>>
    /\ x.at = "export" => /\ x.todo \subseteq Steps(x.front, x.scope)
                          /\ DOMAIN x.data = Contributors(x.front, x.scope)
    /\ x.at = "restore" \/ x.base # <<>> => RestoreOK(x)

(* Every row that nobody else wrote has what the restore made of it. *)
Placed(x, now) == x.base # <<>> => \A r \in Rows \ x.dirty : now[r] \in Expected(x, r)

BundleOK(b) == {"scope", "data", "key"} \subseteq DOMAIN b /\ b.scope \in Scopes /\ WellFormed(b)

BundlesInv ==
    /\ db = [r \in Rows |-> db[r]] /\ job = [j \in Jobs |-> job[j]]
    /\ \A b \in bundles : BundleOK(b)
    /\ \A j \in Jobs : JobOK(job[j]) /\ Placed(job[j], db)

LEMMA CalledNames == ASSUME NEW x, RestoreOK(x) PROVE x.todo \cup x.restored \cup x.warned \subseteq Names \cap DOMAIN x.data
BY RegisteredFacts DEF RestoreOK, Called, Contributors

(* A restore that fails may leave more than one that does not. *)
LEMMA ExpectedGrows ==
    ASSUME NEW x, NEW y, x.data = y.data, x.base = y.base, x.restored = y.restored,
           x.warned \subseteq y.warned, x.at = "dead" => y.at = "dead", NEW r
    PROVE  Expected(x, r) \subseteq Expected(y, r)
<1>1. Carriers(x, r) = Carriers(y, r) /\ (HalfWay(x, r) => HalfWay(y, r))
  BY DEF Carriers, HalfWay
<1> QED BY <1>1 DEF Expected

LEMMA WellFormedSame ==
    ASSUME NEW x, NEW y, x.scope = y.scope, x.data = y.data, WellFormed(x)
    PROVE  WellFormed(y)
BY DEF WellFormed

(* Rows that others write are soiled, and nothing else changes. *)
Soil(x, changed) == IF x.base # <<>> THEN [x EXCEPT !.dirty = @ \cup changed] ELSE x
LEMMA SoiledOK ==
    ASSUME NEW x, JobOK(x), NEW now, Placed(x, now), NEW new, NEW changed,
           \A r \in Rows \ changed : new[r] = now[r]
    PROVE  JobOK(Soil(x, changed)) /\ Placed(Soil(x, changed), new)
<1> DEFINE y == Soil(x, changed)
<1>1. CASE x.base = <<>>
  BY <1>1 DEF Placed, Soil
<1>2. CASE x.base # <<>>
  <2>1. /\ DOMAIN y = JobFields /\ y.at = x.at /\ y.front = x.front /\ y.scope = x.scope /\ y.todo = x.todo
        /\ y.data = x.data /\ y.base = x.base /\ y.restored = x.restored /\ y.warned = x.warned
        /\ y.dirty = x.dirty \cup changed
    BY <1>2 DEF JobOK, JobFields, Soil
  <2> HIDE DEF y
  <2>2. WellFormed(y)
    BY <2>1, WellFormedSame DEF JobOK
  <2>3. JobOK(y)
    BY <2>1, <2>2 DEF JobOK, RestoreOK, Called
  <2>4. ASSUME NEW r \in Rows \ y.dirty PROVE new[r] \in Expected(y, r)
    <3>1. r \in Rows \ x.dirty /\ new[r] = now[r]
      BY <2>1, <2>4
    <3>2. Expected(x, r) \subseteq Expected(y, r)
      BY <2>1, ExpectedGrows
    <3> QED BY <1>2, <3>1, <3>2 DEF Placed
  <2> QED BY <2>3, <2>4 DEF Placed, y
<1> QED BY <1>1, <1>2

(* A step of one job, or of another request, that writes rows. *)
LEMMA RowStep ==
    ASSUME BundlesInv, NEW j, NEW jobs, NEW new, NEW changed, jobs = [i \in Jobs |-> jobs[i]],
           \A i \in Jobs \ {j} : jobs[i] = job[i],
           j \in Jobs => JobOK(jobs[j]) /\ Placed(jobs[j], new),
           db' = new, new = [r \in Rows |-> new[r]], \A r \in Rows \ changed : new[r] = db[r],
           job' = Soiled(jobs, j, changed), UNCHANGED bundles
    PROVE  BundlesInv'
<1>1. /\ job' = [i \in Jobs |-> job'[i]]
      /\ \A i \in Jobs : job'[i] = IF i # j /\ jobs[i].base # <<>>
                                   THEN [jobs[i] EXCEPT !.dirty = @ \cup changed] ELSE jobs[i]
  BY DEF Soiled
<1>2. ASSUME NEW i \in Jobs \ {j} PROVE JobOK(job'[i]) /\ Placed(job'[i], new)
  <2>1. JobOK(job[i]) /\ Placed(job[i], db) /\ jobs[i] = job[i]
    BY DEF BundlesInv
  <2>2. job'[i] = Soil(job[i], changed)
    BY <1>1, <2>1 DEF Soil
  <2>3. \A r \in Rows \ changed : new[r] = db[r]
    OBVIOUS
  <2>4. JobOK(Soil(job[i], changed)) /\ Placed(Soil(job[i], changed), new)
    BY <2>1, <2>3, SoiledOK
  <2> QED BY <2>2, <2>4
<1>3. \A i \in Jobs : JobOK(job'[i]) /\ Placed(job'[i], db')
  BY <1>1, <1>2
<1>4. \A b \in bundles' : BundleOK(b)
  BY DEF BundlesInv
<1>5. (\A i \in Jobs : JobOK(job[i]) /\ Placed(job[i], db))'
  BY <1>3
<1>6. (\A b \in bundles : BundleOK(b))'
  BY <1>4
<1>7. db' = [r \in Rows |-> db'[r]]
  OBVIOUS
<1> QED BY <1>1, <1>5, <1>6, <1>7 DEF BundlesInv

(* A step of one job that writes none. *)
LEMMA JobStep ==
    ASSUME BundlesInv, NEW j \in Jobs, NEW x, job' = [job EXCEPT ![j] = x], JobOK(x), Placed(x, db),
           UNCHANGED db, \A b \in bundles' : BundleOK(b)
    PROVE  BundlesInv'
<1>1. /\ job' = [i \in Jobs |-> job'[i]] /\ job'[j] = x
      /\ \A i \in Jobs \ {j} : job'[i] = job[i]
  BY DEF BundlesInv
<1>2. \A i \in Jobs : JobOK(job'[i]) /\ Placed(job'[i], db')
  BY <1>1 DEF BundlesInv
<1>3. (\A i \in Jobs : JobOK(job[i]) /\ Placed(job[i], db))'
  BY <1>2
<1>4. (\A b \in bundles : BundleOK(b))'
  OBVIOUS
<1> QED BY <1>1, <1>3, <1>4 DEF BundlesInv
-----------------------------------------------------------------------------
LEMMA BundlesStart == Init => BundlesInv
<1> SUFFICES ASSUME Init PROVE BundlesInv
  OBVIOUS
<1>1. /\ NoJob.at = "idle" /\ NoJob.base = <<>> /\ NoJob.data = <<>> /\ DOMAIN NoJob = JobFields
  BY DEF NoJob, JobFields
<1>2. WellFormed(NoJob)
  BY <1>1 DEF WellFormed
<1>3. JobOK(NoJob) /\ Placed(NoJob, db)
  BY <1>1, <1>2 DEF JobOK, Placed
<1>4. job = [j \in Jobs |-> NoJob] /\ db = Initially /\ bundles = Foreign
  BY DEF Init
<1>5. db = [r \in Rows |-> db[r]]
  BY <1>4, BundlesAssumption
<1>6. \A b \in bundles : BundleOK(b)
  BY <1>4, ForeignAssumption DEF BundleOK
<1> QED BY <1>3, <1>4, <1>5, <1>6 DEF BundlesInv

(* Other requests. *)
LEMMA WriteStep == ASSUME BundlesInv, NEW new, Write(new) PROVE BundlesInv'
<1>1. /\ db' = Upserted(new, DOMAIN new) /\ job' = Soiled(job, None, DOMAIN new) /\ UNCHANGED bundles
  BY DEF Write
<1>2. /\ Upserted(new, DOMAIN new) = [r \in Rows |-> Upserted(new, DOMAIN new)[r]]
      /\ \A r \in Rows \ DOMAIN new : Upserted(new, DOMAIN new)[r] = db[r]
  BY DEF Upserted
<1>3. None \notin Jobs /\ job = [i \in Jobs |-> job[i]]
  BY BundlesAssumption DEF BundlesInv
<1> QED BY <1>1, <1>2, <1>3, RowStep

LEMMA RequestStep == ASSUME BundlesInv, NEW r \in Rows, Request(r) PROVE BundlesInv'
<1> SUFFICES \E new : Write(new)
  BY WriteStep
<1>1. ASSUME NEW v, Becomes(r, v) PROVE \E new : Write(new)
  BY <1>1 DEF Becomes
<1>2. ASSUME Edit(r) PROVE \E new : Write(new)
  BY <1>1, <1>2 DEF Edit
<1>3. ASSUME NEW q \in Rows, RenameFile(r, q) PROVE \E new : Write(new)
  BY <1>3 DEF RenameFile
<1>4. CASE CreateItem(r) \/ DeleteItem(r) \/ UploadFiles(r) \/ DeleteFile(r) \/ AuditEntry(r)
  BY <1>1, <1>4 DEF CreateItem, DeleteItem, UploadFiles, DeleteFile, AuditEntry
<1>5. CASE UpdateItem(r) \/ UpdateTenant(r)
  BY <1>2, <1>5 DEF UpdateItem, UpdateTenant
<1>6. CASE WriteUser(r)
  BY <1>1, <1>2, <1>6 DEF WriteUser
<1>7. CASE WriteSetting(r)
  BY <1>1, <1>7 DEF WriteSetting
<1> QED BY <1>3, <1>4, <1>5, <1>6, <1>7 DEF Request

(* The audit entry at the end of an export or a restore. *)
LEMMA AuditStep ==
    ASSUME BundlesInv, NEW j \in Jobs, NEW tenant, NEW at, Audit(j, tenant, at), UNCHANGED bundles,
           \/ job[j].at = "export" /\ at = "pack"
           \/ job[j].at = "restore" /\ job[j].todo = {} /\ at = "done"
    PROVE  BundlesInv'
<1> DEFINE x == job[j]
<1>1. JobOK(x) /\ Placed(x, db) /\ WellFormed(x) /\ DOMAIN x = JobFields
  BY DEF BundlesInv, JobOK
<1>2. ASSUME NEW y, DOMAIN y = JobFields, y.at = at, y.front = x.front, y.scope = x.scope, y.todo = x.todo,
             y.data = x.data, y.base = x.base, x.dirty \subseteq y.dirty, y.restored = x.restored,
             y.warned = x.warned, NEW new, \A r \in Rows \ y.dirty : new[r] = db[r]
      PROVE  JobOK(y) /\ Placed(y, new)
  <2>1. WellFormed(y)
    BY <1>1, <1>2, WellFormedSame
  <2>2. JobOK(y)
    BY <1>1, <1>2, <2>1 DEF JobOK, RestoreOK, Called
  <2>3. \A r : Expected(x, r) \subseteq Expected(y, r)
    BY <1>2, ExpectedGrows
  <2>4. Placed(y, new)
    BY <1>1, <1>2, <2>3 DEF Placed
  <2> QED BY <2>2, <2>4
<1>3. CASE Goes(j, at) /\ UNCHANGED db
  <2> DEFINE y == [x EXCEPT !.at = at]
  <2>1. job' = [job EXCEPT ![j] = y]
    BY <1>3 DEF Goes
  <2>2. /\ DOMAIN y = JobFields /\ y.at = at /\ y.front = x.front /\ y.scope = x.scope /\ y.todo = x.todo
        /\ y.data = x.data /\ y.base = x.base /\ x.dirty = y.dirty /\ y.restored = x.restored
        /\ y.warned = x.warned
    BY <1>1 DEF JobFields
  <2> HIDE DEF y
  <2>3. JobOK(y) /\ Placed(y, db)
    BY <1>2, <2>2
  <2>4. \A b \in bundles' : BundleOK(b)
    BY DEF BundlesInv
  <2> QED BY <1>3, <2>1, <2>3, <2>4, JobStep
<1>4. ASSUME NEW r \in Rows, db' = [db EXCEPT ![r] = 1],
             job' = Soiled([job EXCEPT ![j].at = at, ![j].dirty = @ \cup {r}], j, {r})
      PROVE  BundlesInv'
  <2> DEFINE y == [x EXCEPT !.at = at, !.dirty = @ \cup {r}]
             jobs == [job EXCEPT ![j].at = at, ![j].dirty = @ \cup {r}]
             new == [db EXCEPT ![r] = 1]
  <2>1. job = [i \in Jobs |-> job[i]] /\ db = [q \in Rows |-> db[q]]
    BY DEF BundlesInv
  <2>2. /\ jobs = [i \in Jobs |-> jobs[i]] /\ jobs[j] = y /\ \A i \in Jobs \ {j} : jobs[i] = job[i]
    BY <2>1
  <2>3. /\ DOMAIN y = JobFields /\ y.at = at /\ y.front = x.front /\ y.scope = x.scope /\ y.todo = x.todo
        /\ y.data = x.data /\ y.base = x.base /\ y.dirty = x.dirty \cup {r} /\ y.restored = x.restored
        /\ y.warned = x.warned
    BY <1>1 DEF JobFields
  <2>4. new = [q \in Rows |-> new[q]] /\ \A q \in Rows \ {r} : new[q] = db[q]
    BY <2>1
  <2>5. db' = new /\ job' = Soiled(jobs, j, {r})
    BY <1>4
  <2> HIDE DEF y, jobs, new
  <2>6. JobOK(y) /\ Placed(y, new)
    BY <1>2, <2>3, <2>4
  <2> QED BY <2>2, <2>4, <2>5, <2>6, RowStep
<1> QED BY <1>3, <1>4 DEF Audit
-----------------------------------------------------------------------------
(* Export. *)
LEMMA BeginExportStep ==
    ASSUME BundlesInv, NEW j \in Jobs, NEW front, NEW scope \in Scopes, NEW key, BeginExport(j, front, scope, key)
    PROVE  BundlesInv'
<1> DEFINE data == [c \in Contributors(front, scope) |-> <<>>]
           x == [NoJob EXCEPT !.at = "export", !.front = front, !.scope = scope, !.key = key,
                              !.todo = Steps(front, scope), !.data = data]
<1>1. job' = [job EXCEPT ![j] = x] /\ UNCHANGED <<db, bundles>>
  BY DEF BeginExport
<1>2. /\ DOMAIN x = JobFields /\ x.at = "export" /\ x.front = front /\ x.scope = scope
      /\ x.todo = Steps(front, scope) /\ x.data = data /\ x.base = <<>>
  BY DEF NoJob, JobFields
<1>3. \A c \in DOMAIN data : DOMAIN data[c] = {}
  OBVIOUS
<1>4. DOMAIN data = Contributors(front, scope)
  OBVIOUS
<1> HIDE DEF x, data
<1>5. WellFormed(x)
  BY <1>2, <1>3 DEF WellFormed
<1>6. JobOK(x) /\ Placed(x, db)
  BY <1>2, <1>4, <1>5 DEF JobOK, Placed
<1>7. \A b \in bundles' : BundleOK(b)
  BY <1>1 DEF BundlesInv
<1> QED BY <1>1, <1>6, <1>7, JobStep

(* A statement of an export finds rows of its table, and of its tenant     *)
(* when there is one.                                                      *)
LEMMA SelectedRows ==
    ASSUME NEW front, NEW scope \in Scopes, NEW s \in Steps(front, scope),
           NEW r \in Selected(s.c, Reads(s.c)[s.k], scope), Table[r] = Reads(s.c)[s.k]
    PROVE  /\ r \in Rows
           /\ Table[r] = (IF s.c = "secrets" THEN "settings" ELSE s.c)
              \/ (s.c \in {"tenants", "users"} /\ Table[r] # "files")
           /\ scope.kind = "tenant" => Owner[r] = scope.tenant
<1>1. /\ s.c \in Names /\ s.c \in Contributors(front, scope) /\ s.k \in {1, 2} /\ s.k \in DOMAIN Reads(s.c)
  BY RegisteredFacts DEF Steps, Contributors
<1>2. /\ UsersExport[1] = "users" /\ UsersExport[2] = "user_tenant_roles"
      /\ TenantsExport[1] = "tenants" /\ TenantsExport[2] = "roles"
  BY DEF UsersExport, TenantsExport
<1>3. CASE s.c \in {"tenants", "users"}
  <2>1. Table[r] # "files"
    BY <1>1, <1>2, <1>3, ReadsFacts
  <2>2. scope.kind # "tenant"
    BY <1>1, <1>3, ScopesFacts DEF Contributors
  <2>3. r \in Rows
    BY <1>3, SelectedFacts
  <2> QED BY <1>3, <2>1, <2>2, <2>3
<1>4. CASE s.c \notin {"tenants", "users"}
  <2>1. s.k = 1 /\ Reads(s.c)[s.k] = IF s.c = "secrets" THEN "settings" ELSE s.c
    BY <1>1, <1>4, ReadsFacts
  <2>2. Table[r] = IF s.c = "secrets" THEN "settings" ELSE s.c
    BY <2>1
  <2>3. r \in Selected(s.c, IF s.c = "secrets" THEN "settings" ELSE s.c, scope)
    BY <2>1
  <2>4. CASE s.c = "settings"
    BY <2>2, <2>3, <2>4, SelectedFacts DEF SettingsExport
  <2>5. CASE s.c = "secrets"
    BY <2>2, <2>3, <2>5, SelectedFacts DEF SecretsExport, SettingsExport
  <2>6. CASE s.c = "items"
    BY <2>2, <2>3, <2>6, SelectedFacts DEF ItemsExport
  <2>7. CASE s.c = "audit_log"
    BY <2>2, <2>3, <2>7, SelectedFacts DEF AuditExport
  <2>8. CASE s.c = "files"
    BY <2>2, <2>3, <2>8, SelectedFacts DEF FilesExport
  <2> QED BY <1>1, <1>4, <2>4, <2>5, <2>6, <2>7, <2>8 DEF Names
<1> QED BY <1>3, <1>4

LEMMA RunExportStep == ASSUME BundlesInv, NEW j \in Jobs, RunExport(j) PROVE BundlesInv'
<1> DEFINE x == job[j]
<1>1. /\ JobOK(x) /\ x.at = "export" /\ x.scope \in Scopes /\ x.base = <<>> /\ WellFormed(x)
      /\ x.todo \subseteq Steps(x.front, x.scope) /\ DOMAIN x.data = Contributors(x.front, x.scope)
      /\ DOMAIN x = JobFields
  BY DEF BundlesInv, RunExport, JobOK
<1>2. PICK s \in x.todo :
         LET table == Reads(s.c)[s.k]
             all   == Present({r \in Selected(s.c, table, x.scope) : Table[r] = table})
         IN  \E left : job' = [job EXCEPT ![j].todo = @ \ {s},
                                          ![j].data[s.c] = Joined(@, Dumped(all \ left))]
  BY DEF RunExport
<1> DEFINE table == Reads(s.c)[s.k]
           all   == Present({r \in Selected(s.c, table, x.scope) : Table[r] = table})
<1> PICK left : job' = [job EXCEPT ![j].todo = @ \ {s}, ![j].data[s.c] = Joined(@, Dumped(all \ left))]
  BY <1>2
<1> DEFINE found == Joined(x.data[s.c], Dumped(all \ left))
           y == [x EXCEPT !.todo = @ \ {s}, !.data[s.c] = found]
<1>3. job' = [job EXCEPT ![j] = y]
  OBVIOUS
<1>4. /\ DOMAIN y = JobFields /\ y.at = x.at /\ y.front = x.front /\ y.scope = x.scope
      /\ y.todo = x.todo \ {s} /\ y.data = [x.data EXCEPT ![s.c] = found] /\ y.base = x.base
  BY <1>1 DEF JobFields
<1>5. DOMAIN found = DOMAIN x.data[s.c] \cup (all \ left)
  BY DEF Joined, Dumped
<1>6. \A r \in all : r \in Selected(s.c, table, x.scope) /\ Table[r] = table
  BY DEF Present
<1> HIDE DEF y, found, all
<1>7. ASSUME NEW c \in DOMAIN y.data, NEW r \in DOMAIN y.data[c]
      PROVE  /\ r \in Rows
             /\ Table[r] = (IF c = "secrets" THEN "settings" ELSE c)
                \/ (c \in {"tenants", "users"} /\ Table[r] # "files")
             /\ x.scope.kind = "tenant" => Owner[r] = x.scope.tenant
  <2>1. c \in DOMAIN x.data
    BY <1>4
  <2>2. CASE r \in DOMAIN x.data[c]
    BY <1>1, <2>1, <2>2 DEF WellFormed
  <2>3. CASE r \notin DOMAIN x.data[c]
    <3>1. c = s.c /\ r \in all
      BY <1>4, <1>5, <2>1, <2>3
    <3>2. s \in Steps(x.front, x.scope)
      BY <1>1
    <3> QED BY <1>1, <1>6, <3>1, <3>2, SelectedRows
  <2> QED BY <2>2, <2>3
<1>8. WellFormed(y)
  BY <1>4, <1>7 DEF WellFormed
<1>9. JobOK(y) /\ Placed(y, db)
  BY <1>1, <1>4, <1>8 DEF JobOK, Placed
<1>10. UNCHANGED db /\ \A b \in bundles' : BundleOK(b)
  BY DEF RunExport, BundlesInv
<1> QED BY <1>3, <1>9, <1>10, JobStep

LEMMA ExportAuditStep == ASSUME BundlesInv, NEW j \in Jobs, ExportAudit(j) PROVE BundlesInv'
<1>1. job[j].at = "export" /\ Audit(j, job[j].scope.tenant, "pack") /\ UNCHANGED bundles
  BY DEF ExportAudit
<1> QED BY <1>1, AuditStep

(* An export that ends, one way or the other. *)
LEMMA GoesStep ==
    ASSUME BundlesInv, NEW j \in Jobs, job[j].at \in {"export", "pack"}, NEW at \in {"done", "refused"},
           Goes(j, at), UNCHANGED db, \A b \in bundles' : BundleOK(b)
    PROVE  BundlesInv'
<1> DEFINE x == job[j]
           y == [x EXCEPT !.at = at]
<1>1. JobOK(x) /\ x.base = <<>> /\ WellFormed(x) /\ DOMAIN x = JobFields
  BY DEF BundlesInv, JobOK
<1>2. job' = [job EXCEPT ![j] = y]
  BY DEF Goes
<1>3. DOMAIN y = JobFields /\ y.at = at /\ y.scope = x.scope /\ y.data = x.data /\ y.base = x.base
  BY <1>1 DEF JobFields
<1> HIDE DEF y
<1>4. WellFormed(y)
  BY <1>1, <1>3, WellFormedSame
<1>5. JobOK(y) /\ Placed(y, db)
  BY <1>1, <1>3, <1>4 DEF JobOK, Placed
<1> QED BY <1>2, <1>5, JobStep

LEMMA DeliverStep == ASSUME BundlesInv, NEW j \in Jobs, Deliver(j) PROVE BundlesInv'
<1> DEFINE b == Encrypt(BuildTarball(j), job[j].key)
<1>1. /\ job[j].at = "pack" /\ bundles' = bundles \cup {b} /\ Goes(j, "done") /\ UNCHANGED db
  BY DEF Deliver
<1>2. job[j].scope \in Scopes /\ WellFormed(job[j])
  BY <1>1 DEF BundlesInv, JobOK
<1>3. b.scope = job[j].scope /\ b.data = job[j].data /\ {"scope", "data", "key"} \subseteq DOMAIN b
  BY DEF Encrypt, BuildTarball
<1> HIDE DEF b
<1>4. BundleOK(b)
  BY <1>2, <1>3, WellFormedSame DEF BundleOK
<1>5. \A c \in bundles' : BundleOK(c)
  BY <1>1, <1>4 DEF BundlesInv
<1> QED BY <1>1, <1>5, GoesStep

LEMMA ExportFailsStep == ASSUME BundlesInv, NEW j \in Jobs, ExportFails(j) PROVE BundlesInv'
<1>1. job[j].at \in {"export", "pack"} /\ Goes(j, "refused") /\ UNCHANGED <<db, bundles>>
  BY DEF ExportFails
<1>2. \A b \in bundles' : BundleOK(b)
  BY <1>1 DEF BundlesInv
<1> QED BY <1>1, <1>2, GoesStep

LEMMA RotateKeyStep == ASSUME BundlesInv, NEW b \in bundles, RotateKey(b) PROVE BundlesInv'
<1>1. PICK new : bundles' = bundles \cup {[b EXCEPT !.key = new]}
  BY DEF RotateKey
<1> DEFINE c == [b EXCEPT !.key = new]
<1>2. BundleOK(b)
  BY DEF BundlesInv
<1>3. c.scope = b.scope /\ c.data = b.data /\ {"scope", "data", "key"} \subseteq DOMAIN c
  BY <1>2 DEF BundleOK
<1>4. bundles' = bundles \cup {c}
  BY <1>1
<1> HIDE DEF c
<1>5. BundleOK(c)
  BY <1>2, <1>3, WellFormedSame DEF BundleOK
<1>6. (\A d \in bundles : BundleOK(d))'
  BY <1>4, <1>5 DEF BundlesInv
<1>7. UNCHANGED <<db, job>>
  BY DEF RotateKey
<1> QED BY <1>6, <1>7 DEF BundlesInv
-----------------------------------------------------------------------------
(* Restore. *)
LEMMA BeginRestoreStep ==
    ASSUME BundlesInv, NEW j \in Jobs, NEW front, NEW b, BundleOK(b), NEW passphrase,
           BeginRestore(j, front, b, passphrase)
    PROVE  BundlesInv'
<1> DEFINE at == IF Decrypts(b, passphrase) /\ SupportedVersion(b) THEN "restore" ELSE "refused"
           x == [NoJob EXCEPT !.at = at, !.front = front, !.scope = b.scope, !.data = b.data, !.base = db,
                              !.key = ResolveTenant(b),
                              !.todo = Contributors(front, b.scope) \cap Sections(b)]
<1>1. job' = [job EXCEPT ![j] = x] /\ UNCHANGED <<db, bundles>>
  BY DEF BeginRestore
<1>2. /\ DOMAIN x = JobFields /\ x.at \in {"restore", "refused"} /\ x.front = front /\ x.scope = b.scope
      /\ x.todo = Contributors(front, b.scope) \cap DOMAIN b.data /\ x.data = b.data /\ x.base = db
      /\ x.restored = {} /\ x.warned = {} /\ x.dirty = {}
  BY DEF NoJob, JobFields, Sections
<1> HIDE DEF x
<1>3. BundleOK(b)
  OBVIOUS
<1>4. WellFormed(x)
  BY <1>2, <1>3, WellFormedSame DEF BundleOK
<1>5. RestoreOK(x)
  BY <1>2, <1>3 DEF RestoreOK, Called, BundleOK
<1>6. JobOK(x)
  BY <1>2, <1>4, <1>5 DEF JobOK
<1>7. Placed(x, db)
  BY <1>2 DEF Placed, Expected, Carriers
<1>8. \A c \in bundles' : BundleOK(c)
  BY <1>1 DEF BundlesInv
<1> QED BY <1>1, <1>6, <1>7, <1>8, JobStep

(* What a contributor that has its turn has written is the last there is. *)
LEMMA SectionPlaced ==
    ASSUME NEW x, RestoreOK(x), WellFormed(x), Placed(x, db), NEW c \in x.todo,
           NEW y, y.data = x.data, y.base = x.base, y.dirty = x.dirty, y.warned = x.warned,
           y.at = x.at, y.restored = x.restored \cup {c}
    PROVE  Placed(y, Upserted(Section(x.data, c), DOMAIN Section(x.data, c)))
<1> DEFINE section == Section(x.data, c)
           new == Upserted(section, DOMAIN section)
<1>1. SUFFICES ASSUME x.base # <<>>, NEW r \in Rows \ x.dirty PROVE new[r] \in Expected(y, r)
  BY DEF Placed
<1>2. /\ c \in Names /\ x.restored \subseteq Names /\ c \in DOMAIN x.data /\ x.restored \subseteq DOMAIN x.data
      /\ \A d \in x.restored : Registered[d] < Registered[c]
  BY CalledNames DEF RestoreOK
<1>3. CASE r \in DOMAIN section
  <2>1. new[r] = section[r]
    BY <1>3 DEF Upserted
  <2>2. c \in Carriers(y, r) /\ \A d \in Carriers(y, r) : d = c \/ Registered[d] < Registered[c]
    BY <1>2, <1>3 DEF Carriers
  <2>3. Last(Carriers(y, r)) = {c}
    <3>1. Registered[c] \in Int /\ \A d \in Names : Registered[d] \in Int
      BY <1>2, RegisteredFacts
    <3>2. Carriers(y, r) \subseteq Names
      BY <1>2 DEF Carriers
    <3>3. c \in Last(Carriers(y, r))
      BY <2>2, <3>1, <3>2 DEF Last
    <3>4. \A d \in Last(Carriers(y, r)) : d = c
      BY <2>2, <3>1, <3>2 DEF Last
    <3> QED BY <3>3, <3>4
  <2>4. Expected(y, r) = {section[r]}
    BY <2>2, <2>3 DEF Expected
  <2> QED BY <2>1, <2>4
<1>4. CASE r \notin DOMAIN section
  <2>1. new[r] = db[r] /\ db[r] \in Expected(x, r)
    BY <1>1, <1>4 DEF Upserted, Placed
  <2>2. Carriers(y, r) = Carriers(x, r)
    BY <1>4 DEF Carriers
  <2>3. HalfWay(x, r) => HalfWay(y, r)
    <3>1. c = "files" => r \notin DOMAIN x.data["files"]
      BY <1>4, SectionFacts DEF Names
    <3> QED BY <3>1 DEF HalfWay
  <2>4. Expected(x, r) \subseteq Expected(y, r)
    BY <2>2, <2>3 DEF Expected
  <2> QED BY <2>1, <2>4
<1> QED BY <1>3, <1>4

(* Files that were put in place before an error, or before the process     *)
(* ended.                                                                  *)
LEMMA FilesPlaced ==
    ASSUME NEW x, RestoreOK(x), WellFormed(x), Placed(x, db), "files" \in x.todo,
           NEW some, some \subseteq DOMAIN Section(x.data, "files"),
           NEW y, y.data = x.data, y.base = x.base, y.dirty = x.dirty, x.warned \subseteq y.warned,
           y.restored = x.restored, x.at = "dead" => y.at = "dead", "files" \in y.warned \/ y.at = "dead"
    PROVE  Placed(y, Upserted(Section(x.data, "files"), some))
<1> DEFINE section == Section(x.data, "files")
           new == Upserted(section, some)
<1>1. SUFFICES ASSUME x.base # <<>>, NEW r \in Rows \ x.dirty PROVE new[r] \in Expected(y, r)
  BY DEF Placed
<1>2. section = x.data["files"] /\ "files" \in Names
  BY SectionFacts DEF Names
<1>3. "files" \in DOMAIN x.data /\ x.restored \subseteq Names \cap DOMAIN x.data
  BY CalledNames
<1>4. "files" \notin x.restored
  BY <1>2, RegisteredFacts DEF RestoreOK
<1>5. CASE r \in some
  <2>1. r \in DOMAIN section /\ new[r] = section[r] /\ Table[r] = "files"
    BY <1>2, <1>3, <1>5 DEF Upserted, WellFormed
  <2>2. Carriers(y, r) = {}
    <3> SUFFICES ASSUME NEW c \in x.restored, r \in DOMAIN Section(x.data, c) PROVE FALSE
      BY DEF Carriers
    <3>1. c = "files"
      BY <1>3, <2>1, SectionRows
    <3> QED BY <1>4, <3>1
  <2>3. HalfWay(y, r)
    BY <1>2, <1>3, <1>4, <2>1 DEF HalfWay
  <2> QED BY <1>2, <2>1, <2>2, <2>3 DEF Expected
<1>6. CASE r \notin some
  <2>1. new[r] = db[r] /\ db[r] \in Expected(x, r)
    BY <1>1, <1>6 DEF Upserted, Placed
  <2>2. Expected(x, r) \subseteq Expected(y, r)
    BY ExpectedGrows
  <2> QED BY <2>1, <2>2
<1> QED BY <1>5, <1>6

(* The end of a contributor's turn. *)
Turned(x, c, restored) ==
    [x EXCEPT !.todo = @ \ {c},
              !.restored = IF restored THEN @ \cup {c} ELSE @,
              !.warned = IF restored THEN @ ELSE @ \cup {c}]

LEMMA TurnedFields ==
    ASSUME NEW x, DOMAIN x = JobFields, NEW c, NEW restored \in BOOLEAN, NEW y, y = Turned(x, c, restored)
    PROVE  /\ DOMAIN y = JobFields /\ y.at = x.at /\ y.front = x.front /\ y.scope = x.scope
           /\ y.data = x.data /\ y.base = x.base /\ y.dirty = x.dirty /\ y.todo = x.todo \ {c}
           /\ restored => y.restored = x.restored \cup {c} /\ y.warned = x.warned
           /\ ~restored => y.restored = x.restored /\ y.warned = x.warned \cup {c}
BY DEF Turned, JobFields

LEMMA WroteStep ==
    ASSUME BundlesInv, NEW j \in Jobs, NEW c, Restoring(j, c), NEW new, new = [r \in Rows |-> new[r]],
           NEW restored \in BOOLEAN, Wrote(j, c, new, restored),
           Placed(Turned(job[j], c, restored), new)
    PROVE  BundlesInv'
<1> DEFINE x == job[j]
           y == Turned(x, c, restored)
           jobs == [job EXCEPT ![j] = y]
<1>1. /\ JobOK(x) /\ RestoreOK(x) /\ WellFormed(x) /\ DOMAIN x = JobFields /\ x.at = "restore"
      /\ c \in x.todo /\ \A d \in x.todo : Registered[c] <= Registered[d]
  BY DEF BundlesInv, JobOK, Restoring
<1>2. /\ DOMAIN y = JobFields /\ y.at = x.at /\ y.front = x.front /\ y.scope = x.scope
      /\ y.data = x.data /\ y.base = x.base /\ y.dirty = x.dirty /\ y.todo = x.todo \ {c}
      /\ y.restored \cup y.warned = x.restored \cup x.warned \cup {c}
  BY <1>1, TurnedFields
<1>3. jobs = [job EXCEPT ![j].todo = @ \ {c},
                         ![j].restored = IF restored THEN @ \cup {c} ELSE @,
                         ![j].warned = IF restored THEN @ ELSE @ \cup {c}]
  BY DEF Turned, BundlesInv
<1>4. db' = new /\ job' = Soiled(jobs, j, Changed(new)) /\ UNCHANGED bundles
  BY <1>3 DEF Wrote
<1>5. /\ jobs = [i \in Jobs |-> jobs[i]] /\ jobs[j] = y /\ \A i \in Jobs \ {j} : jobs[i] = job[i]
  BY DEF BundlesInv
<1> HIDE DEF y, jobs
<1>6. WellFormed(y)
  BY <1>1, <1>2, WellFormedSame
<1>7. RestoreOK(y)
  <2>1. y.todo \cup y.restored \cup y.warned = Called(y)
    BY <1>1, <1>2 DEF RestoreOK, Called
  <2>2. ASSUME NEW d \in y.restored \cup y.warned, NEW e \in y.todo PROVE Registered[d] < Registered[e]
    <3>1. CASE d = c
      <4>1. c \in Names /\ e \in Names /\ c # e /\ Registered[c] <= Registered[e]
        BY <1>1, <1>2, CalledNames
      <4>2. Registered[c] # Registered[e] /\ Registered[c] \in Int /\ Registered[e] \in Int
        BY <4>1, RegisteredFacts
      <4> QED BY <3>1, <4>1, <4>2
    <3>2. CASE d # c
      BY <1>1, <1>2, <3>2 DEF RestoreOK
    <3> QED BY <3>1, <3>2
  <2> QED BY <1>1, <1>2, <2>1, <2>2 DEF RestoreOK
<1>8. JobOK(y)
  BY <1>1, <1>2, <1>6, <1>7 DEF JobOK
<1>9. \A r \in Rows \ Changed(new) : new[r] = db[r]
  BY DEF Changed
<1>10. Placed(y, new)
  BY DEF y
<1> QED BY <1>4, <1>5, <1>8, <1>9, <1>10, RowStep

LEMMA RestoreTurnStep ==
    ASSUME BundlesInv, NEW j \in Jobs, (\E c : RestoreRows(j, c)) \/ RestoreFiles(j)
    PROVE  BundlesInv'
<1> DEFINE x == job[j]
           all(c) == Upserted(Section(x.data, c), DOMAIN Section(x.data, c))
<1>0. /\ RestoreOK(x) /\ WellFormed(x) /\ DOMAIN x = JobFields /\ Placed(x, db) /\ x.at = "restore"
  BY DEF BundlesInv, JobOK, RestoreRows, RestoreFiles, Restoring
<1>1. ASSUME NEW c, Restoring(j, c), Wrote(j, c, all(c), TRUE) PROVE BundlesInv'
  <2> DEFINE y == Turned(x, c, TRUE)
  <2>1. c \in x.todo
    BY <1>1 DEF Restoring
  <2>2. /\ y.data = x.data /\ y.base = x.base /\ y.dirty = x.dirty /\ y.warned = x.warned
        /\ y.at = x.at /\ y.restored = x.restored \cup {c}
    BY <1>0 DEF Turned, JobFields
  <2> HIDE DEF y
  <2>3. Placed(y, all(c))
    BY <1>0, <2>1, <2>2, SectionPlaced
  <2>4. all(c) = [r \in Rows |-> all(c)[r]]
    BY DEF Upserted
  <2> QED BY <1>1, <2>3, <2>4, WroteStep DEF y
<1>2. ASSUME NEW c, Restoring(j, c), Wrote(j, c, db, FALSE) PROVE BundlesInv'
  <2> DEFINE y == Turned(x, c, FALSE)
  <2>1. /\ y.data = x.data /\ y.base = x.base /\ y.dirty = x.dirty /\ x.warned \subseteq y.warned
        /\ y.at = x.at /\ y.restored = x.restored
    BY <1>0 DEF Turned, JobFields
  <2> HIDE DEF y
  <2>2. \A r : Expected(x, r) \subseteq Expected(y, r)
    BY <2>1, ExpectedGrows
  <2>3. Placed(y, db)
    BY <1>0, <2>1, <2>2 DEF Placed
  <2>4. db = [r \in Rows |-> db[r]]
    BY DEF BundlesInv
  <2> QED BY <1>2, <2>3, <2>4, WroteStep DEF y
<1>3. ASSUME NEW some \in SUBSET DOMAIN Section(x.data, "files"), Restoring(j, "files"),
             Wrote(j, "files", Upserted(Section(x.data, "files"), some), FALSE)
      PROVE  BundlesInv'
  <2> DEFINE y == Turned(x, "files", FALSE)
             new == Upserted(Section(x.data, "files"), some)
  <2>1. /\ y.data = x.data /\ y.base = x.base /\ y.dirty = x.dirty /\ y.warned = x.warned \cup {"files"}
        /\ y.at = x.at /\ y.restored = x.restored
    BY <1>0 DEF Turned, JobFields
  <2> HIDE DEF y
  <2>2. "files" \in x.todo
    BY <1>3 DEF Restoring
  <2>3. Placed(y, new)
    BY <1>0, <2>1, <2>2, FilesPlaced
  <2>4. new = [r \in Rows |-> new[r]]
    BY DEF Upserted
  <2> QED BY <1>3, <2>3, <2>4, WroteStep DEF y
<1>4. ASSUME NEW c, RestoreRows(j, c) PROVE BundlesInv'
  <2>1. Restoring(j, c) /\ (Wrote(j, c, all(c), TRUE) \/ Wrote(j, c, db, FALSE))
    BY <1>4 DEF RestoreRows
  <2> QED BY <1>1, <1>2, <2>1
<1>5. ASSUME RestoreFiles(j) PROVE BundlesInv'
  <2>1. /\ Restoring(j, "files")
        /\ \/ Wrote(j, "files", all("files"), TRUE)
           \/ \E some \in SUBSET DOMAIN Section(x.data, "files") :
                 Wrote(j, "files", Upserted(Section(x.data, "files"), some), FALSE)
    BY <1>5 DEF RestoreFiles
  <2> QED BY <1>1, <1>3, <2>1
<1> QED BY <1>4, <1>5

LEMMA RestoreAuditStep == ASSUME BundlesInv, NEW j \in Jobs, RestoreAudit(j) PROVE BundlesInv'
<1>1. job[j].at = "restore" /\ job[j].todo = {} /\ Audit(j, job[j].key, "done") /\ UNCHANGED bundles
  BY DEF RestoreAudit
<1> QED BY <1>1, AuditStep

(* The process ends: single files may be in place. *)
LEMMA RestoreCrashStep == ASSUME BundlesInv, NEW j \in Jobs, Crash(j) PROVE BundlesInv'
<1> DEFINE x == job[j]
           y == [x EXCEPT !.at = "dead"]
           jobs == [job EXCEPT ![j].at = "dead"]
<1>1. /\ JobOK(x) /\ WellFormed(x) /\ DOMAIN x = JobFields /\ Placed(x, db)
      /\ x.at \in {"export", "pack", "restore"}
  BY DEF BundlesInv, JobOK, Crash
<1>2. PICK some \in IF Restoring(j, "files") THEN SUBSET DOMAIN Section(x.data, "files") ELSE {{}} :
         LET new == IF some = {} THEN db ELSE Upserted(Section(x.data, "files"), some)
         IN  db' = new /\ job' = Soiled(jobs, j, Changed(new))
  BY DEF Crash
<1> DEFINE new == IF some = {} THEN db ELSE Upserted(Section(x.data, "files"), some)
<1>3. db' = new /\ job' = Soiled(jobs, j, Changed(new)) /\ UNCHANGED bundles
  BY <1>2 DEF Crash
<1>4. /\ DOMAIN y = JobFields /\ y.at = "dead" /\ y.front = x.front /\ y.scope = x.scope
      /\ y.data = x.data /\ y.base = x.base /\ y.dirty = x.dirty /\ y.todo = x.todo
      /\ y.restored = x.restored /\ y.warned = x.warned
  BY <1>1 DEF JobFields
<1>5. /\ jobs = [i \in Jobs |-> jobs[i]] /\ jobs[j] = y /\ \A i \in Jobs \ {j} : jobs[i] = job[i]
  BY DEF BundlesInv
<1>6. new = [r \in Rows |-> new[r]] /\ \A r \in Rows \ Changed(new) : new[r] = db[r]
  BY DEF Upserted, Changed, BundlesInv
<1> HIDE DEF y, jobs
<1>7. JobOK(y)
  <2>1. WellFormed(y)
    BY <1>1, <1>4, WellFormedSame
  <2> QED BY <1>1, <1>4, <2>1 DEF JobOK, RestoreOK, Called
<1>8. Placed(y, new)
  <2>1. CASE some = {}
    <3>1. \A r : Expected(x, r) \subseteq Expected(y, r)
      BY <1>4, ExpectedGrows
    <3> QED BY <1>1, <1>4, <2>1, <3>1 DEF Placed
  <2>2. CASE some # {}
    <3>1. Restoring(j, "files") /\ some \subseteq DOMAIN Section(x.data, "files")
      BY <2>2
    <3>2. RestoreOK(x) /\ "files" \in x.todo
      BY <1>1, <3>1 DEF JobOK, Restoring
    <3> QED BY <1>1, <1>4, <2>2, <3>1, <3>2, FilesPlaced
  <2> QED BY <2>1, <2>2
<1> HIDE DEF new
<1> QED BY <1>3, <1>5, <1>6, <1>7, <1>8, RowStep

LEMMA BundlesInvariant == Spec => []BundlesInv
<1>1. BundlesInv /\ [Next]_vars => BundlesInv'
  <2> SUFFICES ASSUME BundlesInv, [Next]_vars PROVE BundlesInv'
    OBVIOUS
  <2>1. CASE UNCHANGED vars
    BY <2>1 DEF vars, BundlesInv
  <2>2. ASSUME NEW j \in Jobs, ExportDownload(j) \/ CliExport(j) PROVE BundlesInv'
    BY <2>2, BeginExportStep DEF ExportDownload, CliExport
  <2>3. ASSUME NEW j \in Jobs, RunExport(j) \/ ExportAudit(j) \/ Deliver(j) \/ ExportFails(j) PROVE BundlesInv'
    BY <2>3, RunExportStep, ExportAuditStep, DeliverStep, ExportFailsStep
  <2>4. ASSUME NEW j \in Jobs, Restore(j) \/ RestoreUpload(j) \/ CliRestore(j) PROVE BundlesInv'
    <3>1. \A b \in bundles \cup Foreign : BundleOK(b)
      BY ForeignAssumption DEF BundlesInv, BundleOK
    <3>2. \E b \in bundles \cup Foreign : \E front, p : BeginRestore(j, front, b, p)
      BY <2>4 DEF Restore, RestoreUpload, CliRestore
    <3> QED BY <3>1, <3>2, BeginRestoreStep
  <2>5. ASSUME NEW j \in Jobs, (\E c : RestoreRows(j, c)) \/ RestoreFiles(j) \/ RestoreAudit(j) \/ Crash(j)
        PROVE  BundlesInv'
    BY <2>5, RestoreTurnStep, RestoreAuditStep, RestoreCrashStep
  <2> QED BY <2>1, <2>2, <2>3, <2>4, <2>5, RequestStep, RotateKeyStep DEF Next
<1> QED BY <1>1, BundlesStart, PTL DEF Spec

(* restore_bundle: every section is in entirely or left out entirely,      *)
(* single files excepted, and no other row is touched, whatever fails.     *)
THEOREM SectionsWhole == Spec => []SectionsAreAllOrNothing
<1>1. BundlesInv => SectionsAreAllOrNothing
  BY DEF BundlesInv, Placed, SectionsAreAllOrNothing, Restored
<1> QED BY <1>1, BundlesInvariant, PTL

(* build_backup_service: the secrets section is restored after the         *)
(* settings section, so that the newer value stays.                        *)
THEOREM SecretsNewest == Spec => []NewerSecretWins
<1>1. BundlesInv => NewerSecretWins
  <2> SUFFICES ASSUME BundlesInv, NEW j \in Jobs, job[j].at = "done", job[j].base # <<>>, job[j].warned = {},
                      NEW r \in Secrets \ job[j].dirty,
                      "secrets" \in DOMAIN job[j].data, r \in DOMAIN job[j].data["secrets"]
               PROVE  db[r] = job[j].data["secrets"][r]
    BY DEF NewerSecretWins, Restored
  <2> DEFINE x == job[j]
  <2>1. RestoreOK(x) /\ WellFormed(x) /\ Placed(x, db)
    BY DEF BundlesInv, JobOK
  <2>2. r \in Rows
    BY <2>1 DEF WellFormed
  <2>3. db[r] \in Expected(x, r)
    BY <2>1, <2>2 DEF Placed
  <2>4. "secrets" \in x.restored
    <3>1. x.scope.kind \in {"platform", "tenant"}
      BY <2>1 DEF RestoreOK, Scopes
    <3>2. "secrets" \in Contributors(x.front, x.scope)
      BY <3>1, ScopesFacts, RegisteredFacts DEF Contributors, Names
    <3>3. x.todo = {} /\ "secrets" \in Called(x)
      BY <2>1, <3>2 DEF RestoreOK, Called
    <3> QED BY <2>1, <3>3 DEF RestoreOK
  <2>5. Section(x.data, "secrets")[r] = x.data["secrets"][r] /\ r \in DOMAIN Section(x.data, "secrets")
    <3>1. Section(x.data, "secrets") = [q \in DOMAIN x.data["secrets"] \cap Secrets |-> x.data["secrets"][q]]
      BY SectionFacts DEF SecretsRestore, Only
    <3> QED BY <3>1
  <2>6. "secrets" \in Carriers(x, r) /\ Carriers(x, r) \subseteq {"settings", "secrets"}
    <3>1. x.restored \subseteq Names \cap DOMAIN x.data
      BY <2>1, CalledNames
    <3>2. \A c \in Carriers(x, r) : c \in {"settings", "secrets"}
      BY <2>1, <3>1, SectionRows DEF Carriers
    <3> QED BY <2>4, <2>5, <3>2 DEF Carriers
  <2>7. Last(Carriers(x, r)) = {"secrets"}
    <3>1. Registered["settings"] = 3 /\ Registered["secrets"] = 4
      BY DEF Registered
    <3>2. "secrets" \in Last(Carriers(x, r))
      BY <2>6, <3>1 DEF Last
    <3>3. \A c \in Last(Carriers(x, r)) : c = "secrets"
      BY <2>6, <3>1 DEF Last
    <3> QED BY <3>2, <3>3
  <2>8. Expected(x, r) = {Section(x.data, "secrets")[r]}
    BY <2>6, <2>7 DEF Expected
  <2> QED BY <2>3, <2>5, <2>8
<1> QED BY <1>1, BundlesInvariant, PTL

(* A tenant's bundle changes no row of the platform or of another tenant:  *)
(* what the export filters left out, the restore does not write.           *)
THEOREM TenantsApart == Spec => []TenantsStayApart
<1>1. BundlesInv => TenantsStayApart
  <2> SUFFICES ASSUME BundlesInv, NEW j \in Jobs, job[j].base # <<>>, job[j].scope.kind = "tenant",
                      NEW r \in Rows \ job[j].dirty, Owner[r] # job[j].scope.tenant
               PROVE  db[r] = job[j].base[r]
    BY DEF TenantsStayApart, Restored
  <2> DEFINE x == job[j]
  <2>1. RestoreOK(x) /\ WellFormed(x) /\ Placed(x, db)
    BY DEF BundlesInv, JobOK
  <2>2. Carriers(x, r) = {}
    <3>1. x.restored \subseteq Names \cap DOMAIN x.data
      BY <2>1, CalledNames
    <3> QED BY <2>1, <3>1, SectionRows DEF Carriers
  <2>3. ~HalfWay(x, r)
    BY <2>1 DEF HalfWay, WellFormed
  <2>4. Expected(x, r) = {x.base[r]}
    BY <2>2, <2>3 DEF Expected
  <2> QED BY <2>1, <2>4 DEF Placed
<1> QED BY <1>1, BundlesInvariant, PTL
=============================================================================
