------------------------- MODULE InstallationProofs -------------------------
(***************************************************************************)
(* Proofs about what keeps an installation up and up to date: the launcher *)
(* and its server (Launcher), then the update poller and the settings it   *)
(* reads its mode from (AutoUpdate, Settings).                             *)
(***************************************************************************)
EXTENDS Launcher, AutoUpdate, FiniteSetTheorems, SequenceTheorems, WellFoundedInduction, TLAPS

Phases  == Running \cup {"none", "ended"}
Servers == {"none", "starting", "serving", "draining"} \cup Exited
ProcRecord == [phase : Phases, port : Ports, server : Servers, old : Launchers \cup {None},
               hash : Int, forced : BOOLEAN, deps : Int, crashes : Nat, restart : BOOLEAN, why : Reasons]

(* A server that listens is waited for or was left behind; only a pip that *)
(* runs, with its launcher or without, holds what it read.                 *)
Supervised(p) ==
    /\ p.server \in {"starting", "serving"}
           => \/ p.phase = "wait" \/ p.why = "died"
              \/ start.platform = "windows" /\ p.why = "killed"
    /\ p.deps # -1 => p.phase \in {"build", "ended"}

ProcsOK == proc \in [Launchers -> ProcRecord] /\ \A l \in Launchers : Supervised(proc[l])

FilesOK == source \in Nat /\ installed \in Int /\ hashFile \in Int /\ collided \in BOOLEAN

(* What an installation has read so far is not newer than what it will     *)
(* have installed when it writes the hash.                                 *)
ReadOK(p, src, inst, file) ==
    /\ p.phase = "pip" => p.hash <= src
    /\ p.phase = "build" => p.hash <= p.deps /\ p.deps <= src /\ file <= p.deps
    /\ p.phase = "hash" => p.hash <= inst
    /\ p.phase = "ended" /\ p.deps # -1 => p.deps <= src /\ file <= p.deps

InstallOK == ~collided =>
    /\ hashFile <= installed /\ installed <= source
    /\ \A l, m \in Launchers : Installing(l) /\ Installing(m) => l = m
    /\ \A l \in Launchers : ReadOK(proc[l], source, installed, hashFile)

(* The inductive invariant. *)
LauncherInv == ProcsOK /\ FilesOK /\ InstallOK

-----------------------------------------------------------------------------
InstallPhases == {"pip", "build", "hash"}

(* The installation a process is in, if any, is where it was. *)
SameInstall(p, q) ==
    /\ q.phase \in InstallPhases => p.phase = q.phase /\ p.hash = q.hash /\ p.deps = q.deps
    /\ q.deps # -1 => p.deps = q.deps

(* A step that installs nothing: processes change, the sources may grow. *)
LEMMA QuietStep ==
    ASSUME LauncherInv, proc' \in [Launchers -> ProcRecord],
           \A m \in Launchers : Supervised(proc'[m]) /\ SameInstall(proc[m], proc'[m]),
           source' \in Nat, source <= source', UNCHANGED <<start, installed, hashFile, collided>>
    PROVE  LauncherInv'
<1>1. ProcsOK' /\ FilesOK'
  BY DEF LauncherInv, ProcsOK, FilesOK, Supervised
<1>2. ASSUME ~collided PROVE InstallOK'
  <2>1. /\ hashFile <= installed /\ installed <= source
        /\ \A l, m \in Launchers : Installing(l) /\ Installing(m) => l = m
        /\ \A l \in Launchers : ReadOK(proc[l], source, installed, hashFile)
    BY <1>2 DEF LauncherInv, InstallOK
  <2>2. \A l \in Launchers : Installing(l)' => Installing(l)
    BY DEF Installing, SameInstall, InstallPhases
  <2>3. \A l \in Launchers : ReadOK(proc'[l], source', installed', hashFile')
    <3> TAKE l \in Launchers
    <3>1. /\ proc[l] \in ProcRecord /\ proc'[l] \in ProcRecord
          /\ ReadOK(proc[l], source, installed, hashFile) /\ SameInstall(proc[l], proc'[l])
          /\ Supervised(proc[l])
      BY <2>1 DEF LauncherInv, ProcsOK
    <3>2. source \in Nat /\ source' \in Nat /\ installed' = installed /\ hashFile' = hashFile
      BY DEF LauncherInv, FilesOK
    <3> QED BY <3>1, <3>2 DEF ReadOK, SameInstall, Supervised, InstallPhases, ProcRecord
  <2> QED BY <2>1, <2>2, <2>3 DEF InstallOK, LauncherInv, FilesOK
<1> QED BY <1>1, <1>2 DEF LauncherInv, InstallOK

(* A record of the process table is replaced. *)
LEMMA RecordReplaced ==
    ASSUME proc \in [Launchers -> ProcRecord], NEW l \in Launchers, NEW x \in ProcRecord,
           proc' = [proc EXCEPT ![l] = x]
    PROVE  /\ proc' \in [Launchers -> ProcRecord] /\ proc'[l] = x
           /\ \A m \in Launchers \ {l} : proc'[m] = proc[m]
OBVIOUS

(* A step of one process that installs nothing. *)
LEMMA QuietRecord ==
    ASSUME LauncherInv, NEW l \in Launchers, NEW x \in ProcRecord,
           proc' = [proc EXCEPT ![l] = x], Supervised(x), SameInstall(proc[l], x),
           UNCHANGED <<start, source, installed, hashFile, collided>>
    PROVE  LauncherInv'
<1>1. /\ proc' \in [Launchers -> ProcRecord] /\ proc'[l] = x
      /\ \A m \in Launchers \ {l} : proc'[m] = proc[m]
  BY RecordReplaced DEF LauncherInv, ProcsOK
<1>2. \A m \in Launchers : Supervised(proc'[m]) /\ SameInstall(proc[m], proc'[m])
  BY <1>1 DEF LauncherInv, ProcsOK, SameInstall
<1> QED BY <1>1, <1>2, QuietStep DEF LauncherInv, FilesOK

(* A process that goes on to another phase, other than an installation. *)
LEMMA QuietGo ==
    ASSUME LauncherInv, NEW l \in Launchers, NEW phase \in Phases \ InstallPhases,
           Go(l, phase), proc[l].server \notin {"starting", "serving"} \/ proc[l].phase # "wait",
           proc[l].phase \notin {"build", "ended"},
           UNCHANGED <<start, source, installed, hashFile, collided>>
    PROVE  LauncherInv'
<1> DEFINE x == [proc[l] EXCEPT !.phase = phase]
<1>1. proc[l] \in ProcRecord /\ Supervised(proc[l])
  BY DEF LauncherInv, ProcsOK
<1>2. /\ x \in ProcRecord /\ x.phase = phase /\ x.server = proc[l].server /\ x.why = proc[l].why
      /\ x.deps = proc[l].deps
  BY <1>1 DEF ProcRecord
<1>3. proc' = [proc EXCEPT ![l] = x]
  BY DEF Go
<1> HIDE DEF x
<1>4. proc[l].deps = -1
  BY <1>1 DEF Supervised
<1>5. Supervised(x) /\ SameInstall(proc[l], x)
  BY <1>1, <1>2, <1>4 DEF Supervised, SameInstall
<1> QED BY <1>2, <1>3, <1>5, QuietRecord

LEMMA FreshFacts == /\ Fresh \in ProcRecord /\ Fresh.server = "none" /\ Fresh.phase = "none"
                    /\ Fresh.deps = -1
<1>1. DefaultPort \in Ports /\ "none" \in Phases /\ "none" \in Servers /\ -1 \in Int /\ 0 \in Nat
  BY LauncherAssumption DEF Phases, Servers
<1>2. "" \in Reasons
  BY DEF Reasons
<1> QED BY <1>1, <1>2 DEF Fresh, ProcRecord

(* What Ends and Ended leave of a process. *)
LEMMA EndFacts ==
    ASSUME NEW p \in ProcRecord, NEW why \in Reasons
    PROVE  /\ Ends(p, why) \in ProcRecord /\ Ends(p, why).phase = "remove" /\ Ends(p, why).server = "none"
           /\ Ends(p, why).deps = -1 /\ Ended(p, why).deps = -1
           /\ Ended(p, why) \in ProcRecord /\ Ended(p, why).phase = "ended" /\ Ended(p, why).server = "none"
           /\ Ended(p, why).why = why
<1>1. p.port \in Ports
  BY DEF ProcRecord
<1>2. {"remove", "ended"} \subseteq Phases
  BY DEF Phases, Running
<1>3. /\ Ends(p, why) \in ProcRecord /\ Ends(p, why).phase = "remove"
      /\ Ends(p, why).server = "none" /\ Ends(p, why).deps = -1
  BY <1>1, <1>2, FreshFacts DEF Ends, ProcRecord
<1>4. /\ Ended(p, why) \in ProcRecord /\ Ended(p, why).phase = "ended"
      /\ Ended(p, why).server = "none" /\ Ended(p, why).why = why /\ Ended(p, why).deps = -1
  BY <1>1, <1>2, FreshFacts DEF Ended, ProcRecord
<1> QED BY <1>3, <1>4

(* What a launcher that is killed leaves, alone or with its group. *)
LEMMA OrphanFacts ==
    ASSUME NEW p \in ProcRecord, Supervised(p), NEW why \in {"killed", "died"},
           why = "died" \/ start.platform = "windows"
    PROVE  /\ Orphaned(p, why) \in ProcRecord /\ Supervised(Orphaned(p, why))
           /\ SameInstall(p, Orphaned(p, why))
<1> DEFINE e == Ended(p, why)
           v == IF p.server \in Exited THEN "none" ELSE p.server
           x == [e EXCEPT !.server = v, !.restart = p.restart, !.deps = p.deps]
<1>1. e \in ProcRecord /\ e.phase = "ended" /\ e.why = why
  <2>1. why \in Reasons
    BY DEF Reasons
  <2> QED BY <2>1, EndFacts, ZenonT(30)
<1>2. v \in Servers /\ p.restart \in BOOLEAN /\ p.deps \in Int
  BY DEF ProcRecord, Servers
<1> HIDE DEF e, v
<1>3. x \in ProcRecord /\ x.phase = "ended" /\ x.why = why /\ x.deps = p.deps
  BY <1>1, <1>2 DEF ProcRecord
<1>4. x = Orphaned(p, why)
  BY DEF Orphaned, e, v
<1> HIDE DEF x
<1>5. Supervised(x)
  BY <1>3 DEF Supervised
<1>6. SameInstall(p, x)
  BY <1>3 DEF SameInstall, InstallPhases
<1> QED BY <1>3, <1>4, <1>5, <1>6

LEMMA TerminatedFacts ==
    ASSUME NEW p \in ProcRecord
    PROVE  /\ Terminated(p) \in ProcRecord /\ Supervised(Terminated(p))
           /\ SameInstall(p, Terminated(p))
<1> DEFINE e == Ended(p, "killed")
           y == [e EXCEPT !.server = "draining", !.restart = TRUE]
<1>1. e \in ProcRecord /\ e.phase = "ended" /\ e.server = "none" /\ e.deps = -1
  <2>1. "killed" \in Reasons
    BY DEF Reasons
  <2> QED BY <2>1, EndFacts, ZenonT(30)
<1>2. Terminated(p) \in {e, y}
  BY DEF Terminated
<1> HIDE DEF e
<1>3. y \in ProcRecord /\ y.phase = "ended" /\ y.server = "draining" /\ y.deps = -1
  <2>1. "draining" \in Servers /\ TRUE \in BOOLEAN
    BY DEF Servers
  <2> QED BY <1>1, <2>1 DEF ProcRecord
<1> HIDE DEF y
<1>4. \A x \in {e, y} : x \in ProcRecord /\ Supervised(x) /\ SameInstall(p, x)
  BY <1>1, <1>3 DEF Supervised, SameInstall, InstallPhases
<1> QED BY <1>2, <1>4

(* A server that exits leaves its launcher where it is. *)
LEMMA ExitsFacts ==
    ASSUME NEW p \in ProcRecord, Supervised(p), NEW code \in Exited
    PROVE  /\ Exits(p, code) \in ProcRecord /\ Supervised(Exits(p, code))
           /\ SameInstall(p, Exits(p, code))
<1> DEFINE v == IF p.phase = "wait" THEN code ELSE "none"
           x == [p EXCEPT !.server = v, !.restart = FALSE]
<1>1. v \in Servers /\ v \notin {"starting", "serving"}
  BY DEF Servers, Exited
<1> HIDE DEF v
<1>2. x \in ProcRecord /\ x.server = v /\ x.phase = p.phase /\ x.hash = p.hash /\ x.deps = p.deps
  BY <1>1 DEF ProcRecord
<1>3. x = Exits(p, code)
  BY DEF Exits, v
<1> HIDE DEF x
<1>4. Supervised(x) /\ SameInstall(p, x)
  BY <1>1, <1>2 DEF Supervised, SameInstall
<1> QED BY <1>2, <1>3, <1>4

LEMMA KnownPhases ==
    /\ {"boot", "look", "kill", "unlink", "truncate", "write", "free", "wait", "pause", "remove",
        "none", "ended"} \subseteq Phases \ InstallPhases
    /\ InstallPhases \subseteq Phases
BY DEF Phases, Running, InstallPhases

LEMMA KnownReasons == {"stopped", "replaced", "gave up", "killed", "died"} \subseteq Reasons
BY DEF Reasons

-----------------------------------------------------------------------------
(* The installation: each step, and the processes it finds there. *)
LEMMA LaunchStep ==
    ASSUME LauncherInv, NEW l \in Launchers, NEW port \in Ports, Launch(l, port) PROVE LauncherInv'
<1> DEFINE x == [proc[l] EXCEPT !.phase = "boot", !.port = port]
<1>1. proc[l] = Fresh /\ UNCHANGED <<start, source, installed, hashFile, collided>>
  BY DEF Launch, NextFresh, files, world
<1>2. x \in ProcRecord /\ x.phase = "boot" /\ x.server = "none" /\ x.deps = -1
  BY <1>1, FreshFacts, KnownPhases DEF ProcRecord
<1>3. proc' = [proc EXCEPT ![l] = x]
  BY DEF Launch
<1> HIDE DEF x
<1>4. Supervised(x) /\ SameInstall(proc[l], x)
  BY <1>2 DEF Supervised, SameInstall, InstallPhases
<1> QED BY <1>1, <1>2, <1>3, <1>4, QuietRecord

(* An installation begins: the hash is taken, and an overlap is noticed. *)
LEMMA InstallBegins ==
    ASSUME LauncherInv, NEW l \in Launchers,
           proc[l].server \notin {"starting", "serving"} \/ proc[l].phase # "wait",
           proc[l].phase \notin InstallPhases \cup {"ended"}, NEW forced \in BOOLEAN,
           proc' = [proc EXCEPT ![l].phase = "pip", ![l].hash = source, ![l].forced = forced],
           collided' = (collided \/ \E m \in Launchers \ {l} : Installing(m)),
           UNCHANGED <<start, source, installed, hashFile>>
    PROVE  LauncherInv'
<1> DEFINE x == [proc[l] EXCEPT !.phase = "pip", !.hash = source, !.forced = forced]
<1>1. proc[l] \in ProcRecord /\ Supervised(proc[l]) /\ source \in Nat
  BY DEF LauncherInv, ProcsOK, FilesOK
<1>2. /\ x \in ProcRecord /\ x.phase = "pip" /\ x.hash = source
      /\ x.server = proc[l].server /\ x.why = proc[l].why /\ x.deps = -1
  <2>1. {"pip", "build", "hash"} \subseteq Phases /\ source \in Int /\ -1 \in Int
    BY <1>1, KnownPhases DEF InstallPhases
  <2>2. proc[l].deps = -1
    BY <1>1 DEF Supervised, InstallPhases
  <2> QED BY <1>1, <2>1, <2>2 DEF ProcRecord
<1>3. proc' = [proc EXCEPT ![l] = x]
  OBVIOUS
<1> HIDE DEF x
<1>4. /\ proc' \in [Launchers -> ProcRecord] /\ proc'[l] = x
      /\ \A m \in Launchers \ {l} : proc'[m] = proc[m]
  BY <1>2, <1>3, RecordReplaced DEF LauncherInv, ProcsOK
<1>5. ProcsOK' /\ FilesOK'
  BY <1>1, <1>2, <1>4 DEF LauncherInv, ProcsOK, FilesOK, Supervised
<1>6. ASSUME ~collided' PROVE InstallOK'
  <2>1. ~collided /\ \A m \in Launchers \ {l} : ~Installing(m)
    BY <1>6 DEF LauncherInv, FilesOK
  <2>2. /\ hashFile <= installed /\ installed <= source
        /\ \A m \in Launchers : ReadOK(proc[m], source, installed, hashFile)
    BY <2>1 DEF LauncherInv, InstallOK
  <2>3. \A m \in Launchers : ReadOK(proc'[m], source, installed, hashFile)
    BY <1>1, <1>2, <1>4, <2>2 DEF ReadOK
  <2>4. \A m \in Launchers : Installing(m)' => m = l
    BY <1>4, <2>1 DEF Installing
  <2> QED BY <2>2, <2>3, <2>4 DEF InstallOK
<1> QED BY <1>5, <1>6 DEF LauncherInv, InstallOK

LEMMA CreateVenvStep ==
    ASSUME LauncherInv, NEW l \in Launchers, CreateVenv(l) PROVE LauncherInv'
<1>1. TRUE \in BOOLEAN /\ proc[l].phase = "boot" /\ UNCHANGED <<start, source, installed, hashFile>>
  BY DEF CreateVenv, world
<1> QED BY <1>1, InstallBegins DEF CreateVenv, InstallPhases

LEMMA InstallDependenciesStep ==
    ASSUME LauncherInv, NEW l \in Launchers, InstallDependencies(l) PROVE LauncherInv'
<1>1. /\ proc[l].server \notin {"starting", "serving"} \/ proc[l].phase # "wait"
      /\ proc[l].phase \notin InstallPhases \cup {"ended"}
      /\ UNCHANGED <<start, source, installed, hashFile>>
  BY DEF InstallDependencies, InstallPhases, files, world
<1>2. CASE Go(l, AfterInstall(l)) /\ UNCHANGED collided
  <2>1. AfterInstall(l) \in Phases \ InstallPhases
    BY KnownPhases DEF AfterInstall
  <2> QED BY <1>1, <1>2, <2>1, QuietGo DEF InstallPhases
<1>3. CASE /\ proc' = [proc EXCEPT ![l].phase = "pip", ![l].hash = source]
           /\ collided' = (collided \/ \E m \in Launchers \ {l} : Installing(m))
  <2>1. proc[l] \in ProcRecord
    BY DEF LauncherInv, ProcsOK
  <2>2. proc[l].forced \in BOOLEAN
    BY <2>1 DEF ProcRecord
  <2>3. proc' = [proc EXCEPT ![l].phase = "pip", ![l].hash = source, ![l].forced = proc[l].forced]
    BY <1>3, <2>1 DEF ProcRecord, LauncherInv, ProcsOK
  <2> QED BY <1>1, <1>3, <2>2, <2>3, InstallBegins
<1> QED BY <1>2, <1>3 DEF InstallDependencies

(* The rest of an installation that has no other beside it. *)
LEMMA InstallGoesOn ==
    ASSUME LauncherInv, NEW l \in Launchers, NEW x \in ProcRecord, Installing(l),
           proc' = [proc EXCEPT ![l] = x], Supervised(x),
           source' = source, start' = start, installed' \in Int, hashFile' \in Int, collided' = collided,
           ~collided => /\ hashFile' <= installed' /\ installed' <= source
                          /\ ReadOK(x, source, installed', hashFile')
    PROVE  LauncherInv'
<1>1. /\ proc' \in [Launchers -> ProcRecord] /\ proc'[l] = x
      /\ \A m \in Launchers \ {l} : proc'[m] = proc[m]
  BY RecordReplaced DEF LauncherInv, ProcsOK
<1>2. ProcsOK' /\ FilesOK'
  BY <1>1 DEF LauncherInv, ProcsOK, FilesOK, Supervised
<1>3. ASSUME ~collided PROVE InstallOK'
  <2>1. \A m \in Launchers \ {l} : ~Installing(m)
    BY <1>3 DEF LauncherInv, InstallOK
  <2>2. \A m \in Launchers \ {l} : proc'[m].phase \notin {"pip", "build", "hash"} /\ proc'[m].deps = -1
    BY <1>1, <2>1 DEF Installing
  <2>3. \A m \in Launchers : ReadOK(proc'[m], source, installed', hashFile')
    BY <1>1, <1>3, <2>2 DEF ReadOK
  <2> QED BY <1>3, <2>2, <2>3 DEF InstallOK, Installing
<1> QED BY <1>2, <1>3 DEF LauncherInv, InstallOK

LEMMA PipStartsStep ==
    ASSUME LauncherInv, NEW l \in Launchers, PipStarts(l) PROVE LauncherInv'
<1> DEFINE x == [proc[l] EXCEPT !.phase = "build", !.deps = source]
<1>1. /\ proc[l] \in ProcRecord /\ Supervised(proc[l]) /\ source \in Nat /\ proc[l].phase = "pip"
      /\ installed \in Int /\ hashFile \in Int /\ Installing(l)
  BY DEF LauncherInv, ProcsOK, FilesOK, PipStarts, Installing
<1>2. /\ x \in ProcRecord /\ x.phase = "build" /\ x.deps = source /\ x.hash = proc[l].hash
      /\ x.server = proc[l].server /\ x.why = proc[l].why
  <2>1. {"pip", "build", "hash"} \subseteq Phases /\ source \in Int /\ -1 \in Int
    BY <1>1, KnownPhases DEF InstallPhases
  <2> QED BY <1>1, <2>1 DEF ProcRecord
<1>3. proc' = [proc EXCEPT ![l] = x]
  BY DEF PipStarts
<1> HIDE DEF x
<1>4. Supervised(x)
  BY <1>1, <1>2 DEF Supervised
<1>5. ~collided => /\ hashFile <= installed /\ installed <= source
                     /\ ReadOK(x, source, installed, hashFile)
  <2> SUFFICES ASSUME ~collided
               PROVE  /\ hashFile <= installed /\ installed <= source
                      /\ ReadOK(x, source, installed, hashFile)
    OBVIOUS
  <2>1. /\ hashFile <= installed /\ installed <= source /\ ReadOK(proc[l], source, installed, hashFile)
    BY DEF LauncherInv, InstallOK
  <2> QED BY <1>1, <1>2, <2>1 DEF ReadOK
<1>6. UNCHANGED <<start, source, installed, hashFile, collided>>
  BY DEF PipStarts, files, world
<1> QED BY <1>1, <1>2, <1>3, <1>4, <1>5, <1>6, InstallGoesOn

LEMMA PipStep ==
    ASSUME LauncherInv, NEW l \in Launchers, Pip(l) PROVE LauncherInv'
<1> DEFINE x == [proc[l] EXCEPT !.phase = "hash", !.deps = -1]
<1>1. /\ proc[l] \in ProcRecord /\ Supervised(proc[l]) /\ source \in Nat /\ proc[l].phase = "build"
      /\ installed \in Int /\ hashFile \in Int /\ Installing(l)
  BY DEF LauncherInv, ProcsOK, FilesOK, Pip, Installing
<1>2. /\ x \in ProcRecord /\ x.phase = "hash" /\ x.hash = proc[l].hash
      /\ x.server = proc[l].server /\ x.why = proc[l].why /\ x.deps = -1
  <2>1. {"pip", "build", "hash"} \subseteq Phases /\ source \in Int /\ -1 \in Int
    BY <1>1, KnownPhases DEF InstallPhases
  <2> QED BY <1>1, <2>1 DEF ProcRecord
<1>3. proc' = [proc EXCEPT ![l] = x]
  BY DEF Pip
<1> HIDE DEF x
<1>4. Supervised(x)
  BY <1>1, <1>2 DEF Supervised
<1>5. /\ installed' = proc[l].deps /\ installed' \in Int
      /\ UNCHANGED <<start, source, hashFile, collided>>
  BY <1>1 DEF Pip, ProcRecord, world
<1>6. ~collided => /\ hashFile <= installed' /\ installed' <= source
                     /\ ReadOK(x, source, installed', hashFile)
  <2> SUFFICES ASSUME ~collided
               PROVE  /\ hashFile <= installed' /\ installed' <= source
                      /\ ReadOK(x, source, installed', hashFile)
    OBVIOUS
  <2>1. ReadOK(proc[l], source, installed, hashFile)
    BY DEF LauncherInv, InstallOK
  <2> QED BY <1>1, <1>2, <1>5, <2>1 DEF ReadOK
<1> QED BY <1>1, <1>2, <1>3, <1>4, <1>5, <1>6, InstallGoesOn

LEMMA WriteHashStep ==
    ASSUME LauncherInv, NEW l \in Launchers, WriteHash(l) PROVE LauncherInv'
<1> DEFINE x == [proc[l] EXCEPT !.phase = AfterInstall(l), !.hash = -1, !.forced = FALSE]
<1>1. /\ proc[l] \in ProcRecord /\ Supervised(proc[l]) /\ source \in Nat /\ proc[l].phase = "hash"
      /\ installed \in Int /\ hashFile \in Int /\ Installing(l)
  BY DEF LauncherInv, ProcsOK, FilesOK, WriteHash, Installing
<1>0. AfterInstall(l) \in Phases \ InstallPhases
  BY KnownPhases DEF AfterInstall
<1>2. /\ x \in ProcRecord /\ x.phase = AfterInstall(l)
      /\ x.server = proc[l].server /\ x.why = proc[l].why /\ x.deps = -1
  <2>1. AfterInstall(l) \in Phases /\ -1 \in Int /\ FALSE \in BOOLEAN
    BY <1>0
  <2>2. proc[l].deps = -1
    BY <1>1 DEF Supervised
  <2> QED BY <1>1, <2>1, <2>2 DEF ProcRecord
<1>3. proc' = [proc EXCEPT ![l] = x]
  BY DEF WriteHash
<1> HIDE DEF x
<1>4. Supervised(x)
  BY <1>1, <1>2 DEF Supervised
<1>5. /\ hashFile' = proc[l].hash /\ hashFile' \in Int
      /\ UNCHANGED <<start, source, installed, collided>>
  BY <1>1 DEF WriteHash, ProcRecord, world
<1>6. ~collided => /\ hashFile' <= installed /\ installed <= source
                     /\ ReadOK(x, source, installed, hashFile')
  <2> SUFFICES ASSUME ~collided
               PROVE  /\ hashFile' <= installed /\ installed <= source
                      /\ ReadOK(x, source, installed, hashFile')
    OBVIOUS
  <2>1. ReadOK(proc[l], source, installed, hashFile) /\ installed <= source
    BY DEF LauncherInv, InstallOK
  <2> QED BY <1>0, <1>1, <1>2, <1>5, <2>1 DEF ReadOK, InstallPhases
<1> QED BY <1>1, <1>2, <1>3, <1>4, <1>5, <1>6, InstallGoesOn

-----------------------------------------------------------------------------
(* Two processes change, and install nothing. *)
LEMMA QuietPair ==
    ASSUME LauncherInv, NEW l \in Launchers, NEW m \in Launchers,
           NEW x \in ProcRecord, NEW y \in ProcRecord,
           proc' = [[proc EXCEPT ![l] = x] EXCEPT ![m] = y],
           Supervised(x), SameInstall(proc[l], x), Supervised(y), SameInstall(proc[m], y),
           UNCHANGED <<start, source, installed, hashFile, collided>>
    PROVE  LauncherInv'
<1>1. proc \in [Launchers -> ProcRecord]
  BY DEF LauncherInv, ProcsOK
<1>2. /\ proc' \in [Launchers -> ProcRecord] /\ proc'[m] = y /\ (l # m => proc'[l] = x)
      /\ \A k \in Launchers \ {l, m} : proc'[k] = proc[k]
  BY <1>1
<1>3. \A k \in Launchers : Supervised(proc'[k]) /\ SameInstall(proc[k], proc'[k])
  BY <1>2 DEF LauncherInv, ProcsOK, SameInstall
<1> QED BY <1>2, <1>3, QuietStep DEF LauncherInv, FilesOK

LEMMA RecordFacts ==
    ASSUME LauncherInv, NEW l \in Launchers
    PROVE  proc[l] \in ProcRecord /\ Supervised(proc[l])
BY DEF LauncherInv, ProcsOK

LEMMA ReadPidFileStep ==
    ASSUME LauncherInv, NEW l \in Launchers, ReadPidFile(l) PROVE LauncherInv'
<1> DEFINE o == IF pidFile \in Launchers THEN pidFile ELSE None
           t == IF pidFile \in Launchers THEN "kill" ELSE "truncate"
           x == [proc[l] EXCEPT !.old = o, !.phase = t]
<1>1. proc[l].phase = "look" /\ UNCHANGED <<start, source, installed, hashFile, collided>>
  BY DEF ReadPidFile, files, world
<1>2. o \in Launchers \cup {None} /\ t \in Phases /\ t \notin InstallPhases
  BY KnownPhases
<1>3. proc' = [proc EXCEPT ![l] = x]
  BY DEF ReadPidFile
<1> HIDE DEF o, t
<1>4. /\ x \in ProcRecord /\ x.phase = t /\ x.server = proc[l].server /\ x.why = proc[l].why
      /\ x.deps = proc[l].deps
  BY <1>2, RecordFacts DEF ProcRecord
<1> HIDE DEF x
<1>5. Supervised(x) /\ SameInstall(proc[l], x)
  BY <1>1, <1>2, <1>4, RecordFacts DEF Supervised, SameInstall
<1> QED BY <1>1, <1>3, <1>4, <1>5, QuietRecord

LEMMA KillOldStep ==
    ASSUME LauncherInv, NEW l \in Launchers, KillOld(l) PROVE LauncherInv'
<1> DEFINE o == proc[l].old
           x == [proc[l] EXCEPT !.phase = "unlink"]
           f == [proc EXCEPT ![l] = x]
           left == IF start.platform = "windows" THEN Orphaned(proc[o], "killed") ELSE Terminated(proc[o])
           y == IF Alive(o) THEN left ELSE proc[o]
<1>1. /\ proc[l].phase = "kill" /\ Alive(l)
      /\ UNCHANGED <<start, source, installed, hashFile, collided>>
  BY DEF KillOld, Alive, Running, files, world
<1>2. proc' = [f EXCEPT ![o] = y]
  BY DEF KillOld
<1>3. /\ x \in ProcRecord /\ x.phase = "unlink" /\ x.server = proc[l].server /\ x.why = proc[l].why
      /\ x.deps = proc[l].deps
  BY RecordFacts, KnownPhases DEF ProcRecord
<1> HIDE DEF o, x
<1>4. Supervised(x) /\ SameInstall(proc[l], x)
  BY <1>1, <1>3, RecordFacts DEF Supervised, SameInstall, InstallPhases
<1>5. CASE o \notin Launchers \/ ~Alive(o)
  <2>1. proc' = f
    BY <1>1, <1>2, <1>3, <1>5 DEF LauncherInv, ProcsOK
  <2> QED BY <1>1, <1>3, <1>4, <2>1, QuietRecord
<1>6. CASE o \in Launchers /\ Alive(o)
  <2>1. proc[o] \in ProcRecord /\ Supervised(proc[o])
    BY <1>6, RecordFacts
  <2>2. left \in ProcRecord /\ Supervised(left) /\ SameInstall(proc[o], left)
    BY <2>1, OrphanFacts, TerminatedFacts
  <2>3. proc' = [f EXCEPT ![o] = left]
    BY <1>2, <1>6
  <2> HIDE DEF left
  <2> QED BY <1>1, <1>3, <1>4, <1>6, <2>2, <2>3, QuietPair
<1> QED BY <1>5, <1>6

LEMMA UnlinkOldStep ==
    ASSUME LauncherInv, NEW l \in Launchers, UnlinkOld(l) PROVE LauncherInv'
<1> DEFINE x == [proc[l] EXCEPT !.phase = "truncate", !.old = None]
<1>1. proc[l].phase = "unlink" /\ UNCHANGED <<start, source, installed, hashFile, collided>>
  BY DEF UnlinkOld, files, world
<1>2. /\ x \in ProcRecord /\ x.phase = "truncate" /\ x.server = proc[l].server /\ x.why = proc[l].why
      /\ x.deps = proc[l].deps
  BY RecordFacts, KnownPhases DEF ProcRecord
<1>3. proc' = [proc EXCEPT ![l] = x]
  BY DEF UnlinkOld
<1> HIDE DEF x
<1>4. Supervised(x) /\ SameInstall(proc[l], x)
  BY <1>1, <1>2, RecordFacts DEF Supervised, SameInstall, InstallPhases
<1> QED BY <1>1, <1>2, <1>3, <1>4, QuietRecord

(* The steps that only go on to another phase. *)
LEMMA GoSteps ==
    ASSUME LauncherInv, NEW l \in Launchers,
           TruncatePidFile(l) \/ WritePidFile(l) \/ RemovePidFile(l) \/ Restart(l)
    PROVE  LauncherInv'
<1>1. PICK phase \in {"write", "free", "ended"} : Go(l, phase)
  BY DEF TruncatePidFile, WritePidFile, RemovePidFile, Restart
<1>2. proc[l].phase \notin {"wait", "build", "ended"} /\ UNCHANGED <<start, source, installed, hashFile, collided>>
  BY DEF TruncatePidFile, WritePidFile, RemovePidFile, Restart, files, world
<1>3. phase \in Phases \ InstallPhases
  BY KnownPhases
<1> QED BY <1>1, <1>2, <1>3, QuietGo

-----------------------------------------------------------------------------
(* What starting the server makes of a launcher. *)
LEMMA StartedFacts ==
    ASSUME LauncherInv, NEW l \in Launchers, proc[l].phase = "free"
    PROVE  \E x \in ProcRecord : /\ Started(l) = [proc EXCEPT ![l] = x]
                                 /\ Supervised(x) /\ SameInstall(proc[l], x)
<1> DEFINE x == [proc[l] EXCEPT !.phase = "wait", !.server = "starting"]
<1>1. x \in ProcRecord /\ x.phase = "wait" /\ x.deps = -1
  <2>1. "wait" \in Phases /\ "starting" \in Servers
    BY KnownPhases DEF Servers
  <2>2. proc[l].deps = -1
    BY RecordFacts DEF Supervised
  <2> QED BY <2>1, <2>2, RecordFacts DEF ProcRecord
<1>2. Started(l) = [proc EXCEPT ![l] = x]
  BY DEF Started
<1> HIDE DEF x
<1> QED BY <1>1, <1>2 DEF Supervised, SameInstall, InstallPhases

LEMMA FreePortStep ==
    ASSUME LauncherInv, NEW l \in Launchers, FreePort(l) PROVE LauncherInv'
<1>1. proc[l].phase = "free" /\ UNCHANGED <<start, source, installed, hashFile, collided>>
  BY DEF FreePort, files, world
<1>2. PICK x \in ProcRecord : /\ Started(l) = [proc EXCEPT ![l] = x]
                              /\ Supervised(x) /\ SameInstall(proc[l], x)
  BY <1>1, StartedFacts
<1>3. CASE proc' = Started(l)
  BY <1>1, <1>2, <1>3, QuietRecord
<1>4. ASSUME NEW m \in Launchers \ {l}, proc' = [Started(l) EXCEPT ![m] = Exits(@, "crashed")]
      PROVE  LauncherInv'
  <2> DEFINE f == [proc EXCEPT ![l] = x]
             y == Exits(f[m], "crashed")
  <2>1. f[m] = proc[m] /\ "crashed" \in Exited
    BY <1>4 DEF LauncherInv, ProcsOK, Exited
  <2>2. proc' = [f EXCEPT ![m] = y]
    BY <1>2, <1>4
  <2> HIDE DEF f
  <2>3. y \in ProcRecord /\ Supervised(y) /\ SameInstall(proc[m], y)
    BY <2>1, RecordFacts, ExitsFacts
  <2> HIDE DEF y
  <2> QED BY <1>1, <1>2, <1>4, <2>2, <2>3, QuietPair DEF f
<1> QED BY <1>3, <1>4 DEF FreePort

(* A server that exits, by itself or drained. *)
LEMMA ServerEnds ==
    ASSUME LauncherInv, NEW l \in Launchers, NEW code \in Exited,
           proc' = [proc EXCEPT ![l] = Exits(@, code)],
           UNCHANGED <<start, source, installed, hashFile, collided>>
    PROVE  LauncherInv'
<1> DEFINE x == Exits(proc[l], code)
<1>1. x \in ProcRecord /\ Supervised(x) /\ SameInstall(proc[l], x)
  BY RecordFacts, ExitsFacts
<1>2. proc' = [proc EXCEPT ![l] = x]
  OBVIOUS
<1> HIDE DEF x
<1> QED BY <1>1, <1>2, QuietRecord

LEMMA ServerExitsStep ==
    ASSUME LauncherInv, NEW l \in Launchers, ServerExits(l) \/ Drained(l) PROVE LauncherInv'
<1>1. UNCHANGED <<start, source, installed, hashFile, collided>>
  BY DEF ServerExits, Drained, Fault, files, world
<1>2. PICK code \in {"clean", "again", "crashed"} : proc' = [proc EXCEPT ![l] = Exits(@, code)]
  BY DEF ServerExits, Drained
<1>3. code \in Exited
  BY DEF Exited
<1> QED BY <1>1, <1>2, <1>3, ServerEnds

LEMMA BindStep ==
    ASSUME LauncherInv, NEW l \in Launchers, Bind(l) PROVE LauncherInv'
<1> DEFINE x == [proc[l] EXCEPT !.server = "serving"]
<1>1. /\ proc[l] \in ProcRecord /\ Supervised(proc[l]) /\ proc[l].server = "starting"
      /\ UNCHANGED <<start, source, installed, hashFile, collided>>
  BY RecordFacts DEF Bind, files, world
<1>2. CASE proc' = [proc EXCEPT ![l] = Exits(@, "crashed")]
  <2>1. "crashed" \in Exited
    BY DEF Exited
  <2> QED BY <1>1, <1>2, <2>1, ServerEnds
<1>3. CASE proc' = [proc EXCEPT ![l] = [@ EXCEPT !.server = "serving"]]
  <2>1. /\ x \in ProcRecord /\ x.phase = proc[l].phase /\ x.why = proc[l].why
        /\ x.hash = proc[l].hash /\ x.deps = proc[l].deps
    <3>1. "serving" \in Servers
      BY DEF Servers
    <3> QED BY <1>1, <3>1 DEF ProcRecord
  <2>2. proc' = [proc EXCEPT ![l] = x]
    BY <1>3
  <2> HIDE DEF x
  <2>3. Supervised(x) /\ SameInstall(proc[l], x)
    BY <1>1, <2>1 DEF Supervised, SameInstall
  <2> QED BY <1>1, <2>1, <2>2, <2>3, QuietRecord
<1>4. \/ proc' = [proc EXCEPT ![l] = Exits(@, "crashed")]
      \/ proc' = [proc EXCEPT ![l] = [@ EXCEPT !.server = "serving"]]
  <2>1. CASE \E m \in Launchers : Listens(m, proc[l].port)
    BY <2>1 DEF Bind
  <2>2. CASE ~ \E m \in Launchers : Listens(m, proc[l].port)
    BY <2>2 DEF Bind
  <2> QED BY <2>1, <2>2
<1> QED BY <1>2, <1>3, <1>4

LEMMA SelfRestartStep ==
    ASSUME LauncherInv, NEW l \in Launchers, SelfRestart(l) PROVE LauncherInv'
<1>1. PICK n \in Launchers :
        NextFresh(n) /\ proc' = [proc EXCEPT ![l] = Exits(@, "replaced"), ![n].phase = "boot"]
  BY DEF SelfRestart
<1>2. /\ proc[l].server \in {"serving", "draining"} /\ proc[n] = Fresh
      /\ UNCHANGED <<start, source, installed, hashFile, collided>>
  BY <1>1 DEF SelfRestart, NextFresh, files, world
<1>3. l # n
  BY <1>2, FreshFacts
<1> DEFINE x == Exits(proc[l], "replaced")
           f == [proc EXCEPT ![l] = x]
           y == [f[n] EXCEPT !.phase = "boot"]
<1>4. proc' = [f EXCEPT ![n] = y] /\ f[n] = Fresh
  BY <1>1, <1>2, <1>3 DEF LauncherInv, ProcsOK
<1>5. x \in ProcRecord /\ Supervised(x) /\ SameInstall(proc[l], x)
  <2>1. "replaced" \in Exited
    BY DEF Exited
  <2> QED BY <2>1, RecordFacts, ExitsFacts
<1> HIDE DEF f
<1>6. y \in ProcRecord /\ y.phase = "boot" /\ y.server = "none" /\ y.deps = -1
  BY <1>4, FreshFacts, KnownPhases DEF ProcRecord
<1> HIDE DEF x, y
<1>7. Supervised(y) /\ SameInstall(proc[n], y)
  BY <1>6 DEF Supervised, SameInstall, InstallPhases
<1> QED BY <1>2, <1>4, <1>5, <1>6, <1>7, QuietPair DEF f

LEMMA RequestRestartStep ==
    ASSUME LauncherInv, NEW l \in Launchers, RequestRestart(l) PROVE LauncherInv'
<1> DEFINE x == [proc[l] EXCEPT !.restart = TRUE]
<1>1. /\ x \in ProcRecord /\ x.phase = proc[l].phase /\ x.why = proc[l].why
      /\ x.server = proc[l].server /\ x.hash = proc[l].hash /\ x.deps = proc[l].deps
  BY RecordFacts DEF ProcRecord
<1>2. proc' = [proc EXCEPT ![l] = x]
  BY DEF RequestRestart
<1> HIDE DEF x
<1>3. /\ proc' \in [Launchers -> ProcRecord] /\ proc'[l] = x
      /\ \A m \in Launchers \ {l} : proc'[m] = proc[m]
  BY <1>1, <1>2, RecordReplaced DEF LauncherInv, ProcsOK
<1>4. \A m \in Launchers : Supervised(proc'[m]) /\ SameInstall(proc[m], proc'[m])
  BY <1>1, <1>3, RecordFacts DEF Supervised, SameInstall
<1>5. source' \in Nat /\ source <= source' /\ UNCHANGED <<start, installed, hashFile, collided>>
  BY DEF RequestRestart, Pulled, LauncherInv, FilesOK, world
<1> QED BY <1>3, <1>4, <1>5, QuietStep

LEMMA PullStep == ASSUME LauncherInv, Pull PROVE LauncherInv'
<1>1. source' \in Nat /\ source <= source' /\ UNCHANGED <<start, installed, hashFile, collided, proc>>
  BY DEF Pull, LauncherInv, FilesOK, world
<1>2. /\ proc' \in [Launchers -> ProcRecord]
      /\ \A m \in Launchers : Supervised(proc'[m]) /\ SameInstall(proc[m], proc'[m])
  BY <1>1 DEF LauncherInv, ProcsOK, SameInstall
<1> QED BY <1>1, <1>2, QuietStep

-----------------------------------------------------------------------------
(* A launcher that ends, with or without its finally clause, has no server *)
(* and installs nothing.                                                   *)
LEMMA ProcEnds ==
    ASSUME LauncherInv, NEW l \in Launchers, NEW why \in Reasons,
           \/ proc' = [proc EXCEPT ![l] = Ends(proc[l], why)]
           \/ proc' = [proc EXCEPT ![l] = Ended(proc[l], why)],
           UNCHANGED <<start, source, installed, hashFile, collided>>
    PROVE  LauncherInv'
<1>1. PICK x \in {Ends(proc[l], why), Ended(proc[l], why)} : proc' = [proc EXCEPT ![l] = x]
  OBVIOUS
<1>2. x \in ProcRecord /\ x.phase \in {"remove", "ended"} /\ x.server = "none" /\ x.deps = -1
  BY EndFacts, RecordFacts
<1>3. Supervised(x) /\ SameInstall(proc[l], x)
  BY <1>2 DEF Supervised, SameInstall, InstallPhases
<1> QED BY <1>1, <1>2, <1>3, QuietRecord

LEMMA EndingSteps ==
    ASSUME LauncherInv, NEW l \in Launchers, PipFails(l) \/ CleanExit(l) \/ Interrupt(l)
    PROVE  LauncherInv'
<1>1. UNCHANGED <<start, source, installed, hashFile, collided>>
  BY DEF PipFails, CleanExit, Interrupt, Fault, files, world
<1>2. CASE PipFails(l)
  BY <1>1, <1>2, ProcEnds, KnownReasons DEF PipFails
<1>3. CASE CleanExit(l)
  BY <1>1, <1>3, ProcEnds, KnownReasons DEF CleanExit
<1>4. CASE Interrupt(l)
  BY <1>1, <1>4, ProcEnds, KnownReasons DEF Interrupt
<1> QED BY <1>2, <1>3, <1>4

LEMMA WatchStep ==
    ASSUME LauncherInv, NEW l \in Launchers, Watch(l) PROVE LauncherInv'
<1>1. /\ proc[l].phase = "wait" /\ proc[l].server = "crashed"
      /\ UNCHANGED <<start, source, installed, hashFile, collided>>
  BY DEF Watch, files, world
<1>2. PICK kept \in 0 .. proc[l].crashes :
        \/ proc' = [proc EXCEPT ![l] = Ends(proc[l], "gave up")]
        \/ proc' = [proc EXCEPT ![l].phase = "pause", ![l].crashes = kept + 1]
  BY DEF Watch
<1>3. CASE proc' = [proc EXCEPT ![l] = Ends(proc[l], "gave up")]
  BY <1>1, <1>3, ProcEnds, KnownReasons
<1>4. CASE proc' = [proc EXCEPT ![l].phase = "pause", ![l].crashes = kept + 1]
  <2> DEFINE x == [proc[l] EXCEPT !.phase = "pause", !.crashes = kept + 1]
  <2>1. x \in ProcRecord /\ x.phase = "pause" /\ x.server = "crashed" /\ x.deps = -1
    <3>0. proc[l].crashes \in Nat
      BY RecordFacts DEF ProcRecord
    <3>1. kept + 1 \in Nat
      BY <3>0
    <3>2. "pause" \in Phases
      BY KnownPhases
    <3>3. proc[l].deps = -1
      BY <1>1, RecordFacts DEF Supervised
    <3> QED BY <1>1, <3>1, <3>2, <3>3, RecordFacts DEF ProcRecord
  <2>2. proc' = [proc EXCEPT ![l] = x]
    BY <1>4
  <2> HIDE DEF x
  <2>3. Supervised(x) /\ SameInstall(proc[l], x)
    BY <2>1 DEF Supervised, SameInstall, InstallPhases
  <2> QED BY <1>1, <2>1, <2>2, <2>3, QuietRecord
<1> QED BY <1>2, <1>3, <1>4

LEMMA DieStep ==
    ASSUME LauncherInv, NEW l \in Launchers, Die(l) PROVE LauncherInv'
<1> DEFINE x == Orphaned(proc[l], "died")
<1>1. proc' = [proc EXCEPT ![l] = x] /\ UNCHANGED <<start, source, installed, hashFile, collided>>
  BY DEF Die, files, Fault
<1>2. x \in ProcRecord /\ Supervised(x) /\ SameInstall(proc[l], x)
  BY RecordFacts, OrphanFacts
<1> HIDE DEF x
<1> QED BY <1>1, <1>2, QuietRecord

LEMMA OrphanPipStep ==
    ASSUME LauncherInv, NEW l \in Launchers, OrphanPip(l) PROVE LauncherInv'
<1> DEFINE x == [proc[l] EXCEPT !.deps = -1]
<1>1. /\ proc[l] \in ProcRecord /\ Supervised(proc[l]) /\ source \in Nat /\ proc[l].phase = "ended"
      /\ proc[l].deps # -1 /\ installed \in Int /\ hashFile \in Int /\ Installing(l)
  BY DEF LauncherInv, ProcsOK, FilesOK, OrphanPip, Installing
<1>2. /\ x \in ProcRecord /\ x.phase = "ended" /\ x.deps = -1
      /\ x.server = proc[l].server /\ x.why = proc[l].why
  <2>1. -1 \in Int
    OBVIOUS
  <2> QED BY <1>1, <2>1 DEF ProcRecord
<1>3. proc' = [proc EXCEPT ![l] = x]
  BY DEF OrphanPip
<1> HIDE DEF x
<1>4. Supervised(x)
  BY <1>1, <1>2 DEF Supervised
<1>5. /\ installed' \in {installed, proc[l].deps} /\ installed' \in Int
      /\ UNCHANGED <<start, source, hashFile, collided>>
  BY <1>1 DEF OrphanPip, ProcRecord, world
<1>6. ~collided => /\ hashFile <= installed' /\ installed' <= source
                     /\ ReadOK(x, source, installed', hashFile)
  <2> SUFFICES ASSUME ~collided
               PROVE  /\ hashFile <= installed' /\ installed' <= source
                      /\ ReadOK(x, source, installed', hashFile)
    OBVIOUS
  <2>1. ReadOK(proc[l], source, installed, hashFile) /\ hashFile <= installed /\ installed <= source
    BY DEF LauncherInv, InstallOK
  <2> QED BY <1>1, <1>2, <1>5, <2>1 DEF ReadOK
<1> QED BY <1>1, <1>2, <1>3, <1>4, <1>5, <1>6, InstallGoesOn

-----------------------------------------------------------------------------
(* LauncherInv holds in every reachable state. *)
THEOREM LauncherInvariant == LauncherSpec => []LauncherInv
<1>1. LauncherInit => LauncherInv
  <2> SUFFICES ASSUME LauncherInit PROVE LauncherInv
    OBVIOUS
  <2>1. \A l \in Launchers : proc[l] = Fresh
    BY DEF LauncherInit
  <2>2. ProcsOK
    BY <2>1, FreshFacts DEF LauncherInit, ProcsOK, Supervised
  <2>3. FilesOK /\ hashFile <= installed /\ installed <= source
    <3>1. source \in Nat /\ installed \in {source, -1} /\ hashFile = installed /\ collided = FALSE
      BY LauncherAssumption DEF LauncherInit
    <3>2. source \in Nat /\ installed \in Int /\ hashFile <= installed /\ installed <= source
      BY <3>1
    <3> QED BY <3>1, <3>2 DEF FilesOK
  <2>4. \A l \in Launchers : ~Installing(l) /\ ReadOK(proc[l], source, installed, hashFile)
    BY <2>1, FreshFacts DEF Installing, ReadOK
  <2> QED BY <2>2, <2>3, <2>4 DEF LauncherInv, InstallOK
<1>2. LauncherInv /\ [LauncherNext]_launcherVars => LauncherInv'
  <2> SUFFICES ASSUME LauncherInv, [LauncherNext]_launcherVars PROVE LauncherInv'
    OBVIOUS
  <2>1. CASE UNCHANGED launcherVars
    <3>1. UNCHANGED <<proc, start, source, installed, hashFile, collided>>
      BY <2>1 DEF launcherVars, files, world
    <3> QED BY <3>1 DEF LauncherInv, ProcsOK, FilesOK, InstallOK, Installing, Supervised
  <2>2. CASE Pull
    BY <2>2, PullStep
  <2>3. ASSUME NEW l \in Launchers, Step(l) PROVE LauncherInv'
    BY <2>3, CreateVenvStep, InstallDependenciesStep, PipStartsStep, PipStep, WriteHashStep,
       ReadPidFileStep, KillOldStep, UnlinkOldStep, GoSteps, FreePortStep, WatchStep,
       EndingSteps DEF Step
  <2>4. ASSUME NEW l \in Launchers, Server(l) PROVE LauncherInv'
    BY <2>4, BindStep, SelfRestartStep, OrphanPipStep DEF Server
  <2>5. ASSUME NEW l \in Launchers, Disturb(l) PROVE LauncherInv'
    BY <2>5, LaunchStep, RequestRestartStep, EndingSteps, ServerExitsStep, DieStep DEF Disturb
  <2> QED BY <2>1, <2>2, <2>3, <2>4, <2>5 DEF LauncherNext
<1> QED BY <1>1, <1>2, PTL DEF LauncherSpec

(* The hash on file is never ahead of what is installed, unless two        *)
(* installations ran at once: a later launch skips none that is needed.    *)
THEOREM HashStaysBehind == LauncherSpec => []HashNeverAhead
<1>1. LauncherInv => HashNeverAhead
  BY DEF LauncherInv, InstallOK, HashNeverAhead
<1> QED BY <1>1, LauncherInvariant, PTL

(* However many launchers replace one another, a server that listens or    *)
(* starts has its launcher waiting for it, unless that launcher was killed *)
(* without it: from outside, or on Windows by its successor.               *)
THEOREM ServersStaySupervised == LauncherSpec => []ServersAreSupervised
<1>1. LauncherInv => ServersAreSupervised
  BY DEF LauncherInv, ProcsOK, Supervised, ServersAreSupervised
<1> QED BY <1>1, LauncherInvariant, PTL

-----------------------------------------------------------------------------
(* The update poller.  What it compares are versions, and what it is about *)
(* to replace the pin by is newer than what it read; what it is about to   *)
(* write it has made of the text it read.                                  *)
Tagged == Nat \cup {Odd}
PollPhases == {"idle", "fetch", "mode", "notify", "emit", "bump", "write", "flag"}
PollRecord == [at : PollPhases, current : Tagged, latest : Tagged, saw : BOOLEAN,
               text : Tagged, updated : Tagged]
AboutToBump(x) ==
    /\ x.at \in {"bump", "write"} => IsNewer(x.current, x.latest)
    /\ x.at = "write" => x.updated \in Replaced(x.text, x.current, x.latest)
UpdateInv == /\ pin \in Tagged
             /\ poll \in [Pollers -> PollRecord]
             /\ \A p \in Pollers : AboutToBump(poll[p])

(* A finite set of versions has a highest one. *)
LEMMA MaxVersionExists ==
    ASSUME NEW S \in SUBSET Nat, IsFiniteSet(S), S # {}
    PROVE  Max(S) \in S
<1> DEFINE Above(x) == {y \in S : y > x}
           Counts == {Cardinality(Above(x)) : x \in S}
<1>1. \A x \in S : IsFiniteSet(Above(x)) /\ Cardinality(Above(x)) \in Nat
  BY FS_Subset, FS_CardinalityType
<1>2. PICK x \in S : \A z \in S : Cardinality(Above(x)) <= Cardinality(Above(z))
  <2>1. Counts \subseteq Nat /\ Counts # {}
    BY <1>1
  <2>2. PICK n \in Counts : \A m \in Counts : n <= m
    <3> DEFINE R == OpToRel(<, Nat)
    <3>1. IsWellFoundedOn(R, Nat)
      BY NatLessThanWellFounded
    <3>2. \A a, b \in Nat : a < b => <<a, b>> \in R
      BY DEF OpToRel
    <3> HIDE DEF R, Counts
    <3>3. PICK n \in Counts : \A m \in Counts : ~(<<m, n>> \in R)
      BY <2>1, <3>1, WFMin
    <3>4. ASSUME NEW m \in Counts PROVE n <= m
      <4>1. n \in Nat /\ m \in Nat /\ ~(m < n)
        BY <2>1, <3>2, <3>3
      <4> QED BY <4>1
    <3> QED BY <3>4
  <2> QED BY <2>2
<1>3. \A y \in S : x >= y
  <2> SUFFICES ASSUME NEW y \in S, y > x PROVE FALSE
    OBVIOUS
  <2>1. Above(y) \subseteq Above(x) /\ y \in Above(x) /\ y \notin Above(y)
    <3>1. \A z \in S : z \in Nat
      OBVIOUS
    <3>2. ~(y > y) /\ \A z \in S : z > y => z > x
      BY <3>1
    <3> QED BY <3>2
  <2>2. Cardinality(Above(y)) < Cardinality(Above(x))
    <3> HIDE DEF Above
    <3> QED BY <1>1, <2>1, FS_Subset
  <2> QED BY <1>1, <1>2, <2>2
<1> QED BY <1>3 DEF Max

(* _fetch_latest_from_tags finds a tag. *)
LEMMA LatestIsTagged ==
    ASSUME NEW tags \in SUBSET Tags, tags # {}
    PROVE  LatestTag(tags) \in Tagged
<1>1. CASE tags = {Odd}
  BY <1>1 DEF LatestTag, Tagged
<1>2. CASE tags # {Odd}
  <2>1. tags \ {Odd} \subseteq Nat /\ tags \ {Odd} # {} /\ IsFiniteSet(tags \ {Odd})
    BY <1>2, UpdateAssumption, FS_Subset
  <2>2. Max(tags \ {Odd}) \in tags \ {Odd}
    BY <2>1, MaxVersionExists
  <2> QED BY <1>2, <2>1, <2>2 DEF LatestTag, Tagged
<1> QED BY <1>1, <1>2

LEMMA UpdateInvNext == ASSUME UpdateInv, [Next]_vars PROVE UpdateInv'
<1> USE DEF PollRecord, PollPhases
<1>0. Resting \in PollRecord /\ Resting.at = "idle" /\ pin \in Tagged
  BY DEF Resting, Tagged, UpdateInv
<1>1. ASSUME NEW p \in Pollers, NEW x \in PollRecord, poll' = [poll EXCEPT ![p] = x], pin' \in Tagged,
             AboutToBump(x)
      PROVE  UpdateInv'
  BY <1>1 DEF UpdateInv
<1>2. ASSUME UNCHANGED <<pin, poll>> PROVE UpdateInv'
  BY <1>2 DEF UpdateInv
<1>3. ASSUME NEW p \in Pollers, poll' = [poll EXCEPT ![p] = Resting], UNCHANGED pin PROVE UpdateInv'
  BY <1>0, <1>1, <1>3 DEF AboutToBump
<1>4. ASSUME NEW p \in Pollers, NEW at \in PollPhases \ {"bump", "write"},
             poll' = [poll EXCEPT ![p].at = at], pin' \in Tagged
      PROVE  UpdateInv'
  <2> DEFINE x == [poll[p] EXCEPT !.at = at]
  <2>1. x \in PollRecord /\ x.at = at
    BY DEF UpdateInv
  <2>2. poll' = [poll EXCEPT ![p] = x]
    BY <1>4
  <2> HIDE DEF x
  <2> QED BY <1>1, <1>4, <2>1, <2>2 DEF AboutToBump
<1>5. ASSUME NEW p \in Pollers, ReadPin(p) PROVE UpdateInv'
  <2> DEFINE x == [Resting EXCEPT !.at = "fetch", !.current = pin]
  <2>1. x \in PollRecord /\ x.at = "fetch"
    BY <1>0 DEF Resting, Tagged
  <2>2. poll' = [poll EXCEPT ![p] = x] /\ UNCHANGED pin
    BY <1>5 DEF ReadPin
  <2> HIDE DEF x
  <2> QED BY <1>0, <1>1, <2>1, <2>2 DEF AboutToBump
<1>6. ASSUME NEW p \in Pollers, FetchLatest(p) PROVE UpdateInv'
  <2>1. ASSUME NEW tag \in Tags \cup {LatestTag(tags) : tags \in (SUBSET Tags) \ {{}}} PROVE tag \in Tagged
    BY LatestIsTagged, UpdateAssumption DEF Tagged
  <2>2. CASE poll' = [poll EXCEPT ![p] = Resting]
    BY <1>3, <1>6, <2>2 DEF FetchLatest
  <2>3. ASSUME NEW tag \in Tagged, poll' = [poll EXCEPT ![p].at = "mode", ![p].latest = tag] PROVE UpdateInv'
    <3> DEFINE x == [poll[p] EXCEPT !.at = "mode", !.latest = tag]
    <3>1. x \in PollRecord /\ x.at = "mode"
      BY <2>3 DEF UpdateInv
    <3>2. poll' = [poll EXCEPT ![p] = x] /\ UNCHANGED pin
      BY <1>6, <2>3 DEF FetchLatest
    <3> HIDE DEF x
    <3> QED BY <1>0, <1>1, <3>1, <3>2 DEF AboutToBump
  <2> QED BY <1>6, <2>1, <2>2, <2>3 DEF FetchLatest
<1>7. ASSUME NEW p \in Pollers, Decide(p) PROVE UpdateInv'
  <2>1. UNCHANGED pin /\ \/ poll' = [poll EXCEPT ![p] = Resting]
                         \/ PollGo(p, "bump") /\ IsNewer(poll[p].current, poll[p].latest)
                         \/ PollGo(p, "notify")
    BY <1>7 DEF Decide
  <2>2. CASE PollGo(p, "bump") /\ IsNewer(poll[p].current, poll[p].latest)
    <3> DEFINE x == [poll[p] EXCEPT !.at = "bump"]
    <3>1. /\ x \in PollRecord /\ x.at = "bump" /\ x.current = poll[p].current
          /\ x.latest = poll[p].latest
      BY DEF UpdateInv
    <3>2. poll' = [poll EXCEPT ![p] = x]
      BY <2>2 DEF PollGo
    <3> HIDE DEF x
    <3> QED BY <1>0, <1>1, <2>1, <2>2, <3>1, <3>2 DEF AboutToBump
  <2>3. CASE PollGo(p, "notify")
    BY <1>0, <1>4, <2>1, <2>3 DEF PollGo
  <2> QED BY <1>3, <2>1, <2>2, <2>3
<1>8. ASSUME NEW p \in Pollers, LookPending(p) PROVE UpdateInv'
  <2> DEFINE x == [poll[p] EXCEPT !.at = "emit", !.saw = Has(rows["global"], PendingKey)]
  <2>1. x \in PollRecord /\ x.at = "emit"
    BY DEF UpdateInv, Has
  <2>2. poll' = [poll EXCEPT ![p] = x] /\ UNCHANGED pin
    BY <1>8 DEF LookPending
  <2> HIDE DEF x
  <2> QED BY <1>0, <1>1, <2>1, <2>2 DEF AboutToBump
<1>9. ASSUME NEW p \in Pollers, EmitNotify(p) \/ Stop(p) PROVE UpdateInv'
  BY <1>3, <1>9 DEF EmitNotify, Stop
<1>10. ASSUME NEW p \in Pollers, BumpRead(p) PROVE UpdateInv'
  <2>1. poll[p].at = "bump" /\ poll[p] \in PollRecord /\ AboutToBump(poll[p]) /\ UNCHANGED pin
    BY <1>10 DEF BumpRead, UpdateInv
  <2>2. CASE poll' = [poll EXCEPT ![p] = Resting]
    BY <1>3, <2>1, <2>2
  <2>3. ASSUME NEW updated \in Replaced(pin, poll[p].current, poll[p].latest),
               poll' = [poll EXCEPT ![p].at = "write", ![p].text = pin, ![p].updated = updated]
        PROVE  UpdateInv'
    <3> DEFINE x == [poll[p] EXCEPT !.at = "write", !.text = pin, !.updated = updated]
    <3>1. updated \in Tagged
      BY <1>0, <2>1, <2>3, UpdateAssumption DEF Replaced, Tagged
    <3>2. /\ x \in PollRecord /\ x.at = "write" /\ x.current = poll[p].current
          /\ x.latest = poll[p].latest /\ x.text = pin /\ x.updated = updated
      BY <1>0, <2>1, <3>1
    <3>3. poll' = [poll EXCEPT ![p] = x]
      BY <2>3
    <3> HIDE DEF x
    <3>4. AboutToBump(x)
      BY <2>1, <2>3, <3>2 DEF AboutToBump
    <3> QED BY <1>0, <1>1, <2>1, <3>2, <3>3, <3>4
  <2> QED BY <1>10, <2>2, <2>3 DEF BumpRead
<1>13. ASSUME NEW p \in Pollers, BumpWrite(p) PROVE UpdateInv'
  <2>1. pin' \in Tagged
    BY <1>13 DEF BumpWrite, UpdateInv
  <2> QED BY <1>4, <1>13, <2>1 DEF BumpWrite, PollGo
<1>11. ASSUME NEW p \in Pollers, TouchRebuildFlag(p) PROVE UpdateInv'
  BY <1>3, <1>11 DEF TouchRebuildFlag
<1>12. CASE Rebuild \/ SyncMode \/ (SettingsNext /\ UNCHANGED updateVars) \/ UNCHANGED vars
  BY <1>2, <1>12 DEF Rebuild, SyncMode, updateVars, vars
<1> QED BY <1>5, <1>6, <1>7, <1>8, <1>9, <1>10, <1>11, <1>12, <1>13 DEF Next, UpdateNext

LEMMA UpdateInvariant == Spec => []UpdateInv
<1>1. Init => UpdateInv
  BY DEF Init, UpdateInit, UpdateInv, AboutToBump, Tagged, PollRecord, PollPhases, Resting
<1> QED BY <1>1, UpdateInvNext, PTL DEF Spec

(* _is_newer, _bump_pin: however many polls compare and replace a pin that *)
(* they read long before, only one that writes over another's bump, or     *)
(* replaces the beginning of a longer tag, takes the pin to a lower one.   *)
THEOREM PinLoweredByRaces == Spec => OnlyRacesLowerThePin
<1>1. UpdateInv /\ [Next]_vars
         => [pin # Odd /\ pin' # Odd => pin' >= pin \/ \E p \in Pollers : Races(p)]_vars
  <2> SUFFICES ASSUME UpdateInv, [Next]_vars, UpdateInv', pin # Odd, pin' # Odd,
                      \A p \in Pollers : ~Races(p)
               PROVE  pin' >= pin
    BY UpdateInvNext
  <2>0. pin \in Nat /\ pin' \in Nat
    BY DEF UpdateInv, Tagged
  <2>1. CASE UNCHANGED pin
    BY <2>0, <2>1
  <2>2. ASSUME NEW p \in Pollers, BumpWrite(p), pin' # pin PROVE pin' >= pin
    <3>1. /\ poll[p].at = "write" /\ pin' = poll[p].updated /\ AboutToBump(poll[p])
          /\ pin = poll[p].text /\ <<poll[p].current, poll[p].text>> \notin Begins
      BY <2>2 DEF BumpWrite, UpdateInv, Races
    <3>2. IsNewer(poll[p].current, poll[p].latest) /\ pin = poll[p].current /\ pin' = poll[p].latest
      BY <2>2, <3>1 DEF AboutToBump, Replaced
    <3> QED BY <2>0, <3>2 DEF IsNewer
  <2>3. UNCHANGED pin \/ \E p \in Pollers : BumpWrite(p)
    BY DEF Next, UpdateNext, vars, updateVars, ReadPin, FetchLatest, Decide, LookPending, EmitNotify,
           BumpRead, TouchRebuildFlag, Stop, Rebuild, SyncMode
  <2> QED BY <2>1, <2>2, <2>3
<1> QED BY <1>1, UpdateInvariant, PTL DEF Spec, OnlyRacesLowerThePin

(* check_once: a pin that was bumped is built, or the flag asks for it, or *)
(* the poller is about to, unless one ended between the two.               *)
THEOREM BumpsStayOrdered == Spec => []BumpsAreRebuilt
<1>1. Init => BumpsAreRebuilt
  BY DEF Init, UpdateInit, BumpsAreRebuilt
<1>2. UpdateInv /\ BumpsAreRebuilt /\ [Next]_vars => BumpsAreRebuilt'
  <2> SUFFICES ASSUME UpdateInv, BumpsAreRebuilt, [Next]_vars PROVE BumpsAreRebuilt'
    OBVIOUS
  <2> USE DEF BumpsAreRebuilt
  <2>1. CASE UNCHANGED updateVars
    BY <2>1 DEF updateVars
  <2>2. CASE Rebuild
    BY <2>2 DEF Rebuild
  <2>3. ASSUME NEW p \in Pollers, BumpWrite(p) PROVE BumpsAreRebuilt'
    BY <2>3 DEF BumpWrite, PollGo, UpdateInv, PollRecord
  <2>4. ASSUME NEW p \in Pollers, TouchRebuildFlag(p) PROVE BumpsAreRebuilt'
    BY <2>4 DEF TouchRebuildFlag
  <2>5. ASSUME NEW p \in Pollers, Stop(p) PROVE BumpsAreRebuilt'
    BY <2>5 DEF Stop, UpdateInv
  <2>6. ASSUME NEW p \in Pollers,
               ReadPin(p) \/ FetchLatest(p) \/ Decide(p) \/ LookPending(p) \/ EmitNotify(p) \/ BumpRead(p)
        PROVE  BumpsAreRebuilt'
    <3>1. UNCHANGED <<pin, flag, built, lost>> /\ poll[p].at # "flag"
      BY <2>6 DEF ReadPin, FetchLatest, Decide, LookPending, EmitNotify, BumpRead
    <3>2. \A q \in Pollers : q # p => poll'[q] = poll[q]
      BY <2>6 DEF ReadPin, FetchLatest, Decide, LookPending, EmitNotify, BumpRead, PollGo, UpdateInv
    <3> QED BY <3>1, <3>2
  <2>7. CASE SyncMode
    <3>1. UNCHANGED <<pin, flag, built, lost, poll>>
      BY <2>7 DEF SyncMode
    <3> QED BY <3>1
  <2> QED BY <2>1, <2>2, <2>3, <2>4, <2>5, <2>6, <2>7 DEF Next, UpdateNext, vars
<1> QED BY <1>1, <1>2, UpdateInvariant, PTL DEF Spec

-----------------------------------------------------------------------------
(* The settings.  Values and tables. *)
Texts   == {"", "local", "sso", "bad", "on", "25", "30", "junk"} \cup Modes
Secrets == {"", Mask, "k", "p"}
Value   == [text : Texts, secret : Secrets]
Fields  == UNION {Schema[scope] : scope \in Scopes}
Maps    == UNION {[K -> Value] : K \in SUBSET Fields}
TableOK == /\ rows = [scope \in Scopes |-> rows[scope]]
           /\ \A scope \in Scopes : rows[scope] \in [TableKeys(scope) -> Seq(Value)]

(* The first row of the password, as resolve and set_global read it. *)
Password == LET own == rows["global"]["smtp_password"] IN IF own = <<>> THEN "" ELSE own[1].secret
Shown == {"", Mask}

(* What a request has read.  A patch that is left to write never carries   *)
(* the mask; a query that has not answered has seen every endpoint that    *)
(* was enabled while it ran.                                               *)
ReqRecord == [at : {"idle", "read", "password", "look", "save", "load", "apply"},
              kind : {"", "patch", "ai"} \cup Queries, scope : Scopes \cup {""},
              patch : Maps, current : Maps, saw : BOOLEAN, on : BOOLEAN, stale : BOOLEAN,
              answer : {"", "endpoint", "claude_cli", "none"}]
Writing(x) == x.at \in {"read", "password", "look", "save"}
RequestOK(x) ==
    /\ x \in ReqRecord
    /\ Writing(x) => /\ x.scope \in Scopes /\ x.kind \notin Queries
                     /\ "smtp_password" \in DOMAIN x.patch => x.patch["smtp_password"].secret \notin Shown
    /\ x.at = "password" => x.scope = "global" /\ x.current \in [Schema["global"] -> Value]
    /\ x.at \in {"look", "save"} => x.current \in [Schema[x.scope] -> Value]
    /\ x.at \in {"load", "apply"} => x.kind \in {"ai"} \cup Queries
    /\ x.at = "apply" /\ x.kind \in Queries /\ x.current["ai_endpoint"].text = "on" => x.on
    /\ x.answer = "endpoint" => x.on \/ x.stale

(* A query that is under way, and one patch at a time for each scope. *)
Seen(x) == x.kind \in Queries /\ x.at # "idle" /\ EndpointOn => x.on
Alone == ~overlapped => \A r, q \in Requests :
            Writing(req[r]) /\ Writing(req[q]) /\ req[r].scope = req[q].scope => r = q

(* What is about to be written over a password is one. *)
Keeps(x) == x.scope = "global" /\ x.at \in {"look", "save"} /\ Password \notin Shown
                => x.current["smtp_password"].secret \notin Shown

SettingsInv == /\ TableOK /\ overlapped \in BOOLEAN /\ req = [r \in Requests |-> req[r]]
               /\ \A r \in Requests : RequestOK(req[r]) /\ Seen(req[r])
               /\ Alone
               /\ ~overlapped => \A r \in Requests : Keeps(req[r])

LEMMA SchemaFacts ==
    /\ Scopes = {"global", "tenant", "user"}
    /\ Schema["global"] = {"auth_providers", "smtp_password", "ai_endpoint"}
    /\ Schema["tenant"] = {"retention_days"} /\ Schema["user"] = {"page_size"}
    /\ First["global"] = "auth_providers"
    /\ \A scope \in Scopes : Schema[scope] \in SUBSET Fields /\ Schema[scope] \subseteq TableKeys(scope)
<1>1. Scopes = {"global", "tenant", "user"}
  BY DEF Scopes, Schema
<1>2. /\ Schema["global"] = {"auth_providers", "smtp_password", "ai_endpoint"}
      /\ Schema["tenant"] = {"retention_days"} /\ Schema["user"] = {"page_size"}
  BY DEF Schema
<1>3. First["global"] = "auth_providers"
  BY DEF First
<1>4. \A scope \in Scopes : Schema[scope] \in SUBSET Fields
  BY DEF Fields
<1>5. \A scope \in Scopes : Schema[scope] \subseteq TableKeys(scope)
  BY DEF TableKeys
<1> QED BY <1>1, <1>2, <1>3, <1>4, <1>5

LEMMA ValueFacts ==
    /\ \A text \in Texts, secret \in Secrets :
          /\ V(text, secret) \in Value /\ V(text, secret).text = text
          /\ V(text, secret).secret = secret
    /\ \A key : Default(key) \in Value
    /\ Mask \in Secrets /\ Mask # ""
<1>1. \A text \in Texts, secret \in Secrets :
          /\ V(text, secret) \in Value /\ V(text, secret).text = text
          /\ V(text, secret).secret = secret
  BY DEF V, Value
<1>2. Mask \in Secrets /\ Mask # ""
  BY DEF Secrets, Mask
<1>3. ASSUME NEW key PROVE Default(key) \in Value
  <2>1. V("local", "") \in Value /\ V("off", "") \in Value /\ V("25", "") \in Value /\ V("", "") \in Value
    BY <1>1 DEF Texts, Modes, Secrets
  <2> QED BY <2>1 DEF Default
<1> QED BY <1>1, <1>2, <1>3

LEMMA InMaps ==
    ASSUME NEW K \in SUBSET Fields, NEW f \in [K -> Value]
    PROVE  f \in Maps /\ DOMAIN f = K
BY DEF Maps

LEMMA OutOfMaps ==
    ASSUME NEW f \in Maps
    PROVE  /\ DOMAIN f \in SUBSET Fields /\ f \in [DOMAIN f -> Value]
           /\ \A key \in DOMAIN f : f[key] \in Value
BY DEF Maps

(* get_global, get_tenant, get_user return values, and get_global the      *)
(* endpoint as it is stored.                                               *)
LEMMA ReadFacts ==
    ASSUME TableOK
    PROVE  /\ \A scope \in Scopes : GetScope(scope) \in [Schema[scope] -> Value]
           /\ GetScope("global")["ai_endpoint"].text = "on" <=> EndpointOn
<1>1. ASSUME NEW scope \in Scopes PROVE Stored(scope) \in [Schema[scope] -> Value]
  <2> SUFFICES ASSUME NEW key \in Schema[scope], NEW own, own = rows[scope][key]
               PROVE  (IF own = <<>> THEN Default(key) ELSE own[Len(own)]) \in Value
    BY DEF Stored
  <2>1. own \in Seq(Value)
    BY SchemaFacts DEF TableOK
  <2>2. own # <<>> => own[Len(own)] \in Value
    BY <2>1
  <2> QED BY <2>2, ValueFacts
<1>2. ASSUME NEW values \in [Schema["global"] -> Value]
      PROVE  /\ Masked(values) \in [Schema["global"] -> Value]
             /\ Masked(values)["ai_endpoint"] = values["ai_endpoint"]
  <2>1. V("", Mask) \in Value
    <3>1. "" \in Texts
      BY DEF Texts
    <3> QED BY <3>1, ValueFacts
  <2>2. DOMAIN values = Schema["global"] /\ "ai_endpoint" \in Schema["global"]
    BY SchemaFacts
  <2> QED BY <2>1, <2>2 DEF Masked
<1>3. \A scope \in Scopes : GetScope(scope) = IF scope = "global" THEN Masked(Stored(scope)) ELSE Stored(scope)
  BY DEF GetScope
<1>4. "global" \in Scopes
  BY SchemaFacts
<1> QED BY <1>1, <1>2, <1>3, <1>4 DEF EndpointOn

(* resolve finds the row that set_global looks for: only the global scope  *)
(* has a password.                                                         *)
LEMMA PasswordResolved == ASSUME TableOK PROVE Resolve("smtp_password").secret = Password
<1>1. /\ DOMAIN rows["user"] = TableKeys("user") /\ DOMAIN rows["tenant"] = TableKeys("tenant")
      /\ DOMAIN rows["global"] = TableKeys("global")
  BY SchemaFacts DEF TableOK
<1>2. /\ "smtp_password" \notin TableKeys("user") /\ "smtp_password" \notin TableKeys("tenant")
      /\ "smtp_password" \in TableKeys("global")
  BY SchemaFacts DEF TableKeys
<1>3. Default("smtp_password").secret = ""
  BY DEF Default, V
<1> QED BY <1>1, <1>2, <1>3 DEF Resolve, Has, Get, Password

LEMMA UpsertType ==
    ASSUME NEW own \in Seq(Value), NEW v \in Value, NEW exists \in BOOLEAN
    PROVE  Upsert(own, v, exists) \in Seq(Value)
<1>1. Append(own, v) \in Seq(Value)
  OBVIOUS
<1>2. [own EXCEPT ![1] = v] \in Seq(Value)
  <2>1. CASE own = <<>>
    <3>1. DOMAIN own = {}
      BY <2>1
    <3>2. [own EXCEPT ![1] = v] = own
      BY <3>1
    <3> QED BY <3>2
  <2>2. CASE own # <<>>
    <3>1. 1 \in 1..Len(own)
      BY <2>2
    <3> QED BY <3>1, ExceptSeq
  <2> QED BY <2>1, <2>2
<1> QED BY <1>1, <1>2 DEF Upsert

(* A step of one request that leaves the table alone. *)
LEMMA QuietRequest ==
    ASSUME SettingsInv, NEW r \in Requests, NEW x, req' = [req EXCEPT ![r] = x],
           RequestOK(x), Seen(x), UNCHANGED rows,
           overlapped' \in BOOLEAN, overlapped => overlapped',
           ~overlapped' => Keeps(x),
           ~overlapped' /\ Writing(x) => \A q \in Requests \ {r} :
                Writing(req[q]) => req[q].scope # x.scope
    PROVE  SettingsInv'
<1>1. req'[r] = x /\ req' = [q \in Requests |-> req'[q]]
  BY DEF SettingsInv
<1>2. \A q \in Requests : q # r => req'[q] = req[q]
  BY DEF SettingsInv
<1>3. TableOK' /\ (EndpointOn' <=> EndpointOn) /\ Password' = Password
  BY DEF SettingsInv, TableOK, EndpointOn, Stored, Password
<1>4. \A q \in Requests : RequestOK(req'[q]) /\ Seen(req[q])' /\ (~overlapped' => Keeps(req[q])')
  BY <1>1, <1>2, <1>3 DEF SettingsInv, Seen, Keeps
<1>5. Alone'
  BY <1>1, <1>2 DEF SettingsInv, Alone
<1>6. (\A q \in Requests : RequestOK(req[q]))'
  BY <1>4
<1> QED BY <1>1, <1>3, <1>4, <1>5, <1>6 DEF SettingsInv

LEMMA IdleFacts ==
    /\ RequestOK(Idle) /\ Seen(Idle) /\ Keeps(Idle) /\ ~Writing(Idle)
    /\ Empty \in Maps /\ DOMAIN Empty = {}
<1>1. Empty \in Maps /\ DOMAIN Empty = {}
  <2>1. Empty \in [{} -> Value] /\ {} \in SUBSET Fields
    BY DEF Empty
  <2> QED BY <2>1, InMaps
<1>2. Idle \in ReqRecord
  BY <1>1 DEF Idle, ReqRecord
<1>3. /\ Idle.at = "idle" /\ Idle.kind = "" /\ Idle.answer = ""
      /\ ~Writing(Idle)
  BY DEF Idle, Writing
<1> QED BY <1>1, <1>2, <1>3 DEF RequestOK, Seen, Keeps

(* What clients send, by kind and scope. *)
LEMMA GlobalPatches ==
    ASSUME NEW kind, NEW scope, kind # "ai", scope = "global"
    PROVE  Patches(kind, scope) =
              {[key \in {"auth_providers"} |-> V(text, "")] : text \in {"sso", "bad"}}
                 \cup {[key \in {"smtp_password"} |-> V("", secret)] : secret \in {"", Mask, "p"}}
BY DEF Patches

LEMMA OtherPatches ==
    ASSUME NEW kind, NEW scope, ~(kind = "ai"), ~(scope = "global")
    PROVE  Patches(kind, scope) = {[key \in Schema[scope] |-> V(text, "")] : text \in {"30", "bad"}}
BY Z3 DEF Patches

(* What clients send, and what is left of it. *)
LEMMA PatchFacts ==
    ASSUME NEW kind, NEW scope \in Scopes, NEW patch \in Patches(kind, scope)
    PROVE  /\ StripPassword(IF kind = "ai" THEN StripKey(patch) ELSE patch) \in Maps
           /\ LET left == StripPassword(IF kind = "ai" THEN StripKey(patch) ELSE patch)
              IN  "smtp_password" \in DOMAIN left => left["smtp_password"].secret \notin Shown
<1>1. patch \in Maps
  <2>1. /\ {"ai_endpoint"} \in SUBSET Fields /\ {"auth_providers"} \in SUBSET Fields
        /\ {"smtp_password"} \in SUBSET Fields /\ Schema[scope] \in SUBSET Fields
    BY SchemaFacts
  <2>2. CASE kind = "ai"
    <3>1. PICK text \in {"on", "off"}, secret \in {Mask, "k"} :
             patch = [key \in {"ai_endpoint"} |-> V(text, secret)]
      <4>1. Patches(kind, scope) = {[key \in {"ai_endpoint"} |-> V(text, secret)] :
                                        text \in {"on", "off"}, secret \in {Mask, "k"}}
        BY <2>2 DEF Patches
      <4> QED BY <4>1
    <3>2. V(text, secret) \in Value
      BY ValueFacts DEF Texts, Modes, Secrets
    <3> QED BY <2>1, <3>1, <3>2, InMaps
  <2>3. CASE kind # "ai" /\ scope = "global"
    <3>1. \/ \E text \in {"sso", "bad"} : patch = [key \in {"auth_providers"} |-> V(text, "")]
          \/ \E secret \in {"", Mask, "p"} : patch = [key \in {"smtp_password"} |-> V("", secret)]
      <4>1. Patches(kind, scope) =
               {[key \in {"auth_providers"} |-> V(text, "")] : text \in {"sso", "bad"}}
                  \cup {[key \in {"smtp_password"} |-> V("", secret)] : secret \in {"", Mask, "p"}}
        BY <2>3, GlobalPatches
      <4> QED BY <4>1
    <3>2. \A text \in {"sso", "bad"} : V(text, "") \in Value
      BY ValueFacts DEF Texts, Secrets
    <3>3. \A secret \in {"", Mask, "p"} : V("", secret) \in Value
      BY ValueFacts DEF Texts, Secrets
    <3>4. ASSUME NEW text \in {"sso", "bad"}, patch = [key \in {"auth_providers"} |-> V(text, "")]
          PROVE  patch \in [{"auth_providers"} -> Value]
      BY <3>2, <3>4
    <3>5. ASSUME NEW secret \in {"", Mask, "p"}, patch = [key \in {"smtp_password"} |-> V("", secret)]
          PROVE  patch \in [{"smtp_password"} -> Value]
      BY <3>3, <3>5
    <3> QED BY <2>1, <3>1, <3>4, <3>5, InMaps
  <2>4. CASE kind # "ai" /\ scope # "global"
    <3>1. PICK text \in {"30", "bad"} : patch = [key \in Schema[scope] |-> V(text, "")]
      <4>1. Patches(kind, scope) = {[key \in Schema[scope] |-> V(text, "")] : text \in {"30", "bad"}}
        BY <2>4, OtherPatches
      <4> QED BY <4>1
    <3>2. V(text, "") \in Value
      BY ValueFacts DEF Texts, Secrets
    <3> QED BY <2>1, <3>1, <3>2, InMaps
  <2> QED BY <2>2, <2>3, <2>4
<1>2. StripKey(patch) \in Maps
  <2>1. \A key \in DOMAIN patch : patch[key] \in Value /\ patch[key].text \in Texts
    BY <1>1, OutOfMaps DEF Value
  <2>2. "" \in Secrets
    BY DEF Secrets
  <2>3. \A key \in DOMAIN patch : V(patch[key].text, "") \in Value
    BY <2>1, <2>2, ValueFacts
  <2>4. StripKey(patch) \in [DOMAIN patch -> Value]
    BY <2>1, <2>3 DEF StripKey
  <2> QED BY <1>1, <2>4, InMaps, OutOfMaps
<1>3. ASSUME NEW sent \in Maps
      PROVE  /\ StripPassword(sent) \in Maps
             /\ "smtp_password" \in DOMAIN StripPassword(sent)
                    => StripPassword(sent)["smtp_password"].secret \notin Shown
  BY IdleFacts DEF StripPassword, Shown
<1> QED BY <1>1, <1>2, <1>3

LEMMA BeginPatchStep ==
    ASSUME SettingsInv, NEW r \in Requests, NEW kind \in {"patch", "ai"}, NEW scope \in Scopes,
           BeginPatch(r, kind, scope)
    PROVE  SettingsInv'
<1>1. PICK patch \in Patches(kind, scope) :
         req' = [req EXCEPT ![r] = [Idle EXCEPT !.at = "read", !.kind = kind, !.scope = scope,
                      !.patch = StripPassword(IF kind = "ai" THEN StripKey(patch) ELSE patch)]]
  BY DEF BeginPatch
<1> DEFINE left == StripPassword(IF kind = "ai" THEN StripKey(patch) ELSE patch)
           x == [Idle EXCEPT !.at = "read", !.kind = kind, !.scope = scope, !.patch = left]
<1>2. left \in Maps /\ ("smtp_password" \in DOMAIN left => left["smtp_password"].secret \notin Shown)
  BY PatchFacts
<1> HIDE DEF left
<1>3. /\ x.at = "read" /\ x.kind = kind /\ x.scope = scope /\ x.patch = left /\ x.answer = ""
      /\ x.current = Empty /\ x.saw = FALSE /\ x.on = FALSE /\ x.stale = FALSE
      /\ DOMAIN x = {"at", "kind", "scope", "patch", "current", "saw", "on", "stale", "answer"}
  BY DEF Idle
<1>4. x \in ReqRecord
  <2>1. Idle \in ReqRecord
    BY IdleFacts DEF RequestOK
  <2> QED BY <1>2, <2>1, IdleFacts DEF ReqRecord
<1>5. req' = [req EXCEPT ![r] = x]
  BY <1>1 DEF left
<1> HIDE DEF x
<1>6. RequestOK(x) /\ Seen(x) /\ Keeps(x)
  BY <1>2, <1>3, <1>4 DEF RequestOK, Seen, Keeps, Queries
<1>7. /\ UNCHANGED rows /\ overlapped' \in BOOLEAN /\ (overlapped => overlapped')
      /\ ~overlapped' => \A q \in Requests : ~(Patching(q) /\ req[q].scope = scope)
  BY DEF BeginPatch, SettingsInv
<1>8. ~overlapped' => \A q \in Requests \ {r} : Writing(req[q]) => req[q].scope # x.scope
  BY <1>3, <1>7 DEF Patching, Writing
<1> QED BY <1>5, <1>6, <1>7, <1>8, QuietRequest

(* A patch merged into what was read, and validated. *)
LEMMA MergedFacts ==
    ASSUME SettingsInv, NEW r \in Requests, Writing(req[r]),
           NEW K, NEW current \in [K -> Value]
    PROVE  /\ Merged(r, current) \in [K -> Value]
           /\ "smtp_password" \in K /\ current["smtp_password"].secret \notin Shown
                => Merged(r, current)["smtp_password"].secret \notin Shown
<1>1. req[r].patch \in Maps /\ ("smtp_password" \in DOMAIN req[r].patch
                                    => req[r].patch["smtp_password"].secret \notin Shown)
  BY DEF SettingsInv, RequestOK, ReqRecord
<1>2. \A key \in DOMAIN req[r].patch : req[r].patch[key] \in Value
  BY <1>1, OutOfMaps
<1>3. Merged(r, current) = [key \in K |-> IF key \in DOMAIN req[r].patch THEN req[r].patch[key] ELSE current[key]]
  BY DEF Merged
<1> QED BY <1>1, <1>2, <1>3

LEMMA ValidateStep ==
    ASSUME SettingsInv, NEW r \in Requests, Writing(req[r]),
           NEW merged \in [Schema[req[r].scope] -> Value], Validate(r, merged),
           req[r].scope = "global" /\ Password \notin Shown => merged["smtp_password"].secret \notin Shown,
           UNCHANGED <<rows, overlapped>>
    PROVE  SettingsInv'
<1> DEFINE x == [req[r] EXCEPT !.at = "look", !.current = merged]
<1>1. req' = [req EXCEPT ![r] = x] \/ req' = [req EXCEPT ![r] = Idle]
  BY DEF Validate
<1>2. RequestOK(req[r]) /\ req[r] \in ReqRecord /\ req[r].scope \in Scopes
  BY DEF SettingsInv, RequestOK
<1>3. merged \in Maps
  BY <1>2, SchemaFacts, InMaps
<1>4. /\ x \in ReqRecord /\ x.at = "look" /\ x.current = merged
      /\ x.kind = req[r].kind /\ x.scope = req[r].scope /\ x.patch = req[r].patch
      /\ x.on = req[r].on /\ x.answer = req[r].answer /\ x.stale = req[r].stale
  BY <1>2, <1>3 DEF ReqRecord
<1> HIDE DEF x
<1>5. RequestOK(x) /\ Seen(x) /\ Keeps(x) /\ Writing(x)
  BY <1>2, <1>4 DEF RequestOK, Seen, Keeps, Writing
<1>6. overlapped' \in BOOLEAN /\ (overlapped => overlapped') /\ UNCHANGED rows
  BY DEF SettingsInv
<1>7. ~overlapped' => \A q \in Requests \ {r} : Writing(req[q]) => req[q].scope # x.scope
  BY <1>4 DEF SettingsInv, Alone
<1>8. CASE req' = [req EXCEPT ![r] = x]
  BY <1>5, <1>6, <1>7, <1>8, QuietRequest
<1>9. CASE req' = [req EXCEPT ![r] = Idle]
  BY <1>6, <1>9, IdleFacts, QuietRequest
<1> QED BY <1>1, <1>8, <1>9

LEMMA ReadCurrentStep == ASSUME SettingsInv, NEW r \in Requests, ReadCurrent(r) PROVE SettingsInv'
<1>1. /\ req[r].at = "read" /\ Writing(req[r]) /\ req[r].scope \in Scopes /\ TableOK
      /\ UNCHANGED <<rows, overlapped>> /\ RequestOK(req[r]) /\ req[r] \in ReqRecord
  BY DEF ReadCurrent, Writing, SettingsInv, RequestOK
<1>2. CASE req[r].scope = "global"
  <2> DEFINE x == [req[r] EXCEPT !.at = "password", !.current = GetScope("global")]
  <2>1. GetScope("global") \in [Schema["global"] -> Value] /\ GetScope("global") \in Maps
    BY <1>1, ReadFacts, SchemaFacts, InMaps
  <2>2. req' = [req EXCEPT ![r] = x]
    BY <1>2 DEF ReadCurrent
  <2>3. /\ x \in ReqRecord /\ x.at = "password" /\ x.current = GetScope("global")
        /\ x.kind = req[r].kind /\ x.scope = req[r].scope /\ x.patch = req[r].patch
        /\ x.on = req[r].on /\ x.answer = req[r].answer /\ x.stale = req[r].stale
    BY <1>1, <2>1 DEF ReqRecord
  <2> HIDE DEF x
  <2>4. RequestOK(x) /\ Seen(x) /\ Keeps(x)
    BY <1>1, <1>2, <2>1, <2>3 DEF RequestOK, Seen, Keeps, Writing
  <2>5. ~overlapped' => \A q \in Requests \ {r} : Writing(req[q]) => req[q].scope # x.scope
    BY <1>1, <2>3 DEF SettingsInv, Alone
  <2>6. overlapped' \in BOOLEAN /\ (overlapped => overlapped') /\ UNCHANGED rows
    BY <1>1 DEF SettingsInv
  <2> QED BY <2>2, <2>4, <2>5, <2>6, QuietRequest
<1>3. CASE req[r].scope # "global"
  <2>1. GetScope(req[r].scope) \in [Schema[req[r].scope] -> Value]
    BY <1>1, ReadFacts
  <2>2. Merged(r, GetScope(req[r].scope)) \in [Schema[req[r].scope] -> Value]
    BY <1>1, <2>1, MergedFacts
  <2>3. Validate(r, Merged(r, GetScope(req[r].scope)))
    BY <1>3 DEF ReadCurrent
  <2> QED BY <1>1, <1>3, <2>2, <2>3, ValidateStep
<1> QED BY <1>2, <1>3

(* The mask that get_global put over the password is taken off. *)
LEMMA ReadPasswordStep == ASSUME SettingsInv, NEW r \in Requests, ReadPassword(r) PROVE SettingsInv'
<1> DEFINE stored == IF Has(rows["global"], "smtp_password") THEN Get(rows["global"], "smtp_password") ELSE V("", "")
           current == [req[r].current EXCEPT !["smtp_password"] = stored]
<1>1. /\ Writing(req[r]) /\ req[r].scope = "global" /\ TableOK
      /\ UNCHANGED <<rows, overlapped>> /\ req[r].current \in [Schema["global"] -> Value]
  BY DEF ReadPassword, Writing, SettingsInv, RequestOK
<1>2. "smtp_password" \in Schema["global"] /\ "global" \in Scopes /\ "smtp_password" \in TableKeys("global")
  BY SchemaFacts
<1>3. stored \in Value /\ stored.secret = Password
  <2>1. rows["global"]["smtp_password"] \in Seq(Value) /\ "smtp_password" \in DOMAIN rows["global"]
    BY <1>1, <1>2 DEF TableOK
  <2>2. V("", "") \in Value /\ V("", "").secret = ""
    BY ValueFacts DEF Texts, Secrets
  <2>3. rows["global"]["smtp_password"] # <<>> => rows["global"]["smtp_password"][1] \in Value
    BY <2>1
  <2> QED BY <2>1, <2>2, <2>3 DEF Has, Get, Password
<1> HIDE DEF stored
<1>4. current \in [Schema["global"] -> Value] /\ current["smtp_password"] = stored
  BY <1>1, <1>2, <1>3
<1>5. Validate(r, Merged(r, current))
  BY DEF ReadPassword, stored
<1> HIDE DEF current
<1>6. Merged(r, current) \in [Schema[req[r].scope] -> Value]
  BY <1>1, <1>4, MergedFacts
<1>7. Password \notin Shown => Merged(r, current)["smtp_password"].secret \notin Shown
  BY <1>1, <1>2, <1>3, <1>4, MergedFacts
<1> QED BY <1>1, <1>5, <1>6, <1>7, ValidateStep

LEMMA LookStep == ASSUME SettingsInv, NEW r \in Requests, Look(r) PROVE SettingsInv'
<1> DEFINE x == [req[r] EXCEPT !.at = "save", !.saw = Has(rows[req[r].scope], First[req[r].scope])]
<1>1. /\ req[r].at = "look" /\ Writing(req[r]) /\ UNCHANGED <<rows, overlapped>>
      /\ RequestOK(req[r]) /\ req[r] \in ReqRecord
  BY DEF Look, Writing, SettingsInv, RequestOK
<1>2. req' = [req EXCEPT ![r] = x]
  BY DEF Look
<1>3. Has(rows[req[r].scope], First[req[r].scope]) \in BOOLEAN
  BY DEF Has
<1>4. /\ x \in ReqRecord /\ x.at = "save" /\ x.current = req[r].current
      /\ x.kind = req[r].kind /\ x.scope = req[r].scope /\ x.patch = req[r].patch
      /\ x.on = req[r].on /\ x.answer = req[r].answer /\ x.stale = req[r].stale
  BY <1>1, <1>3 DEF ReqRecord
<1> HIDE DEF x
<1>5. RequestOK(x) /\ Seen(x)
  BY <1>1, <1>4 DEF RequestOK, Seen, Writing
<1>6. ~overlapped' => Keeps(x)
  BY <1>1, <1>4 DEF SettingsInv, Keeps
<1>7. ~overlapped' => \A q \in Requests \ {r} : Writing(req[q]) => req[q].scope # x.scope
  BY <1>1, <1>4 DEF SettingsInv, Alone
<1>8. overlapped' \in BOOLEAN /\ (overlapped => overlapped') /\ UNCHANGED rows
  BY <1>1 DEF SettingsInv
<1> QED BY <1>2, <1>5, <1>6, <1>7, <1>8, QuietRequest

LEMMA FailStep == ASSUME SettingsInv, NEW r \in Requests, Fail(r) PROVE SettingsInv'
<1>1. overlapped' \in BOOLEAN /\ (overlapped => overlapped') /\ UNCHANGED rows /\ req' = [req EXCEPT ![r] = Idle]
  BY DEF Fail, SettingsInv
<1> QED BY <1>1, IdleFacts, QuietRequest

(* A query begins: it has seen the endpoint as it is now. *)
LEMMA BeginQueryStep ==
    ASSUME SettingsInv, NEW r \in Requests, NEW kind \in Queries, BeginQuery(r, kind)
    PROVE  SettingsInv'
<1> DEFINE x == [Idle EXCEPT !.at = "load", !.kind = kind, !.on = EndpointOn]
<1>1. req' = [req EXCEPT ![r] = x] /\ UNCHANGED <<rows, overlapped>>
  BY DEF BeginQuery
<1>2. Idle \in ReqRecord /\ EndpointOn \in BOOLEAN /\ Idle.answer = ""
  BY IdleFacts DEF RequestOK, EndpointOn, Idle
<1>3. /\ x \in ReqRecord /\ x.at = "load" /\ x.kind = kind /\ x.on = EndpointOn /\ x.answer = ""
  BY <1>2 DEF ReqRecord
<1> HIDE DEF x
<1>4. RequestOK(x) /\ Seen(x) /\ Keeps(x) /\ ~Writing(x)
  BY <1>3 DEF RequestOK, Seen, Keeps, Writing
<1>5. overlapped' \in BOOLEAN /\ (overlapped => overlapped') /\ UNCHANGED rows
  BY <1>1 DEF SettingsInv
<1> QED BY <1>1, <1>4, <1>5, QuietRequest

(* What a query reads, it has seen. *)
LEMMA LoadReadStep == ASSUME SettingsInv, NEW r \in Requests, LoadRead(r) PROVE SettingsInv'
<1> DEFINE x == [req[r] EXCEPT !.at = "apply", !.current = GetScope("global")]
<1>1. /\ req[r].at = "load" /\ req' = [req EXCEPT ![r] = x] /\ UNCHANGED <<rows, overlapped>>
      /\ RequestOK(req[r]) /\ req[r] \in ReqRecord /\ Seen(req[r]) /\ TableOK
  BY DEF LoadRead, SettingsInv, RequestOK
<1>2. /\ GetScope("global") \in Maps
      /\ GetScope("global")["ai_endpoint"].text = "on" <=> EndpointOn
  BY <1>1, ReadFacts, SchemaFacts, InMaps
<1>3. /\ x \in ReqRecord /\ x.at = "apply" /\ x.current = GetScope("global")
      /\ x.kind = req[r].kind /\ x.scope = req[r].scope /\ x.patch = req[r].patch
      /\ x.on = req[r].on /\ x.answer = req[r].answer /\ x.stale = req[r].stale
  BY <1>1, <1>2 DEF ReqRecord
<1> HIDE DEF x
<1>4. RequestOK(x) /\ Seen(x) /\ Keeps(x) /\ ~Writing(x)
  BY <1>1, <1>2, <1>3 DEF RequestOK, Seen, Keeps, Writing
<1>5. overlapped' \in BOOLEAN /\ (overlapped => overlapped') /\ UNCHANGED rows
  BY <1>1 DEF SettingsInv
<1> QED BY <1>1, <1>4, <1>5, QuietRequest

(* A query that answers from a configuration c. *)
LEMMA AnswerStep ==
    ASSUME SettingsInv, NEW r \in Requests, NEW c, NEW stale \in BOOLEAN, Answer(r, c, stale),
           req[r].kind \in Queries, c.text = "on" => req[r].on \/ stale,
           UNCHANGED <<rows, overlapped>>
    PROVE  SettingsInv'
<1>1. /\ req[r] \in ReqRecord /\ overlapped' \in BOOLEAN /\ (overlapped => overlapped')
  BY DEF SettingsInv, RequestOK
<1>2. PICK reached \in Reachable :
         req' = [req EXCEPT ![r] = [Idle EXCEPT !.on = req[r].on, !.stale = stale,
                    !.answer = IF req[r].kind = "resolve" THEN ResolveProvider(c, reached)
                                                          ELSE CheckAllHealth(c, reached)]]
  BY DEF Answer
<1> DEFINE answer == IF req[r].kind = "resolve" THEN ResolveProvider(c, reached)
                                                ELSE CheckAllHealth(c, reached)
           x == [Idle EXCEPT !.on = req[r].on, !.stale = stale, !.answer = answer]
<1>3. answer \in {"", "endpoint", "claude_cli", "none"} /\ (answer = "endpoint" => req[r].on \/ stale)
  BY DEF ResolveProvider, CheckAllHealth
<1>4. req' = [req EXCEPT ![r] = x]
  BY <1>2
<1> HIDE DEF answer
<1>5. Idle \in ReqRecord /\ Idle.at = "idle" /\ Idle.kind = "" /\ req[r].on \in BOOLEAN
  BY <1>1, IdleFacts DEF RequestOK, Idle, ReqRecord
<1>6. /\ x \in ReqRecord /\ x.at = "idle" /\ x.kind = "" /\ x.on = req[r].on
      /\ x.stale = stale /\ x.answer = answer
  BY <1>3, <1>5 DEF ReqRecord
<1> HIDE DEF x
<1>7. RequestOK(x) /\ Seen(x) /\ Keeps(x) /\ ~Writing(x)
  BY <1>3, <1>6 DEF RequestOK, Seen, Keeps, Writing
<1> QED BY <1>1, <1>4, <1>7, QuietRequest

(* A load ends: the answer is computed from the settings the query has     *)
(* read, or, when it could not read them, from what the configuration is.  *)
LEMMA LoadEndsStep ==
    ASSUME SettingsInv, NEW r \in Requests, LoadFails(r) \/ Apply(r) PROVE SettingsInv'
<1>1. /\ req[r].at \in {"load", "apply"} /\ UNCHANGED <<rows, overlapped>> /\ RequestOK(req[r])
      /\ overlapped' \in BOOLEAN /\ (overlapped => overlapped')
  BY DEF LoadFails, Apply, SettingsInv, RequestOK
<1>2. CASE req[r].kind = "ai"
  <2>1. req' = [req EXCEPT ![r] = Idle]
    BY <1>2 DEF LoadFails, Apply
  <2> QED BY <1>1, <2>1, IdleFacts, QuietRequest
<1>3. CASE req[r].kind # "ai"
  <2>1. req[r].kind \in Queries
    BY <1>1, <1>3 DEF RequestOK
  <2>2. CASE LoadFails(r)
    <3>1. Answer(r, config, TRUE)
      BY <1>3, <2>2 DEF LoadFails
    <3> QED BY <1>1, <2>1, <3>1, AnswerStep
  <2>3. CASE Apply(r)
    <3>1. Answer(r, config', FALSE) /\ config'.text = req[r].current["ai_endpoint"].text
      BY <1>3, <2>3 DEF Apply, Layered, V
    <3>2. config'.text = "on" => req[r].on
      BY <1>1, <2>1, <2>3, <3>1 DEF RequestOK, Apply
    <3> QED BY <1>1, <2>1, <3>1, <3>2, AnswerStep
  <2> QED BY <2>2, <2>3
<1> QED BY <1>2, <1>3

(* The rows that a patch leaves. *)
LEMMA WrittenType ==
    ASSUME SettingsInv, NEW r \in Requests, req[r].at = "save"
    PROVE  Written(r) \in [TableKeys(req[r].scope) -> Seq(Value)]
<1>1. /\ req[r].scope \in Scopes /\ TableOK /\ req[r].saw \in BOOLEAN
      /\ req[r].current \in [Schema[req[r].scope] -> Value]
  BY DEF SettingsInv, RequestOK, Writing, ReqRecord
<1>2. rows[req[r].scope] \in [TableKeys(req[r].scope) -> Seq(Value)]
  BY <1>1 DEF TableOK
<1>3. ASSUME NEW key \in TableKeys(req[r].scope), NEW exists \in BOOLEAN, key \in Schema[req[r].scope]
      PROVE  Upsert(rows[req[r].scope][key], req[r].current[key], exists) \in Seq(Value)
  BY <1>1, <1>2, <1>3, UpsertType
<1>4. \A key \in TableKeys(req[r].scope) :
         Has(rows[req[r].scope], key) \in BOOLEAN
  BY DEF Has
<1> QED BY <1>1, <1>2, <1>3, <1>4 DEF Written

LEMMA SaveStep == ASSUME SettingsInv, NEW r \in Requests, Save(r) PROVE SettingsInv'
<1> DEFINE scope == req[r].scope
           table == IF Conflict(r) THEN rows[scope] ELSE Written(r)
           done == IF req[r].kind = "ai" THEN [req[r] EXCEPT !.at = "load"] ELSE Idle
<1>1. /\ req[r].at = "save" /\ Writing(req[r]) /\ req[r].kind \notin Queries
      /\ scope \in Scopes /\ TableOK /\ UNCHANGED overlapped /\ overlapped \in BOOLEAN
      /\ RequestOK(req[r]) /\ req[r] \in ReqRecord
  BY DEF Save, Writing, SettingsInv, RequestOK
<1>2. /\ rows' = [rows EXCEPT ![scope] = table]
      /\ req' = [q \in Requests |-> IF q = r THEN done
                                    ELSE IF req[q].kind \in Queries /\ req[q].at # "idle"
                                    THEN [req[q] EXCEPT !.on = @ \/ EndpointOn'] ELSE req[q]]
  BY DEF Save
<1>3. TableOK'
  <2>1. table \in [TableKeys(scope) -> Seq(Value)]
    BY <1>1, WrittenType DEF TableOK
  <2>2. rows = [s \in Scopes |-> rows[s]]
    BY <1>1 DEF TableOK
  <2> HIDE DEF table, scope
  <2>3. rows' = [s \in Scopes |-> IF s = scope THEN table ELSE rows[s]]
    BY <1>1, <1>2, <2>2
  <2> QED BY <1>1, <2>1, <2>3 DEF TableOK
<1>4. RequestOK(done) /\ ~Writing(done) /\ (done.kind \in Queries => done.at = "idle")
  <2>1. CASE req[r].kind = "ai"
    <3> DEFINE x == [req[r] EXCEPT !.at = "load"]
    <3>1. /\ x \in ReqRecord /\ x.at = "load" /\ x.kind = "ai" /\ x.answer = req[r].answer /\ x.on = req[r].on
          /\ x.stale = req[r].stale
      BY <1>1, <2>1 DEF ReqRecord
    <3>2. done = x
      BY <2>1
    <3> HIDE DEF x, done
    <3> QED BY <1>1, <3>1, <3>2 DEF RequestOK, Writing, Queries
  <2>2. CASE req[r].kind # "ai"
    <3>1. done = Idle
      BY <2>2
    <3> HIDE DEF done
    <3>2. Idle.at = "idle"
      BY DEF Idle
    <3> QED BY <3>1, <3>2, IdleFacts
  <2> QED BY <2>1, <2>2
<1>5. ASSUME NEW q \in Requests \ {r}, req[q].kind \in Queries, req[q].at # "idle"
      PROVE  RequestOK(req[q])' /\ Seen(req[q])' /\ ~Writing(req'[q])
  <2> DEFINE x == [req[q] EXCEPT !.on = @ \/ EndpointOn']
  <2>1. RequestOK(req[q]) /\ req[q] \in ReqRecord /\ ~Writing(req[q])
    BY <1>5 DEF SettingsInv, RequestOK
  <2>2. req'[q] = x
    BY <1>2, <1>5
  <2>3. (req[q].on \/ EndpointOn') \in BOOLEAN
    OBVIOUS
  <2>4. /\ x \in ReqRecord /\ x.at = req[q].at /\ x.kind = req[q].kind /\ x.current = req[q].current
        /\ x.answer = req[q].answer /\ x.on = (req[q].on \/ EndpointOn') /\ x.stale = req[q].stale
    BY <2>1, <2>3 DEF ReqRecord
  <2> HIDE DEF x
  <2>5. RequestOK(x) /\ ~Writing(x)
    BY <2>1, <2>4 DEF RequestOK, Writing
  <2>6. EndpointOn' => x.on
    BY <2>4
  <2> QED BY <2>2, <2>5, <2>6 DEF Seen
<1>6. ASSUME NEW q \in Requests \ {r}, ~(req[q].kind \in Queries /\ req[q].at # "idle")
      PROVE  RequestOK(req[q])' /\ Seen(req[q])' /\ req'[q] = req[q]
  <2>1. req'[q] = req[q]
    BY <1>2, <1>6
  <2> QED BY <1>6, <2>1 DEF SettingsInv, Seen
<1>7. req'[r] = done /\ req' = [q \in Requests |-> req'[q]]
  BY <1>2
<1> HIDE DEF done
<1>8. ASSUME ~overlapped', NEW q \in Requests \ {r} PROVE Keeps(req[q])'
  <2>1. CASE req[q].kind \in Queries /\ req[q].at # "idle"
    BY <1>5, <2>1 DEF Keeps, Writing
  <2>2. CASE ~(req[q].kind \in Queries /\ req[q].at # "idle")
    <3>1. req'[q] = req[q]
      BY <1>6, <2>2
    <3>2. CASE scope = "global"
      BY <1>1, <1>8, <3>1, <3>2 DEF SettingsInv, Alone, Keeps, Writing
    <3>3. CASE scope # "global"
      <4>1. Password' = Password
        BY <1>1, <1>2, <3>3, SchemaFacts DEF Password, TableOK
      <4> QED BY <1>1, <1>8, <3>1, <4>1 DEF SettingsInv, Keeps
    <3> QED BY <3>2, <3>3
  <2> QED BY <2>1, <2>2
<1>9. Alone'
  <2>1. \A q \in Requests : Writing(req'[q]) => q # r /\ req'[q] = req[q]
    BY <1>4, <1>5, <1>6, <1>7
  <2> QED BY <1>1, <2>1 DEF SettingsInv, Alone
<1>10. (\A q \in Requests : RequestOK(req[q]) /\ Seen(req[q]))'
  <2>1. RequestOK(req'[r]) /\ Seen(req[r])'
    BY <1>4, <1>7 DEF Seen
  <2>2. \A q \in Requests \ {r} : RequestOK(req'[q]) /\ Seen(req[q])'
    BY <1>5, <1>6
  <2> QED BY <2>1, <2>2
<1>11. (~overlapped => \A q \in Requests : Keeps(req[q]))'
  <2>1. Keeps(req[r])'
    BY <1>4, <1>7 DEF Keeps, Writing
  <2> QED BY <1>8, <2>1
<1> QED BY <1>1, <1>3, <1>7, <1>9, <1>10, <1>11 DEF SettingsInv

(* A patch that runs alone writes a password over a password. *)
LEMMA PasswordKept ==
    ASSUME SettingsInv, NEW r \in Requests, Save(r), ~overlapped, Password \notin Shown
    PROVE  Password' \notin Shown
<1> DEFINE scope == req[r].scope
           own == rows["global"]["smtp_password"]
<1>1. /\ req[r].at = "save" /\ scope \in Scopes /\ TableOK
  BY DEF Save, Writing, SettingsInv, RequestOK
<1>2. rows' = [rows EXCEPT ![scope] = IF Conflict(r) THEN rows[scope] ELSE Written(r)]
  BY DEF Save
<1>3. "global" \in DOMAIN rows /\ scope \in DOMAIN rows
  BY <1>1, SchemaFacts DEF TableOK
<1>4. CASE scope # "global" \/ Conflict(r)
  <2>1. rows'["global"] = rows["global"]
    BY <1>2, <1>3, <1>4
  <2> QED BY <2>1 DEF Password
<1>5. CASE scope = "global" /\ ~Conflict(r)
  <2>1. rows'["global"] = Written(r)
    BY <1>2, <1>3, <1>5
  <2>2. /\ "smtp_password" \in TableKeys("global") /\ "smtp_password" \in Schema["global"]
        /\ First["global"] = "auth_providers" /\ "smtp_password" # "auth_providers"
        /\ DOMAIN rows["global"] = TableKeys("global") /\ own \in Seq(Value)
    BY <1>1, SchemaFacts DEF TableOK
  <2>3. own # <<>>
    BY DEF Password, Shown
  <2>4. Written(r)["smtp_password"] = Upsert(own, req[r].current["smtp_password"], TRUE)
    BY <1>5, <2>2, <2>3 DEF Written, Has
  <2>5. Upsert(own, req[r].current["smtp_password"], TRUE) = [own EXCEPT ![1] = req[r].current["smtp_password"]]
    BY DEF Upsert
  <2>6. /\ 1 \in DOMAIN own /\ own \in [1..Len(own) -> Value]
    BY <2>2, <2>3
  <2>7. /\ Written(r)["smtp_password"][1] = req[r].current["smtp_password"]
        /\ Written(r)["smtp_password"] # <<>>
    <3> DEFINE v == req[r].current["smtp_password"]
    <3>1. [own EXCEPT ![1] = v][1] = v
      BY <2>6
    <3>2. Written(r)["smtp_password"] = [own EXCEPT ![1] = v]
      BY <2>4, <2>5
    <3>3. DOMAIN [own EXCEPT ![1] = v] = DOMAIN own
      OBVIOUS
    <3> HIDE DEF v
    <3>4. DOMAIN <<>> = {}
      OBVIOUS
    <3>5. Written(r)["smtp_password"][1] = v
      BY <3>1, <3>2
    <3>6. 1 \in DOMAIN Written(r)["smtp_password"]
      BY <2>6, <3>2, <3>3
    <3>7. Written(r)["smtp_password"] # <<>>
      BY <3>4, <3>6
    <3> QED BY <3>5, <3>7 DEF v
  <2>8. req[r].current["smtp_password"].secret \notin Shown
    BY <1>1, <1>5 DEF SettingsInv, Keeps
  <2> QED BY <2>1, <2>7, <2>8 DEF Password
<1> QED BY <1>4, <1>5

(* The update poller's two rows are not of the schema. *)
LEMMA StoreStep ==
    ASSUME SettingsInv, NEW key \in {ModeKey, PendingKey}, NEW v \in Value, NEW exists \in BOOLEAN,
           Store(key, v, exists)
    PROVE  SettingsInv' /\ Password' = Password
<1> DEFINE own == Upsert(rows["global"][key], v, exists)
<1>1. /\ TableOK /\ "global" \in Scopes
      /\ rows' = [rows EXCEPT !["global"][key] = own] /\ UNCHANGED <<req, overlapped>>
  BY SchemaFacts DEF SettingsInv, Store
<1>2. /\ key \in TableKeys("global") /\ key \notin Schema["global"] /\ "smtp_password" \in Schema["global"]
      /\ "ai_endpoint" \in Schema["global"] /\ Schema["global"] \subseteq TableKeys("global")
  BY SchemaFacts DEF TableKeys, ModeKey, PendingKey
<1>3. rows["global"] \in [TableKeys("global") -> Seq(Value)] /\ rows = [scope \in Scopes |-> rows[scope]]
  BY <1>1 DEF TableOK
<1>4. own \in Seq(Value)
  BY <1>2, <1>3, UpsertType
<1> HIDE DEF own
<1>5. rows' = [scope \in Scopes |-> IF scope = "global" THEN [rows["global"] EXCEPT ![key] = own] ELSE rows[scope]]
  BY <1>1, <1>3
<1>6. [rows["global"] EXCEPT ![key] = own] \in [TableKeys("global") -> Seq(Value)]
  BY <1>2, <1>3, <1>4
<1>7. TableOK'
  BY <1>1, <1>5, <1>6 DEF TableOK
<1>8. \A field \in Schema["global"] : rows'["global"][field] = rows["global"][field]
  BY <1>1, <1>2, <1>3, <1>5
<1>9. Password' = Password
  BY <1>2, <1>8 DEF Password
<1>10. EndpointOn' <=> EndpointOn
  BY <1>2, <1>8 DEF EndpointOn, Stored
<1>11. /\ \A q \in Requests : RequestOK(req[q])' /\ Seen(req[q])'
       /\ ~overlapped' => \A q \in Requests : Keeps(req[q])'
       /\ Alone'
  BY <1>1, <1>9, <1>10 DEF SettingsInv, Seen, Keeps, Alone
<1> QED BY <1>1, <1>7, <1>9, <1>11 DEF SettingsInv

LEMMA SettingsStarts == Init => SettingsInv
<1> SUFFICES ASSUME Init PROVE SettingsInv
  OBVIOUS
<1>1. /\ rows = [scope \in Scopes |-> [key \in TableKeys(scope) |-> <<>>]]
      /\ req = [r \in Requests |-> Idle] /\ overlapped = FALSE
  BY DEF Init, SettingsInit
<1>2. TableOK
  BY <1>1 DEF TableOK
<1>3. \A r \in Requests : req[r] = Idle
  BY <1>1
<1> QED BY <1>1, <1>2, <1>3, IdleFacts DEF SettingsInv, Alone

(* What a step may do to the settings, and to the password. *)
LEMMA SettingsInvNext ==
    ASSUME SettingsInv, [Next]_vars
    PROVE  SettingsInv' /\ (~overlapped' /\ Password \notin Shown => Password' \notin Shown)
<1>1. CASE UNCHANGED <<rows, req, overlapped>>
  <2>1. /\ TableOK' /\ Alone' /\ Password' = Password
        /\ \A r \in Requests : RequestOK(req[r])' /\ Seen(req[r])' /\ (~overlapped' => Keeps(req[r])')
    BY <1>1 DEF SettingsInv, TableOK, Alone, Password, Seen, Keeps, EndpointOn, Stored
  <2> QED BY <1>1, <2>1 DEF SettingsInv
<1>2. ASSUME SettingsInv', UNCHANGED rows PROVE Password' = Password
  BY <1>2 DEF Password
<1>3. ASSUME NEW r \in Requests, NEW kind \in {"patch", "ai"}, NEW scope \in Scopes, BeginPatch(r, kind, scope)
      PROVE  SettingsInv' /\ UNCHANGED rows
  BY <1>3, BeginPatchStep DEF BeginPatch
<1>4. ASSUME NEW r \in Requests, ReadCurrent(r) \/ ReadPassword(r) \/ Look(r) \/ Fail(r)
      PROVE  SettingsInv' /\ UNCHANGED rows
  <2>1. SettingsInv'
    BY <1>4, ReadCurrentStep, ReadPasswordStep, LookStep, FailStep
  <2>2. UNCHANGED rows
    BY <1>4 DEF ReadCurrent, ReadPassword, Look, Fail
  <2> QED BY <2>1, <2>2
<1>5. ASSUME NEW r \in Requests, (\E kind \in Queries : BeginQuery(r, kind)) \/ LoadRead(r) \/ LoadFails(r) \/ Apply(r)
      PROVE  SettingsInv' /\ UNCHANGED rows
  <2>1. SettingsInv'
    BY <1>5, BeginQueryStep, LoadReadStep, LoadEndsStep
  <2>2. UNCHANGED rows
    BY <1>5 DEF BeginQuery, LoadRead, LoadFails, Apply
  <2> QED BY <2>1, <2>2
<1>6. ASSUME NEW r \in Requests, Save(r)
      PROVE  SettingsInv' /\ (~overlapped' /\ Password \notin Shown => Password' \notin Shown)
  <2>1. UNCHANGED overlapped
    BY <1>6 DEF Save
  <2> QED BY <1>6, <2>1, SaveStep, PasswordKept
<1>7. ASSUME NEW p \in Pollers, EmitNotify(p) PROVE UNCHANGED settingsVars \/ (SettingsInv' /\ Password' = Password)
  <2>1. UNCHANGED settingsVars \/ Store(PendingKey, V("", ""), poll[p].saw)
    BY <1>7 DEF EmitNotify
  <2>2. Store(PendingKey, V("", ""), poll[p].saw) => Store(PendingKey, V("", ""), poll[p].saw = TRUE)
    BY DEF Store, Upsert
  <2>3. V("", "") \in Value
    BY ValueFacts DEF Texts, Secrets
  <2> QED BY <2>1, <2>2, <2>3, StoreStep
<1>8. ASSUME SyncMode PROVE SettingsInv' /\ Password' = Password
  <2>1. PICK m \in Modes \cup {"junk"} : Store(ModeKey, V(m, ""), Has(rows["global"], ModeKey))
    BY <1>8 DEF SyncMode
  <2>2. V(m, "") \in Value /\ Has(rows["global"], ModeKey) \in BOOLEAN
    BY ValueFacts DEF Texts, Secrets, Has
  <2> QED BY <2>1, <2>2, StoreStep
<1>9. CASE SettingsNext
  <2>1. CASE Expire
    BY <1>1, <2>1 DEF Expire
  <2>2. ASSUME NEW r \in Requests,
               \/ \E scope \in Scopes : BeginPatch(r, "patch", scope)
               \/ BeginPatch(r, "ai", "global")
        PROVE  SettingsInv' /\ UNCHANGED rows
    BY <1>3, <2>2, SchemaFacts
  <2>3. Expire \/ \E r \in Requests :
           \/ (\E scope \in Scopes : BeginPatch(r, "patch", scope)) \/ BeginPatch(r, "ai", "global")
           \/ (\E kind \in Queries : BeginQuery(r, kind)) \/ LoadRead(r) \/ LoadFails(r) \/ Apply(r)
           \/ ReadCurrent(r) \/ ReadPassword(r) \/ Look(r) \/ Fail(r) \/ Save(r)
    BY <1>9 DEF SettingsNext
  <2> QED BY <1>2, <1>4, <1>5, <1>6, <2>1, <2>2, <2>3
<1>10. CASE UpdateNext
  <2>1. CASE \E p \in Pollers : EmitNotify(p)
    BY <1>1, <1>7, <2>1 DEF settingsVars
  <2>2. CASE SyncMode
    BY <1>8, <2>2
  <2>3. ASSUME NEW p \in Pollers, ReadPin(p) \/ FetchLatest(p) \/ Decide(p) \/ LookPending(p) \/ BumpRead(p)
                                     \/ BumpWrite(p) \/ TouchRebuildFlag(p) \/ Stop(p)
        PROVE  UNCHANGED <<rows, req, overlapped>>
    BY <2>3 DEF ReadPin, FetchLatest, Decide, LookPending, BumpRead, BumpWrite, TouchRebuildFlag, Stop, settingsVars
  <2>4. CASE Rebuild
    BY <1>1, <2>4 DEF Rebuild, settingsVars
  <2> QED BY <1>1, <1>10, <2>1, <2>2, <2>3, <2>4 DEF UpdateNext
<1>11. CASE UNCHANGED vars
  BY <1>1, <1>11 DEF vars, settingsVars
<1> QED BY <1>9, <1>10, <1>11 DEF Next

LEMMA SettingsInvariant == Spec => []SettingsInv
<1>1. SettingsInv /\ [Next]_vars => SettingsInv'
  BY SettingsInvNext
<1> QED BY <1>1, SettingsStarts, PTL DEF Spec

(* ai_resolve, ai_health: an endpoint that is disabled during a whole      *)
(* request is not its answer, unless the request could not load the        *)
(* settings and answers from the configuration that was there.             *)
THEOREM AnswersAreCurrent == Spec => []AnswersReflectSettings
<1>1. SettingsInv => AnswersReflectSettings
  BY DEF SettingsInv, RequestOK, AnswersReflectSettings
<1> QED BY <1>1, SettingsInvariant, PTL

(* set_global: a patch that runs alone neither erases the SMTP password    *)
(* nor puts the mask in its place.                                         *)
THEOREM PasswordIsKept == Spec => PasswordSurvives
<1>1. SettingsInv => Resolve("smtp_password").secret = Password
  BY PasswordResolved DEF SettingsInv
<1>2. /\ SettingsInv /\ [Next]_vars
      /\ Resolve("smtp_password").secret = Password /\ (Resolve("smtp_password").secret = Password)'
      => [~overlapped' /\ Resolve("smtp_password").secret \notin {"", Mask}
            => Resolve("smtp_password")'.secret \notin {"", Mask}]_settingsVars
  BY SettingsInvNext DEF Shown
<1> QED BY <1>1, <1>2, SettingsInvariant, PTL DEF Spec, PasswordSurvives
=============================================================================
