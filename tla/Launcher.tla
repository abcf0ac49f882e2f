------------------------------ MODULE Launcher ------------------------------
(***************************************************************************)
(* launch.py and the restart requests of the admin API: launchers that     *)
(* prepare the environment, take the PID file over from one another, free  *)
(* the port and supervise a server; a server that starts its successor;    *)
(* and, between any two steps, an operator who launches and stops them,    *)
(* pulls, or sees processes die.                                           *)
(*                                                                         *)
(* A version stands for the sources on disk and their pyproject.toml.      *)
(***************************************************************************)
EXTENDS Integers, FiniteSets

CONSTANTS Ports, DefaultPort,
          MaxRapidCrashes,
          Starts,           \* bound: how the machine is found, see start
          MaxLaunches,      \* bound: launchers ever started
          MaxVersion        \* bound: pulls that bring something

ASSUME LauncherAssumption ==
    /\ DefaultPort \in Ports /\ MaxRapidCrashes \in Nat \ {0}
    /\ Starts \subseteq [platform : {"posix", "windows"}, venv : BOOLEAN, source : Nat, faults : Nat]
    /\ {MaxLaunches, MaxVersion} \subseteq Nat

(* Process ids, given out in order; what the PID file holds otherwise: it  *)
(* is not there, or holds no number.                                       *)
Launchers == 1 .. MaxLaunches
None == 0
Blank == -1

VARIABLES proc,        \* proc[l]: a launcher and the server it started
          pidFile,     \* data/launcher.pid
          source,      \* the version on disk
          venv,        \* the virtual environment exists
          installed,   \* the version whose dependencies pip installed last, or -1
          hashFile,    \* .deps_hash: the version it was computed from, or -1
          start,       \* what platform.system() says, what was there at first, and
                       \*   (bound) how many faults there may be
          faults,      \* servers that exited by themselves, launchers that ended early
          collided   \* history: two installations have run at once
files == <<source, venv, installed, hashFile>>
world == <<start, faults>>
launcherVars == <<proc, pidFile, files, world, collided>>

(* The exit code of a server is for the launcher that waits for it. *)
Exits(p, code) == [p EXCEPT !.server = IF p.phase = "wait" THEN code ELSE "none", !.restart = FALSE]

Running == {"boot", "pip", "build", "hash", "look", "kill", "unlink", "truncate", "write",
            "free", "wait", "pause", "remove"}
Exited == {"clean", "replaced", "again", "crashed"}    \* replaced: exit 0 after a self-restart
Reasons == {"", "stopped", "replaced", "gave up", "killed", "died"}

(* forced: the installation is that of a new environment.  deps: what the  *)
(* pip of this launcher installs.  A server that drains has been told to   *)
(* stop: it no longer listens, and finishes its requests.                  *)
Fresh == [phase |-> "none", port |-> DefaultPort, server |-> "none", old |-> None, hash |-> -1,
          forced |-> FALSE, deps |-> -1, crashes |-> 0, restart |-> FALSE, why |-> ""]
Alive(l) == proc[l].phase \in Running
Go(l, phase) == proc' = [proc EXCEPT ![l].phase = phase]
Ends(p, why) == [Fresh EXCEPT !.port = p.port, !.phase = "remove", !.why = why]
Ended(p, why) == [Fresh EXCEPT !.port = p.port, !.phase = "ended", !.why = why]
(* Killed alone, a launcher leaves its server and its pip behind. *)
Orphaned(p, why) == [Ended(p, why) EXCEPT !.server = IF p.server \in Exited THEN "none" ELSE p.server, !.restart = p.restart, !.deps = p.deps]
(* With its process group, it leaves at most a server that drains, of      *)
(* which nothing more is seen unless it has a restart to do.               *)
Terminated(p) == IF p.restart THEN [Ended(p, "killed") EXCEPT !.server = "draining", !.restart = TRUE]
                 ELSE Ended(p, "killed")
Installing(l) == proc[l].phase \in {"pip", "build", "hash"} \/ proc[l].deps # -1

LauncherInit == /\ proc = [l \in Launchers |-> Fresh] /\ pidFile = None
                /\ start \in Starts /\ venv = start.venv /\ source = start.source
                /\ installed = (IF venv THEN source ELSE -1) /\ hashFile = installed
                /\ faults = 0 /\ collided = FALSE

-----------------------------------------------------------------------------
Fault == faults < start.faults /\ faults' = faults + 1
NextFresh(l) == proc[l] = Fresh /\ \A m \in 1 .. l - 1 : proc[m] # Fresh

(* main: the operator runs launch.py to serve on a port. *)
Launch(l, port) ==
    /\ NextFresh(l)
    /\ proc' = [proc EXCEPT ![l].phase = "boot", ![l].port = port]
    /\ UNCHANGED <<pidFile, files, world, collided>>

(* create_venv: a new environment is installed into, and launch.py starts  *)
(* over in it (execv keeps the process id).                                *)
CreateVenv(l) ==
    /\ proc[l].phase = "boot" /\ ~venv /\ venv' = TRUE
    /\ proc' = [proc EXCEPT ![l].phase = "pip", ![l].hash = source, ![l].forced = TRUE]
    /\ collided' = (collided \/ \E m \in Launchers \ {l} : Installing(m))
    /\ UNCHANGED <<pidFile, source, installed, hashFile, world>>

AfterInstall(l) == IF proc[l].forced THEN "boot" ELSE IF proc[l].server = "again" THEN "free" ELSE "look"

(* install_dependencies: nothing to do when the hash is the one on file;   *)
(* otherwise the hash is kept for later and pip runs.                      *)
InstallDependencies(l) ==
    /\ \/ proc[l].phase = "boot" /\ venv
       \/ proc[l].phase = "wait" /\ proc[l].server = "again"
    /\ \/ /\ hashFile = source
          /\ Go(l, AfterInstall(l)) /\ UNCHANGED collided
       \/ /\ hashFile # source
          /\ proc' = [proc EXCEPT ![l].phase = "pip", ![l].hash = source]
          /\ collided' = (collided \/ \E m \in Launchers \ {l} : Installing(m))
    /\ UNCHANGED <<pidFile, files, world>>

(* pip reads pyproject.toml when it starts, after it has been upgraded; *)
PipStarts(l) ==
    /\ proc[l].phase = "pip"
    /\ proc' = [proc EXCEPT ![l].phase = "build", ![l].deps = source]
    /\ UNCHANGED <<pidFile, files, world, collided>>

(* what it read is installed when it ends. *)
Pip(l) ==
    /\ proc[l].phase = "build" /\ installed' = proc[l].deps
    /\ proc' = [proc EXCEPT ![l].phase = "hash", ![l].deps = -1]
    /\ UNCHANGED <<pidFile, source, venv, hashFile, world, collided>>

(* A pip that fails ends the launcher: at once while it prepares, through  *)
(* the finally clause of main when the server had asked for a restart.     *)
PipFails(l) ==
    /\ proc[l].phase = "build" /\ Fault
    /\ proc' = [proc EXCEPT ![l] = IF @.server = "again" THEN Ends(@, "stopped") ELSE Ended(@, "stopped")]
    /\ UNCHANGED <<pidFile, files, start, collided>>

(* Slip: the hash is computed after the installation. *)
SlipWriteHash(l) ==
    /\ proc[l].phase = "hash" /\ hashFile' = source
    /\ proc' = [proc EXCEPT ![l].phase = AfterInstall(l), ![l].hash = -1, ![l].forced = FALSE]
    /\ UNCHANGED <<pidFile, source, venv, installed, world, collided>>

WriteHash(l) ==
    /\ proc[l].phase = "hash" /\ hashFile' = proc[l].hash
    /\ proc' = [proc EXCEPT ![l].phase = AfterInstall(l), ![l].hash = -1, ![l].forced = FALSE]
    /\ UNCHANGED <<pidFile, source, venv, installed, world, collided>>

-----------------------------------------------------------------------------
(* kill_existing_launcher: the PID file is read; one that holds no number  *)
(* is removed.                                                             *)
ReadPidFile(l) ==
    /\ proc[l].phase = "look"
    /\ pidFile' = (IF pidFile = Blank THEN None ELSE pidFile)
    /\ proc' = [proc EXCEPT ![l].old = IF pidFile \in Launchers THEN pidFile ELSE None,
                            ![l].phase = IF pidFile \in Launchers THEN "kill" ELSE "truncate"]
    /\ UNCHANGED <<files, world, collided>>

(* Slip: the process is killed, not its group. *)
SlipKillOld(l) ==
    /\ proc[l].phase = "kill"
    /\ LET old == proc[l].old
       IN  proc' = [proc EXCEPT ![l].phase = "unlink",
                                ![old] = IF Alive(old) THEN Orphaned(proc[old], "killed") ELSE @]
    /\ UNCHANGED <<pidFile, files, world, collided>>

(* kill_existing_launcher: on Windows the old launcher alone is stopped,   *)
(* if it is still there; elsewhere its process group gets SIGTERM, which   *)
(* ends the launcher, without its finally clause, and its pip, and tells   *)
(* its server to stop.  The SIGKILL a second later is for the launcher.    *)
KillOld(l) ==
    /\ proc[l].phase = "kill"
    /\ LET old == proc[l].old
           left == IF start.platform = "windows" THEN Orphaned(proc[old], "killed") ELSE Terminated(proc[old])
       IN  proc' = [proc EXCEPT ![l].phase = "unlink", ![old] = IF Alive(old) THEN left ELSE @]
    /\ UNCHANGED <<pidFile, files, world, collided>>

(* A second later the PID file goes, whoever it names by now. *)
UnlinkOld(l) == /\ proc[l].phase = "unlink" /\ pidFile' = None
                /\ proc' = [proc EXCEPT ![l].phase = "truncate", ![l].old = None]
                /\ UNCHANGED <<files, world, collided>>

(* write_pid_file: the file is emptied, then written. *)
TruncatePidFile(l) == /\ proc[l].phase = "truncate" /\ pidFile' = Blank /\ Go(l, "write")
                      /\ UNCHANGED <<files, world, collided>>

WritePidFile(l) == /\ proc[l].phase = "write" /\ pidFile' = l /\ Go(l, "free")
                   /\ UNCHANGED <<files, world, collided>>

(* remove_pid_file, in the finally clause of main. *)
RemovePidFile(l) == /\ proc[l].phase = "remove" /\ pidFile' = None /\ Go(l, "ended")
                    /\ UNCHANGED <<files, world, collided>>

-----------------------------------------------------------------------------
Listens(m, port) == proc[m].server = "serving" /\ proc[m].port = port

(* start_server_subprocess: uvicorn is started, and waited for. *)
Started(l) == [proc EXCEPT ![l].phase = "wait", ![l].server = "starting"]

(* free_port: whoever listens on the port is killed, unless lsof is not    *)
(* there or does not answer; then the server is started.                   *)
FreePort(l) ==
    /\ proc[l].phase = "free"
    /\ \/ proc' = Started(l)
       \/ \E m \in Launchers \ {l} :
             /\ Listens(m, proc[l].port)
             /\ proc' = [Started(l) EXCEPT ![m] = Exits(@, "crashed")]
    /\ UNCHANGED <<pidFile, files, world, collided>>

(* uvicorn binds the port, or ends with an error when it is taken. *)
Bind(l) ==
    /\ proc[l].server = "starting"
    /\ proc' = [proc EXCEPT ![l] = IF \E m \in Launchers : Listens(m, @.port) THEN Exits(@, "crashed")
                                   ELSE [@ EXCEPT !.server = "serving"]]
    /\ UNCHANGED <<pidFile, files, world, collided>>

(* Slip: the launcher that gives up frees the port once more. *)
SlipWatch(l) ==
    /\ proc[l].phase = "wait" /\ proc[l].server = "crashed"
    /\ IF proc[l].crashes + 1 >= MaxRapidCrashes
       THEN proc' = [m \in Launchers |-> IF m = l THEN Ends(proc[l], "gave up")
                                         ELSE IF Listens(m, proc[l].port) THEN Exits(proc[m], "crashed") ELSE proc[m]]
       ELSE proc' = [proc EXCEPT ![l].phase = "pause", ![l].crashes = @ + 1]
    /\ UNCHANGED <<pidFile, files, world, collided>>

(* run_server_with_crash_watch: a crash restarts the server after a pause, *)
(* unless it is the MAX_RAPID_CRASHES-th within the window.                *)
Watch(l) ==
    /\ proc[l].phase = "wait" /\ proc[l].server = "crashed"
    /\ \E kept \in 0 .. proc[l].crashes :     \* the others have left the window
          IF kept + 1 >= MaxRapidCrashes
          THEN proc' = [proc EXCEPT ![l] = Ends(@, "gave up")]
          ELSE proc' = [proc EXCEPT ![l].phase = "pause", ![l].crashes = kept + 1]
    /\ UNCHANGED <<pidFile, files, world, collided>>

(* run_server_with_crash_watch: exit code 0 ends the launcher. *)
CleanExit(l) ==
    /\ proc[l].phase = "wait" /\ proc[l].server \in {"clean", "replaced"}
    /\ proc' = [proc EXCEPT ![l] = Ends(@, IF @.server = "clean" THEN "stopped" ELSE "replaced")]
    /\ UNCHANGED <<pidFile, files, world, collided>>

Restart(l) == /\ proc[l].phase = "pause" /\ Go(l, "free")
              /\ UNCHANGED <<pidFile, files, world, collided>>

-----------------------------------------------------------------------------
(* restart_server pulls; restart_only does not.  A pull that fails is a    *)
(* 500 and restarts nothing.                                               *)
Pulled == source .. MaxVersion

(* restart_server, restart_only: the restart is a task of the server that  *)
(* waits half a second.                                                    *)
RequestRestart(l) ==
    /\ proc[l].server = "serving" /\ ~proc[l].restart
    /\ \E v \in Pulled : source' = v
    /\ proc' = [proc EXCEPT ![l].restart = TRUE]
    /\ UNCHANGED <<pidFile, venv, installed, hashFile, world, collided>>

(* _schedule_self_restart: a detached launch.py without arguments, then    *)
(* exit 0; a server that drains may still come to it.                      *)
SelfRestart(l) ==
    /\ proc[l].restart /\ proc[l].server \in {"serving", "draining"}
    /\ \E n \in Launchers :
          /\ NextFresh(n)
          /\ proc' = [proc EXCEPT ![l] = Exits(@, "replaced"), ![n].phase = "boot"]
    /\ UNCHANGED <<pidFile, files, world, collided>>

-----------------------------------------------------------------------------
(* The server ends by itself: it is told to stop, asks for a restart with  *)
(* RESTART_EXIT_CODE, or crashes.                                          *)
ServerExits(l) ==
    /\ proc[l].server \in {"starting", "serving"} /\ Fault
    /\ \E code \in {"clean", "again", "crashed"} :
          proc' = [proc EXCEPT ![l] = Exits(@, code)]
    /\ UNCHANGED <<pidFile, files, start, collided>>

(* Ctrl-C reaches the launcher and its server. *)
Interrupt(l) ==
    /\ \/ proc[l].phase = "wait" /\ proc[l].server \in {"starting", "serving"}
       \/ proc[l].phase = "pause"
    /\ Fault
    /\ proc' = [proc EXCEPT ![l] = Ends(@, "stopped")]
    /\ UNCHANGED <<pidFile, files, start, collided>>

(* A server that drains ends, with its requests or killed by free_port. *)
Drained(l) ==
    /\ proc[l].server = "draining"
    /\ proc' = [proc EXCEPT ![l] = Exits(@, "clean")]
    /\ UNCHANGED <<pidFile, files, world, collided>>

(* A launcher is killed from outside, alone. *)
Die(l) ==
    /\ Alive(l) /\ Fault
    /\ proc' = [proc EXCEPT ![l] = Orphaned(@, "died")]
    /\ UNCHANGED <<pidFile, files, start, collided>>

(* The pip it has left behind ends: it has installed what it read, or      *)
(* failed.                                                                 *)
OrphanPip(l) ==
    /\ proc[l].phase = "ended" /\ proc[l].deps # -1
    /\ installed' \in {installed, proc[l].deps}
    /\ proc' = [proc EXCEPT ![l].deps = -1]
    /\ UNCHANGED <<pidFile, source, venv, hashFile, world, collided>>

(* The operator pulls in a terminal. *)
Pull ==
    /\ source' \in source + 1 .. MaxVersion
    /\ UNCHANGED <<proc, pidFile, venv, installed, hashFile, world, collided>>

Step(l) == \/ CreateVenv(l) \/ InstallDependencies(l) \/ PipStarts(l) \/ Pip(l) \/ WriteHash(l)
           \/ ReadPidFile(l) \/ KillOld(l) \/ UnlinkOld(l) \/ TruncatePidFile(l) \/ WritePidFile(l)
           \/ RemovePidFile(l) \/ FreePort(l) \/ Watch(l) \/ CleanExit(l) \/ Restart(l)
Server(l) == Bind(l) \/ SelfRestart(l) \/ OrphanPip(l)
Disturb(l) == \/ \E port \in Ports : Launch(l, port)
              \/ RequestRestart(l) \/ PipFails(l) \/ ServerExits(l) \/ Drained(l) \/ Interrupt(l) \/ Die(l)

LauncherNext == Pull \/ \E l \in Launchers : Step(l) \/ Server(l) \/ Disturb(l)
(* Processes that run go on running. *)
Fairness == \A l \in Launchers : WF_launcherVars(Step(l)) /\ WF_launcherVars(Server(l))

LauncherSpec == LauncherInit /\ [][LauncherNext]_launcherVars
FairSpec == LauncherSpec /\ Fairness

-----------------------------------------------------------------------------

(* install_dependencies: unless two installations ran at once, the hash on *)
(* file is never that of dependencies that are not installed, so a later   *)
(* launch does not skip an installation that is needed, whatever is pulled *)
(* while pip runs.                                                         *)
HashNeverAhead == collided \/ hashFile <= installed

(* kill_existing_launcher: a server that listens, or is about to, has the  *)
(* launcher that started it waiting for it, however launchers replace one  *)
(* another.  Only a launcher killed alone leaves it behind: from outside,  *)
(* or, on Windows, by its successor.  (A server that drains after SIGTERM  *)
(* has nobody waiting for it, and does not listen.)                        *)
ServersAreSupervised ==
    \A l \in Launchers :
        proc[l].server \in {"starting", "serving"}
            => \/ proc[l].phase = "wait" \/ proc[l].why = "died"
               \/ start.platform = "windows" /\ proc[l].why = "killed"

Served == \E l \in Launchers : proc[l].server = "serving"
Excused == \E l \in Launchers : \/ proc[l].why \in {"stopped", "died"}
                                \/ proc[l].why = "gave up" /\ faults > 0

(* The crashes of a step come within RAPID_CRASH_WINDOW of the earlier     *)
(* ones, so that none of these is forgotten.                               *)
RapidCrashes ==
    \A l \in Launchers : proc[l].phase = "wait" /\ proc'[l].phase = "pause"
                            => proc'[l].crashes = proc[l].crashes + 1

(* main, run_server_with_crash_watch, _schedule_self_restart: launchers    *)
(* that kill one another and one another's servers, and servers that       *)
(* replace themselves, end with a server that stays, unless somebody       *)
(* stopped one or one failed for a reason of its own: the crash limit ends *)
(* a fight for the port, and not both sides of it.  This takes crashes     *)
(* that are rapid from some time on: two launchers whose servers are so    *)
(* slow to listen that the window never holds MAX_RAPID_CRASHES fight for  *)
(* ever.                                                                   *)
FightsEndServed ==
    <>[][RapidCrashes]_launcherVars
        => ((\E l \in Launchers : proc[l] # Fresh) ~> (Excused \/ []Served))
=============================================================================
