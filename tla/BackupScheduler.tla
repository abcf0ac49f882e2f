--------------------------- MODULE BackupScheduler ---------------------------
(***************************************************************************)
(* Recurring backups: the asyncio driver of services/backup/scheduler.py,  *)
(* the schedule and run tables it works from, the snapshots a sink holds   *)
(* for it, and the endpoints of api/v1/backup.py that write the schedules. *)
(* POST /export, whose rows belong to no schedule, is in SnapshotStore.    *)
(*                                                                         *)
(* The driver is one coroutine with one database transaction or one sink   *)
(* call per step; every step can be preceded by an API call, by the clock, *)
(* and by the end of the process.  A time unit is what a snapshot's name   *)
(* can tell apart: steps taken within one unit share their timestamp.      *)
(***************************************************************************)
EXTENDS Integers, Sequences, FiniteSets

CONSTANTS Schedules, \* ids a schedule can be given
          Configs,   \* what each schedule can be created with
          Dirs,      \* places of the sinks: root_dir/app/scope[/tenant]; schedules
                     \* share one unless they are given a root_dir or tenant of their own
          None,      \* "no schedule"
          Faults,    \* what may fail: "export", "put", "delete", "db", "halt"
          MaxFaults, \* bound: faults in one behaviour, each of another kind
          MaxTime    \* bound on the clock

(* cron "none" is a one-shot schedule, "bad" an expression croniter rejects *)
(* (create_schedule accepts any string).  exports is FALSE for a tenant     *)
(* schedule without tenant_id, which is how create_schedule makes them.     *)
(* Zero stands for an unset keep_last or retention_days.                    *)
ConfigSet == [cron : {"none", "ok", "bad"}, keepLast : Nat, retain : Nat,
              exports : BOOLEAN, dir : Dirs]

ASSUME BackupAssumption ==
    /\ None \notin Schedules
    /\ Configs \in [Schedules -> SUBSET ConfigSet]
    /\ Faults \subseteq {"export", "put", "delete", "db", "halt"}
    /\ MaxTime \in Nat \ {0} /\ MaxFaults \in Nat

VARIABLES
    now,      \* the clock
    sched,    \* backup_schedules: next = 0 stands for a null next_run_at
    runs,     \* backup_runs, in the order of created_at
    files,    \* what each locator of the sinks holds
    at,       \* where the driver stands
    lastTick, \* when the driver last went to sleep, 0 if it has just started
    due,      \* rest of the list tick_once is working through
    cur,      \* the schedule of the dispatch in progress
    base,     \* its started_at
    run,      \* its run
    victims,  \* runs _prune has still to delete
    faults    \* the faults that have happened

driver == <<at, lastTick, due, cur, base, run, victims>>
vars   == <<now, sched, runs, files, driver, faults>>

Locators == Dirs \X (1..MaxTime)
RunIds   == DOMAIN runs
InTry    == {"running", "export", "put", "success", "advance", "scan", "delete", "erase"}
Points   == InTry \cup {"stopped", "sleeping", "dispatch", "pending", "failing"}

(* The content of a snapshot is told by the run whose export produced it. *)
Blobs  == Nat \ {0}
NoBlob == 0
NoLoc  == <<>>

Absent == [is |-> "absent", active |-> FALSE, next |-> 0, cfg |-> None]
Cfg    == sched[cur].cfg

Init == /\ now = 1
        /\ sched = [s \in Schedules |-> Absent]
        /\ runs = <<>>
        /\ files = [l \in Locators |-> NoBlob]
        /\ at = "stopped" /\ lastTick = 0 /\ due = {} /\ cur = None /\ base = 0
        /\ run = 0 /\ victims = {}
        /\ faults = {}

(* Something goes wrong. *)
Fault(f) == /\ f \in Faults \ faults /\ Cardinality(faults) < MaxFaults
            /\ faults' = faults \cup {f}

----------------------------------------------------------------------------
(* BackupScheduler.start: the first tick follows at once. *)
Start == /\ at = "stopped"
         /\ at' = "sleeping" /\ lastTick' = 0
         /\ UNCHANGED <<now, sched, runs, files, due, cur, base, run, victims>>

Due(s) == sched[s].is = "present" /\ sched[s].active /\ sched[s].next <= now

(* tick_once, _due_schedules: one list, in no particular order, for the tick. *)
Tick == /\ at = "sleeping" /\ lastTick < now
        /\ due' = {s \in Schedules : Due(s)}
        /\ at' = "dispatch"
        /\ UNCHANGED <<now, sched, runs, files, lastTick, cur, base, run, victims>>

(* The list is finished, or an exception left tick_once: sleep for tick_seconds. *)
Sleep == /\ at' = "sleeping" /\ lastTick' = now
         /\ due' = {} /\ cur' = None /\ base' = 0 /\ run' = 0 /\ victims' = {}
         /\ UNCHANGED <<now, sched, files>>

TickDone == at = "dispatch" /\ due = {} /\ Sleep /\ UNCHANGED runs

(* _dispatch: takes started_at, then creates the row. *)
Dispatch(s) == /\ at = "dispatch" /\ s \in due
               /\ due' = due \ {s} /\ cur' = s /\ base' = now
               /\ at' = "pending"
               /\ UNCHANGED <<now, sched, runs, files, lastTick, run, victims>>

(* A row; loc and blob stand for sink_locator and sha256. *)
NewRun(s, status, loc, blob) ==
    [sched |-> s, status |-> status, loc |-> loc, blob |-> blob, started |-> base,
     created |-> now]

MarkPending == /\ at = "pending"
               /\ runs' = Append(runs, NewRun(cur, "pending", NoLoc, NoBlob))
               /\ run' = Len(runs) + 1
               /\ at' = "running"
               /\ UNCHANGED <<now, sched, files, lastTick, due, cur, base, victims>>

(* To the next step of this dispatch, or back to the list with a clean slate. *)
Continue(point) ==
    /\ at' = point
    /\ IF point = "dispatch" THEN cur' = None /\ base' = 0 /\ run' = 0
                             ELSE UNCHANGED <<cur, base, run>>
    /\ UNCHANGED <<now, lastTick, due>>

(* _mark_run_status(RUNNING), _mark_run_success and _mark_run_failed find *)
(* the row by its id; a row that is gone is left alone.                   *)
SetStatus(r, status) == [runs EXCEPT ![r].status = IF @ = "pruned" THEN @ ELSE status]

MarkRunning == /\ at = "running"
               /\ runs' = SetStatus(run, "running")
               /\ Continue("export") /\ UNCHANGED <<sched, files, victims>>

RunExport == /\ at = "export" /\ Cfg.exports
             /\ Continue("put") /\ UNCHANGED <<sched, runs, files, victims>>

(* default_filename: place and creation time, nothing else. *)
Locator(dir, t) == <<dir, t>>

Written == [files EXCEPT ![Locator(Cfg.dir, base)] = run]

(* sink.put overwrites what is at the locator. *)
Put == /\ at = "put"
       /\ files' = Written
       /\ Continue("success") /\ UNCHANGED <<sched, runs, victims>>

MarkSuccess == /\ at = "success"
               /\ runs' = [SetStatus(run, "success") EXCEPT ![run].loc = Locator(Cfg.dir, base),
                                                           ![run].blob = run]
               /\ Continue("advance") /\ UNCHANGED <<sched, files, victims>>

(* Slip: a one-shot schedule is given no next time but stays active. *)
AdvanceStaysActive ==
    /\ at = "advance" /\ Cfg.cron # "bad"
    /\ sched' = IF sched[cur].is = "deleted" THEN sched
                ELSE [sched EXCEPT ![cur].next = IF Cfg.cron = "none" THEN 0 ELSE base + 1]
    /\ Continue(IF Cfg.retain > 0 \/ Cfg.keepLast > 0 THEN "scan" ELSE "dispatch")
    /\ UNCHANGED <<runs, files, victims>>

(* _advance_next_run_at, on a row that may have been deleted meanwhile. *)
Advance ==
    /\ at = "advance" /\ Cfg.cron # "bad"
    /\ sched' = IF sched[cur].is = "deleted" THEN sched
                ELSE [sched EXCEPT ![cur].next   = IF Cfg.cron = "none" THEN 0 ELSE base + 1,
                                   ![cur].active = Cfg.cron = "ok" /\ @]
    /\ Continue(IF Cfg.retain > 0 \/ Cfg.keepLast > 0 THEN "scan" ELSE "dispatch")
    /\ UNCHANGED <<runs, files, victims>>

SuccessesOf(s) == {r \in RunIds : runs[r].sched = s /\ runs[r].status = "success"}

(* Slip: off by one. *)
AmongLastAndOneMore(s, r, n) == Cardinality({q \in SuccessesOf(s) : q > r}) <= n

(* Kept by keep_last: fewer than that many later successes. *)
AmongLast(s, r, n) == Cardinality({q \in SuccessesOf(s) : q > r}) < n

Young(r, days) == runs[r].created + days >= now

(* Slip: the two rules taken together, as a misreading of "logical AND". *)
KeepByBoth(s, r) == LET c == sched[s].cfg
                    IN  /\ c.keepLast > 0 => AmongLast(s, r, c.keepLast)
                        /\ c.retain > 0 => Young(r, c.retain)

Keep(s, r) == LET c == sched[s].cfg
              IN  \/ c.keepLast > 0 /\ AmongLast(s, r, c.keepLast)
                  \/ c.retain > 0 /\ Young(r, c.retain)

(* _prune: the victims are chosen once. *)
PruneScan == /\ at = "scan"
             /\ victims' = {r \in SuccessesOf(cur) : ~Keep(cur, r)}
             /\ Continue(IF victims' = {} THEN "dispatch" ELSE "delete")
             /\ UNCHANGED <<sched, runs, files>>

(* Newest first. *)
Victim == CHOOSE r \in victims : \A q \in victims : q <= r

Unlinked == [files EXCEPT ![runs[Victim].loc] = NoBlob]

(* Slip: only the row goes. *)
SinkForgotten ==
    /\ at = "delete"
    /\ Continue("erase") /\ UNCHANGED <<sched, runs, files, victims>>

(* sink.delete raises when nothing is there; that is swallowed, *)
SinkDelete ==
    /\ at = "delete"
    /\ files' = Unlinked
    /\ Continue("erase") /\ UNCHANGED <<sched, runs, victims>>

(* as is any other error, and the row goes all the same. *)
SinkDeleteFails ==
    /\ at = "delete" /\ Fault("delete")
    /\ Continue("erase") /\ UNCHANGED <<sched, runs, files, victims>>

EraseRow == /\ at = "erase"
            /\ runs' = [runs EXCEPT ![Victim].status = "pruned"]
            /\ victims' = victims \ {Victim}
            /\ Continue(IF victims' = {} THEN "dispatch" ELSE "delete")
            /\ UNCHANGED <<sched, files>>

(* A schedule that cannot work: no tenant to export, or no next time. *)
Misconfigured == \/ at = "export" /\ ~Cfg.exports
                 \/ at = "advance" /\ Cfg.cron = "bad"

(* What else can raise inside the try of _dispatch. *)
Raises(f) == \/ f = "db" /\ at \in {"running", "success", "advance", "scan", "erase"}
             \/ f = "export" /\ at = "export"
             \/ f = "put" /\ at = "put"

Raised == \/ Misconfigured /\ UNCHANGED faults
          \/ \E f \in Faults : Raises(f) /\ Fault(f)

(* Slip: the error leaves tick_once, and with it the rest of the list. *)
StepFailsTick ==
    /\ at \in InTry /\ Raised
    /\ Sleep /\ runs' = SetStatus(run, "failed")

(* Slip: the error is swallowed. *)
StepFailsSilently ==
    /\ at \in InTry /\ Raised
    /\ victims' = {}
    /\ Continue("dispatch") /\ UNCHANGED <<sched, runs, files>>

(* A put may fail after the bundle is in place, on its sidecar. *)
StepFails ==
    /\ at \in InTry /\ Raised
    /\ \/ UNCHANGED files
       \/ at = "put" /\ files' = Written
    /\ victims' = {}
    /\ Continue("failing") /\ UNCHANGED <<sched, runs>>

(* Slip: a failed run moves the schedule on as well. *)
MarkFailedAndAdvance ==
    /\ at = "failing"
    /\ runs' = SetStatus(run, "failed")
    /\ sched' = [sched EXCEPT ![cur].next = base + 1]
    /\ Continue("dispatch") /\ UNCHANGED <<files, victims>>

MarkFailed == /\ at = "failing"
              /\ runs' = SetStatus(run, "failed")
              /\ Continue("dispatch") /\ UNCHANGED <<sched, files, victims>>

(* _due_schedules and _mark_run_pending are outside the try, and            *)
(* _mark_run_failed is in its handler: an error there leaves tick_once, and *)
(* the rest of the list with it.                                            *)
TickAborts == /\ Fault("db")
              /\ at \in {"pending", "failing"} \/ (at = "sleeping" /\ lastTick < now)
              /\ Sleep /\ UNCHANGED runs

(* stop() cancels the coroutine where it stands; CancelledError is not an  *)
(* Exception, so the handler of _dispatch does not see it.  A crash is the *)
(* same for what is stored.  A write already handed to a thread may finish. *)
Halt == /\ at # "stopped" /\ Fault("halt")
        /\ at' = "stopped" /\ lastTick' = 0
        /\ due' = {} /\ cur' = None /\ base' = 0 /\ run' = 0 /\ victims' = {}
        /\ \/ UNCHANGED files
           \/ at = "put" /\ files' = Written
           \/ at = "delete" /\ files' = Unlinked
        /\ UNCHANGED <<now, sched, runs>>

----------------------------------------------------------------------------
(* api/v1/backup.py *)
CreateSchedule(s, c) ==
    /\ sched[s].is = "absent"
    /\ sched' = [sched EXCEPT ![s] = [is |-> "present", active |-> TRUE, next |-> 0, cfg |-> c]]
    /\ UNCHANGED <<now, runs, files, driver>>

(* The driver keeps working on the object it has loaded. *)
DeleteSchedule(s) ==
    /\ sched[s].is = "present"
    /\ sched' = [sched EXCEPT ![s].is = "deleted"]
    /\ UNCHANGED <<now, runs, files, driver>>

(* The last unit begins between two ticks, so that the bound on the clock *)
(* leaves room for one more tick.                                         *)
Clock == /\ now < MaxTime
         /\ now = MaxTime - 1 => at \in {"sleeping", "stopped"}
         /\ now' = now + 1
         /\ UNCHANGED <<sched, runs, files, driver>>

----------------------------------------------------------------------------
DriverWorks == \/ Tick \/ TickDone \/ \E s \in Schedules : Dispatch(s)
               \/ MarkPending \/ MarkRunning \/ RunExport \/ Put \/ MarkSuccess
               \/ Advance \/ PruneScan \/ SinkDelete \/ EraseRow \/ MarkFailed

DriverStep == (DriverWorks /\ UNCHANGED faults) \/ SinkDeleteFails \/ StepFails \/ TickAborts

Request == \E s \in Schedules : DeleteSchedule(s) \/ \E c \in Configs[s] : CreateSchedule(s, c)

Next == ((Start \/ Request \/ Clock) /\ UNCHANGED faults) \/ DriverStep \/ Halt

(* The event loop keeps running the driver, time passes, and the process is *)
(* started again after it ended.  No request has to come.                   *)
Fairness == WF_vars(DriverStep) /\ WF_vars(Start /\ UNCHANGED faults)
            /\ WF_vars(Clock /\ UNCHANGED faults)

Spec == Init /\ [][Next]_vars
FairSpec == Spec /\ Fairness

----------------------------------------------------------------------------
RunStatus == {"pending", "running", "success", "failed", "pruned"}

TypeOK ==
    /\ now \in 1..MaxTime
    /\ sched \in [Schedules -> [is : {"absent", "present", "deleted"}, active : BOOLEAN,
                                next : 0..(MaxTime + 1), cfg : ConfigSet \cup {None}]]
    /\ runs \in Seq([sched : Schedules, status : RunStatus,
                     loc : Locators \cup {NoLoc}, blob : Blobs \cup {NoBlob},
                     started : 1..MaxTime, created : 1..MaxTime])
    /\ files \in [Locators -> Blobs \cup {NoBlob}]
    /\ at \in Points
    /\ lastTick \in 0..MaxTime
    /\ due \in SUBSET Schedules
    /\ cur \in Schedules \cup {None}
    /\ base \in 0..MaxTime
    /\ run \in RunIds \cup {0}
    /\ victims \in SUBSET RunIds
    /\ faults \subseteq Faults /\ Cardinality(faults) <= MaxFaults

Stored(r) == files[runs[r].loc] = runs[r].blob

(* Another schedule's run, started in the same second, goes to the same     *)
(* locator: default_filename tells schedules of one place not apart, and    *)
(* the root_dir they are given by default is one place.                     *)
SameFile(q, r) == /\ runs[q].sched # runs[r].sched /\ runs[q].started = runs[r].started
                  /\ sched[runs[q].sched].cfg.dir = sched[runs[r].sched].cfg.dir

(* Retention never takes a snapshot it promises to keep, unless another     *)
(* schedule's run shares its locator, and then the other's put or prune     *)
(* takes it: the newest keep_last successes of a schedule, and those within *)
(* retention_days, are in the sink with the content that was exported, at   *)
(* every moment of every prune, and whatever fails in the sink or in an     *)
(* export.  An error of the database is left out: it may undo a success for *)
(* which others were deleted.                                               *)
KeptSnapshotsAreStored ==
    faults \cap {"db", "halt"} = {} => \A s \in Schedules : \A r \in SuccessesOf(s) :
        LET c == sched[s].cfg
            later == {q \in SuccessesOf(s) : runs[q].created > runs[r].created}
        IN  \/ c.keepLast = 0 /\ c.retain = 0
            \/ Cardinality(later) < c.keepLast
            \/ c.retain > 0 /\ now - runs[r].created <= c.retain
            => Stored(r) \/ \E q \in RunIds : SameFile(q, r)

(* Retention does prune: between dispatches a schedule with keep_last only *)
(* has at most that many successes.                                        *)
PrunedToLimit ==
    at \in {"sleeping", "dispatch"} /\ faults \cap {"db", "halt"} = {} =>
        \A s \in Schedules :
            sched[s].is # "absent" /\ sched[s].cfg.keepLast > 0 /\ sched[s].cfg.retain = 0
                => Cardinality(SuccessesOf(s)) <= sched[s].cfg.keepLast

(* A schedule without cron_expr succeeds once: the success is recorded and  *)
(* the schedule deactivated in two transactions, with the retry of failures *)
(* in between ticks; only an end between the two repeats it.                *)
OneShotSucceedsOnce ==
    faults \cap {"db", "halt"} = {} => \A s \in Schedules :
        sched[s].is # "absent" /\ sched[s].cfg.cron = "none"
            => Cardinality({r \in RunIds : /\ runs[r].sched = s
                                           /\ runs[r].status \in {"success", "pruned"}}) <= 1

(* No file without a row: each snapshot in a sink is named by a run that is *)
(* still listed, or is being written, unless a fault came in between.       *)
StoreMatchesLedger ==
    faults \subseteq {"export"} => \A l \in Locators : files[l] # NoBlob =>
        \/ \E r \in RunIds : /\ runs[r].status # "pruned"
                             /\ runs[r].loc = l /\ runs[r].blob = files[l]
        \/ at = "success" /\ files[l] = run

(* next_run_at moves, and a one-shot is switched off, only when the run of  *)
(* this slot is recorded as a success and its snapshot is in the sink: no   *)
(* crash and no error makes the scheduler skip a backup.                    *)
NoSlotSkipped ==
    [][\A s \in Schedules :
          sched[s].is = "present" /\ sched'[s].is = "present" /\ sched'[s] # sched[s]
              => cur = s /\ runs[run].status = "success" /\ Stored(run)]_vars

(* A schedule that is due gets a run, however often the others fail and     *)
(* across a restart, if the database works.                                 *)
DueGetsARun ==
    \A s \in Schedules : (Due(s) /\ now < MaxTime) ~> (cur = s \/ ~Due(s) \/ "db" \in faults)

(* The module comment of scheduler.py: each run is "transitioned to running *)
(* -> success/failed": when the driver turns to something else no row is    *)
(* left open, whichever step failed, unless the process ended or the row    *)
(* itself could not be written.                                             *)
RunsReachAnOutcome ==
    faults \cap {"db", "halt"} = {} =>
        \A r \in RunIds : runs[r].status \in {"pending", "running"} => r = run
=============================================================================
