# A formal model of scottycore

scottycore is a FastAPI application framework: a task engine with a REST and a
WebSocket interface, recurring backups to pluggable sinks, mesh replication
between installations, a launcher that installs, supervises and restarts the
server, and the usual multi-tenant services (auth, users, tenants, settings,
items, files, audit, search) behind a versioned API.  This directory holds TLA+
modules for the parts of it in which steps of several actors interleave or fail
half-way, the TLC configurations that check them, and TLAPS proofs of what
matters most.

## 1. Inventory

| Part | Code | State | Operations | What is hard |
|---|---|---|---|---|
| Task engine | `core/task_engine.py`, `api/v1/tasks.py` | `_tasks` (registry of tasks with status, output, pending question), `_subscribers` (queues per task) | submit, emit_output, update_progress, ask_question, submit_answer, cancel, subscribe, unsubscribe, cleanup_old; endpoints cancel, respond, clear-finished | The engine runs on the event loop; the endpoints are plain `def` functions and run in worker threads, so they interleave with a coroutine between any two of its statements.  Timer, answer and cancellation race for one future. |
| Task stream | `api/v1/ws.py` | one bounded queue per connection | snapshot, follow, deliver, disconnect | Snapshot, subscription and notifications are separate steps; a full queue drops events. |
| Backup scheduler | `services/backup/scheduler.py`, `models.py` | `backup_schedules`, `backup_runs`, the sink's files, the driver's position | start, tick, dispatch, mark*, advance, prune, stop | Each step is its own transaction or file operation: crash, database error or sink error between any two; API calls delete schedules under the driver. |
| Backup API | `api/v1/backup.py` | same tables | export, schedules, runs, restore | Shares tables and sinks with the scheduler. |
| File sinks | `services/backup/sinks/local_disk.py`, `remote_node.py`, `scottydev.py` | a bundle and a sidecar per snapshot, here, over ssh, or behind the orchestrator's `/store` | put, get, list, delete, verify | Death between the two files or before the run row. |
| Git sink | `services/backup/sinks/git_repo.py` | a clone, its index and working tree, a remote branch | clone, put, push with rebase and retry, pull, delete | Commits made offline, several clones of one remote, several objects on one clone. |
| Backup service | `services/backup/service.py`, `contributors.py`, `files_contributor.py`, `secrets_contributor.py`, `cli.py`, `crypto.py` | none of its own | export, inspect, restore per contributor | Each contributor has its own transaction: one may fail in the middle of a restore, others write between two of them. |
| Mesh engine | `services/sync/engine.py` | one asyncio task and one kick event per peer, a semaphore | start, stop, sync cycle, kick, reconcile | Back-off, tasks that die, cancellation under way. |
| Mesh replication | `services/sync/*` | rows with their time of change, origins, conflicts, peers, keys | pull, push, apply, resolve, rotate, migrate keys | Comparing and writing a row are two transactions; a cycle and an inbound push apply bundles at once. |
| Auth and users | `services/auth/service.py`, `services/users/service.py`, `core/auth.py` | login attempts, users, session versions, backup codes | login, lockout, TOTP, setup, create, update, password change | Read-modify-write of counters and lists by concurrent requests. |
| Settings, AI backends | `services/settings/*`, `services/ai_backends/service.py` | scoped key/value rows; one shared configuration object and a health cache | resolve, set, load, resolve provider | Patches are read, merged and written in separate steps; secrets are masked on the way out and come back masked. |
| Auto update | `services/auto_update/*` | the pin in `pyproject.toml`, a rebuild flag, a pending notice | check, bump, touch, notify | Crash between the two files; two polls at once. |
| Launcher | `launch.py`, `api/v1/admin.py` | PID file, port, virtual environment, `.deps_hash`, a supervised server | install, take over, free the port, watch, restart, self-restart | Launchers that kill one another; a server that replaces itself; crash limits. |
| Tenants, items, files, audit, search | `services/*` | database rows, uploaded files | create, read, update, delete, rename, upload | One transaction or file operation per request; they run between the contributors of an export or a restore. |

Interactions: the REST layer calls the task engine and the backup service
directly; the scheduler calls the backup service and a sink; the mesh engine
calls the backup service for bundles and the sync service for its tables; the
update poller and the AI backends keep their configuration in the settings
table; the admin API restarts the server under the launcher.

## 2. Modules

| Module | Models |
|---|---|
| `TaskLifecycle` | Abstract: what a client of the task API may observe of a task's status. |
| `TaskEngine` | The engine, the endpoints that work on it and the WebSocket stream, at the granularity of the steps the event loop and the worker threads can interleave. |
| `BackupScheduler` | Driver, tables, sink contents, the schedule endpoints, shutdown and crash. |
| `SnapshotStore` | Local, remote-node and orchestrator sinks, file by file, with the export endpoint that records what it stored. |
| `GitRepoSink` | The git sink, command by command, over clones of one remote. |
| `BackupBundles` | Export and restore of bundles over the registered contributors, beside the requests that write items, files, users, settings, tenants and audit entries. |
| `MeshEngine` | The tasks the mesh engine keeps for its peers: start, stop, cycle, back-off, kick, reconciliation. |
| `MeshReplication` | What a cycle pulls, applies and pushes, on two nodes; keys and conflicts. |
| `Accounts` | Login, lockout, TOTP, tokens and the administration of users. |
| `Settings` | The settings table, its patches, the AI configuration on top of it. |
| `AutoUpdate` | Extends `Settings` with the update poller, which reads its mode from the table and writes to it. |
| `Launcher` | Launchers, the servers they supervise, the restart endpoints. |
| `TaskEngineProofs`, `BackupSchedulerProofs`, `GitRepoSinkProofs`, `MeshEngineProofs`, `MeshReplicationProofs`, `AccountsProofs` | TLAPS proofs about the module of that name. |
| `SnapshotProofs` | TLAPS proofs about `SnapshotStore` and `BackupBundles`: how snapshots are kept, and what a restore of them does. |
| `InstallationProofs` | TLAPS proofs about `Launcher`, `AutoUpdate` and `Settings`: what keeps an installation up and up to date. |
| `MC*` | For each module above: symmetry sets and constants that a `.cfg` file cannot write. |

Operators whose comment begins with *Slip* are deliberate mistakes, the kind a
patch to this code could introduce; none is used by a specification.  Each is
the body that, put in the place of the operation it imitates, a property of the
runs must reject.

A proof module that extends two components needs their names apart, so
`SnapshotStore` and `Launcher` put their own name before `Init`, `Next`, `Spec`.

Several properties hold only as long as something named in the property did not
happen: two updates of one user overlapping (`clash`), two patches of one scope
(`overlapped`), a locator used twice (`reused`), a write between `get_row` and
`restore` (`raced`), two installations at once (`collided`), a reconciliation
that a change overtook (`overtaken`).  These are history variables: the code has
no lock there, and section 5 says what happens then.  Others name a state or a
step: two runs that share a locator (`SameFile`), a query that could not load
the settings (`stale`), two bumps of the pin that cross (`Races`).

### TaskEngine

`status`, `registered`, `completed` are the registry; `pc`, `cancelReq`,
`current` describe the coroutine `_run` of each task, where `current` is the
task whose statements are being executed: between two `await`s no other
coroutine runs, but requests in worker threads do.  `asks`, `fut`, `timer`,
`replies` are the questions, `subscribers`, `queue`, `ws`, `seen`, `lost` the
streams, `responder` and `clearer` the requests that take more than one step.
A body is arbitrary: it emits lines, updates progress, asks, suspends, returns
or raises in any order up to the bounds.  Python 3.12 semantics (the version of
the Dockerfile) are used for `asyncio.wait_for`, marked external in the map.
Lines are numbered, answers and questions are counted: their text plays no role.
`TaskLifecycle` is instantiated with the registry as it is; `LifecycleSpec`
says that every step of the engine is one of its steps or none.

### BackupScheduler

The driver's program counter `at` walks through the transactions of `_dispatch`
in the order of the code; `StepFails` is the `except Exception` block,
`TickAborts` the exceptions that leave `tick_once`, `Halt` both `stop()` (whose
`CancelledError` the handler does not see) and a crash.  `faults` is the set of
things that have gone wrong so far, at most `MaxFaults` of them, so that a
property can say which faults it survives.  A file's content is the run that
produced it, so that overwriting is visible.  A place stands for `root_dir`,
application, scope and tenant; schedules share one unless they are configured
apart, since the default `root_dir` is one (`scheduler.py:409`), and runs of one
place that started in the same second have one locator (`Locator`).  The clock advances between any
two steps; a unit is one second, the resolution of a locator, and cron
schedules fire every unit.

### SnapshotStore

One module for three sinks, because they make the same promise with different
steps: the bundle first, then the sidecar; delete in the same order.  `op`
holds the position of each client, `rows` what `POST /export` recorded in
`backup_runs`.  A client may fail or die before any step; a step that moves a
file over the network may leave it torn (`StorePut`, `NodeScp`), while the
local sink renames.  `ScottyDevSink` is modelled with the `/store` endpoints it
calls, which live in the same repository (`api/v1/backup.py` and its index).
`Listed`, `Got` and `Verified` are the read operations; they change nothing and
appear in the properties.

### GitRepoSink

A history is the set of its changes, which is sound because every path is
written once and removed at most once; it makes "fast-forward" set inclusion
and a rebase a union.  Each git command is a step, and a sink object stands at
one of them; two sink objects on one clone have different locks, as
`GitRepoSink.__init__` makes one per object, so their commands interleave.
`warned` records what the sink logged as local only; `behind`, the clones that
have not pushed since a push was given up or the process ended.

### BackupBundles

Every contributor exports and restores in a session of its own: `job` keeps the
set of those still to come, of which the next is the one that `Registered` puts
first (`Before`, `Restoring`).  The command line registers one less
(`Contributors`).  `Request` is what other requests do in between: each is one
transaction or file operation with the guards of its service (a new item or
upload has a key that is in no bundle, `Fresh`; a rename replaces nothing;
users and tenants are never deleted).  Their audit entries are transactions of
their own and arrive as `AuditEntry`.  Rows are versions; `Name` gives the
unique constraints their meaning, so that restoring a user who has another
primary key here clashes.  A
bundle has the scope it was made for and a passphrase that opens it or does
not: the cipher is perfect.  `Foreign` bundles carry versions and schemas this
installation did not write.  Their sections are of the tables their
contributors read, and a tenant's bundle has rows of that tenant only
(`ForeignAssumption`): they are what an exporter makes, not what a forger could.

### MeshEngine and MeshReplication

`MeshEngine` is about tasks: `tasks` and `events` are `_tasks` and
`_kick_events`, `peer` the table `sync_peers`, `free` the semaphore.  Every task
made for a peer has a number and a record in `loop`: the await it stands at,
whether `cancel()` was called, its kick event.  A cancelled task goes on
existing until the loop delivers the `CancelledError`, so that a peer that is
disabled and enabled again has two for a while.  `LoopDies` is an exception in
`_handle_error`, which runs inside the `except` block; such a loop stands at
`died`, one that returned at `done`.
`on_peer_config_change` is two steps, the query and the reconciliation with
what it returned; requests overlap freely.  `late` marks a request whose query
another one's change has made stale, and `overtaken` that the reconciliation
applied last was such a one.  The repository has no caller of it or of `kick`;
requests are taken to call it after `create_peer`, `update_peer` and
`delete_peer`, as its comment asks.  As for the task engine, `asyncio.wait_for` is Python 3.12's,
in which a cancellation is never swallowed by an event set at the same moment.
Back-off is counted in units of the default interval of 30 seconds.

`MeshReplication` is about rows: two nodes with an entry for each other, on
each a cycle and a handler of inbound pushes that apply bundles row by row,
with `get_row`, `restore` and the origin as three steps (`_apply_contributor_rows`).
A node stamps rows with a clock of its own, which is ahead of time by
`skew[n]`, up to the tolerance of the engine (`MaxSkew`), and may be set at any
time.  A version carries this stamp (`ts`), what is compared and merged, and as
history the time it was made (`born`) and the write it came from.  `Merged` is
SQLAlchemy's merge: a row whose stamp differs is taken over with its stamp, one
with the same stamp and other contents is stamped anew by `onupdate`.
The endpoints that answer a pull and accept a push belong to the applications
and are taken to do what the comments of the engine say.

### Accounts

A request is a sequence of transactions and keeps in `req` the row it read.
Passwords, roles and codes are model values; a token carries the session
version it was issued with and, as history, how many revocations its row had
seen.  Ages are counted in steps of five minutes up to the largest age the code
looks at.  `Init` starts from an empty database or from one with an account.
Requests that are refused without having written anything are left out.

### Settings and AutoUpdate

`rows[scope][key]` is the sequence of the values of a key's rows, in the order
of the table: there may be several in the global scope, where the unique
constraint has a NULL in it, and the functions that read them differ in which
they take (`Get` the first, `Stored` the last).  Each tier has the first key
that a patch writes and those with a secret.
A value is an open part and a secret part, so that masking is a change of the
secret part only.  A patch is `BeginPatch`, `ReadCurrent`, `ReadPassword`,
`Look`, `Save`: the steps of `set_global` and of the upsert, up to the flush
that takes the database's write lock.  AI queries load the configuration into
one object shared by all requests (`config`), then apply it; when the read
fails, `LoadFails` answers from what is there.  `AutoUpdate`
extends this module rather than instantiating it: both work on the same rows,
and the poller may see the table between any two steps of a patch.

`_bump_pin` is two steps, since pollers are separate processes: `BumpRead` reads
the file and replaces, `BumpWrite` writes all of it.  What the replacement gives
is `Replaced`: the first `@current` of the text may belong to another
dependency, and then the pin stays; where the pinned tag only begins with
`current` (`Begins`), its end is spliced to `latest`, which may give any tag.
`write_text` itself is atomic in the model.

### Launcher

`proc[l]` is a launcher together with the server it started; a process id is
its number.  `Launch` to `WritePidFile` is `main` up to the server; after the
first installation `execv` starts it over, so `install_dependencies` is called
again.  `FreePort` is `free_port`, which kills whatever listens, or fails to
find it; `Watch` is one turn of
`run_server_with_crash_watch`; `RequestRestart` and `SelfRestart` are the admin
endpoints.  `Disturb` and `Pull` are the operator and the machine.  A version
stands for the sources together with their `pyproject.toml`.  An installation
is four steps: the hash of `pyproject.toml`, `PipStarts` (pip reads the
dependencies), `Pip` (it has installed what it read) and the hash file, so that
a pull may fall between any two.

`KillOld` depends on the platform.  On Windows `Stop-Process` ends the launcher
alone (`Orphaned`): its server goes on listening until `FreePort` finds it, and
its pip goes on installing (`OrphanPip`).  Elsewhere SIGTERM goes to the process
group, which the launcher leads, and ends launcher and pip; its server closes its
socket and drains its requests, and SIGKILL a second later is for the launcher
alone (`Terminated`).  A server that drains listens no more and changes nothing
the model has, unless a restart it was asked for is still to come: only then is
it kept (`draining`).  `Die` is a launcher killed alone from outside.  That
powershell itself runs into its timeout, which would end the new launcher with
an exception, is left out.  `LauncherSpec` is the steps alone, `FairSpec` adds
the fairness.

## 3. Runs

| Run | Instance | Shows |
|---|---|---|
| `task_engine` | one task, two lines, two questions, one stream with a queue of two, two responders, one clear-finished, `cleanup_old(0)` | `TypeOK`; streams miss nothing but what a full queue dropped (`StreamContiguous`); a waiting task can be woken (`WaitingIsWakeable`); answers come from somebody (`AnswersAreGenuine`); a live task is registered (`LiveIsRegistered`); the refinement `LifecycleSpec` |
| `task_liveness` | one task, one of each other actor | `DoneReachesStream`, `CancelLands` |
| `backup_scheduler` | a failing schedule beside a healthy one of the same place, three units, one fault of any kind at any step | `KeptSnapshotsAreStored`, `PrunedToLimit`, `OneShotSucceedsOnce`, `StoreMatchesLedger`, `RunsReachAnOutcome`, `NoSlotSkipped`, and no starvation (`DueGetsARun`) |
| `snapshot_store` | each of three sinks, two clients, two locators, four operations | `ListedSnapshotsAreWhole`, `RecordedSnapshotsStay` |
| `git_sink` | two clones, one of them with two sink objects, two bundles, four operations | `AckedIsKept`, `SilentPutsArePushed`, `PushesCatchUp` |
| `backup_bundles` | one export, one restore and one other request over twelve rows and files of two owners; two platform bundles and a tenant's made elsewhere; passphrases are symmetric | `SectionsAreAllOrNothing`, `NewerSecretWins`, `TenantsStayApart` |
| `mesh_engine` | two peers, one place, every fault, two requests that may overlap | `TypeOK`, `LoopsAreRegistered`, `SlotsAreConserved`, `SettledPeersHaveTasks`, and `EnabledPeersKeepSyncing` |
| `mesh_replication` | two nodes, one row, clocks one unit apart, three units, two writes, two cycles, two keys, one failure or other change | `ReceivedRowsAreSettled`, `NoStaleOverwrite` |
| `accounts` | two addresses, two requests at a time, four in all | `OvershootIsBounded`, `RevokedTokensStayOut`, `UsedCodesAreGone` |
| `settings_update` | two requests and two polls at a time, three operations | `PasswordSurvives`, `AnswersReflectSettings`, `OnlyRacesLowerThePin`, `BumpsAreRebuilt` |
| `launcher` | three launchers; on POSIX a first start with one pull, or a later one with a pull and a fault; on Windows a first start with a fault | `HashNeverAhead`, `ServersAreSupervised`, `FightsEndServed` |
| `settings_key` | one request at a time; expected violation | saving the AI configuration with the masked key erases the stored one, which the docstring at `api/v1/ai_backends.py:96` says is preserved |

Bounds.  One task is enough for the properties of questions and streams, which
relate one task to its clients; the engine's tasks share only the event loop,
and the theorems hold for any number of them.  Two lines and a queue of two
make a queue overflow by one; two questions let an answer to the first arrive
during the second.  Three time units give a schedule two successes and a
pruning of the first, and leave room for a failure in between; one fault is
enough as every property names the faults it survives one by one.  Two peers
compete for one place of the semaphore; two tasks per peer and two changes of
the table let a task be replaced while its cancellation is on its way, and two
requests let one overtake the other; the ceiling of the back-off is reached by the
first failure.  Two nodes with
a cycle and an inbound handler each give one row four workers at once; two
writes make a conflict; a second key is what a rotation issues.  Clocks one unit
apart give a later write an earlier stamp, and three units are more than the
tolerance.  A failure and a change by an operator exclude one another in that
run; the theorems about it hold for any number of both.  Four sink
operations are two puts, a delete and a reuse; three git sinks are two on one
clone and one elsewhere, so that a push meets both an index shared with another
object and a remote that moved.  A lockout limit of two is overshot by two
requests; four requests are a login, a revocation, a second revocation and a
use.  Two requests and two polls are the overlap every row of the settings
table can see.  Three launchers are one that runs, one that takes over and one
that the restart endpoint starts meanwhile.  Of the bundles made elsewhere one
has a user under another primary key, whose restore clashes; one is of a later
release and is refused; and the tenant's overwrites an item and a file while
requests rename and delete them.

`KeptSnapshotsAreStored` excuses one case beside the faults: two schedules of
one place, as in the run, dispatched in the same second have one locator, and
the put or the prune of one takes the snapshot of the other.
`SettledPeersHaveTasks` and `EnabledPeersKeepSyncing` excuse a reconciliation
that was overtaken, until the next one, and a loop whose error handler raised.
`ReceivedRowsAreSettled` says little of a row that was dropped for its origin:
every node is `singleton`, so a row that a peer has pushed once counts as
written here, and later versions of it are dropped as echoes.  `NoStaleOverwrite`
allows for the tolerated skew: within it an older version may win.

Deadlock checking is off in all runs: the requests, submissions, operations and
the clock are bounded, so every behaviour ends.

Fairness.  `TaskEngine`: asyncio runs ready callbacks first in, first out, so a
step that is ready again and again is taken (strong fairness, as other
coroutines hold the loop in between); timers fire; a body does not compute for
ever between two awaits (weak fairness of its next await).  Nobody has to
answer, cancel or clear.  `BackupScheduler`: the driver's coroutine goes on,
time passes, the process is started again.  `MeshEngine`: each peer's loop takes
its steps, as HTTP calls have a timeout of 30 s and sleeps end (weak fairness);
`asyncio.Semaphore` serves its waiters in order (strong fairness of taking a
place); a reconciliation that has begun is finished.  Nobody has to kick, change
a peer or stop the engine.  `Launcher`: a process that runs goes on running
(weak fairness of each launcher and of each server); nobody has to launch,
stop, pull or restart anything.  `FightsEndServed` assumes more, in the formula
itself: from some time on every crash is rapid (`RapidCrashes`), that is, no
earlier one leaves the 60 s window before it.  The code does not guarantee
this.  `Watch` lets any crash leave the window, and two launchers whose servers
take more than about 24 s to listen do fight for ever.  The other modules state safety only: their
requests may stop anywhere.

## 4. Proofs

Every theorem holds for any sets and any bounds that satisfy the named
assumption of its module; TLC evaluates that assumption in the runs.  Where a
property is excused by a history variable (`clash`, `overlapped`, `collided`, `reused`,
`raced`, `lost`, `doomed`, `crashed`, or the set of faults), the theorem has
the same excuse.  All invariants are proved the same way: the property is
strengthened to an inductive one, which TLC checked on the run's instance
first, a lemma per action shows that it is kept, and the listed properties
follow from it in one step.

**TaskEngineProofs** (`TaskEngineAssumption`)

* `TypeCorrect`: the type invariant.
* `LiveStaysRegistered`: no task is forgotten while its coroutine can run.  Not
  inductive: a clear-finished request works from a list made earlier.
  `ControlInv` adds that the status follows the program counter, that the task
  holding the loop is in a segment, and that everything on a request's list has
  ended.
* `EngineImplementsLifecycle`: every step is a step of `TaskLifecycle` or
  leaves the status alone; uses the same invariant.
* `WaitingStaysWakeable`, `AnswersStayGenuine`: from `QuestionInv`, which ties
  the future of each question, the responder that may have resolved it and the
  replies the body got to the number of the question.
* `StreamsStayContiguous`: a connection that lost nothing to a full queue was
  sent lines without a gap.  What it was sent says nothing of the next line, so
  `StreamInv` follows a line on its way: what was seen, what is queued and what
  is scheduled on the loop are three consecutive runs (`Run`), each beginning
  where the one before ends.  `RunEmpty`, `RunAppend` and `RunTail` are what
  the three queue operations do to a run.

**BackupSchedulerProofs** (`BackupAssumption`): from `BackupInv`.

* `BackupTypeCorrect`; `RunsReachOutcome`: the rows of `backup_runs` that are
  open belong to the dispatch under way, unless a database error or a stop
  intervened (`NoOpenRows`).
* `OneShotOnce`: a schedule without a cron expression succeeds once; needs that
  it is inactive or gone once it has succeeded, or about to be, and in no
  list of due schedules (`OneShotOver`).
* `StoreFollowsLedger`: what the sink holds is what the rows say; needs where
  the dispatch stands between the file and the row (`RowOK`, `LedgerOK`).
* `PruningReachesLimit`: between two dispatches a schedule has at most
  `keep_last` successes; needs the arithmetic of the victims (`VictimsOK`,
  `WithinLimit`).
* `KeptStay`: a snapshot that `keep_last` or `retention_days` keeps is in its
  sink, unless a run of another schedule shares its locator.  Inductive is
  `KeepInv`, as long as the database and the process hold.  A tick is over before
  the next one begins, so the earlier runs of a schedule are older than the one
  being dispatched (`TimesOK`) and no put overwrites what they name
  (`FreshLocator`, `OneLocator`); every success has its snapshot, except the
  victim whose file has just been erased and those that share a locator
  (`PlacesOK`), which goes on being shared (`SharedStays`); and a victim is kept by
  neither rule, because `keep_last` newer successes are not victims
  (`RulesOK`, from the count in `EnoughAbove`).
* `NoSlotIsSkipped`, an action property: `next_run_at` moves only behind a
  success whose snapshot is stored.

**SnapshotProofs**

`ListedWhole` and `RecordedStay` of `SnapshotStore` (`StoreAssumption`), from
`StoreInv`.  How far a client's operation has come determines the bundle
and the sidecar of its locator (`ClientsInPhase`), and without one a readable
sidecar has its bundle (`FilesKept`); `OneClient` says that a locator that was
not reused has one client at most.  The argument is the order of the two files,
and covers the three sinks at once.

`SectionsWhole`, `SecretsNewest` and `TenantsApart` of `BackupBundles`
(`BundlesAssumption`, `ForeignAssumption`), from `BundlesInv`.

* The property `SectionsAreAllOrNothing` is the part `Placed`: a row that
  nobody else wrote has the value that the last of the restored
  contributors with that row gave it, or the one it had.  It is not inductive
  by itself: the step of a contributor must come after all that have been called, and only a contributor whose turn
  it was may have been (`RestoreOK`).
* `SecretsNewest`: a secret is in two sections, and no other contributor writes
  it (`SectionRows`); the one registered later is the last carrier.
* `TenantsApart`: every bundle, and what any job has read so far, is well
  formed (`WellFormed`), because each contributor filters by the tenant
  (`SelectedRows`); hence no carrier has a row of another owner.

**GitRepoSinkProofs** (`GitAssumption`): `AckedStay`, `SilentPutsPushed` and
`PushesBringAll`, from `GitInv`.  A put that has come to
the commit is staged or already committed by another object of its clone
(`PutsStaged`), and a commit that is neither pushed nor reported has a sink of
its clone on the way to push it (`SomebodyPushes`).  The same of deletions and
attributes, warned about or not, is `SomebodyCatchesUp`, for clones that are not
behind: a push sends the branch as a whole.

**MeshEngineProofs** (`MeshAssumption`)

* `MeshTypeCorrect` and `SlotsStayConserved`, from `MeshInv`.  That the
  semaphore stays within its bounds rests on the conservation of its places,
  which in turn needs that a new task never takes the number of one at work
  (`UnmadeLoops`).
* `LoopsStayRegistered`: inductive together with `MeshInv`.  A step of a loop
  revives none (`NoRevival`), and a reconciliation starts a task only where the
  registered one, if any, has ended.
* `SettledPeersKeepTasks`, for any number of overlapping requests: what a
  request has read is the set of enabled peers, unless another one has changed
  the table since and will reconcile after that (`AgreeInv`).

**MeshReplicationProofs** (`ReplicationAssumption`: two different nodes):
`RowsAreSettled` and the action property `OnlyRacesOverwrite`, from
`ReplicationInv`.  The stamp of a version is within the skew of the time it was
made (`RowsStamped`), also after clocks were set (`SetClockStep`), so that stamps
order versions up to the skew; a worker's position bounds
what its current row can be (`CurrentOK`), and a row it has finished has come
up to what it received and has an origin or a conflict on record, or was dropped
where a version is (`OriginsHeld`), unless a write raced (`BehindOK`).  `Forward` names what no step takes back; a worker that does not
move keeps its part of the invariant because of it.

**AccountsProofs** (`AccountsAssumption`): `RevocationHolds` and `CodesWorkOnce`,
from `AccountsInv`.  For an account without overlapping updates the session
version counts the revocations, no used backup code is stored, and what a
request under way has read is still true of the row where it matters
(`AccountOK`); a token carries no version later than the row it was made from
(`TokensOK`).  `OvershootStaysBounded` has its own invariant, `LockoutInv`: the
failed comparisons of a streak, together with the requests that have passed the
check and are about to compare, stay under the bound.  It is proved under the
hypothesis `Window <= Duration` (15 and 30 minutes in the code): with a longer
window a lockout would end while its failures still count, and more could be
added to the same streak.

**InstallationProofs**

`HashStaysBehind` and `ServersStaySupervised` of `Launcher`
(`LauncherAssumption`), from `LauncherInv`.  The hash an installation holds is
not newer than the dependencies pip read, which are not newer than the sources
(`ReadOK`): the code takes the hash before it runs pip, and this order is what
the proof rests on.  `Supervised` follows each way a launcher ends: with its
process group, through its `finally` clause once its server has ended, or
alone, which is the excuse of the property.

Of `AutoUpdate` and the `Settings` it extends (`SettingsAssumption`,
`UpdateAssumption`: finitely many tags):

* `PinLoweredByRaces`, an action property, and `BumpsStayOrdered`, from
  `UpdateInv`: a poll that is about to write holds what putting a newer tag in the
  place of an older one made of the text it read (`AboutToBump`); what it writes
  is lower than the pin only if the pin has changed since, or if only the
  beginning of a longer tag was replaced.  `MaxVersionExists` gives
  the highest of the tags.
* `AnswersAreCurrent`, from `SettingsInv`: a query has seen every endpoint that
  was enabled while it ran (`Seen`), and what it applies is what it read itself,
  whatever others have put into the shared object since, unless it could not
  read anything.
* `PasswordIsKept`, an action property, also from `SettingsInv`: a patch that
  comes to be written carries neither mask nor empty password (`RequestOK`);
  alone in its scope (`Alone`), what it writes over a stored password is that
  password or a new one (`Keeps`).  The read that masks and the read that does
  not are two steps, so the value between them is in the invariant.

Left to TLC: the properties under fairness, `DueGetsARun`, `DoneReachesStream`,
`CancelLands`, `EnabledPeersKeepSyncing` and `FightsEndServed`.  Every other
property of a passing run is stated by a theorem.

## 5. Observations

What the model shows that no run reports, because no line of the repository
claims the opposite, or because the property excludes it by name:

* Tasks: a task cancelled before its first step stays `pending` for ever
  (`task_engine.py:116`); a line written after the last `await` is queued behind
  `done` (`:134`); between the snapshot and the subscription of a stream a line
  is missed (`ws.py:85`); a respond request carries no question id, so an answer
  typed for one question may be given to the next (`:171`); clear-finished pops
  the subscribers of a finished task before they saw `done` (`tasks.py:151`); a
  full queue drops `done` as it drops any event (`:244`).
* Scheduler: an error in `_prune` turns a success into a failure after
  `next_run_at` moved (`scheduler.py:193`), and may leave a promised snapshot
  deleted; run rows stay `running` after a stop; two schedules of one place in
  one second share a locator (`base.py:131`), by default already those of one
  scope (`scheduler.py:409`), and pruning one takes the snapshot of the other.
* Sinks: a bundle without a sidecar is not listed (`local_disk.py:98`); the git
  sink's lock is one per object (`git_repo.py:126`), so two objects interleave
  on one clone; a bundle committed by another object's commit is pushed by it.
* Bundles: the command line registers no `FilesContributor`, so a restore drops
  files with a warning only (`cli.py:418`).
* Tenants: the routes of `api/v1/tenants.py` call `create`, `update` and
  `rotate_api_key` without the audit context they require, and a `deactivate`
  that does not exist (`:62`, `:88`, `:101`, `:112`).
* Mesh: an error while an error is recorded ends the peer's loop for good
  (`engine.py:140`); a successful pull resets the back-off before the push
  (`:213`), so a peer whose pushes alone fail never backs off beyond the
  default interval; all nodes have the id `singleton` (`repository.py:60`), so
  rows a peer pushed are later dropped as echoes (`engine.py:387`), its newer
  versions of them too, although `engine.py:345` speaks of rows that originated
  here; rows of one stamp and different contents are stamped anew by the merge,
  so that the older contents may win; a reconciliation that was overtaken leaves
  an enabled peer without a task, or a disabled one with it (`:487`); overlapping
  key rotations leave two keys active (`sync/service.py:321`).
* Accounts: the token issued by `totp_verify` has session version 0 and is
  refused for a user who ever changed the password (`api/v1/auth.py:144`);
  overlapping increments of the session version lose one (`users/service.py:282`);
  overlapping setup requests make two superadmins (`api/v1/auth.py:60`).
* Settings: global rows may be duplicated, since the unique constraint has a
  NULL in it; `PATCH /settings/global` ignores keys outside its schema, so no
  request sets `scottycore.update.mode`; a query that cannot read the settings
  answers with a disabled endpoint (`ai_backends/service.py:123`), although
  `api/v1/ai_backends.py:29` says that changes are immediately reflected; `GET /settings/global` masks the SMTP password and not the AI keys; a pending
  update notice is never cleared.
* Auto update: of two polls that both read the file before either writes it, the
  slower one may lower the pin (`auto_update/service.py:214`); `@v1.1` is also
  found in `@v1.10` and in another dependency's URL.
* Launcher: a self-restart starts its successor on the default port
  (`admin.py:296`); two launchers that read the PID file before either writes
  it both go on, and when their servers are slow to listen they kill one another's
  for ever (`launch.py:537`); on Windows the server of the launcher that is
  replaced goes on without one until its port is freed (`:219`); two installations at once may leave a hash ahead of what is
  installed.

## 6. Not modelled, and the plan

Not modelled: the cipher and key derivation of backups; templates and the
scaffolding script, which are pure input and output; the HTTP adapters of the AI
backends; search and the other read-only operations; directories of the file
manager and the API keys of tenants; the refresh tokens of
`auth/service.py`, which have no caller; the launcher's probing of the machine,
its command line and env file.

What is left: the fairness properties are out of the prover's reach, and so is
what a recursive definition computes for every input.  The parts above that are
modelled in part, the directories of the file manager before all, would be the
next to add.
