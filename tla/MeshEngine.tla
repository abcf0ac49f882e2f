----------------------------- MODULE MeshEngine -----------------------------
(***************************************************************************)
(* services/sync/engine.py, the part of MeshSyncEngine that keeps one       *)
(* asyncio task per enabled peer: start, stop, the loop of a peer with its  *)
(* pull-then-push cycle and its back-off, kick, and the reconciliation of   *)
(* the tasks with the peers table after SyncService changed it.             *)
(*                                                                         *)
(* All of it runs on one event loop; an action is what a coroutine does     *)
(* between two awaits.  What a bundle contains is left out.  A back-off is  *)
(* counted in units of the default interval of 30 seconds.                  *)
(***************************************************************************)
EXTENDS Integers, FiniteSets

CONSTANTS Peers,       \* ids a peer can be given
          Admins,      \* numbers of requests that change a peer and reconcile
          Slots,       \* max_concurrent
          MaxBackoff,  \* _MAX_BACKOFF_S in units of _DEFAULT_INTERVAL_S
          Faults,      \* what may fail: "pull", "push", "db"
          Kinds,       \* what a peer can be created as
          MaxGen,      \* bound: tasks made for one peer
          MaxChanges,  \* bound: changes of the peers table
          MaxKicks     \* bound: calls of kick()

ASSUME MeshAssumption ==
    /\ IsFiniteSet(Peers) /\ Admins \subseteq Nat
    /\ Slots \in Nat \ {0}
    /\ MaxBackoff \in Nat \ {0}
    /\ Faults \subseteq {"pull", "push", "db"}
    /\ Kinds \subseteq [enabled : BOOLEAN, key : {"none", "ok"}]
    /\ MaxGen \in Nat \ {0} /\ MaxChanges \in Nat /\ MaxKicks \in Nat

VARIABLES
    engine,   \* the lifespan: "off", "starting", "on", "stopping", "stopped"
    running,  \* _running
    peer,     \* sync_peers
    tasks,    \* _tasks: which task of a peer is registered, 0 for none
    events,   \* _kick_events: the task whose event is registered
    made,     \* tasks made for each peer so far
    loop,     \* every task made: where it stands, whether it was cancelled, its event
    free,     \* free places of the semaphore
    snapshot, \* the enabled peers start() has read
    admin,    \* the requests, the enabled peers they have read, and whether
              \*   another one has changed the table since (late: history)
    overtaken,\* history: what was applied last was read before that change
    changes,  \* changes of the table so far
    kicks     \* calls of kick() so far

registry == <<tasks, events, made>>
bounds == <<changes, kicks>>
vars == <<engine, running, peer, registry, loop, free, snapshot, admin, overtaken, bounds>>

Gens     == 1..MaxGen
InCycle  == {"read", "pull", "pulled", "reread", "push"}
Awaits   == InCycle \cup {"slot", "error", "asleep"}
Points   == Awaits \cup {"none", "created", "done", "died"}  \* it returned, it raised
Keys     == {"none", "ok"}   \* their_key_for_us: unset or not decryptable, or usable

NoPeer   == [is |-> "absent", enabled |-> FALSE, key |-> "none", backoff |-> 0]
NewPeers == {[is |-> "present", enabled |-> k.enabled, key |-> k.key, backoff |-> 0] : k \in Kinds}
NoLoop   == [at |-> "none", cancel |-> FALSE, kicked |-> FALSE]
NewLoop  == [NoLoop EXCEPT !.at = "created"]

Alive(p, g) == loop[p][g].at \notin {"none", "done", "died"}
Enabled(p)  == peer[p].is = "present" /\ peer[p].enabled
Holders == {l \in Peers \X Gens : loop[l[1]][l[2]].at \in InCycle}
EnabledPeers == {p \in Peers : Enabled(p)}

NoRequest == [at |-> "idle", read |-> {}, late |-> FALSE]

(* The database may hold peers from an earlier life of the process. *)
Init == /\ engine = "off" /\ running = FALSE
        /\ peer \in [Peers -> {NoPeer} \cup NewPeers]
        /\ tasks = [p \in Peers |-> 0] /\ events = [p \in Peers |-> 0]
        /\ made = [p \in Peers |-> 0]
        /\ loop = [p \in Peers |-> [g \in Gens |-> NoLoop]]
        /\ free = Slots /\ snapshot = {}
        /\ admin = [a \in Admins |-> NoRequest] /\ overtaken = FALSE
        /\ changes = 0 /\ kicks = 0

----------------------------------------------------------------------------
(* _start_peer_task, for a set of peers: a task that is not done is kept. *)
ToStart(P) == {p \in P : made[p] < MaxGen /\ (tasks[p] = 0 \/ ~Alive(p, tasks[p]))}

Started(P, l) == [p \in Peers |-> IF p \in ToStart(P)
                                  THEN [l[p] EXCEPT ![made[p] + 1] = NewLoop] ELSE l[p]]
Registered(P, t) == [p \in Peers |-> IF p \in ToStart(P) THEN made[p] + 1 ELSE t[p]]

(* Slip: the task is dropped from the table but goes on. *)
StoppedUncancelled(P, l) == l

(* _stop_peer_task, for a set of peers. *)
Stopped(P, l) == [p \in Peers |-> IF p \in P
                                  THEN [l[p] EXCEPT ![tasks[p]].cancel = TRUE] ELSE l[p]]
Unregistered(P, t) == [p \in Peers |-> IF p \in P THEN 0 ELSE t[p]]

(* start(): up to the await of the query. *)
EngineStart == /\ engine = "off"
               /\ engine' = "starting" /\ running' = TRUE /\ snapshot' = EnabledPeers
               /\ UNCHANGED <<peer, registry, loop, free, admin, overtaken, bounds>>

EngineStarted == /\ engine = "starting"
                 /\ engine' = "on" /\ snapshot' = {}
                 /\ loop' = Started(snapshot, loop)
                 /\ tasks' = Registered(snapshot, tasks)
                 /\ events' = Registered(snapshot, events)
                 /\ made' = Registered(snapshot, made)
                 /\ UNCHANGED <<running, peer, free, admin, overtaken, bounds>>

(* stop(): cancels, waits for every task, forgets them. *)
EngineStop == /\ engine = "on" /\ \A a \in Admins : admin[a].at = "idle"
              /\ engine' = "stopping" /\ running' = FALSE
              /\ loop' = Stopped({p \in Peers : tasks[p] # 0}, loop)
              /\ UNCHANGED <<peer, registry, free, snapshot, admin, overtaken, bounds>>

EngineStopped == /\ engine = "stopping"
                 /\ \A p \in Peers : tasks[p] # 0 => ~Alive(p, tasks[p])
                 /\ engine' = "stopped" /\ tasks' = [p \in Peers |-> 0]
                 /\ UNCHANGED <<running, peer, events, made, loop, free, snapshot, admin,
                                overtaken, bounds>>

----------------------------------------------------------------------------
(* Steps of the loop of peer p in its g-th task. *)
Ready(p, g, at) == loop[p][g].at = at /\ ~loop[p][g].cancel

Move(p, g, at) == loop' = [loop EXCEPT ![p][g].at = at]
Untouched == UNCHANGED <<engine, running, registry, snapshot, admin, overtaken, bounds>>

(* The head of the while loop of _peer_loop. *)
Head == IF running THEN "slot" ELSE "done"

(* The first step. *)
Begin(p, g) == /\ Ready(p, g, "created")
               /\ Move(p, g, Head)
               /\ UNCHANGED <<peer, free>> /\ Untouched

(* async with self._semaphore *)
Acquire(p, g) == /\ Ready(p, g, "slot") /\ free > 0
                 /\ free' = free - 1
                 /\ Move(p, g, "read")
                 /\ UNCHANGED peer /\ Untouched

Finish(p, g) == Move(p, g, "asleep") /\ free' = free + 1

(* _sync_cycle: a peer that is gone, disabled or without a usable key makes *)
(* a cycle that succeeds at once.                                           *)
Read(p, g) == /\ Ready(p, g, "read")
              /\ IF Enabled(p) /\ peer[p].key = "ok"
                 THEN Move(p, g, "pull") /\ UNCHANGED free
                 ELSE Finish(p, g)
              /\ UNCHANGED peer /\ Untouched

(* call_peer_pull and _apply_bundle; an unreadable bundle counts as an empty *)
(* one, a row that cannot be applied is skipped.                             *)
Pull(p, g) == /\ Ready(p, g, "pull")
              /\ Move(p, g, "pulled")
              /\ UNCHANGED <<peer, free>> /\ Untouched

ResetBackoff(p) == peer' = [peer EXCEPT ![p].backoff = IF peer[p].is = "present" THEN 0 ELSE @]

RecordPullSuccess(p, g) ==
    /\ Ready(p, g, "pulled")
    /\ ResetBackoff(p)
    /\ Move(p, g, "reread")
    /\ UNCHANGED free /\ Untouched

(* The peer is read again, and _push_cycle is left early if it is gone, its *)
(* key is unusable or the bundle could not be built.                        *)
Reread(p, g) ==
    /\ Ready(p, g, "reread")
    /\ \/ /\ peer[p].is = "present" /\ peer[p].key = "ok"
          /\ Move(p, g, "push") /\ UNCHANGED free
       \/ /\ peer[p].is # "present" \/ peer[p].key # "ok" \/ "db" \in Faults
          /\ Finish(p, g)
    /\ UNCHANGED peer /\ Untouched

(* call_peer_push and record_push_success. *)
Push(p, g) ==
    /\ Ready(p, g, "push")
    /\ ResetBackoff(p)
    /\ Finish(p, g)
    /\ Untouched

(* What can raise in a cycle; the filter on origins reads the database. *)
Raises(at) == \/ at = "pull" /\ "pull" \in Faults
              \/ at = "push" /\ "push" \in Faults
              \/ at \in InCycle /\ "db" \in Faults

(* Slip: the place is not given back on the way out. *)
CycleFailsHolding(p, g) ==
    /\ loop[p][g].at \in InCycle /\ ~loop[p][g].cancel /\ Raises(loop[p][g].at)
    /\ Move(p, g, "error")
    /\ UNCHANGED <<peer, free>> /\ Untouched

CycleFails(p, g) ==
    /\ loop[p][g].at \in InCycle /\ ~loop[p][g].cancel /\ Raises(loop[p][g].at)
    /\ Move(p, g, "error") /\ free' = free + 1
    /\ UNCHANGED peer /\ Untouched

Least(a, b) == IF a < b THEN a ELSE b
Most(a, b)  == IF a > b THEN a ELSE b

(* Slip: no ceiling. *)
NextBackoffUnbounded(b) == Most(2 * b, 1)

NextBackoff(b) == Least(Most(2 * b, 1), MaxBackoff)

(* _handle_error; the delay of a peer that is gone is the longest one. *)
HandleError(p, g) ==
    /\ Ready(p, g, "error")
    /\ IF peer[p].is = "present"
       THEN peer' = [peer EXCEPT ![p].backoff = NextBackoff(@)]
       ELSE UNCHANGED peer
    /\ Move(p, g, "asleep")
    /\ UNCHANGED free /\ Untouched

(* An exception in _handle_error is raised in the except block of           *)
(* _peer_loop: it ends the task, which stays in _tasks.                     *)
LoopDies(p, g) == /\ Ready(p, g, "error") /\ "db" \in Faults
                  /\ Move(p, g, "died")
                  /\ UNCHANGED <<peer, free>> /\ Untouched

(* wait_for(kick_event.wait(), timeout) *)
Wake(p, g) == /\ Ready(p, g, "asleep") /\ loop[p][g].kicked
              /\ loop' = [loop EXCEPT ![p][g].at = Head, ![p][g].kicked = FALSE]
              /\ UNCHANGED <<peer, free>> /\ Untouched

Timeout(p, g) == /\ Ready(p, g, "asleep")
                 /\ Move(p, g, Head)
                 /\ UNCHANGED <<peer, free>> /\ Untouched

(* CancelledError at whatever the task awaits; the semaphore is left. *)
Cancelled(p, g) == /\ Alive(p, g) /\ loop[p][g].cancel
                   /\ Move(p, g, "done")
                   /\ free' = IF loop[p][g].at \in InCycle THEN free + 1 ELSE free
                   /\ UNCHANGED peer /\ Untouched

----------------------------------------------------------------------------
(* Requests are served between start-up and shut-down.                      *)

(* kick(): sets the registered event, if there is one. *)
Kick(p) == /\ engine = "on" /\ events[p] # 0 /\ ~loop[p][events[p]].kicked /\ kicks < MaxKicks
           /\ loop' = [loop EXCEPT ![p][events[p]].kicked = TRUE]
           /\ kicks' = kicks + 1
           /\ UNCHANGED <<engine, running, peer, registry, free, snapshot, admin, overtaken,
                          changes>>

(* create_peer, update_peer and delete_peer of SyncService, by a request    *)
(* that will call on_peer_config_change and takes the first free number.    *)
Changed(p) == IF peer[p].is = "absent"
              THEN NewPeers
              ELSE {[peer[p] EXCEPT !.enabled = ~@], [peer[p] EXCEPT !.is = "deleted"]}
                   \cup {[peer[p] EXCEPT !.key = k] : k \in Keys \ {peer[p].key}}

ChangePeer(a, p) ==
    /\ engine = "on" /\ changes < MaxChanges
    /\ admin[a].at = "idle" /\ \A b \in Admins : b < a => admin[b].at # "idle"
    /\ peer[p].is # "deleted"
    /\ \E new \in Changed(p) : peer' = [peer EXCEPT ![p] = new]
    /\ admin' = [b \in Admins |-> IF b = a THEN [admin[b] EXCEPT !.at = "changed"]
                                  ELSE [admin[b] EXCEPT !.late = admin[b].at = "read"]]
    /\ changes' = changes + 1
    /\ UNCHANGED <<engine, running, registry, loop, free, snapshot, overtaken, kicks>>

(* on_peer_config_change: the query, *)
ReconcileRead(a) ==
    /\ admin[a].at = "changed"
    /\ admin' = [admin EXCEPT ![a] = [at |-> "read", read |-> EnabledPeers, late |-> FALSE]]
    /\ UNCHANGED <<engine, running, peer, registry, loop, free, snapshot, overtaken, bounds>>

(* Slip: tasks are started but never stopped. *)
ReconcileOnlyStarts(a) ==
    LET on  == {p \in admin[a].read : tasks[p] = 0}
    IN  /\ admin[a].at = "read"
        /\ admin' = [admin EXCEPT ![a] = NoRequest] /\ overtaken' = admin[a].late
        /\ loop' = Started(on, loop)
        /\ tasks' = Registered(on, tasks)
        /\ events' = Registered(on, events)
        /\ made' = Registered(on, made)
        /\ UNCHANGED <<engine, running, peer, free, snapshot, bounds>>

(* and the differences with _tasks, in which a task that is over still      *)
(* counts.                                                                  *)
ReconcileApply(a) ==
    LET on  == {p \in admin[a].read : tasks[p] = 0}
        off == {p \in Peers \ admin[a].read : tasks[p] # 0}
    IN  /\ admin[a].at = "read"
        /\ \A p \in on : made[p] < MaxGen
        /\ admin' = [admin EXCEPT ![a] = NoRequest] /\ overtaken' = admin[a].late
        /\ loop' = Started(on, Stopped(off, loop))
        /\ tasks' = Registered(on, Unregistered(off, tasks))
        /\ events' = Registered(on, Unregistered(off, events))
        /\ made' = Registered(on, made)
        /\ UNCHANGED <<engine, running, peer, free, snapshot, bounds>>

----------------------------------------------------------------------------
CycleStep(p, g) == \/ Read(p, g) \/ Pull(p, g) \/ RecordPullSuccess(p, g)
                   \/ Reread(p, g) \/ Push(p, g) \/ CycleFails(p, g)

LoopStep(p, g) == \/ Begin(p, g) \/ CycleStep(p, g) \/ HandleError(p, g) \/ LoopDies(p, g)
                  \/ Wake(p, g) \/ Timeout(p, g) \/ Cancelled(p, g)

Lifespan == EngineStart \/ EngineStarted \/ EngineStop \/ EngineStopped

Reconcile(a) == ReconcileRead(a) \/ ReconcileApply(a)

Next == \/ Lifespan
        \/ \E p \in Peers : Kick(p) \/ \E g \in Gens : Acquire(p, g) \/ LoopStep(p, g)
        \/ \E a \in Admins : Reconcile(a) \/ \E p \in Peers : ChangePeer(a, p)

(* Ready coroutines run, calls to a peer end (the client has a timeout of   *)
(* 30 s), sleeps end, and asyncio.Semaphore serves its waiters in order.    *)
(* Nobody has to kick, change a peer or stop the engine.                    *)
Fairness == /\ WF_vars(EngineStarted) /\ WF_vars(EngineStopped)
            /\ \A p \in Peers : /\ WF_vars(\E g \in Gens : LoopStep(p, g))
                                /\ SF_vars(\E g \in Gens : Acquire(p, g))
            /\ \A a \in Admins : WF_vars(Reconcile(a))

Spec == Init /\ [][Next]_vars
FairSpec == Spec /\ Fairness

----------------------------------------------------------------------------
TypeOK ==
    /\ engine \in {"off", "starting", "on", "stopping", "stopped"} /\ running \in BOOLEAN
    /\ peer \in [Peers -> [is : {"absent", "present", "deleted"}, enabled : BOOLEAN,
                           key : Keys, backoff : 0..MaxBackoff]]
    /\ tasks \in [Peers -> 0..MaxGen] /\ events \in [Peers -> 0..MaxGen]
    /\ made \in [Peers -> 0..MaxGen]
    /\ loop \in [Peers -> [Gens -> [at : Points, cancel : BOOLEAN, kicked : BOOLEAN]]]
    /\ free \in 0..Slots
    /\ snapshot \in SUBSET Peers
    /\ admin \in [Admins -> [at : {"idle", "changed", "read"}, read : SUBSET Peers,
                             late : BOOLEAN]]
    /\ overtaken \in BOOLEAN
    /\ changes \in 0..MaxChanges /\ kicks \in 0..MaxKicks

(* A peer never has two loops at work: a task that was not cancelled is the *)
(* registered one, so that stop(), a reconciliation and kick() reach it and *)
(* none is left once the engine has stopped.  This is not obvious of a task *)
(* that is replaced while its cancellation is still on its way.             *)
LoopsAreRegistered ==
    \A p \in Peers, g \in Gens :
        Alive(p, g) /\ ~loop[p][g].cancel => tasks[p] = g /\ events[p] = g

(* Every way out of a cycle, by an error, a cancellation or an early        *)
(* return, gives the place in the semaphore back, so that the number of     *)
(* cycles at work never exceeds max_concurrent and never shrinks it.        *)
SlotsAreConserved == free + Cardinality(Holders) = Slots

(* Once the requests have finished, on_peer_config_change has left every    *)
(* enabled peer with a task that works, or whose own error handler raised,  *)
(* and no other peer with one: whatever requests overlapped, if the one     *)
(* that applied its differences last was not overtaken between its query    *)
(* and that by a change that another one made.                              *)
SettledPeersHaveTasks ==
    engine = "on" /\ (\A a \in Admins : admin[a].at = "idle") /\ ~overtaken
        => \A p \in Peers : IF Enabled(p) THEN tasks[p] # 0 /\ loop[p][tasks[p]].at # "done"
                                          ELSE tasks[p] = 0

(* "One asyncio.Task is maintained per enabled peer": as long as it is      *)
(* enabled, with a usable key, a peer is contacted again and again, or the  *)
(* database does not let it, however often it fails, however few places the *)
(* semaphore has, whatever tasks were cancelled and replaced; except that a *)
(* loop whose _handle_error raised is gone for good, and that a             *)
(* reconciliation that was overtaken by a change may leave it without one   *)
(* until the next.                                                          *)
EnabledPeersKeepSyncing ==
    \A p \in Peers :
        []<>(\/ engine # "on" \/ ~Enabled(p) \/ peer[p].key # "ok"
             \/ tasks[p] # 0 /\ loop[p][tasks[p]].at = "died"
             \/ tasks[p] = 0 /\ overtaken
             \/ \E g \in Gens : loop[p][g].at \in {"pull", "error"})
=============================================================================
