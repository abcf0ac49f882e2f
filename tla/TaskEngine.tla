----------------------------- MODULE TaskEngine -----------------------------
(***************************************************************************)
(* The background task engine (core/task_engine.py) with the two clients   *)
(* it has: the REST endpoints of api/v1/tasks.py and the WebSocket stream  *)
(* of api/v1/ws.py.                                                        *)
(*                                                                         *)
(* Two kinds of actor interleave.  Coroutines (task bodies, notifications, *)
(* WebSocket handlers) share one event loop: while `current' is a task,    *)
(* its coroutine holds the loop and no other coroutine moves.  The REST    *)
(* endpoints are plain functions, which FastAPI runs in worker threads:    *)
(* their steps happen at any moment, the middle of a coroutine included.   *)
(*                                                                         *)
(* A task body is consumer code (external): between two awaits it may emit *)
(* output, report progress or ask a question, and it ends by returning or  *)
(* raising.  It does not swallow CancelledError.                           *)
(***************************************************************************)
EXTENDS Naturals, Sequences, FiniteSets

CONSTANTS Tasks,       \* task ids
          Subs,        \* WebSocket connections
          Responders,  \* POST /tasks/{id}/respond requests
          Clearers,    \* POST /tasks/clear-finished requests
          None,        \* "no task"
          MaxLines,    \* bound: emit_output calls of one body
          MaxProgress, \* bound: update_progress calls of one body
          MaxAsks,     \* bound: ask_question calls of one body
          QueueMax,    \* asyncio.Queue(maxsize=256) of a subscriber
          MaxCompleted \* cleanup_old's max_completed (50 by default)

ASSUME TaskEngineAssumption ==
    /\ None \notin Tasks
    /\ MaxLines \in Nat /\ MaxProgress \in Nat /\ MaxAsks \in Nat
    /\ QueueMax \in Nat \ {0}
    /\ MaxCompleted \in Nat

VARIABLES
    status,      \* Task.status of each Task object, "absent" before submit()
    registered,  \* keys of _tasks (and of _running: set and popped together)
    pc,          \* where the asyncio.Task running _run() stands
    cancelReq,   \* cancel() was called on the asyncio.Task
    current,     \* the task whose coroutine holds the event loop
    lines,       \* len(Task.output_lines)
    steps,       \* update_progress calls made
    asks,        \* ask_question calls made: the last one's future is fut[t][asks[t]]
    fut,         \* state of the future of each question
    timer,       \* the wait_for timer of the open question
    replies,     \* what each question returned to the body
    scheduled,   \* _notify calls handed to ensure_future, not yet run
    completed,   \* tasks in the order of completed_at
    subscribers, \* _subscribers
    ws,          \* each connection: its state, its task, the lines it started after
    queue,       \* each connection's asyncio.Queue
    seen,        \* events each client has been sent
    lost,        \* connections that had an event dropped by a full queue
    responder,   \* each respond request: its state and the future it holds
    clearer      \* each clear-finished request: ids left to pop, or not started

bodyVars == <<pc, cancelReq, current>>
workVars == <<lines, steps, scheduled>>
askVars  == <<asks, fut, timer, replies>>
subVars  == <<subscribers, ws, queue, seen, lost>>
reqVars  == <<responder, clearer>>
vars == <<status, registered, completed, bodyVars, workVars, askVars, subVars, reqVars>>

TerminalStatus == {"completed", "failed", "cancelled"}
ActiveStatus   == {"pending", "running", "waiting"}
Status         == TerminalStatus \cup ActiveStatus

(***************************************************************************)
(* created    the asyncio.Task exists, its first step has not run          *)
(* segment    the body runs and holds the loop                             *)
(* suspended  the body awaits something of its own                         *)
(* asked      in ask_question, about to await the future, holds the loop   *)
(* asking     in wait_for, the loop is free                                *)
(* raising    CancelledError is propagating out of the body                *)
(* exiting    _run has set the terminal status, before its finally block   *)
(* finished   _run is over;  dropped: cancelled before its first step      *)
(***************************************************************************)
PCs == {"none", "created", "segment", "suspended", "asked", "asking", "raising",
        "exiting", "finished", "dropped"}
Holding == {"segment", "asked", "raising", "exiting"}
Live    == Holding \cup {"created", "suspended", "asking"}

FutStates == {"none", "pending", "answered", "cancelled"}
Events    == [type : {"output"}, n : Nat \ {0}]
             \cup {[type |-> x, n |-> 0] : x \in {"progress", "question", "done"}}
Connections == [at : {"off", "refused", "snapshot", "streaming", "closed", "gone"},
                task : Tasks \cup {None}]
Answers     == [at : {"idle", "checked", "accepted", "refused"},
                task : Tasks \cup {None}, ask : 0..MaxAsks]
Output(n) == [type |-> "output", n |-> n]
Event(x)  == [type |-> x, n |-> 0]

----------------------------------------------------------------------------
Init == /\ status = [t \in Tasks |-> "absent"]
        /\ registered = {}
        /\ pc = [t \in Tasks |-> "none"]
        /\ cancelReq = [t \in Tasks |-> FALSE]
        /\ current = None
        /\ lines = [t \in Tasks |-> 0]
        /\ steps = [t \in Tasks |-> 0]
        /\ asks = [t \in Tasks |-> 0]
        /\ fut = [t \in Tasks |-> [k \in 1..MaxAsks |-> "none"]]
        /\ timer = [t \in Tasks |-> "off"]
        /\ replies = [t \in Tasks |-> <<>>]
        /\ scheduled = [t \in Tasks |-> <<>>]
        /\ completed = <<>>
        /\ subscribers = [t \in Tasks |-> {}]
        /\ ws = [s \in Subs |-> [at |-> "off", task |-> None]]
        /\ queue = [s \in Subs |-> <<>>]
        /\ seen = [s \in Subs |-> <<>>]
        /\ lost = {}
        /\ responder = [r \in Responders |-> [at |-> "idle", task |-> None, ask |-> 0]]
        /\ clearer = [c \in Clearers |-> [at |-> "idle", left |-> {}]]

----------------------------------------------------------------------------
(* TaskEngine._notify: put_nowait on every subscriber queue, drop when full. *)
(* Slip: maxsize compared with > lets one event too many in. *)
FullOffByOne(s) == Len(queue[s]) > QueueMax

Full(s) == Len(queue[s]) >= QueueMax

Notify(t, e) ==
    /\ queue' = [s \in Subs |-> IF s \in subscribers[t] /\ ~Full(s)
                                THEN Append(queue[s], e) ELSE queue[s]]
    /\ lost' = lost \cup {s \in subscribers[t] : Full(s)}
    /\ UNCHANGED <<subscribers, ws, seen>>

LoopFree == current = None

(* TaskEngine.submit, called from a coroutine. *)
Submit(t) ==
    /\ LoopFree /\ status[t] = "absent"
    /\ status' = [status EXCEPT ![t] = "pending"]
    /\ registered' = registered \cup {t}
    /\ pc' = [pc EXCEPT ![t] = "created"]
    /\ UNCHANGED <<completed, cancelReq, current, workVars, askVars, subVars, reqVars>>

(* First step of _run. *)
Start(t) ==
    /\ LoopFree /\ pc[t] = "created" /\ ~cancelReq[t]
    /\ status' = [status EXCEPT ![t] = "running"]
    /\ pc' = [pc EXCEPT ![t] = "segment"]
    /\ current' = t
    /\ UNCHANGED <<registered, completed, cancelReq, workVars, askVars, subVars, reqVars>>

(* asyncio throws CancelledError into a coroutine that has not started: no *)
(* line of _run is executed, its finally block included.                   *)
StartCancelled(t) ==
    /\ LoopFree /\ pc[t] = "created" /\ cancelReq[t]
    /\ pc' = [pc EXCEPT ![t] = "dropped"]
    /\ UNCHANGED <<status, registered, completed, cancelReq, current, workVars,
                   askVars, subVars, reqVars>>

InSegment(t) == current = t /\ pc[t] = "segment"

(* TaskEngine.emit_output; ensure_future only schedules the notification. *)
EmitOutput(t) ==
    /\ InSegment(t) /\ t \in registered /\ lines[t] < MaxLines
    /\ lines' = [lines EXCEPT ![t] = @ + 1]
    /\ scheduled' = [scheduled EXCEPT ![t] = Append(@, Output(lines[t] + 1))]
    /\ UNCHANGED <<status, registered, completed, steps, bodyVars, askVars, subVars, reqVars>>

(* TaskEngine.update_progress; the clamped value and the label are left out. *)
UpdateProgress(t) ==
    /\ InSegment(t) /\ t \in registered /\ steps[t] < MaxProgress
    /\ steps' = [steps EXCEPT ![t] = @ + 1]
    /\ scheduled' = [scheduled EXCEPT ![t] = Append(@, Event("progress"))]
    /\ UNCHANGED <<status, registered, completed, lines, bodyVars, askVars, subVars, reqVars>>

(* ask_question up to wait_for: the notification is awaited in place and *)
(* overtakes the scheduled ones.                                         *)
AskQuestion(t) ==
    /\ InSegment(t) /\ t \in registered /\ asks[t] < MaxAsks
    /\ status' = [status EXCEPT ![t] = "waiting"]
    /\ asks' = [asks EXCEPT ![t] = @ + 1]
    /\ fut' = [fut EXCEPT ![t][asks[t] + 1] = "pending"]
    /\ pc' = [pc EXCEPT ![t] = "asked"]
    /\ Notify(t, Event("question"))
    /\ UNCHANGED <<registered, completed, cancelReq, current, workVars, timer,
                   replies, reqVars>>

OpenFuture(t) == fut[t][asks[t]]

(* The finally block of ask_question, entered with what the body gets. *)
LeaveQuestion(t, reply, next) ==
    /\ status' = [status EXCEPT ![t] = "running"]
    /\ replies' = [replies EXCEPT ![t] = Append(@, reply)]
    /\ timer' = [timer EXCEPT ![t] = "off"]
    /\ pc' = [pc EXCEPT ![t] = next]
    /\ current' = t
    /\ UNCHANGED <<registered, completed, cancelReq, workVars, asks, fut, subVars, reqVars>>

(* wait_for on a future a thread has already resolved returns at once and *)
(* never gives the loop away.                                             *)
AwaitAnswered(t) ==
    /\ current = t /\ pc[t] = "asked" /\ OpenFuture(t) = "answered"
    /\ LeaveQuestion(t, "answer", "segment")

(* Otherwise the coroutine yields; a cancellation requested while it held *)
(* the loop cancels the future it now waits for.                          *)
AwaitPending(t) ==
    /\ current = t /\ pc[t] = "asked" /\ OpenFuture(t) = "pending"
    /\ pc' = [pc EXCEPT ![t] = "asking"]
    /\ fut' = [fut EXCEPT ![t][asks[t]] = IF cancelReq[t] THEN "cancelled" ELSE @]
    /\ current' = None
    /\ UNCHANGED <<status, registered, completed, cancelReq, workVars, asks, timer,
                   replies, subVars, reqVars>>

(* The timer of wait_for is moved to the loop's ready queue when it is due. *)
(* Had the future been done before, the wake-up would be ahead of it in     *)
(* that queue and would disarm it.                                          *)
TimerDue(t) ==
    /\ LoopFree /\ pc[t] = "asking" /\ timer[t] = "off" /\ OpenFuture(t) = "pending"
    /\ timer' = [timer EXCEPT ![t] = "due"]
    /\ UNCHANGED <<status, registered, completed, bodyVars, workVars, asks, fut, replies,
                   subVars, reqVars>>

(* Slip: the timer gives up without waking the coroutine. *)
TimerFiresUnheard(t) ==
    /\ LoopFree /\ pc[t] = "asking" /\ timer[t] = "due"
    /\ timer' = [timer EXCEPT ![t] = "fired"]
    /\ UNCHANGED <<status, registered, completed, bodyVars, workVars, asks, fut, replies,
                   subVars, reqVars>>

(* Its callback cancels the coroutine, hence a pending future.  A future   *)
(* answered since stays answered, the cancellation is kept for the wake-up. *)
TimerFires(t) ==
    /\ LoopFree /\ pc[t] = "asking" /\ timer[t] = "due"
    /\ timer' = [timer EXCEPT ![t] = "fired"]
    /\ fut' = [fut EXCEPT ![t][asks[t]] = IF @ = "pending" THEN "cancelled" ELSE @]
    /\ UNCHANGED <<status, registered, completed, bodyVars, workVars, asks, replies,
                   subVars, reqVars>>

(* The wake-up of a coroutine is queued behind the notifications that it *)
(* scheduled before it went to sleep.                                    *)
Wakes(t) == LoopFree /\ scheduled[t] = <<>>

(* A requested cancellation wins over a timeout, a timeout over an answer. *)
ResumeFromQuestion(t) ==
    /\ Wakes(t) /\ pc[t] = "asking" /\ OpenFuture(t) # "pending" /\ timer[t] # "due"
    /\ CASE cancelReq[t] -> LeaveQuestion(t, "raised", "raising")
         [] ~cancelReq[t] /\ timer[t] = "fired" -> LeaveQuestion(t, "empty", "segment")
         [] OTHER -> LeaveQuestion(t, "answer", "segment")

(* An await of the body's own. *)
Suspend(t) ==
    /\ InSegment(t)
    /\ pc' = [pc EXCEPT ![t] = "suspended"]
    /\ current' = None
    /\ UNCHANGED <<status, registered, completed, cancelReq, workVars, askVars, subVars, reqVars>>

(* Slip: a cancellation requested while the body slept is not raised. *)
ResumeDeaf(t) ==
    /\ Wakes(t) /\ pc[t] = "suspended"
    /\ pc' = [pc EXCEPT ![t] = "segment"]
    /\ current' = t
    /\ UNCHANGED <<status, registered, completed, cancelReq, workVars, askVars, subVars, reqVars>>

ResumeBody(t) ==
    /\ Wakes(t) /\ pc[t] = "suspended"
    /\ pc' = [pc EXCEPT ![t] = IF cancelReq[t] THEN "raising" ELSE "segment"]
    /\ current' = t
    /\ UNCHANGED <<status, registered, completed, cancelReq, workVars, askVars, subVars, reqVars>>

(* The body returns, raises, or lets CancelledError through. *)
Outcome(t, from, s) ==
    /\ current = t /\ pc[t] = from
    /\ status' = [status EXCEPT ![t] = s]
    /\ pc' = [pc EXCEPT ![t] = "exiting"]
    /\ UNCHANGED <<registered, completed, cancelReq, current, workVars, askVars, subVars, reqVars>>

Return(t)    == Outcome(t, "segment", "completed")
Raise(t)     == Outcome(t, "segment", "failed")
Cancelled(t) == Outcome(t, "raising", "cancelled")

(* The finally block of _run; its notification too is awaited in place. *)
Finalize(t) ==
    /\ current = t /\ pc[t] = "exiting"
    /\ completed' = Append(completed, t)
    /\ Notify(t, Event("done"))
    /\ pc' = [pc EXCEPT ![t] = "finished"]
    /\ current' = None
    /\ UNCHANGED <<status, registered, cancelReq, workVars, askVars, reqVars>>

(* Slip: the latest notification runs first. *)
RunNewestNotification(t) ==
    /\ LoopFree /\ scheduled[t] # <<>>
    /\ scheduled' = [scheduled EXCEPT ![t] = SubSeq(@, 1, Len(@) - 1)]
    /\ Notify(t, scheduled[t][Len(scheduled[t])])
    /\ UNCHANGED <<status, registered, completed, lines, steps, bodyVars, askVars, reqVars>>

(* A scheduled notification gets its turn on the loop. *)
RunNotification(t) ==
    /\ LoopFree /\ scheduled[t] # <<>>
    /\ scheduled' = [scheduled EXCEPT ![t] = Tail(@)]
    /\ Notify(t, Head(scheduled[t]))
    /\ UNCHANGED <<status, registered, completed, lines, steps, bodyVars, askVars, reqVars>>

(* cleanup_old, called from a coroutine: keep the most recent terminal tasks. *)
Newer(t) == {u \in registered : \E i, j \in DOMAIN completed :
                                   completed[i] = t /\ completed[j] = u /\ i < j}

Old(t) == t \in registered /\ status[t] \in TerminalStatus
          /\ Cardinality({u \in Newer(t) : status[u] \in TerminalStatus}) >= MaxCompleted

CleanupOld ==
    /\ LoopFree
    /\ \E t \in Tasks : Old(t)
    /\ registered' = {t \in registered : ~Old(t)}
    /\ subscribers' = [t \in Tasks |-> IF Old(t) THEN {} ELSE subscribers[t]]
    /\ UNCHANGED <<status, completed, ws, queue, seen, lost, bodyVars, workVars,
                   askVars, reqVars>>

----------------------------------------------------------------------------
(* api/v1/tasks.py, each step in a worker thread.                          *)

(* Slip: the endpoint marks the task cancelled itself. *)
CancelEagerly(t) ==
    /\ t \in registered /\ status[t] \in ActiveStatus
    /\ pc[t] \notin {"finished", "dropped"} /\ ~cancelReq[t]
    /\ cancelReq' = [cancelReq EXCEPT ![t] = TRUE]
    /\ status' = [status EXCEPT ![t] = "cancelled"]
    /\ fut' = IF pc[t] = "asking" /\ OpenFuture(t) = "pending"
              THEN [fut EXCEPT ![t][asks[t]] = "cancelled"] ELSE fut
    /\ UNCHANGED <<registered, completed, pc, current, workVars, asks, timer,
                   replies, subVars, reqVars>>

(* cancel_task, engine.cancel and asyncio.Task.cancel.  Nothing that can  *)
(* change between the status check and the cancellation matters: a task   *)
(* that became terminal in between ignores it.                            *)
CancelTask(t) ==
    /\ t \in registered /\ status[t] \in ActiveStatus
    /\ pc[t] \notin {"finished", "dropped"} /\ ~cancelReq[t]
    /\ cancelReq' = [cancelReq EXCEPT ![t] = TRUE]
    /\ fut' = IF pc[t] = "asking" /\ OpenFuture(t) = "pending"
              THEN [fut EXCEPT ![t][asks[t]] = "cancelled"] ELSE fut
    /\ UNCHANGED <<status, registered, completed, pc, current, workVars, asks, timer,
                   replies, subVars, reqVars>>

(* respond_to_task and submit_answer up to the done() check. *)
RespondCheck(r, t) ==
    /\ responder[r].at = "idle" /\ t \in registered /\ status[t] = "waiting"
    /\ OpenFuture(t) = "pending"
    /\ responder' = [responder EXCEPT ![r] = [at |-> "checked", task |-> t, ask |-> asks[t]]]
    /\ UNCHANGED <<status, registered, completed, bodyVars, workVars, askVars, subVars, clearer>>

(* Slip: the answer is stored without looking at the future again. *)
RespondAnyway(r) ==
    LET t == responder[r].task
        k == responder[r].ask
    IN  /\ responder[r].at = "checked"
        /\ fut' = [fut EXCEPT ![t][k] = "answered"]
        /\ responder' = [responder EXCEPT ![r].at = "accepted"]
        /\ UNCHANGED <<status, registered, completed, bodyVars, workVars, asks, timer,
                       replies, subVars, clearer>>

(* future.set_result, which raises InvalidStateError on a future that is done. *)
RespondSet(r) ==
    LET t == responder[r].task
        k == responder[r].ask
        ok == fut[t][k] = "pending"
    IN  /\ responder[r].at = "checked"
        /\ fut' = IF ok THEN [fut EXCEPT ![t][k] = "answered"] ELSE fut
        /\ responder' = [responder EXCEPT ![r].at = IF ok THEN "accepted" ELSE "refused"]
        /\ UNCHANGED <<status, registered, completed, bodyVars, workVars, asks, timer,
                       replies, subVars, clearer>>

(* Slip: everything but the running tasks is collected. *)
ClearScanNotRunning(c) ==
    /\ clearer[c].at = "idle"
    /\ \E t \in registered : status[t] # "running"
    /\ clearer' = [clearer EXCEPT ![c] =
           [at |-> "popping", left |-> {t \in registered : status[t] # "running"}]]
    /\ UNCHANGED <<status, registered, completed, bodyVars, workVars, askVars, subVars, responder>>

(* clear_finished: collect the terminal ids, then pop them one by one. *)
ClearScan(c) ==
    /\ clearer[c].at = "idle"
    /\ \E t \in registered : status[t] \in TerminalStatus
    /\ clearer' = [clearer EXCEPT ![c] =
           [at |-> "popping", left |-> {t \in registered : status[t] \in TerminalStatus}]]
    /\ UNCHANGED <<status, registered, completed, bodyVars, workVars, askVars, subVars, responder>>

ClearPop(c, t) ==
    /\ clearer[c].at = "popping" /\ t \in clearer[c].left
    /\ registered' = registered \ {t}
    /\ subscribers' = [subscribers EXCEPT ![t] = {}]
    /\ clearer' = [clearer EXCEPT ![c] =
           [at |-> IF clearer[c].left = {t} THEN "idle" ELSE "popping",
            left |-> clearer[c].left \ {t}]]
    /\ UNCHANGED <<status, completed, ws, queue, seen, lost, bodyVars, workVars, askVars, responder>>

----------------------------------------------------------------------------
(* api/v1/ws.py task_stream, a coroutine.                                  *)

(* Accept, look the task up, and send the snapshot, which is serialised *)
(* before the await.                                                    *)
Connect(s, t) ==
    /\ LoopFree /\ ws[s].at = "off"
    /\ ws' = [ws EXCEPT ![s] = [at |-> IF t \in registered THEN "snapshot" ELSE "refused",
                                task |-> t]]
    /\ UNCHANGED <<status, registered, completed, subscribers, queue, seen, lost,
                   bodyVars, workVars, askVars, reqVars>>

(* Slip: subscribe without looking whether the task has ended meanwhile. *)
FollowBlindly(s) ==
    LET t == ws[s].task
    IN  /\ LoopFree /\ ws[s].at = "snapshot"
        /\ ws' = [ws EXCEPT ![s] = [at |-> "streaming", task |-> t]]
        /\ subscribers' = [subscribers EXCEPT ![t] = @ \cup {s}]
        /\ UNCHANGED <<status, registered, completed, queue, seen, lost, bodyVars, workVars,
                       askVars, reqVars>>

(* After the await: done at once for a terminal task, otherwise subscribe. *)
Follow(s) ==
    LET t == ws[s].task
        over == status[t] \in TerminalStatus
    IN  /\ LoopFree /\ ws[s].at = "snapshot"
        /\ ws' = [ws EXCEPT ![s] = [at |-> IF over THEN "closed" ELSE "streaming",
                                    task |-> t]]
        /\ seen' = IF over THEN [seen EXCEPT ![s] = Append(@, Event("done"))] ELSE seen
        /\ subscribers' = IF over THEN subscribers
                          ELSE [subscribers EXCEPT ![t] = @ \cup {s}]
        /\ UNCHANGED <<status, registered, completed, queue, lost, bodyVars, workVars,
                       askVars, reqVars>>

Unsubscribe(s) == [subscribers EXCEPT ![ws[s].task] = @ \ {s}]

(* One event from the queue to the client; done ends the stream. *)
Deliver(s) ==
    LET e == Head(queue[s])
    IN  /\ LoopFree /\ ws[s].at = "streaming" /\ queue[s] # <<>>
        /\ queue' = [queue EXCEPT ![s] = Tail(@)]
        /\ seen' = [seen EXCEPT ![s] = Append(@, e)]
        /\ ws' = IF e.type = "done" THEN [ws EXCEPT ![s].at = "closed"] ELSE ws
        /\ subscribers' = IF e.type = "done" THEN Unsubscribe(s) ELSE subscribers
        /\ UNCHANGED <<status, registered, completed, lost, bodyVars, workVars, askVars, reqVars>>

(* A send (an event or the 30 s ping) fails on a connection the client left. *)
Disconnect(s) ==
    /\ LoopFree /\ ws[s].at = "streaming"
    /\ ws' = [ws EXCEPT ![s].at = "gone"]
    /\ subscribers' = Unsubscribe(s)
    /\ UNCHANGED <<status, registered, completed, queue, seen, lost, bodyVars, workVars,
                   askVars, reqVars>>

----------------------------------------------------------------------------
(* Steps of the body that the engine cannot count on, and those it can. *)
BodyWorks(t) == EmitOutput(t) \/ UpdateProgress(t)
BodyYields(t) == AskQuestion(t) \/ Suspend(t) \/ Return(t) \/ Raise(t)

(* Steps the event loop takes by itself once they are ready. *)
LoopStep(t) == \/ Start(t) \/ StartCancelled(t)
               \/ AwaitAnswered(t) \/ AwaitPending(t) \/ ResumeFromQuestion(t)
               \/ Cancelled(t) \/ Finalize(t)

Request == \/ \E t \in Tasks : CancelTask(t)
           \/ \E r \in Responders : RespondSet(r) \/ \E t \in Tasks : RespondCheck(r, t)
           \/ \E c \in Clearers : ClearScan(c) \/ \E t \in Tasks : ClearPop(c, t)

Stream(s) == Follow(s) \/ Deliver(s)

Next == \/ \E t \in Tasks : \/ Submit(t) \/ BodyWorks(t) \/ BodyYields(t) \/ LoopStep(t)
                            \/ ResumeBody(t) \/ RunNotification(t)
                            \/ TimerDue(t) \/ TimerFires(t)
        \/ CleanupOld
        \/ Request
        \/ \E s \in Subs : \/ Stream(s) \/ Disconnect(s)
                           \/ \E t \in Tasks : Connect(s, t)

(* asyncio runs its ready callbacks first in, first out, so a step that is *)
(* ready again and again is taken even if other coroutines hold the loop   *)
(* in between; timers fire; a WebSocket handler drains its queue.  A body  *)
(* does not compute for ever between two awaits.  Nothing obliges a client *)
(* to send a request.                                                      *)
Fairness == /\ \A t \in Tasks : /\ WF_vars(BodyYields(t))
                                /\ SF_vars(LoopStep(t))
                                /\ SF_vars(ResumeBody(t))
                                /\ SF_vars(RunNotification(t))
                                /\ SF_vars(TimerDue(t)) /\ SF_vars(TimerFires(t))
            /\ \A s \in Subs : SF_vars(Stream(s))

Spec == Init /\ [][Next]_vars
FairSpec == Spec /\ Fairness

----------------------------------------------------------------------------
TypeOK ==
    /\ status \in [Tasks -> Status \cup {"absent"}]
    /\ registered \in SUBSET Tasks
    /\ pc \in [Tasks -> PCs]
    /\ cancelReq \in [Tasks -> BOOLEAN]
    /\ current \in Tasks \cup {None}
    /\ lines \in [Tasks -> 0..MaxLines]
    /\ steps \in [Tasks -> 0..MaxProgress]
    /\ asks \in [Tasks -> 0..MaxAsks]
    /\ fut \in [Tasks -> [1..MaxAsks -> FutStates]]
    /\ timer \in [Tasks -> {"off", "due", "fired"}]
    /\ replies \in [Tasks -> Seq({"answer", "empty", "raised"})]
    /\ scheduled \in [Tasks -> Seq(Events)]
    /\ completed \in Seq(Tasks)
    /\ subscribers \in [Tasks -> SUBSET Subs]
    /\ ws \in [Subs -> Connections]
    /\ \A s \in Subs : ws[s].at # "off" => ws[s].task \in Tasks
    /\ queue \in [Subs -> Seq(Events)]
    /\ \A s \in Subs : Len(queue[s]) <= QueueMax
    /\ seen \in [Subs -> Seq(Events)]
    /\ lost \in SUBSET Subs
    /\ responder \in [Responders -> Answers]
    /\ clearer \in [Clearers -> [at : {"idle", "popping"}, left : SUBSET Tasks]]

(* clear_finished works from a list of ids that is stale when it pops them, *)
(* and cleanup_old from statuses: neither ever forgets a task whose body    *)
(* is still to run, so the `if task' of emit_output and the               *)
(* ValueError of ask_question are never taken by a body.                    *)
LiveIsRegistered == \A t \in Tasks : pc[t] \in Live \ {"exiting"} => t \in registered

(* A task shown as waiting is in ask_question and has a future that can   *)
(* still wake it: once its timer fired or it was cancelled, the future it *)
(* sleeps on is done, so no wake-up is lost between the three.            *)
WaitingIsWakeable ==
    \A t \in Tasks :
        /\ status[t] = "waiting" <=> pc[t] \in {"asked", "asking"}
        /\ pc[t] \in {"asked", "asking"} => asks[t] > 0 /\ OpenFuture(t) # "none"
        /\ pc[t] = "asking" /\ (timer[t] = "fired" \/ cancelReq[t]) => OpenFuture(t) # "pending"

(* Two respond requests may both pass the done() check of submit_answer,    *)
(* and one may hold the future of a question that is over: still, what      *)
(* ask_question returns as an answer was accepted from one request only,    *)
(* and that request held the future of this very question.                  *)
AnswersAreGenuine ==
    \A t \in Tasks, k \in 1..MaxAsks :
        LET accepted == {r \in Responders : responder[r] =
                             [at |-> "accepted", task |-> t, ask |-> k]}
        IN  /\ \A r, q \in accepted : r = q
            /\ k <= Len(replies[t]) /\ replies[t][k] = "answer" => accepted # {}

IsOutput(e) == e.type = "output"

(* Of two outputs of q with no other in between, the later is the next line. *)
Consecutive(q) ==
    \A i, j \in DOMAIN q :
        /\ i < j /\ IsOutput(q[i]) /\ IsOutput(q[j])
        /\ \A k \in DOMAIN q : i < k /\ k < j => ~IsOutput(q[k])
        => q[j].n = q[i].n + 1

(* Output lines reach a client in the order they were emitted and without  *)
(* a gap, from the first one it gets, unless its queue overflowed: the     *)
(* notifications are separate asyncio tasks, run in the order of creation. *)
StreamContiguous == \A s \in Subs \ lost : Consecutive(seen[s])

(* A stream on a task that has ended is closed by the done event, unless an *)
(* event was dropped for it or clear-finished removed the task: no other    *)
(* subscription slips in between the check of task_stream and the           *)
(* notification of _run.                                                    *)
DoneReachesStream ==
    \A s \in Subs, t \in Tasks :
        (ws[s].task = t /\ ws[s].at = "streaming" /\ pc[t] = "finished")
            ~> (ws[s].at \in {"closed", "gone"} \/ s \in lost \/ t \notin registered)

(* A cancellation requested after the first step of _run brings the task to *)
(* a terminal status, wherever the body was.                                *)
CancelLands ==
    \A t \in Tasks : (cancelReq[t] /\ pc[t] \in Live \ {"created"}) ~> pc[t] = "finished"

(* The engine implements the task life cycle of TaskLifecycle. *)
Lifecycle == INSTANCE TaskLifecycle WITH Tasks <- Tasks, status <- status,
                                          registered <- registered
LifecycleSpec == Lifecycle!LSpec
=============================================================================
