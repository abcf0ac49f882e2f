-------------------------- MODULE TaskEngineProofs --------------------------
(***************************************************************************)
(* Proofs about TaskEngine, for any number of tasks, connections and       *)
(* requests and any value of the bounds.                                   *)
(***************************************************************************)
EXTENDS TaskEngine, TLAPS

(* What _notify appends are events: outputs carry their line number. *)
LEMMA EventsTyped ==
    /\ \A n \in Nat : Output(n + 1) \in Events
    /\ \A x \in {"progress", "question", "done"} : Event(x) \in Events
BY DEF Events, Output, Event

(* _notify leaves every queue a sequence of events within its maxsize. *)
LEMMA NotifyTyped ==
    ASSUME TypeOK, NEW t \in Tasks, NEW e \in Events, Notify(t, e)
    PROVE  /\ queue' \in [Subs -> Seq(Events)]
           /\ \A s \in Subs : Len(queue'[s]) <= QueueMax
           /\ lost' \in SUBSET Subs
           /\ UNCHANGED <<subscribers, ws, seen>>
<1>1. \A s \in Subs : queue[s] \in Seq(Events) /\ Len(queue[s]) <= QueueMax
  BY DEF TypeOK
<1>2. \A s \in Subs : /\ Append(queue[s], e) \in Seq(Events)
                      /\ Len(Append(queue[s], e)) = Len(queue[s]) + 1
                      /\ Len(queue[s]) \in Nat
  BY <1>1
<1>3. \A s \in Subs : queue'[s] = IF s \in subscribers[t] /\ ~Full(s)
                                  THEN Append(queue[s], e) ELSE queue[s]
  BY DEF Notify
<1>4. ASSUME NEW s \in Subs PROVE queue'[s] \in Seq(Events) /\ Len(queue'[s]) <= QueueMax
  <2>1. CASE s \in subscribers[t] /\ ~Full(s)
    <3>1. queue'[s] = Append(queue[s], e)
      BY <2>1, <1>3
    <3>2. Len(queue[s]) < QueueMax
      BY <2>1, <1>2, TaskEngineAssumption DEF Full
    <3> QED BY <3>1, <3>2, <1>2, TaskEngineAssumption
  <2>2. CASE ~(s \in subscribers[t] /\ ~Full(s))
    BY <2>2, <1>1, <1>3
  <2> QED BY <2>1, <2>2
<1>5. queue' = [s \in Subs |-> queue'[s]]
  BY DEF Notify
<1>6. queue' \in [Subs -> Seq(Events)]
  BY <1>4, <1>5
<1> QED  BY <1>4, <1>6 DEF Notify, TypeOK

(* Changing the state of one future keeps the table of futures typed. *)
LEMMA FutureTyped ==
    ASSUME TypeOK, NEW t, NEW k, NEW x \in FutStates
    PROVE  [fut EXCEPT ![t][k] = x] \in [Tasks -> [1..MaxAsks -> FutStates]]
<1>1. fut \in [Tasks -> [1..MaxAsks -> FutStates]]
  BY DEF TypeOK
<1>2. ASSUME t \in Tasks PROVE [fut[t] EXCEPT ![k] = x] \in [1..MaxAsks -> FutStates]
  BY <1>1, <1>2
<1> QED BY <1>1, <1>2

(* Changing where a connection stands keeps it a connection to its task. *)
LEMMA ConnectionMoves ==
    ASSUME TypeOK, NEW s \in Subs,
           NEW x \in {"snapshot", "streaming", "closed", "gone"}, ws[s].at # "off"
    PROVE  /\ [ws EXCEPT ![s].at = x] \in [Subs -> Connections]
           /\ \A u \in Subs : [ws EXCEPT ![s].at = x][u].at # "off"
                                => [ws EXCEPT ![s].at = x][u].task \in Tasks
<1>1. ws[s] \in Connections /\ ws[s].task \in Tasks
  BY DEF TypeOK
<1>2. [ws[s] EXCEPT !.at = x] = [at |-> x, task |-> ws[s].task]
  BY <1>1 DEF Connections
<1>3. [ws[s] EXCEPT !.at = x] \in Connections /\ [ws[s] EXCEPT !.at = x].task \in Tasks
  BY <1>1, <1>2 DEF Connections
<1> QED BY <1>3 DEF TypeOK

(* set_result, cancel and the timer change the one future they are called on. *)
LEMMA FutureChange ==
    ASSUME TypeOK, NEW t \in Tasks, NEW k \in 1..MaxAsks, NEW x
    PROVE  \A u \in Tasks, j \in 1..MaxAsks :
               [fut EXCEPT ![t][k] = x][u][j] = IF u = t /\ j = k THEN x ELSE fut[u][j]
BY DEF TypeOK

(* The empty engine of __init__ is well typed. *)
LEMMA TypeInit == Init => TypeOK
<1> SUFFICES ASSUME Init PROVE TypeOK
  OBVIOUS
<1>1. <<>> \in Seq(Events) /\ Len(<<>>) = 0 /\ <<>> \in Seq(Tasks)
      /\ <<>> \in Seq({"answer", "empty", "raised"})
  OBVIOUS
<1> QED  BY <1>1, TaskEngineAssumption DEF Init, TypeOK, PCs, FutStates,
                                            Connections, Answers

(* Every step of the loop and of the requests keeps the types. *)
LEMMA TypeNext == TypeOK /\ [Next]_vars => TypeOK'
<1> SUFFICES ASSUME TypeOK, [Next]_vars PROVE TypeOK'
  OBVIOUS
<1> USE TaskEngineAssumption
<1>1. ASSUME NEW t \in Tasks, Submit(t) PROVE TypeOK'
  BY <1>1 DEF TypeOK, Submit, workVars, askVars, subVars, reqVars, PCs, Status, ActiveStatus
<1>2. ASSUME NEW t \in Tasks, Start(t) PROVE TypeOK'
  BY <1>2 DEF TypeOK, Start, workVars, askVars, subVars, reqVars, PCs, Status, ActiveStatus
<1>3. ASSUME NEW t \in Tasks, StartCancelled(t) PROVE TypeOK'
  BY <1>3 DEF TypeOK, StartCancelled, workVars, askVars, subVars, reqVars, PCs
<1>4. ASSUME NEW t \in Tasks, EmitOutput(t) PROVE TypeOK'
  <2>1. lines[t] \in Nat /\ lines[t] + 1 \in 0..MaxLines
    BY <1>4, SMTT(30) DEF TypeOK, EmitOutput
  <2>2. Append(scheduled[t], Output(lines[t] + 1)) \in Seq(Events)
    BY <2>1, EventsTyped DEF TypeOK
  <2> QED BY <1>4, <2>1, <2>2 DEF TypeOK, EmitOutput, bodyVars, askVars, subVars, reqVars
<1>5. ASSUME NEW t \in Tasks, UpdateProgress(t) PROVE TypeOK'
  <2>1. steps[t] + 1 \in 0..MaxProgress
    BY <1>5 DEF TypeOK, UpdateProgress
  <2>2. Append(scheduled[t], Event("progress")) \in Seq(Events)
    BY EventsTyped DEF TypeOK
  <2> QED BY <1>5, <2>1, <2>2 DEF TypeOK, UpdateProgress, bodyVars, askVars, subVars, reqVars
<1>6. ASSUME NEW t \in Tasks, AskQuestion(t) PROVE TypeOK'
  <2>1. asks[t] + 1 \in 1..MaxAsks /\ asks[t] + 1 \in 0..MaxAsks
    BY <1>6 DEF TypeOK, AskQuestion
  <2>2. fut' \in [Tasks -> [1..MaxAsks -> FutStates]]
    BY <1>6, <2>1 DEF TypeOK, AskQuestion, FutStates
  <2>3. Notify(t, Event("question")) /\ Event("question") \in Events
    BY <1>6, EventsTyped DEF AskQuestion
  <2> QED BY <1>6, <2>1, <2>2, <2>3, NotifyTyped
          DEF TypeOK, AskQuestion, workVars, reqVars, PCs, Status, ActiveStatus
<1>7. ASSUME NEW t \in Tasks, NEW x \in {"answer", "empty", "raised"},
             NEW p \in {"segment", "raising"}, LeaveQuestion(t, x, p)
      PROVE TypeOK'
  <2>1. Append(replies[t], x) \in Seq({"answer", "empty", "raised"})
    BY DEF TypeOK
  <2> QED BY <1>7, <2>1 DEF TypeOK, LeaveQuestion, workVars, subVars, reqVars, PCs,
                            Status, ActiveStatus
<1>8. ASSUME NEW t \in Tasks, AwaitAnswered(t) PROVE TypeOK'
  BY <1>7, <1>8 DEF AwaitAnswered
<1>9. ASSUME NEW t \in Tasks, AwaitPending(t) PROVE TypeOK'
  <2>1. fut' \in [Tasks -> [1..MaxAsks -> FutStates]]
    BY <1>9, FutureTyped DEF AwaitPending, OpenFuture, FutStates
  <2> QED BY <1>9, <2>1 DEF TypeOK, AwaitPending, workVars, subVars, reqVars, PCs
<1>10. ASSUME NEW t \in Tasks, TimerDue(t) PROVE TypeOK'
  BY <1>10 DEF TypeOK, TimerDue, bodyVars, workVars, subVars, reqVars
<1>11. ASSUME NEW t \in Tasks, TimerFires(t) PROVE TypeOK'
  <2>1. fut' \in [Tasks -> [1..MaxAsks -> FutStates]]
    <3>1. CASE fut[t][asks[t]] = "pending"
      BY <1>11, <3>1, FutureTyped DEF TimerFires, FutStates
    <3>2. CASE fut[t][asks[t]] # "pending"
      <4>1. fut' = fut
        BY <1>11, <3>2 DEF TimerFires, TypeOK
      <4> QED BY <4>1 DEF TypeOK
    <3> QED BY <3>1, <3>2
  <2> QED BY <1>11, <2>1 DEF TypeOK, TimerFires, bodyVars, workVars, subVars, reqVars
<1>12. ASSUME NEW t \in Tasks, ResumeFromQuestion(t) PROVE TypeOK'
  BY <1>7, <1>12 DEF ResumeFromQuestion
<1>13. ASSUME NEW t \in Tasks, Suspend(t) PROVE TypeOK'
  BY <1>13 DEF TypeOK, Suspend, workVars, askVars, subVars, reqVars, PCs
<1>14. ASSUME NEW t \in Tasks, ResumeBody(t) PROVE TypeOK'
  BY <1>14 DEF TypeOK, ResumeBody, workVars, askVars, subVars, reqVars, PCs
<1>15. ASSUME NEW t \in Tasks, NEW p \in PCs, NEW s \in TerminalStatus, Outcome(t, p, s)
       PROVE TypeOK'
  BY <1>15 DEF TypeOK, Outcome, workVars, askVars, subVars, reqVars, PCs, Status
<1>16. ASSUME NEW t \in Tasks, Return(t) \/ Raise(t) \/ Cancelled(t) PROVE TypeOK'
  BY <1>15, <1>16 DEF Return, Raise, Cancelled, PCs, TerminalStatus
<1>17. ASSUME NEW t \in Tasks, Finalize(t) PROVE TypeOK'
  <2>1. Notify(t, Event("done")) /\ Event("done") \in Events
    BY <1>17, EventsTyped DEF Finalize
  <2>2. Append(completed, t) \in Seq(Tasks)
    BY DEF TypeOK
  <2> QED BY <1>17, <2>1, <2>2, NotifyTyped
          DEF TypeOK, Finalize, workVars, askVars, reqVars, PCs
<1>18. ASSUME NEW t \in Tasks, RunNotification(t) PROVE TypeOK'
  <2>1. Head(scheduled[t]) \in Events /\ Tail(scheduled[t]) \in Seq(Events)
    BY <1>18 DEF TypeOK, RunNotification
  <2>2. Notify(t, Head(scheduled[t]))
    BY <1>18 DEF RunNotification
  <2> QED BY <1>18, <2>1, <2>2, NotifyTyped
          DEF TypeOK, RunNotification, bodyVars, askVars, reqVars
<1>19. ASSUME CleanupOld PROVE TypeOK'
  BY <1>19 DEF TypeOK, CleanupOld, bodyVars, workVars, askVars, reqVars
<1>20. ASSUME NEW t \in Tasks, CancelTask(t) PROVE TypeOK'
  <2>1. fut' \in [Tasks -> [1..MaxAsks -> FutStates]]
    BY <1>20 DEF TypeOK, CancelTask, FutStates
  <2> QED BY <1>20, <2>1 DEF TypeOK, CancelTask, workVars, subVars, reqVars
<1>21. ASSUME NEW r \in Responders, NEW t \in Tasks, RespondCheck(r, t) PROVE TypeOK'
  BY <1>21 DEF TypeOK, Answers, RespondCheck, bodyVars, workVars, askVars, subVars
<1>22. ASSUME NEW r \in Responders, RespondSet(r) PROVE TypeOK'
  <2>1. fut' \in [Tasks -> [1..MaxAsks -> FutStates]]
    BY <1>22 DEF TypeOK, RespondSet, FutStates
  <2>2. \A x \in {"accepted", "refused"} : [responder[r] EXCEPT !.at = x] \in Answers
    <3>1. responder[r] \in Answers
      BY DEF TypeOK
    <3> QED BY <3>1 DEF Answers
  <2>3. responder' \in [Responders -> Answers]
    BY <1>22, <2>2 DEF TypeOK, RespondSet
  <2> QED BY <1>22, <2>1, <2>3 DEF TypeOK, RespondSet, bodyVars, workVars, subVars
<1>23. ASSUME NEW c \in Clearers, ClearScan(c) PROVE TypeOK'
  BY <1>23 DEF TypeOK, ClearScan, bodyVars, workVars, askVars, subVars
<1>24. ASSUME NEW c \in Clearers, NEW t \in Tasks, ClearPop(c, t) PROVE TypeOK'
  BY <1>24 DEF TypeOK, ClearPop, bodyVars, workVars, askVars
<1>25. ASSUME NEW s \in Subs, NEW t \in Tasks, Connect(s, t) PROVE TypeOK'
  <2>1. /\ ws' \in [Subs -> Connections]
        /\ \A u \in Subs : ws'[u].at # "off" => ws'[u].task \in Tasks
    BY <1>25 DEF TypeOK, Connections, Connect
  <2> QED BY <1>25, <2>1 DEF TypeOK, Connect, bodyVars, workVars, askVars, reqVars
<1>26. ASSUME NEW s \in Subs, Follow(s) PROVE TypeOK'
  <2> DEFINE t == ws[s].task
  <2>1. t \in Tasks
    BY <1>26 DEF TypeOK, Follow
  <2>2. \A x \in {"closed", "streaming"} : [at |-> x, task |-> t] \in Connections
    BY <2>1 DEF Connections
  <2>3. \E x \in {"closed", "streaming"} :
           ws' = [ws EXCEPT ![s] = [at |-> x, task |-> t]]
    BY <1>26 DEF Follow
  <2> HIDE DEF t
  <2>4. /\ ws' \in [Subs -> Connections]
        /\ \A u \in Subs : ws'[u].at # "off" => ws'[u].task \in Tasks
    BY <2>1, <2>2, <2>3, SMTT(30) DEF TypeOK
  <2>5. Append(seen[s], Event("done")) \in Seq(Events)
    BY EventsTyped DEF TypeOK
  <2>6. seen' \in [Subs -> Seq(Events)]
    BY <1>26, <2>5 DEF TypeOK, Follow
  <2>7. subscribers' \in [Tasks -> SUBSET Subs]
    BY <1>26 DEF TypeOK, Follow
  <2> QED BY <1>26, <2>4, <2>6, <2>7 DEF TypeOK, Follow, bodyVars, workVars, askVars, reqVars
<1>27. ASSUME NEW s \in Subs, Deliver(s) PROVE TypeOK'
  <2>1. /\ ws' \in [Subs -> Connections]
        /\ \A u \in Subs : ws'[u].at # "off" => ws'[u].task \in Tasks
    BY <1>27, ConnectionMoves DEF TypeOK, Deliver
  <2>2. Head(queue[s]) \in Events /\ Tail(queue[s]) \in Seq(Events)
        /\ Len(Tail(queue[s])) <= QueueMax
    BY <1>27 DEF TypeOK, Deliver
  <2>3. Append(seen[s], Head(queue[s])) \in Seq(Events)
    BY <2>2 DEF TypeOK
  <2>4. seen' \in [Subs -> Seq(Events)]
    BY <1>27, <2>3 DEF TypeOK, Deliver
  <2>5. /\ queue' \in [Subs -> Seq(Events)]
        /\ \A u \in Subs : Len(queue'[u]) <= QueueMax
    BY <1>27, <2>2 DEF TypeOK, Deliver
  <2>6. subscribers' \in [Tasks -> SUBSET Subs]
    BY <1>27 DEF TypeOK, Deliver, Unsubscribe
  <2> QED BY <1>27, <2>1, <2>4, <2>5, <2>6
          DEF TypeOK, Deliver, bodyVars, workVars, askVars, reqVars
<1>28. ASSUME NEW s \in Subs, Disconnect(s) PROVE TypeOK'
  <2>1. /\ ws' \in [Subs -> Connections]
        /\ \A u \in Subs : ws'[u].at # "off" => ws'[u].task \in Tasks
    BY <1>28, ConnectionMoves DEF Disconnect
  <2>2. subscribers' \in [Tasks -> SUBSET Subs]
    BY <1>28 DEF TypeOK, Disconnect, Unsubscribe
  <2> QED BY <1>28, <2>1, <2>2
          DEF TypeOK, Disconnect, bodyVars, workVars, askVars, reqVars
<1>29. ASSUME UNCHANGED vars PROVE TypeOK'
  BY <1>29 DEF TypeOK, vars, bodyVars, workVars, askVars, subVars, reqVars
<1> QED BY <1>1, <1>2, <1>3, <1>4, <1>5, <1>6, <1>8, <1>9, <1>10, <1>11, <1>12, <1>13,
           <1>14, <1>16, <1>17, <1>18, <1>19, <1>20, <1>21, <1>22, <1>23, <1>24, <1>25,
           <1>26, <1>27, <1>28, <1>29
        DEF Next, BodyWorks, BodyYields, LoopStep, Request, Stream

(* The engine's tables keep their types. *)
THEOREM TypeCorrect == Spec => []TypeOK
<1> QED BY TypeInit, TypeNext, PTL DEF Spec

----------------------------------------------------------------------------
(* The status a reader sees is determined by where _run stands.  The only  *)
(* coroutine that can be inside a segment is the one holding the loop.     *)
StatusFollowsPc ==
    \A t \in Tasks :
        /\ pc[t] = "none" => status[t] = "absent"
        /\ pc[t] \in {"created", "dropped"} => status[t] = "pending"
        /\ pc[t] \in {"segment", "suspended", "raising"} => status[t] = "running"
        /\ pc[t] \in {"asked", "asking"} => status[t] = "waiting"
        /\ pc[t] \in {"exiting", "finished"} => status[t] \in TerminalStatus

LoopOwner == \A t \in Tasks : pc[t] \in Holding => current = t

(* The ids a clear_finished request still has to pop, stale as they are, *)
(* belong to tasks that have ended.                                      *)
ClearListEnded == \A c \in Clearers : \A t \in clearer[c].left : status[t] \in TerminalStatus

ControlInv == StatusFollowsPc /\ LoopOwner /\ ClearListEnded /\ LiveIsRegistered

(* An engine without tasks satisfies the control invariant. *)
LEMMA ControlInit == Init => ControlInv
BY DEF Init, ControlInv, StatusFollowsPc, LoopOwner, ClearListEnded, LiveIsRegistered,
       Holding, Live

(* No step of _run, cancel, clear-finished or cleanup_old breaks it. *)
LEMMA ControlNext == TypeOK /\ ControlInv /\ [Next]_vars => ControlInv'
<1> SUFFICES ASSUME TypeOK, ControlInv, [Next]_vars PROVE ControlInv'
  OBVIOUS
<1> USE TaskEngineAssumption DEF ControlInv, StatusFollowsPc, LoopOwner, ClearListEnded,
        LiveIsRegistered, Holding, Live, PCs
<1>1. ASSUME NEW t \in Tasks, Submit(t) PROVE ControlInv'
  BY <1>1 DEF TypeOK, Submit, LoopFree, reqVars, TerminalStatus
<1>2. ASSUME NEW t \in Tasks, Start(t) PROVE ControlInv'
  BY <1>2 DEF TypeOK, Start, LoopFree, reqVars, TerminalStatus
<1>3. ASSUME NEW t \in Tasks, StartCancelled(t) PROVE ControlInv'
  BY <1>3 DEF TypeOK, StartCancelled, LoopFree, reqVars
<1>4. ASSUME NEW t \in Tasks, BodyWorks(t) PROVE ControlInv'
  BY <1>4 DEF BodyWorks, EmitOutput, UpdateProgress, bodyVars, reqVars
<1>5. ASSUME NEW t \in Tasks, AskQuestion(t) PROVE ControlInv'
  BY <1>5 DEF TypeOK, AskQuestion, InSegment, reqVars, TerminalStatus
<1>6. ASSUME NEW t \in Tasks, NEW x, NEW p \in {"segment", "raising"},
             LeaveQuestion(t, x, p), pc[t] \in {"asked", "asking"},
             current = t \/ LoopFree
      PROVE ControlInv'
  BY <1>6, SMTT(30) DEF TypeOK, LeaveQuestion, LoopFree, reqVars, TerminalStatus
<1>7. ASSUME NEW t \in Tasks, AwaitAnswered(t) PROVE ControlInv'
  BY <1>6, <1>7 DEF AwaitAnswered
<1>8. ASSUME NEW t \in Tasks, AwaitPending(t) PROVE ControlInv'
  BY <1>8 DEF TypeOK, AwaitPending, reqVars
<1>9. ASSUME NEW t \in Tasks, TimerDue(t) \/ TimerFires(t) PROVE ControlInv'
  BY <1>9 DEF TimerDue, TimerFires, bodyVars, reqVars
<1>10. ASSUME NEW t \in Tasks, ResumeFromQuestion(t) PROVE ControlInv'
  BY <1>6, <1>10 DEF ResumeFromQuestion, Wakes
<1>11. ASSUME NEW t \in Tasks, Suspend(t) PROVE ControlInv'
  BY <1>11 DEF TypeOK, Suspend, InSegment, reqVars
<1>12. ASSUME NEW t \in Tasks, ResumeBody(t) PROVE ControlInv'
  BY <1>12 DEF TypeOK, ResumeBody, Wakes, LoopFree, reqVars
<1>13. ASSUME NEW t \in Tasks, NEW p \in {"segment", "raising"},
              NEW s \in TerminalStatus, Outcome(t, p, s)
       PROVE ControlInv'
  BY <1>13 DEF TypeOK, Outcome, reqVars, TerminalStatus
<1>14. ASSUME NEW t \in Tasks, Return(t) \/ Raise(t) \/ Cancelled(t) PROVE ControlInv'
  BY <1>13, <1>14 DEF Return, Raise, Cancelled, TerminalStatus
<1>15. ASSUME NEW t \in Tasks, Finalize(t) PROVE ControlInv'
  BY <1>15 DEF TypeOK, Finalize, reqVars
<1>16. ASSUME NEW t \in Tasks, RunNotification(t) PROVE ControlInv'
  BY <1>16 DEF RunNotification, bodyVars, reqVars
<1>17. ASSUME CleanupOld PROVE ControlInv'
  BY <1>17 DEF CleanupOld, Old, bodyVars, reqVars, TerminalStatus
<1>18. ASSUME NEW t \in Tasks, CancelTask(t) PROVE ControlInv'
  BY <1>18 DEF CancelTask, reqVars
<1>19. ASSUME NEW r \in Responders, RespondSet(r) \/ \E t \in Tasks : RespondCheck(r, t)
       PROVE ControlInv'
  BY <1>19 DEF RespondSet, RespondCheck, bodyVars
<1>20. ASSUME NEW c \in Clearers, ClearScan(c) PROVE ControlInv'
  BY <1>20 DEF TypeOK, ClearScan, bodyVars
<1>21. ASSUME NEW c \in Clearers, NEW t \in Tasks, ClearPop(c, t) PROVE ControlInv'
  <2>1. status[t] \in TerminalStatus
    BY <1>21 DEF ClearPop
  <2>2. LiveIsRegistered'
    BY <1>21, <2>1 DEF ClearPop, bodyVars, TerminalStatus
  <2>3. ClearListEnded'
    BY <1>21 DEF TypeOK, ClearPop
  <2> QED BY <1>21, <2>2, <2>3 DEF ClearPop, bodyVars
<1>22. ASSUME NEW s \in Subs, \/ Stream(s) \/ Disconnect(s)
                              \/ \E t \in Tasks : Connect(s, t)
       PROVE ControlInv'
  BY <1>22 DEF Stream, Follow, Deliver, Disconnect, Connect, bodyVars, reqVars
<1>23. ASSUME UNCHANGED vars PROVE ControlInv'
  BY <1>23 DEF vars, bodyVars, reqVars
<1> QED BY <1>1, <1>2, <1>3, <1>4, <1>5, <1>7, <1>8, <1>9, <1>10, <1>11, <1>12, <1>14,
           <1>15, <1>16, <1>17, <1>18, <1>19, <1>20, <1>21, <1>22, <1>23
        DEF Next, BodyYields, LoopStep, Request

(* No task is forgotten while its body can still run, whatever clear_finished *)
(* and cleanup_old do in between.                                             *)
THEOREM LiveStaysRegistered == Spec => []LiveIsRegistered
<1>1. TypeOK /\ ControlInv /\ [Next]_vars => (TypeOK /\ ControlInv)'
  BY TypeNext, ControlNext
<1>2. Init => TypeOK /\ ControlInv
  BY TypeInit, ControlInit
<1>3. ControlInv => LiveIsRegistered
  BY DEF ControlInv
<1> QED BY <1>1, <1>2, <1>3, PTL DEF Spec

----------------------------------------------------------------------------
(* Every step of the engine is a step of the task life cycle, or leaves *)
(* status and registry alone.                                           *)
LEMMA LifecycleNext ==
    TypeOK /\ ControlInv /\ [Next]_vars => [Lifecycle!LNext]_<<status, registered>>
<1> SUFFICES ASSUME TypeOK, ControlInv, [Next]_vars,
                    ~(UNCHANGED <<status, registered>>)
             PROVE  Lifecycle!LNext
  OBVIOUS
<1> DEFINE Goal == Lifecycle!LNext
<1>1. ASSUME NEW t \in Tasks, Submit(t) PROVE Goal
  BY <1>1 DEF Submit, Lifecycle!LNext, Lifecycle!Announce
<1>2. ASSUME NEW t \in Tasks, Start(t) PROVE Goal
  <2>1. status[t] = "pending"
    BY <1>2 DEF Start, ControlInv, StatusFollowsPc
  <2>2. Lifecycle!Begin(t)
    BY <1>2, <2>1 DEF Start, Lifecycle!Begin, Lifecycle!Move
  <2> QED BY <2>2 DEF Lifecycle!LNext
<1>3. ASSUME NEW t \in Tasks, AskQuestion(t) PROVE Goal
  <2>1. status[t] = "running"
    BY <1>3 DEF AskQuestion, InSegment, ControlInv, StatusFollowsPc
  <2>2. Lifecycle!Wait(t)
    BY <1>3, <2>1 DEF AskQuestion, Lifecycle!Wait, Lifecycle!Move
  <2> QED BY <2>2 DEF Lifecycle!LNext
<1>4. ASSUME NEW t \in Tasks, NEW x, NEW p, LeaveQuestion(t, x, p),
             pc[t] \in {"asked", "asking"}
      PROVE Goal
  <2>1. status[t] = "waiting"
    BY <1>4 DEF ControlInv, StatusFollowsPc
  <2>2. Lifecycle!Resume(t)
    BY <1>4, <2>1 DEF LeaveQuestion, Lifecycle!Resume, Lifecycle!Move
  <2> QED BY <2>2 DEF Lifecycle!LNext
<1>5. ASSUME NEW t \in Tasks, AwaitAnswered(t) \/ ResumeFromQuestion(t) PROVE Goal
  BY <1>4, <1>5 DEF AwaitAnswered, ResumeFromQuestion
<1>6. ASSUME NEW t \in Tasks, NEW p \in {"segment", "raising"},
             NEW s \in TerminalStatus, Outcome(t, p, s)
      PROVE Goal
  <2>1. status[t] = "running"
    BY <1>6 DEF Outcome, ControlInv, StatusFollowsPc
  <2>2. Lifecycle!End(t)
    BY <1>6, <2>1 DEF Outcome, Lifecycle!End, Lifecycle!Move, Lifecycle!TerminalStatus,
                      TerminalStatus
  <2> QED BY <2>2 DEF Lifecycle!LNext
<1>7. ASSUME NEW t \in Tasks, Return(t) \/ Raise(t) \/ Cancelled(t) PROVE Goal
  BY <1>6, <1>7 DEF Return, Raise, Cancelled, TerminalStatus
<1>8. ASSUME CleanupOld PROVE Goal
  <2> DEFINE S == {t \in registered : Old(t)}
  <2>1. S \in SUBSET registered /\ registered' = registered \ S /\ status' = status
    BY <1>8 DEF CleanupOld
  <2>2. \A t \in S : status[t] \in TerminalStatus
    BY DEF Old
  <2>3. Lifecycle!Forget
    BY <2>1, <2>2 DEF Lifecycle!Forget, Lifecycle!TerminalStatus, TerminalStatus
  <2> QED BY <2>3 DEF Lifecycle!LNext
<1>9. ASSUME NEW c \in Clearers, NEW t \in Tasks, ClearPop(c, t) PROVE Goal
  <2> DEFINE S == {t} \cap registered
  <2>1. S \in SUBSET registered /\ registered' = registered \ S /\ status' = status
    BY <1>9 DEF ClearPop
  <2>2. \A u \in S : status[u] \in TerminalStatus
    BY <1>9 DEF ClearPop, ControlInv, ClearListEnded
  <2>3. Lifecycle!Forget
    BY <2>1, <2>2 DEF Lifecycle!Forget, Lifecycle!TerminalStatus, TerminalStatus
  <2> QED BY <2>3 DEF Lifecycle!LNext
<1>10. ASSUME NEW t \in Tasks,
              \/ StartCancelled(t) \/ BodyWorks(t) \/ AwaitPending(t) \/ TimerDue(t)
              \/ TimerFires(t) \/ Suspend(t) \/ ResumeBody(t) \/ Finalize(t)
              \/ RunNotification(t) \/ CancelTask(t)
       PROVE Goal
  BY <1>10 DEF StartCancelled, BodyWorks, EmitOutput, UpdateProgress, AwaitPending,
               TimerDue, TimerFires, Suspend, ResumeBody, Finalize, RunNotification,
               CancelTask
<1>11. ASSUME NEW r \in Responders, RespondSet(r) \/ \E t \in Tasks : RespondCheck(r, t)
       PROVE Goal
  BY <1>11 DEF RespondSet, RespondCheck
<1>12. ASSUME NEW c \in Clearers, ClearScan(c) PROVE Goal
  BY <1>12 DEF ClearScan
<1>13. ASSUME NEW s \in Subs, \/ Stream(s) \/ Disconnect(s)
                              \/ \E t \in Tasks : Connect(s, t)
       PROVE Goal
  BY <1>13 DEF Stream, Follow, Deliver, Disconnect, Connect
<1>14. ASSUME UNCHANGED vars PROVE Goal
  BY <1>14 DEF vars
<1> QED BY <1>1, <1>2, <1>3, <1>5, <1>7, <1>8, <1>9, <1>10, <1>11, <1>12, <1>13, <1>14
        DEF Next, BodyYields, LoopStep, Request

(* TaskEngine implements TaskLifecycle: a task ends once, keeps the status *)
(* it ended with, and is forgotten only after that.                        *)
THEOREM EngineImplementsLifecycle == Spec => LifecycleSpec
<1>1. Init => Lifecycle!LInit
  BY DEF Init, Lifecycle!LInit
<1>2. TypeOK /\ ControlInv /\ [Next]_vars => (TypeOK /\ ControlInv)'
  BY TypeNext, ControlNext
<1>3. Init => TypeOK /\ ControlInv
  BY TypeInit, ControlInit
<1> QED BY <1>1, <1>2, <1>3, LifecycleNext, PTL DEF Spec, LifecycleSpec, Lifecycle!LSpec

----------------------------------------------------------------------------
AtQuestion(t) == pc[t] \in {"asked", "asking"}

(* Futures are numbered with the questions; the timer exists only inside   *)
(* wait_for; a coroutine asleep in wait_for whose future was cancelled was *)
(* cancelled by its timer or by a request, and the other way round.        *)
FuturesInStep ==
    \A t \in Tasks :
        /\ AtQuestion(t) => asks[t] > 0
        /\ \A k \in 1..MaxAsks : fut[t][k] = "none" <=> k > asks[t]
        /\ pc[t] # "asking" => timer[t] = "off"
        /\ pc[t] = "asked" => OpenFuture(t) # "cancelled"
        /\ pc[t] = "asking" /\ OpenFuture(t) = "cancelled" => cancelReq[t] \/ timer[t] = "fired"
        /\ pc[t] = "asking" /\ (timer[t] = "fired" \/ cancelReq[t]) => OpenFuture(t) # "pending"

(* Every question but an open one has returned, and with an answer only if *)
(* its future was answered.                                                *)
RepliesInStep ==
    \A t \in Tasks :
        /\ Len(replies[t]) = IF AtQuestion(t) THEN asks[t] - 1 ELSE asks[t]
        /\ \A k \in 1..Len(replies[t]) : replies[t][k] = "answer" => fut[t][k] = "answered"

Accepted(t, k) == {r \in Responders : responder[r] =
                       [at |-> "accepted", task |-> t, ask |-> k]}

(* A future is answered by exactly one request, and that request holds it. *)
AnswersInStep ==
    /\ \A r \in Responders : responder[r].at = "checked" =>
           responder[r].task \in Tasks /\ responder[r].ask \in 1..MaxAsks
    /\ \A t \in Tasks, k \in 1..MaxAsks :
           /\ fut[t][k] = "answered" <=> Accepted(t, k) # {}
           /\ \A r, q \in Accepted(t, k) : r = q

QuestionInv == FuturesInStep /\ RepliesInStep /\ AnswersInStep

(* Before the first ask_question there is nothing to relate. *)
LEMMA QuestionInit == Init => QuestionInv
<1> SUFFICES ASSUME Init PROVE QuestionInv
  OBVIOUS
<1>1. FuturesInStep
  BY TaskEngineAssumption DEF Init, FuturesInStep, AtQuestion, OpenFuture
<1>2. RepliesInStep
  BY DEF Init, RepliesInStep, AtQuestion
<1>3. AnswersInStep
  BY DEF Init, AnswersInStep, Accepted
<1> QED BY <1>1, <1>2, <1>3 DEF QuestionInv

(* Steps that neither enter nor leave ask_question and touch none of its state. *)
LEMMA QuestionFrame ==
    ASSUME QuestionInv, UNCHANGED <<cancelReq, asks, fut, timer, replies, responder>>,
           \A t \in Tasks : pc'[t] = pc[t] \/ (~AtQuestion(t) /\ pc'[t] \notin {"asked", "asking"})
    PROVE  QuestionInv'
<1>1. FuturesInStep'
  BY DEF QuestionInv, FuturesInStep, AtQuestion, OpenFuture
<1>2. RepliesInStep'
  BY DEF QuestionInv, RepliesInStep, AtQuestion
<1>3. AnswersInStep'
  BY DEF QuestionInv, AnswersInStep, Accepted
<1> QED BY <1>1, <1>2, <1>3 DEF QuestionInv

(* ask_question, submit_answer, the timer and cancellation keep futures, *)
(* requests and replies in step.                                         *)
LEMMA QuestionNext == TypeOK /\ ControlInv /\ QuestionInv /\ [Next]_vars => QuestionInv'
<1> SUFFICES ASSUME TypeOK, ControlInv, QuestionInv, [Next]_vars PROVE QuestionInv'
  OBVIOUS
<1> USE TaskEngineAssumption
<1>0. /\ pc \in [Tasks -> PCs] /\ asks \in [Tasks -> 0..MaxAsks]
      /\ timer \in [Tasks -> {"off", "due", "fired"}]
      /\ responder \in [Responders -> Answers]
      /\ \A u \in Tasks : Len(replies[u]) \in Nat
  BY DEF TypeOK
<1>1. ASSUME NEW t \in Tasks, \/ Submit(t) \/ Start(t) \/ StartCancelled(t) \/ Suspend(t)
                              \/ ResumeBody(t) \/ Finalize(t)
      PROVE QuestionInv'
  <2>1. UNCHANGED <<cancelReq, asks, fut, timer, replies, responder>>
    BY <1>1 DEF Submit, Start, StartCancelled, Suspend, ResumeBody, Finalize, askVars, reqVars
  <2>2. pc[t] \notin {"asked", "asking"}
    BY <1>1 DEF Submit, Start, StartCancelled, Suspend, ResumeBody, Finalize, InSegment,
                ControlInv, StatusFollowsPc
  <2>3. \E p \in PCs \ {"asked", "asking"} : pc' = [pc EXCEPT ![t] = p]
    BY <1>1 DEF Submit, Start, StartCancelled, Suspend, ResumeBody, Finalize, PCs
  <2> QED BY <2>1, <2>2, <2>3, QuestionFrame DEF TypeOK, AtQuestion
<1>2. ASSUME NEW t \in Tasks, Return(t) \/ Raise(t) \/ Cancelled(t) PROVE QuestionInv'
  BY <1>2, QuestionFrame DEF Return, Raise, Cancelled, Outcome, askVars, reqVars, TypeOK,
                             AtQuestion
<1>3. ASSUME UNCHANGED <<pc, cancelReq, asks, fut, timer, replies, responder>>
      PROVE QuestionInv'
  BY <1>3, QuestionFrame
<1>4. ASSUME \/ \E t \in Tasks : BodyWorks(t) \/ RunNotification(t)
             \/ CleanupOld
             \/ \E c \in Clearers : ClearScan(c) \/ \E t \in Tasks : ClearPop(c, t)
             \/ \E s \in Subs : \/ Stream(s) \/ Disconnect(s)
                                \/ \E t \in Tasks : Connect(s, t)
             \/ UNCHANGED vars
      PROVE QuestionInv'
  BY <1>3, <1>4 DEF BodyWorks, EmitOutput, UpdateProgress, RunNotification, CleanupOld,
     ClearScan, ClearPop, Stream, Follow, Deliver, Disconnect, Connect, vars, bodyVars,
     askVars, reqVars
<1>5. ASSUME NEW t \in Tasks, AskQuestion(t) PROVE QuestionInv'
  <2>1. ~AtQuestion(t) /\ pc' = [pc EXCEPT ![t] = "asked"]
    BY <1>5 DEF AskQuestion, InSegment, AtQuestion
  <2>2. asks[t] + 1 \in 1..MaxAsks /\ asks' = [asks EXCEPT ![t] = asks[t] + 1]
    BY <1>5 DEF AskQuestion, TypeOK
  <2>3. \A u \in Tasks, k \in 1..MaxAsks :
           fut'[u][k] = IF u = t /\ k = asks[t] + 1 THEN "pending" ELSE fut[u][k]
    <3> DEFINE n == asks[t] + 1
    <3>1. fut' = [fut EXCEPT ![t][n] = "pending"] /\ n \in 1..MaxAsks
      BY <1>5, <2>2 DEF AskQuestion
    <3> HIDE DEF n
    <3>2. \A u \in Tasks, k \in 1..MaxAsks :
             fut'[u][k] = IF u = t /\ k = n THEN "pending" ELSE fut[u][k]
      BY <3>1, FutureChange
    <3> QED BY <3>2 DEF n
  <2>4. UNCHANGED <<cancelReq, timer, replies, responder>>
    BY <1>5 DEF AskQuestion, reqVars
  <2>5. fut[t][asks[t] + 1] = "none"
    BY <2>2 DEF QuestionInv, FuturesInStep, TypeOK
  <2>6. FuturesInStep'
    <3> SUFFICES ASSUME NEW u \in Tasks
        PROVE /\ AtQuestion(u)' => asks'[u] > 0
              /\ \A k \in 1..MaxAsks : fut'[u][k] = "none" <=> k > asks'[u]
              /\ pc'[u] # "asking" => timer'[u] = "off"
              /\ pc'[u] = "asked" => OpenFuture(u)' # "cancelled"
              /\ pc'[u] = "asking" /\ OpenFuture(u)' = "cancelled"
                    => cancelReq'[u] \/ timer'[u] = "fired"
              /\ pc'[u] = "asking" /\ (timer'[u] = "fired" \/ cancelReq'[u])
                    => OpenFuture(u)' # "pending"
      BY DEF FuturesInStep
    <3>1. CASE u = t
      <4>1. asks'[t] = asks[t] + 1 /\ pc'[t] = "asked" /\ fut'[t][asks[t] + 1] = "pending"
            /\ asks[t] \in Nat
        BY <1>0, <2>1, <2>2, <2>3
      <4>2. \A k \in 1..MaxAsks : fut'[t][k] = "none" <=> k > asks'[t]
        BY <2>2, <2>3, <4>1 DEF QuestionInv, FuturesInStep
      <4>3. timer'[t] = "off"
        BY <2>1, <2>4 DEF QuestionInv, FuturesInStep, AtQuestion
      <4> QED BY <3>1, <4>1, <4>2, <4>3 DEF OpenFuture
    <3>2. CASE u # t
      <4>1. asks'[u] = asks[u] /\ pc'[u] = pc[u] /\ \A k \in 1..MaxAsks : fut'[u][k] = fut[u][k]
        BY <3>2, <2>1, <2>2, <2>3 DEF TypeOK
      <4>2. AtQuestion(u) => OpenFuture(u)' = OpenFuture(u)
        BY <1>0, <4>1 DEF OpenFuture, AtQuestion, QuestionInv, FuturesInStep
      <4> QED BY <4>1, <4>2, <2>4 DEF QuestionInv, FuturesInStep, AtQuestion
    <3> QED BY <3>1, <3>2
  <2>7. RepliesInStep'
    <3> SUFFICES ASSUME NEW u \in Tasks
        PROVE /\ Len(replies[u]) = IF AtQuestion(u)' THEN asks'[u] - 1 ELSE asks'[u]
              /\ \A k \in 1..Len(replies[u]) : replies[u][k] = "answer" => fut'[u][k] = "answered"
      BY <2>4 DEF RepliesInStep
    <3>1. asks[u] \in 0..MaxAsks /\ asks[t] \in Nat /\ Len(replies[u]) \in 0..asks[u]
      BY <1>0 DEF QuestionInv, RepliesInStep
    <3>2. \A k \in 1..Len(replies[u]) : replies[u][k] = "answer" => fut[u][k] = "answered"
      BY DEF QuestionInv, RepliesInStep
    <3>3. \A k \in 1..Len(replies[u]) : fut'[u][k] = fut[u][k]
      BY <2>2, <2>3, <3>1
    <3>4. Len(replies[u]) = IF AtQuestion(u)' THEN asks'[u] - 1 ELSE asks'[u]
      <4>1. CASE u = t
        BY <4>1, <2>1, <2>2, <3>1 DEF QuestionInv, RepliesInStep, AtQuestion, TypeOK
      <4>2. CASE u # t
        BY <4>2, <2>1, <2>2 DEF QuestionInv, RepliesInStep, AtQuestion, TypeOK
      <4> QED BY <4>1, <4>2
    <3> QED BY <3>2, <3>3, <3>4
  <2>8. AnswersInStep'
    BY <2>3, <2>4, <2>5 DEF QuestionInv, AnswersInStep, Accepted
  <2> QED BY <2>6, <2>7, <2>8 DEF QuestionInv
<1>6. ASSUME NEW t \in Tasks, NEW x \in {"answer", "empty", "raised"},
             NEW p \in {"segment", "raising"}, LeaveQuestion(t, x, p), AtQuestion(t),
             x = "answer" => OpenFuture(t) = "answered"
      PROVE QuestionInv'
  <2>1. pc' = [pc EXCEPT ![t] = p] /\ timer' = [timer EXCEPT ![t] = "off"]
    BY <1>6 DEF LeaveQuestion
  <2>2. UNCHANGED <<cancelReq, asks, fut, responder>>
    BY <1>6 DEF LeaveQuestion, reqVars
  <2>3. replies[t] \in Seq({"answer", "empty", "raised"}) /\ Len(replies[t]) = asks[t] - 1
        /\ asks[t] \in 1..MaxAsks
    BY <1>6 DEF QuestionInv, RepliesInStep, FuturesInStep, TypeOK
  <2>4. /\ Len(replies'[t]) = asks[t]
        /\ \A k \in 1..asks[t] : replies'[t][k] = IF k = asks[t] THEN x ELSE replies[t][k]
        /\ \A u \in Tasks : u # t => replies'[u] = replies[u]
    BY <1>6, <2>3 DEF LeaveQuestion, TypeOK
  <2>5. FuturesInStep'
    <3> SUFFICES ASSUME NEW u \in Tasks
        PROVE /\ AtQuestion(u)' => asks[u] > 0
              /\ \A k \in 1..MaxAsks : fut[u][k] = "none" <=> k > asks[u]
              /\ pc'[u] # "asking" => timer'[u] = "off"
              /\ pc'[u] = "asked" => OpenFuture(u) # "cancelled"
              /\ pc'[u] = "asking" /\ OpenFuture(u) = "cancelled"
                    => cancelReq[u] \/ timer'[u] = "fired"
              /\ pc'[u] = "asking" /\ (timer'[u] = "fired" \/ cancelReq[u])
                    => OpenFuture(u) # "pending"
      BY <2>2 DEF FuturesInStep, OpenFuture
    <3>1. CASE u = t
      <4>1. pc'[t] = p /\ timer'[t] = "off"
        BY <2>1 DEF TypeOK
      <4> QED BY <1>6, <3>1, <4>1 DEF QuestionInv, FuturesInStep, AtQuestion
    <3>2. CASE u # t
      <4>1. pc'[u] = pc[u] /\ timer'[u] = timer[u]
        BY <3>2, <2>1 DEF TypeOK
      <4> QED BY <4>1 DEF QuestionInv, FuturesInStep, AtQuestion
    <3> QED BY <3>1, <3>2
  <2>6. RepliesInStep'
    <3> SUFFICES ASSUME NEW u \in Tasks
        PROVE /\ Len(replies'[u]) = IF AtQuestion(u)' THEN asks[u] - 1 ELSE asks[u]
              /\ \A k \in 1..Len(replies'[u]) : replies'[u][k] = "answer" => fut[u][k] = "answered"
      BY <2>2 DEF RepliesInStep
    <3>1. CASE u = t
      <4>1. ~AtQuestion(t)'
        BY <1>6, <2>1 DEF AtQuestion, TypeOK
      <4>2. \A k \in 1..(asks[t] - 1) : replies[t][k] = "answer" => fut[t][k] = "answered"
        BY <2>3 DEF QuestionInv, RepliesInStep
      <4>3. \A k \in 1..asks[t] : replies'[t][k] = "answer" => fut[t][k] = "answered"
        <5> SUFFICES ASSUME NEW k \in 1..asks[t], replies'[t][k] = "answer"
            PROVE fut[t][k] = "answered"
          OBVIOUS
        <5>1. replies'[t][k] = IF k = asks[t] THEN x ELSE replies[t][k]
          BY <2>4
        <5>2. CASE k = asks[t]
          BY <1>6, <5>1, <5>2 DEF OpenFuture
        <5>3. CASE k # asks[t]
          <6>1. k \in 1..(asks[t] - 1)
            BY <2>3, <5>3
          <6> QED BY <4>2, <5>1, <5>3, <6>1
        <5> QED BY <5>2, <5>3
      <4> QED BY <3>1, <2>4, <4>1, <4>3
    <3>2. CASE u # t
      BY <3>2, <2>1, <2>4 DEF QuestionInv, RepliesInStep, AtQuestion, TypeOK
    <3> QED BY <3>1, <3>2
  <2>7. AnswersInStep'
    BY <2>2 DEF QuestionInv, AnswersInStep, Accepted
  <2> QED BY <2>5, <2>6, <2>7 DEF QuestionInv
<1>7. ASSUME NEW t \in Tasks, AwaitAnswered(t) PROVE QuestionInv'
  BY <1>6, <1>7 DEF AwaitAnswered, AtQuestion
<1>8. ASSUME NEW t \in Tasks, ResumeFromQuestion(t) PROVE QuestionInv'
  <2>1. AtQuestion(t) /\ pc[t] = "asking" /\ OpenFuture(t) # "pending"
    BY <1>8 DEF ResumeFromQuestion, AtQuestion
  <2>2. OpenFuture(t) \in {"answered", "cancelled"}
    BY <2>1 DEF QuestionInv, FuturesInStep, OpenFuture, TypeOK, FutStates
  <2>3. OpenFuture(t) = "cancelled" => cancelReq[t] \/ timer[t] = "fired"
    BY <2>1 DEF QuestionInv, FuturesInStep
  <2> QED BY <1>6, <1>8, <2>1, <2>2, <2>3 DEF ResumeFromQuestion
(* Steps that only move the open future of a task out of "pending". *)
<1>9. ASSUME NEW t \in Tasks, NEW f \in {"pending", "cancelled"},
             AtQuestion(t), pc'[t] = "asking",
             f = "pending" => ~cancelReq'[t] /\ timer'[t] # "fired",
             f = "cancelled" => cancelReq'[t] \/ timer'[t] = "fired",
             OpenFuture(t) = "pending",
             fut' = [fut EXCEPT ![t][asks[t]] = f],
             \A u \in Tasks : u # t => /\ pc'[u] = pc[u] /\ timer'[u] = timer[u]
                                       /\ cancelReq'[u] = cancelReq[u],
             UNCHANGED <<asks, replies, responder>>
      PROVE QuestionInv'
  <2>1. asks[t] \in 1..MaxAsks
    BY <1>9 DEF QuestionInv, FuturesInStep, TypeOK
  <2>2. \A u \in Tasks, k \in 1..MaxAsks :
           fut'[u][k] = IF u = t /\ k = asks[t] THEN f ELSE fut[u][k]
    BY <1>9, <2>1 DEF TypeOK
  <2>3. FuturesInStep'
    BY <1>9, <2>1, <2>2, SMTT(30) DEF QuestionInv, FuturesInStep, AtQuestion, OpenFuture, TypeOK
  <2>4. RepliesInStep'
    BY <1>9, <2>1, <2>2, SMTT(30) DEF QuestionInv, RepliesInStep, AtQuestion, TypeOK
  <2>5. AnswersInStep'
    BY <1>9, <2>1, <2>2 DEF QuestionInv, AnswersInStep, Accepted, OpenFuture
  <2> QED BY <2>3, <2>4, <2>5 DEF QuestionInv
<1>10. ASSUME UNCHANGED <<pc, asks, fut, replies, responder>>, NEW t \in Tasks,
              \A u \in Tasks : u # t => timer'[u] = timer[u] /\ cancelReq'[u] = cancelReq[u],
              timer'[t] # timer[t] => pc[t] = "asking",
              cancelReq[t] => cancelReq'[t], timer[t] = "fired" => timer'[t] = "fired",
              pc[t] = "asking" /\ (timer'[t] = "fired" \/ cancelReq'[t]) => OpenFuture(t) # "pending"
       PROVE QuestionInv'
  <2>1. FuturesInStep'
    BY <1>10 DEF QuestionInv, FuturesInStep, AtQuestion, OpenFuture
  <2>2. RepliesInStep'
    BY <1>10 DEF QuestionInv, RepliesInStep, AtQuestion
  <2>3. AnswersInStep'
    BY <1>10 DEF QuestionInv, AnswersInStep, Accepted
  <2> QED BY <2>1, <2>2, <2>3 DEF QuestionInv
<1>11. ASSUME NEW t \in Tasks, AwaitPending(t) PROVE QuestionInv'
  <2>1. timer[t] = "off" /\ AtQuestion(t) /\ OpenFuture(t) = "pending"
    BY <1>11 DEF AwaitPending, QuestionInv, FuturesInStep, AtQuestion
  <2>2. /\ pc' = [pc EXCEPT ![t] = "asking"]
        /\ UNCHANGED <<cancelReq, asks, timer, replies, responder>>
    BY <1>11 DEF AwaitPending, reqVars
  <2>3. CASE cancelReq[t]
    <3>1. fut' = [fut EXCEPT ![t][asks[t]] = "cancelled"]
      BY <1>11, <2>3 DEF AwaitPending
    <3> QED BY <1>9, <2>1, <2>2, <2>3, <3>1 DEF TypeOK
  <2>4. CASE ~cancelReq[t]
    <3>1. fut' = [fut EXCEPT ![t][asks[t]] = "pending"]
      BY <1>11, <2>1, <2>4 DEF AwaitPending, OpenFuture
    <3> QED BY <1>9, <2>1, <2>2, <2>4, <3>1 DEF TypeOK
  <2> QED BY <2>3, <2>4
<1>12. ASSUME NEW t \in Tasks, TimerDue(t) PROVE QuestionInv'
  <2>1. /\ pc[t] = "asking" /\ OpenFuture(t) = "pending"
        /\ timer[t] = "off" /\ timer' = [timer EXCEPT ![t] = "due"]
        /\ UNCHANGED <<pc, cancelReq, asks, fut, replies, responder>>
    BY <1>12 DEF TimerDue, bodyVars, reqVars
  <2>2. ~cancelReq[t]
    BY <2>1 DEF QuestionInv, FuturesInStep
  <2> QED BY <1>10, <2>1, <2>2 DEF TypeOK
<1>13. ASSUME NEW t \in Tasks, TimerFires(t) PROVE QuestionInv'
  <2>1. /\ pc[t] = "asking" /\ AtQuestion(t)
        /\ timer[t] = "due" /\ timer' = [timer EXCEPT ![t] = "fired"]
        /\ UNCHANGED <<pc, cancelReq, asks, replies, responder>>
    BY <1>13 DEF TimerFires, bodyVars, reqVars, AtQuestion
  <2>2. CASE OpenFuture(t) = "pending"
    <3>1. fut' = [fut EXCEPT ![t][asks[t]] = "cancelled"]
      BY <1>13, <2>2 DEF TimerFires, OpenFuture
    <3> QED BY <1>9, <2>1, <2>2, <3>1 DEF TypeOK
  <2>3. CASE OpenFuture(t) # "pending"
    <3>1. fut' = fut
      BY <1>13, <2>3 DEF TimerFires, OpenFuture, TypeOK
    <3> QED BY <1>10, <2>1, <2>3, <3>1 DEF TypeOK
  <2> QED BY <2>2, <2>3
<1>14. ASSUME NEW t \in Tasks, CancelTask(t) PROVE QuestionInv'
  <2>1. /\ cancelReq' = [cancelReq EXCEPT ![t] = TRUE]
        /\ UNCHANGED <<pc, asks, timer, replies, responder>>
    BY <1>14 DEF CancelTask, reqVars
  <2>2. CASE pc[t] = "asking" /\ OpenFuture(t) = "pending"
    <3>1. fut' = [fut EXCEPT ![t][asks[t]] = "cancelled"] /\ AtQuestion(t)
      BY <1>14, <2>2 DEF CancelTask, AtQuestion
    <3> QED BY <1>9, <2>1, <2>2, <3>1 DEF TypeOK
  <2>3. CASE ~(pc[t] = "asking" /\ OpenFuture(t) = "pending")
    <3>1. fut' = fut
      BY <1>14, <2>3 DEF CancelTask
    <3> QED BY <1>10, <2>1, <2>3, <3>1 DEF TypeOK
  <2> QED BY <2>2, <2>3
<1>15. ASSUME NEW r \in Responders, NEW t \in Tasks, RespondCheck(r, t) PROVE QuestionInv'
  <2>1. /\ responder[r].at = "idle"
        /\ responder' = [responder EXCEPT ![r] = [at |-> "checked", task |-> t, ask |-> asks[t]]]
        /\ UNCHANGED <<pc, cancelReq, asks, fut, timer, replies>>
    BY <1>15 DEF RespondCheck, bodyVars, askVars
  <2>2. asks[t] \in 1..MaxAsks
    <3>1. pc[t] \in {"asked", "asking"}
      BY <1>15 DEF RespondCheck, ControlInv, StatusFollowsPc, TypeOK, PCs, TerminalStatus
    <3> QED BY <3>1 DEF QuestionInv, FuturesInStep, AtQuestion, TypeOK
  <2>3. \A u \in Tasks, k \in 1..MaxAsks : Accepted(u, k)' = Accepted(u, k)
    BY <2>1, SMTT(30) DEF Accepted, TypeOK
  <2>4. AnswersInStep'
    BY <2>1, <2>2, <2>3, SMTT(30) DEF QuestionInv, AnswersInStep, TypeOK
  <2>5. FuturesInStep' /\ RepliesInStep'
    BY <2>1 DEF QuestionInv, FuturesInStep, RepliesInStep, AtQuestion, OpenFuture
  <2> QED BY <2>4, <2>5 DEF QuestionInv
<1>16. ASSUME NEW r \in Responders, RespondSet(r) PROVE QuestionInv'
  <2> DEFINE t == responder[r].task
             k == responder[r].ask
  <2>1. t \in Tasks /\ k \in 1..MaxAsks /\ responder[r].at = "checked"
    BY <1>16 DEF RespondSet, QuestionInv, AnswersInStep
  <2>2. UNCHANGED <<pc, cancelReq, asks, timer, replies>>
    BY <1>16 DEF RespondSet, bodyVars
  <2>3. responder[r] \in Answers
    BY DEF TypeOK
  <2>3a. \A x : [responder[r] EXCEPT !.at = x] = [at |-> x, task |-> t, ask |-> k]
    BY <2>3 DEF Answers
  <2>4. CASE fut[t][k] = "pending"
    <3>1. fut' = [fut EXCEPT ![t][k] = "answered"]
      BY <1>16, <2>4 DEF RespondSet
    <3>2. responder' = [responder EXCEPT ![r] = [at |-> "accepted", task |-> t, ask |-> k]]
      BY <1>16, <2>4, <2>3a DEF RespondSet
    <3> HIDE DEF t, k
    <3>3. \A u \in Tasks, j \in 1..MaxAsks :
             fut'[u][j] = IF u = t /\ j = k THEN "answered" ELSE fut[u][j]
      BY <2>1, <3>1, FutureChange
    <3>4. \A u \in Tasks, j \in 1..MaxAsks :
             Accepted(u, j)' = IF u = t /\ j = k THEN Accepted(u, j) \cup {r}
                                                 ELSE Accepted(u, j)
      BY <1>0, <2>1, <3>2 DEF Accepted
    <3>5. Accepted(t, k) = {}
      BY <2>1, <2>4 DEF QuestionInv, AnswersInStep
    <3>6. \A q \in Responders : responder'[q].at = "checked" =>
             responder'[q].task \in Tasks /\ responder'[q].ask \in 1..MaxAsks
      BY <3>2 DEF QuestionInv, AnswersInStep, TypeOK
    <3>7. AnswersInStep'
      <4>1. ASSUME NEW u \in Tasks, NEW j \in 1..MaxAsks
            PROVE /\ fut'[u][j] = "answered" <=> Accepted(u, j)' # {}
                  /\ \A x, y \in Accepted(u, j)' : x = y
        <5>1. CASE u = t /\ j = k
          <6>1. fut'[u][j] = "answered" /\ Accepted(u, j)' = {r}
            BY <5>1, <3>3, <3>4, <3>5
          <6> QED BY <6>1
        <5>2. CASE ~(u = t /\ j = k)
          <6>1. fut'[u][j] = fut[u][j] /\ Accepted(u, j)' = Accepted(u, j)
            BY <5>2, <3>3, <3>4
          <6> QED BY <6>1 DEF QuestionInv, AnswersInStep
        <5> QED BY <5>1, <5>2
      <4> QED BY <3>6, <4>1 DEF AnswersInStep
    <3>8. FuturesInStep'
      <4>1. \A u \in Tasks, j \in 1..MaxAsks :
               /\ fut'[u][j] = fut[u][j] \/ (fut[u][j] = "pending" /\ fut'[u][j] = "answered")
        BY <2>4, <3>3
      <4>2. \A u \in Tasks : AtQuestion(u) => asks[u] \in 1..MaxAsks
        BY <1>0 DEF QuestionInv, FuturesInStep
      <4> QED BY <2>2, <4>1, <4>2 DEF QuestionInv, FuturesInStep, AtQuestion, OpenFuture
    <3>9. RepliesInStep'
      <4>1. \A u \in Tasks : Len(replies[u]) \in 0..MaxAsks
        BY <1>0 DEF QuestionInv, RepliesInStep
      <4> QED BY <2>2, <3>3, <4>1 DEF QuestionInv, RepliesInStep, AtQuestion
    <3> QED BY <3>7, <3>8, <3>9 DEF QuestionInv
  <2>5. CASE fut[t][k] # "pending"
    <3>1. fut' = fut /\ responder' = [responder EXCEPT ![r] = [at |-> "refused", task |-> t, ask |-> k]]
      BY <1>16, <2>5, <2>3a DEF RespondSet
    <3> HIDE DEF t, k
    <3>2. \A u \in Tasks, j \in 1..MaxAsks : Accepted(u, j)' = Accepted(u, j)
      BY <1>0, <2>1, <3>1 DEF Accepted
    <3>3. AnswersInStep'
      <4>1. \A q \in Responders : responder'[q].at = "checked" =>
               responder'[q].task \in Tasks /\ responder'[q].ask \in 1..MaxAsks
        BY <3>1 DEF QuestionInv, AnswersInStep, TypeOK
      <4>2. ASSUME NEW u \in Tasks, NEW j \in 1..MaxAsks
            PROVE /\ fut'[u][j] = "answered" <=> Accepted(u, j)' # {}
                  /\ \A x, y \in Accepted(u, j)' : x = y
        <5>1. fut'[u][j] = fut[u][j] /\ Accepted(u, j)' = Accepted(u, j)
          BY <3>1, <3>2
        <5> QED BY <5>1 DEF QuestionInv, AnswersInStep
      <4> QED BY <4>1, <4>2 DEF AnswersInStep
    <3>4. FuturesInStep' /\ RepliesInStep'
      BY <2>2, <3>1 DEF QuestionInv, FuturesInStep, RepliesInStep, AtQuestion, OpenFuture
    <3> QED BY <3>3, <3>4 DEF QuestionInv
  <2> QED BY <2>4, <2>5
<1> QED BY <1>1, <1>2, <1>4, <1>5, <1>7, <1>8, <1>11, <1>12, <1>13, <1>14, <1>15, <1>16
        DEF Next, BodyYields, LoopStep, Request

EngineInv == TypeOK /\ ControlInv /\ QuestionInv

(* The three invariants together hold in every reachable state. *)
LEMMA EngineInvariant == Spec => []EngineInv
<1>1. Init => EngineInv
  BY TypeInit, ControlInit, QuestionInit DEF EngineInv
<1>2. EngineInv /\ [Next]_vars => EngineInv'
  BY TypeNext, ControlNext, QuestionNext DEF EngineInv
<1> QED BY <1>1, <1>2, PTL DEF Spec

(* A waiting task can always be woken: neither its timer nor a cancellation *)
(* can pass without resolving the future it sleeps on.                      *)
THEOREM WaitingStaysWakeable == Spec => []WaitingIsWakeable
<1>1. EngineInv => WaitingIsWakeable
  <2> SUFFICES ASSUME EngineInv, NEW t \in Tasks
               PROVE /\ status[t] = "waiting" <=> pc[t] \in {"asked", "asking"}
                     /\ pc[t] \in {"asked", "asking"} => asks[t] > 0 /\ OpenFuture(t) # "none"
                     /\ pc[t] = "asking" /\ (timer[t] = "fired" \/ cancelReq[t])
                           => OpenFuture(t) # "pending"
    BY DEF WaitingIsWakeable
  <2>1. status[t] = "waiting" <=> pc[t] \in {"asked", "asking"}
    BY DEF EngineInv, ControlInv, StatusFollowsPc, TypeOK, PCs, TerminalStatus
  <2>2. pc[t] \in {"asked", "asking"} => asks[t] > 0 /\ OpenFuture(t) # "none"
    BY DEF EngineInv, QuestionInv, FuturesInStep, AtQuestion, OpenFuture, TypeOK
  <2>3. pc[t] = "asking" /\ (timer[t] = "fired" \/ cancelReq[t]) => OpenFuture(t) # "pending"
    BY DEF EngineInv, QuestionInv, FuturesInStep
  <2> QED BY <2>1, <2>2, <2>3
<1> QED BY <1>1, EngineInvariant, PTL

(* What a body gets as an answer was accepted from exactly one request, *)
(* made for that question.                                              *)
THEOREM AnswersStayGenuine == Spec => []AnswersAreGenuine
<1>1. EngineInv => AnswersAreGenuine
  <2> SUFFICES ASSUME EngineInv, NEW t \in Tasks, NEW k \in 1..MaxAsks
               PROVE /\ \A r, q \in Accepted(t, k) : r = q
                     /\ k <= Len(replies[t]) /\ replies[t][k] = "answer" => Accepted(t, k) # {}
    BY DEF AnswersAreGenuine, Accepted
  <2>1. \A r, q \in Accepted(t, k) : r = q
    BY DEF EngineInv, QuestionInv, AnswersInStep
  <2>2. k <= Len(replies[t]) /\ replies[t][k] = "answer" => fut[t][k] = "answered"
    BY TaskEngineAssumption DEF EngineInv, QuestionInv, RepliesInStep, TypeOK
  <2> QED BY <2>1, <2>2 DEF EngineInv, QuestionInv, AnswersInStep
<1> QED BY <1>1, EngineInvariant, PTL

----------------------------------------------------------------------------
(* The lines on their way to a client. *)

(* The outputs of q, in order, are the lines after a up to b. *)
Outputs(q) == {i \in DOMAIN q : IsOutput(q[i])}
Run(q, a, b) ==
    /\ Consecutive(q)
    /\ \A i \in Outputs(q) : (\A k \in Outputs(q) : k >= i) => q[i].n = a + 1
    /\ \A i \in Outputs(q) : (\A k \in Outputs(q) : k <= i) => q[i].n = b
    /\ Outputs(q) = {} => a = b

LEMMA RunEmpty == \A a : Run(<<>>, a, a)
<1>1. DOMAIN <<>> = {}
  OBVIOUS
<1> QED BY <1>1 DEF Run, Outputs, Consecutive

(* What Append does to the places of a sequence. *)
LEMMA AppendPlaces ==
    ASSUME NEW q \in Seq(Events), NEW e \in Events
    PROVE  LET m == Len(q)
               p == Append(q, e)
           IN  /\ m \in Nat /\ DOMAIN q = 1..m /\ DOMAIN p = 1..(m + 1)
               /\ \A i \in 1..m : p[i] = q[i]
               /\ p[m + 1] = e
  OBVIOUS

LEMMA RunAppend ==
    ASSUME NEW q \in Seq(Events), NEW e \in Events, NEW a \in Nat, NEW b \in Nat, Run(q, a, b)
    PROVE  /\ ~IsOutput(e) => Run(Append(q, e), a, b)
           /\ IsOutput(e) /\ e.n = b + 1 => Run(Append(q, e), a, b + 1)
<1> DEFINE m == Len(q)
           p == Append(q, e)
<1>1. /\ m \in Nat /\ DOMAIN q = 1..m /\ DOMAIN p = 1..(m + 1)
      /\ \A i \in 1..m : p[i] = q[i]
      /\ p[m + 1] = e
  BY AppendPlaces
<1>2. \A i \in 1..m : q[i].n \in Nat
  BY DEF Events
<1> HIDE DEF m, p
<1>3. \A i \in 1..m : i \in Outputs(p) <=> i \in Outputs(q)
  BY <1>1 DEF Outputs
<1>4. Outputs(q) \subseteq 1..m /\ Outputs(p) \subseteq 1..(m + 1)
  BY <1>1 DEF Outputs
<1>5. m + 1 \in Outputs(p) <=> IsOutput(e)
  BY <1>1 DEF Outputs
<1>6. Consecutive(q)
  BY DEF Run
<1>7. ASSUME ~IsOutput(e) PROVE Run(p, a, b)
  <2>1. Outputs(p) = Outputs(q)
    <3>1. \A i \in Outputs(p) : i # m + 1
      BY <1>5, <1>7
    <3>2. \A i \in Outputs(p) : i \in 1..m
      BY <1>1, <1>4, <3>1
    <3>3. \A i : i \in Outputs(p) <=> i \in Outputs(q)
      BY <1>3, <1>4, <3>2
    <3> QED BY <3>3, <1>4
  <2>2. \A i \in Outputs(q) : p[i] = q[i]
    BY <1>1, <1>4
  <2>3. Consecutive(p)
    <3> SUFFICES ASSUME NEW i \in DOMAIN p, NEW j \in DOMAIN p, i < j, IsOutput(p[i]), IsOutput(p[j]),
                        \A k \in DOMAIN p : i < k /\ k < j => ~IsOutput(p[k])
                 PROVE  p[j].n = p[i].n + 1
      BY DEF Consecutive
    <3>1. i \in 1..m /\ j \in 1..m
      BY <1>1, <1>7
    <3>2. \A k \in 1..m : i < k /\ k < j => ~IsOutput(q[k])
      BY <1>1
    <3> QED BY <1>1, <1>6, <3>1, <3>2 DEF Consecutive
  <2> QED BY <2>1, <2>2, <2>3 DEF Run
<1>8. ASSUME IsOutput(e), e.n = b + 1 PROVE Run(p, a, b + 1)
  <2>1. Outputs(p) = Outputs(q) \cup {m + 1}
    BY <1>1, <1>3, <1>4, <1>5, <1>8
  <2>2. Consecutive(p)
    <3> SUFFICES ASSUME NEW i \in DOMAIN p, NEW j \in DOMAIN p, i < j, IsOutput(p[i]), IsOutput(p[j]),
                        \A k \in DOMAIN p : i < k /\ k < j => ~IsOutput(p[k])
                 PROVE  p[j].n = p[i].n + 1
      BY DEF Consecutive
    <3>1. i \in 1..m
      BY <1>1
    <3>2. CASE j \in 1..m
      <4>1. \A k \in 1..m : i < k /\ k < j => ~IsOutput(q[k])
        BY <1>1
      <4> QED BY <1>1, <1>6, <3>1, <3>2, <4>1 DEF Consecutive
    <3>3. CASE j = m + 1
      <4>1. i \in Outputs(q)
        BY <1>1, <3>1 DEF Outputs
      <4>2. \A k \in Outputs(q) : k <= i
        BY <1>1, <3>1, <3>3 DEF Outputs
      <4>3. q[i].n = b
        BY <4>1, <4>2 DEF Run
      <4> QED BY <1>1, <1>8, <3>1, <3>3, <4>3
    <3> QED BY <1>1, <3>2, <3>3
  <2>3. ASSUME NEW i \in Outputs(p), \A k \in Outputs(p) : k >= i PROVE p[i].n = a + 1
    <3>1. CASE i = m + 1
      <4>1. Outputs(q) = {}
        BY <1>1, <1>4, <2>1, <2>3, <3>1
      <4> QED BY <1>1, <1>8, <3>1, <4>1 DEF Run
    <3>2. CASE i # m + 1
      <4>1. i \in Outputs(q) /\ i \in 1..m /\ \A k \in Outputs(q) : k >= i
        BY <1>4, <2>1, <2>3, <3>2
      <4> QED BY <1>1, <4>1 DEF Run
    <3> QED BY <3>1, <3>2
  <2>4. ASSUME NEW i \in Outputs(p), \A k \in Outputs(p) : k <= i PROVE p[i].n = b + 1
    <3>1. i = m + 1
      BY <1>1, <1>4, <2>1, <2>4
    <3> QED BY <1>1, <1>8, <3>1
  <2> QED BY <2>1, <2>2, <2>3, <2>4 DEF Run
<1> QED BY <1>7, <1>8 DEF p

LEMMA TailPlaces ==
    ASSUME NEW q \in Seq(Events), q # <<>>
    PROVE  LET m == Len(q) - 1
               p == Tail(q)
           IN  /\ m \in Nat /\ DOMAIN q = 1..(m + 1) /\ DOMAIN p = 1..m
               /\ \A i \in 1..m : p[i] = q[i + 1]
               /\ Head(q) = q[1] /\ Head(q) \in Events /\ p \in Seq(Events)
  OBVIOUS

LEMMA RunTail ==
    ASSUME NEW q \in Seq(Events), q # <<>>, NEW a \in Nat, NEW b \in Nat, Run(q, a, b)
    PROVE  /\ ~IsOutput(Head(q)) => Run(Tail(q), a, b)
           /\ IsOutput(Head(q)) => Head(q).n = a + 1 /\ Run(Tail(q), a + 1, b)
<1> DEFINE m == Len(q) - 1
           p == Tail(q)
           h == Head(q)
<1>1. /\ m \in Nat /\ DOMAIN q = 1..(m + 1) /\ DOMAIN p = 1..m
      /\ \A i \in 1..m : p[i] = q[i + 1]
      /\ h = q[1]
  BY TailPlaces
<1> HIDE DEF m, p, h
<1>2. Outputs(p) \subseteq 1..m /\ Outputs(q) \subseteq 1..(m + 1)
  BY <1>1 DEF Outputs
<1>3. \A i \in 1..m : i \in Outputs(p) <=> i + 1 \in Outputs(q)
  BY <1>1 DEF Outputs
<1>4. 1 \in Outputs(q) <=> IsOutput(h)
  BY <1>1 DEF Outputs
<1>5. Consecutive(p)
  <2> SUFFICES ASSUME NEW i \in DOMAIN p, NEW j \in DOMAIN p, i < j, IsOutput(p[i]), IsOutput(p[j]),
                      \A k \in DOMAIN p : i < k /\ k < j => ~IsOutput(p[k])
               PROVE  p[j].n = p[i].n + 1
    BY DEF Consecutive
  <2>1. /\ i \in 1..m /\ j \in 1..m /\ i + 1 \in DOMAIN q /\ j + 1 \in DOMAIN q /\ i + 1 < j + 1
        /\ p[i] = q[i + 1] /\ p[j] = q[j + 1]
    BY <1>1
  <2>2. ASSUME NEW k \in DOMAIN q, i + 1 < k, k < j + 1 PROVE ~IsOutput(q[k])
    <3>1. k - 1 \in 1..m /\ i < k - 1 /\ k - 1 < j /\ p[k - 1] = q[k]
      BY <1>1, <2>1, <2>2, SMTT(30)
    <3> QED BY <1>1, <3>1
  <2> QED BY <2>1, <2>2 DEF Run, Consecutive
<1>6. ASSUME NEW i \in Outputs(p), \A k \in Outputs(p) : k <= i PROVE p[i].n = b
  <2>1. i \in 1..m /\ i + 1 \in Outputs(q) /\ p[i] = q[i + 1]
    BY <1>1, <1>2, <1>3
  <2>2. ASSUME NEW k \in Outputs(q) PROVE k <= i + 1
    <3>1. CASE k = 1
      BY <2>1, <3>1
    <3>2. CASE k # 1
      <4>1. k \in 1..(m + 1) /\ k - 1 \in 1..m /\ (k - 1) + 1 = k
        BY <1>1, <1>2, <3>2
      <4>2. k - 1 \in Outputs(p)
        BY <1>3, <4>1
      <4> QED BY <1>6, <2>1, <4>1, <4>2
    <3> QED BY <3>1, <3>2
  <2> QED BY <2>1, <2>2 DEF Run
<1>7. ASSUME ~IsOutput(h) PROVE Run(p, a, b)
  <2>1. ASSUME NEW i \in Outputs(p), \A k \in Outputs(p) : k >= i PROVE p[i].n = a + 1
    <3>1. i \in 1..m /\ i + 1 \in Outputs(q) /\ p[i] = q[i + 1]
      BY <1>1, <1>2, <1>3
    <3>2. ASSUME NEW k \in Outputs(q) PROVE k >= i + 1
      <4>1. k \in 1..(m + 1) /\ k # 1
        BY <1>2, <1>4, <1>7
      <4>2. k - 1 \in 1..m /\ (k - 1) + 1 = k
        BY <1>1, <4>1
      <4>3. k - 1 \in Outputs(p)
        BY <1>3, <4>2
      <4> QED BY <2>1, <3>1, <4>2, <4>3
    <3> QED BY <3>1, <3>2 DEF Run
  <2>2. ASSUME Outputs(p) = {} PROVE a = b
    <3>1. ASSUME NEW k \in Outputs(q) PROVE FALSE
      <4>1. k \in 1..(m + 1) /\ k # 1
        BY <1>2, <1>4, <1>7, <3>1
      <4>2. k - 1 \in 1..m /\ (k - 1) + 1 = k
        BY <1>1, <4>1
      <4> QED BY <1>3, <2>2, <4>2, <3>1
    <3> QED BY <3>1 DEF Run
  <2> QED BY <1>5, <1>6, <2>1, <2>2 DEF Run
<1>8. ASSUME IsOutput(h) PROVE h.n = a + 1 /\ Run(p, a + 1, b)
  <2>1. 1 \in Outputs(q) /\ \A k \in Outputs(q) : k >= 1
    BY <1>1, <1>2, <1>4, <1>8
  <2>2. h.n = a + 1
    BY <1>1, <2>1 DEF Run
  <2>3. ASSUME NEW i \in Outputs(p), \A k \in Outputs(p) : k >= i PROVE p[i].n = (a + 1) + 1
    <3>1. i \in 1..m /\ i + 1 \in Outputs(q) /\ p[i] = q[i + 1]
      BY <1>1, <1>2, <1>3
    <3>2. ASSUME NEW k \in DOMAIN q, 1 < k, k < i + 1 PROVE ~IsOutput(q[k])
      <4>1. k - 1 \in 1..m /\ (k - 1) + 1 = k /\ ~(k - 1 >= i)
        BY <1>1, <3>1, <3>2
      <4>2. k - 1 \notin Outputs(p)
        BY <2>3, <4>1
      <4> QED BY <1>3, <4>1, <4>2 DEF Outputs
    <3>3. 1 \in DOMAIN q /\ i + 1 \in DOMAIN q /\ 1 < i + 1 /\ IsOutput(q[1]) /\ IsOutput(q[i + 1])
      BY <1>1, <1>8, <3>1 DEF Outputs
    <3>4. q[i + 1].n = q[1].n + 1
      BY <3>2, <3>3 DEF Run, Consecutive
    <3> QED BY <1>1, <2>2, <3>1, <3>4
  <2>4. ASSUME Outputs(p) = {} PROVE a + 1 = b
    <3>1. ASSUME NEW k \in Outputs(q) PROVE k <= 1
      <4>1. k \in 1..(m + 1)
        BY <1>2
      <4>2. CASE k # 1
        <5>1. k - 1 \in 1..m /\ (k - 1) + 1 = k
          BY <1>1, <4>1, <4>2
        <5> QED BY <1>3, <2>4, <5>1
      <4> QED BY <4>2
    <3>2. q[1].n = b
      BY <2>1, <3>1 DEF Run
    <3> QED BY <1>1, <2>2, <3>2
  <2> QED BY <1>5, <1>6, <2>2, <2>3, <2>4 DEF Run
<1> QED BY <1>7, <1>8 DEF p, h

(* A connection is subscribed to its own task, while it streams. *)
SubscribersStream == \A s \in Subs, t \in Tasks :
    s \in subscribers[t] => ws[s].at = "streaming" /\ ws[s].task = t

NothingBeforeFollow == \A s \in Subs :
    ws[s].at \in {"off", "refused", "snapshot"} => seen[s] = <<>> /\ queue[s] = <<>>

(* The scheduled notifications are the last lines emitted. *)
LinesScheduled == \A t \in Tasks : \E c \in Nat : Run(scheduled[t], c, lines[t])

(* What a client got, what waits in its queue and what is still scheduled  *)
(* follow one another.                                                     *)
Flows(s) == \E a, b, c \in Nat :
    /\ Run(seen[s], a, b) /\ Run(queue[s], b, c)
    /\ \A t \in Tasks : s \in subscribers[t] => Run(scheduled[t], c, lines[t])

StreamInv == /\ SubscribersStream /\ NothingBeforeFollow /\ LinesScheduled
             /\ \A s \in Subs \ lost : Flows(s)

LEMMA StreamInit == Init => StreamInv
<1> SUFFICES ASSUME Init PROVE StreamInv
  OBVIOUS
<1> USE DEF Init
<1>1. SubscribersStream /\ NothingBeforeFollow
  BY DEF SubscribersStream, NothingBeforeFollow
<1>2. LinesScheduled
  BY RunEmpty DEF LinesScheduled
<1>3. ASSUME NEW s \in Subs PROVE Flows(s)
  <2>1. Run(seen[s], 0, 0) /\ Run(queue[s], 0, 0) /\ 0 \in Nat
    BY RunEmpty
  <2> QED BY <2>1 DEF Flows
<1> QED BY <1>1, <1>2, <1>3 DEF StreamInv

LEMMA StreamFrame ==
    ASSUME StreamInv, UNCHANGED <<subscribers, ws, queue, seen, lost, lines, scheduled>>
    PROVE  StreamInv'
  BY DEF StreamInv, SubscribersStream, NothingBeforeFollow, LinesScheduled, Flows

(* emit_output and update_progress. *)
LEMMA StreamScheduled ==
    ASSUME TypeOK, StreamInv, NEW t \in Tasks, BodyWorks(t)
    PROVE  StreamInv'
<1>1. PICK e \in Events :
        /\ scheduled' = [scheduled EXCEPT ![t] = Append(scheduled[t], e)]
        /\ \/ IsOutput(e) /\ e.n = lines[t] + 1 /\ lines' = [lines EXCEPT ![t] = lines[t] + 1]
           \/ ~IsOutput(e) /\ lines' = lines
  <2>1. lines[t] \in Nat
    BY TaskEngineAssumption DEF TypeOK
  <2>2. CASE EmitOutput(t)
    <3>1. Output(lines[t] + 1) \in Events
      BY <2>1, EventsTyped
    <3>2. IsOutput(Output(lines[t] + 1)) /\ Output(lines[t] + 1).n = lines[t] + 1
      BY DEF IsOutput, Output
    <3> QED BY <2>2, <3>1, <3>2 DEF EmitOutput
  <2>3. CASE UpdateProgress(t)
    <3>1. Event("progress") \in Events
      BY EventsTyped
    <3>2. ~IsOutput(Event("progress"))
      BY DEF IsOutput, Event
    <3> QED BY <2>3, <3>1, <3>2 DEF UpdateProgress
  <2> QED BY <2>2, <2>3 DEF BodyWorks
<1>2. UNCHANGED <<subscribers, ws, queue, seen, lost>>
  BY DEF BodyWorks, EmitOutput, UpdateProgress, subVars
<1>3. /\ scheduled \in [Tasks -> Seq(Events)] /\ lines \in [Tasks -> Nat]
  BY TaskEngineAssumption DEF TypeOK
<1>4. ASSUME NEW u \in Tasks, NEW c \in Nat, Run(scheduled[u], c, lines[u])
      PROVE  Run(scheduled'[u], c, lines'[u])
  <2>1. CASE u = t
    <3>1. /\ scheduled[t] \in Seq(Events) /\ lines[t] \in Nat
          /\ scheduled'[t] = Append(scheduled[t], e)
      BY <1>1, <1>3
    <3>3. CASE IsOutput(e)
      <4>1. e.n = lines[t] + 1 /\ lines'[t] = lines[t] + 1
        BY <1>1, <1>3, <3>3
      <4> QED BY <1>4, <2>1, <3>1, <3>3, <4>1, RunAppend
    <3>4. CASE ~IsOutput(e)
      <4>1. lines'[t] = lines[t]
        BY <1>1, <3>4
      <4> QED BY <1>4, <2>1, <3>1, <3>4, <4>1, RunAppend
    <3> QED BY <3>3, <3>4
  <2>2. CASE u # t
    BY <1>1, <1>3, <1>4, <2>2
  <2> QED BY <2>1, <2>2
<1>5. LinesScheduled'
  BY <1>4 DEF StreamInv, LinesScheduled
<1>6. ASSUME NEW s \in Subs \ lost PROVE Flows(s)'
  <2>1. PICK a \in Nat, b \in Nat, c \in Nat :
          /\ Run(seen[s], a, b) /\ Run(queue[s], b, c)
          /\ \A u \in Tasks : s \in subscribers[u] => Run(scheduled[u], c, lines[u])
    BY DEF StreamInv, Flows
  <2>2. \A u \in Tasks : s \in subscribers'[u] => Run(scheduled'[u], c, lines'[u])
    BY <1>2, <1>4, <2>1
  <2> QED BY <1>2, <2>1, <2>2 DEF Flows
<1> QED BY <1>2, <1>5, <1>6 DEF StreamInv, SubscribersStream, NothingBeforeFollow
(* _notify reaches every subscriber of the task that loses nothing, and    *)
(* nobody else.                                                            *)
LEMMA NotifyReaches ==
    ASSUME TypeOK, StreamInv, NEW t \in Tasks, NEW e \in Events, Notify(t, e)
    PROVE  /\ \A s \in Subs \ lost' : /\ s \notin lost
                                      /\ queue'[s] = IF s \in subscribers[t]
                                                     THEN Append(queue[s], e) ELSE queue[s]
           /\ UNCHANGED <<subscribers, ws, seen>>
           /\ SubscribersStream' /\ NothingBeforeFollow'
<1>1. UNCHANGED <<subscribers, ws, seen>> /\ lost' = lost \cup {s \in subscribers[t] : Full(s)}
  BY DEF Notify
<1>2. \A s \in Subs : queue'[s] = IF s \in subscribers[t] /\ ~Full(s)
                                  THEN Append(queue[s], e) ELSE queue[s]
  BY DEF Notify
<1>3. \A s \in Subs \ lost' : /\ s \notin lost
                              /\ queue'[s] = IF s \in subscribers[t]
                                             THEN Append(queue[s], e) ELSE queue[s]
  BY <1>1, <1>2
<1>4. SubscribersStream'
  BY <1>1 DEF StreamInv, SubscribersStream
<1>5. NothingBeforeFollow'
  <2> SUFFICES ASSUME NEW s \in Subs, ws[s].at \in {"off", "refused", "snapshot"}
               PROVE  seen[s] = <<>> /\ queue'[s] = <<>>
    BY <1>1 DEF NothingBeforeFollow
  <2>1. s \notin subscribers[t]
    BY DEF StreamInv, SubscribersStream
  <2> QED BY <1>2, <2>1 DEF StreamInv, NothingBeforeFollow
<1> QED BY <1>1, <1>3, <1>4, <1>5

(* The notifications that are awaited in place: question and done. *)
LEMMA StreamNotified ==
    ASSUME TypeOK, StreamInv, NEW t \in Tasks, NEW e \in Events, Notify(t, e), ~IsOutput(e),
           UNCHANGED <<lines, scheduled>>
    PROVE  StreamInv'
<1>1. /\ \A s \in Subs \ lost' : /\ s \notin lost
                                 /\ queue'[s] = IF s \in subscribers[t]
                                                THEN Append(queue[s], e) ELSE queue[s]
      /\ UNCHANGED <<subscribers, ws, seen>>
      /\ SubscribersStream' /\ NothingBeforeFollow'
  BY NotifyReaches
<1>2. ASSUME NEW s \in Subs \ lost' PROVE Flows(s)'
  <2>1. PICK a \in Nat, b \in Nat, c \in Nat :
          /\ Run(seen[s], a, b) /\ Run(queue[s], b, c)
          /\ \A u \in Tasks : s \in subscribers[u] => Run(scheduled[u], c, lines[u])
    BY <1>1 DEF StreamInv, Flows
  <2>2. queue[s] \in Seq(Events)
    BY DEF TypeOK
  <2>3. Run(queue'[s], b, c)
    BY <1>1, <2>1, <2>2, RunAppend
  <2>4. \A u \in Tasks : s \in subscribers'[u] => Run(scheduled'[u], c, lines'[u])
    BY <1>1, <2>1
  <2>5. Run(seen'[s], a, b)
    BY <1>1, <2>1
  <2> QED BY <2>3, <2>4, <2>5 DEF Flows
<1>3. LinesScheduled'
  BY DEF StreamInv, LinesScheduled
<1> QED BY <1>1, <1>2, <1>3 DEF StreamInv

(* A scheduled notification moves from the loop to the queues. *)
LEMMA StreamRuns ==
    ASSUME TypeOK, StreamInv, NEW t \in Tasks, RunNotification(t)
    PROVE  StreamInv'
<1> DEFINE q == scheduled[t]
           e == Head(q)
<1>1. /\ q # <<>> /\ scheduled' = [scheduled EXCEPT ![t] = Tail(q)] /\ Notify(t, e) /\ lines' = lines
      /\ scheduled \in [Tasks -> Seq(Events)] /\ q \in Seq(Events) /\ lines \in [Tasks -> Nat]
  BY TaskEngineAssumption DEF RunNotification, TypeOK
<1>2. e \in Events
  BY <1>1, TailPlaces
<1>3. /\ \A s \in Subs \ lost' : /\ s \notin lost
                                 /\ queue'[s] = IF s \in subscribers[t]
                                                THEN Append(queue[s], e) ELSE queue[s]
      /\ UNCHANGED <<subscribers, ws, seen>>
      /\ SubscribersStream' /\ NothingBeforeFollow'
  BY <1>1, <1>2, NotifyReaches
<1>4. scheduled'[t] = Tail(q) /\ \A u \in Tasks \ {t} : scheduled'[u] = scheduled[u]
  BY <1>1
<1> HIDE DEF e, q
<1>5. ASSUME NEW c \in Nat, Run(q, c, lines[t])
      PROVE  /\ ~IsOutput(e) => Run(scheduled'[t], c, lines[t])
             /\ IsOutput(e) => e.n = c + 1 /\ Run(scheduled'[t], c + 1, lines[t])
  BY <1>1, <1>4, <1>5, RunTail DEF e
<1>6. LinesScheduled'
  <2> SUFFICES ASSUME NEW u \in Tasks PROVE \E c \in Nat : Run(scheduled'[u], c, lines[u])
    BY <1>1 DEF LinesScheduled
  <2>1. PICK c \in Nat : Run(scheduled[u], c, lines[u])
    BY DEF StreamInv, LinesScheduled
  <2>2. CASE u = t
    <3>1. c + 1 \in Nat /\ Run(q, c, lines[t])
      BY <2>1, <2>2 DEF q
    <3> QED BY <1>5, <2>2, <3>1
  <2>3. CASE u # t
    BY <1>4, <2>1, <2>3
  <2> QED BY <2>2, <2>3
<1>7. ASSUME NEW s \in Subs \ lost' PROVE Flows(s)'
  <2>1. PICK a \in Nat, b \in Nat, c \in Nat :
          /\ Run(seen[s], a, b) /\ Run(queue[s], b, c)
          /\ \A u \in Tasks : s \in subscribers[u] => Run(scheduled[u], c, lines[u])
    BY <1>3 DEF StreamInv, Flows
  <2>2. queue[s] \in Seq(Events) /\ c + 1 \in Nat /\ Run(seen'[s], a, b)
    BY <1>3, <2>1 DEF TypeOK
  <2>3. CASE s \notin subscribers[t]
    <3>1. queue'[s] = queue[s]
      BY <1>3, <2>3
    <3>2. \A u \in Tasks : s \in subscribers'[u] => Run(scheduled'[u], c, lines'[u])
      BY <1>1, <1>3, <1>4, <2>1, <2>3
    <3> QED BY <2>1, <2>2, <3>1, <3>2 DEF Flows
  <2>4. CASE s \in subscribers[t]
    <3>1. Run(q, c, lines[t]) /\ queue'[s] = Append(queue[s], e)
      BY <1>3, <2>1, <2>4 DEF q
    <3>2. \A u \in Tasks : s \in subscribers'[u] => u = t
      BY <1>3, <2>4 DEF StreamInv, SubscribersStream
    <3>3. CASE IsOutput(e)
      <4>1. e.n = c + 1 /\ Run(scheduled'[t], c + 1, lines'[t])
        BY <1>1, <1>5, <3>1, <3>3
      <4>2. Run(queue'[s], b, c + 1)
        BY <1>2, <2>1, <2>2, <3>1, <3>3, <4>1, RunAppend
      <4> QED BY <2>2, <3>2, <4>1, <4>2 DEF Flows
    <3>4. CASE ~IsOutput(e)
      <4>1. Run(scheduled'[t], c, lines'[t])
        BY <1>1, <1>5, <3>1, <3>4
      <4>2. Run(queue'[s], b, c)
        BY <1>2, <2>1, <2>2, <3>1, <3>4, RunAppend
      <4> QED BY <2>2, <3>2, <4>1, <4>2 DEF Flows
    <3> QED BY <3>3, <3>4
  <2> QED BY <2>3, <2>4
<1> QED BY <1>3, <1>6, <1>7 DEF StreamInv

(* Subscribers are dropped: clear-finished and cleanup_old. *)
LEMMA StreamCut ==
    ASSUME StreamInv, UNCHANGED <<ws, queue, seen, lost, lines, scheduled>>,
           \A t \in Tasks : subscribers'[t] \subseteq subscribers[t]
    PROVE  StreamInv'
  BY DEF StreamInv, SubscribersStream, NothingBeforeFollow, LinesScheduled, Flows

(* task_stream after its snapshot. *)
LEMMA StreamFollows ==
    ASSUME TypeOK, StreamInv, NEW s \in Subs, Follow(s)
    PROVE  StreamInv'
<1> DEFINE t == ws[s].task
<1>1. /\ ws[s].at = "snapshot" /\ t \in Tasks /\ seen[s] = <<>> /\ queue[s] = <<>>
      /\ UNCHANGED <<queue, lost, lines, scheduled>>
  BY DEF Follow, TypeOK, StreamInv, NothingBeforeFollow, workVars
<1>2. \A u \in Tasks : s \notin subscribers[u]
  BY <1>1 DEF StreamInv, SubscribersStream
<1>3. /\ ws'[s].task = t /\ ws'[s].at \in {"closed", "streaming"}
      /\ \A r \in Subs \ {s} : ws'[r] = ws[r] /\ seen'[r] = seen[r]
  BY <1>1 DEF Follow, TypeOK
<1>4. LinesScheduled'
  BY <1>1 DEF StreamInv, LinesScheduled
<1>5. NothingBeforeFollow'
  BY <1>1, <1>3 DEF StreamInv, NothingBeforeFollow
<1>6. CASE status[t] \in TerminalStatus
  <2>1. /\ subscribers' = subscribers /\ seen' = [seen EXCEPT ![s] = Append(<<>>, Event("done"))]
    BY <1>1, <1>6 DEF Follow
  <2>2. SubscribersStream'
    BY <1>2, <1>3, <2>1 DEF StreamInv, SubscribersStream
  <2>3. ASSUME NEW r \in Subs \ lost' PROVE Flows(r)'
    <3>1. CASE r = s
      <4>1. Event("done") \in Events /\ ~IsOutput(Event("done")) /\ <<>> \in Seq(Events)
        BY EventsTyped DEF Event, IsOutput
      <4>2. Run(Append(<<>>, Event("done")), 0, 0)
        BY <4>1, RunEmpty, RunAppend
      <4>3. seen'[s] = Append(<<>>, Event("done")) /\ queue'[s] = <<>>
        BY <1>1, <2>1 DEF TypeOK
      <4>4. Run(seen'[s], 0, 0) /\ Run(queue'[s], 0, 0)
        BY <4>2, <4>3, RunEmpty
      <4> QED BY <1>2, <2>1, <3>1, <4>4 DEF Flows
    <3>2. CASE r # s
      BY <1>1, <1>3, <2>1, <3>2 DEF StreamInv, Flows
    <3> QED BY <3>1, <3>2
  <2> QED BY <1>4, <1>5, <2>2, <2>3 DEF StreamInv
<1>7. CASE status[t] \notin TerminalStatus
  <2>1. /\ subscribers' = [subscribers EXCEPT ![t] = subscribers[t] \cup {s}] /\ seen' = seen
        /\ ws'[s].at = "streaming"
    BY <1>1, <1>7 DEF Follow, TypeOK
  <2>2. \A u \in Tasks : subscribers'[u] = IF u = t THEN subscribers[t] \cup {s} ELSE subscribers[u]
    BY <1>1, <2>1 DEF TypeOK
  <2>3. SubscribersStream'
    BY <1>2, <1>3, <2>1, <2>2 DEF StreamInv, SubscribersStream
  <2>4. ASSUME NEW r \in Subs \ lost' PROVE Flows(r)'
    <3>1. CASE r = s
      <4>1. PICK c \in Nat : Run(scheduled[t], c, lines[t])
        BY <1>1 DEF StreamInv, LinesScheduled
      <4>2. Run(seen'[s], c, c) /\ Run(queue'[s], c, c)
        BY <1>1, <2>1, RunEmpty
      <4>3. \A u \in Tasks : s \in subscribers'[u] => Run(scheduled'[u], c, lines'[u])
        BY <1>1, <1>2, <2>2, <4>1
      <4> QED BY <3>1, <4>2, <4>3 DEF Flows
    <3>2. CASE r # s
      <4>1. \A u \in Tasks : r \in subscribers'[u] => r \in subscribers[u]
        BY <2>2, <3>2
      <4>2. Flows(r)
        BY <1>1 DEF StreamInv
      <4> QED BY <1>1, <2>1, <4>1, <4>2 DEF Flows
    <3> QED BY <3>1, <3>2
  <2> QED BY <1>4, <1>5, <2>3, <2>4 DEF StreamInv
<1> QED BY <1>6, <1>7

(* A stream that ends or is left unsubscribes. *)
LEMMA StreamLeaves ==
    ASSUME TypeOK, StreamInv, NEW s \in Subs, ws[s].at = "streaming", subscribers' = Unsubscribe(s)
    PROVE  \A t \in Tasks : subscribers'[t] = subscribers[t] \ {s}
<1>1. ws[s].task \in Tasks /\ subscribers \in [Tasks -> SUBSET Subs]
  BY DEF TypeOK
<1>2. \A t \in Tasks : t # ws[s].task => s \notin subscribers[t]
  BY DEF StreamInv, SubscribersStream
<1> QED BY <1>1, <1>2 DEF Unsubscribe

LEMMA StreamDelivers ==
    ASSUME TypeOK, StreamInv, NEW s \in Subs, Deliver(s)
    PROVE  StreamInv'
<1> DEFINE q == queue[s]
           e == Head(q)
<1>1. /\ ws[s].at = "streaming" /\ q # <<>> /\ q \in Seq(Events)
      /\ queue' = [queue EXCEPT ![s] = Tail(q)] /\ seen' = [seen EXCEPT ![s] = Append(seen[s], e)]
      /\ ws' = (IF e.type = "done" THEN [ws EXCEPT ![s].at = "closed"] ELSE ws)
      /\ subscribers' = (IF e.type = "done" THEN Unsubscribe(s) ELSE subscribers)
      /\ UNCHANGED <<lost, lines, scheduled>>
  BY DEF Deliver, TypeOK, workVars
<1>2. e \in Events
  BY <1>1, TailPlaces
<1>3. /\ seen'[s] = Append(seen[s], e) /\ queue'[s] = Tail(q) /\ seen[s] \in Seq(Events)
      /\ \A r \in Subs \ {s} : seen'[r] = seen[r] /\ queue'[r] = queue[r]
  BY <1>1 DEF TypeOK
<1>4. /\ \A r \in Subs \ {s} : ws'[r] = ws[r]
      /\ ws'[s].task = ws[s].task /\ ws'[s].at \in {"closed", "streaming"}
      /\ e.type # "done" => ws'[s].at = "streaming"
  <2>1. ws[s] \in Connections /\ ws \in [Subs -> Connections]
    BY DEF TypeOK
  <2>2. CASE e.type = "done"
    <3>1. ws' = [ws EXCEPT ![s] = [ws[s] EXCEPT !.at = "closed"]]
      BY <1>1, <2>2
    <3>2. [ws[s] EXCEPT !.at = "closed"].at = "closed" /\ [ws[s] EXCEPT !.at = "closed"].task = ws[s].task
      BY <2>1 DEF Connections
    <3> QED BY <2>1, <2>2, <3>1, <3>2
  <2>3. CASE e.type # "done"
    BY <1>1, <2>3
  <2> QED BY <2>2, <2>3
<1>5. \A t \in Tasks : subscribers'[t] = IF e.type = "done" THEN subscribers[t] \ {s} ELSE subscribers[t]
  BY <1>1, StreamLeaves
<1> HIDE DEF e, q
<1>6. SubscribersStream'
  <2> SUFFICES ASSUME NEW r \in Subs, NEW t \in Tasks, r \in subscribers'[t]
               PROVE  ws'[r].at = "streaming" /\ ws'[r].task = t
    BY DEF SubscribersStream
  <2>1. r \in subscribers[t] /\ (e.type = "done" => r # s)
    BY <1>5
  <2>2. ws[r].at = "streaming" /\ ws[r].task = t
    BY <2>1 DEF StreamInv, SubscribersStream
  <2>3. CASE r = s
    BY <1>4, <2>1, <2>2, <2>3
  <2>4. CASE r # s
    BY <1>4, <2>2, <2>4
  <2> QED BY <2>3, <2>4
<1>7. NothingBeforeFollow'
  BY <1>3, <1>4 DEF StreamInv, NothingBeforeFollow
<1>8. LinesScheduled'
  BY <1>1 DEF StreamInv, LinesScheduled
<1>9. ASSUME NEW r \in Subs \ lost' PROVE Flows(r)'
  <2>1. PICK a \in Nat, b \in Nat, c \in Nat :
          /\ Run(seen[r], a, b) /\ Run(queue[r], b, c)
          /\ \A u \in Tasks : r \in subscribers[u] => Run(scheduled[u], c, lines[u])
    BY <1>1 DEF StreamInv, Flows
  <2>2. \A u \in Tasks : r \in subscribers'[u] => Run(scheduled'[u], c, lines'[u])
    BY <1>1, <1>5, <2>1
  <2>3. CASE r # s
    BY <1>3, <2>1, <2>2, <2>3 DEF Flows
  <2>4. CASE r = s
    <3>1. b + 1 \in Nat /\ Run(q, b, c)
      BY <2>1, <2>4 DEF q
    <3>2. CASE IsOutput(e)
      <4>0. Head(q).n = b + 1 /\ Run(Tail(q), b + 1, c)
        BY <1>1, <2>1, <3>1, <3>2, RunTail DEF e
      <4>1. e.n = b + 1 /\ Run(queue'[s], b + 1, c)
        BY <1>3, <4>0 DEF e
      <4>2. Run(seen'[s], a, b + 1)
        BY <1>2, <1>3, <2>1, <2>4, <3>2, <4>1, RunAppend
      <4> QED BY <2>2, <2>4, <3>1, <4>1, <4>2 DEF Flows
    <3>3. CASE ~IsOutput(e)
      <4>1. Run(queue'[s], b, c)
        BY <1>1, <1>3, <3>1, <3>3, RunTail DEF e
      <4>2. Run(seen'[s], a, b)
        BY <1>2, <1>3, <2>1, <2>4, <3>3, RunAppend
      <4> QED BY <2>2, <2>4, <4>1, <4>2 DEF Flows
    <3> QED BY <3>2, <3>3
  <2> QED BY <2>3, <2>4
<1> QED BY <1>6, <1>7, <1>8, <1>9 DEF StreamInv

(* A connection is opened or left. *)
LEMMA StreamMoves ==
    ASSUME TypeOK, StreamInv, NEW s \in Subs, Disconnect(s) \/ \E t \in Tasks : Connect(s, t)
    PROVE  StreamInv'
<1>1. UNCHANGED <<queue, seen, lost, lines, scheduled>>
  BY DEF Disconnect, Connect, workVars
<1>2. \A r \in Subs \ {s} : ws'[r] = ws[r]
  BY DEF Disconnect, Connect, TypeOK
<1>3. CASE Disconnect(s)
  <2>1. ws'[s].at = "gone" /\ ws[s].at = "streaming"
    BY <1>3 DEF Disconnect, TypeOK, Connections
  <2>2. \A t \in Tasks : subscribers'[t] = subscribers[t] \ {s}
    BY <1>3, <2>1, StreamLeaves DEF Disconnect
  <2>3. SubscribersStream' /\ NothingBeforeFollow' /\ LinesScheduled'
    BY <1>1, <1>2, <2>1, <2>2 DEF StreamInv, SubscribersStream, NothingBeforeFollow, LinesScheduled
  <2>4. \A r \in Subs \ lost' : Flows(r)'
    BY <1>1, <2>2 DEF StreamInv, Flows
  <2> QED BY <2>3, <2>4 DEF StreamInv
<1>4. CASE \E t \in Tasks : Connect(s, t)
  <2>1. ws[s].at = "off" /\ subscribers' = subscribers
    BY <1>4 DEF Connect
  <2>2. seen[s] = <<>> /\ queue[s] = <<>> /\ \A t \in Tasks : s \notin subscribers[t]
    BY <2>1 DEF StreamInv, SubscribersStream, NothingBeforeFollow
  <2>3. SubscribersStream' /\ NothingBeforeFollow' /\ LinesScheduled'
    BY <1>1, <1>2, <2>1, <2>2 DEF StreamInv, SubscribersStream, NothingBeforeFollow, LinesScheduled
  <2>4. \A r \in Subs \ lost' : Flows(r)'
    BY <1>1, <2>1 DEF StreamInv, Flows
  <2> QED BY <2>3, <2>4 DEF StreamInv
<1> QED BY <1>3, <1>4

LEMMA StreamNext == TypeOK /\ StreamInv /\ [Next]_vars => StreamInv'
<1> SUFFICES ASSUME TypeOK, StreamInv, [Next]_vars PROVE StreamInv'
  OBVIOUS
<1>1. ASSUME NEW t \in Tasks, BodyWorks(t) PROVE StreamInv'
  BY <1>1, StreamScheduled
<1>2. ASSUME NEW t \in Tasks, AskQuestion(t) PROVE StreamInv'
  <2>1. Event("question") \in Events /\ ~IsOutput(Event("question"))
    BY EventsTyped DEF Event, IsOutput
  <2> QED BY <1>2, <2>1, StreamNotified DEF AskQuestion, workVars
<1>3. ASSUME NEW t \in Tasks, Finalize(t) PROVE StreamInv'
  <2>1. Event("done") \in Events /\ ~IsOutput(Event("done"))
    BY EventsTyped DEF Event, IsOutput
  <2> QED BY <1>3, <2>1, StreamNotified DEF Finalize, workVars
<1>4. ASSUME NEW t \in Tasks, RunNotification(t) PROVE StreamInv'
  BY <1>4, StreamRuns
<1>5. ASSUME NEW t \in Tasks,
             \/ Submit(t) \/ Suspend(t) \/ Return(t) \/ Raise(t) \/ Start(t) \/ StartCancelled(t)
             \/ AwaitAnswered(t) \/ AwaitPending(t) \/ ResumeFromQuestion(t) \/ Cancelled(t)
             \/ ResumeBody(t) \/ TimerDue(t) \/ TimerFires(t) \/ CancelTask(t)
      PROVE  StreamInv'
  <2>1. UNCHANGED <<subscribers, ws, queue, seen, lost, lines, scheduled>>
    BY <1>5 DEF Submit, Suspend, Return, Raise, Start, StartCancelled, AwaitAnswered, AwaitPending,
       ResumeFromQuestion, Cancelled, ResumeBody, TimerDue, TimerFires, CancelTask, Outcome,
       LeaveQuestion, subVars, workVars
  <2> QED BY <2>1, StreamFrame
<1>6. ASSUME NEW r \in Responders, RespondSet(r) \/ \E t \in Tasks : RespondCheck(r, t)
      PROVE  StreamInv'
  BY <1>6, StreamFrame DEF RespondSet, RespondCheck, subVars, workVars
<1>7. ASSUME NEW c \in Clearers, ClearScan(c) PROVE StreamInv'
  BY <1>7, StreamFrame DEF ClearScan, subVars, workVars
<1>8. ASSUME NEW c \in Clearers, NEW t \in Tasks, ClearPop(c, t) PROVE StreamInv'
  BY <1>8, StreamCut DEF ClearPop, TypeOK, workVars
<1>9. ASSUME CleanupOld PROVE StreamInv'
  BY <1>9, StreamCut DEF CleanupOld, workVars
<1>10. ASSUME NEW s \in Subs, Stream(s) PROVE StreamInv'
  BY <1>10, StreamFollows, StreamDelivers DEF Stream
<1>11. ASSUME NEW s \in Subs, Disconnect(s) \/ \E t \in Tasks : Connect(s, t) PROVE StreamInv'
  BY <1>11, StreamMoves
<1>12. ASSUME UNCHANGED vars PROVE StreamInv'
  BY <1>12, StreamFrame DEF vars, subVars, workVars
<1> QED BY <1>1, <1>2, <1>3, <1>4, <1>5, <1>6, <1>7, <1>8, <1>9, <1>10, <1>11, <1>12
        DEF Next, BodyYields, LoopStep, Request

(* emit_output, _notify and task_stream: however the notifications, the    *)
(* questions and the deliveries interleave, a client whose queue did not   *)
(* overflow gets the lines in order and without a gap.                     *)
THEOREM StreamsStayContiguous == Spec => []StreamContiguous
<1>1. TypeOK /\ StreamInv /\ [Next]_vars => StreamInv'
  BY StreamNext
<1>2. StreamInv => StreamContiguous
  BY DEF StreamInv, Flows, Run, StreamContiguous
<1> QED BY <1>1, <1>2, StreamInit, TypeCorrect, PTL DEF Spec
=============================================================================
