--------------------------- MODULE TaskLifecycle ---------------------------
(***************************************************************************)
(* What the task engine promises about the status of a background task, as *)
(* a reader of the REST API sees it: a task is announced pending, runs,    *)
(* may alternate between running and waiting for an answer, and ends in    *)
(* exactly one terminal status, which it keeps.  A task is forgotten only  *)
(* after it has ended.  TaskEngine implements this specification.          *)
(***************************************************************************)
CONSTANTS Tasks        \* identities a task can be given

VARIABLES status,      \* Task.status, "absent" before submit()
          registered   \* ids the engine can be asked about: keys of _tasks

TerminalStatus == {"completed", "failed", "cancelled"}
ActiveStatus   == {"pending", "running", "waiting"}
Status         == TerminalStatus \cup ActiveStatus

LInit == /\ status = [t \in Tasks |-> "absent"]
         /\ registered = {}

Announce(t) == /\ status[t] = "absent"
               /\ status' = [status EXCEPT ![t] = "pending"]
               /\ registered' = registered \cup {t}

Move(t, from, to) == /\ status[t] \in from
                     /\ status' = [status EXCEPT ![t] = to]
                     /\ UNCHANGED registered

Begin(t)  == Move(t, {"pending"}, "running")
Wait(t)   == Move(t, {"running"}, "waiting")
Resume(t) == Move(t, {"waiting"}, "running")
End(t)    == \E s \in TerminalStatus : Move(t, {"running"}, s)

Forget == \E S \in SUBSET registered :
              /\ \A t \in S : status[t] \in TerminalStatus
              /\ registered' = registered \ S
              /\ UNCHANGED status

LNext == \/ \E t \in Tasks : Announce(t) \/ Begin(t) \/ Wait(t) \/ Resume(t) \/ End(t)
         \/ Forget

LSpec == LInit /\ [][LNext]_<<status, registered>>
=============================================================================
