---------------------------- MODULE TaskService -----------------------------
(***************************************************************************)
(* What a module may rely on when it hands a task to LSPostTask: a refused *)
(* task is never touched, an accepted one runs at most once and is         *)
(* answered exactly once, never while it is running, and the answer        *)
(* "completed" is only given to a task that has run to its end.            *)
(* (lsapi/lsapi.cpp: LSPostTask, LSCancelTask; the contract the thunks of  *)
(* modules/ModuleKit/LiteStep.h are written against.)                      *)
(***************************************************************************)
CONSTANT Tasks

VARIABLES
  status,   \* "new", "refused", "pending", "completed" or "cancelled"
  run,      \* "no", "running" or "ended": the execution of the task
  over      \* has the end of the process ended the threads that run tasks?

vars == <<status, run, over>>

Init ==
  /\ status = [t \in Tasks |-> "new"]
  /\ run = [t \in Tasks |-> "no"] /\ over = FALSE

\* LSPostTask returns 0.
Refuse(t) ==
  /\ status[t] = "new"
  /\ status' = [status EXCEPT ![t] = "refused"]
  /\ UNCHANGED <<run, over>>

\* LSPostTask takes the task.
Accept(t) ==
  /\ status[t] = "new"
  /\ status' = [status EXCEPT ![t] = "pending"]
  /\ UNCHANGED <<run, over>>

Begin(t) ==
  /\ status[t] = "pending" /\ ~over
  /\ run[t] = "no"
  /\ run' = [run EXCEPT ![t] = "running"]
  /\ UNCHANGED <<status, over>>

End(t) ==
  /\ status[t] = "pending" /\ ~over
  /\ run[t] = "running"
  /\ run' = [run EXCEPT ![t] = "ended"]
  /\ UNCHANGED <<status, over>>

\* The task is answered: completionProc is called with cancelled = FALSE or
\* TRUE (a task without one is released).  A task whose thread was ended under it
\* is answered too.
Answer(t) ==
  /\ status[t] = "pending"
  /\ run[t] # "running" \/ over
  /\ \/ /\ run[t] = "ended"
        /\ status' = [status EXCEPT ![t] = "completed"]
     \/ status' = [status EXCEPT ![t] = "cancelled"]
  /\ UNCHANGED <<run, over>>

ProcessEnds == ~over /\ over' = TRUE /\ UNCHANGED <<status, run>>

Next == ProcessEnds \/ \E t \in Tasks : Refuse(t) \/ Accept(t) \/ Begin(t) \/ End(t) \/ Answer(t)

Spec == Init /\ [][Next]_vars
=============================================================================
