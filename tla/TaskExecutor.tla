---------------------------- MODULE TaskExecutor ----------------------------
(***************************************************************************)
(* The pooled task executor of the LSAPI (lsapi/TaskExecutor.cpp) and the  *)
(* threads that meet in it: the pool's workers, module threads that        *)
(* submit, cancel and wait, and the UI thread, which delivers the          *)
(* completions posted to the LiteStep window and shuts the executor down   *)
(* after that window is gone.                                              *)
(*                                                                         *)
(* A critical section of m_mutex is one step, except where the atomic flag *)
(* m_stopping, set without the mutex, can change inside it: there it is    *)
(* two steps with `mutex' held between them.                               *)
(***************************************************************************)
EXTENDS Naturals, Sequences, FiniteSets

CONSTANTS
  Workers,         \* the pool's threads
  Callers,         \* module threads using LSPostTask, LSCancelTask, LSWaitTask
  UI,              \* the main thread
  Tasks,           \* task handles, each submitted at most once
  WithCompletion,  \* the tasks submitted with a completionProc
  UiWaits,         \* the tasks the UI thread waits for with INFINITE
  NoOne,           \* no thread, no task
  KillsThreads     \* may the process end its other threads before Shutdown?

ASSUME ExecutorAssumption ==
  /\ Workers # {}
  /\ Workers \cap Callers = {}
  /\ UI \notin Workers \cup Callers
  /\ NoOne \notin Workers \cup Callers \cup Tasks \cup {UI}
  /\ WithCompletion \subseteq Tasks
  /\ UiWaits \subseteq Tasks
  /\ KillsThreads \in BOOLEAN

Threads == Workers \cup Callers \cup {UI}
Payload == [task : Tasks, cancelled : BOOLEAN]

VARIABLES
  stopping,   \* m_stopping
  mutex,      \* the thread inside m_mutex across a step, or NoOne
  queue,      \* m_queue
  tasks,      \* the keys of m_tasks
  cancelled,  \* TaskRecord::cancelled
  finished,   \* TaskRecord::finished
  result,     \* what Submit returned: "none", "handle" or "refused"
  run,        \* executeProc of the task: "no", "running" or "ended"
  answers,    \* the flags its completionProc has been called with
  pc,         \* where each thread is
  job,        \* the task it is busy with, or NoOne
  flag,       \* the cancelled flag it will pass on
  msgs,       \* LM_ASYNCTASKCOMPLETE payloads queued for the window
  window,     \* does GetLitestepWnd return a window?
  remaining,  \* Shutdown's local list
  killed      \* has the end of the process ended the other threads?

executorVars == <<stopping, mutex, queue, tasks>>
recordVars   == <<cancelled, finished>>
historyVars  == <<result, run, answers>>
threadVars   == <<pc, job, flag>>
uiVars       == <<msgs, window, remaining, killed>>
vars == <<executorVars, recordVars, historyVars, threadVars, uiVars>>

States == {"check", "blocking", "sleeping", "popped", "executing", "executed", "exited",
           "completing", "erasing", "finishing",
           "idle", "pushing", "cancelling", "waiting",
           "pump", "exit", "notify", "join", "swapped", "aborted"}

TypeOK ==
  /\ stopping \in BOOLEAN
  /\ mutex \in Workers \cup Callers \cup {NoOne}
  /\ queue \in Seq(Tasks)
  /\ tasks \subseteq Tasks
  /\ cancelled \in [Tasks -> BOOLEAN]
  /\ finished \in [Tasks -> BOOLEAN]
  /\ result \in [Tasks -> {"none", "handle", "refused"}]
  /\ run \in [Tasks -> {"no", "running", "ended"}]
  /\ answers \in [Tasks -> Seq(BOOLEAN)]
  /\ pc \in [Threads -> States]
  /\ job \in [Threads -> Tasks \cup {NoOne}]
  /\ flag \in [Threads -> BOOLEAN]
  /\ msgs \subseteq Payload
  /\ window \in BOOLEAN
  /\ remaining \subseteq Tasks
  /\ killed \in BOOLEAN

\* Where a thread is between two pieces of work.
Home(p) == IF p \in Workers THEN "check" ELSE IF p = UI THEN "pump" ELSE "idle"

Init ==
  /\ stopping = FALSE /\ mutex = NoOne /\ queue = <<>> /\ tasks = {}
  /\ cancelled = [t \in Tasks |-> FALSE] /\ finished = [t \in Tasks |-> FALSE]
  /\ result = [t \in Tasks |-> "none"] /\ run = [t \in Tasks |-> "no"]
  /\ answers = [t \in Tasks |-> <<>>]
  /\ pc = [p \in Threads |-> Home(p)] /\ job = [p \in Threads |-> NoOne]
  /\ flag = [p \in Threads |-> FALSE]
  /\ msgs = {} /\ window = TRUE /\ remaining = {} /\ killed = FALSE

Goto(p, place) == pc' = [pc EXCEPT ![p] = place]
Take(p, t)     == job' = [job EXCEPT ![p] = t]

\* completionProc(completionContext, cancelled)
CallCompletion(t, c) == answers' = [answers EXCEPT ![t] = Append(@, c)]

\* m_nextId has not handed the handle out yet.
Unused(t) == result[t] = "none" /\ \A c \in Callers : pc[c] = "pushing" => job[c] # t

-----------------------------------------------------------------------------
(* Slips in the steps below, each of which breaks a property at the end.   *)

\* Submit without the second look at m_stopping.
SubmitLockUnchecked(c, t) ==
  /\ pc[c] = "idle" /\ Unused(t) /\ mutex = NoOne
  /\ mutex' = c /\ Goto(c, "pushing") /\ Take(c, t)
  /\ UNCHANGED <<stopping, queue, tasks, recordVars, historyVars, flag, uiVars>>

\* The notification is forgotten.
NotifyNobody(c) == Goto(c, "idle")

\* The predicate of m_cv.wait without m_stopping.
WorkerBlockUnaware(w) ==
  /\ pc[w] = "check" /\ mutex = NoOne /\ queue = <<>>
  /\ mutex' = w /\ Goto(w, "blocking")
  /\ UNCHANGED <<stopping, queue, tasks, recordVars, historyVars, job, flag, uiVars>>

\* front() without pop().
WorkerPopCopy(w) ==
  /\ pc[w] = "check" /\ mutex = NoOne /\ queue # <<>>
  /\ Take(w, Head(queue)) /\ Goto(w, "popped")
  /\ UNCHANGED <<executorVars, recordVars, historyVars, flag, uiVars>>

PostAs(w, m, left) ==
  /\ pc[w] = "executed" /\ job[w] \in WithCompletion /\ window
  /\ msgs' = msgs \cup {m} /\ tasks' = left
  /\ Goto(w, "check") /\ Take(w, NoOne)
  /\ UNCHANGED <<stopping, mutex, queue, recordVars, historyVars, flag, window, remaining, killed>>

\* The record was moved from before the payload was filled; the flag is the one
\* the record began with; the task is finalized when it is posted.
WorkerPostMoved(w)  == PostAs(w, [task |-> NoOne, cancelled |-> FALSE], tasks)
WorkerPostUnread(w) == PostAs(w, [task |-> job[w], cancelled |-> FALSE], tasks)
WorkerPostErases(w) ==
  PostAs(w, [task |-> job[w], cancelled |-> cancelled[job[w]]], tasks \ {job[w]})

\* FinalizeTask erases the record and forgets the waiters.
EraseOnly(p) ==
  /\ pc[p] = "erasing" \/ (pc[p] = "executed" /\ job[p] \notin WithCompletion)
  /\ mutex = NoOne
  /\ tasks' = tasks \ {job[p]} /\ Goto(p, Home(p)) /\ Take(p, NoOne)
  /\ UNCHANGED <<stopping, mutex, queue, recordVars, historyVars, flag, uiVars>>

SwapWhen(ready, left) ==
  /\ pc[UI] = "join" /\ ready /\ mutex = NoOne /\ Goto(UI, "swapped")
  /\ remaining' = left /\ tasks' = {} /\ queue' = <<>>
  /\ UNCHANGED <<stopping, mutex, recordVars, historyVars, job, flag, msgs, window, killed>>

\* Shutdown does not join; Shutdown answers only what is still queued.
ShutdownSwapEarly  == SwapWhen(TRUE, tasks)
ShutdownSwapQueued ==
  SwapWhen(killed \/ \A w \in Workers : pc[w] = "exited", {queue[i] : i \in DOMAIN queue})

-----------------------------------------------------------------------------
(* Submit, Cancel and Wait.                                                *)

\* Submit tests m_stopping, and again once it holds m_mutex.
SubmitRefused(c, t) ==
  /\ pc[c] = "idle" /\ Unused(t)
  /\ stopping
  /\ result' = [result EXCEPT ![t] = "refused"]
  /\ UNCHANGED <<executorVars, recordVars, run, answers, threadVars, uiVars>>

SubmitLock(c, t) ==
  /\ pc[c] = "idle" /\ Unused(t)
  /\ ~stopping /\ mutex = NoOne
  /\ mutex' = c /\ Goto(c, "pushing") /\ Take(c, t)
  /\ UNCHANGED <<stopping, queue, tasks, recordVars, historyVars, flag, uiVars>>

\* m_cv.notify_one wakes one sleeping worker, if there is one; c is done.
NotifyOne(c) ==
  LET sleepers == {w \in Workers : pc[w] = "sleeping"}
  IN  \/ sleepers = {} /\ Goto(c, "idle")
      \/ \E w \in sleepers : pc' = [pc EXCEPT ![c] = "idle", ![w] = "check"]

\* Submit queues the task, releases m_mutex, wakes one sleeper and returns.
SubmitPush(c) ==
  /\ pc[c] = "pushing"
  /\ queue' = Append(queue, job[c])
  /\ tasks' = tasks \cup {job[c]}
  /\ mutex' = NoOne
  /\ result' = [result EXCEPT ![job[c]] = "handle"]
  /\ NotifyOne(c) /\ Take(c, NoOne)
  /\ UNCHANGED <<stopping, recordVars, run, answers, flag, uiVars>>

\* Cancel and Wait look the handle up under m_mutex.  A task that is gone makes
\* Cancel return false and Wait return true, which changes nothing.
Lookup(p, t, place) ==
  /\ pc[p] = Home(p) /\ p \notin Workers
  /\ result[t] = "handle" /\ t \in tasks
  /\ mutex = NoOne
  /\ Goto(p, place) /\ Take(p, t)
  /\ UNCHANGED <<executorVars, recordVars, historyVars, flag, uiVars>>

\* Cancel sets the flag after m_mutex has been released.
CancelStore(p) ==
  /\ pc[p] = "cancelling"
  /\ cancelled' = [cancelled EXCEPT ![job[p]] = TRUE]
  /\ Goto(p, Home(p)) /\ Take(p, NoOne)
  /\ UNCHANGED <<executorVars, finished, historyVars, flag, uiVars>>

\* Wait returns when the task is finished, or (module threads, and the UI
\* thread where it does not wait with INFINITE) when its time is over.
WaitReturn(p) ==
  /\ pc[p] = "waiting"
  /\ finished[job[p]] \/ p # UI \/ job[p] \notin UiWaits
  /\ Goto(p, Home(p)) /\ Take(p, NoOne)
  /\ UNCHANGED <<executorVars, recordVars, historyVars, flag, uiVars>>

-----------------------------------------------------------------------------
(* WorkerLoop and EnqueueCompletion.                                       *)

\* The predicate of m_cv.wait is false: the worker is about to sleep and still
\* holds m_mutex.  A flag set now, without m_mutex, is not looked at any more.
WorkerBlock(w) ==
  /\ pc[w] = "check" /\ mutex = NoOne
  /\ ~stopping /\ queue = <<>>
  /\ mutex' = w /\ Goto(w, "blocking")
  /\ UNCHANGED <<stopping, queue, tasks, recordVars, historyVars, job, flag, uiVars>>

\* m_cv.wait releases m_mutex and sleeps in one step.
WorkerSleep(w) ==
  /\ pc[w] = "blocking"
  /\ mutex' = NoOne /\ Goto(w, "sleeping")
  /\ UNCHANGED <<stopping, queue, tasks, recordVars, historyVars, job, flag, uiVars>>

\* A condition variable may wake without a notification.
WorkerSpurious(w) ==
  /\ pc[w] = "sleeping" /\ Goto(w, "check")
  /\ UNCHANGED <<executorVars, recordVars, historyVars, job, flag, uiVars>>

WorkerExit(w) ==
  /\ pc[w] = "check" /\ mutex = NoOne
  /\ stopping /\ queue = <<>>
  /\ Goto(w, "exited")
  /\ UNCHANGED <<executorVars, recordVars, historyVars, job, flag, uiVars>>

WorkerPop(w) ==
  /\ pc[w] = "check" /\ mutex = NoOne
  /\ queue # <<>>
  /\ Take(w, Head(queue)) /\ queue' = Tail(queue)
  /\ Goto(w, "popped")
  /\ UNCHANGED <<stopping, mutex, tasks, recordVars, historyVars, flag, uiVars>>

\* Call executeProc unless the task has been cancelled by now.
WorkerStart(w) ==
  /\ pc[w] = "popped"
  /\ \/ cancelled[job[w]] /\ Goto(w, "executed") /\ UNCHANGED run
     \/ /\ ~cancelled[job[w]]
        /\ Goto(w, "executing")
        /\ run' = [run EXCEPT ![job[w]] = "running"]
  /\ UNCHANGED <<executorVars, recordVars, result, answers, job, flag, uiVars>>

WorkerExecute(w) ==
  /\ pc[w] = "executing" /\ Goto(w, "executed")
  /\ run' = [run EXCEPT ![job[w]] = "ended"]
  /\ UNCHANGED <<executorVars, recordVars, result, answers, job, flag, uiVars>>

\* EnqueueCompletion posts the cancelled flag, read again, to the window.
WorkerPost(w) ==
  /\ pc[w] = "executed" /\ job[w] \in WithCompletion
  /\ window
  /\ msgs' = msgs \cup {[task |-> job[w], cancelled |-> cancelled[job[w]]]}
  /\ Goto(w, "check") /\ Take(w, NoOne)
  /\ UNCHANGED <<executorVars, recordVars, historyVars, flag, window, remaining, killed>>

\* No memory for the payload, no window, or PostMessage fails (its queue is
\* full): the worker delivers the completion itself.
WorkerInline(w) ==
  /\ pc[w] = "executed" /\ job[w] \in WithCompletion
  /\ Goto(w, "completing")
  /\ flag' = [flag EXCEPT ![w] = cancelled[job[w]]]
  /\ UNCHANGED <<executorVars, recordVars, historyVars, job, uiVars>>

-----------------------------------------------------------------------------
(* ProcessCompletionPayload and FinalizeTask, on a worker or the UI thread. *)

\* The LiteStep window receives LM_ASYNCTASKCOMPLETE.
UiDispatch(m) ==
  /\ pc[UI] = "pump"
  /\ msgs' = msgs \ {m}
  /\ Goto(UI, "completing") /\ Take(UI, m.task)
  /\ flag' = [flag EXCEPT ![UI] = m.cancelled]
  /\ UNCHANGED <<executorVars, recordVars, historyVars, window, remaining, killed>>

Complete(p) ==
  /\ pc[p] = "completing" /\ Goto(p, "erasing")
  /\ CallCompletion(job[p], flag[p])
  /\ UNCHANGED <<executorVars, recordVars, result, run, job, flag, uiVars>>

\* FinalizeTask, first section; the worker calls it itself for a task that has
\* no completionProc.
Erase(p) ==
  /\ \/ pc[p] = "erasing"
     \/ pc[p] = "executed" /\ job[p] \notin WithCompletion
  /\ mutex = NoOne
  /\ tasks' = tasks \ {job[p]} /\ Goto(p, "finishing")
  /\ UNCHANGED <<stopping, mutex, queue, recordVars, historyVars, job, flag, uiVars>>

\* FinalizeTask, second section: the waiters are released.
Finish(p) ==
  /\ pc[p] = "finishing" /\ Goto(p, Home(p)) /\ Take(p, NoOne)
  /\ finished' = [finished EXCEPT ![job[p]] = TRUE]
  /\ UNCHANGED <<executorVars, cancelled, historyVars, flag, uiVars>>

-----------------------------------------------------------------------------
(* The end of the process.                                                 *)

\* CLiteStep::Stop destroys the window; what is queued for it is dropped.
DestroyMainWindow ==
  /\ pc[UI] = "pump" /\ Goto(UI, "exit")
  /\ window' = FALSE /\ msgs' = {}
  /\ UNCHANGED <<executorVars, recordVars, historyVars, job, flag, remaining, killed>>

\* The destructor of g_LSAPIManager calls Shutdown, which sets m_stopping
\* without m_mutex.  It runs while the exiting process detaches from the DLL:
\* with KillsThreads the system may have ended the other threads by then (external).
ShutdownStop ==
  /\ pc[UI] = "exit" /\ Goto(UI, "notify")
  /\ stopping' = TRUE /\ killed' \in {FALSE, KillsThreads}
  /\ UNCHANGED <<mutex, queue, tasks, recordVars, historyVars, job, flag, msgs, window,
                 remaining>>

ShutdownNotify ==
  /\ pc[UI] = "notify"
  /\ pc' = [p \in Threads |->
              IF p = UI THEN "join"
              ELSE IF pc[p] = "sleeping" /\ ~killed THEN "check" ELSE pc[p]]
  /\ UNCHANGED <<executorVars, recordVars, historyVars, job, flag, uiVars>>

\* All workers are joined (or dead) and m_tasks is moved out under m_mutex.  If
\* a thread was ended inside m_mutex, the system ends the process here instead
\* of letting the lock be waited for (external).
ShutdownSwap ==
  /\ pc[UI] = "join"
  /\ killed \/ \A w \in Workers : pc[w] = "exited"
  /\ \/ /\ mutex = NoOne /\ Goto(UI, "swapped")
        /\ remaining' = tasks /\ tasks' = {} /\ queue' = <<>>
     \/ /\ mutex # NoOne /\ killed /\ Goto(UI, "aborted")
        /\ UNCHANGED <<queue, tasks, remaining>>
  /\ UNCHANGED <<stopping, mutex, recordVars, historyVars, job, flag, msgs, window, killed>>

\* One of the tasks left is reported as cancelled and its waiters released.
ShutdownReport(t) ==
  /\ pc[UI] = "swapped"
  /\ remaining' = remaining \ {t}
  /\ IF t \in WithCompletion THEN CallCompletion(t, TRUE) ELSE UNCHANGED answers
  /\ finished' = [finished EXCEPT ![t] = TRUE]
  /\ UNCHANGED <<executorVars, cancelled, result, run, threadVars, msgs, window, killed>>

-----------------------------------------------------------------------------
WorkerStep(w) ==
  \/ WorkerBlock(w) \/ WorkerSleep(w) \/ WorkerExit(w) \/ WorkerPop(w)
  \/ WorkerStart(w) \/ WorkerExecute(w) \/ WorkerPost(w) \/ WorkerInline(w)
  \/ Complete(w) \/ Erase(w) \/ Finish(w)

Submit(c) == SubmitPush(c) \/ \E t \in Tasks : SubmitRefused(c, t) \/ SubmitLock(c, t)

Ask(p) == \E t \in Tasks : Lookup(p, t, "cancelling") \/ Lookup(p, t, "waiting")

\* What a thread has begun, it goes on with.
Proceed(p) == CancelStore(p) \/ WaitReturn(p)

UiDeliver == Complete(UI) \/ Erase(UI) \/ Finish(UI) \/ Proceed(UI)
UiPump    == \E m \in msgs : UiDispatch(m)

Shutdown ==
  \/ ShutdownStop \/ ShutdownNotify \/ ShutdownSwap
  \/ \E t \in remaining : ShutdownReport(t)

Next ==
  \/ /\ ~killed
     /\ \/ \E w \in Workers : WorkerStep(w) \/ WorkerSpurious(w)
        \/ \E c \in Callers : Submit(c) \/ Ask(c) \/ Proceed(c)
  \/ Ask(UI) \/ UiDeliver \/ UiPump \/ DestroyMainWindow \/ Shutdown

Spec == Init /\ [][Next]_vars

\* Threads run, executeProc and completionProc return, and a thread that keeps
\* asking for m_mutex gets it (hence strong fairness).  Nothing obliges a module
\* to submit, cancel or wait, nor the shell to end.
FairSpec ==
  /\ Spec
  /\ \A w \in Workers : SF_vars(~killed /\ WorkerStep(w))
  /\ \A c \in Callers : SF_vars(~killed /\ (SubmitPush(c) \/ Proceed(c)))
  /\ SF_vars(UiDeliver) /\ SF_vars(UiPump) /\ WF_vars(Shutdown)

-----------------------------------------------------------------------------
(* Properties.                                                             *)

Answered(t) == answers[t] # <<>>
Accepted(t) == result[t] = "handle"

\* A completionProc is never called a second time, whichever of a worker, the
\* UI thread and Shutdown delivers it: the first call deletes the thunk of
\* ModuleKit's PostTask (TaskExecutor.cpp:128-177, ModuleKit/LiteStep.h:61-66).
\* One case is left: the exiting process has ended the threads, one of them
\* between that call and FinalizeTask, and Shutdown calls it again.
CompletionAtMostOnce ==
  \A t \in Tasks :
    \/ Len(answers[t]) <= 1
    \/ Len(answers[t]) = 2 /\ killed /\ \E w \in Workers : pc[w] = "erasing" /\ job[w] = t

\* Once a worker has left WorkerLoop, no task is queued and none will be that
\* nobody would run: Shutdown clears m_queue, and every task in it was accepted
\* (TaskExecutor.cpp:77-84, 143-165, 186-188).
ShutdownDrainsQueue ==
  (\E w \in Workers : pc[w] = "exited")
    => queue = <<>> /\ \A c \in Callers : pc[c] # "pushing"

\* When Shutdown returns, the completionProc of every accepted task was called,
\* also if its payload was dropped with the window, and every waiter that is
\* still there is released (TaskExecutor.cpp:157-176, litestep.cpp:890-902).
ShutdownAnswersAll ==
  (pc[UI] = "swapped" /\ remaining = {}) =>
    \A t \in Tasks :
      Accepted(t) => /\ finished[t] \/ killed
                     /\ t \in WithCompletion => Answered(t)

\* LSWaitTask returning TRUE means that the completionProc has been called: a
\* released task has been answered, and so has one that is no longer found,
\* unless Shutdown has moved m_tasks away (TaskExecutor.cpp:105-126).
WaitMeansAnswered ==
  \A t \in WithCompletion :
    (finished[t] \/ (Accepted(t) /\ t \notin tasks /\ pc[UI] # "swapped"))
      => Answered(t)

\* A completionProc told "not cancelled" follows a complete execution, and one
\* told "cancelled" a call of Cancel or the shutdown, however Cancel races the
\* worker (TaskExecutor.cpp:101, 200-205).
HonestAnswer ==
  \A t \in Tasks : \A i \in DOMAIN answers[t] :
    IF answers[t][i] THEN cancelled[t] \/ stopping ELSE run[t] = "ended"

\* While the shell runs, every accepted task is run or skipped, answered and
\* released, so that whoever waits for it goes on (TaskExecutor.cpp:179-242).
EveryTaskFinishes == \A t \in Tasks : Accepted(t) ~> (finished[t] \/ ~window)

\* The UI thread's waits end, also those with INFINITE, which are for tasks
\* without completionProc: those need no message from the pump that the wait
\* stops (TaskExecutor.cpp:117-120, 204-208).
UiWaitReturns == (pc[UI] = "waiting") ~> (pc[UI] = "pump")

\* Shutdown returns unless a worker has found nothing to do and is on its way
\* into its sleep when the flag is set: then notify_all comes too early and join
\* waits for good (TaskExecutor.cpp:145-154, 184).
SleeplessShutdownReturns ==
  (pc[UI] = "join" /\ \A w \in Workers : pc[w] \notin {"blocking", "sleeping"})
    ~> ((pc[UI] = "swapped" /\ remaining = {}) \/ pc[UI] = "aborted")

\* The executor is the service of TaskService: a task without completionProc is
\* answered when its waiters are released.
Done(t) == IF t \in WithCompletion THEN Answered(t) ELSE finished[t]
SaysCompleted(t) == IF t \in WithCompletion THEN ~answers[t][1] ELSE run[t] = "ended"
status ==
  [t \in Tasks |->
     IF result[t] = "none" THEN "new"
     ELSE IF result[t] = "refused" THEN "refused"
     ELSE IF ~Done(t) THEN "pending"
     ELSE IF SaysCompleted(t) THEN "completed" ELSE "cancelled"]

Service == INSTANCE TaskService
             WITH Tasks <- Tasks, status <- status, run <- run, over <- killed
ImplementsService == Service!Spec
=============================================================================
