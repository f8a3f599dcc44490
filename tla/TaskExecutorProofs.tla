------------------------- MODULE TaskExecutorProofs -------------------------
(***************************************************************************)
(* Proofs about TaskExecutor, for every pool, every set of callers and     *)
(* every set of tasks: its safety, the truth of the answers, and that it   *)
(* implements TaskService.                                                 *)
(***************************************************************************)
EXTENDS TaskExecutor, TLAPS

WorkerStates == {"check", "blocking", "sleeping", "popped", "executing", "executed", "exited",
                 "completing", "erasing", "finishing"}
CallerStates == {"idle", "pushing", "cancelling", "waiting"}
UiStates == {"pump", "completing", "erasing", "finishing", "cancelling", "waiting",
             "exit", "notify", "join", "swapped", "aborted"}

\* The places at which a thread owns the task it is busy with.
Owns(p) == pc[p] \in {"pushing", "popped", "executing", "executed",
                      "completing", "erasing", "finishing"}
Busy(p) == Owns(p) \/ pc[p] \in {"cancelling", "waiting"}

InQueue(t) == \E i \in 1..Len(queue) : queue[i] = t

\* Each thread is at a place of its own code, busy with a task where it should.
PlaceInv ==
  /\ \A w \in Workers : pc[w] \in WorkerStates
  /\ \A c \in Callers : pc[c] \in CallerStates
  /\ pc[UI] \in UiStates
  /\ \A p \in Threads : Busy(p) => job[p] \in Tasks

\* The two places inside m_mutex.
MutexInv == \A p \in Threads : pc[p] \in {"pushing", "blocking"} => mutex = p

DrainInv == (\E w \in Workers : pc[w] = "exited") => stopping /\ ShutdownDrainsQueue

\* A task has one owner at most: the queue, a thread, or a posted payload.
QueueOnce  == \A i, j \in 1..Len(queue) : queue[i] = queue[j] => i = j
ThreadOnce == \A p, q \in Threads : Owns(p) /\ Owns(q) /\ job[p] = job[q] => p = q
MsgOnce    == \A m, n \in msgs : m.task = n.task => m = n
Apart ==
  /\ \A p \in Threads : Owns(p) => ~InQueue(job[p])
  /\ \A m \in msgs : ~InQueue(m.task)
  /\ \A m \in msgs, p \in Threads : Owns(p) => job[p] # m.task
OwnerInv == QueueOnce /\ ThreadOnce /\ MsgOnce /\ Apart

\* What Submit has not queued yet is nowhere, and not answered.
ResultInv ==
  /\ \A t \in Tasks : InQueue(t) \/ t \in tasks \/ answers[t] # <<>> => result[t] = "handle"
  /\ \A m \in msgs : result[m.task] = "handle"
  /\ \A p \in Threads : Owns(p) =>
       result[job[p]] = IF pc[p] = "pushing" THEN "none" ELSE "handle"

\* A task is answered once, by its last owner, and then leaves m_tasks.
AnswerInv ==
  /\ \A t \in Tasks : Len(answers[t]) <= 1
  /\ \A t \in Tasks : InQueue(t) => answers[t] = <<>>
  /\ \A m \in msgs : answers[m.task] = <<>>
  /\ \A p \in Threads :
       pc[p] \in {"pushing", "popped", "executing", "executed", "completing"}
         => answers[job[p]] = <<>>
  /\ \A t \in tasks : answers[t] # <<>> => \E p \in Threads : pc[p] = "erasing" /\ job[p] = t

\* What holds while the UI thread takes the process down with its other threads alive.
ExitInv ==
  /\ pc[UI] \in {"exit", "notify", "join", "swapped", "aborted"} => ~window
  /\ ~window => msgs = {}
  /\ pc[UI] \in {"notify", "join", "swapped", "aborted"} => stopping
  /\ pc[UI] = "swapped" => tasks = {}
  /\ pc[UI] = "swapped" => \A w \in Workers : pc[w] = "exited"
  /\ pc[UI] # "swapped" => remaining = {}
  /\ \A t \in remaining : answers[t] = <<>> /\ result[t] = "handle"
  /\ ~killed

BaseInv == TypeOK /\ PlaceInv /\ MutexInv /\ DrainInv
OnceInv == OwnerInv /\ ResultInv /\ AnswerInv /\ ExitInv

-----------------------------------------------------------------------------
(* What the less obvious steps do to the places of the threads and to the      *)
(* answers, in a form the later proofs can use.                                *)

LEMMA PushMoves ==
  ASSUME TypeOK, NEW c \in Callers, SubmitPush(c)
  PROVE  /\ pc' \in [Threads -> States] /\ pc'[c] = "idle"
         /\ job' \in [Threads -> Tasks \cup {NoOne}]
         /\ \A p \in Threads \ {c} :
              /\ job'[p] = job[p]
              /\ pc'[p] = pc[p] \/ (p \in Workers /\ pc[p] = "sleeping" /\ pc'[p] = "check")
<1> USE ExecutorAssumption DEF TypeOK, Threads
<1>1. job' = [job EXCEPT ![c] = NoOne]
  BY DEF SubmitPush, Take
<1>2. CASE pc' = [pc EXCEPT ![c] = "idle"]
  BY <1>1, <1>2 DEF States
<1>3. ASSUME NEW w \in Workers, pc[w] = "sleeping", pc' = [pc EXCEPT ![c] = "idle", ![w] = "check"]
      PROVE  /\ pc' \in [Threads -> States] /\ pc'[c] = "idle"
             /\ \A p \in Threads \ {c} :
                  pc'[p] = pc[p] \/ (p \in Workers /\ pc[p] = "sleeping" /\ pc'[p] = "check")
  BY <1>3 DEF States
<1>4. \/ pc' = [pc EXCEPT ![c] = "idle"]
      \/ \E w \in Workers : pc[w] = "sleeping" /\ pc' = [pc EXCEPT ![c] = "idle", ![w] = "check"]
  BY DEF SubmitPush, NotifyOne, Goto
<1> QED
  BY <1>1, <1>2, <1>3, <1>4

LEMMA StartMoves ==
  ASSUME TypeOK, NEW w \in Workers, WorkerStart(w)
  PROVE  /\ pc' \in [Threads -> States] /\ run' \in [Tasks -> {"no", "running", "ended"}]
         /\ pc[w] = "popped" /\ pc'[w] \in {"executed", "executing"}
         /\ \A p \in Threads : p # w => pc'[p] = pc[p]
<1> USE DEF TypeOK, Threads
<1>1. pc' = [pc EXCEPT ![w] = "executed"] \/ pc' = [pc EXCEPT ![w] = "executing"]
  BY DEF WorkerStart, Goto
<1>2. run' \in [Tasks -> {"no", "running", "ended"}]
  BY DEF WorkerStart
<1> QED
  BY <1>1, <1>2 DEF WorkerStart, States

LEMMA SwapMoves ==
  ASSUME TypeOK, ShutdownSwap
  PROVE  /\ pc' \in [Threads -> States] /\ pc'[UI] \in {"swapped", "aborted"}
         /\ \A p \in Threads : p # UI => pc'[p] = pc[p]
         /\ tasks' \subseteq tasks /\ remaining' \subseteq Tasks /\ queue' \in Seq(Tasks)
         /\ pc'[UI] = "swapped" => mutex = NoOne /\ remaining' = tasks /\ tasks' = {} /\ queue' = <<>>
         /\ pc'[UI] = "aborted" => killed /\ tasks' = tasks /\ remaining' = remaining /\ queue' = queue
<1> USE DEF TypeOK, Threads, States
<1>1. CASE mutex = NoOne
  <2>1. pc' = [pc EXCEPT ![UI] = "swapped"]
    BY <1>1 DEF ShutdownSwap, Goto
  <2>2. tasks' = {} /\ remaining' = tasks /\ queue' = <<>>
    BY <1>1 DEF ShutdownSwap
  <2> QED
    BY <1>1, <2>1, <2>2
<1>2. CASE mutex # NoOne
  <2>1. pc' = [pc EXCEPT ![UI] = "aborted"]
    BY <1>2 DEF ShutdownSwap, Goto
  <2>2. killed /\ tasks' = tasks /\ remaining' = remaining /\ queue' = queue
    BY <1>2 DEF ShutdownSwap
  <2> QED
    BY <1>2, <2>1, <2>2
<1> QED
  BY <1>1, <1>2

LEMMA AppendFlag == \A s \in Seq(BOOLEAN), b \in BOOLEAN :
  Append(s, b) \in Seq(BOOLEAN) /\ Len(Append(s, b)) = Len(s) + 1
  OBVIOUS

LEMMA ReportMoves ==
  ASSUME TypeOK, NEW t \in remaining, ShutdownReport(t)
  PROVE  /\ t \in Tasks /\ answers' \in [Tasks -> Seq(BOOLEAN)]
         /\ \A u \in Tasks : u # t => answers'[u] = answers[u]
         /\ answers[t] = <<>> => (answers'[t] = <<>> \/ Len(answers'[t]) = 1)
<1>1. t \in Tasks
  BY DEF TypeOK
<1>2. CASE t \in WithCompletion
  <2> DEFINE s == Append(answers[t], TRUE)
  <2>1. answers[t] \in Seq(BOOLEAN) /\ TRUE \in BOOLEAN
    BY <1>1 DEF TypeOK
  <2>2. s \in Seq(BOOLEAN) /\ Len(s) = Len(answers[t]) + 1
    BY <2>1, AppendFlag
  <2>3. answers' = [answers EXCEPT ![t] = s]
    BY <1>2 DEF ShutdownReport, CallCompletion
  <2> HIDE DEF s
  <2>4. answers' \in [Tasks -> Seq(BOOLEAN)] /\ \A u \in Tasks : u # t => answers'[u] = answers[u]
    BY <2>2, <2>3 DEF TypeOK
  <2>5. answers'[t] = s
    BY <1>1, <2>3 DEF TypeOK
  <2>6. answers[t] = <<>> => Len(answers'[t]) = 1
    BY <2>2, <2>5
  <2> QED
    BY <1>1, <2>4, <2>6
<1>3. CASE t \notin WithCompletion
  BY <1>1, <1>3 DEF ShutdownReport, TypeOK
<1> QED
  BY <1>2, <1>3

LEMMA PushOwns ==
  ASSUME BaseInv, NEW c \in Callers, SubmitPush(c)
  PROVE  /\ job[c] \in Tasks /\ Owns(c) /\ ~Owns(c)' /\ pc[c] = "pushing"
         /\ \A p \in Threads \ {c} :
              /\ job'[p] = job[p] /\ (Owns(p)' <=> Owns(p))
              /\ \A s \in States \ {"sleeping", "check"} : pc'[p] = s <=> pc[p] = s
         /\ \A u \in Tasks : InQueue(u)' => InQueue(u) \/ u = job[c]
         /\ pc'[c] = "idle"
<1> USE ExecutorAssumption DEF BaseInv, TypeOK, Threads
<1>1. pc[c] = "pushing" /\ queue' = Append(queue, job[c])
  BY DEF SubmitPush
<1>2. job[c] \in Tasks
  BY <1>1 DEF PlaceInv, Busy, Owns
<1>3. Owns(c) /\ ~Owns(c)' /\ pc'[c] = "idle"
  BY <1>1, PushMoves DEF Owns
<1>4. ASSUME NEW p \in Threads \ {c}
      PROVE  /\ job'[p] = job[p] /\ (Owns(p)' <=> Owns(p))
             /\ \A s \in States \ {"sleeping", "check"} : pc'[p] = s <=> pc[p] = s
  <2>1. /\ job'[p] = job[p]
        /\ pc'[p] = pc[p] \/ (pc[p] = "sleeping" /\ pc'[p] = "check")
    BY PushMoves
  <2> QED
    BY <2>1 DEF Owns
<1>5. \A u \in Tasks : InQueue(u)' => InQueue(u) \/ u = job[c]
  BY <1>1, <1>2 DEF InQueue
<1> QED
  BY <1>1, <1>2, <1>3, <1>4, <1>5

LEMMA PushOnce ==
  ASSUME BaseInv, OnceInv, NEW c \in Callers, SubmitPush(c)
  PROVE  ThreadOnce' /\ Apart' /\ ResultInv' /\ AnswerInv'
<1> DEFINE t == job[c]
<1>1. /\ t \in Tasks /\ Owns(c) /\ ~Owns(c)' /\ pc[c] = "pushing" /\ pc'[c] = "idle"
      /\ \A u \in Tasks : InQueue(u)' => InQueue(u) \/ u = t
  BY PushOwns
<1>2. \A p \in Threads : Owns(p)' =>
        p # c /\ Owns(p) /\ job'[p] = job[p] /\ (pc'[p] = "pushing" <=> pc[p] = "pushing")
  BY <1>1, PushOwns DEF States
<1>3. c \in Threads /\ \A p \in Threads : Owns(p) => job[p] \in Tasks
  BY DEF Threads, BaseInv, PlaceInv, Busy
<1>4. /\ tasks' = tasks \cup {t} /\ result' = [result EXCEPT ![t] = "handle"]
      /\ msgs' = msgs /\ answers' = answers
  BY DEF SubmitPush, uiVars
<1>5. OwnerInv /\ ResultInv /\ AnswerInv /\ result \in [Tasks -> {"none", "handle", "refused"}]
  BY DEF OnceInv, BaseInv, TypeOK
<1>6. \A m \in msgs : m.task \in Tasks
  BY DEF BaseInv, TypeOK, Payload
<1> HIDE DEF t
<1>7. \A p \in Threads : Owns(p)' => job[p] # t
  BY <1>1, <1>2, <1>3, <1>5 DEF t, OwnerInv, ThreadOnce
<1>8. ThreadOnce'
  BY <1>2, <1>5 DEF OwnerInv, ThreadOnce
<1>9. Apart'
  <2>1. \A p \in Threads : Owns(p)' => ~InQueue(job[p])'
    BY <1>1, <1>2, <1>3, <1>5, <1>7 DEF OwnerInv, Apart
  <2>2. \A m \in msgs' : ~InQueue(m.task)'
    BY <1>1, <1>3, <1>4, <1>5, <1>6 DEF OwnerInv, Apart, t
  <2>3. \A m \in msgs', p \in Threads : Owns(p)' => job'[p] # m.task
    BY <1>2, <1>4, <1>5 DEF OwnerInv, Apart
  <2> QED
    BY <2>1, <2>2, <2>3 DEF Apart
<1>10. ResultInv'
  <2>1. \A u \in Tasks : InQueue(u)' \/ u \in tasks' \/ answers'[u] # <<>> => result'[u] = "handle"
    BY <1>1, <1>4, <1>5 DEF ResultInv
  <2>2. \A m \in msgs' : result'[m.task] = "handle"
    BY <1>1, <1>4, <1>5, <1>6 DEF ResultInv
  <2>3. ASSUME NEW p \in Threads, Owns(p)'
        PROVE  result'[job'[p]] = IF pc'[p] = "pushing" THEN "none" ELSE "handle"
    <3>1. job[p] \in Tasks /\ job[p] # t /\ job'[p] = job[p]
          /\ result[job[p]] = IF pc[p] = "pushing" THEN "none" ELSE "handle"
      BY <1>2, <1>3, <1>5, <1>7, <2>3 DEF ResultInv
    <3> QED
      BY <1>2, <1>4, <1>5, <2>3, <3>1
  <2> QED
    BY <2>1, <2>2, <2>3 DEF ResultInv
<1>11. AnswerInv'
  <2>1. answers[t] = <<>>
    BY <1>1, <1>3, <1>5 DEF t, AnswerInv
  <2>2. \A p \in Threads :
          pc'[p] \in {"pushing", "popped", "executing", "executed", "completing"}
            => pc[p] = pc'[p] /\ job'[p] = job[p]
    BY <1>1, PushOwns DEF States
  <2>3. \A p \in Threads : pc[p] = "erasing" => pc'[p] = "erasing" /\ job'[p] = job[p]
    BY <1>1, PushOwns DEF States
  <2>4. \A u \in tasks' : answers'[u] # <<>> => \E p \in Threads : pc'[p] = "erasing" /\ job'[p] = u
    <3> SUFFICES ASSUME NEW u \in tasks, answers[u] # <<>>
                 PROVE  \E p \in Threads : pc'[p] = "erasing" /\ job'[p] = u
      BY <1>4, <2>1
    <3> QED
      BY <1>5, <2>3 DEF AnswerInv
  <2>5. \A u \in Tasks : InQueue(u)' => answers'[u] = <<>>
    BY <1>1, <1>4, <1>5, <2>1 DEF AnswerInv
  <2>6. \A p \in Threads :
          pc'[p] \in {"pushing", "popped", "executing", "executed", "completing"}
            => answers'[job'[p]] = <<>>
    BY <1>4, <1>5, <2>2 DEF AnswerInv
  <2>7. \A u \in Tasks : Len(answers'[u]) <= 1
    BY <1>4, <1>5 DEF AnswerInv
  <2>8. \A m \in msgs' : answers'[m.task] = <<>>
    BY <1>4, <1>5 DEF AnswerInv
  <2> QED
    BY <2>4, <2>5, <2>6, <2>7, <2>8 DEF AnswerInv
<1> QED
  BY <1>8, <1>9, <1>10, <1>11

LEMMA StartOnce ==
  ASSUME BaseInv, OnceInv, NEW w \in Workers, WorkerStart(w)
  PROVE  ThreadOnce' /\ Apart' /\ ResultInv' /\ AnswerInv' /\ ExitInv'
<1>1. /\ queue' = queue /\ tasks' = tasks /\ result' = result /\ answers' = answers
      /\ job' = job /\ msgs' = msgs /\ window' = window /\ remaining' = remaining
      /\ killed' = killed /\ stopping' = stopping
  BY DEF WorkerStart, executorVars, uiVars
<1>2. /\ pc[w] = "popped" /\ pc'[w] \in {"executed", "executing"}
      /\ \A p \in Threads : p # w => pc'[p] = pc[p]
  BY StartMoves DEF BaseInv
<1>3. \A p \in Threads : (Owns(p)' <=> Owns(p)) /\ (pc'[p] = "pushing" <=> pc[p] = "pushing")
  BY <1>2 DEF Owns
<1>4. \A t : InQueue(t)' <=> InQueue(t)
  BY <1>1 DEF InQueue
<1>5. OwnerInv /\ ResultInv /\ AnswerInv /\ ExitInv
  BY DEF OnceInv
<1>6. ThreadOnce'
  BY <1>1, <1>3, <1>5 DEF OwnerInv, ThreadOnce
<1>7. Apart'
  BY <1>1, <1>3, <1>4, <1>5 DEF OwnerInv, Apart
<1>8. ResultInv'
  BY <1>1, <1>3, <1>4, <1>5 DEF ResultInv
<1>9. AnswerInv'
  <2>1. \A p \in Threads :
          pc'[p] \in {"pushing", "popped", "executing", "executed", "completing"}
            => pc[p] \in {"pushing", "popped", "executing", "executed", "completing"}
    BY <1>2
  <2>2. \A p \in Threads : pc[p] = "erasing" => pc'[p] = "erasing"
    BY <1>2
  <2> QED
    BY <1>1, <1>4, <1>5, <2>1, <2>2 DEF AnswerInv
<1>10. ExitInv'
  <2>1. pc'[UI] = pc[UI]
    BY <1>2, ExecutorAssumption DEF Threads
  <2>2. pc[UI] # "swapped"
    BY <1>2, <1>5 DEF ExitInv
  <2> QED
    BY <1>1, <1>5, <2>1, <2>2 DEF ExitInv
<1> QED
  BY <1>6, <1>7, <1>8, <1>9, <1>10

LEMMA ReportOnce ==
  ASSUME BaseInv, OnceInv, NEW t \in remaining, ShutdownReport(t)
  PROVE  ResultInv' /\ ExitInv'
<1>1. /\ queue' = queue /\ tasks' = tasks /\ result' = result /\ pc' = pc /\ job' = job
      /\ msgs' = msgs /\ window' = window /\ stopping' = stopping /\ killed' = killed
      /\ remaining' = remaining \ {t}
  BY DEF ShutdownReport, executorVars, threadVars
<1>2. /\ t \in Tasks /\ \A u \in Tasks : u # t => answers'[u] = answers[u]
  BY ReportMoves DEF BaseInv
<1>3. ResultInv /\ ExitInv /\ remaining \subseteq Tasks
  BY DEF OnceInv, BaseInv, TypeOK
<1>4. result[t] = "handle"
  BY <1>3 DEF ExitInv
<1>5. ResultInv'
  <2>1. \A u \in Tasks : InQueue(u)' <=> InQueue(u)
    BY <1>1 DEF InQueue
  <2>2. \A p \in Threads : Owns(p)' <=> Owns(p)
    BY <1>1 DEF Owns
  <2> QED
    BY <1>1, <1>2, <1>3, <1>4, <2>1, <2>2 DEF ResultInv
<1>6. ExitInv'
  BY <1>1, <1>2, <1>3 DEF ExitInv
<1> QED
  BY <1>5, <1>6

LEMMA PushBase ==
  ASSUME BaseInv, NEW c \in Callers, SubmitPush(c)
  PROVE  MutexInv' /\ DrainInv'
<1>1. /\ pc[c] = "pushing" /\ pc'[c] = "idle" /\ mutex = c /\ c \in Threads
      /\ \A p \in Threads \ {c} :
           /\ \A s \in States \ {"sleeping", "check"} : pc'[p] = s <=> pc[p] = s
  BY PushOwns DEF BaseInv, MutexInv, Threads
<1>2. \A p \in Threads : pc'[p] \notin {"pushing", "blocking"}
  <2> SUFFICES ASSUME NEW p \in Threads, pc'[p] \in {"pushing", "blocking"} PROVE FALSE
    OBVIOUS
  <2>1. p # c /\ pc[p] \in {"pushing", "blocking"}
    BY <1>1 DEF States
  <2> QED
    BY <1>1, <2>1 DEF BaseInv, MutexInv
<1>3. \A w \in Workers : pc[w] # "exited"
  BY <1>1 DEF BaseInv, DrainInv, ShutdownDrainsQueue
<1>4. \A w \in Workers : pc'[w] # "exited"
  BY <1>1, <1>3, ExecutorAssumption DEF States, Threads
<1> QED
  BY <1>2, <1>4 DEF MutexInv, DrainInv

LEMMA StartDrain ==
  ASSUME BaseInv, NEW w \in Workers, WorkerStart(w)
  PROVE  DrainInv'
<1>1. /\ pc[w] = "popped" /\ pc'[w] \in {"executed", "executing"}
      /\ \A p \in Threads : p # w => pc'[p] = pc[p]
  BY StartMoves DEF BaseInv
<1>2. \A v \in Workers : pc'[v] = "exited" => pc[v] = "exited"
  BY <1>1 DEF Threads
<1>3. \A c \in Callers : pc'[c] = pc[c]
  BY <1>1, ExecutorAssumption DEF Threads
<1>4. queue' = queue /\ stopping' = stopping
  BY DEF WorkerStart, executorVars
<1>5. DrainInv
  BY DEF BaseInv
<1> QED
  BY <1>2, <1>3, <1>4, <1>5 DEF DrainInv, ShutdownDrainsQueue

LEMMA PushExit ==
  ASSUME BaseInv, OnceInv, NEW c \in Callers, SubmitPush(c)
  PROVE  ExitInv'
<1>1. /\ pc[c] = "pushing" /\ c \in Threads /\ UI \in Threads \ {c} /\ job[c] \in Tasks
      /\ result' = [result EXCEPT ![job[c]] = "handle"] /\ tasks' = tasks \cup {job[c]}
      /\ answers' = answers /\ msgs' = msgs /\ window' = window /\ remaining' = remaining
      /\ killed' = killed /\ stopping' = stopping
  BY PushOwns, ExecutorAssumption DEF SubmitPush, uiVars, Threads
<1>2. ExitInv /\ result \in [Tasks -> {"none", "handle", "refused"}] /\ remaining \subseteq Tasks
  BY DEF OnceInv, BaseInv, TypeOK
<1>3. \A w \in Workers : pc[w] # "exited"
  BY <1>1 DEF BaseInv, DrainInv, ShutdownDrainsQueue
<1>4. pc[UI] # "swapped"
  BY <1>2, <1>3, ExecutorAssumption DEF ExitInv
<1>5. pc'[UI] = pc[UI]
  <2>1. pc'[UI] = pc[UI] \/ UI \in Workers
    BY <1>1, PushMoves DEF BaseInv
  <2> QED
    BY <2>1, ExecutorAssumption
<1>6. \A t \in remaining : result'[t] = "handle"
  BY <1>1, <1>2 DEF ExitInv
<1> QED
  BY <1>1, <1>2, <1>4, <1>5, <1>6 DEF ExitInv

LEMMA SwapExit ==
  ASSUME BaseInv, OnceInv, ShutdownSwap
  PROVE  ExitInv'
<1>1. /\ pc[UI] = "join" /\ killed' = killed /\ stopping' = stopping /\ answers' = answers
      /\ result' = result /\ msgs' = msgs /\ window' = window
  BY DEF ShutdownSwap, historyVars
<1>2. ExitInv /\ AnswerInv /\ ResultInv /\ tasks \subseteq Tasks
  BY DEF OnceInv, BaseInv, TypeOK
<1>3. ~killed /\ \A w \in Workers : pc[w] = "exited"
  BY <1>2 DEF ExitInv, ShutdownSwap
<1>4. /\ pc'[UI] = "swapped" /\ tasks' = {} /\ remaining' = tasks
      /\ \A p \in Threads : p # UI => pc'[p] = pc[p]
  BY <1>3, SwapMoves DEF BaseInv
<1>5. \A p \in Threads : pc[p] # "erasing"
  <2>1. \A p \in Callers : pc[p] # "erasing"
    BY DEF BaseInv, PlaceInv, CallerStates
  <2> QED
    BY <1>1, <1>3, <2>1 DEF Threads
<1>6. \A t \in tasks : answers[t] = <<>> /\ result[t] = "handle"
  BY <1>2, <1>5 DEF AnswerInv, ResultInv
<1>7. \A w \in Workers : pc'[w] = "exited"
  BY <1>3, <1>4, ExecutorAssumption DEF Threads
<1> QED
  BY <1>1, <1>2, <1>3, <1>4, <1>6, <1>7 DEF ExitInv

LEMMA LookupApart ==
  ASSUME BaseInv, OnceInv, NEW p \in Callers \cup {UI}, NEW t \in Tasks,
         NEW place \in {"cancelling", "waiting"}, Lookup(p, t, place)
  PROVE  Apart'
<1>1. /\ queue' = queue /\ msgs' = msgs /\ pc' = [pc EXCEPT ![p] = place]
      /\ job' = [job EXCEPT ![p] = t]
  BY DEF Lookup, Goto, Take, executorVars, uiVars
<1>2. \A q \in Threads : Owns(q)' => Owns(q) /\ job'[q] = job[q]
  BY <1>1 DEF Owns, BaseInv, TypeOK
<1>3. \A u : InQueue(u)' <=> InQueue(u)
  BY <1>1 DEF InQueue
<1>4. Apart
  BY DEF OnceInv, OwnerInv
<1> QED
  BY <1>1, <1>2, <1>3, <1>4 DEF Apart


LEMMA TypeStep == BaseInv /\ [Next]_vars => TypeOK'
<1> SUFFICES ASSUME BaseInv, [Next]_vars PROVE TypeOK'
    OBVIOUS
<1> USE ExecutorAssumption DEF executorVars, recordVars, historyVars, threadVars, uiVars,
     Threads, BaseInv, TypeOK, PlaceInv, Busy, Owns, Payload, States
<1>1. ASSUME NEW c \in Callers, NEW t \in Tasks, SubmitRefused(c, t) PROVE TypeOK'
  BY <1>1 DEF SubmitRefused
<1>2. ASSUME NEW c \in Callers, NEW t \in Tasks, SubmitLock(c, t) PROVE TypeOK'
  BY <1>2 DEF SubmitLock, Goto, Take
<1>3. ASSUME NEW c \in Callers, SubmitPush(c) PROVE TypeOK'
  <2>1. job[c] \in Tasks
    BY <1>3 DEF SubmitPush
  <2>2. queue' \in Seq(Tasks) /\ tasks' \subseteq Tasks
    BY <1>3, <2>1 DEF SubmitPush
  <2>3. result' \in [Tasks -> {"none", "handle", "refused"}]
    BY <1>3, <2>1 DEF SubmitPush
  <2>4. pc' \in [Threads -> States] /\ job' \in [Threads -> Tasks \cup {NoOne}]
    BY <1>3, PushMoves
  <2> QED
    BY <1>3, <2>2, <2>3, <2>4 DEF SubmitPush
<1>4. ASSUME NEW p \in Callers \cup {UI}, NEW t \in Tasks, Lookup(p, t, "cancelling") PROVE TypeOK'
  BY <1>4 DEF Lookup, Goto, Take, Home
<1>5. ASSUME NEW p \in Callers \cup {UI}, NEW t \in Tasks, Lookup(p, t, "waiting") PROVE TypeOK'
  BY <1>5 DEF Lookup, Goto, Take, Home
<1>6. ASSUME NEW p \in Callers \cup {UI}, CancelStore(p) PROVE TypeOK'
  BY <1>6 DEF CancelStore, Goto, Take, Home
<1>7. ASSUME NEW p \in Callers \cup {UI}, WaitReturn(p) PROVE TypeOK'
  BY <1>7 DEF WaitReturn, Goto, Take, Home
<1>8. ASSUME NEW w \in Workers, WorkerBlock(w) PROVE TypeOK'
  BY <1>8 DEF WorkerBlock, Goto
<1>9. ASSUME NEW w \in Workers, WorkerSleep(w) PROVE TypeOK'
  BY <1>9 DEF WorkerSleep, Goto
<1>10. ASSUME NEW w \in Workers, WorkerSpurious(w) PROVE TypeOK'
  BY <1>10 DEF WorkerSpurious, Goto
<1>11. ASSUME NEW w \in Workers, WorkerExit(w) PROVE TypeOK'
  BY <1>11 DEF WorkerExit, Goto
<1>12. ASSUME NEW w \in Workers, WorkerPop(w) PROVE TypeOK'
  BY <1>12 DEF WorkerPop, Goto, Take
<1>13. ASSUME NEW w \in Workers, WorkerStart(w) PROVE TypeOK'
  BY <1>13, StartMoves DEF WorkerStart
<1>14. ASSUME NEW w \in Workers, WorkerExecute(w) PROVE TypeOK'
  BY <1>14 DEF WorkerExecute, Goto
<1>15. ASSUME NEW w \in Workers, WorkerPost(w) PROVE TypeOK'
  BY <1>15 DEF WorkerPost, Goto, Take
<1>16. ASSUME NEW w \in Workers, WorkerInline(w) PROVE TypeOK'
  BY <1>16 DEF WorkerInline, Goto
<1>17. ASSUME NEW m \in msgs, UiDispatch(m) PROVE TypeOK'
  BY <1>17 DEF UiDispatch, Goto, Take
<1>18. ASSUME NEW p \in Workers \cup {UI}, Complete(p) PROVE TypeOK'
  BY <1>18 DEF Complete, CallCompletion, Goto
<1>19. ASSUME NEW p \in Workers \cup {UI}, Erase(p) PROVE TypeOK'
  BY <1>19 DEF Erase, Goto
<1>20. ASSUME NEW p \in Workers \cup {UI}, Finish(p) PROVE TypeOK'
  BY <1>20 DEF Finish, Goto, Take, Home
<1>21. CASE DestroyMainWindow
  BY <1>21 DEF DestroyMainWindow, Goto
<1>22. CASE ShutdownStop
  BY <1>22 DEF ShutdownStop, Goto
<1>23. CASE ShutdownNotify
  BY <1>23 DEF ShutdownNotify
<1>24. CASE ShutdownSwap
  BY <1>24, SwapMoves DEF ShutdownSwap
<1>25. ASSUME NEW t \in remaining, ShutdownReport(t) PROVE TypeOK'
  BY <1>25, ReportMoves DEF ShutdownReport
<1>26. CASE UNCHANGED vars
  BY <1>26 DEF vars
<1> QED
  BY <1>1, <1>2, <1>3, <1>4, <1>5, <1>6, <1>7, <1>8, <1>9, <1>10, <1>11, <1>12, <1>13,
       <1>14, <1>15, <1>16, <1>17, <1>18, <1>19, <1>20, <1>21, <1>22, <1>23, <1>24, <1>25,
       <1>26
  DEF Next, Submit, Ask, Proceed, WorkerStep, UiDeliver, UiPump, Shutdown

LEMMA PlaceStep == BaseInv /\ [Next]_vars => PlaceInv'
<1> SUFFICES ASSUME BaseInv, [Next]_vars PROVE PlaceInv'
    OBVIOUS
<1> USE ExecutorAssumption DEF executorVars, recordVars, historyVars, threadVars, uiVars,
     Threads, BaseInv, TypeOK, PlaceInv, Busy, Owns, WorkerStates, CallerStates, UiStates,
     Payload
<1>1. ASSUME NEW c \in Callers, NEW t \in Tasks, SubmitRefused(c, t) PROVE PlaceInv'
  BY <1>1 DEF SubmitRefused
<1>2. ASSUME NEW c \in Callers, NEW t \in Tasks, SubmitLock(c, t) PROVE PlaceInv'
  <2>1. pc' = [pc EXCEPT ![c] = "pushing"] /\ job' = [job EXCEPT ![c] = t]
    BY <1>2 DEF SubmitLock, Goto, Take
  <2>2. \A p \in Threads : Busy(p)' => job'[p] \in Tasks
    BY <2>1
  <2>3. /\ \A w \in Workers : pc'[w] = pc[w]
        /\ \A d \in Callers : pc'[d] \in {pc[d], "pushing"}
        /\ pc'[UI] = pc[UI]
    BY <2>1
  <2>4. \A w \in Workers : pc'[w] \in WorkerStates
    BY <2>3
  <2>5. \A d \in Callers : pc'[d] \in CallerStates
    BY <2>3
  <2>6. pc'[UI] \in UiStates
    BY <2>3
  <2> QED
    BY <2>2, <2>4, <2>5, <2>6
<1>3. ASSUME NEW c \in Callers, SubmitPush(c) PROVE PlaceInv'
  BY <1>3, PushMoves DEF SubmitPush
<1>4. ASSUME NEW p \in Callers \cup {UI}, NEW t \in Tasks, Lookup(p, t, "cancelling") PROVE PlaceInv'
  BY <1>4 DEF Lookup, Goto, Take, Home
<1>5. ASSUME NEW p \in Callers \cup {UI}, NEW t \in Tasks, Lookup(p, t, "waiting") PROVE PlaceInv'
  BY <1>5 DEF Lookup, Goto, Take, Home
<1>6. ASSUME NEW p \in Callers \cup {UI}, CancelStore(p) PROVE PlaceInv'
  BY <1>6 DEF CancelStore, Goto, Take, Home
<1>7. ASSUME NEW p \in Callers \cup {UI}, WaitReturn(p) PROVE PlaceInv'
  BY <1>7 DEF WaitReturn, Goto, Take, Home
<1>8. ASSUME NEW w \in Workers, WorkerBlock(w) PROVE PlaceInv'
  BY <1>8 DEF WorkerBlock, Goto
<1>9. ASSUME NEW w \in Workers, WorkerSleep(w) PROVE PlaceInv'
  BY <1>9 DEF WorkerSleep, Goto
<1>10. ASSUME NEW w \in Workers, WorkerSpurious(w) PROVE PlaceInv'
  BY <1>10 DEF WorkerSpurious, Goto
<1>11. ASSUME NEW w \in Workers, WorkerExit(w) PROVE PlaceInv'
  BY <1>11 DEF WorkerExit, Goto
<1>12. ASSUME NEW w \in Workers, WorkerPop(w) PROVE PlaceInv'
  BY <1>12 DEF WorkerPop, Goto, Take
<1>13. ASSUME NEW w \in Workers, WorkerStart(w) PROVE PlaceInv'
  BY <1>13, StartMoves DEF WorkerStart
<1>14. ASSUME NEW w \in Workers, WorkerExecute(w) PROVE PlaceInv'
  BY <1>14 DEF WorkerExecute, Goto
<1>15. ASSUME NEW w \in Workers, WorkerPost(w) PROVE PlaceInv'
  BY <1>15 DEF WorkerPost, Goto, Take
<1>16. ASSUME NEW w \in Workers, WorkerInline(w) PROVE PlaceInv'
  BY <1>16 DEF WorkerInline, Goto
<1>17. ASSUME NEW m \in msgs, UiDispatch(m) PROVE PlaceInv'
  BY <1>17 DEF UiDispatch, Goto, Take
<1>18. ASSUME NEW p \in Workers \cup {UI}, Complete(p) PROVE PlaceInv'
  BY <1>18 DEF Complete, CallCompletion, Goto
<1>19. ASSUME NEW p \in Workers \cup {UI}, Erase(p) PROVE PlaceInv'
  BY <1>19 DEF Erase, Goto
<1>20. ASSUME NEW p \in Workers \cup {UI}, Finish(p) PROVE PlaceInv'
  BY <1>20 DEF Finish, Goto, Take, Home
<1>21. CASE DestroyMainWindow
  BY <1>21 DEF DestroyMainWindow, Goto
<1>22. CASE ShutdownStop
  BY <1>22 DEF ShutdownStop, Goto
<1>23. CASE ShutdownNotify
  BY <1>23 DEF ShutdownNotify
<1>24. CASE ShutdownSwap
  BY <1>24, SwapMoves DEF ShutdownSwap
<1>25. ASSUME NEW t \in remaining, ShutdownReport(t) PROVE PlaceInv'
  BY <1>25, ReportMoves DEF ShutdownReport
<1>26. CASE UNCHANGED vars
  BY <1>26 DEF vars
<1> QED
  BY <1>1, <1>2, <1>3, <1>4, <1>5, <1>6, <1>7, <1>8, <1>9, <1>10, <1>11, <1>12, <1>13,
       <1>14, <1>15, <1>16, <1>17, <1>18, <1>19, <1>20, <1>21, <1>22, <1>23, <1>24, <1>25,
       <1>26
  DEF Next, Submit, Ask, Proceed, WorkerStep, UiDeliver, UiPump, Shutdown

LEMMA MutexStep == BaseInv /\ [Next]_vars => MutexInv'
<1> SUFFICES ASSUME BaseInv, [Next]_vars PROVE MutexInv'
    OBVIOUS
<1> USE ExecutorAssumption DEF executorVars, recordVars, historyVars, threadVars, uiVars,
     Threads, BaseInv, TypeOK, PlaceInv, MutexInv, WorkerStates, CallerStates, UiStates
<1>1. ASSUME NEW c \in Callers, NEW t \in Tasks, SubmitRefused(c, t) PROVE MutexInv'
  BY <1>1 DEF SubmitRefused
<1>2. ASSUME NEW c \in Callers, NEW t \in Tasks, SubmitLock(c, t) PROVE MutexInv'
  BY <1>2 DEF SubmitLock, Goto, Take
<1>3. ASSUME NEW c \in Callers, SubmitPush(c) PROVE MutexInv'
  BY <1>3, PushBase
<1>4. ASSUME NEW p \in Callers \cup {UI}, NEW t \in Tasks, Lookup(p, t, "cancelling") PROVE MutexInv'
  BY <1>4 DEF Lookup, Goto, Take, Home
<1>5. ASSUME NEW p \in Callers \cup {UI}, NEW t \in Tasks, Lookup(p, t, "waiting") PROVE MutexInv'
  BY <1>5 DEF Lookup, Goto, Take, Home
<1>6. ASSUME NEW p \in Callers \cup {UI}, CancelStore(p) PROVE MutexInv'
  BY <1>6 DEF CancelStore, Goto, Take, Home
<1>7. ASSUME NEW p \in Callers \cup {UI}, WaitReturn(p) PROVE MutexInv'
  BY <1>7 DEF WaitReturn, Goto, Take, Home
<1>8. ASSUME NEW w \in Workers, WorkerBlock(w) PROVE MutexInv'
  BY <1>8 DEF WorkerBlock, Goto
<1>9. ASSUME NEW w \in Workers, WorkerSleep(w) PROVE MutexInv'
  BY <1>9 DEF WorkerSleep, Goto
<1>10. ASSUME NEW w \in Workers, WorkerSpurious(w) PROVE MutexInv'
  BY <1>10 DEF WorkerSpurious, Goto
<1>11. ASSUME NEW w \in Workers, WorkerExit(w) PROVE MutexInv'
  BY <1>11 DEF WorkerExit, Goto
<1>12. ASSUME NEW w \in Workers, WorkerPop(w) PROVE MutexInv'
  BY <1>12 DEF WorkerPop, Goto, Take
<1>13. ASSUME NEW w \in Workers, WorkerStart(w) PROVE MutexInv'
  BY <1>13, StartMoves DEF WorkerStart
<1>14. ASSUME NEW w \in Workers, WorkerExecute(w) PROVE MutexInv'
  BY <1>14 DEF WorkerExecute, Goto
<1>15. ASSUME NEW w \in Workers, WorkerPost(w) PROVE MutexInv'
  BY <1>15 DEF WorkerPost, Goto, Take
<1>16. ASSUME NEW w \in Workers, WorkerInline(w) PROVE MutexInv'
  BY <1>16 DEF WorkerInline, Goto
<1>17. ASSUME NEW m \in msgs, UiDispatch(m) PROVE MutexInv'
  BY <1>17 DEF UiDispatch, Goto, Take
<1>18. ASSUME NEW p \in Workers \cup {UI}, Complete(p) PROVE MutexInv'
  BY <1>18 DEF Complete, CallCompletion, Goto
<1>19. ASSUME NEW p \in Workers \cup {UI}, Erase(p) PROVE MutexInv'
  BY <1>19 DEF Erase, Goto
<1>20. ASSUME NEW p \in Workers \cup {UI}, Finish(p) PROVE MutexInv'
  BY <1>20 DEF Finish, Goto, Take, Home
<1>21. CASE DestroyMainWindow
  BY <1>21 DEF DestroyMainWindow, Goto
<1>22. CASE ShutdownStop
  BY <1>22 DEF ShutdownStop, Goto
<1>23. CASE ShutdownNotify
  BY <1>23 DEF ShutdownNotify
<1>24. CASE ShutdownSwap
  BY <1>24, SwapMoves DEF ShutdownSwap
<1>25. ASSUME NEW t \in remaining, ShutdownReport(t) PROVE MutexInv'
  BY <1>25, ReportMoves DEF ShutdownReport
<1>26. CASE UNCHANGED vars
  BY <1>26 DEF vars
<1> QED
  BY <1>1, <1>2, <1>3, <1>4, <1>5, <1>6, <1>7, <1>8, <1>9, <1>10, <1>11, <1>12, <1>13,
       <1>14, <1>15, <1>16, <1>17, <1>18, <1>19, <1>20, <1>21, <1>22, <1>23, <1>24, <1>25,
       <1>26
  DEF Next, Submit, Ask, Proceed, WorkerStep, UiDeliver, UiPump, Shutdown

LEMMA DrainStep == BaseInv /\ [Next]_vars => DrainInv'
<1> SUFFICES ASSUME BaseInv, [Next]_vars PROVE DrainInv'
    OBVIOUS
<1> USE ExecutorAssumption DEF executorVars, recordVars, historyVars, threadVars, uiVars,
     Threads, BaseInv, TypeOK, PlaceInv, MutexInv, DrainInv, ShutdownDrainsQueue,
     WorkerStates, CallerStates, UiStates
<1>1. ASSUME NEW c \in Callers, NEW t \in Tasks, SubmitRefused(c, t) PROVE DrainInv'
  BY <1>1 DEF SubmitRefused
<1>2. ASSUME NEW c \in Callers, NEW t \in Tasks, SubmitLock(c, t) PROVE DrainInv'
  BY <1>2 DEF SubmitLock, Goto, Take
<1>3. ASSUME NEW c \in Callers, SubmitPush(c) PROVE DrainInv'
  BY <1>3, PushBase
<1>4. ASSUME NEW p \in Callers \cup {UI}, NEW t \in Tasks, Lookup(p, t, "cancelling") PROVE DrainInv'
  BY <1>4 DEF Lookup, Goto, Take, Home
<1>5. ASSUME NEW p \in Callers \cup {UI}, NEW t \in Tasks, Lookup(p, t, "waiting") PROVE DrainInv'
  BY <1>5 DEF Lookup, Goto, Take, Home
<1>6. ASSUME NEW p \in Callers \cup {UI}, CancelStore(p) PROVE DrainInv'
  BY <1>6 DEF CancelStore, Goto, Take, Home
<1>7. ASSUME NEW p \in Callers \cup {UI}, WaitReturn(p) PROVE DrainInv'
  BY <1>7 DEF WaitReturn, Goto, Take, Home
<1>8. ASSUME NEW w \in Workers, WorkerBlock(w) PROVE DrainInv'
  BY <1>8 DEF WorkerBlock, Goto
<1>9. ASSUME NEW w \in Workers, WorkerSleep(w) PROVE DrainInv'
  BY <1>9 DEF WorkerSleep, Goto
<1>10. ASSUME NEW w \in Workers, WorkerSpurious(w) PROVE DrainInv'
  BY <1>10 DEF WorkerSpurious, Goto
<1>11. ASSUME NEW w \in Workers, WorkerExit(w) PROVE DrainInv'
  BY <1>11 DEF WorkerExit, Goto
<1>12. ASSUME NEW w \in Workers, WorkerPop(w) PROVE DrainInv'
  BY <1>12 DEF WorkerPop, Goto, Take
<1>13. ASSUME NEW w \in Workers, WorkerStart(w) PROVE DrainInv'
  BY <1>13, StartDrain
<1>14. ASSUME NEW w \in Workers, WorkerExecute(w) PROVE DrainInv'
  BY <1>14 DEF WorkerExecute, Goto
<1>15. ASSUME NEW w \in Workers, WorkerPost(w) PROVE DrainInv'
  BY <1>15 DEF WorkerPost, Goto, Take
<1>16. ASSUME NEW w \in Workers, WorkerInline(w) PROVE DrainInv'
  BY <1>16 DEF WorkerInline, Goto
<1>17. ASSUME NEW m \in msgs, UiDispatch(m) PROVE DrainInv'
  BY <1>17 DEF UiDispatch, Goto, Take
<1>18. ASSUME NEW p \in Workers \cup {UI}, Complete(p) PROVE DrainInv'
  BY <1>18 DEF Complete, CallCompletion, Goto
<1>19. ASSUME NEW p \in Workers \cup {UI}, Erase(p) PROVE DrainInv'
  BY <1>19 DEF Erase, Goto
<1>20. ASSUME NEW p \in Workers \cup {UI}, Finish(p) PROVE DrainInv'
  BY <1>20 DEF Finish, Goto, Take, Home
<1>21. CASE DestroyMainWindow
  BY <1>21 DEF DestroyMainWindow, Goto
<1>22. CASE ShutdownStop
  BY <1>22 DEF ShutdownStop, Goto
<1>23. CASE ShutdownNotify
  BY <1>23 DEF ShutdownNotify
<1>24. CASE ShutdownSwap
  BY <1>24, SwapMoves DEF ShutdownSwap
<1>25. ASSUME NEW t \in remaining, ShutdownReport(t) PROVE DrainInv'
  BY <1>25, ReportMoves DEF ShutdownReport
<1>26. CASE UNCHANGED vars
  BY <1>26 DEF vars
<1> QED
  BY <1>1, <1>2, <1>3, <1>4, <1>5, <1>6, <1>7, <1>8, <1>9, <1>10, <1>11, <1>12, <1>13,
       <1>14, <1>15, <1>16, <1>17, <1>18, <1>19, <1>20, <1>21, <1>22, <1>23, <1>24, <1>25,
       <1>26
  DEF Next, Submit, Ask, Proceed, WorkerStep, UiDeliver, UiPump, Shutdown

LEMMA QueueOnceStep == BaseInv /\ OnceInv /\ [Next]_vars => QueueOnce'
<1> SUFFICES ASSUME BaseInv, OnceInv, [Next]_vars PROVE QueueOnce'
    OBVIOUS
<1> USE ExecutorAssumption DEF executorVars, recordVars, historyVars, threadVars, uiVars,
     Threads, BaseInv, TypeOK, PlaceInv, OnceInv, OwnerInv, QueueOnce, Apart, InQueue, Owns
<1>1. ASSUME NEW c \in Callers, NEW t \in Tasks, SubmitRefused(c, t) PROVE QueueOnce'
  BY <1>1 DEF SubmitRefused
<1>2. ASSUME NEW c \in Callers, NEW t \in Tasks, SubmitLock(c, t) PROVE QueueOnce'
  BY <1>2 DEF SubmitLock, Goto, Take
<1>3. ASSUME NEW c \in Callers, SubmitPush(c) PROVE QueueOnce'
  BY <1>3, PushMoves DEF SubmitPush
<1>4. ASSUME NEW p \in Callers \cup {UI}, NEW t \in Tasks, Lookup(p, t, "cancelling") PROVE QueueOnce'
  BY <1>4 DEF Lookup, Goto, Take, Home
<1>5. ASSUME NEW p \in Callers \cup {UI}, NEW t \in Tasks, Lookup(p, t, "waiting") PROVE QueueOnce'
  BY <1>5 DEF Lookup, Goto, Take, Home
<1>6. ASSUME NEW p \in Callers \cup {UI}, CancelStore(p) PROVE QueueOnce'
  BY <1>6 DEF CancelStore, Goto, Take, Home
<1>7. ASSUME NEW p \in Callers \cup {UI}, WaitReturn(p) PROVE QueueOnce'
  BY <1>7 DEF WaitReturn, Goto, Take, Home
<1>8. ASSUME NEW w \in Workers, WorkerBlock(w) PROVE QueueOnce'
  BY <1>8 DEF WorkerBlock, Goto
<1>9. ASSUME NEW w \in Workers, WorkerSleep(w) PROVE QueueOnce'
  BY <1>9 DEF WorkerSleep, Goto
<1>10. ASSUME NEW w \in Workers, WorkerSpurious(w) PROVE QueueOnce'
  BY <1>10 DEF WorkerSpurious, Goto
<1>11. ASSUME NEW w \in Workers, WorkerExit(w) PROVE QueueOnce'
  BY <1>11 DEF WorkerExit, Goto
<1>12. ASSUME NEW w \in Workers, WorkerPop(w) PROVE QueueOnce'
  BY <1>12 DEF WorkerPop, Goto, Take
<1>13. ASSUME NEW w \in Workers, WorkerStart(w) PROVE QueueOnce'
  BY <1>13, StartMoves DEF WorkerStart
<1>14. ASSUME NEW w \in Workers, WorkerExecute(w) PROVE QueueOnce'
  BY <1>14 DEF WorkerExecute, Goto
<1>15. ASSUME NEW w \in Workers, WorkerPost(w) PROVE QueueOnce'
  BY <1>15 DEF WorkerPost, Goto, Take
<1>16. ASSUME NEW w \in Workers, WorkerInline(w) PROVE QueueOnce'
  BY <1>16 DEF WorkerInline, Goto
<1>17. ASSUME NEW m \in msgs, UiDispatch(m) PROVE QueueOnce'
  BY <1>17 DEF UiDispatch, Goto, Take
<1>18. ASSUME NEW p \in Workers \cup {UI}, Complete(p) PROVE QueueOnce'
  BY <1>18 DEF Complete, CallCompletion, Goto
<1>19. ASSUME NEW p \in Workers \cup {UI}, Erase(p) PROVE QueueOnce'
  BY <1>19 DEF Erase, Goto
<1>20. ASSUME NEW p \in Workers \cup {UI}, Finish(p) PROVE QueueOnce'
  BY <1>20 DEF Finish, Goto, Take, Home
<1>21. CASE DestroyMainWindow
  BY <1>21 DEF DestroyMainWindow, Goto
<1>22. CASE ShutdownStop
  BY <1>22 DEF ShutdownStop, Goto
<1>23. CASE ShutdownNotify
  BY <1>23 DEF ShutdownNotify
<1>24. CASE ShutdownSwap
  BY <1>24, SwapMoves DEF ShutdownSwap
<1>25. ASSUME NEW t \in remaining, ShutdownReport(t) PROVE QueueOnce'
  BY <1>25, ReportMoves DEF ShutdownReport
<1>26. CASE UNCHANGED vars
  BY <1>26 DEF vars
<1> QED
  BY <1>1, <1>2, <1>3, <1>4, <1>5, <1>6, <1>7, <1>8, <1>9, <1>10, <1>11, <1>12, <1>13,
       <1>14, <1>15, <1>16, <1>17, <1>18, <1>19, <1>20, <1>21, <1>22, <1>23, <1>24, <1>25,
       <1>26
  DEF Next, Submit, Ask, Proceed, WorkerStep, UiDeliver, UiPump, Shutdown

LEMMA ThreadOnceStep == BaseInv /\ OnceInv /\ [Next]_vars => ThreadOnce'
<1> SUFFICES ASSUME BaseInv, OnceInv, [Next]_vars PROVE ThreadOnce'
    OBVIOUS
<1> USE ExecutorAssumption DEF executorVars, recordVars, historyVars, threadVars, uiVars,
     Threads, BaseInv, TypeOK, PlaceInv, MutexInv, OnceInv, OwnerInv, Apart, ThreadOnce,
     InQueue, Owns, ResultInv, WorkerStates, CallerStates, UiStates, Unused
<1>1. ASSUME NEW c \in Callers, NEW t \in Tasks, SubmitRefused(c, t) PROVE ThreadOnce'
  BY <1>1 DEF SubmitRefused
<1>2. ASSUME NEW c \in Callers, NEW t \in Tasks, SubmitLock(c, t) PROVE ThreadOnce'
  BY <1>2 DEF SubmitLock, Goto, Take
<1>3. ASSUME NEW c \in Callers, SubmitPush(c) PROVE ThreadOnce'
  BY <1>3, PushOnce
<1>4. ASSUME NEW p \in Callers \cup {UI}, NEW t \in Tasks, Lookup(p, t, "cancelling") PROVE ThreadOnce'
  BY <1>4 DEF Lookup, Goto, Take, Home
<1>5. ASSUME NEW p \in Callers \cup {UI}, NEW t \in Tasks, Lookup(p, t, "waiting") PROVE ThreadOnce'
  BY <1>5 DEF Lookup, Goto, Take, Home
<1>6. ASSUME NEW p \in Callers \cup {UI}, CancelStore(p) PROVE ThreadOnce'
  BY <1>6 DEF CancelStore, Goto, Take, Home
<1>7. ASSUME NEW p \in Callers \cup {UI}, WaitReturn(p) PROVE ThreadOnce'
  BY <1>7 DEF WaitReturn, Goto, Take, Home
<1>8. ASSUME NEW w \in Workers, WorkerBlock(w) PROVE ThreadOnce'
  BY <1>8 DEF WorkerBlock, Goto
<1>9. ASSUME NEW w \in Workers, WorkerSleep(w) PROVE ThreadOnce'
  BY <1>9 DEF WorkerSleep, Goto
<1>10. ASSUME NEW w \in Workers, WorkerSpurious(w) PROVE ThreadOnce'
  BY <1>10 DEF WorkerSpurious, Goto
<1>11. ASSUME NEW w \in Workers, WorkerExit(w) PROVE ThreadOnce'
  BY <1>11 DEF WorkerExit, Goto
<1>12. ASSUME NEW w \in Workers, WorkerPop(w) PROVE ThreadOnce'
  BY <1>12 DEF WorkerPop, Goto, Take
<1>13. ASSUME NEW w \in Workers, WorkerStart(w) PROVE ThreadOnce'
  BY <1>13, StartOnce
<1>14. ASSUME NEW w \in Workers, WorkerExecute(w) PROVE ThreadOnce'
  BY <1>14 DEF WorkerExecute, Goto
<1>15. ASSUME NEW w \in Workers, WorkerPost(w) PROVE ThreadOnce'
  BY <1>15 DEF WorkerPost, Goto, Take
<1>16. ASSUME NEW w \in Workers, WorkerInline(w) PROVE ThreadOnce'
  BY <1>16 DEF WorkerInline, Goto
<1>17. ASSUME NEW m \in msgs, UiDispatch(m) PROVE ThreadOnce'
  BY <1>17 DEF UiDispatch, Goto, Take
<1>18. ASSUME NEW p \in Workers \cup {UI}, Complete(p) PROVE ThreadOnce'
  BY <1>18 DEF Complete, CallCompletion, Goto
<1>19. ASSUME NEW p \in Workers \cup {UI}, Erase(p) PROVE ThreadOnce'
  BY <1>19 DEF Erase, Goto
<1>20. ASSUME NEW p \in Workers \cup {UI}, Finish(p) PROVE ThreadOnce'
  BY <1>20 DEF Finish, Goto, Take, Home
<1>21. CASE DestroyMainWindow
  BY <1>21 DEF DestroyMainWindow, Goto
<1>22. CASE ShutdownStop
  BY <1>22 DEF ShutdownStop, Goto
<1>23. CASE ShutdownNotify
  BY <1>23 DEF ShutdownNotify
<1>24. CASE ShutdownSwap
  BY <1>24, SwapMoves DEF ShutdownSwap
<1>25. ASSUME NEW t \in remaining, ShutdownReport(t) PROVE ThreadOnce'
  BY <1>25, ReportMoves DEF ShutdownReport
<1>26. CASE UNCHANGED vars
  BY <1>26 DEF vars
<1> QED
  BY <1>1, <1>2, <1>3, <1>4, <1>5, <1>6, <1>7, <1>8, <1>9, <1>10, <1>11, <1>12, <1>13,
       <1>14, <1>15, <1>16, <1>17, <1>18, <1>19, <1>20, <1>21, <1>22, <1>23, <1>24, <1>25,
       <1>26
  DEF Next, Submit, Ask, Proceed, WorkerStep, UiDeliver, UiPump, Shutdown

LEMMA MsgOnceStep == BaseInv /\ OnceInv /\ [Next]_vars => MsgOnce'
<1> SUFFICES ASSUME BaseInv, OnceInv, [Next]_vars PROVE MsgOnce'
    OBVIOUS
<1> USE ExecutorAssumption DEF executorVars, recordVars, historyVars, threadVars, uiVars,
     Threads, BaseInv, TypeOK, OnceInv, OwnerInv, Apart, MsgOnce, Owns, Payload
<1>1. ASSUME NEW c \in Callers, NEW t \in Tasks, SubmitRefused(c, t) PROVE MsgOnce'
  BY <1>1 DEF SubmitRefused
<1>2. ASSUME NEW c \in Callers, NEW t \in Tasks, SubmitLock(c, t) PROVE MsgOnce'
  BY <1>2 DEF SubmitLock, Goto, Take
<1>3. ASSUME NEW c \in Callers, SubmitPush(c) PROVE MsgOnce'
  BY <1>3, PushMoves DEF SubmitPush
<1>4. ASSUME NEW p \in Callers \cup {UI}, NEW t \in Tasks, Lookup(p, t, "cancelling") PROVE MsgOnce'
  BY <1>4 DEF Lookup, Goto, Take, Home
<1>5. ASSUME NEW p \in Callers \cup {UI}, NEW t \in Tasks, Lookup(p, t, "waiting") PROVE MsgOnce'
  BY <1>5 DEF Lookup, Goto, Take, Home
<1>6. ASSUME NEW p \in Callers \cup {UI}, CancelStore(p) PROVE MsgOnce'
  BY <1>6 DEF CancelStore, Goto, Take, Home
<1>7. ASSUME NEW p \in Callers \cup {UI}, WaitReturn(p) PROVE MsgOnce'
  BY <1>7 DEF WaitReturn, Goto, Take, Home
<1>8. ASSUME NEW w \in Workers, WorkerBlock(w) PROVE MsgOnce'
  BY <1>8 DEF WorkerBlock, Goto
<1>9. ASSUME NEW w \in Workers, WorkerSleep(w) PROVE MsgOnce'
  BY <1>9 DEF WorkerSleep, Goto
<1>10. ASSUME NEW w \in Workers, WorkerSpurious(w) PROVE MsgOnce'
  BY <1>10 DEF WorkerSpurious, Goto
<1>11. ASSUME NEW w \in Workers, WorkerExit(w) PROVE MsgOnce'
  BY <1>11 DEF WorkerExit, Goto
<1>12. ASSUME NEW w \in Workers, WorkerPop(w) PROVE MsgOnce'
  BY <1>12 DEF WorkerPop, Goto, Take
<1>13. ASSUME NEW w \in Workers, WorkerStart(w) PROVE MsgOnce'
  BY <1>13, StartMoves DEF WorkerStart
<1>14. ASSUME NEW w \in Workers, WorkerExecute(w) PROVE MsgOnce'
  BY <1>14 DEF WorkerExecute, Goto
<1>15. ASSUME NEW w \in Workers, WorkerPost(w) PROVE MsgOnce'
  BY <1>15 DEF WorkerPost, Goto, Take
<1>16. ASSUME NEW w \in Workers, WorkerInline(w) PROVE MsgOnce'
  BY <1>16 DEF WorkerInline, Goto
<1>17. ASSUME NEW m \in msgs, UiDispatch(m) PROVE MsgOnce'
  BY <1>17 DEF UiDispatch, Goto, Take
<1>18. ASSUME NEW p \in Workers \cup {UI}, Complete(p) PROVE MsgOnce'
  BY <1>18 DEF Complete, CallCompletion, Goto
<1>19. ASSUME NEW p \in Workers \cup {UI}, Erase(p) PROVE MsgOnce'
  BY <1>19 DEF Erase, Goto
<1>20. ASSUME NEW p \in Workers \cup {UI}, Finish(p) PROVE MsgOnce'
  BY <1>20 DEF Finish, Goto, Take, Home
<1>21. CASE DestroyMainWindow
  BY <1>21 DEF DestroyMainWindow, Goto
<1>22. CASE ShutdownStop
  BY <1>22 DEF ShutdownStop, Goto
<1>23. CASE ShutdownNotify
  BY <1>23 DEF ShutdownNotify
<1>24. CASE ShutdownSwap
  BY <1>24, SwapMoves DEF ShutdownSwap
<1>25. ASSUME NEW t \in remaining, ShutdownReport(t) PROVE MsgOnce'
  BY <1>25, ReportMoves DEF ShutdownReport
<1>26. CASE UNCHANGED vars
  BY <1>26 DEF vars
<1> QED
  BY <1>1, <1>2, <1>3, <1>4, <1>5, <1>6, <1>7, <1>8, <1>9, <1>10, <1>11, <1>12, <1>13,
       <1>14, <1>15, <1>16, <1>17, <1>18, <1>19, <1>20, <1>21, <1>22, <1>23, <1>24, <1>25,
       <1>26
  DEF Next, Submit, Ask, Proceed, WorkerStep, UiDeliver, UiPump, Shutdown

LEMMA ApartStep == BaseInv /\ OnceInv /\ [Next]_vars => Apart'
<1> SUFFICES ASSUME BaseInv, OnceInv, [Next]_vars PROVE Apart'
    OBVIOUS
<1> USE ExecutorAssumption DEF executorVars, recordVars, historyVars, threadVars, uiVars,
     Threads, BaseInv, TypeOK, PlaceInv, OnceInv, OwnerInv, QueueOnce, ThreadOnce, MsgOnce,
     Apart, ResultInv, Payload, InQueue, Owns, Unused
<1>1. ASSUME NEW c \in Callers, NEW t \in Tasks, SubmitRefused(c, t) PROVE Apart'
  BY <1>1 DEF SubmitRefused
<1>2. ASSUME NEW c \in Callers, NEW t \in Tasks, SubmitLock(c, t) PROVE Apart'
  BY <1>2 DEF SubmitLock, Goto, Take
<1>3. ASSUME NEW c \in Callers, SubmitPush(c) PROVE Apart'
  BY <1>3, PushOnce
<1>4. ASSUME NEW p \in Callers \cup {UI}, NEW t \in Tasks, Lookup(p, t, "cancelling") PROVE Apart'
  BY <1>4, LookupApart
<1>5. ASSUME NEW p \in Callers \cup {UI}, NEW t \in Tasks, Lookup(p, t, "waiting") PROVE Apart'
  BY <1>5, LookupApart
<1>6. ASSUME NEW p \in Callers \cup {UI}, CancelStore(p) PROVE Apart'
  BY <1>6 DEF CancelStore, Goto, Take, Home
<1>7. ASSUME NEW p \in Callers \cup {UI}, WaitReturn(p) PROVE Apart'
  BY <1>7 DEF WaitReturn, Goto, Take, Home
<1>8. ASSUME NEW w \in Workers, WorkerBlock(w) PROVE Apart'
  BY <1>8 DEF WorkerBlock, Goto
<1>9. ASSUME NEW w \in Workers, WorkerSleep(w) PROVE Apart'
  BY <1>9 DEF WorkerSleep, Goto
<1>10. ASSUME NEW w \in Workers, WorkerSpurious(w) PROVE Apart'
  BY <1>10 DEF WorkerSpurious, Goto
<1>11. ASSUME NEW w \in Workers, WorkerExit(w) PROVE Apart'
  BY <1>11 DEF WorkerExit, Goto
<1>12. ASSUME NEW w \in Workers, WorkerPop(w) PROVE Apart'
  BY <1>12 DEF WorkerPop, Goto, Take
<1>13. ASSUME NEW w \in Workers, WorkerStart(w) PROVE Apart'
  BY <1>13, StartOnce
<1>14. ASSUME NEW w \in Workers, WorkerExecute(w) PROVE Apart'
  BY <1>14 DEF WorkerExecute, Goto
<1>15. ASSUME NEW w \in Workers, WorkerPost(w) PROVE Apart'
  BY <1>15 DEF WorkerPost, Goto, Take
<1>16. ASSUME NEW w \in Workers, WorkerInline(w) PROVE Apart'
  BY <1>16 DEF WorkerInline, Goto
<1>17. ASSUME NEW m \in msgs, UiDispatch(m) PROVE Apart'
  BY <1>17 DEF UiDispatch, Goto, Take
<1>18. ASSUME NEW p \in Workers \cup {UI}, Complete(p) PROVE Apart'
  BY <1>18 DEF Complete, CallCompletion, Goto
<1>19. ASSUME NEW p \in Workers \cup {UI}, Erase(p) PROVE Apart'
  BY <1>19 DEF Erase, Goto
<1>20. ASSUME NEW p \in Workers \cup {UI}, Finish(p) PROVE Apart'
  BY <1>20 DEF Finish, Goto, Take, Home
<1>21. CASE DestroyMainWindow
  BY <1>21 DEF DestroyMainWindow, Goto
<1>22. CASE ShutdownStop
  BY <1>22 DEF ShutdownStop, Goto
<1>23. CASE ShutdownNotify
  BY <1>23 DEF ShutdownNotify
<1>24. CASE ShutdownSwap
  BY <1>24, SwapMoves DEF ShutdownSwap
<1>25. ASSUME NEW t \in remaining, ShutdownReport(t) PROVE Apart'
  BY <1>25, ReportMoves DEF ShutdownReport
<1>26. CASE UNCHANGED vars
  BY <1>26 DEF vars
<1> QED
  BY <1>1, <1>2, <1>3, <1>4, <1>5, <1>6, <1>7, <1>8, <1>9, <1>10, <1>11, <1>12, <1>13,
       <1>14, <1>15, <1>16, <1>17, <1>18, <1>19, <1>20, <1>21, <1>22, <1>23, <1>24, <1>25,
       <1>26
  DEF Next, Submit, Ask, Proceed, WorkerStep, UiDeliver, UiPump, Shutdown

LEMMA ResultStep == BaseInv /\ OnceInv /\ [Next]_vars => ResultInv'
<1> SUFFICES ASSUME BaseInv, OnceInv, [Next]_vars PROVE ResultInv'
    OBVIOUS
<1> USE ExecutorAssumption DEF executorVars, recordVars, historyVars, threadVars, uiVars,
     Threads, BaseInv, TypeOK, PlaceInv, OnceInv, OwnerInv, ThreadOnce, Apart, ResultInv,
     ExitInv, Payload, InQueue, Owns, Busy, Unused
<1>1. ASSUME NEW c \in Callers, NEW t \in Tasks, SubmitRefused(c, t) PROVE ResultInv'
  <2>1. result[t] = "none" /\ result' = [result EXCEPT ![t] = "refused"]
    BY <1>1 DEF SubmitRefused
  <2>2. ~InQueue(t) /\ t \notin tasks /\ answers[t] = <<>>
    BY <2>1
  <2>3. \A m \in msgs : m.task # t
    BY <2>1
  <2>4. \A p \in Threads : Owns(p) => job[p] # t
    <3> SUFFICES ASSUME NEW p \in Threads, Owns(p), job[p] = t PROVE FALSE
      OBVIOUS
    <3>1. pc[p] = "pushing"
      BY <2>1
    <3>2. p \in Callers
      BY <3>1 DEF WorkerStates, UiStates
    <3> QED
      BY <1>1, <3>1, <3>2 DEF SubmitRefused
  <2> QED
    BY <1>1, <2>1, <2>2, <2>3, <2>4 DEF SubmitRefused
<1>2. ASSUME NEW c \in Callers, NEW t \in Tasks, SubmitLock(c, t) PROVE ResultInv'
  BY <1>2 DEF SubmitLock, Goto, Take
<1>3. ASSUME NEW c \in Callers, SubmitPush(c) PROVE ResultInv'
  BY <1>3, PushOnce
<1>4. ASSUME NEW p \in Callers \cup {UI}, NEW t \in Tasks, Lookup(p, t, "cancelling") PROVE ResultInv'
  BY <1>4 DEF Lookup, Goto, Take, Home
<1>5. ASSUME NEW p \in Callers \cup {UI}, NEW t \in Tasks, Lookup(p, t, "waiting") PROVE ResultInv'
  BY <1>5 DEF Lookup, Goto, Take, Home
<1>6. ASSUME NEW p \in Callers \cup {UI}, CancelStore(p) PROVE ResultInv'
  BY <1>6 DEF CancelStore, Goto, Take, Home
<1>7. ASSUME NEW p \in Callers \cup {UI}, WaitReturn(p) PROVE ResultInv'
  BY <1>7 DEF WaitReturn, Goto, Take, Home
<1>8. ASSUME NEW w \in Workers, WorkerBlock(w) PROVE ResultInv'
  BY <1>8 DEF WorkerBlock, Goto
<1>9. ASSUME NEW w \in Workers, WorkerSleep(w) PROVE ResultInv'
  BY <1>9 DEF WorkerSleep, Goto
<1>10. ASSUME NEW w \in Workers, WorkerSpurious(w) PROVE ResultInv'
  BY <1>10 DEF WorkerSpurious, Goto
<1>11. ASSUME NEW w \in Workers, WorkerExit(w) PROVE ResultInv'
  BY <1>11 DEF WorkerExit, Goto
<1>12. ASSUME NEW w \in Workers, WorkerPop(w) PROVE ResultInv'
  BY <1>12 DEF WorkerPop, Goto, Take
<1>13. ASSUME NEW w \in Workers, WorkerStart(w) PROVE ResultInv'
  BY <1>13, StartOnce
<1>14. ASSUME NEW w \in Workers, WorkerExecute(w) PROVE ResultInv'
  BY <1>14 DEF WorkerExecute, Goto
<1>15. ASSUME NEW w \in Workers, WorkerPost(w) PROVE ResultInv'
  BY <1>15 DEF WorkerPost, Goto, Take
<1>16. ASSUME NEW w \in Workers, WorkerInline(w) PROVE ResultInv'
  BY <1>16 DEF WorkerInline, Goto
<1>17. ASSUME NEW m \in msgs, UiDispatch(m) PROVE ResultInv'
  BY <1>17 DEF UiDispatch, Goto, Take
<1>18. ASSUME NEW p \in Workers \cup {UI}, Complete(p) PROVE ResultInv'
  BY <1>18 DEF Complete, CallCompletion, Goto
<1>19. ASSUME NEW p \in Workers \cup {UI}, Erase(p) PROVE ResultInv'
  BY <1>19 DEF Erase, Goto
<1>20. ASSUME NEW p \in Workers \cup {UI}, Finish(p) PROVE ResultInv'
  BY <1>20 DEF Finish, Goto, Take, Home
<1>21. CASE DestroyMainWindow
  BY <1>21 DEF DestroyMainWindow, Goto
<1>22. CASE ShutdownStop
  BY <1>22 DEF ShutdownStop, Goto
<1>23. CASE ShutdownNotify
  BY <1>23 DEF ShutdownNotify
<1>24. CASE ShutdownSwap
  BY <1>24, SwapMoves DEF ShutdownSwap
<1>25. ASSUME NEW t \in remaining, ShutdownReport(t) PROVE ResultInv'
  BY <1>25, ReportOnce
<1>26. CASE UNCHANGED vars
  BY <1>26 DEF vars
<1> QED
  BY <1>1, <1>2, <1>3, <1>4, <1>5, <1>6, <1>7, <1>8, <1>9, <1>10, <1>11, <1>12, <1>13,
       <1>14, <1>15, <1>16, <1>17, <1>18, <1>19, <1>20, <1>21, <1>22, <1>23, <1>24, <1>25,
       <1>26
  DEF Next, Submit, Ask, Proceed, WorkerStep, UiDeliver, UiPump, Shutdown

LEMMA AnswerStep == BaseInv /\ OnceInv /\ [Next]_vars => AnswerInv'
<1> SUFFICES ASSUME BaseInv, OnceInv, [Next]_vars PROVE AnswerInv'
    OBVIOUS
<1> USE ExecutorAssumption DEF executorVars, recordVars, historyVars, threadVars, uiVars,
     Threads, BaseInv, TypeOK, PlaceInv, DrainInv, ShutdownDrainsQueue, OnceInv, OwnerInv,
     QueueOnce, ThreadOnce, MsgOnce, Apart, ResultInv, AnswerInv, ExitInv, Payload, InQueue,
     Owns, Busy, Unused
<1>1. ASSUME NEW c \in Callers, NEW t \in Tasks, SubmitRefused(c, t) PROVE AnswerInv'
  BY <1>1 DEF SubmitRefused
<1>2. ASSUME NEW c \in Callers, NEW t \in Tasks, SubmitLock(c, t) PROVE AnswerInv'
  BY <1>2 DEF SubmitLock, Goto, Take
<1>3. ASSUME NEW c \in Callers, SubmitPush(c) PROVE AnswerInv'
  BY <1>3, PushOnce
<1>4. ASSUME NEW p \in Callers \cup {UI}, NEW t \in Tasks, Lookup(p, t, "cancelling") PROVE AnswerInv'
  BY <1>4 DEF Lookup, Goto, Take, Home
<1>5. ASSUME NEW p \in Callers \cup {UI}, NEW t \in Tasks, Lookup(p, t, "waiting") PROVE AnswerInv'
  BY <1>5 DEF Lookup, Goto, Take, Home
<1>6. ASSUME NEW p \in Callers \cup {UI}, CancelStore(p) PROVE AnswerInv'
  BY <1>6 DEF CancelStore, Goto, Take, Home
<1>7. ASSUME NEW p \in Callers \cup {UI}, WaitReturn(p) PROVE AnswerInv'
  BY <1>7 DEF WaitReturn, Goto, Take, Home
<1>8. ASSUME NEW w \in Workers, WorkerBlock(w) PROVE AnswerInv'
  BY <1>8 DEF WorkerBlock, Goto
<1>9. ASSUME NEW w \in Workers, WorkerSleep(w) PROVE AnswerInv'
  BY <1>9 DEF WorkerSleep, Goto
<1>10. ASSUME NEW w \in Workers, WorkerSpurious(w) PROVE AnswerInv'
  BY <1>10 DEF WorkerSpurious, Goto
<1>11. ASSUME NEW w \in Workers, WorkerExit(w) PROVE AnswerInv'
  BY <1>11 DEF WorkerExit, Goto
<1>12. ASSUME NEW w \in Workers, WorkerPop(w) PROVE AnswerInv'
  BY <1>12 DEF WorkerPop, Goto, Take
<1>13. ASSUME NEW w \in Workers, WorkerStart(w) PROVE AnswerInv'
  BY <1>13, StartOnce
<1>14. ASSUME NEW w \in Workers, WorkerExecute(w) PROVE AnswerInv'
  BY <1>14 DEF WorkerExecute, Goto
<1>15. ASSUME NEW w \in Workers, WorkerPost(w) PROVE AnswerInv'
  BY <1>15 DEF WorkerPost, Goto, Take
<1>16. ASSUME NEW w \in Workers, WorkerInline(w) PROVE AnswerInv'
  BY <1>16 DEF WorkerInline, Goto
<1>17. ASSUME NEW m \in msgs, UiDispatch(m) PROVE AnswerInv'
  BY <1>17 DEF UiDispatch, Goto, Take
<1>18. ASSUME NEW p \in Workers \cup {UI}, Complete(p) PROVE AnswerInv'
  BY <1>18 DEF Complete, CallCompletion, Goto
<1>19. ASSUME NEW p \in Workers \cup {UI}, Erase(p) PROVE AnswerInv'
  BY <1>19 DEF Erase, Goto
<1>20. ASSUME NEW p \in Workers \cup {UI}, Finish(p) PROVE AnswerInv'
  BY <1>20 DEF Finish, Goto, Take, Home
<1>21. CASE DestroyMainWindow
  BY <1>21 DEF DestroyMainWindow, Goto
<1>22. CASE ShutdownStop
  BY <1>22 DEF ShutdownStop, Goto
<1>23. CASE ShutdownNotify
  <2>1. \A p \in Threads : pc'[p] \in {pc[p], "check", "join"}
    BY <1>23 DEF ShutdownNotify
  <2>2. \A p \in Threads : pc'[p] = "erasing" <=> pc[p] = "erasing"
    BY <1>23 DEF ShutdownNotify
  <2> QED
    BY <1>23, <2>1, <2>2 DEF ShutdownNotify
<1>24. CASE ShutdownSwap
  BY <1>24, SwapMoves DEF ShutdownSwap
<1>25. ASSUME NEW t \in remaining, ShutdownReport(t) PROVE AnswerInv'
  <2>1. t \in Tasks /\ answers[t] = <<>> /\ pc[UI] = "swapped"
    BY <1>25 DEF ShutdownReport
  <2>2. msgs = {} /\ queue = <<>> /\ \A w \in Workers : pc[w] = "exited"
    BY <2>1
  <2>3. \A p \in Threads : ~Owns(p)
    BY <2>1, <2>2 DEF CallerStates
  <2>4. \A u \in Tasks : answers'[u] = answers[u] \/ Len(answers'[u]) = 1
    BY <1>25, <2>1, ReportMoves
  <2>5. tasks' = {} /\ msgs' = {} /\ queue' = <<>> /\ pc' = pc
    BY <1>25, <2>1, <2>2 DEF ShutdownReport
  <2>6. \A u \in Tasks : Len(answers'[u]) <= 1
    <3> SUFFICES ASSUME NEW u \in Tasks PROVE Len(answers'[u]) <= 1
      OBVIOUS
    <3>1. CASE answers'[u] = answers[u]
      <4>1. Len(answers[u]) <= 1
        OBVIOUS
      <4> QED
        BY <3>1, <4>1, Zenon
    <3>2. CASE Len(answers'[u]) = 1
      BY <3>2
    <3> QED
      BY <2>4, <3>1, <3>2
  <2>7. \A u \in Tasks : ~InQueue(u)'
    BY <2>5
  <2>8. \A p \in Threads :
          pc'[p] \notin {"pushing", "popped", "executing", "executed", "completing"}
    BY <2>3, <2>5
  <2> QED
    BY <2>5, <2>6, <2>7, <2>8
<1>26. CASE UNCHANGED vars
  BY <1>26 DEF vars
<1> QED
  BY <1>1, <1>2, <1>3, <1>4, <1>5, <1>6, <1>7, <1>8, <1>9, <1>10, <1>11, <1>12, <1>13,
       <1>14, <1>15, <1>16, <1>17, <1>18, <1>19, <1>20, <1>21, <1>22, <1>23, <1>24, <1>25,
       <1>26
  DEF Next, Submit, Ask, Proceed, WorkerStep, UiDeliver, UiPump, Shutdown

LEMMA ExitStep == ~killed' /\ BaseInv /\ OnceInv /\ [Next]_vars => ExitInv'
<1> SUFFICES ASSUME ~killed', BaseInv, OnceInv, [Next]_vars PROVE ExitInv'
  OBVIOUS
<1> USE ExecutorAssumption DEF executorVars, recordVars, historyVars, threadVars, uiVars,
     Threads, BaseInv, TypeOK, PlaceInv, DrainInv, ShutdownDrainsQueue, OnceInv, ResultInv,
     AnswerInv, ExitInv, Payload, WorkerStates, CallerStates, UiStates, Busy, Owns
<1>1. ASSUME NEW c \in Callers, NEW t \in Tasks, SubmitRefused(c, t) PROVE ExitInv'
  <2>1. result[t] = "none" /\ result' = [result EXCEPT ![t] = "refused"]
    BY <1>1 DEF SubmitRefused, Unused
  <2>2. t \notin remaining
    BY <2>1
  <2> QED
    BY <1>1, <2>1, <2>2 DEF SubmitRefused
<1>2. ASSUME NEW c \in Callers, NEW t \in Tasks, SubmitLock(c, t) PROVE ExitInv'
  BY <1>2 DEF SubmitLock, Goto, Take
<1>3. ASSUME NEW c \in Callers, SubmitPush(c) PROVE ExitInv'
  BY <1>3, PushExit
<1>4. ASSUME NEW p \in Callers \cup {UI}, NEW t \in Tasks, Lookup(p, t, "cancelling") PROVE ExitInv'
  BY <1>4 DEF Lookup, Goto, Take, Home
<1>5. ASSUME NEW p \in Callers \cup {UI}, NEW t \in Tasks, Lookup(p, t, "waiting") PROVE ExitInv'
  BY <1>5 DEF Lookup, Goto, Take, Home
<1>6. ASSUME NEW p \in Callers \cup {UI}, CancelStore(p) PROVE ExitInv'
  BY <1>6 DEF CancelStore, Goto, Take, Home
<1>7. ASSUME NEW p \in Callers \cup {UI}, WaitReturn(p) PROVE ExitInv'
  BY <1>7 DEF WaitReturn, Goto, Take, Home
<1>8. ASSUME NEW w \in Workers, WorkerBlock(w) PROVE ExitInv'
  BY <1>8 DEF WorkerBlock, Goto
<1>9. ASSUME NEW w \in Workers, WorkerSleep(w) PROVE ExitInv'
  BY <1>9 DEF WorkerSleep, Goto
<1>10. ASSUME NEW w \in Workers, WorkerSpurious(w) PROVE ExitInv'
  BY <1>10 DEF WorkerSpurious, Goto
<1>11. ASSUME NEW w \in Workers, WorkerExit(w) PROVE ExitInv'
  BY <1>11 DEF WorkerExit, Goto
<1>12. ASSUME NEW w \in Workers, WorkerPop(w) PROVE ExitInv'
  BY <1>12 DEF WorkerPop, Goto, Take
<1>13. ASSUME NEW w \in Workers, WorkerStart(w) PROVE ExitInv'
  BY <1>13, StartOnce
<1>14. ASSUME NEW w \in Workers, WorkerExecute(w) PROVE ExitInv'
  BY <1>14 DEF WorkerExecute, Goto
<1>15. ASSUME NEW w \in Workers, WorkerPost(w) PROVE ExitInv'
  BY <1>15 DEF WorkerPost, Goto, Take
<1>16. ASSUME NEW w \in Workers, WorkerInline(w) PROVE ExitInv'
  BY <1>16 DEF WorkerInline, Goto
<1>17. ASSUME NEW m \in msgs, UiDispatch(m) PROVE ExitInv'
  BY <1>17 DEF UiDispatch, Goto, Take
<1>18. ASSUME NEW p \in Workers \cup {UI}, Complete(p) PROVE ExitInv'
  BY <1>18 DEF Complete, CallCompletion, Goto
<1>19. ASSUME NEW p \in Workers \cup {UI}, Erase(p) PROVE ExitInv'
  BY <1>19 DEF Erase, Goto
<1>20. ASSUME NEW p \in Workers \cup {UI}, Finish(p) PROVE ExitInv'
  BY <1>20 DEF Finish, Goto, Take, Home
<1>21. CASE DestroyMainWindow
  BY <1>21 DEF DestroyMainWindow, Goto
<1>22. CASE ShutdownStop
  BY <1>22 DEF ShutdownStop, Goto
<1>23. CASE ShutdownNotify
  BY <1>23 DEF ShutdownNotify
<1>24. CASE ShutdownSwap
  BY <1>24, SwapExit
<1>25. ASSUME NEW t \in remaining, ShutdownReport(t) PROVE ExitInv'
  BY <1>25, ReportOnce
<1>26. CASE UNCHANGED vars
  BY <1>26 DEF vars
<1> QED
  BY <1>1, <1>2, <1>3, <1>4, <1>5, <1>6, <1>7, <1>8, <1>9, <1>10, <1>11, <1>12, <1>13,
       <1>14, <1>15, <1>16, <1>17, <1>18, <1>19, <1>20, <1>21, <1>22, <1>23, <1>24, <1>25,
       <1>26
  DEF Next, Submit, Ask, Proceed, WorkerStep, UiDeliver, UiPump, Shutdown

LEMMA BaseInit == Init => BaseInv
<1> SUFFICES ASSUME Init PROVE BaseInv
  OBVIOUS
<1> USE ExecutorAssumption DEF Init, Threads, Home
<1>1. TypeOK
  <2>1. <<>> \in Seq(Tasks) /\ <<>> \in Seq(BOOLEAN)
    OBVIOUS
  <2>2. answers \in [Tasks -> Seq(BOOLEAN)]
    BY <2>1
  <2>3. pc \in [Threads -> States]
    BY DEF States
  <2>4. cancelled \in [Tasks -> BOOLEAN] /\ finished \in [Tasks -> BOOLEAN] /\ flag \in [Threads -> BOOLEAN]
    OBVIOUS
  <2>5. job \in [Threads -> Tasks \cup {NoOne}]
    OBVIOUS
  <2> QED
    BY <2>1, <2>2, <2>3, <2>4, <2>5 DEF TypeOK, Payload
<1>2. PlaceInv
  BY DEF PlaceInv, WorkerStates, CallerStates, UiStates, Busy, Owns
<1>3. MutexInv /\ DrainInv
  BY DEF MutexInv, DrainInv
<1> QED
  BY <1>1, <1>2, <1>3 DEF BaseInv

LEMMA BaseStep == BaseInv /\ [Next]_vars => BaseInv'
BY TypeStep, PlaceStep, MutexStep, DrainStep DEF BaseInv

LEMMA BaseAlways == Spec => []BaseInv
BY BaseInit, BaseStep, PTL DEF Spec

LEMMA OnceInit == Init => OnceInv
BY ExecutorAssumption
DEF Init, OnceInv, OwnerInv, QueueOnce, ThreadOnce, MsgOnce, Apart, ResultInv, AnswerInv, ExitInv,
    Threads, Home, Owns, InQueue

LEMMA OnceStep ==
  ~killed' /\ BaseInv /\ OnceInv /\ [Next]_vars => OnceInv'
BY QueueOnceStep, ThreadOnceStep, MsgOnceStep, ApartStep, ResultStep, AnswerStep, ExitStep
DEF OnceInv, OwnerInv

-----------------------------------------------------------------------------
\* Every variable of the executor keeps its type.
THEOREM TypeCorrect == Spec => []TypeOK
<1>1. BaseInv => TypeOK
  BY DEF BaseInv
<1> QED
  BY <1>1, BaseAlways, PTL

\* No worker leaves WorkerLoop while a task is queued or on its way into the
\* queue, so Shutdown's m_queue.clear() drops nothing that was accepted.
THEOREM ShutdownDrains == Spec => []ShutdownDrainsQueue
<1>1. BaseInv => ShutdownDrainsQueue
  BY DEF BaseInv, DrainInv, ShutdownDrainsQueue
<1> QED
  BY <1>1, BaseAlways, PTL

-----------------------------------------------------------------------------
(* What the answers are worth while the threads live.                       *)

\* What a completionProc is told, or is going to be told.
Honest(t, told) == IF told THEN cancelled[t] \/ stopping ELSE run[t] = "ended"

\* A task runs once, by the worker that took it from the queue; the flag read after that
\* is honest, and stays so in a payload and in the hands of whoever delivers it.
RunInv ==
  /\ \A t \in Tasks : result[t] # "handle" \/ InQueue(t) => run[t] = "no"
  /\ \A p \in Threads : pc[p] = "popped" => run[job[p]] = "no"
HonestInv ==
  /\ RunInv
  /\ \A p \in Threads : pc[p] = "executed" => cancelled[job[p]] \/ run[job[p]] = "ended"
  /\ \A p \in Threads : pc[p] = "completing" => Honest(job[p], flag[p])
  /\ \A m \in msgs : Honest(m.task, m.cancelled)
  /\ \A t \in Tasks : answers[t] # <<>> => Honest(t, answers[t][1])

\* An accepted task is in m_tasks or in Shutdown's list until it has been answered, and
\* released after that.
ReleaseInv ==
  /\ \A t \in Tasks : result[t] = "handle" =>
       \/ t \in tasks \cup remaining \/ finished[t]
       \/ \E p \in Threads : pc[p] = "finishing" /\ job[p] = t
  /\ \A t \in WithCompletion :
       /\ result[t] = "handle" => t \in tasks \cup remaining \/ answers[t] # <<>>
       /\ finished[t] => answers[t] # <<>>
  /\ \A p \in Threads :
       pc[p] \in {"erasing", "finishing"} /\ job[p] \in WithCompletion => answers[job[p]] # <<>>

-----------------------------------------------------------------------------
\* The first answer of a task.
LEMMA FirstAnswer ==
  ASSUME TypeOK, NEW t \in Tasks, NEW b \in BOOLEAN, answers[t] = <<>>, CallCompletion(t, b)
  PROVE  /\ answers'[t] # <<>> /\ answers'[t][1] = b
         /\ \A u \in Tasks : u # t => answers'[u] = answers[u]
<1>1. answers' = [answers EXCEPT ![t] = Append(<<>>, b)]
  BY DEF CallCompletion
<1>2. Append(<<>>, b) # <<>> /\ Append(<<>>, b)[1] = b
  OBVIOUS
<1> DEFINE s == Append(<<>>, b)
<1>3. answers' = [answers EXCEPT ![t] = s] /\ s # <<>> /\ s[1] = b
  BY <1>1, <1>2
<1> HIDE DEF s
<1> QED
  BY <1>3 DEF TypeOK

\* The places that HonestInv and ReleaseInv speak of.
Telling == {"popped", "executed", "completing"}
Leaving == {"erasing", "finishing"}

LEMMA HonestPush ==
  ASSUME BaseInv, OnceInv, HonestInv, NEW c \in Callers, SubmitPush(c)
  PROVE  HonestInv'
<1>1. /\ run' = run /\ cancelled' = cancelled /\ answers' = answers /\ flag' = flag
      /\ msgs' = msgs /\ stopping' = stopping /\ result' = [result EXCEPT ![job[c]] = "handle"]
  BY DEF SubmitPush, recordVars, uiVars
<1>2. /\ job[c] \in Tasks /\ pc[c] = "pushing" /\ Owns(c) /\ pc'[c] = "idle" /\ c \in Threads
      /\ \A u \in Tasks : InQueue(u)' => InQueue(u) \/ u = job[c]
  BY PushOwns DEF Threads
<1>3. \A p \in Threads : pc'[p] \in Telling => pc'[p] = pc[p] /\ job'[p] = job[p]
  BY <1>2, PushOwns DEF States, Telling
<1>4. result[job[c]] = "none"
  BY <1>2 DEF OnceInv, ResultInv
<1>5. run[job[c]] = "no" /\ result \in [Tasks -> {"none", "handle", "refused"}]
  BY <1>2, <1>4 DEF HonestInv, RunInv, BaseInv, TypeOK
<1>6. RunInv'
  <2>1. \A u \in Tasks : result'[u] # "handle" \/ InQueue(u)' => run[u] = "no"
    BY <1>1, <1>2, <1>5 DEF HonestInv, RunInv
  <2> QED
    BY <1>1, <1>3, <2>1 DEF HonestInv, RunInv, Telling
<1> QED
  BY <1>1, <1>3, <1>6 DEF HonestInv, Honest, Telling

\* The task that a worker has taken is not in the queue, nor taken by another.
LEMMA RunOnce ==
  ASSUME BaseInv, OnceInv, NEW w \in Workers, pc[w] \in {"popped", "executing"}
  PROVE  /\ job[w] \in Tasks /\ result[job[w]] = "handle" /\ ~InQueue(job[w])
         /\ \A p \in Threads : Owns(p) /\ job[p] = job[w] => p = w
BY DEF BaseInv, PlaceInv, Busy, OnceInv, OwnerInv, ThreadOnce, Apart, ResultInv, Owns, Threads

LEMMA HonestStart ==
  ASSUME BaseInv, OnceInv, HonestInv, NEW w \in Workers, WorkerStart(w)
  PROVE  HonestInv'
<1> DEFINE t == job[w]
<1>1. /\ cancelled' = cancelled /\ answers' = answers /\ flag' = flag /\ queue' = queue
      /\ msgs' = msgs /\ stopping' = stopping /\ result' = result /\ job' = job
  BY DEF WorkerStart, recordVars, uiVars, executorVars
<1>2. /\ pc[w] = "popped" /\ pc'[w] \in {"executed", "executing"} /\ w \in Threads
      /\ \A p \in Threads : p # w => pc'[p] = pc[p]
  BY StartMoves DEF BaseInv, Threads
<1>3. /\ t \in Tasks /\ result[t] = "handle" /\ ~InQueue(t)
      /\ \A p \in Threads : Owns(p) /\ job[p] = t => p = w
  BY <1>2, RunOnce
<1>4. run[t] = "no"
  BY <1>2 DEF HonestInv, RunInv
<1>5. pc'[w] = "executed" => cancelled[t]
  BY <1>2 DEF WorkerStart, Goto, BaseInv, TypeOK
<1>6. \A u \in Tasks : u # t => run'[u] = run[u]
  BY DEF WorkerStart, BaseInv, TypeOK
<1>7. \A u \in Tasks : run[u] = "ended" => run'[u] = "ended"
  BY <1>4, <1>6
<1>8. RunInv'
  <2>1. \A u \in Tasks : result'[u] # "handle" \/ InQueue(u)' => run'[u] = "no"
    BY <1>1, <1>3, <1>6 DEF HonestInv, RunInv, InQueue
  <2>2. ASSUME NEW p \in Threads, pc'[p] = "popped" PROVE run'[job'[p]] = "no"
    <3>1. p # w /\ pc[p] = "popped" /\ job'[p] = job[p]
      BY <1>1, <1>2, <2>2
    <3>2. job[p] # t /\ job[p] \in Tasks
      BY <1>3, <3>1 DEF Owns, BaseInv, PlaceInv, Busy
    <3> QED
      BY <1>6, <3>1, <3>2 DEF HonestInv, RunInv
  <2> QED
    BY <2>1, <2>2 DEF RunInv
<1>9. \A u \in Tasks, b \in BOOLEAN : Honest(u, b) => Honest(u, b)'
  BY <1>1, <1>7 DEF Honest
<1>10. ASSUME NEW p \in Threads
       PROVE  /\ pc'[p] = "executed" => cancelled'[job'[p]] \/ run'[job'[p]] = "ended"
              /\ pc'[p] = "completing" => Honest(job[p], flag[p])'
  <2>1. CASE p = w
    BY <1>1, <1>2, <1>5, <2>1
  <2>2. CASE p # w
    <3>1. pc'[p] = pc[p] /\ flag[p] \in BOOLEAN
      BY <1>2, <2>2 DEF BaseInv, TypeOK
    <3>2. pc[p] \in {"executed", "completing"} => job[p] \in Tasks
      BY DEF BaseInv, PlaceInv, Busy, Owns
    <3> QED
      BY <1>1, <1>7, <1>9, <3>1, <3>2 DEF HonestInv
  <2> QED
    BY <2>1, <2>2
<1>11. \A m \in msgs : Honest(m.task, m.cancelled)'
  BY <1>9 DEF HonestInv, BaseInv, TypeOK, Payload
<1>12. ASSUME NEW u \in Tasks, answers[u] # <<>> PROVE Honest(u, answers[u][1])'
  <2>1. answers[u][1] \in BOOLEAN
    BY <1>12 DEF BaseInv, TypeOK
  <2>2. Honest(u, answers[u][1])
    BY <1>12 DEF HonestInv
  <2> QED
    BY <1>1, <1>7, <2>2 DEF Honest
<1> QED
  BY <1>1, <1>8, <1>10, <1>11, <1>12 DEF HonestInv

LEMMA HonestExecute ==
  ASSUME BaseInv, OnceInv, HonestInv, NEW w \in Workers, WorkerExecute(w)
  PROVE  HonestInv'
<1> DEFINE t == job[w]
<1>1. /\ cancelled' = cancelled /\ answers' = answers /\ flag' = flag /\ queue' = queue
      /\ msgs' = msgs /\ stopping' = stopping /\ result' = result /\ job' = job
      /\ pc[w] = "executing" /\ pc' = [pc EXCEPT ![w] = "executed"]
      /\ run' = [run EXCEPT ![t] = "ended"]
  BY DEF WorkerExecute, recordVars, uiVars, executorVars, Goto
<1>2. /\ t \in Tasks /\ result[t] = "handle" /\ ~InQueue(t)
      /\ \A p \in Threads : Owns(p) /\ job[p] = t => p = w
  BY <1>1, RunOnce
<1>3. /\ run'[t] = "ended" /\ \A u \in Tasks : u # t => run'[u] = run[u]
      /\ pc'[w] = "executed" /\ \A p \in Threads : p # w => pc'[p] = pc[p]
  BY <1>1, <1>2 DEF BaseInv, TypeOK, Threads
<1>4. RunInv'
  <2>1. \A u \in Tasks : result'[u] # "handle" \/ InQueue(u)' => run'[u] = "no"
    BY <1>1, <1>2, <1>3 DEF HonestInv, RunInv, InQueue
  <2>2. ASSUME NEW p \in Threads, pc'[p] = "popped" PROVE run'[job'[p]] = "no"
    <3>1. p # w /\ pc[p] = "popped" /\ job'[p] = job[p]
      BY <1>1, <1>3, <2>2
    <3>2. job[p] # t /\ job[p] \in Tasks
      BY <1>2, <3>1 DEF Owns, BaseInv, PlaceInv, Busy
    <3> QED
      BY <1>3, <3>1, <3>2 DEF HonestInv, RunInv
  <2> QED
    BY <2>1, <2>2 DEF RunInv
<1>5. \A u \in Tasks : run[u] = "ended" => run'[u] = "ended"
  BY <1>3
<1>6. ASSUME NEW u \in Tasks, NEW b, Honest(u, b)
      PROVE  IF b THEN cancelled[u] \/ stopping ELSE run'[u] = "ended"
  BY <1>5, <1>6 DEF Honest
<1>7. ASSUME NEW p \in Threads
      PROVE  /\ pc'[p] = "executed" => cancelled[job[p]] \/ run'[job[p]] = "ended"
             /\ pc'[p] = "completing" =>
                  IF flag[p] THEN cancelled[job[p]] \/ stopping ELSE run'[job[p]] = "ended"
  <2>1. CASE p = w
    BY <1>1, <1>3, <2>1
  <2>2. CASE p # w
    <3>1. pc'[p] = pc[p]
      BY <1>3, <2>2
    <3>2. pc[p] \in {"executed", "completing"} => job[p] \in Tasks
      BY DEF BaseInv, PlaceInv, Busy, Owns
    <3> QED
      BY <1>5, <1>6, <3>1, <3>2 DEF HonestInv
  <2> QED
    BY <2>1, <2>2
<1>8. \A m \in msgs : m.task \in Tasks
  BY DEF BaseInv, TypeOK, Payload
<1> QED
  BY <1>1, <1>4, <1>6, <1>7, <1>8 DEF HonestInv, Honest

LEMMA HonestReport ==
  ASSUME BaseInv, OnceInv, HonestInv, NEW t \in remaining, ShutdownReport(t)
  PROVE  HonestInv'
<1>1. /\ pc[UI] = "swapped" /\ UNCHANGED <<run, cancelled, flag, queue, msgs, stopping, result>>
      /\ UNCHANGED <<job, pc>>
  BY DEF ShutdownReport, threadVars, executorVars
<1>2. t \in Tasks /\ answers[t] = <<>> /\ stopping
  BY <1>1 DEF OnceInv, ExitInv, BaseInv, TypeOK
<1>3. ASSUME NEW u \in Tasks, answers'[u] # <<>> PROVE Honest(u, answers'[u][1])
  <2>1. CASE answers'[u] = answers[u]
    BY <1>3, <2>1 DEF HonestInv
  <2>2. CASE answers'[u] # answers[u]
    <3>1. CallCompletion(t, TRUE)
      BY <2>2 DEF ShutdownReport
    <3>2. u = t /\ answers'[t][1] = TRUE
      BY <1>2, <2>2, <3>1, FirstAnswer DEF BaseInv
    <3> QED
      BY <1>2, <3>2 DEF Honest
  <2> QED
    BY <2>1, <2>2
<1> QED
  BY <1>1, <1>3 DEF HonestInv, RunInv, Honest, InQueue

-----------------------------------------------------------------------------
LEMMA ReleasePush ==
  ASSUME BaseInv, OnceInv, ReleaseInv, NEW c \in Callers, SubmitPush(c)
  PROVE  ReleaseInv'
<1>1. /\ answers' = answers /\ finished' = finished /\ remaining' = remaining
      /\ tasks' = tasks \cup {job[c]} /\ result' = [result EXCEPT ![job[c]] = "handle"]
  BY DEF SubmitPush, recordVars, uiVars
<1>2. \A p \in Threads : /\ pc[p] \in Leaving => pc'[p] = pc[p] /\ job'[p] = job[p]
                         /\ pc'[p] \in Leaving => pc'[p] = pc[p] /\ job'[p] = job[p]
  <2>1. pc'[c] = "idle" /\ pc[c] = "pushing" /\ c \in Threads
    BY PushOwns DEF Threads
  <2> QED
    BY <2>1, PushOwns DEF Leaving, States
<1>3. \A u \in Tasks : result'[u] = result[u] \/ u \in tasks'
  BY <1>1 DEF BaseInv, TypeOK
<1>4. \A u \in Tasks : result'[u] = "handle" =>
        \/ u \in tasks' \cup remaining \/ finished[u]
        \/ \E p \in Threads : pc'[p] = "finishing" /\ job'[p] = u
  <2> SUFFICES ASSUME NEW u \in Tasks, result'[u] = "handle", u \notin tasks'
               PROVE  \/ u \in remaining \/ finished[u]
                      \/ \E p \in Threads : pc'[p] = "finishing" /\ job'[p] = u
    OBVIOUS
  <2>1. result[u] = "handle" /\ u \notin tasks
    BY <1>1, <1>3
  <2>2. CASE \E p \in Threads : pc[p] = "finishing" /\ job[p] = u
    BY <1>2, <2>2 DEF Leaving
  <2> QED
    BY <2>1, <2>2 DEF ReleaseInv
<1>5. \A u \in WithCompletion : result'[u] = "handle" => u \in tasks' \cup remaining \/ answers[u] # <<>>
  BY <1>1, <1>3, ExecutorAssumption DEF ReleaseInv
<1> QED
  BY <1>1, <1>2, <1>4, <1>5 DEF ReleaseInv, Leaving

\* A step that moves threads outside FinalizeTask.
LEMMA ReleaseSame ==
  ASSUME ReleaseInv, UNCHANGED <<answers, finished, remaining, tasks, result, job>>,
         \A p \in Threads : pc[p] \in Leaving \/ pc'[p] \in Leaving => pc'[p] = pc[p]
  PROVE  ReleaseInv'
BY DEF ReleaseInv, Leaving

LEMMA ReleaseStart ==
  ASSUME BaseInv, ReleaseInv, NEW w \in Workers, WorkerStart(w)
  PROVE  ReleaseInv'
<1>1. \A p \in Threads : pc[p] \in Leaving \/ pc'[p] \in Leaving => pc'[p] = pc[p]
  BY StartMoves DEF BaseInv, Leaving
<1> QED
  BY <1>1, ReleaseSame DEF WorkerStart, executorVars, recordVars, uiVars

LEMMA ReleaseNotify ==
  ASSUME BaseInv, ReleaseInv, ShutdownNotify
  PROVE  ReleaseInv'
<1>1. \A p \in Threads : pc[p] \in Leaving \/ pc'[p] \in Leaving => pc'[p] = pc[p]
  BY DEF ShutdownNotify, Leaving
<1> QED
  BY <1>1, ReleaseSame DEF ShutdownNotify, executorVars, recordVars, historyVars, uiVars

LEMMA ReleaseComplete ==
  ASSUME BaseInv, OnceInv, ReleaseInv, NEW p \in Workers \cup {UI}, Complete(p)
  PROVE  ReleaseInv'
<1>1. /\ UNCHANGED <<finished, remaining, tasks, result, job>> /\ p \in Threads
      /\ pc[p] = "completing" /\ pc' = [pc EXCEPT ![p] = "erasing"]
      /\ CallCompletion(job[p], flag[p])
  BY DEF Complete, executorVars, recordVars, uiVars, Goto, Threads
<1>2. job[p] \in Tasks /\ flag[p] \in BOOLEAN /\ answers[job[p]] = <<>>
  BY <1>1 DEF BaseInv, TypeOK, PlaceInv, Busy, Owns, OnceInv, AnswerInv
<1>3. /\ answers'[job[p]] # <<>>
      /\ \A u \in Tasks : u # job[p] => answers'[u] = answers[u]
  BY <1>1, <1>2, FirstAnswer DEF BaseInv
<1>4. \A u \in Tasks : answers[u] # <<>> => answers'[u] # <<>>
  BY <1>2, <1>3
<1>5. pc'[p] = "erasing" /\ \A q \in Threads : q # p => pc'[q] = pc[q]
  BY <1>1 DEF BaseInv, TypeOK
<1>6. \A u \in Tasks : (\E q \in Threads : pc[q] = "finishing" /\ job[q] = u)
                          => \E q \in Threads : pc'[q] = "finishing" /\ job'[q] = u
  BY <1>1, <1>5
<1>7. \A q \in Threads :
        pc'[q] \in Leaving /\ job'[q] \in WithCompletion => answers'[job'[q]] # <<>>
  BY <1>1, <1>3, <1>4, <1>5, ExecutorAssumption DEF ReleaseInv, Leaving
<1> QED
  BY <1>1, <1>4, <1>6, <1>7, ExecutorAssumption DEF ReleaseInv, Leaving

LEMMA ReleaseSwap ==
  ASSUME BaseInv, OnceInv, ReleaseInv, ShutdownSwap
  PROVE  ReleaseInv'
<1>1. /\ UNCHANGED <<finished, answers, result, job>> /\ pc[UI] = "join" /\ UI \in Threads
      /\ pc'[UI] \in {"swapped", "aborted"} /\ \A p \in Threads : p # UI => pc'[p] = pc[p]
  BY SwapMoves DEF ShutdownSwap, recordVars, historyVars, BaseInv, Threads
<1>2. remaining = {}
  BY <1>1 DEF OnceInv, ExitInv
<1>3. tasks' \cup remaining' = tasks \cup remaining
  BY <1>1, <1>2, SwapMoves DEF BaseInv
<1>4. \A p \in Threads : pc[p] \in Leaving \/ pc'[p] \in Leaving => pc'[p] = pc[p]
  BY <1>1 DEF Leaving
<1> QED
  BY <1>1, <1>3, <1>4 DEF ReleaseInv, Leaving

LEMMA ReleaseReport ==
  ASSUME BaseInv, OnceInv, ReleaseInv, NEW t \in remaining, ShutdownReport(t)
  PROVE  ReleaseInv'
<1>1. /\ UNCHANGED <<tasks, result, job, pc>> /\ remaining' = remaining \ {t}
      /\ finished' = [finished EXCEPT ![t] = TRUE]
  BY DEF ShutdownReport, executorVars, threadVars
<1>2. t \in Tasks /\ answers[t] = <<>>
  BY DEF OnceInv, ExitInv, BaseInv, TypeOK
<1>3. /\ t \in WithCompletion => answers'[t] # <<>>
      /\ \A u \in Tasks : answers[u] # <<>> => answers'[u] # <<>>
  <2>1. CASE t \in WithCompletion
    <3>1. CallCompletion(t, TRUE)
      BY <2>1 DEF ShutdownReport
    <3> QED
      BY <1>2, <3>1, FirstAnswer DEF BaseInv
  <2>2. CASE t \notin WithCompletion
    BY <2>2 DEF ShutdownReport
  <2> QED
    BY <2>1, <2>2
<1>4. finished'[t] /\ \A u \in Tasks : u # t => finished'[u] = finished[u]
  BY <1>1, <1>2 DEF BaseInv, TypeOK
<1>5. \A u \in Tasks : u # t => (u \in tasks \cup remaining <=> u \in tasks' \cup remaining')
  BY <1>1
<1>6. \A u \in Tasks : result'[u] = "handle" =>
        \/ u \in tasks' \cup remaining' \/ finished'[u]
        \/ \E p \in Threads : pc'[p] = "finishing" /\ job'[p] = u
  BY <1>1, <1>4, <1>5 DEF ReleaseInv
<1>7. \A u \in WithCompletion :
        /\ result'[u] = "handle" => u \in tasks' \cup remaining' \/ answers'[u] # <<>>
        /\ finished'[u] => answers'[u] # <<>>
  BY <1>1, <1>3, <1>4, <1>5, ExecutorAssumption DEF ReleaseInv
<1>8. \A p \in Threads : pc'[p] \in {"erasing", "finishing"} /\ job'[p] \in WithCompletion
                           => answers'[job'[p]] # <<>>
  BY <1>1, <1>3, ExecutorAssumption DEF ReleaseInv
<1> QED
  BY <1>6, <1>7, <1>8 DEF ReleaseInv

-----------------------------------------------------------------------------
LEMMA HonestStep == BaseInv /\ OnceInv /\ HonestInv /\ [Next]_vars => HonestInv'
<1> SUFFICES ASSUME BaseInv, OnceInv, HonestInv, [Next]_vars PROVE HonestInv'
  OBVIOUS
<1> USE ExecutorAssumption DEF executorVars, recordVars, historyVars, threadVars, uiVars,
     Threads, BaseInv, TypeOK, PlaceInv, OnceInv, OwnerInv, ThreadOnce, Apart, ResultInv, AnswerInv,
     HonestInv, RunInv, Honest, Payload, InQueue, Owns, Busy, Unused
<1>1. ASSUME NEW c \in Callers, NEW t \in Tasks, SubmitRefused(c, t) PROVE HonestInv'
  BY <1>1 DEF SubmitRefused
<1>2. ASSUME NEW c \in Callers, NEW t \in Tasks, SubmitLock(c, t) PROVE HonestInv'
  BY <1>2 DEF SubmitLock, Goto, Take
<1>3. ASSUME NEW c \in Callers, SubmitPush(c) PROVE HonestInv'
  BY <1>3, HonestPush
<1>4. ASSUME NEW p \in Callers \cup {UI}, NEW t \in Tasks, Lookup(p, t, "cancelling") PROVE HonestInv'
  BY <1>4 DEF Lookup, Goto, Take, Home
<1>5. ASSUME NEW p \in Callers \cup {UI}, NEW t \in Tasks, Lookup(p, t, "waiting") PROVE HonestInv'
  BY <1>5 DEF Lookup, Goto, Take, Home
<1>6. ASSUME NEW p \in Callers \cup {UI}, CancelStore(p) PROVE HonestInv'
  BY <1>6 DEF CancelStore, Goto, Take, Home
<1>7. ASSUME NEW p \in Callers \cup {UI}, WaitReturn(p) PROVE HonestInv'
  BY <1>7 DEF WaitReturn, Goto, Take, Home
<1>8. ASSUME NEW w \in Workers, WorkerBlock(w) PROVE HonestInv'
  BY <1>8 DEF WorkerBlock, Goto
<1>9. ASSUME NEW w \in Workers, WorkerSleep(w) PROVE HonestInv'
  BY <1>9 DEF WorkerSleep, Goto
<1>10. ASSUME NEW w \in Workers, WorkerSpurious(w) PROVE HonestInv'
  BY <1>10 DEF WorkerSpurious, Goto
<1>11. ASSUME NEW w \in Workers, WorkerExit(w) PROVE HonestInv'
  BY <1>11 DEF WorkerExit, Goto
<1>12. ASSUME NEW w \in Workers, WorkerPop(w) PROVE HonestInv'
  BY <1>12 DEF WorkerPop, Goto, Take
<1>13. ASSUME NEW w \in Workers, WorkerStart(w) PROVE HonestInv'
  BY <1>13, HonestStart
<1>14. ASSUME NEW w \in Workers, WorkerExecute(w) PROVE HonestInv'
  BY <1>14, HonestExecute
<1>15. ASSUME NEW w \in Workers, WorkerPost(w) PROVE HonestInv'
  BY <1>15 DEF WorkerPost, Goto, Take
<1>16. ASSUME NEW w \in Workers, WorkerInline(w) PROVE HonestInv'
  BY <1>16 DEF WorkerInline, Goto
<1>17. ASSUME NEW m \in msgs, UiDispatch(m) PROVE HonestInv'
  BY <1>17 DEF UiDispatch, Goto, Take
<1>18. ASSUME NEW p \in Workers \cup {UI}, Complete(p) PROVE HonestInv'
  BY <1>18 DEF Complete, Goto, CallCompletion
<1>19. ASSUME NEW p \in Workers \cup {UI}, Erase(p) PROVE HonestInv'
  BY <1>19 DEF Erase, Goto
<1>20. ASSUME NEW p \in Workers \cup {UI}, Finish(p) PROVE HonestInv'
  BY <1>20 DEF Finish, Goto, Take, Home
<1>21. CASE DestroyMainWindow
  BY <1>21 DEF DestroyMainWindow, Goto
<1>22. CASE ShutdownStop
  BY <1>22 DEF ShutdownStop, Goto
<1>23. CASE ShutdownNotify
  BY <1>23 DEF ShutdownNotify
<1>24. CASE ShutdownSwap
  BY <1>24, SwapMoves DEF ShutdownSwap
<1>25. ASSUME NEW t \in remaining, ShutdownReport(t) PROVE HonestInv'
  BY <1>25, HonestReport
<1>26. CASE UNCHANGED vars
  BY <1>26 DEF vars
<1> QED
  BY <1>1, <1>2, <1>3, <1>4, <1>5, <1>6, <1>7, <1>8, <1>9, <1>10, <1>11, <1>12, <1>13,
       <1>14, <1>15, <1>16, <1>17, <1>18, <1>19, <1>20, <1>21, <1>22, <1>23, <1>24, <1>25,
       <1>26
  DEF Next, Submit, Ask, Proceed, WorkerStep, UiDeliver, UiPump, Shutdown

LEMMA ReleaseStep == BaseInv /\ OnceInv /\ ReleaseInv /\ [Next]_vars => ReleaseInv'
<1> SUFFICES ASSUME BaseInv, OnceInv, ReleaseInv, [Next]_vars PROVE ReleaseInv'
  OBVIOUS
<1> USE ExecutorAssumption DEF executorVars, recordVars, historyVars, threadVars, uiVars,
     Threads, BaseInv, TypeOK, PlaceInv, OnceInv, ResultInv, AnswerInv, ExitInv, ReleaseInv,
     Payload, Owns, Busy, Unused
<1>1. ASSUME NEW c \in Callers, NEW t \in Tasks, SubmitRefused(c, t) PROVE ReleaseInv'
  BY <1>1 DEF SubmitRefused
<1>2. ASSUME NEW c \in Callers, NEW t \in Tasks, SubmitLock(c, t) PROVE ReleaseInv'
  BY <1>2 DEF SubmitLock, Goto, Take
<1>3. ASSUME NEW c \in Callers, SubmitPush(c) PROVE ReleaseInv'
  BY <1>3, ReleasePush
<1>4. ASSUME NEW p \in Callers \cup {UI}, NEW t \in Tasks, Lookup(p, t, "cancelling") PROVE ReleaseInv'
  BY <1>4 DEF Lookup, Goto, Take, Home
<1>5. ASSUME NEW p \in Callers \cup {UI}, NEW t \in Tasks, Lookup(p, t, "waiting") PROVE ReleaseInv'
  BY <1>5 DEF Lookup, Goto, Take, Home
<1>6. ASSUME NEW p \in Callers \cup {UI}, CancelStore(p) PROVE ReleaseInv'
  BY <1>6 DEF CancelStore, Goto, Take, Home
<1>7. ASSUME NEW p \in Callers \cup {UI}, WaitReturn(p) PROVE ReleaseInv'
  BY <1>7 DEF WaitReturn, Goto, Take, Home
<1>8. ASSUME NEW w \in Workers, WorkerBlock(w) PROVE ReleaseInv'
  BY <1>8 DEF WorkerBlock, Goto
<1>9. ASSUME NEW w \in Workers, WorkerSleep(w) PROVE ReleaseInv'
  BY <1>9 DEF WorkerSleep, Goto
<1>10. ASSUME NEW w \in Workers, WorkerSpurious(w) PROVE ReleaseInv'
  BY <1>10 DEF WorkerSpurious, Goto
<1>11. ASSUME NEW w \in Workers, WorkerExit(w) PROVE ReleaseInv'
  BY <1>11 DEF WorkerExit, Goto
<1>12. ASSUME NEW w \in Workers, WorkerPop(w) PROVE ReleaseInv'
  BY <1>12 DEF WorkerPop, Goto, Take
<1>13. ASSUME NEW w \in Workers, WorkerStart(w) PROVE ReleaseInv'
  BY <1>13, ReleaseStart
<1>14. ASSUME NEW w \in Workers, WorkerExecute(w) PROVE ReleaseInv'
  BY <1>14 DEF WorkerExecute, Goto
<1>15. ASSUME NEW w \in Workers, WorkerPost(w) PROVE ReleaseInv'
  BY <1>15 DEF WorkerPost, Goto, Take
<1>16. ASSUME NEW w \in Workers, WorkerInline(w) PROVE ReleaseInv'
  BY <1>16 DEF WorkerInline, Goto
<1>17. ASSUME NEW m \in msgs, UiDispatch(m) PROVE ReleaseInv'
  BY <1>17 DEF UiDispatch, Goto, Take
<1>18. ASSUME NEW p \in Workers \cup {UI}, Complete(p) PROVE ReleaseInv'
  BY <1>18, ReleaseComplete
<1>19. ASSUME NEW p \in Workers \cup {UI}, Erase(p) PROVE ReleaseInv'
  BY <1>19 DEF Erase, Goto
<1>20. ASSUME NEW p \in Workers \cup {UI}, Finish(p) PROVE ReleaseInv'
  BY <1>20 DEF Finish, Goto, Take, Home
<1>21. CASE DestroyMainWindow
  BY <1>21 DEF DestroyMainWindow, Goto
<1>22. CASE ShutdownStop
  BY <1>22 DEF ShutdownStop, Goto
<1>23. CASE ShutdownNotify
  BY <1>23, ReleaseNotify
<1>24. CASE ShutdownSwap
  BY <1>24, ReleaseSwap
<1>25. ASSUME NEW t \in remaining, ShutdownReport(t) PROVE ReleaseInv'
  BY <1>25, ReleaseReport
<1>26. CASE UNCHANGED vars
  BY <1>26 DEF vars
<1> QED
  BY <1>1, <1>2, <1>3, <1>4, <1>5, <1>6, <1>7, <1>8, <1>9, <1>10, <1>11, <1>12, <1>13,
       <1>14, <1>15, <1>16, <1>17, <1>18, <1>19, <1>20, <1>21, <1>22, <1>23, <1>24, <1>25,
       <1>26
  DEF Next, Submit, Ask, Proceed, WorkerStep, UiDeliver, UiPump, Shutdown

-----------------------------------------------------------------------------
LEMMA AnswersInit == Init => HonestInv /\ ReleaseInv
<1> SUFFICES ASSUME Init PROVE HonestInv /\ ReleaseInv
  OBVIOUS
<1>1. \A p \in Threads : pc[p] \in {"check", "idle", "pump"}
  BY DEF Init, Home
<1>2. RunInv
  BY <1>1 DEF Init, RunInv
<1>3. msgs = {} /\ \A t \in Tasks : answers[t] = <<>> /\ result[t] = "none" /\ finished[t] = FALSE
  BY DEF Init
<1> QED
  BY <1>1, <1>2, <1>3, ExecutorAssumption DEF HonestInv, ReleaseInv

-----------------------------------------------------------------------------
(* The exiting process has ended the other threads.                         *)

\* A worker ended between the call of the completionProc and FinalizeTask.
CutShort(t) == \E w \in Workers : pc[w] = "erasing" /\ job[w] = t

\* What holds from then on: an accepted task has been answered or is left to Shutdown,
\* which answers it, the one that was cut short a second time.
EndedInv ==
  /\ stopping /\ msgs = {} /\ pc[UI] \in {"notify", "join", "swapped", "aborted"}
  /\ pc[UI] # "swapped" => remaining = {}
  /\ \A t \in tasks \cup remaining :
       result[t] = "handle" /\ (answers[t] = <<>> \/ (Len(answers[t]) = 1 /\ CutShort(t)))
  /\ pc[UI] = "swapped" => tasks = {}
  /\ \A t \in WithCompletion :
       /\ result[t] = "handle" => t \in tasks \cup remaining \/ answers[t] # <<>>
       /\ finished[t] => answers[t] # <<>>
  /\ CompletionAtMostOnce /\ HonestAnswer

\* Only the step that sets m_stopping comes with the end of the other threads.
LEMMA EndedBy == [Next]_vars => UNCHANGED killed \/ ShutdownStop
<1> SUFFICES ASSUME [Next]_vars PROVE UNCHANGED killed \/ ShutdownStop
  OBVIOUS
<1> USE DEF uiVars
<1>1. ASSUME NEW p \in Threads, \/ SubmitPush(p) \/ Proceed(p)
                                \/ \E t \in Tasks : \/ SubmitRefused(p, t) \/ SubmitLock(p, t)
                                                    \/ Lookup(p, t, "cancelling")
                                                    \/ Lookup(p, t, "waiting")
      PROVE  UNCHANGED killed
  BY <1>1 DEF SubmitPush, Proceed, CancelStore, WaitReturn, SubmitRefused, SubmitLock, Lookup
<1>2. ASSUME NEW w \in Workers,
             \/ WorkerBlock(w) \/ WorkerSleep(w) \/ WorkerSpurious(w) \/ WorkerExit(w)
             \/ WorkerPop(w) \/ WorkerStart(w) \/ WorkerExecute(w) \/ WorkerPost(w)
             \/ WorkerInline(w)
      PROVE  UNCHANGED killed
  BY <1>2
  DEF WorkerBlock, WorkerSleep, WorkerSpurious, WorkerExit, WorkerPop, WorkerStart,
      WorkerExecute, WorkerPost, WorkerInline
<1>3. ASSUME NEW p \in Threads, Complete(p) \/ Erase(p) \/ Finish(p) PROVE UNCHANGED killed
  BY <1>3 DEF Complete, Erase, Finish
<1>4. ASSUME NEW m \in msgs, UiDispatch(m) PROVE UNCHANGED killed
  BY <1>4 DEF UiDispatch
<1>5. ASSUME DestroyMainWindow \/ ShutdownNotify \/ ShutdownSwap PROVE UNCHANGED killed
  BY <1>5 DEF DestroyMainWindow, ShutdownNotify, ShutdownSwap
<1>6. ASSUME NEW t \in remaining, ShutdownReport(t) PROVE UNCHANGED killed
  BY <1>6 DEF ShutdownReport
<1>7. ASSUME UNCHANGED vars PROVE UNCHANGED killed
  BY <1>7 DEF vars
<1> QED
  BY <1>1, <1>2, <1>3, <1>4, <1>5, <1>6, <1>7
  DEF Next, Submit, Ask, WorkerStep, UiDeliver, UiPump, Shutdown, Threads

\* After it only Shutdown goes on.
LEMMA EndedMoves ==
  ASSUME killed, EndedInv, [Next]_vars
  PROVE  \/ ShutdownNotify \/ ShutdownSwap \/ (\E t \in remaining : ShutdownReport(t))
         \/ UNCHANGED vars
<1> USE DEF EndedInv
<1>1. ~UiDeliver
  BY ExecutorAssumption
  DEF UiDeliver, Complete, Erase, Finish, Proceed, CancelStore, WaitReturn
<1>2. ~Ask(UI) /\ ~UiPump /\ ~DestroyMainWindow /\ ~ShutdownStop
  BY ExecutorAssumption
  DEF Ask, Lookup, Home, UiPump, UiDispatch, DestroyMainWindow, ShutdownStop
<1> QED
  BY <1>1, <1>2 DEF Next, Shutdown

LEMMA EndedNotify ==
  ASSUME BaseInv, EndedInv, ShutdownNotify
  PROVE  EndedInv'
<1>1. /\ UNCHANGED <<stopping, tasks, cancelled, finished, result, run, answers, job>>
      /\ UNCHANGED <<msgs, remaining, killed>>
      /\ pc[UI] = "notify" /\ pc'[UI] = "join"
      /\ \A p \in Threads : pc[p] = "erasing" => pc'[p] = "erasing"
  BY ExecutorAssumption
  DEF ShutdownNotify, executorVars, recordVars, historyVars, uiVars, Threads
<1>2. \A t : CutShort(t) => CutShort(t)'
  BY <1>1 DEF CutShort, Threads
<1>3. CompletionAtMostOnce'
  BY <1>1 DEF EndedInv, CompletionAtMostOnce, Threads
<1>4. HonestAnswer'
  BY <1>1 DEF EndedInv, HonestAnswer
<1> QED
  BY <1>1, <1>2, <1>3, <1>4 DEF EndedInv

LEMMA EndedSwap ==
  ASSUME BaseInv, EndedInv, ShutdownSwap
  PROVE  EndedInv'
<1>1. /\ UNCHANGED <<stopping, cancelled, finished, result, run, answers, job, msgs, killed>>
      /\ pc[UI] = "join"
      /\ \/ pc'[UI] = "swapped" /\ remaining' = tasks /\ tasks' = {}
         \/ pc'[UI] = "aborted" /\ UNCHANGED <<tasks, remaining>>
      /\ \A p \in Threads : p # UI => pc'[p] = pc[p]
  BY SwapMoves DEF ShutdownSwap, recordVars, historyVars, BaseInv, Goto, TypeOK, Threads
<1>2. \A t : CutShort(t) => CutShort(t)'
  BY <1>1, ExecutorAssumption DEF CutShort, Threads
<1>3. CompletionAtMostOnce'
  BY <1>1, ExecutorAssumption DEF EndedInv, CompletionAtMostOnce, Threads
<1>4. HonestAnswer'
  BY <1>1 DEF EndedInv, HonestAnswer
<1>5. tasks' \cup remaining' = tasks \cup remaining
  BY <1>1 DEF EndedInv
<1> QED
  BY <1>1, <1>2, <1>3, <1>4, <1>5 DEF EndedInv

\* What another call of the completionProc with TRUE adds to the answers.
LEMMA AppendTrue ==
  ASSUME NEW s \in Seq(BOOLEAN)
  PROVE  /\ Append(s, TRUE) # <<>> /\ Len(Append(s, TRUE)) = Len(s) + 1
         /\ Len(s) \in Nat /\ (s = <<>> <=> Len(s) = 0)
         /\ s # <<>> => Append(s, TRUE)[1] = s[1]
         /\ \A i \in DOMAIN Append(s, TRUE) :
              Append(s, TRUE)[i] = TRUE \/ (i \in DOMAIN s /\ Append(s, TRUE)[i] = s[i])
<1> DEFINE r == Append(s, TRUE)
<1>1. r \in Seq(BOOLEAN) /\ Len(r) = Len(s) + 1 /\ Len(s) \in Nat
  OBVIOUS
<1>2. \A i \in 1..Len(s) : r[i] = s[i]
  OBVIOUS
<1>3. r[Len(s) + 1] = TRUE
  OBVIOUS
<1>4. Len(<<>>) = 0 /\ (Len(s) = 0 => s = <<>>)
  OBVIOUS
<1>5. s # <<>> => r[1] = s[1]
  <2>1. s # <<>> => 1 \in 1..Len(s)
    BY <1>1, <1>4
  <2> QED
    BY <1>2, <2>1
<1>6. DOMAIN r = 1..(Len(s) + 1) /\ DOMAIN s = 1..Len(s)
  BY <1>1
<1> HIDE DEF r
<1>8. r # <<>>
  BY <1>1, <1>4
<1>7. \A i \in DOMAIN r : r[i] = TRUE \/ (i \in DOMAIN s /\ r[i] = s[i])
  <2> TAKE i \in DOMAIN r
  <2>1. i = Len(s) + 1 \/ i \in 1..Len(s)
    BY <1>1, <1>6
  <2> QED
    BY <1>2, <1>3, <1>6, <2>1
<1> QED
  BY <1>1, <1>4, <1>5, <1>7, <1>8 DEF r
LEMMA EndedReport ==
  ASSUME BaseInv, EndedInv, killed, NEW t \in remaining, ShutdownReport(t)
  PROVE  EndedInv'
<1>1. /\ UNCHANGED <<stopping, tasks, cancelled, result, run, pc, job, msgs, killed>>
      /\ pc[UI] = "swapped" /\ remaining' = remaining \ {t}
      /\ finished' = [finished EXCEPT ![t] = TRUE]
      /\ IF t \in WithCompletion THEN CallCompletion(t, TRUE) ELSE answers' = answers
  BY DEF ShutdownReport, executorVars, threadVars
<1>2. t \in Tasks /\ tasks = {} /\ answers[t] \in Seq(BOOLEAN)
      /\ (answers[t] = <<>> \/ (Len(answers[t]) = 1 /\ CutShort(t)))
  BY <1>1 DEF EndedInv, BaseInv, TypeOK
<1>3. \A u \in Tasks : u # t => answers'[u] = answers[u] /\ finished'[u] = finished[u]
  BY <1>1, <1>2 DEF CallCompletion, BaseInv, TypeOK
<1>4. t \in WithCompletion => answers'[t] = Append(answers[t], TRUE)
  BY <1>1, <1>2 DEF CallCompletion, BaseInv, TypeOK
<1>5. t \in WithCompletion =>
        /\ answers'[t] # <<>> /\ Len(answers'[t]) = Len(answers[t]) + 1
        /\ \A i \in DOMAIN answers'[t] :
             answers'[t][i] = TRUE \/ (i \in DOMAIN answers[t] /\ answers'[t][i] = answers[t][i])
  BY <1>2, <1>4, AppendTrue
<1>6. CompletionAtMostOnce'
  <2> SUFFICES ASSUME NEW u \in Tasks
               PROVE  \/ Len(answers'[u]) <= 1
                      \/ Len(answers'[u]) = 2 /\ killed' /\ CutShort(u)'
    BY DEF CompletionAtMostOnce, CutShort
  <2>1. CutShort(u)' <=> CutShort(u)
    BY <1>1 DEF CutShort
  <2>2. Len(answers[u]) <= 1 \/ (Len(answers[u]) = 2 /\ killed /\ CutShort(u))
    BY DEF EndedInv, CompletionAtMostOnce, CutShort
  <2>3. CASE u = t /\ t \in WithCompletion
    <3>1. Len(answers[t]) \in Nat /\ (answers[t] = <<>> <=> Len(answers[t]) = 0)
      BY <1>2, AppendTrue
    <3>2. Len(answers'[t]) = Len(answers[t]) + 1
      BY <1>5, <2>3
    <3>3. CASE Len(answers[t]) = 0
      BY <2>3, <3>2, <3>3
    <3>4. CASE Len(answers[t]) = 1 /\ CutShort(t)
      <4>1. Len(answers'[t]) = 2
        BY <3>2, <3>4
      <4> QED
        BY <1>1, <2>1, <2>3, <3>4, <4>1
    <3> QED
      BY <1>2, <3>1, <3>3, <3>4
  <2>4. CASE answers'[u] = answers[u]
    BY <1>1, <2>1, <2>2, <2>4
  <2> QED
    BY <1>1, <1>3, <2>3, <2>4
<1>7. HonestAnswer'
  <2> SUFFICES ASSUME NEW u \in Tasks, NEW i \in DOMAIN answers'[u]
               PROVE  IF answers'[u][i] THEN cancelled'[u] \/ stopping' ELSE run'[u] = "ended"
    BY DEF HonestAnswer
  <2>1. CASE answers'[u][i] = TRUE
    BY <1>1, <2>1 DEF EndedInv
  <2>2. CASE i \in DOMAIN answers[u] /\ answers'[u][i] = answers[u][i]
    BY <1>1, <2>2 DEF EndedInv, HonestAnswer
  <2> QED
    BY <1>1, <1>3, <1>5, <2>1, <2>2
<1>8. \A u \in tasks' \cup remaining' :
        result'[u] = "handle" /\ (answers'[u] = <<>> \/ (Len(answers'[u]) = 1 /\ CutShort(u)'))
  <2>1. \A u : CutShort(u)' <=> CutShort(u)
    BY <1>1 DEF CutShort
  <2>2. \A u \in tasks' \cup remaining' : u \in tasks \cup remaining /\ u \in Tasks /\ u # t
    BY <1>1, <1>2 DEF BaseInv, TypeOK
  <2> QED
    BY <1>1, <1>3, <2>1, <2>2 DEF EndedInv
<1>9. ASSUME NEW u \in WithCompletion
      PROVE  /\ result'[u] = "handle" => u \in tasks' \cup remaining' \/ answers'[u] # <<>>
             /\ finished'[u] => answers'[u] # <<>>
  <2>1. CASE u = t
    BY <1>5, <1>9, <2>1
  <2>2. CASE u # t
    BY <1>1, <1>3, <1>9, <2>2, ExecutorAssumption DEF EndedInv
  <2> QED
    BY <2>1, <2>2
<1> QED
  BY <1>1, <1>6, <1>7, <1>8, <1>9 DEF EndedInv

LEMMA EndedStep == BaseInv /\ killed /\ EndedInv /\ [Next]_vars => killed' /\ EndedInv'
<1> SUFFICES ASSUME BaseInv, killed, EndedInv, [Next]_vars PROVE killed' /\ EndedInv'
  OBVIOUS
<1>1. CASE ShutdownNotify
  BY <1>1, EndedNotify DEF ShutdownNotify, uiVars
<1>2. CASE ShutdownSwap
  BY <1>2, EndedSwap DEF ShutdownSwap
<1>3. ASSUME NEW t \in remaining, ShutdownReport(t) PROVE killed' /\ EndedInv'
  BY <1>3, EndedReport DEF ShutdownReport
<1>4. CASE UNCHANGED vars
  BY <1>4
  DEF vars, executorVars, recordVars, historyVars, threadVars, uiVars, EndedInv, CutShort,
      CompletionAtMostOnce, HonestAnswer
<1> QED
  BY <1>1, <1>2, <1>3, <1>4, EndedMoves

\* The answers of the living threads are at most one per task.
LEMMA OneAnswer ==
  ASSUME BaseInv, OnceInv, HonestInv
  PROVE  CompletionAtMostOnce /\ HonestAnswer
<1>1. CompletionAtMostOnce
  BY DEF OnceInv, AnswerInv, CompletionAtMostOnce
<1>2. HonestAnswer
  <2> SUFFICES ASSUME NEW t \in Tasks, NEW i \in DOMAIN answers[t]
               PROVE  Honest(t, answers[t][i])
    BY DEF HonestAnswer, Honest
  <2>1. answers[t] \in Seq(BOOLEAN) /\ Len(answers[t]) <= 1
    BY DEF BaseInv, TypeOK, OnceInv, AnswerInv
  <2>2. i = 1 /\ answers[t] # <<>>
    BY <2>1
  <2> QED
    BY <2>2 DEF HonestInv
<1> QED
  BY <1>1, <1>2

LEMMA EndedBegins ==
  ASSUME BaseInv, OnceInv, HonestInv, ReleaseInv, ShutdownStop
  PROVE  EndedInv'
<1>1. /\ UNCHANGED <<tasks, cancelled, finished, result, run, answers, job, msgs, remaining>>
      /\ stopping' /\ pc[UI] = "exit" /\ pc'[UI] = "notify"
      /\ \A p \in Threads : p # UI => pc'[p] = pc[p]
  BY DEF ShutdownStop, recordVars, historyVars, Goto, BaseInv, TypeOK, Threads
<1>2. msgs = {} /\ remaining = {}
  BY <1>1 DEF OnceInv, ExitInv
<1>3. ASSUME NEW t \in tasks, answers[t] # <<>> PROVE Len(answers[t]) = 1 /\ CutShort(t)'
  <2>1. answers[t] \in Seq(BOOLEAN) /\ Len(answers[t]) <= 1 /\ t \in Tasks
    BY DEF BaseInv, TypeOK, OnceInv, AnswerInv
  <2>2. PICK p \in Threads : pc[p] = "erasing" /\ job[p] = t
    BY <1>3 DEF OnceInv, AnswerInv
  <2>3. p \in Workers
    BY <1>1, <2>2 DEF BaseInv, PlaceInv, CallerStates, Threads
  <2>4. p # UI
    BY <1>1, <2>2
  <2>5. Len(answers[t]) = 1
    <3> DEFINE n == Len(answers[t])
    <3>1. n \in Nat /\ n # 0
      BY <1>3, <2>1, AppendTrue
    <3>2. n <= 1
      BY <2>1
    <3> HIDE DEF n
    <3>3. n = 1
      BY <3>1, <3>2
    <3> QED
      BY <3>3 DEF n
  <2> QED
    BY <1>1, <2>2, <2>3, <2>4, <2>5 DEF CutShort, Threads
<1>4. \A t \in tasks : result[t] = "handle"
  BY DEF OnceInv, ResultInv, BaseInv, TypeOK
<1>5. CompletionAtMostOnce'
  BY <1>1 DEF CompletionAtMostOnce, OnceInv, AnswerInv
<1>6. HonestAnswer'
  BY <1>1, OneAnswer DEF HonestAnswer
<1>7. \A t \in tasks' \cup remaining' :
        result'[t] = "handle" /\ (answers'[t] = <<>> \/ (Len(answers'[t]) = 1 /\ CutShort(t)'))
  BY <1>1, <1>2, <1>3, <1>4
<1>8. \A t \in WithCompletion :
        /\ result'[t] = "handle" => t \in tasks' \cup remaining' \/ answers'[t] # <<>>
        /\ finished'[t] => answers'[t] # <<>>
  BY <1>1 DEF ReleaseInv
<1> QED
  BY <1>1, <1>2, <1>5, <1>6, <1>7, <1>8 DEF EndedInv

-----------------------------------------------------------------------------
\* What the answers rest on, before and after the threads are ended.
AliveInv == OnceInv /\ HonestInv /\ ReleaseInv
TaskInv == BaseInv /\ (IF killed THEN EndedInv ELSE AliveInv)

LEMMA TaskInit == Init => TaskInv
BY BaseInit, OnceInit, AnswersInit DEF TaskInv, AliveInv, Init

LEMMA TaskStep == TaskInv /\ [Next]_vars => TaskInv'
<1> SUFFICES ASSUME TaskInv, [Next]_vars PROVE TaskInv'
  OBVIOUS
<1>1. BaseInv /\ BaseInv'
  BY BaseStep DEF TaskInv
<1>2. CASE killed
  BY <1>1, <1>2, EndedStep DEF TaskInv
<1>3. CASE ~killed /\ killed'
  <2>1. ShutdownStop
    BY <1>3, EndedBy
  <2> QED
    BY <1>1, <1>3, <2>1, EndedBegins DEF TaskInv, AliveInv
<1>4. CASE ~killed /\ ~killed'
  <2>1. OnceInv' /\ HonestInv' /\ ReleaseInv'
    BY <1>1, <1>4, OnceStep, HonestStep, ReleaseStep DEF TaskInv, AliveInv
  <2> QED
    BY <1>1, <1>4, <2>1 DEF TaskInv, AliveInv
<1> QED
  BY <1>2, <1>3, <1>4

LEMMA TaskAlways == Spec => []TaskInv
BY TaskInit, TaskStep, PTL DEF Spec

-----------------------------------------------------------------------------
\* No completionProc is called twice, whatever the interleaving of workers, UI thread and
\* Shutdown, except where the exiting process ends a worker between the call and
\* FinalizeTask.
THEOREM AnsweredOnce == Spec => []CompletionAtMostOnce
<1>1. TaskInv => CompletionAtMostOnce
  BY OneAnswer DEF TaskInv, AliveInv, EndedInv
<1> QED
  BY <1>1, TaskAlways, PTL

\* A completionProc that is told "not cancelled" follows a complete execution, and one that
\* is told "cancelled" a Cancel or the shutdown, the second call included.
THEOREM AnsweredHonestly == Spec => []HonestAnswer
<1>1. TaskInv => HonestAnswer
  BY OneAnswer DEF TaskInv, AliveInv, EndedInv
<1> QED
  BY <1>1, TaskAlways, PTL

\* LSWaitTask returning TRUE means that the completionProc has been called.
THEOREM WaitedIsAnswered == Spec => []WaitMeansAnswered
<1>1. ASSUME TaskInv PROVE WaitMeansAnswered
  <2>1. pc[UI] # "swapped" => remaining = {}
    BY <1>1 DEF TaskInv, AliveInv, EndedInv, OnceInv, ExitInv
  <2>2. \A t \in WithCompletion :
          /\ result[t] = "handle" => t \in tasks \cup remaining \/ answers[t] # <<>>
          /\ finished[t] => answers[t] # <<>>
    BY <1>1 DEF TaskInv, AliveInv, EndedInv, ReleaseInv
  <2> QED
    BY <2>1, <2>2, ExecutorAssumption DEF WaitMeansAnswered, Accepted, Answered
<1> QED
  BY <1>1, TaskAlways, PTL

\* Shutdown returns with every accepted task answered and every waiter that is still there
\* released, also those whose payload was dropped with the window and those whose worker
\* was ended.
THEOREM ShutdownAnswers == Spec => []ShutdownAnswersAll
<1>1. ASSUME TaskInv PROVE ShutdownAnswersAll
  <2> SUFFICES ASSUME pc[UI] = "swapped", remaining = {}, NEW t \in Tasks, result[t] = "handle"
               PROVE  (finished[t] \/ killed) /\ (t \in WithCompletion => answers[t] # <<>>)
    BY DEF ShutdownAnswersAll, Accepted, Answered
  <2>1. CASE killed
    BY <1>1, <2>1, ExecutorAssumption DEF TaskInv, EndedInv
  <2>2. CASE ~killed
    <3>1. tasks = {} /\ \A w \in Workers : pc[w] = "exited"
      BY <1>1, <2>2 DEF TaskInv, AliveInv, OnceInv, ExitInv
    <3>2. \A p \in Threads : pc[p] # "finishing"
      BY <1>1, <3>1 DEF TaskInv, BaseInv, PlaceInv, CallerStates, Threads
    <3> QED
      BY <1>1, <2>2, <3>1, <3>2 DEF TaskInv, AliveInv, ReleaseInv
  <2> QED
    BY <2>1, <2>2
<1> QED
  BY <1>1, TaskAlways, PTL

-----------------------------------------------------------------------------
(* The executor is the service of TaskService.                              *)

\* Who is released has nothing left to happen to it, what is running has its worker, and
\* what is delivered has a completionProc.
ServeInv ==
  /\ \A t \in Tasks : finished[t] => result[t] = "handle" /\ ~InQueue(t)
  /\ \A m \in msgs : ~finished[m.task]
  /\ \A p \in Threads : Owns(p) => ~finished[job[p]]
  /\ \A p \in Threads : pc[p] = "executing" => run[job[p]] = "running"
  /\ \A t \in Tasks : run[t] = "running" => \E w \in Workers : pc[w] = "executing" /\ job[w] = t
  /\ \A m \in msgs : m.task \in WithCompletion
  /\ \A p \in Threads : pc[p] = "completing" => job[p] \in WithCompletion

LEMMA ServePush ==
  ASSUME BaseInv, OnceInv, ServeInv, NEW c \in Callers, SubmitPush(c)
  PROVE  ServeInv'
<1>1. /\ UNCHANGED <<run, finished, msgs>> /\ result' = [result EXCEPT ![job[c]] = "handle"]
  BY DEF SubmitPush, recordVars, uiVars
<1>2. /\ job[c] \in Tasks /\ pc[c] = "pushing" /\ Owns(c) /\ ~Owns(c)' /\ pc'[c] = "idle"
      /\ c \in Threads /\ \A u \in Tasks : InQueue(u)' => InQueue(u) \/ u = job[c]
  BY PushOwns DEF Threads
<1>3. ASSUME NEW p \in Threads
      PROVE  /\ Owns(p)' => Owns(p) /\ job'[p] = job[p]
             /\ pc'[p] = "executing" <=> pc[p] = "executing"
             /\ pc[p] = "executing" => job'[p] = job[p]
             /\ pc'[p] = "completing" => pc[p] = "completing" /\ job'[p] = job[p]
  <2>1. CASE p = c
    BY <1>2, <2>1
  <2>2. CASE p # c
    BY <2>2, PushOwns DEF States
  <2> QED
    BY <2>1, <2>2
<1>4. ~finished[job[c]] /\ result \in [Tasks -> {"none", "handle", "refused"}]
  BY <1>2 DEF ServeInv, BaseInv, TypeOK
<1>5. \A t \in Tasks : finished[t] => result'[t] = "handle" /\ ~InQueue(t)'
  BY <1>1, <1>2, <1>4 DEF ServeInv
<1>6. \A t \in Tasks : run[t] = "running" => \E w \in Workers : pc'[w] = "executing" /\ job'[w] = t
  BY <1>3 DEF ServeInv, Threads
<1> QED
  BY <1>1, <1>3, <1>5, <1>6 DEF ServeInv

LEMMA ServeStart ==
  ASSUME BaseInv, OnceInv, HonestInv, ServeInv, NEW w \in Workers, WorkerStart(w)
  PROVE  ServeInv'
<1>1. UNCHANGED <<queue, finished, result, job, msgs>>
  BY DEF WorkerStart, recordVars, uiVars, executorVars
<1>2. /\ pc[w] = "popped" /\ pc'[w] \in {"executed", "executing"} /\ w \in Threads
      /\ \A p \in Threads : p # w => pc'[p] = pc[p]
  BY StartMoves DEF BaseInv, Threads
<1>3. /\ job[w] \in Tasks /\ run[job[w]] = "no"
      /\ \A p \in Threads : Owns(p) /\ job[p] = job[w] => p = w
  BY <1>2, RunOnce DEF HonestInv, RunInv
<1>4. /\ \A u \in Tasks : u # job[w] => run'[u] = run[u]
      /\ pc'[w] = "executing" => run'[job[w]] = "running"
      /\ pc'[w] = "executed" => run' = run
  BY <1>2, <1>3 DEF WorkerStart, Goto, BaseInv, TypeOK
<1>5. \A p \in Threads : Owns(p)' => Owns(p)
  BY <1>2 DEF Owns
<1>6. ASSUME NEW p \in Threads, pc'[p] = "executing" PROVE run'[job[p]] = "running"
  <2>1. CASE p = w
    BY <1>4, <1>6, <2>1
  <2>2. CASE p # w
    <3>1. pc[p] = "executing" /\ job[p] # job[w] /\ job[p] \in Tasks
      BY <1>2, <1>3, <1>6, <2>2 DEF Owns, BaseInv, PlaceInv, Busy
    <3> QED
      BY <1>4, <3>1 DEF ServeInv
  <2> QED
    BY <2>1, <2>2
<1>7. ASSUME NEW t \in Tasks, run'[t] = "running"
      PROVE  \E v \in Workers : pc'[v] = "executing" /\ job[v] = t
  <2>1. CASE t = job[w]
    BY <1>2, <1>3, <1>4, <1>7, <2>1
  <2>2. CASE t # job[w]
    <3>1. PICK v \in Workers : pc[v] = "executing" /\ job[v] = t
      BY <1>4, <1>7, <2>2 DEF ServeInv
    <3> QED
      BY <1>2, <2>2, <3>1 DEF Threads
  <2> QED
    BY <2>1, <2>2
<1>8. \A p \in Threads : pc'[p] = "completing" => pc[p] = "completing"
  BY <1>2
<1> QED
  BY <1>1, <1>5, <1>6, <1>7, <1>8 DEF ServeInv, InQueue

LEMMA ServeExecute ==
  ASSUME BaseInv, OnceInv, ServeInv, NEW w \in Workers, WorkerExecute(w)
  PROVE  ServeInv'
<1>1. /\ UNCHANGED <<queue, finished, result, job, msgs>>
      /\ pc[w] = "executing" /\ pc' = [pc EXCEPT ![w] = "executed"]
      /\ run' = [run EXCEPT ![job[w]] = "ended"]
  BY DEF WorkerExecute, recordVars, uiVars, executorVars, Goto
<1>2. /\ job[w] \in Tasks /\ \A p \in Threads : Owns(p) /\ job[p] = job[w] => p = w
  BY <1>1, RunOnce
<1>3. /\ run'[job[w]] = "ended" /\ \A u \in Tasks : u # job[w] => run'[u] = run[u]
      /\ pc'[w] = "executed" /\ \A p \in Threads : p # w => pc'[p] = pc[p]
  BY <1>1, <1>2 DEF BaseInv, TypeOK, Threads
<1>4. \A p \in Threads : Owns(p)' => Owns(p)
  BY <1>1, <1>3 DEF Owns
<1>5. ASSUME NEW p \in Threads, pc'[p] = "executing" PROVE run'[job[p]] = "running"
  <2>1. pc[p] = "executing" /\ job[p] # job[w] /\ job[p] \in Tasks
    BY <1>2, <1>3, <1>5 DEF Owns, BaseInv, PlaceInv, Busy
  <2> QED
    BY <1>3, <2>1 DEF ServeInv
<1>6. ASSUME NEW t \in Tasks, run'[t] = "running"
      PROVE  \E v \in Workers : pc'[v] = "executing" /\ job[v] = t
  <2>1. t # job[w] /\ run[t] = "running"
    BY <1>3, <1>6
  <2>2. PICK v \in Workers : pc[v] = "executing" /\ job[v] = t
    BY <2>1 DEF ServeInv
  <2> QED
    BY <1>3, <2>1, <2>2 DEF Threads
<1> QED
  BY <1>1, <1>4, <1>5, <1>6 DEF ServeInv, InQueue

\* When Shutdown reports what is left no thread is busy with a task.
LEMMA Quiet ==
  ASSUME BaseInv, OnceInv, pc[UI] = "swapped"
  PROVE  queue = <<>> /\ msgs = {} /\ \A p \in Threads : ~Owns(p)
<1>1. /\ ~window /\ msgs = {} /\ \A w \in Workers : pc[w] = "exited"
  BY DEF OnceInv, ExitInv
<1>2. queue = <<>> /\ \A c \in Callers : pc[c] # "pushing"
  BY <1>1, ExecutorAssumption DEF BaseInv, DrainInv, ShutdownDrainsQueue
<1> QED
  BY <1>1, <1>2 DEF Owns, Threads, BaseInv, PlaceInv, CallerStates

LEMMA ServeNotify ==
  ASSUME BaseInv, ServeInv, ShutdownNotify
  PROVE  ServeInv'
<1>1. /\ UNCHANGED <<queue, finished, result, job, run, msgs>>
      /\ \A p \in Threads : \/ pc'[p] = pc[p] \/ pc'[p] \in {"check", "join"}
      /\ \A p \in Threads : pc[p] = "executing" => pc'[p] = "executing"
  BY ExecutorAssumption
  DEF ShutdownNotify, executorVars, recordVars, historyVars, uiVars, BaseInv, PlaceInv, UiStates
<1>2. \A p \in Threads : Owns(p)' => Owns(p)
  BY <1>1 DEF Owns
<1>3. \A p \in Threads : pc'[p] \in {"executing", "completing"} => pc'[p] = pc[p]
  BY <1>1
<1> QED
  BY <1>1, <1>2, <1>3 DEF ServeInv, InQueue, Threads

LEMMA ServeSwap ==
  ASSUME BaseInv, ServeInv, ShutdownSwap
  PROVE  ServeInv'
<1>1. /\ UNCHANGED <<finished, result, job, run, msgs>> /\ pc[UI] = "join"
      /\ pc'[UI] \in {"swapped", "aborted"} /\ \A p \in Threads : p # UI => pc'[p] = pc[p]
      /\ queue' = <<>> \/ queue' = queue
  BY SwapMoves DEF ShutdownSwap, recordVars, historyVars, BaseInv
<1>2. \A p \in Threads : Owns(p)' => Owns(p)
  BY <1>1 DEF Owns
<1>3. \A p \in Threads : pc'[p] \in {"executing", "completing"} <=> pc[p] \in {"executing", "completing"}
  BY <1>1
<1>4. \A p \in Threads : pc'[p] = pc[p] \/ pc'[p] \notin {"executing", "completing"}
  BY <1>1
<1>5. \A u : InQueue(u)' => InQueue(u)
  BY <1>1 DEF InQueue
<1> QED
  BY <1>1, <1>2, <1>3, <1>4, <1>5 DEF ServeInv, Threads

LEMMA ServeReport ==
  ASSUME BaseInv, OnceInv, ServeInv, NEW t \in remaining, ShutdownReport(t)
  PROVE  ServeInv'
<1>1. /\ UNCHANGED <<queue, result, job, pc, run, msgs>> /\ pc[UI] = "swapped"
      /\ finished' = [finished EXCEPT ![t] = TRUE]
  BY DEF ShutdownReport, executorVars, threadVars
<1>2. t \in Tasks /\ result[t] = "handle"
  BY DEF OnceInv, ExitInv, BaseInv, TypeOK
<1>3. queue = <<>> /\ msgs = {} /\ \A p \in Threads : ~Owns(p)
  BY <1>1, Quiet
<1>4. \A u \in Tasks : finished'[u] => finished[u] \/ u = t
  BY <1>1, <1>2 DEF BaseInv, TypeOK
<1>5. \A u : ~InQueue(u)'
  BY <1>1, <1>3 DEF InQueue
<1> QED
  BY <1>1, <1>2, <1>3, <1>4, <1>5 DEF ServeInv, Owns

-----------------------------------------------------------------------------
LEMMA ServeStep == BaseInv /\ OnceInv /\ HonestInv /\ ServeInv /\ [Next]_vars => ServeInv'
<1> SUFFICES ASSUME BaseInv, OnceInv, HonestInv, ServeInv, [Next]_vars PROVE ServeInv'
  OBVIOUS
<1> USE ExecutorAssumption DEF executorVars, recordVars, historyVars, threadVars, uiVars,
     Threads, BaseInv, TypeOK, PlaceInv, OnceInv, OwnerInv, ThreadOnce, Apart, ResultInv,
     ServeInv, WorkerStates, UiStates, CallerStates, Payload, InQueue, Owns, Busy, Unused
<1>1. ASSUME NEW c \in Callers, NEW t \in Tasks, SubmitRefused(c, t) PROVE ServeInv'
  BY <1>1 DEF SubmitRefused
<1>2. ASSUME NEW c \in Callers, NEW t \in Tasks, SubmitLock(c, t) PROVE ServeInv'
  BY <1>2 DEF SubmitLock, Goto, Take
<1>3. ASSUME NEW c \in Callers, SubmitPush(c) PROVE ServeInv'
  BY <1>3, ServePush
<1>4. ASSUME NEW p \in Callers \cup {UI}, NEW t \in Tasks, Lookup(p, t, "cancelling") PROVE ServeInv'
  BY <1>4 DEF Lookup, Goto, Take, Home
<1>5. ASSUME NEW p \in Callers \cup {UI}, NEW t \in Tasks, Lookup(p, t, "waiting") PROVE ServeInv'
  BY <1>5 DEF Lookup, Goto, Take, Home
<1>6. ASSUME NEW p \in Callers \cup {UI}, CancelStore(p) PROVE ServeInv'
  BY <1>6 DEF CancelStore, Goto, Take, Home
<1>7. ASSUME NEW p \in Callers \cup {UI}, WaitReturn(p) PROVE ServeInv'
  BY <1>7 DEF WaitReturn, Goto, Take, Home
<1>8. ASSUME NEW w \in Workers, WorkerBlock(w) PROVE ServeInv'
  BY <1>8 DEF WorkerBlock, Goto
<1>9. ASSUME NEW w \in Workers, WorkerSleep(w) PROVE ServeInv'
  BY <1>9 DEF WorkerSleep, Goto
<1>10. ASSUME NEW w \in Workers, WorkerSpurious(w) PROVE ServeInv'
  BY <1>10 DEF WorkerSpurious, Goto
<1>11. ASSUME NEW w \in Workers, WorkerExit(w) PROVE ServeInv'
  BY <1>11 DEF WorkerExit, Goto
<1>12. ASSUME NEW w \in Workers, WorkerPop(w) PROVE ServeInv'
  BY <1>12 DEF WorkerPop, Goto, Take
<1>13. ASSUME NEW w \in Workers, WorkerStart(w) PROVE ServeInv'
  BY <1>13, ServeStart
<1>14. ASSUME NEW w \in Workers, WorkerExecute(w) PROVE ServeInv'
  BY <1>14, ServeExecute
<1>15. ASSUME NEW w \in Workers, WorkerPost(w) PROVE ServeInv'
  BY <1>15 DEF WorkerPost, Goto, Take
<1>16. ASSUME NEW w \in Workers, WorkerInline(w) PROVE ServeInv'
  BY <1>16 DEF WorkerInline, Goto
<1>17. ASSUME NEW m \in msgs, UiDispatch(m) PROVE ServeInv'
  BY <1>17 DEF UiDispatch, Goto, Take
<1>18. ASSUME NEW p \in Workers \cup {UI}, Complete(p) PROVE ServeInv'
  BY <1>18 DEF Complete, Goto, CallCompletion
<1>19. ASSUME NEW p \in Workers \cup {UI}, Erase(p) PROVE ServeInv'
  BY <1>19 DEF Erase, Goto
<1>20. ASSUME NEW p \in Workers \cup {UI}, Finish(p) PROVE ServeInv'
  BY <1>20 DEF Finish, Goto, Take, Home
<1>21. CASE DestroyMainWindow
  BY <1>21 DEF DestroyMainWindow, Goto
<1>22. CASE ShutdownStop
  BY <1>22 DEF ShutdownStop, Goto
<1>23. CASE ShutdownNotify
  BY <1>23, ServeNotify
<1>24. CASE ShutdownSwap
  BY <1>24, ServeSwap
<1>25. ASSUME NEW t \in remaining, ShutdownReport(t) PROVE ServeInv'
  BY <1>25, ServeReport
<1>26. CASE UNCHANGED vars
  BY <1>26 DEF vars
<1> QED
  BY <1>1, <1>2, <1>3, <1>4, <1>5, <1>6, <1>7, <1>8, <1>9, <1>10, <1>11, <1>12, <1>13,
       <1>14, <1>15, <1>16, <1>17, <1>18, <1>19, <1>20, <1>21, <1>22, <1>23, <1>24, <1>25,
       <1>26
  DEF Next, Submit, Ask, Proceed, WorkerStep, UiDeliver, UiPump, Shutdown

-----------------------------------------------------------------------------
(* The steps as steps of the service.                                       *)

\* What changes one task changes the status of no other.
LEMMA OneMoves ==
  ASSUME NEW t \in Tasks,
         \A u \in Tasks : u # t =>
           /\ result'[u] = result[u] /\ answers'[u] = answers[u] /\ finished'[u] = finished[u]
           /\ run'[u] = run[u]
  PROVE  status' = [status EXCEPT ![t] = status'[t]]
<1>1. \A u \in Tasks : u # t => status'[u] = status[u]
  BY DEF status, Done, SaysCompleted, Answered
<1>2. status \in [Tasks -> {status[u] : u \in Tasks}] /\ status' \in [Tasks -> {status'[u] : u \in Tasks}]
  BY DEF status
<1> QED
  BY <1>1, <1>2

LEMMA SameStatus ==
  ASSUME UNCHANGED <<historyVars, finished, killed>>
  PROVE  UNCHANGED Service!vars
BY DEF historyVars, Service!vars, status, Done, SaysCompleted, Answered

\* The answer of the service, as the executor gives it.
LEMMA IsAnswer ==
  ASSUME NEW t \in Tasks, UNCHANGED <<result, run, killed>>,
         \A u \in Tasks : u # t => answers'[u] = answers[u] /\ finished'[u] = finished[u],
         status[t] = "pending", run[t] # "running" \/ killed,
         status'[t] = "cancelled" \/ (status'[t] = "completed" /\ run[t] = "ended")
  PROVE  Service!Answer(t)
<1>1. status' = [status EXCEPT ![t] = status'[t]]
  BY OneMoves
<1> QED
  BY <1>1 DEF Service!Answer

\* A thread that is about to run or deliver a task has the service's attention: the task
\* is pending, and runs only where that thread runs it.
LEMMA OwnedPends ==
  ASSUME BaseInv, OnceInv, ReleaseInv, ServeInv, NEW p \in Threads, Owns(p), pc[p] # "pushing",
         pc[p] \in {"popped", "executing", "executed", "completing"}
           \/ job[p] \notin WithCompletion
  PROVE  /\ job[p] \in Tasks /\ result[job[p]] = "handle" /\ status[job[p]] = "pending"
         /\ run[job[p]] = "running" => pc[p] = "executing"
<1>1. job[p] \in Tasks /\ result[job[p]] = "handle" /\ ~finished[job[p]]
  BY DEF BaseInv, PlaceInv, Busy, OnceInv, ResultInv, ServeInv
<1>2. job[p] \in WithCompletion => answers[job[p]] = <<>>
  BY DEF OnceInv, AnswerInv
<1>3. status[job[p]] = "pending"
  BY <1>1, <1>2 DEF status, Done, Answered
<1>4. ASSUME run[job[p]] = "running" PROVE pc[p] = "executing"
  <2>1. PICK w \in Workers : pc[w] = "executing" /\ job[w] = job[p]
    BY <1>1, <1>4 DEF ServeInv
  <2>2. w = p
    BY <2>1 DEF OnceInv, OwnerInv, ThreadOnce, Owns, Threads
  <2> QED
    BY <2>1, <2>2
<1> QED
  BY <1>1, <1>3, <1>4

LEMMA RefuseMaps ==
  ASSUME BaseInv, NEW c \in Callers, NEW t \in Tasks, SubmitRefused(c, t)
  PROVE  Service!Refuse(t)
<1>1. /\ result[t] = "none" /\ result' = [result EXCEPT ![t] = "refused"]
      /\ UNCHANGED <<run, answers, finished, killed>>
  BY DEF SubmitRefused, Unused, recordVars, uiVars
<1>2. result'[t] = "refused" /\ \A u \in Tasks : u # t => result'[u] = result[u]
  BY <1>1 DEF BaseInv, TypeOK
<1>3. status' = [status EXCEPT ![t] = status'[t]]
  BY <1>1, <1>2, OneMoves
<1>4. status[t] = "new" /\ status'[t] = "refused"
  BY <1>1, <1>2 DEF status
<1> QED
  BY <1>1, <1>3, <1>4 DEF Service!Refuse

LEMMA AcceptMaps ==
  ASSUME BaseInv, OnceInv, ServeInv, NEW c \in Callers, SubmitPush(c)
  PROVE  \E t \in Tasks : Service!Accept(t)
<1> DEFINE t == job[c]
<1>1. /\ UNCHANGED <<run, answers, finished, killed>>
      /\ result' = [result EXCEPT ![t] = "handle"]
  BY DEF SubmitPush, recordVars, uiVars
<1>2. t \in Tasks /\ c \in Threads /\ Owns(c) /\ pc[c] = "pushing"
  BY PushOwns DEF Threads
<1>3. result[t] = "none" /\ answers[t] = <<>> /\ ~finished[t]
  BY <1>2 DEF OnceInv, ResultInv, ServeInv
<1>4. result'[t] = "handle" /\ \A u \in Tasks : u # t => result'[u] = result[u]
  BY <1>1, <1>2 DEF BaseInv, TypeOK
<1>5. status[t] = "new" /\ status'[t] = "pending"
  BY <1>1, <1>2, <1>3, <1>4 DEF status, Done, Answered
<1>6. status' = [status EXCEPT ![t] = status'[t]]
  BY <1>1, <1>2, <1>4, OneMoves
<1> QED
  BY <1>1, <1>2, <1>5, <1>6 DEF Service!Accept

\* A step of an execution leaves the answers alone.
LEMMA RunMoves ==
  ASSUME BaseInv, NEW t \in Tasks, status[t] = "pending", NEW r, run' = [run EXCEPT ![t] = r],
         UNCHANGED <<result, answers, finished>>
  PROVE  status' = status
<1>1. \A u \in Tasks : u # t => run'[u] = run[u]
  BY DEF BaseInv, TypeOK
<1>2. status' = [status EXCEPT ![t] = status'[t]]
  BY <1>1, OneMoves
<1>3. status'[t] = status[t]
  BY DEF status, Done, Answered, SaysCompleted
<1> QED
  BY <1>2, <1>3 DEF status

LEMMA StartMaps ==
  ASSUME BaseInv, OnceInv, HonestInv, ReleaseInv, ServeInv, NEW w \in Workers, WorkerStart(w)
  PROVE  UNCHANGED Service!vars \/ \E t \in Tasks : Service!Begin(t)
<1>1. UNCHANGED <<result, answers, finished, killed>> /\ pc[w] = "popped" /\ w \in Threads
  BY DEF WorkerStart, recordVars, uiVars, Threads
<1>2. CASE run' = run
  BY <1>1, <1>2, SameStatus DEF historyVars
<1>3. CASE run' = [run EXCEPT ![job[w]] = "running"]
  <2>1. job[w] \in Tasks /\ status[job[w]] = "pending" /\ run[job[w]] = "no" /\ ~killed
    BY <1>1, OwnedPends DEF Owns, HonestInv, RunInv, OnceInv, ExitInv
  <2>2. status' = status
    BY <1>1, <1>3, <2>1, RunMoves
  <2> QED
    BY <1>1, <1>3, <2>1, <2>2 DEF Service!Begin
<1> QED
  BY <1>2, <1>3 DEF WorkerStart

LEMMA ExecuteMaps ==
  ASSUME BaseInv, OnceInv, ReleaseInv, ServeInv, NEW w \in Workers, WorkerExecute(w)
  PROVE  \E t \in Tasks : Service!End(t)
<1>1. /\ UNCHANGED <<result, answers, finished, killed>> /\ pc[w] = "executing" /\ w \in Threads
      /\ run' = [run EXCEPT ![job[w]] = "ended"]
  BY DEF WorkerExecute, recordVars, uiVars, Threads
<1>2. job[w] \in Tasks /\ status[job[w]] = "pending" /\ run[job[w]] = "running" /\ ~killed
  BY <1>1, OwnedPends DEF Owns, ServeInv, OnceInv, ExitInv
<1>3. status' = status
  BY <1>1, <1>2, RunMoves
<1> QED
  BY <1>1, <1>2, <1>3 DEF Service!End

LEMMA CompleteMaps ==
  ASSUME BaseInv, OnceInv, HonestInv, ReleaseInv, ServeInv, NEW p \in Workers \cup {UI}, Complete(p)
  PROVE  \E t \in Tasks : Service!Answer(t)
<1> DEFINE t == job[p]
<1>1. /\ UNCHANGED <<result, run, finished, killed>> /\ pc[p] = "completing" /\ p \in Threads
      /\ CallCompletion(t, flag[p])
  BY DEF Complete, recordVars, uiVars, Threads
<1>2. /\ t \in Tasks /\ result[t] = "handle" /\ status[t] = "pending" /\ run[t] # "running"
      /\ t \in WithCompletion
  BY <1>1, OwnedPends DEF Owns, ServeInv
<1>3. answers[t] = <<>> /\ Honest(t, flag[p]) /\ flag[p] \in BOOLEAN
  BY <1>1 DEF OnceInv, AnswerInv, HonestInv, BaseInv, TypeOK
<1>4. /\ answers'[t] # <<>> /\ answers'[t][1] = flag[p]
      /\ \A u \in Tasks : u # t => answers'[u] = answers[u]
  BY <1>1, <1>2, <1>3, FirstAnswer DEF BaseInv
<1>5. status'[t] = IF flag[p] THEN "cancelled" ELSE "completed"
  BY <1>1, <1>2, <1>3, <1>4 DEF status, Done, Answered, SaysCompleted
<1>6. flag[p] \/ run[t] = "ended"
  BY <1>3 DEF Honest
<1> QED
  BY <1>1, <1>2, <1>3, <1>4, <1>5, <1>6, IsAnswer

LEMMA FinishMaps ==
  ASSUME BaseInv, OnceInv, ReleaseInv, ServeInv, NEW p \in Workers \cup {UI}, Finish(p)
  PROVE  UNCHANGED Service!vars \/ \E t \in Tasks : Service!Answer(t)
<1> DEFINE t == job[p]
<1>1. /\ UNCHANGED <<result, run, answers, killed>> /\ pc[p] = "finishing" /\ p \in Threads
      /\ finished' = [finished EXCEPT ![t] = TRUE]
  BY DEF Finish, historyVars, uiVars, Threads
<1>2. t \in Tasks /\ Owns(p)
  BY <1>1 DEF Owns, Busy, BaseInv, PlaceInv
<1>3. finished'[t] /\ \A u \in Tasks : u # t => finished'[u] = finished[u]
  BY <1>1, <1>2 DEF BaseInv, TypeOK
<1>4. CASE t \in WithCompletion
  <2>1. \A u \in Tasks : u \in WithCompletion \/ finished'[u] = finished[u]
    BY <1>3, <1>4
  <2>2. status' = status
    BY <1>1, <2>1 DEF status, Done, Answered, SaysCompleted
  <2> QED
    BY <1>1, <2>2 DEF Service!vars
<1>5. CASE t \notin WithCompletion
  <2>1. result[t] = "handle" /\ status[t] = "pending" /\ run[t] # "running"
    BY <1>1, <1>2, <1>5, OwnedPends
  <2>2. status'[t] = IF run[t] = "ended" THEN "completed" ELSE "cancelled"
    BY <1>1, <1>2, <1>3, <1>5, <2>1 DEF status, Done, SaysCompleted
  <2> QED
    BY <1>1, <1>2, <1>3, <2>1, <2>2, IsAnswer
<1> QED
  BY <1>4, <1>5

LEMMA ReportMaps ==
  ASSUME BaseInv, OnceInv, ServeInv, NEW t \in remaining, ShutdownReport(t)
  PROVE  UNCHANGED Service!vars \/ Service!Answer(t)
<1>1. /\ UNCHANGED <<result, run, killed>> /\ pc[UI] = "swapped"
      /\ finished' = [finished EXCEPT ![t] = TRUE]
      /\ IF t \in WithCompletion THEN CallCompletion(t, TRUE) ELSE answers' = answers
  BY DEF ShutdownReport
<1>2. t \in Tasks /\ result[t] = "handle" /\ answers[t] = <<>>
  BY DEF OnceInv, ExitInv, BaseInv, TypeOK
<1>3. run[t] # "running"
  BY <1>1, <1>2, Quiet DEF ServeInv, Owns, Threads
<1>4. finished'[t] /\ \A u \in Tasks : u # t => finished'[u] = finished[u]
  BY <1>1, <1>2 DEF BaseInv, TypeOK
<1>5. CASE t \in WithCompletion
  <2>1. /\ answers'[t] # <<>> /\ answers'[t][1] = TRUE
        /\ \A u \in Tasks : u # t => answers'[u] = answers[u]
    BY <1>1, <1>2, <1>5, FirstAnswer DEF BaseInv
  <2>2. status[t] = "pending" /\ status'[t] = "cancelled"
    BY <1>1, <1>2, <1>5, <2>1 DEF status, Done, Answered, SaysCompleted
  <2> QED
    BY <1>1, <1>2, <1>3, <1>4, <2>1, <2>2, IsAnswer
<1>6. CASE t \notin WithCompletion /\ finished[t]
  <2>1. \A u \in Tasks : finished'[u] = finished[u]
    BY <1>4, <1>6 DEF BaseInv, TypeOK
  <2>2. status' = status
    BY <1>1, <1>6, <2>1 DEF status, Done, Answered, SaysCompleted
  <2> QED
    BY <1>1, <2>2 DEF Service!vars
<1>7. CASE t \notin WithCompletion /\ ~finished[t]
  <2>1. status[t] = "pending"
    BY <1>2, <1>7 DEF status, Done
  <2>2. status'[t] = IF run[t] = "ended" THEN "completed" ELSE "cancelled"
    BY <1>1, <1>2, <1>4, <1>7 DEF status, Done, SaysCompleted
  <2> QED
    BY <1>1, <1>2, <1>3, <1>4, <1>7, <2>1, <2>2, IsAnswer
<1> QED
  BY <1>5, <1>6, <1>7

\* Once the other threads are ended, what Shutdown reports is pending, or has its answer.
LEMMA EndedReportMaps ==
  ASSUME BaseInv, EndedInv, killed, NEW t \in remaining, ShutdownReport(t)
  PROVE  UNCHANGED Service!vars \/ Service!Answer(t)
<1>1. /\ UNCHANGED <<result, run, killed>> /\ t \in Tasks /\ result[t] = "handle"
      /\ finished' = [finished EXCEPT ![t] = TRUE] /\ answers[t] \in Seq(BOOLEAN)
      /\ IF t \in WithCompletion THEN CallCompletion(t, TRUE) ELSE answers' = answers
  BY DEF ShutdownReport, EndedInv, BaseInv, TypeOK
<1>2. finished'[t] /\ \A u \in Tasks : u # t => finished'[u] = finished[u]
  BY <1>1 DEF BaseInv, TypeOK
<1>3. CASE t \in WithCompletion /\ answers[t] = <<>>
  <2>1. /\ answers'[t] # <<>> /\ answers'[t][1] = TRUE
        /\ \A u \in Tasks : u # t => answers'[u] = answers[u]
    BY <1>1, <1>3, FirstAnswer DEF BaseInv
  <2>2. status[t] = "pending" /\ status'[t] = "cancelled"
    BY <1>1, <1>3, <2>1 DEF status, Done, Answered, SaysCompleted
  <2> QED
    BY <1>1, <1>2, <2>1, <2>2, IsAnswer
<1>4. CASE t \in WithCompletion /\ answers[t] # <<>>
  <2>1. Append(answers[t], TRUE) # <<>> /\ Append(answers[t], TRUE)[1] = answers[t][1]
    BY <1>1, <1>4, AppendTrue
  <2>2. answers'[t] = Append(answers[t], TRUE) /\ \A u \in Tasks : u # t => answers'[u] = answers[u]
    BY <1>1, <1>4 DEF CallCompletion, BaseInv, TypeOK
  <2>3. \A u \in Tasks : u # t => status'[u] = status[u]
    BY <1>1, <1>2, <2>2 DEF status, Done, Answered, SaysCompleted
  <2>4. status'[t] = status[t]
    BY <1>1, <1>4, <2>1, <2>2 DEF status, Done, Answered, SaysCompleted
  <2>5. status' = status
    BY <2>3, <2>4 DEF status
  <2> QED
    BY <1>1, <2>5 DEF Service!vars
<1>5. CASE t \notin WithCompletion /\ finished[t]
  <2>1. \A u \in Tasks : finished'[u] = finished[u]
    BY <1>2, <1>5 DEF BaseInv, TypeOK
  <2>2. status' = status
    BY <1>1, <1>5, <2>1 DEF status, Done, Answered, SaysCompleted
  <2> QED
    BY <1>1, <2>2 DEF Service!vars
<1>6. CASE t \notin WithCompletion /\ ~finished[t]
  <2>1. status[t] = "pending"
    BY <1>1, <1>6 DEF status, Done
  <2>2. status'[t] = IF run[t] = "ended" THEN "completed" ELSE "cancelled"
    BY <1>1, <1>2, <1>6 DEF status, Done, SaysCompleted
  <2> QED
    BY <1>1, <1>2, <1>6, <2>1, <2>2, IsAnswer
<1> QED
  BY <1>3, <1>4, <1>5, <1>6

LEMMA EndedMaps ==
  ASSUME BaseInv, EndedInv, killed, [Next]_vars
  PROVE  [Service!Next]_(Service!vars)
<1>1. CASE ShutdownNotify \/ ShutdownSwap
  BY <1>1, SameStatus DEF ShutdownNotify, ShutdownSwap, historyVars, recordVars, uiVars
<1>2. ASSUME NEW t \in remaining, ShutdownReport(t) PROVE [Service!Next]_(Service!vars)
  <2>1. t \in Tasks
    BY DEF BaseInv, TypeOK
  <2> QED
    BY <1>2, <2>1, EndedReportMaps DEF Service!Next
<1>3. CASE UNCHANGED vars
  BY <1>3, SameStatus DEF vars, recordVars, uiVars
<1> QED
  BY <1>1, <1>2, <1>3, EndedMoves

\* The end of the threads is the service's own step.
LEMMA StopMaps ==
  ASSUME BaseInv, ~killed, ShutdownStop
  PROVE  [Service!Next]_(Service!vars)
<1>1. UNCHANGED <<finished, result, run, answers>> /\ killed \in BOOLEAN /\ killed' \in BOOLEAN
  BY ExecutorAssumption DEF ShutdownStop, recordVars, historyVars, BaseInv, TypeOK
<1>2. UNCHANGED status
  BY <1>1 DEF status, Done, SaysCompleted, Answered
<1> QED
  BY <1>1, <1>2 DEF Service!Next, Service!ProcessEnds, Service!vars

LEMMA ServeInit == Init => ServeInv
<1> SUFFICES ASSUME Init PROVE ServeInv
  OBVIOUS
<1>1. \A p \in Threads : pc[p] \in {"check", "idle", "pump"}
  BY DEF Init, Home
<1>2. /\ queue = <<>> /\ msgs = {}
      /\ \A t \in Tasks : finished[t] = FALSE /\ run[t] = "no"
  BY DEF Init
<1> QED
  BY <1>1, <1>2 DEF ServeInv, Owns

LEMMA ServesInit == Init => Service!Init
BY DEF Init, Service!Init, status

LEMMA ServesStep ==
  ASSUME BaseInv, OnceInv, HonestInv, ReleaseInv, ServeInv, [Next]_vars
  PROVE  [Service!Next]_(Service!vars)
<1> USE DEF Service!Next, historyVars, recordVars, uiVars
<1>1. ASSUME NEW c \in Callers, NEW t \in Tasks, SubmitRefused(c, t) PROVE Service!Next
  BY <1>1, RefuseMaps
<1>2. ASSUME NEW c \in Callers, SubmitPush(c) PROVE Service!Next
  BY <1>2, AcceptMaps
<1>3. ASSUME NEW w \in Workers, WorkerStart(w) PROVE [Service!Next]_(Service!vars)
  BY <1>3, StartMaps
<1>4. ASSUME NEW w \in Workers, WorkerExecute(w) PROVE Service!Next
  BY <1>4, ExecuteMaps
<1>5. ASSUME NEW p \in Workers \cup {UI}, Complete(p) PROVE Service!Next
  BY <1>5, CompleteMaps
<1>6. ASSUME NEW p \in Workers \cup {UI}, Finish(p) PROVE [Service!Next]_(Service!vars)
  BY <1>6, FinishMaps
<1>7. ASSUME NEW t \in remaining, ShutdownReport(t) PROVE [Service!Next]_(Service!vars)
  <2>1. t \in Tasks
    BY DEF BaseInv, TypeOK
  <2> QED
    BY <1>7, <2>1, ReportMaps
<1>8. ASSUME NEW c \in Callers, NEW t \in Tasks, SubmitLock(c, t) PROVE UNCHANGED Service!vars
  BY <1>8, SameStatus DEF SubmitLock
<1>9. ASSUME NEW p \in Callers \cup {UI},
             Proceed(p) \/ \E t \in Tasks : Lookup(p, t, "cancelling") \/ Lookup(p, t, "waiting")
      PROVE  UNCHANGED Service!vars
  BY <1>9, SameStatus DEF Proceed, Lookup, CancelStore, WaitReturn
<1>10. ASSUME NEW w \in Workers,
              \/ WorkerBlock(w) \/ WorkerSleep(w) \/ WorkerSpurious(w) \/ WorkerExit(w)
              \/ WorkerPop(w) \/ WorkerPost(w) \/ WorkerInline(w)
       PROVE  UNCHANGED Service!vars
  BY <1>10, SameStatus
  DEF WorkerBlock, WorkerSleep, WorkerSpurious, WorkerExit, WorkerPop, WorkerPost, WorkerInline
<1>11. ASSUME NEW p \in Workers \cup {UI}, Erase(p) PROVE UNCHANGED Service!vars
  BY <1>11, SameStatus DEF Erase
<1>12. ASSUME NEW m \in msgs, UiDispatch(m) PROVE UNCHANGED Service!vars
  BY <1>12, SameStatus DEF UiDispatch
<1>13. CASE DestroyMainWindow \/ ShutdownNotify \/ ShutdownSwap
  BY <1>13, SameStatus DEF DestroyMainWindow, ShutdownNotify, ShutdownSwap
<1>14. CASE ShutdownStop
  BY <1>14, StopMaps DEF OnceInv, ExitInv
<1>15. CASE UNCHANGED vars
  BY <1>15, SameStatus DEF vars
<1> QED
  BY <1>1, <1>2, <1>3, <1>4, <1>5, <1>6, <1>7, <1>8, <1>9, <1>10, <1>11, <1>12, <1>13,
       <1>14, <1>15
  DEF Next, Submit, Ask, WorkerStep, UiDeliver, UiPump, Shutdown

\* Whoever hands tasks to LSPostTask sees the service of TaskService: each step of the
\* executor is a step of the service for one task, the end of the threads, or none.
THEOREM ExecutorServes == Spec => ImplementsService
<1> DEFINE Inv == TaskInv /\ (~killed => ServeInv)
<1>1. Init => Inv
  BY TaskInit, ServeInit
<1>2. Inv /\ [Next]_vars => Inv'
  <2> SUFFICES ASSUME Inv, [Next]_vars PROVE Inv'
    OBVIOUS
  <2>1. ASSUME ~killed' PROVE ServeInv'
    <3>1. ~killed
      BY <2>1, EndedStep DEF TaskInv
    <3> QED
      BY <3>1, ServeStep DEF TaskInv, AliveInv
  <2> QED
    BY <2>1, TaskStep
<1>3. Inv /\ [Next]_vars => [Service!Next]_(Service!vars)
  <2> SUFFICES ASSUME Inv, [Next]_vars PROVE [Service!Next]_(Service!vars)
    OBVIOUS
  <2>1. CASE killed
    BY <2>1, EndedMaps DEF TaskInv
  <2>2. CASE ~killed
    BY <2>2, ServesStep DEF TaskInv, AliveInv
  <2> QED
    BY <2>1, <2>2
<1> HIDE DEF Inv
<1> QED
  BY <1>1, <1>2, <1>3, ServesInit, PTL DEF Spec, ImplementsService, Service!Spec
=============================================================================
