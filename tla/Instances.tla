------------------------------ MODULE Instances ------------------------------
(***************************************************************************)
(* Launches of litestep.exe in one logon session: the command line, the     *)
(* loop of _tWinMain around the mutex "LiteStep", the shutdown of the       *)
(* instance that already runs, StartLitestep with the COM service's thread, *)
(* the recovery menu's commands and the startup runner.                     *)
(* (litestep/WinMain.cpp, litestep.cpp, COMService.cpp, RecoveryMenu.cpp,   *)
(* StartupRunner.cpp)                                                       *)
(*                                                                          *)
(* A named mutex exists while some process has a handle of it.  Deadlines   *)
(* may pass at any moment.  A sent message is answered while the thread of  *)
(* the window pumps and returns when the window is destroyed.               *)
(***************************************************************************)
EXTENDS Naturals

CONSTANTS
  Launches,      \* bound: how often litestep.exe is launched
  Commands,      \* bound: the start flags that the command line of each launch may
                 \* give (ParseCommandLine, safe mode)
  Requests,      \* what the user asks of a running instance: "quit", "explorer"
  MaxTurns,      \* bound: turns of _tWinMain's loop, of all processes
  None           \* no process

\* Processes are numbered in the order of their launch
Processes == 1..Launches
\* wStartFlags; what the !bang of a command line, if any, does to the instance that gets it
StartFlags == [lite : BOOLEAN, explorer : BOOLEAN, startup : BOOLEAN, force : BOOLEAN,
               bang : {"none", "dialog", "quit", "explorer"}]

ASSUME RequestsAssumption == Requests \subseteq {"quit", "explorer"}
ASSUME BoundsAssumption ==
  MaxTurns \in Nat /\ \A p \in Processes : Commands[p] \subseteq StartFlags

VARIABLES
  pc,            \* where the main thread of each process is
  flags,         \* wStartFlags, with the !bang of the command line
  turns,         \* turns of the loop begun
  ret,           \* nReturn: "explorer" is LRV_EXPLORER_START
  handles,       \* the processes with an open handle of the mutex
  windows,       \* the processes whose main window exists
  target,        \* hExisting of a process that closes another instance
  opened,        \* hExistingProcess is there: OpenProcess succeeded
  answered,      \* the message of the process has been answered
  posted,        \* LM_RECYCLE messages posted to the window of each process
  quit,          \* the WM_QUIT pending in the main thread's queue
  com,           \* the COM service's thread
  marked,        \* the session's key StartupHasBeenRun exists
  ran,           \* the startup entries have run in this session
  runners        \* the startup runner's threads

vars == <<pc, flags, turns, ret, handles, windows, target, opened, answered,
          posted, quit, com, marked, ran, runners>>

Asking == <<target, opened, answered>>
Serving == <<posted, quit>>
Session == <<marked, ran, runners, turns>>
Own == <<flags, ret>>

\* The main thread dispatches messages: in Start (modules are loaded), in Run
\* and in Stop up to the services (modules are unloaded)
Pumping == {"starting", "run", "stop"}
\* LiteStep runs in the process: StartLitestep has been called
Shell == {"start", "join", "leave"} \union Pumping
\* The process waits for the instance that runs
Waiting == {"check", "drop", "send", "sending", "find", "closing", "wait",
            "poll", "retry", "redrop"}

Places == {"unborn", "boot", "ended"} \union Waiting \union Shell

TypeOK ==
  /\ pc \in [Processes -> Places]
  /\ flags \in [Processes -> StartFlags] /\ turns \in 0..MaxTurns
  /\ ret \in [Processes -> {"none", "explorer"}]
  /\ handles \subseteq Processes /\ windows \subseteq Processes
  /\ target \in [Processes -> Processes \union {None}]
  /\ opened \in [Processes -> BOOLEAN] /\ answered \in [Processes -> BOOLEAN]
  /\ posted \in [Processes -> SUBSET {"dialog", "quit", "explorer"}]
  /\ quit \in [Processes -> {"no", "none", "explorer"}]
  /\ com \in [Processes -> {"none", "new", "queue", "quit"}]
  /\ marked \in BOOLEAN /\ ran \in BOOLEAN
  /\ runners \subseteq [of : Processes, turn : 1..MaxTurns, at : {"new", "go"}]

\* Of a process that has not been launched, or has ended
NoFlags == [lite |-> FALSE, explorer |-> FALSE, startup |-> FALSE,
            force |-> FALSE, bang |-> "none"]

Init ==
  /\ pc = [p \in Processes |-> "unborn"]
  /\ flags = [p \in Processes |-> NoFlags]
  /\ turns = 0
  /\ ret = [p \in Processes |-> "none"]
  /\ handles = {} /\ windows = {}
  /\ target = [p \in Processes |-> None]
  /\ opened = [p \in Processes |-> FALSE]
  /\ answered = [p \in Processes |-> FALSE]
  /\ posted = [p \in Processes |-> {}]
  /\ quit = [p \in Processes |-> "no"]
  /\ com = [p \in Processes |-> "none"]
  /\ marked = FALSE /\ ran = FALSE
  /\ runners = {}

Goes(p, place) == pc' = [pc EXCEPT ![p] = place]

\* A process ends, by itself or killed: the system closes its handles,
\* destroys its window and ends its threads
Ended(p) ==
  /\ flags' = [flags EXCEPT ![p] = NoFlags]
  /\ ret' = [ret EXCEPT ![p] = "none"]
  /\ handles' = handles \ {p}
  /\ windows' = windows \ {p}
  /\ posted' = [posted EXCEPT ![p] = {}]
  /\ quit' = [quit EXCEPT ![p] = "no"]
  /\ com' = [com EXCEPT ![p] = "none"]
  /\ runners' = {r \in runners : r.of # p}

Ends(p) == Goes(p, "ended") /\ Ended(p)

\* What Ended may change
Lives == <<Own, handles, windows, Serving, com, runners>>

-----------------------------------------------------------------------------
(* The command line and the loop of _tWinMain                               *)

\* A command line that begins with a !bang only sends it (WinMain.cpp:484)
Launch(p) ==
  /\ pc[p] = "unborn"
  /\ p > 1 => pc[p - 1] # "unborn"
  /\ \E command \in Commands[p] :
       /\ flags' = [flags EXCEPT ![p] = command]
       /\ Goes(p, IF command.bang = "none" THEN "boot" ELSE "send")
  /\ UNCHANGED <<ret, handles, windows, Asking, Serving, com, Session>>

\* The top of the loop: Explorer is started as the shell when that was asked
\* for.  When it starts LiteStep does not, and the loop is left; when it fails
\* LiteStep is tried, unless the command line said only Explorer.
Boot(p) ==
  /\ pc[p] = "boot"
  /\ turns < MaxTurns
  /\ \E started \in IF flags[p].explorer THEN BOOLEAN ELSE {FALSE} :
       IF started \/ ~flags[p].lite
       THEN Ends(p) /\ UNCHANGED turns
       ELSE /\ Goes(p, "check")
            /\ turns' = turns + 1
            /\ flags' = [flags EXCEPT ![p].explorer = FALSE]
            /\ UNCHANGED <<ret, handles, windows, Serving, com, runners>>
  /\ UNCHANGED <<Asking, marked, ran>>

\* IsOtherInstanceRunning as it would be if it looked for a window
OtherWindow(p) == windows # {}

\* IsOtherInstanceRunning: CreateMutex opens the mutex when it exists
IsOtherInstanceRunning(p) == handles # {}

\* The process opens the mutex: the first to do so starts LiteStep
OpensMutex(p, other) ==
  /\ Goes(p, IF IsOtherInstanceRunning(p) THEN other ELSE "start")
  /\ handles' = handles \union {p}
  /\ UNCHANGED <<Own, windows, Asking, Serving, com, Session>>

Check(p) == pc[p] = "check" /\ OpensMutex(p, "drop")
Retry(p) == pc[p] = "retry" /\ OpensMutex(p, "redrop")

\* The handle of another instance's mutex is closed at once
Drop(p) ==
  /\ pc[p] \in {"drop", "redrop"}
  /\ handles' = handles \ {p}
  /\ Goes(p, IF pc[p] = "drop" THEN "send" ELSE "retry")
  /\ UNCHANGED <<Own, windows, Asking, Serving, com, Session>>

-----------------------------------------------------------------------------
(* ForceShutdownExistingInstance                                            *)

\* What would be posted if SC_CLOSE were not !ShutDown
EffectOfBang(p) == flags[p].bang

\* What a message of p posts to the window that gets it: SC_CLOSE is the bang
\* !ShutDown (litestep.cpp:1112), which posts LM_RECYCLE with LR_MSSHUTDOWN
Effect(p) == IF flags[p].bang = "none" THEN "dialog" ELSE flags[p].bang

\* After the bang of a command line the process ends (HandleCommandLineBang)
BangSent(p) ==
  IF flags[p].bang = "none" THEN Goes(p, "find") /\ UNCHANGED Lives ELSE Ends(p)

\* SendCommandLineBang: the bang goes to whatever window FindWindow returns,
\* with a SendMessage that has no timeout
SendBang(p) ==
  /\ pc[p] = "send"
  /\ IF windows = {}
     THEN BangSent(p) /\ UNCHANGED target
     ELSE \E q \in windows :
            /\ Goes(p, "sending")
            /\ target' = [target EXCEPT ![p] = q]
            /\ UNCHANGED Lives
  /\ UNCHANGED <<opened, answered, marked, ran, turns>>

\* The bang has been answered, or its window is gone
BangReturns(p) ==
  /\ pc[p] = "sending"
  /\ answered[p] \/ target[p] \notin windows
  /\ BangSent(p)
  /\ target' = [target EXCEPT ![p] = None]
  /\ answered' = [answered EXCEPT ![p] = FALSE]
  /\ UNCHANGED <<opened, marked, ran, turns>>

\* The window is looked for again and its process opened; then SC_CLOSE is
\* sent to it
Find(p) ==
  /\ pc[p] = "find"
  /\ IF windows = {}
     THEN Goes(p, "poll") /\ UNCHANGED <<target, opened>>
     ELSE \E q \in windows, can \in BOOLEAN :
            /\ Goes(p, "closing")
            /\ target' = [target EXCEPT ![p] = q]
            /\ opened' = [opened EXCEPT ![p] = can]
  /\ UNCHANGED <<Own, handles, windows, answered, Serving, com, Session>>

\* SendMessageTimeout returns: answered, the window gone, or after two seconds.  A
\* message that was not answered in time may still be delivered when the window's
\* thread pumps again.
CloseReturns(p) ==
  /\ pc[p] = "closing"
  /\ Goes(p, IF opened[p] THEN "wait" ELSE "poll")
  /\ answered' = [answered EXCEPT ![p] = FALSE]
  /\ target' = [target EXCEPT ![p] = IF opened[p] THEN @ ELSE None]
  /\ \/ UNCHANGED posted
     \/ /\ ~answered[p] /\ target[p] \in windows
        /\ posted' = [posted EXCEPT ![target[p]] = @ \union {Effect(p)}]
  /\ UNCHANGED <<Own, handles, windows, opened, quit, com, Session>>

\* The other process has ended, or it is terminated after half of the timeout
Wait(p) ==
  /\ pc[p] = "wait"
  /\ LET q == target[p] IN
     IF pc[q] = "ended"
     THEN Goes(p, "poll") /\ UNCHANGED Lives
     ELSE pc' = [pc EXCEPT ![p] = "poll", ![q] = "ended"] /\ Ended(q)
  /\ target' = [target EXCEPT ![p] = None]
  /\ opened' = [opened EXCEPT ![p] = FALSE]
  /\ UNCHANGED <<answered, marked, ran, turns>>

\* No window is left: the mutex is tried for
Poll(p) ==
  /\ pc[p] = "poll"
  /\ windows = {}
  /\ Goes(p, "retry")
  /\ UNCHANGED <<Own, handles, windows, Asking, Serving, com, Session>>

\* What would have a deadline if only the polling for the window had one
ExpiresWhilePolling(p) == pc[p] = "poll" /\ windows # {}

\* The deadline passes while a window is there, or the mutex is another's
Expires(p) == (pc[p] = "poll" /\ windows # {}) \/ pc[p] = "retry"

\* The process says that it could not start and ends (LRV_NO_STEP)
GiveUp(p) ==
  /\ Expires(p)
  /\ Ends(p)
  /\ UNCHANGED <<Asking, marked, ran, turns>>

-----------------------------------------------------------------------------
(* StartLitestep                                                            *)

\* No step.rc, the LSAPI fails or the user aborts: no window was made
StartFails(p) ==
  /\ pc[p] = "start"
  /\ Goes(p, "leave")
  /\ ret' = [ret EXCEPT ![p] = "none"]
  /\ UNCHANGED <<flags, handles, windows, Asking, Serving, com, Session>>

\* CLiteStep::Start: the main window, then the services, the COM service's
\* thread among them
Start(p) ==
  /\ pc[p] = "start"
  /\ Goes(p, "starting")
  /\ windows' = windows \union {p}
  /\ com' = [com EXCEPT ![p] = "new"]
  /\ UNCHANGED <<Own, handles, Asking, Serving, Session>>

\* The managers fail: Start returns the error, and nothing is stopped
ManagersFail(p) ==
  /\ pc[p] = "starting"
  /\ Goes(p, "leave")
  /\ ret' = [ret EXCEPT ![p] = "none"]
  /\ UNCHANGED <<flags, handles, windows, Asking, Serving, com, Session>>

\* Everything has started; the startup runner gets its thread
Started(p) ==
  /\ pc[p] = "starting"
  /\ Goes(p, "run")
  /\ runners' = IF flags[p].startup
                THEN runners \union {[of |-> p, turn |-> turns, at |-> "new"]}
                ELSE runners
  /\ UNCHANGED <<Own, handles, windows, Asking, Serving, com, marked, ran, turns>>

\* WM_QUIT ends the main loop
RunReturns(p) ==
  /\ pc[p] = "run"
  /\ quit[p] # "no"
  /\ Goes(p, "stop")
  /\ ret' = [ret EXCEPT ![p] = quit[p]]
  /\ quit' = [quit EXCEPT ![p] = "no"]
  /\ UNCHANGED <<flags, handles, windows, Asking, posted, com, Session>>

\* COMService::Stop posts WM_QUIT, which is lost when the thread has no queue
\* yet, and joins the thread
Posts(p) == IF com[p] = "queue" THEN "quit" ELSE com[p]

\* The managers have stopped.  A WM_QUIT that came meanwhile stays in the
\* queue, unless the wait for the modules took it (PeekAllMsgs)
StopServices(p) ==
  /\ pc[p] = "stop"
  /\ Goes(p, "join")
  /\ com' = [com EXCEPT ![p] = Posts(p)]
  /\ quit' \in {quit, [quit EXCEPT ![p] = "no"]}
  /\ UNCHANGED <<Own, handles, windows, Asking, posted, Session>>

\* The COM thread got its WM_QUIT and has ended: the window is destroyed, its
\* messages with it
StopReturns(p) ==
  /\ pc[p] = "join"
  /\ com[p] = "quit"
  /\ Goes(p, "leave")
  /\ com' = [com EXCEPT ![p] = "none"]
  /\ windows' = windows \ {p}
  /\ posted' = [posted EXCEPT ![p] = {}]
  /\ UNCHANGED <<Own, handles, Asking, quit, Session>>

\* The mutex is released; after LR_EXPLORER the loop tries Explorer
Leave(p) ==
  /\ pc[p] = "leave"
  /\ IF ret[p] = "explorer"
     THEN /\ Goes(p, "boot")
          /\ flags' = [flags EXCEPT ![p].explorer = TRUE]
          /\ handles' = handles \ {p}
          /\ UNCHANGED <<ret, windows, Serving, com, runners>>
     ELSE Ends(p)
  /\ UNCHANGED <<Asking, marked, ran, turns>>

\* The COM service's thread gets its queue from CoInitializeEx
ComThread(p) ==
  /\ com[p] = "new"
  /\ com' = [com EXCEPT ![p] = "queue"]
  /\ UNCHANGED <<pc, Own, handles, windows, Asking, Serving, Session>>

-----------------------------------------------------------------------------
(* The window procedure and the recovery menu                               *)

Serve(p) ==
  LET q == target[p] IN
  /\ pc[p] \in {"sending", "closing"}
  /\ ~answered[p]
  /\ q \in windows /\ pc[q] \in Pumping
  /\ answered' = [answered EXCEPT ![p] = TRUE]
  /\ posted' = [posted EXCEPT ![q] = @ \union {Effect(p)}]
  /\ UNCHANGED <<pc, Own, handles, windows, target, opened, quit, com, Session>>

\* LM_RECYCLE: LR_MSSHUTDOWN shows the dialog of Windows, and LiteStep quits
\* after it only if Ctrl, Alt and Shift are held
Recycle(p) ==
  /\ pc[p] \in Pumping
  /\ \E what \in posted[p] :
       /\ posted' = [posted EXCEPT ![p] = @ \ {what}]
       /\ \E code \in CASE what = "dialog" -> {quit[p], "none"}
                        [] what = "quit" -> {"none"}
                        [] OTHER -> {"explorer"} :
            quit' = [quit EXCEPT ![p] = code]
  /\ UNCHANGED <<pc, Own, handles, windows, Asking, com, Session>>

\* The user asks for something: the recovery menu and the bangs post it.
\* Bound: one request at a time, of a thread that may still serve it.
Ask(p) ==
  /\ pc[p] \in Pumping /\ posted[p] = {} /\ quit[p] = "no"
  /\ \E what \in Requests : posted' = [posted EXCEPT ![p] = {what}]
  /\ UNCHANGED <<pc, Own, handles, windows, Asking, quit, com, Session>>

\* The recovery menu, which has a thread of its own, terminates the process
\* (from before the window is made until after it is gone; here, in between)
Terminate(p) ==
  /\ p \in windows
  /\ Ends(p)
  /\ UNCHANGED <<Asking, marked, ran, turns>>

-----------------------------------------------------------------------------
(* The startup runner                                                       *)

\* IsFirstRunThisSession as it would be if the entries were the mark
FirstRunByEntries == ~ran

\* IsFirstRunThisSession: the key is created, or was there
IsFirstRunThisSession == ~marked

RunnerChecks(r) ==
  /\ r \in runners /\ r.at = "new"
  /\ marked' = TRUE
  /\ runners' = (runners \ {r}) \union
                  (IF IsFirstRunThisSession \/ flags[r.of].force
                   THEN {[r EXCEPT !.at = "go"]} ELSE {})
  /\ UNCHANGED <<pc, Own, handles, windows, Asking, Serving, com, ran, turns>>

RunnerRuns(r) ==
  /\ r \in runners /\ r.at = "go"
  /\ ran' = TRUE
  /\ runners' = runners \ {r}
  /\ UNCHANGED <<pc, Own, handles, windows, Asking, Serving, com, marked, turns>>

-----------------------------------------------------------------------------
Steps(p) ==
  \/ Launch(p) \/ Boot(p) \/ Check(p) \/ Retry(p) \/ Drop(p)
  \/ SendBang(p) \/ BangReturns(p) \/ Find(p) \/ CloseReturns(p) \/ Wait(p)
  \/ Poll(p) \/ Start(p) \/ StartFails(p) \/ ManagersFail(p) \/ Started(p)
  \/ RunReturns(p) \/ StopServices(p) \/ StopReturns(p) \/ Leave(p)

Next ==
  \/ \E p \in Processes :
       \/ Steps(p) \/ GiveUp(p) \/ ComThread(p)
       \/ Serve(p) \/ Recycle(p) \/ Ask(p) \/ Terminate(p)
  \/ \E r \in runners : RunnerChecks(r) \/ RunnerRuns(r)

\* The scheduler runs the main thread of each process, or the one that serves
\* its message, and time passes: a deadline looked at again and again is reached
FairSpec ==
  /\ Init /\ [][Next]_vars
  /\ \A p \in Processes : WF_vars(Steps(p) \/ Serve(p)) /\ SF_vars(GiveUp(p))

-----------------------------------------------------------------------------
(* At most one process at a time runs LiteStep, whatever launches, closings *)
(* and terminations overlap, and each that does has the mutex open, so that *)
(* the next launch sees it: the existence test and the handles closed on    *)
(* every path (WinMain.cpp:116, 538, 611).                                  *)
OneShell ==
  /\ \A p, q \in Processes : pc[p] \in Shell /\ pc[q] \in Shell => p = q
  /\ \A p \in Processes : pc[p] \in Shell => p \in handles

(* A launch that finds LiteStep running becomes the shell or gives up: it   *)
(* never waits for ever (WinMain.cpp:273), unless the instance it talks to  *)
(* hangs in COMService::Stop, whose WM_QUIT was posted before the thread    *)
(* had a queue (COMService.cpp:99): the bang of line 263 has no timeout.    *)
Hangs(q) == pc[q] = "join" /\ com[q] \in {"new", "queue"}
Decides ==
  \A p \in Processes :
    []<>(pc[p] \notin Waiting \/ (pc[p] = "sending" /\ Hangs(target[p])))

(* The entries of Run, RunOnce and the startup folders run once in a        *)
(* session: a runner that was not told to force them decides to only if     *)
(* none has run them or decided to, however instances and their runner      *)
(* threads overlap or die (StartupRunner.cpp:72, 290).                      *)
OncePerSession ==
  [][\A r \in runners :
       (r.at = "new" /\ ~flags[r.of].force /\ [r EXCEPT !.at = "go"] \in runners')
         => ~ran /\ \A s \in runners : s.at = "new"]_vars

(* "automatic shutdown of previous instances" (README.md:64), "requesting   *)
(* graceful shutdown" (WinMain.cpp:290): an instance that handles the       *)
(* request of a new one to make way quits.                                  *)
QuitsWhenAsked ==
  [][\A q \in windows' :
       pc[q] \in {"starting", "run"} /\ "dialog" \in posted[q] \ posted'[q]
         => quit'[q] # "no"]_vars
=============================================================================
