# LiteStep TNG: verification project

TLA+ modules about the LiteStep TNG shell (`litestep/`), its module API
(`lsapi/`) and the modules shipped with it (`modules/`), the TLC runs that check
them on small instances, and TLAPS proofs about the core. Line numbers refer to
the sources; `PROJECT.json` maps every definition to its lines.

## 1. The system

LiteStep replaces the Windows shell. The process runs

* the **UI thread**: `WinMain` -> `CLiteStep::Start/Run/Stop`, a window message
  pump that owns the main window, loads the configuration, starts *services*
  (tray, DDE, COM, fullscreen monitor, Explorer) and *managers* (messages, data,
  modules), and answers the `LM_*` messages of the modules;
* **module threads**: a module is a DLL whose `initModuleW/quitModule` run on the
  UI thread, or on a thread of its own that pumps messages;
* **service threads**: fullscreen monitor, COM service, recovery menu;
* a **pool of workers** that execute tasks posted through the LSAPI.

They meet in shared tables (settings, bangs, modules, message handlers, tasks)
and in the message queues of the threads. A *recycle* stops all modules, reloads
the settings and starts everything again, while the other threads run.

### Components

| Component | State | Operations | What is hard | What makes it correct |
|---|---|---|---|---|
| Task executor (`lsapi/TaskExecutor.cpp`) | `m_queue`, `m_tasks`, `m_stopping`, task records | Submit, Cancel, Wait, WorkerLoop, completion by window message or inline, Shutdown | atomic flag outside the mutex; completions that outlive the window; process exit | every accepted task is answered exactly once, truthfully, and its waiters are released |
| Fullscreen monitor (`litestep/FullscreenMonitor.cpp`) | list of fullscreen windows, multiset of monitors with hidden modules, `m_bRun`, `m_bReHide` | polling loop, Recycle, Stop | windows change between polls; two windows on one monitor | modules are hidden exactly on the monitors that have a known fullscreen window |
| Module manager and module (`litestep/ModuleManager.cpp`, `Module.cpp`) | module queue, per-module thread, events | load, unload, reload, quit all, wait while pumping | messages dispatched while waiting for a thread's end; nested loads and unloads | a module is initialised and quit once, and is not used after its end |
| Shell loop (`litestep/litestep.cpp`) | recycle block, exit signal, pending display change | Run, PeekAllMsgs, recycle, display changes, Stop | nested pumps, WM_QUIT seen in a nested pump, a recycle requested while recycling | no change is lost; the shell ends when told so |
| Bangs (`lsapi/BangManager.cpp`, `BangCommand.cpp`) | table name -> bang, reference counts | add, remove, clear, execute on the owner's thread | execution is posted to another thread by name and resolved later | a callback runs on the thread that registered it, and never after its removal |
| Message manager (`litestep/MessageManager.cpp`) | message -> set of windows | add, remove, send, post | handlers register and unregister during a send | a registered window gets each message once |
| Data store (`litestep/DataStore.cpp`) | ident -> data | store, release | data handed over between two generations of a module | what was stored is released once |
| Settings (`lsapi/settingsmanager.cpp`, `SettingsFileParser.cpp`, `SettingsIterator.cpp`) | multimap of settings, iterators | parse, get, set, iterate, reload | conditionals, includes, expansion that refers to itself; reload under readers | the value read is the one the files define |
| Expressions and patterns (`lsapi/Math*.cpp`, `match.cpp`) | pure | evaluate, match | precedence, coercion, backtracking | agrees with the documented language |
| Tray service (`litestep/TrayService.cpp`, `TrayNotifyIcon.cpp`) | icons, app bars, work area | icon messages, app bar messages, work-area update | notification during enumeration; dead windows; several bars per edge | bars do not overlap; work area excludes them; icons mirror the applications |
| COM service (`litestep/COMService.cpp`) | thread id, thread | Start, Stop | thread id published late | Stop ends the thread |
| Recovery menu (`litestep/RecoveryMenu.cpp`) | own thread and window | Start, Stop, commands | message lost before the queue exists; TerminateThread | Stop returns |
| Start and restart (`litestep/WinMain.cpp`) | mutex, exit codes | single instance, forced shutdown of the other, restart loop | GetTickCount wrap, the instance that does not go | at most one shell |
| DDE (`litestep/DDE*.cpp`), Explorer service, task-bar list, wallpaper | conversation, registry, COM interface | start, stop, calls | foreign processes | mostly system calls |
| Startup runner (`litestep/StartupRunner.cpp`) | registry keys | run once per session | who deletes RunOnce entries | each entry started once |
| Theme engine v2 (`litestep/themev2/`) | source files, tokens, tree | lex, parse, resolve, emit | include cycles, cascade | the emitted settings are the cascade's |
| Modules (`modules/*`) | windows, settings, painters | events of their windows | layout, icons, lists, timers | see the plan |

### Interaction

* Module -> shell: `SendMessage/PostMessage(GetLitestepWnd(), LM_*)`; shell ->
  module: registered messages through the message manager.
* Any thread -> owner of a bang: `PostThreadMessage(LM_THREAD_BANGCOMMAND)`.
* Worker -> UI thread: `PostMessage(LM_ASYNCTASKCOMPLETE)`.
* UI thread -> module thread: events and `PostThreadMessage(WM_DESTROY)`, with a
  message pump while it waits.
* UI thread <-> service threads: atomic flags and joins.

## 2. Modules and the code they model

| Module | Models | Extended or used by |
|---|---|---|
| `TaskService` | what the task executor promises: a task is accepted or refused, answered once, truthfully, and then never changes | `TaskExecutor` implements it: `MCTaskExecutor` (TLC), `TaskExecutorProofs` (TLAPS) |
| `TaskExecutor` | `lsapi/TaskExecutor.cpp`, and the UI thread's part in it | `MCTaskExecutor` (TLC), `TaskExecutorProofs` (TLAPS) |
| `FullscreenMonitor` | `litestep/FullscreenMonitor.cpp`, the bangs and messages it posts, and the parts of a recycle that touch it | `MCFullscreenMonitor` (TLC), `FullscreenProofs` (TLAPS) |
| `ModuleLifecycle` | `litestep/ModuleManager.cpp`, `Module.cpp`, and the requests of `litestep.cpp` that call them | `MCModuleLifecycle` (TLC), `ModuleProofs` (TLAPS) |
| `ShellLoop` | `CLiteStep` in `litestep/litestep.cpp`: the message loops, quitting, recycling, display changes | `MCShellLoop` (TLC), `ShellLoopProofs` (TLAPS) |
| `AppBars` | the app bars and the work area in `litestep/TrayService.cpp` | `MCAppBars` (TLC), `AppBarsProofs` (TLAPS) |
| `Bangs` | `lsapi/BangManager.cpp`, `BangCommand.cpp`, the message loops and the recycle as far as they carry bangs | `MCBangs` (TLC), `BangsProofs` (TLAPS) |
| `TrayIcons` | the notification icons of `litestep/TrayService.cpp` and `TrayNotifyIcon.cpp`, composed with `litestep/MessageManager.cpp` and the list of the module `modules/SysTray` | `MCTrayIcons` (TLC), `TrayIconsProofs` (TLAPS) |
| `Instances` | `litestep/WinMain.cpp`, composed with start, run and stop of `CLiteStep`, the thread of `COMService.cpp`, the commands of `RecoveryMenu.cpp` and `StartupRunner.cpp` | `MCInstances` (TLC), `InstancesProofs` (TLAPS) |

`ModuleLifecycle`, `ShellLoop` and `Bangs` are three views of the same recycle: the
first keeps the modules and the call stack, the second the message loops and what
is asked of them, the third the table of bangs and the threads that use it.

The MC modules only give names to constants' values. Operators under a heading
"slips" (and `...Only`, `...Always` variants marked as mutants) are plausible
mistakes in a definition; putting one in the place of the definition makes a run
fail, which shows that the property listed with it in `PROJECT.json` can be broken.
No specification uses them.

### TaskExecutor

One `pc` per thread (workers, module threads, UI thread) and the executor's
fields. A section under `m_mutex` is one step. The atomic `m_stopping` is stored
without the mutex, so the two places where it can change inside a section are
split and `mutex` is held between the halves: `Submit` between its two tests and
the push (`SubmitLock`, `SubmitPush`), and the worker between the evaluation of
the wait's predicate and its sleep (`WorkerBlock`, `WorkerSleep`).

| Code | Actions |
|---|---|
| `Submit` | `SubmitRefused`, `SubmitLock`, `SubmitPush` (with `NotifyOne`) |
| `Cancel`, `Wait` | `Lookup`, then `CancelStore` or `WaitReturn` |
| `WorkerLoop` | `WorkerBlock/Sleep/Spurious/Exit/Pop/Start/Execute` |
| `EnqueueCompletion` | `WorkerPost` or `WorkerInline` (no memory, no window, full queue) |
| `LM_ASYNCTASKCOMPLETE`, `ProcessCompletionPayload` | `UiDispatch`, `Complete` |
| `FinalizeTask` | `Erase`, `Finish` |
| end of `CLiteStep::Stop`, then `Shutdown` | `DestroyMainWindow`; `ShutdownStop/Notify/Swap/Report` |

`Shutdown` runs in the destructor of a global object in a DLL, when the process
exits. The system may have ended the other threads by then; the constant
`KillsThreads` says whether that can happen, and the end of a thread at any of
its steps is then one of the behaviours. `run`, `result` and `answers` are
history: what the callers have seen.

### FullscreenMonitor

`known` is the list `fullscreenWindows`, `hidden` the multiset `hiddenMonitors` as a
function to counts (with `erase(key)` removing all), `pos` the iterator. Windows become
and cease to be fullscreen, and the foreground changes, between any two steps of the
thread (`WindowChanges`, `ForegroundChanges`). The thread enumerates (`EnumerateOne`,
`HideFound`), then loops: `Poll`, one `VerifyOne` per listed window, `VerifyDone`, and
`ShellInFront` (one message per element of the multiset) or `OtherInFront`. What it
sends is put in the UI thread's `queue` and takes effect at `Dispatch`. A recycle is
three steps, because the modules are gone when the service is recycled: `Unload`,
`Recycle`, `Load`. `Stop` clears `m_bRun` and joins. `covered` and `invisible` are what
the modules have been told and what the bangs have done.

### ModuleLifecycle

`stack` is the call stack of the UI thread, in frames of `_StartModules`,
`_QuitModules`, `QuitModule`, a load, a recycle and `Stop`. A frame that waits
dispatches messages, so `Nested` puts another request's calls on top of it; so does a
call of `initModule` or `quitModule`, which may send requests, and so does the message
that says that a DLL could not be loaded, which has a loop of its own (`LoadFails`,
`InMessage`). Which requests may arrive where are constants (`WhileIdle`,
`WhileWaiting`, `WhileInit`, `WhileQuit`); a reload by path is threaded if its `lParam`
says so. The frames work on one `m_ModuleQueue`. `mod` keeps each `Module` object with
its thread: the init event, the taken handle, `WM_DESTROY` posted to it, and whether the
thread has a message queue (the system makes one at the thread's first message call; a
post before that fails). Where `_QuitModules` holds an iterator to an erased element the
code's behaviour is undefined; the model lets it stop there. `Careless` decides whether
requests may concern modules that are being started or unloaded at that moment, whether
a recycle may be asked for while modules are being unloaded or initialised or a failed
load is reported, and whether something may be loaded while `_QuitModules` still goes
through the queue. The runs that claim safety assume polite callers (`Careless =
FALSE`), the run for the finding does not.

### ShellLoop

`at` is where `Run` is, `recycles` the calls of `_Recycle` on the stack with the
phase they are in. `PeekMessage` is a turn of `PeekAllMsgs` inside a wait: it
handles any message and, when it meets `WM_QUIT`, sets `m_bSignalExit`.
`CheckSignalExit` is the end of `Run`'s body, which posts the quit again. Sent
messages (`WM_DISPLAYCHANGE`) are dispatched inside `GetMessage` and
`PeekMessage`, before posted ones (`HandleDisplayChange`). `display` counts
changes and `built` is the count the modules found when they were last loaded.

### AppBars

`bars` is `m_abVector`. Rectangles are real ones, on a monitor of `Size` by `Size`, and
`NormalRect` is `modifyNormalBar` with its fold over the older and newer bars. A bar's
messages are sent messages: they are dispatched in the pump and also whenever the
service's own `SendMessage` to a bar waits (`Dispatching`). `ABP_NOTIFYPOSCHANGED` is
posted; its handler keeps a copy of the vector, with pointers: `loop.gone` are the bars
deleted since, and what the loop reads from them is any value. `area` is the system's
work area, `cur` and `def` the service's two copies, `sent` the changes of other
programs not yet dispatched. `m_uWorkAreaDirty` has no variable: the service's own
`WM_SETTINGCHANGE` goes to a window of the same thread, which handles it before
`SystemParametersInfo` and `SendNotifyMessage` return, so the flag is always spent by
then. Three ghosts name what the properties exclude: `astray` (bars placed behind newer
ones, and bars that keep their place when another that was still to make way has left,
or when one has turned to another edge, without a notification, see section 5),
`unadjusted` (monitors for which a bar changed what is left without a notification: it
died, left for another monitor, or was turned to another edge in the same rectangle, by
`ABM_SETPOS`, `LeftAlone`, or by `ABM_SETAUTOHIDEBAR`, `Turns`) and `external` (what
another program set last).

`NoneFacing`: bars are put at edges that do not face each other. This holds of the run.
Otherwise nothing keeps `BarsDisjoint` true: `modifyNormalBar` lets a bar at the left or the right
yield to those at the top and the bottom, and every bar to older ones of its own edge, but none to
those at the opposite edge, and a monitor need not be broad enough for both rows.

### Bangs

A `Bang` has an owner, whose thread runs its callback (`Home`), and a reference
count. A section under `m_cs` is one step. `table` is the map, `bang` every object
that was made, `stack` the calls of `ExecuteBangCommand` per thread: a frame is
`"found"` after the lookup, which takes a reference, and `"calling"` inside the
callback, which may execute, add and remove bangs in turn.

| Code | Actions |
|---|---|
| `AddBangCommand`, `RemoveBangCommand` | the same |
| `ParseBangCommand` -> `ExecuteBangCommand` | `ParseBangCommand`, then `Execute`, `Return` |
| `Bang::Execute` on the wrong thread | `Execute` posts the name (`Posted`), or the post fails |
| `LM_THREAD_BANGCOMMAND` | `Dispatch`, which looks the name up again |
| `!Alert`, `!Confirm`, any modal loop in a callback | `DropInModal`: the loop drops thread messages |
| a module's thread | `InitReturns`, `ThreadQuits`, `QuitReturns`, `ThreadEnds` |
| `_Recycle`, `LSAPIReloadBangs` | `UnloadBegins`, `ClearBangCommands`, `SetupBangs`, `LoadModules` |

The recycle may be dispatched inside a callback, of LiteStep's own or of a module
(`base`): `_Recycle` looks only whether another recycle is running (litestep.cpp:1789),
and any modal loop dispatches `LM_RECYCLE`. The frames beneath it are marked (`under`, a
ghost). Modules remove in `quitModule` the names they registered, whosever bang the name
stands for by then. `call` is history: what became of each command.

### TrayIcons

`icons` is `m_siVector`, `registered` the message manager's set for `LM_SYSTRAY`,
`shown` the list of each system tray module. `stack` has the calls of
`TrayService::notify`, each over a copy of the set (`todo`). A listener of the main
thread handles a message in the same step; one with its own thread gets it in
`inbox`, and while the main thread waits for the answer (`Waits`), further
notifications of other programs and `LM_SYSTRAYREADY` are dispatched on top.
`deleteIcon` and `SendSystemTray` hold an iterator into the vector across these calls
(`it`); notifications that would change the vector then are undefined behaviour and
left out (`Iterates`). An icon has its window, GUID, handle, state (shown, hidden,
shared) and version; the uID is one. A program's call returns before it makes the
next. Windows die and leave their icons, which `removeDeadIcons` drops silently and
a tray drops when the mouse moves over them.

A program adds an icon under one identity: with one window go one GUID or none, and
other programs use other GUIDs (`TrayAssumption`), so a program that comes back with its
GUID under a new window, while its old icon is still there, is left out. A program may
refer to its icon by the window alone (`Aliases`).

`ThreadedLast`: a tray with a thread of its own comes last in the order of windows. This
holds of the run, and with one tray or trays on the main thread only it always does.
Nothing in the code sees to it otherwise: the set is ordered by handle. In the other
order `ShowsWhatIsThere` is false, and TLC finds the behaviour when the two trays of the
run change places: the main thread waits for the tray with a thread, a notification
dispatched meanwhile is sent to both, and the other one gets the outer message last. Also
assumed: no window handle is given out again after its icon was dropped silently.

### Instances

`pc` is where the main thread of each `litestep.exe` is: in the loop of `_tWinMain`,
in `ForceShutdownExistingInstance`, or in `StartLitestep`. The named mutex exists
while a process has a handle (`handles`); `windows` are the processes with a main
window. A `SendMessage` to another process is answered (`Serve`) while that thread
pumps; an `SC_CLOSE` not answered in time may still be handled by the old instance later
(`CloseReturns`). The end of a process, its own or by `TerminateProcess`, closes its handles and
ends its threads. `com` is the COM service's thread: it has no message queue before
`CoInitializeEx`, and a `WM_QUIT` posted earlier is lost. `marked` is the registry key
of the session, `runners` the startup runner's threads. A second request to quit that
arrives during `Stop` stays in the queue and ends the next `StartLitestep` of the same
process at once, as in the code.

Starting Explorer, with the changes of `system.ini` around it, is one step; so are the
startup entries. One logon session is modelled.

## 3. Runs

Each run answers one question about one module. `expect: pass` means that TLC
finishes without an error; `violation` that it finds the behaviour a finding
describes. Deadlock is not reported: these systems may stop (the shell ends, the
bounds of an environment are used up), and what must go on is stated as liveness.

| Run | Question | Bounds, and why they suffice |
|---|---|---|
| `task` | Is an answer ever lost, repeated or false? Does the executor implement `TaskService`? Do tasks, waits and `Shutdown` come to an end? | 2 workers, 1 module thread, the UI thread, 2 tasks (one with completionProc, one the UI thread waits for), threads may be killed; 133 000 states. Every race in the code is between two threads about one task, or between a second task and the sleep of the worker that should take it. |
| `fullscreen` | Do list, multiset and what the modules are told agree? Do the modules come back, and are they hidden again after a recycle? Does `Stop` return? | 2 windows on 2 monitors: one moves between them, the other comes and goes on the first, so that both are on one monitor, on one each, or on none; 477 000 states. The thread does not begin a poll while more than `MaxPosted` messages wait: behaviours in which the UI thread falls behind by more than a poll are left out, and they differ only in how long the queue is. |
| `module` | Is a module used after its end, quit twice, or a DLL initialised twice? Do recycle and `Stop` leave nothing behind? Does every wait end? | A threaded and a plain module, requests from the message loop, wait loops, messages about failed loads, `initModule` (a threaded reload among them) and `quitModule`, threads with and without a message queue; 5 `Module` objects and 5 frames: a reload inside a load inside the wait of another; 220 000 states. The safety properties are proved for any number of paths, objects and frames. |
| `shell_loop` | Is a request to quit, or a display change, forgotten? | 3 requests and 2 display changes: a change during the recycle of another, and a quit during either. |
| `appbars` | Are bars apart, and is the work area what they leave, once everybody has answered? Do they get there? | 2 windows, 2 monitors, 3 places, 3 moves, 1 event (a second registration, a removal, a death, an autohide request or a foreign work area). Tried with 4 moves (1.07 million states), with the same result; `BarsDisjoint` and `AreaFollowsBars` are proved for any number. |
| `bangs` | Does a `Bang` live as long as it is used? Does a callback run after its module's end? Is a command forgotten? | A plain and a threaded module, then another threaded one after a recycle, a worker, two names, of which LiteStep itself has one; 2 registrations and 2 calls: a call that is posted, and one inside its callback or against its replacement; 161 000 states. |
| `tray_icons` | Does every tray show what is there? | A tray on the main thread and one on its own, two programs of which one uses a GUID (and its window), 3 notifications: one inside another, after a third; 1.1 million states. |
| `instances` | Is there one shell? Do the startup entries run once? Does every launch decide? | 2 launches with two command lines each (plain, safe mode; plain, forced startup, a bang), 3 turns of the loop, LR_EXPLORER as the user's request; 621 000 states. A third launch meets nothing that the second does not: `OneShell` is proved for any number. |
| `fullscreen_two_on_one`, `module_quit_again`, `appbars_default`, `instances_close` | the findings | as small as the finding allows |

### Fairness

* The UI thread, the workers, the polling thread and the threads of modules run (weak
  fairness of each one's steps): nothing in the code suspends them, and the callbacks of
  modules are assumed to return, and the user closes messages. For `m_mutex` it is
  strong fairness: a thread that keeps asking for the lock gets it, which Windows does
  not promise for an `std::mutex`, but which holds as long as sections are short and few
  threads compete.
* What users, modules and other programs do is never fair. Nobody has to
  submit, quit, recycle or move a window.
* `ShellLoop` assumes that further messages come (`OtherMessage`): `GetMessage`
  sleeps while there is none, and the loop looks at `m_bSignalExit` only after a
  message. A shell gets timers and shell hooks all the time.
* `Bangs`: each thread goes on (`Proceeds`), callbacks and `quitModule` return, the
  recycle proceeds. Nobody has to execute a bang.
* `Instances`: each main thread makes its next step, or the thread it has sent a
  message to serves it, weakly fair. `GiveUp` is strongly fair: the loops that poll
  for the window and the mutex look at the clock in each turn, so a deadline that
  they look at again and again is reached. Everything else (users, recovery menu,
  the COM thread, the dispatch of what was posted) is not fair.
* `AppBars` assumes that an application answers `ABN_POSCHANGED` by asking for its
  place again, as the protocol of app bars demands. Users move bars a finite
  number of times.

## 4. Proofs

`TaskExecutorProofs`, about every pool, every set of callers and tasks, under
`ExecutorAssumption` only (the sets of threads are apart, there is a worker, ...):

* `TypeCorrect`: `Spec => []TypeOK`.
* `ShutdownDrains`: `Spec => []ShutdownDrainsQueue`. A worker that exits has seen
  `m_stopping` and an empty queue, without any lock around the store of the
  flag; that nothing is pushed later needs the second test in `Submit`.
* `AnsweredOnce`: `Spec => []CompletionAtMostOnce`, whether or not the exiting process
  ends its threads.

None of these is inductive. The first two follow from
`BaseInv == TypeOK /\ PlaceInv /\ MutexInv /\ DrainInv`: each thread stays at
places of its own code and has a task where it dereferences one (`PlaceInv`);
who is between the halves of a section holds `m_mutex` (`MutexInv`), so that no
worker can find the queue empty and exit while a caller is about to push; and a
worker that has exited implies the flag (`DrainInv`), so that `Submit` refuses
from then on.

`AnsweredOnce` needs `OnceInv == OwnerInv /\ ResultInv /\ AnswerInv /\ ExitInv` as long as
the threads live.
A task is in one place only: the queue, a thread, or a posted payload
(`OwnerInv`). What has not been pushed is nowhere (`ResultInv`); that keeps a
second push out. A task in any of these places has not been answered, one that
has been is out of `m_tasks` unless its thread is just about to erase it
(`AnswerInv`), and when `Shutdown` takes the rest, all workers have exited and the
payloads went with the window (`ExitInv`), so the rest has no other owner.

The last part is where the argument breaks once the exiting process has ended its threads
(`killed`), and `EndedInv` takes its place. Only `ShutdownStop` makes `killed` true
(`EndedBy`), and after it only `Shutdown` moves (`EndedMoves`), so what `OnceInv`,
`HonestInv` and `ReleaseInv` say at that moment (`EndedBegins`) is all that is left to use:
an accepted task has been answered, or `Shutdown` has it before it. One of those
may have had its one answer, from a worker that was cut short before `FinalizeTask`
(`CutShort`): it gets a second one and is then out of the list. That is the exception
`CompletionAtMostOnce` makes. `TaskInv` is the one invariant or the other, and all the
theorems below rest on it.

Each conjunct has a lemma with one step per action (`TypeStep`, `PlaceStep`,
`MutexStep`, `DrainStep`, `QueueOnceStep`, ...), and the lemmas before them say
once what the actions with several outcomes do to the threads' places and the
answers. The theorems combine them by PTL.

The same module goes on from there:

* `AnsweredHonestly`: `Spec => []HonestAnswer`. A task that is not pushed, or still
  queued, has not run, and the worker that pops it is its only owner (`RunInv`). So the
  execution is over when that worker reads the flag again, and what it read stays true
  in a payload and in the hands of whoever delivers it (`HonestInv`): `Cancel` only sets
  flags, and nobody runs the task again.
* `WaitedIsAnswered`: `Spec => []WaitMeansAnswered`, and
  `ShutdownAnswers`: `Spec => []ShutdownAnswersAll`. An accepted task is in `m_tasks` or in
  the list of `Shutdown` until it has been answered, and is released after that
  (`ReleaseInv`): the only way out of `m_tasks` before the answer is into that list, and
  then no living worker is left to be in the middle of `FinalizeTask`.

and, last in it, the refinement:

* `ExecutorServes`: `Spec => ImplementsService`, the refinement
  for every pool and every set of callers and tasks. `ServeInv` adds to the invariants
  what the mapped state needs: who owns a task finds it unreleased, a running task has the
  one worker that runs it, and what is delivered has a completionProc. A thread that
  is about to run or deliver a task then has a pending one (`OwnedPends`), and
  `RefuseMaps`, `AcceptMaps`, `StartMaps`, `ExecuteMaps`, `CompleteMaps`, `FinishMaps` and
  `ReportMaps` take each visible step to a step of the service for one task
  (`OneMoves`); the others leave it as it is (`SameStatus`). The end of the threads is the
  service's own step (`StopMaps`), and what `Shutdown` reports after it is pending or
  keeps the answer it has (`EndedReportMaps`).

`InstancesProofs`, about any number of launches, any command lines, requests and
turns, without assumptions beyond the module's:

* `OneShellHolds`: `FairSpec => []OneShell`, at most one process runs LiteStep, and it has
  the mutex open. `OneShell` is inductive with the type of `pc` (`Inv`). A process
  comes to `"start"` only by `OpensMutex` with no handle open, so no process is in
  `Shell` then (`Opening`); a handle goes when its process ends (`Ending`), when it
  found another's mutex, or when it leaves the shell, and each of these is outside
  `Shell` afterwards (`StepPreserves`). `TerminateProcess` takes the victim's place and
  handle in one step (`Waited`).
* `StartupOnce`: `FairSpec => OncePerSession`, a runner that is not forced lets the startup
  entries go only if none has in this session. `RunnerInv` says that a process makes one
  runner in a turn of its loop and comes back to where it makes the next only with the next
  turn (`Before`), so a runner is told from its successor; and that whatever ran, or is
  about to, has marked the session. Steps that make no runner go preserve it by `Fewer`;
  `ChecksOnce` is the check, which creates the key and reads whether it was there in one
  step.
* `Typing`: `FairSpec => []TypeOK`. A runner belongs to a turn that has been made, so
  the invariant says besides the types who has begun one (`turns > 0`). This theorem
  alone uses `BoundsAssumption`.

`FullscreenProofs`, about any windows and monitors and any moves of the windows:

* `HiddenHasReason`: `Spec => []HiddenForAReason`, a monitor counts at most as often in
  `hiddenMonitors` as there are known windows on it. It needs that a window is in the list
  once (`KnownInv`), though it comes there by enumeration and again as the foreground
  window: while the walk has not said `checked`, the foreground window is not among the
  entries before `pos`, so at the end it is not in the list. That the walk erases all of a
  monitor's elements, more than the entry's own, can only lower the count (`Counted`).
  This is one half of an agreement; the other half is what the finding about two windows
  on one monitor refutes.
* `ToldWhatItHolds`: `Spec => []TellsWhatItHolds`. The property is about the last message
  of a monitor in a queue of any length, so `Covers` and `Tells` say of one batch of
  messages which monitors it leaves with a fullscreen window, and lemmas what happens when
  a batch is appended or a message dispatched; then each step of the thread sends what
  its change of `hidden` calls for. It is inductive with the types (`RestInv`) and
  with `ui = "reloaded" => reHide` (`ToldInv`): a recycle takes what the modules know,
  and from then to the thread's next poll the property claims nothing.
* `TellsOnce`: `Spec => ToldOnce`, from the same invariant: the thread tells of a window
  where it counted none, and there the modules' last message says that none is there.
* `Typing`: `Spec => []TypeOK`.

`ShellLoopProofs`, about any number of requests and display changes:

* `PendingServed`: `FairSpec => []PendingIsServed`, a display change that counts as pending
  has a recycle that will clear the flag, queued or running. With the queue and the
  recycles as sequences it is inductive. Whoever takes the queued `LR_RECYCLE` begins a
  recycle or is inside another (`Handling`): `_Recycle` refuses a second one, but the
  first has yet to end, and every end clears the flag.
* `Typing`: `Spec => []TypeOK`.

`BangsProofs`, about any threads, modules, generations of them, names and bounds,
under `BangsAssumption`:

* `NoLateCallback`: `Spec => []NoneAfterQuit`. The inductive invariant `Inv` says four
  things. A frame runs callbacks of its own thread only, and one that may run a module's
  there has a module that has not been quit, or is marked as lying beneath a recycle
  (`FramesGood`): a thread of a module does not quit it above a frame, as it retrieves `WM_DESTROY`
  with an empty stack only. Only the innermost frame of a stack may be on its way to a callback,
  and what lies under a recycle is marked (`DepthGood`), so a frame of a plain module that is
  not was pushed in the wait of the recycle and has been popped when `quitModule` returns. What the
  table has is LiteStep's own or belongs to a module that has its name on its list and
  will remove it (`TableGood`): so a late command finds nothing or something alive.
  Queues hold calls that were made (`QueueGood`). Lemmas say once what a push, a pop, a
  new entry and a posted or taken message leave; each action has a lemma that cites
  them.
* `CountedByHolders`: `Spec => []HeldExactly`, a Bang's reference count is the number of
  its entries in the table plus that of the calls of `ExecuteBangCommand` that hold it.
  The inductive `CountInv` adds to that equation (`Counted`) that an entry stands under
  its Bang's own name (`Named`): a Bang has at most one, so `ClearBangCommands` and
  `RemoveBangCommand` take one reference with one entry. `ActsPush`, `ActsPop` and
  `EntriesChange` say what a push, a pop and a new entry do to the two cardinalities,
  which are of finite sets because names and threads are finitely many; a lemma per
  action cites them.
* `Typing`: `Spec => []TypeOK`. That a count is never negative follows from
  `CountedByHolders`; that a Bang's number is in `Ids` needs `BoundInv`. A module works
  only in its own generation, and never while the table is set up (`RestInv`), so no other
  entry keeps LiteStep from registering a name of its own. It registers each name once per
  generation: the Bangs of LiteStep's own so far, and the names it has yet to register, are
  at most `gen` times `Core` (`MadeInv`). The last generation is not unloaded (`PhaseInv`).

`ModuleProofs`, about any paths, any `LoadModule` lines, any requests and any height
of the call stack, for polite callers (`Careless = FALSE`):

* `InitialisedOnce`: `Spec => []OneActive`, no DLL is initialised again before it has been
  quit. `OneActive` says nothing of the stack, on which everything depends; the inductive
  `Inv` has, besides the types, four parts. What has begun is *present*: in
  `m_ModuleQueue`, or kept by a frame that calls its `initModule` or has it in
  `TempQueue`; and present modules have different paths (`PresentInv`). No frame starts a
  path that a frame below it keeps (`OrderInv`), so that the look into the queue in
  `_StartModules` suffices although the frames below keep modules outside of the queue.
  While `_QuitModules` goes through the queue only `QuitModule` runs on top of it, and
  whatever follows the module it quit last has been quit (`QuitInv`): therefore
  `clear()` forgets no module that has not been quit. And enough objects are left for the
  loads that are begun (`BoundInv`). Lemmas say what each way of changing the stack
  leaves: a frame that stays or becomes another's (`TopStays`, `TopKeeps`), a return
  (`PopKeeps`), objects made by a load (`LoadKeeps`), calls pushed by a request
  (`PushKeeps`); each action has a lemma that cites them.
* `Typing`: `Spec => []TypeOK`, from the same invariant.

Two more results add to that invariant, again for polite callers:

* `UsedWhileMade`: `Spec => []DeletedAfterUse`. `UseInv` adds four parts to `Inv`. How far
  an object has come fits together: its calls, its thread, what was posted to it
  (`SaneInv`). A frame has what the code takes for granted where it stands: a module to
  start is fresh, one to be quit is asked once, the one of `_QuitModules`'s wait is being
  quit by its thread (`FramesInv`). No two frames deal with one module, and below a
  `_QuitModules` for all there is no other unloading (`ApartInv`): this is what `delete`
  needs, and what careless callers break. And what is in `m_ModuleQueue` has been started,
  and asked to quit only by a frame that is still there (`QueueInv`).
* `UnloadedAll`: `Spec => []UnloadsAll`. While `_QuitModules` waits for the threads, whatever
  is in the queue or is being started beneath it was loaded during the wait (`AddedInv`),
  since nothing below is inside a call of a module (`CoverInv`); all is loaded again,
  or `Stop` goes on, directly after that (`FollowInv`), so what is present then is late
  (`EmptiedInv`).

`AppBarsProofs`, about any windows, monitors, edges, places, size of the monitors, work
areas and bounds, under `BarsAssumption` (names are distinct, places are edges of
monitors, a work area has four sides):

* `AreaFollows`: `Spec => []AreaFollowsBars`. `AreaInv` says of a monitor in any state what
  the property says of a quiet one: either a bar left it alone, or a notification for it
  is queued, is being handled, or will be posted on the next change from outside
  (`Pending`), or its area is what the bars leave; and the service's copy of the
  primary's area is out of date only while such a change is to be dispatched. So when
  `adjustWorkArea` compares with a stale copy and does nothing, another notification is
  still to come. The work is in `Left`, a fold over the bars: `LeftIs` describes its result
  without the fold (each side is at the furthest end of the bars at that side that
  take room), `LeftSame` and its like tell from that which changes of the bars leave it
  as it is. `Regular` says that a window has one bar, and a bar that has a place a monitor, an edge
  and a rectangle; `AnswersInv` that only such bars are asked to answer.
* `BarsApart`: `NoneFacing => (Spec => []BarsDisjoint)`, for any number of bars,
  whatever they and the users do. `NoneFacing` says that bars are put at edges no two of
  which face each other (the left or the right one, the top or the bottom one); section
  2 says why. The property is about the end of an exchange (notify, answer, notify), so
  the invariant (`PlacesInv`) is about what is still to come. `Loose` are the bars that
  have been told, or will be by the handler or by a queued notification, or that are
  `astray`. Two bars of an edge that are not `Apart` have one that is loose: the newer,
  or a bar between them that the first is not apart from either (`Rows`). Of two bars
  that share a corner (`Over`), the one that has to yield is loose, or the notification
  about the other is yet to come to it (`Owed`, since the handler skips bars of the edge
  it compares with), or an older bar of its edge is loose and covers the room of another
  (`Behindhand`): its place is computed behind that one. A bar at the top or the bottom
  that does not span the default work area is loose (`Long`): the area has changed since
  it was placed. `PlacesStep` proves that a step preserves this if it is `Proper`: other
  bars stay where they are (`StaysPut`), whoever leaves a place in disorder leaves newer
  ones loose (`Vacates`), whoever comes to one has the newer ones and the other edges
  told (`Occupies`), its place is behind the older ones of its edge and clear of those
  that lie across (`Fits`), and nothing that was to come is lost (`StaysLoose`,
  `StaysOwed`). Then each action is shown to be proper, with dangling pointers and dead
  bars (`NotifyPlaces`, `SendPlaces`, `SetPosPlaces`, `DiePlaces`, ...). `NormalScan`
  says without the fold what `modifyNormalBar` finds: the bar begins where the last
  older one of its edge ends, and if it comes to lie under one at the top or the bottom,
  a bar of its edge ends further in than it begins, so that one is not where it should
  be (`PlaceCrosses`). `PlacesInv` was checked with TLC within the bounds of the run
  `appbars` before it was proved; an earlier attempt found the behaviour of three bars
  in section 5.
* `Typing`: `Spec => []TypeOK`, from the same invariant as `AreaFollows` (`RectsInv`,
  `MessagesInv`, `CountsInv`).

`TrayIconsProofs`, about any trays, threads, windows, identities and bounds, under
`TrayAssumption` (the sequence of listeners has no repetition, one identity per window):

* `Typing`: `Spec => []TypeOK`, of which the part that matters is that the iterators of
  `deleteIcon` and `SendSystemTray` stay inside `m_siVector` (`0..Len(icons)`). It needs
  more than the types (`TypeInv`): at most one of the calls on the stack has an iterator
  at a time and it is at an icon that is there, and a call below another one has sent
  its message and waits for a listener with a thread of its own (`Waiting`); so
  what shrinks the vector runs only when no other call has a place in it.
  `KeptIs` describes what `removeDeadIcons` leaves without the recursion.
* `ShownAtRest`: `ThreadedLast => (Spec => []ShowsWhatIsThere)`. `ThreadedLast` is a
  condition of the theorem and no assumption of the module; section 2 says when it holds
  and what happens without it. At rest nothing is on its way, so the invariant
  (`TrayInv`) is about the way there. `Coming(l)` is the list that `l` will have when it has
  handled what is in its inbox and, if its turn in the innermost call is still to come,
  that call's message: sending, handling and answering do not change it (`SendKeeps`,
  `HandleKeeps`, `AnswerKeeps`), and a call that begins handles its message in it at
  once, for every tray (`Begins`). `ThreadedLast` is needed here: whoever waits for a thread
  has told everybody else, so a call inside another one finds nobody still to be told by
  the outer one (`Calm`). `ShownInv` says that `Coming(l)` is right for every window that is not
  dead: it has nothing but the icon that is to be seen (`Only`), not even that while
  `deleteIcon` waits (`Dying`), and it has that icon if the tray is owed it, because its
  `SendSystemTray` has returned or has come past that icon (`Owed`, `All`). Each
  notification, whatever it is, either keeps this for one window or turns the copy of
  the old icon into one of the new (`Turns`; `NotificationIs` brings all of them to three forms).
  `ListsInv`, `ToldInv` and `CallsInv` are what that rests on: one icon, one copy and one
  identity per window, who is registered and what has been sent is waited for, what each
  call is about. `ResultIs` and its like describe the fold over the inbox without recursion.

`Left`, `NormalRect`, `Delete`, `Kept` and `Result` are recursive functions over a
sequence. What they compute is proved without the library's induction theorems, by the
least element of a set of numbers (`Least`, `Induct`, `InductTo`), which takes a set
where those take an operator.

### What is only model-checked

* Liveness under fairness, which needs `ENABLED`: out of this prover's reach.
* Nothing is stated about bars at two opposite edges: they do not yield to each other
  (`Yield`), so where there is no room for both they meet, and `BarsDisjoint` is false. How
  much room there is depends on how often the default area has been taken from what the
  bars left (the third finding of section 5).
* `TrayIcons` where a tray with a thread of its own is not the last in the set:
  `ShowsWhatIsThere` is false there (section 2), and nothing weaker is stated.

## 5. What was found

Disagreements between the code and what it says of itself, each with a run:

1. `fullscreen_two_on_one` - `hiddenMonitors.erase(hMonitor)` removes all equal
   elements of the multiset, so the modules are shown over a second fullscreen
   window (FullscreenMonitor.cpp:273-278).
2. `module_quit_again` - `_QuitModules` does not take modules out of
   `m_ModuleQueue` before it quits them, although its comment says so: a
   `quitModule` that unloads another module deletes it twice
   (ModuleManager.cpp:259-281).
3. `appbars_default` - the default work area is also updated by the service's own
   change, if another program's `WM_SETTINGCHANGE` was waiting
   (TrayService.cpp:573-590).
4. `instances_close` - a new instance asks the old one to close with `SC_CLOSE`,
   which its window procedure takes for `!ShutDown`: the shutdown dialog of Windows
   appears and the old instance goes on, until the new one terminates it
   (WinMain.cpp:290-323, litestep.cpp:1112 and 1253, utility/shellhlp.cpp:527-546).

Behaviour that the models show, or that they leave out on purpose, and that no
text in the repository excludes:

* Tasks: when the process ends its threads before `Shutdown`, a completionProc that
  was just called is called again. `notify_all` may come before a worker sleeps;
  then `Shutdown` waits for good (`SleeplessShutdownReturns` excludes it). The UI
  thread must not wait with INFINITE for a task with a completionProc: its message
  waits for the pump. A task that waits for queued tasks takes up a worker.
* Fullscreen: when a recycle switches `LSAutoHideModules` off, it shows the modules
  at once, and `!HideModules` still in the queue hides them afterwards.
* Modules: a second unload of a module whose thread is being waited for gets no
  handle to wait for and deletes it at once, and the first deletes it again; the
  same after a recycle during that wait (the run `module` assumes callers that
  leave such modules alone).
* Modules: a module loaded inside a `quitModule` while `_QuitModules` still goes through
  the queue is appended behind the iterator and then forgotten by
  `m_ModuleQueue.clear()` (ModuleManager.cpp:281): nobody quits it, and after the next
  load its DLL has been initialised twice. TLC shows it for 3 paths and 6 objects
  when `Polite` allows such loads; the models leave them to `Careless` callers.
* Modules: a load during the wait of a recycle makes `ASSERT(m_ModuleQueue.empty())`
  fail; a recycle during the wait of `Stop` loads modules that nobody unloads;
  `WM_DESTROY` posted to a thread without a message queue is lost and the UI
  thread waits for good: `UnloadsAll` and `Finishes` except these (`late`,
  `Unreached`). More than 63 threaded modules make the wait spin.
* Shell loop: a quit met by `PeekAllMsgs` during `Start` is looked at after the
  next message only (litestep.cpp:790-799). A display change dispatched during a
  recycle that has read its settings already is lost.
* App bars: the work area keeps the strip of a bar that died, or left for another
  monitor, until something else is notified there. Nothing is posted either for a bar
  that is put to another edge and gets the same rectangle (TrayService.cpp:1042-1058
  compares rectangles and monitors only), which a monitor as broad as a bar allows; the
  proof of `AreaFollows` found this, TLC's monitors are too big for it. And
  `ABM_SETAUTOHIDEBAR` gives a bar that stands at one edge another one
  (TrayService.cpp:1278), leaves its rectangle as it is and posts nothing: the work area
  keeps the old strip, and bars that were told of it, or would have been, measure
  themselves by the new edge, so that two can end on one strip. `AreaFollowsBars`
  excepts the monitor (`unadjusted`) and `BarsDisjoint` the bars that stood on it
  (`astray`). An autohide bar has no monitor before `ABM_SETPOS`; a second one is
  accepted on its edge. The loop over the copied vector reads bars that were deleted
  while it waited.
* App bars: a bar that comes to a monitor, or is placed for the first time, is not
  recognised among the bars (the test of the monitor, TrayService.cpp:1448, comes
  before that of the window, which the comment at 1486 relies on). Newer bars push
  it inward, and two bars can end on one strip; the older one is not told.
  `BarsDisjoint` excepts such bars (`astray`).
* App bars: three bars stand side by side, and the work area moves to where the first
  two stand. The first moves inward onto the third; the third, asked to answer, stays
  (the second still stands before it); and the second dies or goes to another monitor before
  it answers. Nobody is told, and two bars stay on one strip. The attempt to prove
  `BarsDisjoint` found this, the bounds of the run are too small for it. The property
  excepts newer bars on the monitor a bar leaves silently while anything is under way.
* Bangs: a command for another thread is resolved by name when it is dispatched, so it
  may call another bang than the one found first. It is lost, and its
  `ThreadedBangCommand` leaks, when the thread has ended or has no queue yet; the caller
  is told that it ran. A recycle dispatched in a modal loop of a plain module's callback
  quits the module and frees its DLL beneath the callback, which then returns into freed
  code. `NoneAfterQuit` excepts these callbacks (`under`), and the model lets them
  return. The message boxes of `!Alert` and `!Confirm`, and other modal loops, drop
  commands for their thread that arrive while they are shown, and a module's thread its
  `WM_DESTROY`, after which the recycle waits for good.
* Icons: an icon that becomes visible later is announced without the version its
  program has set (TrayService.cpp:2139), so that a tray may go on with version 0;
  `ShowsWhatIsThere` allows that. `removeDeadIcons` tells nobody. `NIM_SETVERSION`
  stores and forwards at least 4, whatever version but 0 is asked for, and names the icon
  to the modules by its window alone, without the GUID. A program that starts again with
  the GUID of its dead entry is refused, or changes the dead one, until that is removed
  (TrayService.cpp:2331).
* Instances: the bang of a command line is sent without a timeout, so that an
  instance which hangs in `COMService::Stop` hangs the sender too. A shell that dies
  while the startup runner works never runs the rest of the entries in that
  session. A process terminated inside `StartExplorerShell` leaves Explorer in
  `system.ini`. The deadline `GetTickCount() + timeout` wraps after 49.7 days.

## 6. What is not modelled, and why

* The numbers and styles that make a window fullscreen, the search for a DLL and
  its entry points, and the text of errors and logs: they choose one of the
  outcomes that the models take as a choice.
* Time. Timeouts (`Wait`, deadlines) expire or not; how long something takes is
  not a property of these modules.
* In `ShellLoop` the cases of `InternalWndProc` that only forward a message.
* App bars: `ABM_QUERYPOS` and the `GET` messages change nothing; `ABM_ACTIVATE` and
  `ABM_WINDOWPOSCHANGED` only raise a window. Bars ask for a whole edge, so
  `modifyBarExtent` has nothing to cut.
* `TrayIcons`: `NIM_SETFOCUS`, which is only forwarded, the ANSI copy of the message,
  icon rectangles, shell service objects, the task-bar list.
* `Instances`: a mutex that cannot be created (access denied), the message boxes of
  giving up, Start and Stop of the recovery menu's own thread.
* `EnumBangs` only reads; what a built-in bang does belongs to its component.
* DDE, Explorer, wallpaper, the COM desktop: almost all of it is calls to Windows.
* Settings, expressions and patterns, the data store, theme engine v2, the task bar
  and the core module: sequential code or tables whose interesting behaviour is
  planned below. Other modules paint and lay out.
* Painting, layout, image decoding, dialogs. `modules/External` holds most of the
  repository's lines (the V8 engine, tag and image libraries); it is third-party code.

## 7. Plan

Done: the task executor with its proofs, the fullscreen monitor, modules and
their manager, the shell loop, app bars, bangs, notification icons with the
message manager and a tray module, and instances with the services whose threads
decide whether they end. They came first because they hold most of the concurrency
of the program, and what is not concurrent in them is re-entrant.

To come, in this order:

1. *Settings and data store*: the iterator over the multimap with reloads under it,
   conditionals and includes; what one generation of a module stores for the next.
2. *Patterns and expressions*: the matcher of `match.cpp` against a declarative
   definition over bounded inputs.
3. *Task bar*: the window map and the buttons, under late shell hooks.
4. *Recovery menu and DDE*: start and stop of their threads.
