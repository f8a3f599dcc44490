-------------------------- MODULE ModuleLifecycle --------------------------
(***************************************************************************)
(* Loading and unloading modules (litestep/ModuleManager.cpp, Module.cpp). *)
(* The UI thread keeps a call stack here, because it waits for threaded    *)
(* modules in a loop that dispatches messages: a request that arrives then *)
(* is executed on top of the one that waits, on the same m_ModuleQueue.    *)
(***************************************************************************)
EXTENDS Naturals, Sequences, FiniteSets, SequencesExt

CONSTANTS
  Locations,   \* paths of DLLs
  Configured,  \* the LoadModule lines, a sequence of [loc, thr]
  None,
  WhileIdle, WhileWaiting, WhileInit, WhileQuit,  \* requests that may arrive in the message
               \* loop and the wait loop, and that initModule and quitModule may make
  Careless,    \* those requests may concern modules being started or unloaded
  WithQueue,   \* a module's thread has a message queue before anything is posted to it
  MaxModules,  \* bound: Module objects made in a behaviour
  MaxStack     \* bound: no request while the stack is this high

\* LM_RELOADMODULE with a path loads with its lParam for flags, which may say threaded.
Kinds == {"unload", "reload", "reloadThreaded", "reloadInstance", "recycle"}

ASSUME ModuleAssumption ==
  /\ None \notin Locations /\ {Careless, WithQueue} \subseteq BOOLEAN
  /\ Configured \in Seq([loc : Locations, thr : BOOLEAN])
  /\ MaxModules \in Nat /\ MaxModules >= Len(Configured) /\ MaxStack \in Nat
  /\ WhileIdle \cup WhileWaiting \cup WhileInit \cup WhileQuit \subseteq Kinds

VARIABLES
  mod,     \* the Module objects
  queue,   \* m_ModuleQueue
  stack    \* what the UI thread executes, innermost first

vars == <<mod, queue, stack>>

Modules == 1..MaxModules
NoModule == 0

Module == [loc : Locations \cup {None}, thr : BOOLEAN,
           life : {"unmade", "made", "deleted"},
           thread : {"none", "init", "loop", "quitting", "ended"},
           taken : BOOLEAN,     \* m_hThread has been taken
           hasQueue : BOOLEAN,  \* the thread has a message queue
           posted : Nat,        \* WM_DESTROY in it
           inits : Nat, quits : Nat,  \* calls of initModule and quitModule
           late : BOOLEAN]      \* made while _QuitModules was on the stack
Unmade == [loc |-> None, thr |-> FALSE, life |-> "unmade", thread |-> "none", taken |-> FALSE,
           hasQueue |-> FALSE, posted |-> 0, inits |-> 0, quits |-> 0, late |-> FALSE]

\* A function on the stack.  mods: mqModules still to start, TempQueue, or the module to quit;
\* waits: what it waits for; call: the module whose initModule or quitModule it is in.
Frame == [op : {"start", "quitAll", "quit", "load", "loadAll", "recycle", "stop"},
          at : {"begin", "wait"}, mods : Seq(Modules), waits : SUBSET Modules,
          call : Modules \cup {NoModule}, loc : Locations \cup {None}, thr : BOOLEAN]
Call(op, mods) == [op |-> op, at |-> "begin", mods |-> mods, waits |-> {}, call |-> NoModule,
                   loc |-> None, thr |-> FALSE]

TypeOK ==
  /\ mod \in [Modules -> Module] /\ queue \in Seq(Modules)
  /\ stack \in Seq(Frame)

Init ==
  /\ mod = [o \in Modules |-> Unmade] /\ queue = <<>>
  /\ stack = <<Call("loadAll", <<>>)>>

-----------------------------------------------------------------------------
Running     == stack # <<>>
Top         == Head(stack)
Becomes(f)  == stack' = <<f>> \o Tail(stack)
Return      == stack' = Tail(stack)
Frames      == {stack[i] : i \in DOMAIN stack}

Made        == Cardinality({o \in Modules : mod[o].life # "unmade"})
\* A slip: _FindModule that never finds anything.
FindsNone(l) == NoModule
InQueue(l)  == {i \in DOMAIN queue : mod[queue[i]].loc = l}
\* _FindModule: the first in the queue
Find(l)     == IF InQueue(l) = {} THEN NoModule
               ELSE queue[CHOOSE i \in InQueue(l) : \A j \in InQueue(l) : i <= j]

\* _MakeModule for each of a sequence of [loc, thr]
Make(list) ==
  [o \in Modules |-> IF o - Made \in DOMAIN list
                     THEN [Unmade EXCEPT !.loc = list[o - Made].loc, !.thr = list[o - Made].thr,
                                         !.life = "made",
                                         !.late = \E f \in Frames : f.op = "quitAll"]
                     ELSE mod[o]]
Fresh(n) == [i \in 1..n |-> Made + i]

\* Slips in the helpers below, each of which breaks a property at the end.
QuitCallsUnchecked(l) == <<Call("quit", <<Find(l)>>)>>
QuittingWaitsNot(f, o) == [f EXCEPT !.call = IF mod[o].thr THEN NoModule ELSE o]
LeftSkips == SubSeq(queue, 1, Len(queue) - Len(Top.mods) - 1)
NoQuitMessage == "loop"

Delete(ms) == [o \in Modules |-> IF o \in ms THEN [mod[o] EXCEPT !.life = "deleted"] ELSE mod[o]]

-----------------------------------------------------------------------------
(* Requests: LM_UNLOADMODULE, LM_RELOADMODULE by path and by instance, and  *)
(* LM_RECYCLE, as the calls they push.                                     *)

LoadCall(l, t) == [Call("load", <<>>) EXCEPT !.loc = l, !.thr = t]
QuitCalls(l) == IF Find(l) = NoModule THEN <<>> ELSE <<Call("quit", <<Find(l)>>)>>
Recycling == \E f \in Frames : f.op = "recycle"

Calls(kind, l) ==
  CASE kind = "unload" -> QuitCalls(l)
    [] kind = "reload" -> QuitCalls(l) \o <<LoadCall(l, FALSE)>>
    [] kind = "reloadThreaded" -> QuitCalls(l) \o <<LoadCall(l, TRUE)>>
    [] kind = "reloadInstance" ->
         IF Find(l) = NoModule THEN <<>> ELSE QuitCalls(l) \o <<LoadCall(l, mod[Find(l)].thr)>>
    [] kind = "recycle" ->
         IF Recycling THEN <<>>
         ELSE <<Call("quitAll", <<>>), Call("loadAll", <<>>), Call("recycle", <<>>)>>

\* Callers leave alone a module that is just being started or unloaded, do not recycle then,
\* and do not load while _QuitModules goes through the queue; unless they are Careless.
Busy == {f.call : f \in Frames} \cup
        UNION {ToSet(f.mods) : f \in {g \in Frames : g.op \in {"quit", "quitAll"}}}
Polite(kind, l) ==
  IF kind = "recycle"
  THEN \A f \in Frames : f.call = NoModule /\ f.op \notin {"quit", "quitAll"}
  ELSE /\ \A o \in Busy \ {NoModule} : mod[o].loc # l
       /\ kind # "unload" => \A f \in Frames : ~(f.op = "quitAll" /\ f.at = "begin")

Pending(s, op) == Cardinality({i \in DOMAIN s : s[i].op = op})
Loads(s) == Pending(s, "load") + Len(Configured) * Pending(s, "loadAll")

Request(k, l) ==
  /\ Calls(k, l) # <<>>
  /\ stack' = Calls(k, l) \o stack /\ Made + Loads(stack') <= MaxModules
  /\ UNCHANGED <<mod, queue>>

\* The message loop of Run.
Idle(l) == stack = <<>> /\ \E k \in WhileIdle : Request(k, l)

Stop ==
  /\ stack = <<>>
  /\ stack' = <<Call("quitAll", <<>>), Call("stop", <<>>)>> /\ UNCHANGED <<mod, queue>>

\* The message about a DLL that does not load is shown.
InMessage == Top.op = "start" /\ Top.call # NoModule /\ mod[Top.call].inits = 0

\* PeekAllMsgs in the wait loop, the message's own loop, and the calls initModule and
\* quitModule make.
Nested(l) ==
  /\ Running /\ Len(stack) < MaxStack
  /\ \E k \in Kinds :
       /\ \/ k \in WhileWaiting /\ Top.waits # {} /\ Top.at = "wait"
          \/ k \in WhileWaiting /\ InMessage
          \/ k \in WhileInit /\ Top.call # NoModule /\ Top.op = "start" /\ ~InMessage
          \/ k \in WhileQuit /\ Top.call # NoModule /\ Top.op # "start"
       /\ Careless \/ Polite(k, l)
       /\ Request(k, l)

-----------------------------------------------------------------------------
(* _LoadModules, LoadModule and _StartModules.                             *)

LoadAll ==
  /\ Running /\ Top.op = "loadAll"
  /\ mod' = Make(Configured) /\ Becomes(Call("start", Fresh(Len(Configured))))
  /\ UNCHANGED queue

LoadModule ==
  /\ Running /\ Top.op = "load"
  /\ mod' = Make(<<[loc |-> Top.loc, thr |-> Top.thr]>>) /\ Becomes(Call("start", Fresh(1)))
  /\ UNCHANGED queue

Starting == Running /\ Top.op = "start" /\ Top.at = "begin" /\ Top.call = NoModule

\* An entry whose path is already loaded.
Discard ==
  /\ Starting /\ Top.mods # <<>> /\ Find(mod[Head(Top.mods)].loc) # NoModule
  /\ mod' = Delete({Head(Top.mods)}) /\ Becomes([Top EXCEPT !.mods = Tail(@)])
  /\ UNCHANGED queue

\* _LoadDll fails: a message says so, and while it is shown messages are dispatched.
LoadFails ==
  /\ Starting /\ Top.mods # <<>> /\ Find(mod[Head(Top.mods)].loc) = NoModule
  /\ Becomes([Top EXCEPT !.mods = Tail(@), !.call = Head(Top.mods)])
  /\ UNCHANGED <<mod, queue>>

\* Module::Init up to the call of initModule, or to the new thread.
StartNext ==
  /\ Starting /\ Top.mods # <<>>
  /\ LET o == Head(Top.mods) IN
     /\ Find(mod[o].loc) = NoModule
     /\ IF mod[o].thr
        THEN /\ mod' = [mod EXCEPT ![o].thread = "init", ![o].hasQueue = WithQueue]
             /\ queue' = Append(queue, o)
             /\ Becomes([Top EXCEPT !.mods = Tail(@), !.waits = @ \cup {o}])
        ELSE /\ mod' = [mod EXCEPT ![o].inits = @ + 1]
             /\ Becomes([Top EXCEPT !.mods = Tail(@), !.call = o])
             /\ UNCHANGED queue

\* initModule returns: 0, or something else or an exception.  Or the message is closed.
InitReturns ==
  /\ Running /\ Top.op = "start" /\ Top.call # NoModule
  /\ Becomes([Top EXCEPT !.call = NoModule])
  /\ \/ mod[Top.call].inits > 0 /\ queue' = Append(queue, Top.call) /\ UNCHANGED mod
     \/ mod' = Delete({Top.call}) /\ UNCHANGED queue

StartWaits ==
  /\ Starting /\ Top.mods = <<>> /\ Becomes([Top EXCEPT !.at = "wait"])
  /\ UNCHANGED <<mod, queue>>

-----------------------------------------------------------------------------
(* QuitModule and _QuitModules.                                            *)

\* Module::Quit, and TakeThread by the caller: PostThreadMessage fails without a queue.
Quit(o) ==
  IF mod[o].thr
  THEN [mod EXCEPT ![o].taken = TRUE, ![o].posted = IF mod[o].hasQueue THEN @ + 1 ELSE @]
  ELSE [mod EXCEPT ![o].quits = @ + 1]
\* The frame in or after that call: it waits for a thread whose handle it got.
Quitting(f, o) ==
  [f EXCEPT !.call = IF mod[o].thr THEN NoModule ELSE o,
            !.waits = @ \cup (IF mod[o].thr /\ ~mod[o].taken THEN {o} ELSE {})]

QuitModule ==
  /\ Running /\ Top.op = "quit" /\ Top.at = "begin"
  /\ mod' = Quit(Head(Top.mods)) /\ Becomes(Quitting([Top EXCEPT !.at = "wait"], Head(Top.mods)))
  /\ UNCHANGED queue

\* The reverse iterator of _QuitModules holds the node of the module quit last.  Once that is
\* erased the loop is lost, and the model stops.
QuitLoop == Running /\ Top.op = "quitAll" /\ Top.at = "begin" /\ Top.call = NoModule
Lost     == Top.mods # <<>> /\ Last(Top.mods) \notin ToSet(queue)
Left     == IF Top.mods = <<>> THEN queue
            ELSE SubSeq(queue, 1, (CHOOSE i \in DOMAIN queue : queue[i] = Last(Top.mods)) - 1)

QuitNext ==
  /\ QuitLoop /\ ~Lost /\ Left # <<>>
  /\ LET o == Last(Left) IN
     /\ mod' = Quit(o) /\ Becomes(Quitting([Top EXCEPT !.mods = Append(@, o)], o))
  /\ UNCHANGED queue

QuitReturns ==
  /\ Running /\ Top.op \in {"quit", "quitAll"} /\ Top.call # NoModule
  /\ Becomes([Top EXCEPT !.call = NoModule]) /\ UNCHANGED <<mod, queue>>

\* m_ModuleQueue.clear()
QuitAllWaits ==
  /\ QuitLoop /\ ~Lost /\ Left = <<>>
  /\ queue' = <<>> /\ Becomes([Top EXCEPT !.at = "wait"]) /\ UNCHANGED mod

-----------------------------------------------------------------------------
(* _WaitForModules, and what comes after it.                               *)

Waiting == Running /\ Top.at = "wait" /\ Top.call = NoModule

\* Signaled: the init event, or the thread.
Signaled(o) ==
  IF Top.op = "start" THEN mod[o].thread \notin {"none", "init"} ELSE mod[o].thread = "ended"

WaitOne ==
  /\ Waiting
  /\ \E o \in Top.waits : Signaled(o) /\ Becomes([Top EXCEPT !.waits = @ \ {o}])
  /\ UNCHANGED <<mod, queue>>

\* m_ModuleQueue.erase
Erased(o) ==
  LET at == {i \in DOMAIN queue : queue[i] = o}
  IN  IF at = {} THEN queue ELSE RemoveAt(queue, CHOOSE i \in at : TRUE)

Done ==
  /\ Waiting /\ Top.waits = {} /\ Return
  /\ mod' = IF Top.op = "start" THEN mod ELSE Delete(ToSet(Top.mods))
  /\ queue' = IF Top.op = "quit" THEN Erased(Head(Top.mods)) ELSE queue

\* The end of _Recycle.
Recycled == Running /\ Top.op = "recycle" /\ Return /\ UNCHANGED <<mod, queue>>

-----------------------------------------------------------------------------
(* A module's thread.                                                      *)

ThreadInit(o) ==
  /\ mod[o].thread = "init"
  /\ \E q \in {mod[o].hasQueue, TRUE} :
       mod' = [mod EXCEPT ![o].thread = "loop", ![o].hasQueue = q, ![o].inits = @ + 1]
  /\ UNCHANGED <<queue, stack>>

\* WM_DESTROY is followed by PostQuitMessage.
Destroyed == "quitting"

\* GetMessage creates the queue; WM_QUIT comes after every posted message.
ThreadLoop(o) ==
  /\ mod[o].thread \in {"loop", "quitting"}
  /\ \/ /\ mod[o].posted > 0
        /\ mod' = [mod EXCEPT ![o].posted = @ - 1, ![o].quits = @ + 1, ![o].thread = Destroyed]
     \/ /\ mod[o].posted = 0 /\ mod[o].thread = "quitting"
        /\ mod' = [mod EXCEPT ![o].thread = "ended"]
     \/ /\ ~mod[o].hasQueue
        /\ mod' = [mod EXCEPT ![o].hasQueue = TRUE]
  /\ UNCHANGED <<queue, stack>>

-----------------------------------------------------------------------------
UI ==
  \/ LoadAll \/ LoadModule \/ Discard \/ LoadFails \/ StartNext \/ InitReturns \/ StartWaits
  \/ QuitModule \/ QuitNext \/ QuitReturns \/ QuitAllWaits
  \/ WaitOne \/ Done \/ Recycled
Next ==
  \/ UI \/ Stop
  \/ \E l \in Locations : Idle(l) \/ Nested(l)
  \/ \E o \in Modules : ThreadInit(o) \/ ThreadLoop(o)

Spec == Init /\ [][Next]_vars

\* The UI thread and the modules' threads run on.
FairSpec ==
  Spec /\ WF_vars(UI) /\ \A o \in Modules : WF_vars(ThreadInit(o)) /\ WF_vars(ThreadLoop(o))

-----------------------------------------------------------------------------
Active(o) == mod[o].life = "made" /\ mod[o].inits > mod[o].quits
QuitFrames(op) == {f \in Frames : f.op = op}

\* Nothing the UI thread or m_ModuleQueue still refers to has been deleted; a threaded module
\* is deleted after its thread has ended; and initModule and quitModule are called at most once,
\* in this order, whatever unloads, reloads and recycles meet in the waits (the iterators and
\* TempQueue across _WaitForModules, ModuleManager.cpp:252-323, Module.cpp:332-430).
DeletedAfterUse ==
  /\ \A o \in ToSet(queue) \cup UNION {ToSet(f.mods) : f \in Frames} : mod[o].life = "made"
  /\ \A o \in Modules : mod[o].quits <= mod[o].inits /\ mod[o].inits <= 1
  /\ \A o \in Modules : mod[o].life = "deleted" /\ mod[o].thread # "none" =>
                       mod[o].thread = "ended" /\ mod[o].quits = 1

\* A DLL (which LoadLibrary maps once) is not initialised again before it has been quit:
\* the look into the queue suffices though reloads run nested (ModuleManager.cpp:196-236).
OneActive == \A o, p \in Modules : Active(o) /\ Active(p) /\ mod[o].loc = mod[p].loc => o = p

\* A module that _QuitModules is unloading is not found and quit by a nested unload: it is
\* kept "so that the module may not be accessed via our main queue while it is being
\* unloaded" (ModuleManager.cpp:258-262).
NotQuitTwice ==
  \A f \in QuitFrames("quit"), g \in QuitFrames("quitAll") : Head(f.mods) \notin ToSet(g.mods)

\* "Unloads all modules": when a recycle loads the modules again ("ASSERT(m_ModuleQueue.empty())")
\* and when Stop is through, no module is in the queue or initialised, but for what was loaded
\* while others were being unloaded (ModuleManager.cpp:74-87, 112, ModuleManager.h:61).
UnloadsAll ==
  stack # <<>> /\ Top.op \in {"loadAll", "stop"} =>
    \A o \in Modules : Active(o) \/ o \in ToSet(queue) => mod[o].late

\* WM_DESTROY was posted before the thread had a queue: nothing will end the thread.
Unreached(o) == mod[o].taken /\ mod[o].posted = 0 /\ mod[o].quits = 0 /\ mod[o].thread # "ended"

\* Every request and the start-up come to an end, recycles and Stop included, and so does
\* every thread that was asked to quit: unless one has missed its WM_DESTROY, no wait of the
\* UI thread lasts for ever, nested as they may be (ModuleManager.cpp:375-399; "wait for
\* shutdown to complete", Module.h:102).
Finishes ==
  /\ []<>(stack = <<>> \/ Top.op = "stop" \/ \E o \in Modules : Unreached(o))
  /\ \A o \in Modules : mod[o].taken ~> (mod[o].thread = "ended" \/ Unreached(o))
=============================================================================
