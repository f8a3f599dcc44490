-------------------------------- MODULE Bangs --------------------------------
(***************************************************************************)
(* Bang commands (lsapi/BangManager.cpp, BangCommand.cpp, lsapi.cpp,       *)
(* ThreadedBangCommand.h) among the threads that register, remove and      *)
(* execute them, over the unloading of modules and the reload of the table *)
(* that a recycle consists of.  A bang is called on the thread that has    *)
(* registered it; any other thread posts its name to that thread, which    *)
(* looks it up again.  A recycle dispatched in a modal loop of a callback   *)
(* quits and frees plain modules beneath it; what a freed callback does     *)
(* when it is returned to is left out: it returns.                          *)
(*                                                                         *)
(* A critical section of BangManager::m_cs is one step.                    *)
(***************************************************************************)
EXTENDS Naturals, Sequences, FiniteSets

CONSTANTS
  UI,          \* the main thread
  Shell,       \* LiteStep itself, with the bangs of SetupBangs
  Threaded,    \* modules with a thread of their own, which is named like them
  Plain,       \* modules on the main thread
  Workers,     \* other threads that execute bangs and register none
  Loads,       \* the modules of each generation, a sequence of sets
  Names, Core, \* names of bangs, those of SetupBangs among them
  None,
  MaxAdds,     \* bound: bangs that modules register
  MaxCalls     \* bound: calls of ParseBangCommand

Modules == Threaded \cup Plain
Threads == {UI} \cup Threaded \cup Workers
Owners  == {Shell} \cup Modules
Home(m) == IF m \in Threaded THEN m ELSE UI

ASSUME BangsAssumption ==
  /\ Threaded \cap Plain = {} /\ Shell \notin Modules
  /\ UI \notin Modules \cup Workers /\ Workers \cap Threaded = {}
  /\ Loads \in Seq(SUBSET Modules) /\ Loads # <<>> /\ Core \subseteq Names /\ None \notin Names
  /\ IsFiniteSet(Names) /\ IsFiniteSet(Threads)
  /\ \A i, j \in DOMAIN Loads : i # j => Loads[i] \cap Loads[j] = {}
  /\ MaxAdds \in Nat /\ MaxCalls \in Nat

VARIABLES
  table,   \* bang_map
  bang,    \* the Bang objects that were made, a sequence of [name, by, refs]
  queue,   \* thread messages: calls, or Destroy for WM_DESTROY
  stack,   \* per thread, the bangs in ExecuteBangCommand, innermost first
  life,    \* of a module: "out", "init", "on", "quitting", "quit", "ended"
  names,   \* the names a module has registered and will remove
  call,    \* the calls made, a sequence of [name, fate]
  phase,   \* the main thread: "setup", "run" or "unload"
  gen,     \* the generation of modules
  base     \* height of the main thread's stack under the recycle

vars == <<table, bang, queue, stack, life, names, call, phase, gen, base>>

Ids    == 1..(MaxAdds + Len(Loads) * Cardinality(Core))
Bang   == [name : Names, by : Owners, refs : Nat]
\* A call of ExecuteBangCommand; under: a recycle has been dispatched inside it (ghost).
Frame  == [id : Ids, at : {"found", "calling"}, call : 1..MaxCalls, under : BOOLEAN]
NoBang == 0
Destroy == 0

TypeOK ==
  /\ table \in [Names -> Ids \cup {NoBang}]
  /\ bang \in Seq(Bang) /\ Len(bang) <= Cardinality(Ids)
  /\ queue \in [Threads -> Seq({Destroy} \cup 1..MaxCalls)]
  /\ stack \in [Threads -> Seq(Frame)]
  /\ life \in [Modules -> {"out", "init", "on", "quitting", "quit", "ended"}]
  /\ names \in [Modules -> SUBSET Names]
  /\ call \in Seq([name : Names, fate : {"pending", "called", "nobody", "lost"}])
  /\ phase \in {"setup", "run", "unload"}
  /\ gen \in 1..Len(Loads) /\ base \in Nat

Init ==
  /\ table = [n \in Names |-> NoBang] /\ bang = <<>>
  /\ queue = [t \in Threads |-> <<>>] /\ stack = [t \in Threads |-> <<>>]
  /\ life = [m \in Modules |-> "out"] /\ names = [m \in Modules |-> {}]
  /\ call = <<>> /\ phase = "setup" /\ gen = 1 /\ base = 0

-----------------------------------------------------------------------------
\* Slips in the steps below, each of which breaks a property at the end.
HeldNot(b) == bang
RunsAnywhere(b, t) == TRUE
NobodyLooks(t, c, n) == UNCHANGED <<bang, stack, call>>
PostedOn(t, c) == queue' = [queue EXCEPT ![t] = Append(@, c + 1)]

Top(t)     == Head(stack[t])
Calling(t) == stack[t] # <<>> /\ Top(t).at = "calling"
\* The thread executes code of LiteStep or a module, not of BangManager.
InCode(t)  == stack[t] # <<>> => Top(t).at = "calling"
Found(b, c) == [id |-> b, at |-> "found", call |-> c, under |-> FALSE]
Push(t, f) == stack' = [stack EXCEPT ![t] = <<f>> \o @]
Pop(t)     == stack' = [stack EXCEPT ![t] = Tail(@)]
Settle(c, f) == call' = [call EXCEPT ![c].fate = f]

\* AddRef and Release, a Bang being deleted at 0.
Held(b)    == [bang EXCEPT ![b].refs = @ + 1]
Release(b) == IF b = NoBang THEN bang ELSE [bang EXCEPT ![b].refs = @ - 1]

\* May a thread message be posted?  Not before the thread has a queue, which it has
\* with its first GetMessage at the latest, and not after its end.
MayReach(t) == IF t \notin Threaded THEN {TRUE}
               ELSE IF life[t] = "init" THEN {TRUE, FALSE}
               ELSE {life[t] \in {"on", "quitting", "quit"}}

-----------------------------------------------------------------------------
(* AddBangCommand, RemoveBangCommand and ExecuteBangCommand.               *)

\* A new Bang, held by the table alone, takes the place of one with that name.
Insert(n, by) ==
  /\ bang' = Append(Release(table[n]), [name |-> n, by |-> by, refs |-> 1])
  /\ table' = [table EXCEPT ![n] = Len(bang) + 1]

Active(m) == life[m] \in {"init", "on"} /\ InCode(Home(m))

AddBangCommand(m, n) ==
  /\ Active(m)
  /\ Cardinality({i \in DOMAIN bang : bang[i].by # Shell}) < MaxAdds
  /\ Insert(n, m) /\ names' = [names EXCEPT ![m] = @ \cup {n}]
  /\ UNCHANGED <<queue, stack, life, call, phase, gen, base>>

\* A module removes a name it has registered, whosever bang has it by now.
RemoveBangCommand(m, n) ==
  /\ Active(m) \/ (life[m] = "quitting" /\ InCode(Home(m)))
  /\ n \in names[m] /\ names' = [names EXCEPT ![m] = @ \ {n}]
  /\ bang' = Release(table[n]) /\ table' = [table EXCEPT ![n] = NoBang]
  /\ UNCHANGED <<queue, stack, life, call, phase, gen, base>>

\* ExecuteBangCommand up to the release of the lock.
Lookup(t, c, n) ==
  IF table[n] = NoBang
  THEN Settle(c, "nobody") /\ UNCHANGED <<bang, stack>>
  ELSE /\ bang' = Held(table[n]) /\ UNCHANGED call
       /\ Push(t, Found(table[n], c))

ParseBangCommand(t, n) ==
  /\ InCode(t) /\ Len(call) < MaxCalls
  /\ t \in Threaded => life[t] \in {"init", "on", "quitting"}
  /\ LET c == Len(call) + 1 IN
     IF table[n] = NoBang
     THEN call' = Append(call, [name |-> n, fate |-> "nobody"]) /\ UNCHANGED <<bang, stack>>
     ELSE /\ call' = Append(call, [name |-> n, fate |-> "pending"])
          /\ bang' = Held(table[n])
          /\ Push(t, Found(table[n], c))
  /\ UNCHANGED <<table, queue, life, names, phase, gen, base>>

RunsHere(b, t) == Home(bang[b].by) = t
Posted(t, c)   == queue' = [queue EXCEPT ![t] = Append(@, c)]

\* Bang::Execute: the callback begins, or the call is posted to the bang's thread and the
\* Bang released.  Nobody looks at the result of PostThreadMessage.
Execute(t) ==
  /\ stack[t] # <<>> /\ Top(t).at = "found"
  /\ LET b == Top(t).id IN
     LET c == Top(t).call IN
     \/ /\ RunsHere(b, t)
        /\ stack' = [stack EXCEPT ![t][1].at = "calling"] /\ Settle(c, "called")
        /\ UNCHANGED <<bang, queue>>
     \/ /\ ~RunsHere(b, t) /\ Pop(t) /\ bang' = Release(b)
        /\ \E ok \in MayReach(Home(bang[b].by)) :
             IF ok THEN Posted(Home(bang[b].by), c) /\ UNCHANGED call
             ELSE Settle(c, "lost") /\ UNCHANGED queue
  /\ UNCHANGED <<table, life, names, phase, gen, base>>

\* The callback returns and the Bang is released.
Return(t) ==
  /\ Calling(t) /\ (t = UI => Len(stack[UI]) > base \/ phase = "run")
  /\ bang' = Release(Top(t).id) /\ Pop(t)
  /\ UNCHANGED <<table, queue, life, names, call, phase, gen, base>>

-----------------------------------------------------------------------------
(* The message loops.                                                      *)

\* Does the thread retrieve thread messages?  The main thread does in Run and in the wait
\* for modules, which also happens inside a recycle on top of a callback.
Loops(t) ==
  IF t = UI THEN phase \in {"run", "unload"} /\ Len(stack[UI]) = base
  ELSE t \in Threaded /\ life[t] \in {"on", "quit"} /\ stack[t] = <<>>

\* LM_THREAD_BANGCOMMAND: ThreadedBangCommand::Execute
Dispatch(t) ==
  /\ Loops(t) /\ queue[t] # <<>> /\ Head(queue[t]) # Destroy
  /\ queue' = [queue EXCEPT ![t] = Tail(@)]
  /\ Lookup(t, Head(queue[t]), call[Head(queue[t])].name)
  /\ UNCHANGED <<table, life, names, phase, gen, base>>

\* A callback shows a message box (!Alert, !Confirm) or a menu: a modal loop drops the
\* messages that are for no window, a thread's WM_DESTROY too.
DropInModal(t) ==
  /\ Calling(t) /\ (t = UI => phase = "run" \/ Len(stack[UI]) > base)
  /\ queue[t] # <<>> /\ queue' = [queue EXCEPT ![t] = Tail(@)]
  /\ IF Head(queue[t]) = Destroy THEN UNCHANGED call ELSE Settle(Head(queue[t]), "lost")
  /\ UNCHANGED <<table, bang, stack, life, names, phase, gen, base>>

\* initModule returns and the thread goes to GetMessage.
InitReturns(m) ==
  /\ life[m] = "init" /\ InCode(m) /\ stack[m] = <<>>
  /\ life' = [life EXCEPT ![m] = "on"]
  /\ UNCHANGED <<table, bang, queue, stack, names, call, phase, gen, base>>

\* WM_DESTROY: quitModule begins.
ThreadQuits(m) ==
  /\ Loops(m) /\ queue[m] # <<>> /\ Head(queue[m]) = Destroy
  /\ queue' = [queue EXCEPT ![m] = Tail(@)] /\ life' = [life EXCEPT ![m] = "quitting"]
  /\ UNCHANGED <<table, bang, stack, names, call, phase, gen, base>>

\* quitModule, which has removed the module's bangs, returns.
QuitReturns(m) ==
  /\ life[m] = "quitting" /\ names[m] = {}
  /\ IF m \in Threaded THEN stack[m] = <<>> ELSE Len(stack[UI]) = base
  /\ life' = [life EXCEPT ![m] = "quit"]
  /\ UNCHANGED <<table, bang, queue, stack, names, call, phase, gen, base>>

\* WM_QUIT is retrieved after every posted message.
ThreadEnds(m) ==
  /\ m \in Threaded /\ life[m] = "quit" /\ Loops(m) /\ queue[m] = <<>>
  /\ life' = [life EXCEPT ![m] = "ended"]
  /\ UNCHANGED <<table, bang, queue, stack, names, call, phase, gen, base>>

-----------------------------------------------------------------------------
(* The main thread's recycle: unload, LSAPIReloadBangs, load.              *)

\* LM_RECYCLE is dispatched in Run, or in a modal loop of a callback, whosever it is: nobody
\* looks whether a module's callback is on the stack.
UnloadBegins ==
  /\ phase = "run" /\ gen < Len(Loads) /\ InCode(UI)
  /\ stack' = [stack EXCEPT ![UI] = [i \in DOMAIN @ |-> [@[i] EXCEPT !.under = TRUE]]]
  /\ \A m \in Loads[gen] : life[m] = "on"
  /\ phase' = "unload" /\ base' = Len(stack[UI])
  /\ queue' = [t \in Threads |-> IF t \in Loads[gen] THEN Append(queue[t], Destroy)
                                 ELSE queue[t]]
  /\ life' = [m \in Modules |-> IF m \in Loads[gen] \cap Plain THEN "quitting" ELSE life[m]]
  /\ UNCHANGED <<table, bang, names, call, gen>>

\* The threads have ended: ClearBangCommands.
ClearBangCommands ==
  /\ phase = "unload" /\ Len(stack[UI]) = base
  /\ \A m \in Loads[gen] : life[m] = IF m \in Threaded THEN "ended" ELSE "quit"
  /\ bang' = [b \in DOMAIN bang |->
                [bang[b] EXCEPT !.refs = IF b \in {table[n] : n \in Names} THEN @ - 1 ELSE @]]
  /\ table' = [n \in Names |-> NoBang]
  /\ phase' = "setup" /\ gen' = gen + 1
  /\ UNCHANGED <<queue, stack, life, names, call, base>>

SetupBangs(n) ==
  /\ phase = "setup" /\ table[n] = NoBang /\ n \in Core /\ Insert(n, Shell)
  /\ UNCHANGED <<queue, stack, life, names, call, phase, gen, base>>

LoadModules ==
  /\ phase = "setup" /\ \A n \in Core : table[n] # NoBang
  /\ phase' = "run" /\ base' = 0
  /\ life' = [m \in Modules |-> IF m \notin Loads[gen] THEN life[m]
                                ELSE IF m \in Threaded THEN "init" ELSE "on"]
  /\ UNCHANGED <<table, bang, queue, stack, names, call, gen>>

-----------------------------------------------------------------------------
Proceeds(t) == Execute(t) \/ Return(t) \/ Dispatch(t)
Quits(m)    == InitReturns(m) \/ ThreadQuits(m) \/ QuitReturns(m) \/ ThreadEnds(m)
Recycles    == ClearBangCommands \/ LoadModules \/ \E n \in Core : SetupBangs(n)

Next ==
  \/ \E m \in Modules, n \in Names : AddBangCommand(m, n) \/ RemoveBangCommand(m, n)
  \/ \E t \in Threads, n \in Names : ParseBangCommand(t, n)
  \/ \E t \in Threads : Proceeds(t) \/ DropInModal(t)
  \/ \E m \in Modules : Quits(m)
  \/ UnloadBegins \/ Recycles

Spec == Init /\ [][Next]_vars

\* Threads run on, callbacks and quitModule return.
FairSpec ==
  /\ Spec /\ WF_vars(Recycles)
  /\ \A t \in Threads : WF_vars(Proceeds(t))
  /\ \A m \in Modules : WF_vars(Quits(m))
  /\ \A m \in Modules : WF_vars(life[m] = "quitting" /\ \E n \in Names : RemoveBangCommand(m, n))

-----------------------------------------------------------------------------
Activations == UNION {{t} \X DOMAIN stack[t] : t \in Threads}
Holders(b) == Cardinality({n \in Names : table[n] = b})
              + Cardinality({x \in Activations : stack[x[1]][x[2]].id = b})

\* A Bang lives exactly as long as the table or a thread in ExecuteBangCommand has it, though
\* other threads replace or remove it, and a recycle clears the table, while it is being called
\* (BangManager.cpp:39-127).
HeldExactly == \A b \in DOMAIN bang : bang[b].refs = Holders(b)

\* No callback of a module begins after its quitModule has returned, however late a command
\* that was posted before is dispatched, and none on a thread outlives it (BangCommand.cpp:86-98,
\* ThreadedBangCommand.h:50-56): where one of a module that has been quit is still on a stack,
\* it is the main thread's and LM_RECYCLE was dispatched in a modal loop inside it
\* (litestep.cpp:1789 does not look for that).
NoneAfterQuit ==
  \A t \in Threads : \A i \in DOMAIN stack[t] :
    LET f == stack[t][i]
        by == bang[f.id].by
    IN f.at = "calling" /\ by # Shell /\ life[by] \in {"quit", "ended"} => t = UI /\ f.under

Pending(c) == c \in DOMAIN call /\ call[c].fate = "pending"

\* A command that found its bang is called, or finds none on the other thread, or is lost to a
\* message box or to a thread that has ended or not begun its loop: the main thread
\* serves it also while it waits for modules (litestep.cpp:908-945, Module.cpp:427-460).
CommandsServed == \A c \in 1..MaxCalls : Pending(c) ~> ~Pending(c)
=============================================================================
