----------------------------- MODULE ShellLoop -----------------------------
(***************************************************************************)
(* The UI thread of the shell (CLiteStep in litestep/litestep.cpp): its    *)
(* message loop, the second one that runs while it waits for modules, how  *)
(* WM_QUIT travels through both, and the recycle, which users ask for and  *)
(* a display change schedules.                                             *)
(***************************************************************************)
EXTENDS Naturals, Sequences

CONSTANTS
  MaxPosts,   \* bound: requests posted
  MaxChanges  \* bound: display changes

ASSUME LoopAssumption ==
  MaxPosts \in Nat /\ MaxChanges \in Nat

VARIABLES
  at,         \* where the UI thread is: "start", "get", "handle", "check", "exit" or "ended"
  recycles,   \* the calls of _Recycle that got through m_BlockRecycle, innermost first
  loaded,     \* the managers are started
  posted,     \* the thread's message queue
  quit,       \* the code of PostQuitMessage, until WM_QUIT is retrieved
  signalExit, quitMsg,  \* m_bSignalExit, m_nQuitMsg
  pending,    \* m_hasPendingDisplayChangeRecycle
  display, sent,        \* version of the display; WM_DISPLAYCHANGEs not yet dispatched
  built,      \* the version modules found when they were loaded
  posts       \* requests made, for the bound

quitVars    == <<quit, signalExit, quitMsg>>
displayVars == <<display, sent, built, pending>>
vars == <<at, recycles, loaded, posted, quitVars, displayVars, posts>>

NoQuit   == 99
Requests == {"LR_RECYCLE", "LR_QUIT", "LR_EXPLORER"}
Codes    == {0, 4}

TypeOK ==
  /\ at \in {"start", "get", "handle", "check", "exit", "ended"}
  /\ recycles \in Seq({"unloading", "reloading", "loading"})
  /\ posted \in Seq(Requests \cup {"other"})
  /\ quit \in Codes \cup {NoQuit} /\ quitMsg \in Codes
  /\ {loaded, signalExit, pending} \subseteq BOOLEAN
  /\ display \in 0..MaxChanges /\ built \in 0..MaxChanges /\ sent \in 0..MaxChanges
  /\ posts \in 0..MaxPosts

Init ==
  /\ at = "start" /\ recycles = <<>> /\ loaded = TRUE /\ posted = <<>>
  /\ quit = NoQuit /\ signalExit = FALSE /\ quitMsg = 0
  /\ pending = FALSE /\ display = 0 /\ sent = 0 /\ built = 0 /\ posts = 0

-----------------------------------------------------------------------------
(* What comes from outside.                                                *)

Ask(r) ==
  /\ at # "ended" /\ posts < MaxPosts
  /\ posted' = Append(posted, r) /\ posts' = posts + 1
  /\ UNCHANGED <<at, recycles, loaded, quitVars, displayVars>>

\* Shell hooks and timers; they never keep the queue from being empty for good.
OtherMessage ==
  /\ at # "ended" /\ posted = <<>> /\ quit = NoQuit /\ posted' = <<"other">>
  /\ UNCHANGED <<at, recycles, loaded, quitVars, displayVars, posts>>

DisplayChanges ==
  /\ at # "ended" /\ display < MaxChanges
  /\ display' = display + 1 /\ sent' = sent + 1
  /\ UNCHANGED <<at, recycles, loaded, posted, quitVars, built, pending, posts>>

-----------------------------------------------------------------------------
(* Dispatching.                                                            *)

\* The thread waits for modules, and PeekAllMsgs may be called.
Recycle(phase) == recycles # <<>> /\ Head(recycles) = phase
Goto(phase)    == recycles' = <<phase>> \o Tail(recycles)
Waits ==
  \/ Recycle("unloading") \/ Recycle("loading")
  \/ recycles = <<>> /\ at \in {"start", "exit"}
Gets  == at = "get" /\ recycles = <<>>

\* _ScheduleUiRecycle
ScheduleUiRecycle ==
  IF pending THEN UNCHANGED <<pending, posted>>
  ELSE pending' = TRUE /\ posted' = Append(posted, "LR_RECYCLE")

\* A sent message is dispatched inside GetMessage and PeekMessage.
HandleDisplayChange ==
  /\ Waits \/ Gets
  /\ sent > 0 /\ sent' = sent - 1 /\ ScheduleUiRecycle
  /\ UNCHANGED <<at, recycles, loaded, quitVars, display, built, posts>>

\* Slips in the helpers below, each of which breaks a property at the end.
ExitCodeRaw(r) == 1
LoadedKeepsPending == loaded' = TRUE /\ UNCHANGED pending
NoRepost == UNCHANGED quitVars
BuiltBefore == 0

\* m_BlockRecycle
Block == recycles # <<>>
ExitCode(r) == IF r = "LR_EXPLORER" THEN 4 ELSE 0

\* The handler of LM_RECYCLE; _Recycle as far as its first wait, modules having been quit.
Handle(msg) ==
  \/ /\ msg = "LR_RECYCLE" /\ ~Block
     /\ recycles' = <<"unloading">> \o recycles /\ loaded' = FALSE /\ UNCHANGED quit
  \/ /\ msg = "LR_RECYCLE" /\ Block /\ UNCHANGED <<recycles, loaded, quit>>
  \/ /\ msg \in {"LR_QUIT", "LR_EXPLORER"} /\ quit' = ExitCode(msg)
     /\ UNCHANGED <<recycles, loaded>>
  \/ /\ msg = "other" /\ UNCHANGED <<recycles, loaded, quit>>

\* GetMessage returns a message; MessageHandler is called with it.
GetMessage ==
  /\ Gets /\ sent = 0 /\ posted # <<>>
  /\ Handle(Head(posted)) /\ posted' = Tail(posted)
  /\ at' = IF recycles' = <<>> THEN "check" ELSE "handle"
  /\ UNCHANGED <<signalExit, quitMsg, displayVars, posts>>

\* The end of the loop's body: a WM_QUIT that PeekAllMsgs has met is posted again.
Repost ==
  IF signalExit THEN signalExit' = FALSE /\ quit' = quitMsg /\ UNCHANGED quitMsg
  ELSE UNCHANGED quitVars
CheckSignalExit ==
  /\ at = "check" /\ at' = "get" /\ Repost
  /\ UNCHANGED <<recycles, loaded, posted, displayVars, posts>>

\* GetMessage returns 0; Stop begins.  WM_QUIT comes after every posted message.
GetQuit ==
  /\ Gets /\ sent = 0 /\ posted = <<>> /\ quit # NoQuit
  /\ at' = "exit" /\ quit' = NoQuit /\ loaded' = FALSE
  /\ UNCHANGED <<recycles, posted, signalExit, quitMsg, displayVars, posts>>

\* One turn of PeekAllMsgs.
PeekMessage ==
  /\ Waits /\ sent = 0
  /\ \/ /\ posted # <<>> /\ Handle(Head(posted)) /\ posted' = Tail(posted)
        /\ UNCHANGED <<signalExit, quitMsg>>
     \/ /\ posted = <<>> /\ quit # NoQuit
        /\ signalExit' = TRUE /\ quitMsg' = quit /\ quit' = NoQuit
        /\ UNCHANGED <<recycles, loaded, posted>>
  /\ UNCHANGED <<at, displayVars, posts>>

-----------------------------------------------------------------------------
(* Start, Stop and _Recycle, from one wait to the next.                    *)

\* The end of _StartManagers.
Loaded == loaded' = TRUE /\ pending' = FALSE
\* The display that modules find.
Built  == display

StartDone ==
  /\ at = "start" /\ recycles = <<>> /\ at' = "get" /\ Loaded
  /\ UNCHANGED <<recycles, posted, quitVars, display, sent, built, posts>>

\* _StopManagers is done.
Unloaded ==
  /\ Recycle("unloading") /\ Goto("reloading")
  /\ UNCHANGED <<at, loaded, posted, quitVars, displayVars, posts>>

\* Bangs, settings and services are reloaded, and _StartManagers begins.
Reload ==
  /\ Recycle("reloading") /\ Goto("loading") /\ built' = Built
  /\ UNCHANGED <<at, loaded, posted, quitVars, display, sent, pending, posts>>

RecycleDone ==
  /\ Recycle("loading") /\ recycles' = Tail(recycles) /\ Loaded
  /\ at' = IF at = "handle" /\ recycles' = <<>> THEN "check" ELSE at
  /\ UNCHANGED <<posted, quitVars, display, sent, built, posts>>

ExitDone ==
  /\ at = "exit" /\ recycles = <<>> /\ at' = "ended"
  /\ UNCHANGED <<recycles, loaded, posted, quitVars, displayVars, posts>>

-----------------------------------------------------------------------------
UI ==
  \/ HandleDisplayChange \/ GetMessage \/ CheckSignalExit \/ GetQuit \/ PeekMessage
  \/ StartDone \/ Unloaded \/ Reload \/ RecycleDone \/ ExitDone
Next == UI \/ OtherMessage \/ DisplayChanges \/ \E r \in Requests : Ask(r)
Spec == Init /\ [][Next]_vars

\* The thread runs on, waits for modules end, and a shell is never without messages for ever.
FairSpec ==
  /\ Spec /\ WF_vars(UI) /\ WF_vars(OtherMessage)
  /\ WF_vars(StartDone) /\ WF_vars(Unloaded) /\ WF_vars(RecycleDone) /\ WF_vars(ExitDone)

-----------------------------------------------------------------------------
\* While a display change counts as pending, a recycle will clear the flag: else every
\* later change would be ignored (litestep.cpp:1528-1536, 1726).
PendingIsServed ==
  pending => \/ \E i \in DOMAIN posted : posted[i] = "LR_RECYCLE"
             \/ recycles # <<>> \/ at \in {"start", "ended"}

\* Who asked to quit sees the shell stop, whichever loop meets WM_QUIT
\* (litestep.cpp:796-806, 908-925).
QuitHonoured == (quit # NoQuit \/ signalExit) ~> at = "ended"

\* A display change that is dispatched while no recycle runs is followed by a recycle that
\* loads the modules after it (litestep.cpp:1525-1540).  One dispatched during a recycle may
\* be lost.
DisplayFollowed ==
  \A d \in 1..MaxChanges :
    (display = d /\ sent = 0 /\ pending /\ recycles = <<>>)
      ~> (built >= d \/ at \in {"exit", "ended"})
=============================================================================
