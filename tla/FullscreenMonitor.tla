------------------------- MODULE FullscreenMonitor -------------------------
(***************************************************************************)
(* The service that hides the modules on monitors with a fullscreen window *)
(* (litestep/FullscreenMonitor.cpp): a thread polls the windows and posts  *)
(* what it finds to the UI thread, which also recycles and stops the       *)
(* service.  Windows become and cease to be fullscreen at any time.        *)
(***************************************************************************)
EXTENDS Naturals, Sequences, FiniteSets, SequencesExt

CONSTANTS
  Windows, Monitors,
  None,       \* no monitor
  Shell,      \* stands for every window of LiteStep itself
  Places,     \* bound: the monitors each window may be on
  Fronts,     \* bound: the windows that may come to the front
  MaxPosted   \* bound: the thread pauses while more messages are pending

ASSUME MonitorAssumption ==
  /\ Places \in [Windows -> SUBSET Monitors] /\ Fronts \subseteq Windows \cup {Shell}
  /\ None \notin Monitors /\ Shell \notin Windows /\ MaxPosted \in Nat

VARIABLES
  full,        \* IsFullscreenWindow of every window
  foreground,  \* GetForegroundWindow
  pc, todo,    \* the thread's place; the windows EnumDesktopWindows has still to show
  known,       \* fullscreenWindows
  hidden,      \* hiddenMonitors, a multiset
  pos,         \* iter, as an index
  fg, checked, \* hwndForeGround and bCheckedForeGround
  run, reHide, autoHide,  \* m_bRun, m_bReHide, m_bAutoHideModules
  ui,          \* the UI thread: "pump", "unloaded", "reloaded" or "joining"
  queue,       \* what the thread has posted to it
  covered,     \* monitors whose modules were last told of a fullscreen window
  invisible    \* monitors whose modules a bang has hidden

envVars    == <<full, foreground>>
threadVars == <<pc, todo, known, hidden, pos, fg, checked>>
flagVars   == <<run, reHide, autoHide>>
uiVars     == <<ui, covered, invisible>>
vars == <<envVars, threadVars, flagVars, uiVars, queue>>

Entry  == [win : Windows, mon : Monitors]
Notice == [kind : {"!HideModules", "!ShowModules", "activated", "deactivated"},
           mon : Monitors]

TypeOK ==
  /\ full \in [Windows -> Monitors \cup {None}]
  /\ foreground \in Windows \cup {Shell} /\ fg \in Windows \cup {Shell}
  /\ pc \in {"enumerate", "poll", "verify", "foreground", "ended"} /\ todo \subseteq Windows
  /\ known \in Seq(Entry) /\ hidden \in [Monitors -> Nat]
  /\ pos \in 1..(Len(known) + 1)
  /\ {checked, run, reHide, autoHide} \subseteq BOOLEAN
  /\ ui \in {"pump", "unloaded", "reloaded", "joining"}
  /\ queue \in Seq(Notice)
  /\ covered \subseteq Monitors /\ invisible \subseteq Monitors

Init ==
  /\ full \in {f \in [Windows -> Monitors \cup {None}] : \A w \in Windows : f[w] \in Places[w] \cup {None}}
  /\ foreground \in Fronts
  /\ pc = "enumerate" /\ todo = Windows /\ known = <<>> /\ hidden = [m \in Monitors |-> 0]
  /\ pos = 1 /\ fg = Shell /\ checked = FALSE
  /\ run = TRUE /\ reHide = FALSE /\ autoHide \in BOOLEAN
  /\ ui = "pump" /\ queue = <<>> /\ covered = {} /\ invisible = {}

-----------------------------------------------------------------------------
(* The desktop (external).                                                 *)

WindowChanges ==
  /\ \E w \in Windows : \E m \in Places[w] \cup {None} : full' = [full EXCEPT ![w] = m]
  /\ UNCHANGED <<foreground, threadVars, flagVars, uiVars, queue>>

ForegroundChanges ==
  /\ foreground' \in Fronts
  /\ UNCHANGED <<full, threadVars, flagVars, uiVars, queue>>

-----------------------------------------------------------------------------
(* What the thread posts: a bang for the UI thread, while LSAutoHideModules *)
(* is on, and a message for the modules.                                   *)

Told(bang, message, m) ==
  LET said == [kind |-> message, mon |-> m]
  IN  IF autoHide THEN <<[kind |-> bang, mon |-> m], said>> ELSE <<said>>
HideModules(m) == Told("!HideModules", "activated", m)
ShowModules(m) == Told("!ShowModules", "deactivated", m)

\* The same for each of a set of elements, which are monitors <<m, k>> that may repeat.
OnEach(bang, message, es) ==
  LET order == SetToSeq(es) n == Cardinality(es) IN
  IF autoHide THEN [i \in 1..(2 * n) |-> [kind |-> IF i % 2 = 1 THEN bang ELSE message,
                                         mon |-> order[(i + 1) \div 2][1]]]
              ELSE [i \in 1..n |-> [kind |-> message, mon |-> order[i][1]]]

\* The elements of the multiset hiddenMonitors
Elements == UNION {{m} \X (1..hidden[m]) : m \in Monitors}

On(m)         == {i \in DOMAIN known : known[i].mon = m}
KnownMonitors == {known[i].mon : i \in DOMAIN known}

\* Slips in the helpers below, each of which breaks a property at the end.
InsertAndHideSecond(h, m) == IF h[m] = 1 THEN HideModules(m) ELSE <<>>
InsertAndHideAlways(h, m) == HideModules(m)
HideAllSilently ==
  hidden' = [m \in Monitors |-> Cardinality(On(m))] /\ UNCHANGED queue
EraseNothing(h, m) == h
AfterEraseSkips(i) == i + 1

\* insert(m), and hide if that made count(m) == 1
InsertAndHide(h, m) == IF h[m] = 0 THEN HideModules(m) ELSE <<>>

\* Fill hiddenMonitors from the known windows; one call per monitor.
HideAll ==
  /\ hidden' = [m \in Monitors |-> Cardinality(On(m))]
  /\ queue' = queue \o OnEach("!HideModules", "activated", KnownMonitors \X {1})

\* unordered_multiset::erase(key) removes every element that equals the key.
EraseMonitor(h, m) == [h EXCEPT ![m] = 0]

\* iter = erase(iter); continue
AfterErase(i) == i

\* The callback of EnumDesktopWindows.
EnumerateOne(w) ==
  /\ pc = "enumerate" /\ w \in todo
  /\ todo' = todo \ {w}
  /\ known' = IF full[w] = None THEN known ELSE Append(known, [win |-> w, mon |-> full[w]])
  /\ UNCHANGED <<envVars, pc, hidden, pos, fg, checked, flagVars, uiVars, queue>>

HideFound ==
  /\ pc = "enumerate" /\ todo = {} /\ pc' = "poll"
  /\ HideAll
  /\ UNCHANGED <<envVars, todo, known, pos, fg, checked, flagVars, uiVars>>

\* A loop that goes on whatever m_bRun says.
PollForever ==
  /\ pc = "poll" /\ Len(queue) <= MaxPosted
  /\ pc' = "verify" /\ pos' = 1 /\ fg' = foreground /\ checked' = FALSE
  /\ UNCHANGED <<envVars, todo, known, hidden, flagVars, uiVars, queue>>

\* The head of the main loop.  m_bReHide is never reset.
Poll ==
  /\ pc = "poll" /\ run /\ Len(queue) <= MaxPosted
  /\ pc' = "verify" /\ pos' = 1 /\ fg' = foreground /\ checked' = FALSE
  /\ IF reHide THEN HideAll ELSE UNCHANGED <<hidden, queue>>
  /\ UNCHANGED <<envVars, todo, known, flagVars, uiVars>>

End ==
  /\ pc = "poll" /\ ~run /\ pc' = "ended"
  /\ UNCHANGED <<envVars, todo, known, hidden, pos, fg, checked, flagVars, uiVars, queue>>

\* One known window is looked at again.
VerifyOne ==
  /\ pc = "verify" /\ pos <= Len(known)
  /\ checked' = (checked \/ known[pos].win = fg)
  /\ LET old   == known[pos].mon
         new   == full[known[pos].win]
         left  == EraseMonitor(hidden, old)
         shown == IF left[old] = 0 THEN ShowModules(old) ELSE <<>>
     IN  \/ /\ new = old /\ pos' = pos + 1
            /\ UNCHANGED <<known, hidden, queue>>
         \/ /\ new \notin {old, None} /\ pos' = pos + 1
            /\ known' = [known EXCEPT ![pos].mon = new]
            /\ hidden' = [left EXCEPT ![new] = @ + 1]
            /\ queue' = queue \o shown \o InsertAndHide(left, new)
         \/ /\ new = None /\ new # old
            /\ known' = RemoveAt(known, pos) /\ hidden' = left
            /\ queue' = queue \o shown /\ pos' = AfterErase(pos)
  /\ UNCHANGED <<envVars, pc, todo, fg, flagVars, uiVars>>

\* The foreground window is looked at whether or not it is known.
VerifyDoneUnchecked ==
  /\ pc = "verify" /\ pos > Len(known) /\ pc' = "foreground" /\ pos' = 1
  /\ UNCHANGED <<envVars, todo, known, hidden, fg, checked, flagVars, uiVars, queue>>
VerifyDone ==
  /\ pc = "verify" /\ pos > Len(known)
  /\ pc' = IF checked THEN "poll" ELSE "foreground"
  /\ pos' = 1
  /\ UNCHANGED <<envVars, todo, known, hidden, fg, checked, flagVars, uiVars, queue>>

\* A window of LiteStep is active: all modules are shown, if any is hidden, once for
\* every element of the multiset.
ShellInFront ==
  /\ pc = "foreground" /\ fg = Shell /\ pc' = "poll"
  /\ queue' = queue \o OnEach("!ShowModules", "deactivated", Elements)
  /\ hidden' = [m \in Monitors |-> 0]
  /\ known' = IF Elements = {} THEN known ELSE <<>>
  /\ UNCHANGED <<envVars, todo, pos, fg, checked, flagVars, uiVars>>

\* Any other window is active, and not known yet.
OtherInFront ==
  /\ pc = "foreground" /\ fg # Shell /\ pc' = "poll"
  /\ LET m == full[fg]
     IN  \/ m = None /\ UNCHANGED <<known, hidden, queue>>
         \/ /\ m # None
            /\ known' = Append(known, [win |-> fg, mon |-> m])
            /\ hidden' = [hidden EXCEPT ![m] = @ + 1]
            /\ queue' = queue \o InsertAndHide(hidden, m)
  /\ UNCHANGED <<envVars, todo, pos, fg, checked, flagVars, uiVars>>

-----------------------------------------------------------------------------
(* The UI thread.                                                          *)

\* The message pump hands the next posted message to the bang or the modules.
Dispatch ==
  /\ ui = "pump" /\ queue # <<>>
  /\ queue' = Tail(queue)
  /\ LET kind == Head(queue).kind
         m    == {Head(queue).mon}
     IN  /\ covered' = CASE kind = "activated"   -> covered \cup m
                         [] kind = "deactivated" -> covered \ m
                         [] OTHER                -> covered
         /\ invisible' = CASE kind = "!HideModules" -> invisible \cup m
                           [] kind = "!ShowModules" -> invisible \ m
                           [] OTHER                 -> invisible
  /\ UNCHANGED <<envVars, threadVars, flagVars, ui>>

\* CLiteStep::_Recycle unloads the modules, whose windows go, ...
Unload ==
  /\ ui = "pump" /\ ui' = "unloaded" /\ covered' = {} /\ invisible' = {}
  /\ UNCHANGED <<envVars, threadVars, flagVars, queue>>

\* ... reads the settings again and recycles the services, ...
Recycle ==
  /\ ui = "unloaded" /\ ui' = "reloaded"
  /\ autoHide' \in BOOLEAN
  /\ invisible' = IF autoHide /\ ~autoHide' THEN {} ELSE invisible
  /\ reHide' = TRUE
  /\ UNCHANGED <<envVars, threadVars, run, covered, queue>>

\* ... and loads the modules again.
Load ==
  /\ ui = "reloaded" /\ ui' = "pump"
  /\ UNCHANGED <<envVars, threadVars, flagVars, covered, invisible, queue>>

\* Stop asks the thread to end and joins it.
Stop ==
  /\ ui = "pump" /\ ui' = "joining" /\ run' = FALSE
  /\ UNCHANGED <<envVars, threadVars, reHide, autoHide, covered, invisible, queue>>

-----------------------------------------------------------------------------
ThreadProc ==
  \/ \E w \in Windows : EnumerateOne(w)
  \/ HideFound \/ Poll \/ End \/ VerifyOne \/ VerifyDone \/ ShellInFront \/ OtherInFront

Next ==
  \/ WindowChanges \/ ForegroundChanges
  \/ ThreadProc
  \/ Dispatch \/ Unload \/ Recycle \/ Load \/ Stop

Spec == Init /\ [][Next]_vars

\* Both threads run; the desktop, the user's recycles and the end are free.
FairSpec ==
  Spec /\ WF_vars(ThreadProc) /\ WF_vars(Dispatch) /\ WF_vars(Recycle) /\ WF_vars(Load)

-----------------------------------------------------------------------------
(* Properties.                                                             *)

\* The monitors whose modules will know of a fullscreen window once the UI thread has
\* caught up: from one of the messages about the monitor on, all say so.
News(q, m) == {i \in 1..Len(q) : q[i].mon = m /\ q[i].kind \in {"activated", "deactivated"}}
CoveredSoon ==
  {m \in Monitors :
     IF News(queue, m) = {} THEN m \in covered
     ELSE \E i \in News(queue, m) : \A j \in News(queue, m) : i <= j => queue[j].kind = "activated"}

\* What the modules are told is what the thread holds for hidden, until a
\* recycle replaces the modules (FullscreenMonitor.cpp:209-236, 271-335).
TellsWhatItHolds ==
  (~reHide /\ ui \in {"pump", "joining"})
    => \A m \in Monitors : m \in CoveredSoon <=> hidden[m] > 0

\* Modules are hidden only for a known window, and a window counts once, though it
\* is found by enumeration and again as the foreground window: no monitor stays in
\* the multiset without one (FullscreenMonitor.cpp:264-296, 302, 315-325).
HiddenForAReason ==
  \A m \in Monitors : hidden[m] <= Cardinality({known[i].win : i \in On(m)})

\* Modules are hidden wherever a known window is fullscreen, since they are
\* shown only "if there are no fullscreen windows left on the monitor"
\* (FullscreenMonitor.cpp:275).
HiddenWhereFullscreen ==
  (pc = "poll" /\ ~reHide /\ ui = "pump") => KnownMonitors \subseteq CoveredSoon

\* Before a recycle the modules of a monitor are not told twice in a row that
\* it has a fullscreen window (FullscreenMonitor.cpp:232, 286, 329).
ToldOnce ==
  [][\A m \in Monitors :
       (~reHide /\ ui = "pump" /\ Len(queue') > Len(queue)
         /\ \E i \in Len(queue)+1..Len(queue') : queue'[i] = [kind |-> "activated", mon |-> m])
       => m \notin CoveredSoon \/ \E i \in Len(queue)+1..Len(queue') :
                                     queue'[i] = [kind |-> "deactivated", mon |-> m]]_vars

\* When no window is fullscreen any more, the modules learn it, whatever the
\* thread was doing (FullscreenMonitor.cpp:258-299).
ModulesReturn ==
  <>[](run /\ ui = "pump" /\ \A w \in Windows : full[w] = None) => <>[](covered = {})

\* After a recycle the new modules learn of the fullscreen window in front,
\* again and again if other windows come and go (FullscreenMonitor.cpp:244-256).
HiddenAgain ==
  \A w \in Windows, m \in Monitors :
    <>[](run /\ reHide /\ ui = "pump" /\ foreground = w /\ full[w] = m) => []<>(m \in covered)

\* Stop's join returns: the thread waits for nothing the UI thread would have to
\* do (FullscreenMonitor.cpp:163-183, 239, 359-365).
StopReturns == (ui = "joining") ~> (pc = "ended")
=============================================================================
