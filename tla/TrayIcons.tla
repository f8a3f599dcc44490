------------------------------ MODULE TrayIcons ------------------------------
(***************************************************************************)
(* Notification icons: the tray service's list of them (TrayService.cpp,   *)
(* TrayNotifyIcon.cpp in litestep/), the message manager that hands its    *)
(* changes to the windows registered for LM_SYSTRAY (MessageManager.cpp),  *)
(* and the list that a system tray module builds from them                 *)
(* (modules/SysTray/TrayManager.cpp).                                      *)
(*                                                                         *)
(* While the main thread waits for a module on another thread to handle a  *)
(* message, it dispatches what programs send: further notifications.       *)
(***************************************************************************)
EXTENDS Naturals, Sequences, FiniteSets, SequencesExt

CONSTANTS
  Listeners,   \* windows of system tray modules, a sequence in the order of a set<HWND>
  Threaded,    \* those on a thread of their own
  Windows,     \* the programs' windows
  Identities,  \* the [win, guid] icons are added under, one per window
  Aliases,     \* what else programs refer to them by: the window alone
  Handles,     \* icon handles
  None,        \* no GUID, no icon, nothing to change
  MaxAsks      \* bound: notifications by programs

Lsn   == ToSet(Listeners)
Guids == {i.guid : i \in Identities} \cup {None}
Maybe == Handles \cup {None}

\* A window has one identity, and a GUID one window.  What this excludes: a program that is
\* started again and uses its GUID under a new window while the old icon is still in
\* m_siVector (findIcon, TrayService.cpp:2331) or in a tray (TrayManager::AddIcon).
ASSUME TrayAssumption ==
  /\ Listeners \in Seq(Lsn) /\ IsInjective(Listeners) /\ Threaded \subseteq Lsn
  /\ Identities \subseteq [win : Windows, guid : Guids]
  /\ \A i, j \in Identities : i.win = j.win \/ (i.guid = j.guid /\ i.guid # None) => i = j
  /\ Aliases \subseteq [win : Windows, guid : {None}]
  /\ None \notin Handles \cup Windows /\ MaxAsks \in Nat

\* What ShowsWhatIsThere needs: a tray with a thread of its own is the last in the set.  Before
\* another one, a notification dispatched meanwhile would reach that one before the outer one.
ThreadedLast == \A i \in 1..Len(Listeners) : Listeners[i] \in Threaded => i = Len(Listeners)

VARIABLES
  window,      \* of a program's window: "unborn", "alive" or "dead"
  icons,       \* m_siVector
  registered,  \* the message manager's set of windows for LM_SYSTRAY
  life,        \* of a listener: "off", "starting", "asking" or "on"
  shown,       \* sCurrentIcons of each listener
  inbox,       \* messages sent to it and not yet handled
  stack,       \* the calls of notify on the main thread, innermost first
  asks         \* notifications made, for the bound

vars == <<window, icons, registered, life, shown, inbox, stack, asks>>

\* setVersionIcon's std::max, and a slip that stores what was asked for
VersionAsked == 3
Version4     == 4

\* NotifyIcon: hidden (NIS_HIDDEN) and shared (NIS_SHAREDICON) are values of state.
Icon  == [win : Windows, guid : Guids, icon : Maybe, state : {"plain", "hidden", "shared"},
          version : {0, 4}]
Copy  == [win : Windows, guid : Guids, icon : Maybe, version : {0, 4}]
\* LSNOTIFYICONDATA with the NIM_ code; guid and icon are None where the flag is not set.
Msg   == [nim : {"add", "modify", "delete", "version"}, win : Windows, guid : Guids, icon : Maybe]
Frame == [op : {"notify", "delete", "resend"}, it : Nat, msg : Msg, todo : Seq(Lsn),
          sent : BOOLEAN, for : Lsn \cup {None}]

TypeOK ==
  /\ window \in [Windows -> {"unborn", "alive", "dead"}]
  /\ icons \in Seq(Icon) /\ registered \subseteq Lsn
  /\ life \in [Lsn -> {"off", "starting", "asking", "on"}]
  /\ shown \in [Lsn -> Seq(Copy)] /\ inbox \in [Lsn -> Seq(Msg)]
  /\ stack \in Seq(Frame) /\ \A i \in DOMAIN stack : stack[i].it \in 0..Len(icons)
  /\ asks \in 0..MaxAsks

Init ==
  /\ window = [w \in Windows |-> "unborn"] /\ icons = <<>> /\ registered = {}
  /\ life = [l \in Lsn |-> "off"] /\ shown = [l \in Lsn |-> <<>>] /\ inbox = [l \in Lsn |-> <<>>]
  /\ stack = <<>> /\ asks = 0

-----------------------------------------------------------------------------
(* Looking up, in the service and in a module alike.                       *)

\* "If the GUID is valid, we ignore the uID and hWnd" (a program uses one uID here).
Matches(x, id) == IF id.guid # None THEN x.guid = id.guid ELSE x.win = id.win

Found(list, id) ==
  LET at == {i \in DOMAIN list : Matches(list[i], id)} IN
  IF at = {} THEN 0 ELSE CHOOSE i \in at : \A j \in at : i <= j

\* NotifyIcon::IsValid, and a slip that forgets the icon
ValidShown(i) == i.state # "hidden"
Valid(i) == i.icon # None /\ i.state # "hidden"

\* NotifyIcon::Update.  A shared icon is taken from an icon that has that handle.
Update(i, state, icon) ==
  LET new    == IF state = None THEN i.state ELSE state
      shared == new = "shared" /\ icon # None
  IN  [i EXCEPT !.state = new,
                !.icon = IF icon = "keep" THEN @
                         ELSE IF shared /\ \A j \in DOMAIN icons : icons[j].icon # icon THEN @
                         ELSE icon]

\* CopyLSNID, whole or as far as the flags of a notification go
AddOf(i)            == [nim |-> "add", win |-> i.win, guid |-> i.guid, icon |-> i.icon]
ModifyOf(i, id, ic) == [nim |-> "modify", win |-> i.win, guid |-> id.guid,
                        icon |-> IF ic = "keep" THEN None ELSE i.icon]
KeyOf(nim, i, id)   == [nim |-> nim, win |-> i.win, guid |-> id.guid, icon |-> None]
VersionOf(i)        == [nim |-> "version", win |-> i.win, guid |-> None, icon |-> None]

\* The elements at the places ks, in order: SelectSeq as a function that proofs can expand.
Kept(list, ks) ==
  LET kept[k \in 0..Len(list)] == IF k = 0 THEN <<>>
                                  ELSE IF k \in ks THEN Append(kept[k - 1], list[k]) ELSE kept[k - 1]
  IN  kept[Len(list)]

-----------------------------------------------------------------------------
(* A module's list: TrayManager::ShellMessage.                             *)

Handled(list, m) ==
  LET k == Found(list, m) IN
  CASE m.nim = "add" /\ k = 0 ->
         Append(list, [win |-> m.win, guid |-> m.guid, icon |-> m.icon, version |-> 0])
    [] m.nim = "modify" /\ k # 0 /\ m.icon # None -> [list EXCEPT ![k].icon = m.icon]
    [] m.nim = "delete" /\ k # 0 -> RemoveAt(list, k)
    [] m.nim = "version" /\ k # 0 -> [list EXCEPT ![k].version = Version4]
    [] OTHER -> list

-----------------------------------------------------------------------------
(* notify: MessageManager::SendMessage over a copy of the set.             *)

Top     == Head(stack)
Targets == Kept(Listeners, {k \in DOMAIN Listeners : Listeners[k] \in registered})
Call(op, it, msg, for) ==
  [op |-> op, it |-> it, msg |-> msg, todo |-> Targets, sent |-> FALSE, for |-> for]
Push(f)    == stack' = <<f>> \o stack
Replace(f) == stack' = <<f>> \o Tail(stack)

\* ::SendMessage: a window of the main thread is called; to one of another thread the
\* message is sent; one that is gone is passed over.
SendNext ==
  /\ stack # <<>> /\ Top.todo # <<>> /\ ~Top.sent
  /\ LET l == Head(Top.todo) IN
     \/ /\ life[l] = "off" /\ Replace([Top EXCEPT !.todo = Tail(@)]) /\ UNCHANGED <<shown, inbox>>
     \/ /\ life[l] # "off" /\ l \notin Threaded
        /\ shown' = [shown EXCEPT ![l] = Handled(@, Top.msg)]
        /\ Replace([Top EXCEPT !.todo = Tail(@)]) /\ UNCHANGED inbox
     \/ /\ life[l] # "off" /\ l \in Threaded
        /\ inbox' = [inbox EXCEPT ![l] = Append(@, Top.msg)]
        /\ Replace([Top EXCEPT !.sent = TRUE]) /\ UNCHANGED shown
  /\ UNCHANGED <<window, icons, registered, life, asks>>

\* The module's thread handles what was sent to it, in that order.
HandleSent(l) ==
  /\ inbox[l] # <<>>
  /\ shown' = [shown EXCEPT ![l] = Handled(@, Head(inbox[l]))]
  /\ inbox' = [inbox EXCEPT ![l] = Tail(@)]
  /\ UNCHANGED <<window, icons, registered, life, stack, asks>>

Answered ==
  /\ stack # <<>> /\ Top.sent /\ inbox[Head(Top.todo)] = <<>>
  /\ Replace([Top EXCEPT !.todo = Tail(@), !.sent = FALSE])
  /\ UNCHANGED <<window, icons, registered, life, shown, inbox, asks>>

-----------------------------------------------------------------------------
(* HandleNotification.                                                     *)

\* The window procedure of the tray is called: from the message loop, or while the main
\* thread waits for an answer.  What would change m_siVector is left out where a call
\* below still has an iterator (delete, resend).
Iterates == \E i \in DOMAIN stack : stack[i].op \in {"delete", "resend"}
Free     == stack = <<>> /\ \A l \in Lsn \ Threaded : life[l] # "starting"
Waits    == stack # <<>> /\ Top.sent
\* A program's call returns when the tray has handled it: it has one at a time.
Asks(w)  == /\ asks < MaxAsks /\ asks' = asks + 1 /\ window[w] = "alive"
            /\ \A i \in DOMAIN stack : stack[i].op # "resend" => stack[i].msg.win # w

addIcon(id, state, icon) ==
  /\ Asks(id.win) /\ (Free \/ (Waits /\ ~Iterates))
  /\ Found(icons, id) = 0
  /\ LET i == Update([win |-> id.win, guid |-> id.guid, icon |-> None, state |-> "plain",
                      version |-> 0], state, icon) IN
     /\ i.state = "shared" => i.icon # None
     /\ icons' = Append(icons, i)
     /\ IF Valid(i) THEN Push(Call("notify", 0, AddOf(i), None)) ELSE UNCHANGED stack
  /\ UNCHANGED <<window, registered, life, shown, inbox>>

Modified(old, new, id, icon) ==
  IF Valid(new) THEN IF Valid(old) THEN <<ModifyOf(new, id, icon)>> ELSE <<AddOf(new)>>
  ELSE IF Valid(old) THEN <<KeyOf("delete", new, id)>> ELSE <<>>

modifyIcon(id, state, icon) ==
  /\ Asks(id.win) /\ (Free \/ Waits)
  /\ LET k == Found(icons, id) IN
     /\ k # 0
     /\ LET i == Update(icons[k], state, icon) IN
        /\ icons' = [icons EXCEPT ![k] = i]
        /\ LET ms == Modified(icons[k], i, id, icon) IN
           IF ms = <<>> THEN UNCHANGED stack ELSE Push(Call("notify", 0, ms[1], None))
  /\ UNCHANGED <<window, registered, life, shown, inbox>>

\* The listeners are told first; the icon goes when they have answered.
deleteIcon(id) ==
  /\ Asks(id.win) /\ (Free \/ (Waits /\ ~Iterates))
  /\ Found(icons, id) # 0
  /\ LET k == Found(icons, id) IN Push(Call("delete", k, KeyOf("delete", icons[k], id), None))
  /\ UNCHANGED <<window, icons, registered, life, shown, inbox>>

\* Whatever version is asked for, 4 is stored and passed on, to the icon of that window: the
\* message has no GUID.  Nothing is done for version 0, nor for a structure that has no version.
setVersionIcon(id, requested) ==
  /\ Asks(id.win) /\ (Free \/ Waits)
  /\ Found(icons, id) # 0
  /\ LET k == Found(icons, id) IN
     IF requested = 0 THEN UNCHANGED <<icons, stack>>
     ELSE /\ icons' = [icons EXCEPT ![k].version = Version4]
          /\ Push(Call("notify", 0, VersionOf(icons[k]), None))
  /\ UNCHANGED <<window, registered, life, shown, inbox>>

\* notify has returned to its caller.
ValidAfter(k) == {j \in DOMAIN icons : j > k /\ Valid(icons[j])}
Resume(k) ==
  IF ValidAfter(k) = {} THEN <<>>
  ELSE LET j == CHOOSE j \in ValidAfter(k) : \A n \in ValidAfter(k) : j <= n
       IN  <<Call("resend", j, AddOf(icons[j]), Top.for)>>

Notified ==
  /\ stack # <<>> /\ Top.todo = <<>>
  /\ \/ Top.op = "notify" /\ stack' = Tail(stack) /\ UNCHANGED <<icons, life>>
     \/ Top.op = "delete" /\ stack' = Tail(stack) /\ icons' = RemoveAt(icons, Top.it)
        /\ UNCHANGED life
     \/ /\ Top.op = "resend" /\ Top.msg.nim = "add" /\ icons[Top.it].version # 0
        /\ Replace(Call("resend", Top.it, [Top.msg EXCEPT !.nim = "version", !.icon = None], Top.for))
        /\ UNCHANGED <<icons, life>>
     \/ /\ Top.op = "resend" /\ (Top.msg.nim = "version" \/ icons[Top.it].version = 0)
        /\ stack' = Resume(Top.it) \o Tail(stack)
        /\ life' = IF ValidAfter(Top.it) = {} THEN [life EXCEPT ![Top.for] = "on"] ELSE life
        /\ UNCHANGED icons
  /\ UNCHANGED <<window, registered, shown, inbox, asks>>

-----------------------------------------------------------------------------
(* A system tray module's life.                                            *)

\* LM_REGISTERMESSAGE, when its window is created
Register(l) ==
  /\ Free /\ life[l] = "off"
  /\ life' = [life EXCEPT ![l] = "starting"] /\ registered' = registered \cup {l}
  /\ UNCHANGED <<window, icons, shown, inbox, stack, asks>>

\* LM_SYSTRAYREADY: SendSystemTray, which first drops dead icons
SendSystemTray(l) ==
  /\ life[l] = "starting" /\ (stack = <<>> \/ (l \in Threaded /\ Waits /\ ~Iterates))
  /\ l \in Threaded => \A k \in Lsn \ Threaded : life[k] # "starting"
  /\ LET left  == Kept(icons, {k \in DOMAIN icons : window[icons[k].win] = "alive"})
         valid == {k \in DOMAIN left : Valid(left[k])} IN
     /\ icons' = left
     /\ IF valid = {} THEN life' = [life EXCEPT ![l] = "on"] /\ UNCHANGED stack
        ELSE LET k == CHOOSE k \in valid : \A n \in valid : k <= n IN
             /\ Push(Call("resend", k, AddOf(left[k]), l))
             /\ life' = [life EXCEPT ![l] = "asking"]
  /\ UNCHANGED <<window, registered, shown, inbox, asks>>

\* quitModule: LM_UNREGISTERMESSAGE, when the window is destroyed
Unregister(l) ==
  /\ life[l] = "on" /\ (Free \/ (l \in Threaded /\ Waits))
  /\ life' = [life EXCEPT ![l] = "off"] /\ registered' = registered \ {l}
  /\ shown' = [shown EXCEPT ![l] = <<>>] /\ inbox' = [inbox EXCEPT ![l] = <<>>]
  /\ UNCHANGED <<window, icons, stack, asks>>

\* The mouse moves over an icon whose window is gone.
MouseOverDead(l) ==
  /\ life[l] = "on" /\ inbox[l] = <<>> /\ (l \in Threaded \/ stack = <<>>)
  /\ \E k \in DOMAIN shown[l] :
       /\ window[shown[l][k].win] = "dead"
       /\ shown' = [shown EXCEPT ![l] = Handled(@, KeyOf("delete", @[k], @[k]))]
  /\ UNCHANGED <<window, icons, registered, life, inbox, stack, asks>>

\* Programs come and go; one that goes may leave its icon behind.
WindowChanges(w) ==
  /\ \/ window[w] = "unborn" /\ window' = [window EXCEPT ![w] = "alive"]
     \/ window[w] = "alive"  /\ window' = [window EXCEPT ![w] = "dead"]
  /\ UNCHANGED <<icons, registered, life, shown, inbox, stack, asks>>

-----------------------------------------------------------------------------
HandleNotification ==
  \/ \E id \in Identities, s \in {None, "hidden", "shared"}, h \in Maybe : addIcon(id, s, h)
  \/ \E id \in Identities \cup Aliases :
       \/ \E s \in {None, "plain", "hidden"}, h \in Maybe \cup {"keep"} : modifyIcon(id, s, h)
       \/ deleteIcon(id) \/ \E v \in {0, VersionAsked} : setVersionIcon(id, v)

Next ==
  \/ HandleNotification \/ SendNext \/ Answered \/ Notified
  \/ \E l \in Lsn : HandleSent(l) \/ Register(l) \/ SendSystemTray(l) \/ Unregister(l)
                    \/ MouseOverDead(l)
  \/ \E w \in Windows : WindowChanges(w)

Spec == Init /\ [][Next]_vars

-----------------------------------------------------------------------------
Rest  == stack = <<>>
Key(x) == <<x.win, x.guid, x.icon>>
Live(list) == {k \in DOMAIN list : window[list[k].win] # "dead"}

\* At rest every system tray shows just the icons that are to be seen, each once and with
\* its last image, wherever in their lives trays and icons have come and gone, and though
\* notifications arrive inside others (TrayService.cpp:1895-1936, 2076-2214, MessageManager.cpp:102-123).
\* Icons of dead windows are left to the mouse.  A tray knows no other version than the
\* program's, but not always that: an icon that becomes visible is sent without it.
ShowsWhatIsThere ==
  Rest => \A l \in Lsn : life[l] = "on" =>
    LET there == {k \in Live(icons) : Valid(icons[k])}
        here  == Live(shown[l]) IN
    /\ {Key(icons[k]) : k \in there} = {Key(shown[l][k]) : k \in here}
    /\ Cardinality(there) = Cardinality(here)
    /\ \A i \in there, k \in here :
         icons[i].win = shown[l][k].win => shown[l][k].version \in {0, icons[i].version}
=============================================================================
