------------------------------ MODULE AppBars ------------------------------
(***************************************************************************)
(* The application bars of the tray service (litestep/TrayService.cpp):    *)
(* windows of other processes that reserve a strip along an edge of a      *)
(* monitor.  The service gives each bar its place, tells the others when   *)
(* one moves, and sets the work area of the monitor to what is left.       *)
(*                                                                         *)
(* Bars talk to the service with sent messages, which the UI thread        *)
(* dispatches in its pump and also while its own SendMessage to a bar      *)
(* waits; the notifications it posts to itself wait for the pump.          *)
(***************************************************************************)
EXTENDS Integers, SequencesExt

CONSTANTS
  Windows,    \* windows of applications
  Monitors, Primary,
  Edges,      \* the edges bars are put at
  Places,     \* <<edge, monitor>>: where users and applications put bars
  Size,       \* every monitor is Size x Size; a bar is 1 broad
  WorkAreas,  \* what other programs set the primary work area to
  MaxMoves,   \* bound: moves the users ask for
  MaxEvents   \* bound: registrations of a window after its first, removals, deaths,
              \* requests to be an autohide bar, external work areas

None  == "none"
Sides == {"left", "top", "right", "bottom"}

ASSUME BarsAssumption ==
  /\ Primary \in Monitors /\ Edges \subseteq Sides /\ Places \subseteq Edges \X Monitors
  /\ None \notin Windows \cup Monitors \cup Edges
  /\ Size \in Nat \ {0} /\ {MaxMoves, MaxEvents} \subseteq Nat
  /\ WorkAreas \subseteq [Sides -> Int]

VARIABLES
  bars,       \* m_abVector, oldest first
  area,       \* the system's work area of each monitor
  def, cur,   \* m_rWorkAreaDef, m_rWorkAreaCur
  sent,       \* WM_SETTINGCHANGEs of others not yet dispatched
  posted,     \* ABP_NOTIFYPOSCHANGED in the queue
  loop,       \* the handler of ABP_NOTIFYPOSCHANGED on the stack, or NoLoop
  told,       \* windows that got ABN_POSCHANGED and have not answered
  alive,      \* windows that exist
  external,   \* ghost: the work area set last by another program
  astray,     \* ghost: bars placed as if behind newer ones, or that one has forsaken
  unadjusted, \* ghost: monitors where a bar has gone or turned without a notification
  known,      \* windows that have been bars
  moves, events   \* counts, for the bounds

areaVars == <<area, def, cur, external>>
sysVars  == <<told, alive>>
ghosts   == <<unadjusted, astray>>
counts   == <<known, moves, events>>
vars == <<bars, areaVars, sent, posted, loop, sysVars, ghosts, counts>>

-----------------------------------------------------------------------------
(* Rectangles, relative to their monitor.                                  *)

Opposite == [left |-> "right", right |-> "left", top |-> "bottom", bottom |-> "top"]
Inward   == [left |-> 1, top |-> 1, right |-> -1, bottom |-> -1]
Screen   == [left |-> 0, top |-> 0, right |-> Size, bottom |-> Size]

\* Bars at edges that face each other do not yield to each other (modifyNormalBar).
NoneFacing == \A e \in Edges : Opposite[e] \notin Edges

\* Bars that share a point with inner area.
Intersect(r, s) ==
  \A a \in {"left", "top"} : LET z == Opposite[a] IN
     r[a] < r[z] /\ s[a] < s[z] /\ r[a] < s[z] /\ s[a] < r[z]

\* r without the strip from the edge e of the monitor to where the bar ends.
Subtract(r, e, bar) ==
  LET end == bar[Opposite[e]] IN
  IF Inward[e] * (end - r[e]) > 0 THEN [r EXCEPT ![e] = end] ELSE r

-----------------------------------------------------------------------------
(* The bars.                                                               *)

NewBar(w) == [win |-> w, edge |-> None, mon |-> None, rect |-> Screen,
              clean |-> FALSE, overlap |-> FALSE, autohide |-> FALSE]

IsBar(bs, w) == \E i \in DOMAIN bs : bs[i].win = w
IndexOf(bs, w) == CHOOSE i \in DOMAIN bs : bs[i].win = w
Bar(w) == bars[IndexOf(bars, w)]

\* Placed bars that take room: what adjustWorkArea and modifyNormalBar look at.
TakesRoom(b, m) == ~b.overlap /\ b.mon = m /\ b.clean

\* modifyBarBreadth
Broad(r, e) == [r EXCEPT ![Opposite[e]] = r[e] + Inward[e]]

\* modifyNormalBar: dst after the bars bs, for window w at edge e of m.  The bar
\* asked for the whole edge, so modifyBarExtent leaves the rectangle as it is.
Base(m) == IF m = Primary THEN def ELSE Screen
Horizontal(e) == e \in {"top", "bottom"}
Yield(b, e, s) ==
  CASE b.edge = e /\ ~s.found -> [s EXCEPT !.dst[e] = b.rect[Opposite[e]]]
    [] b.edge # e /\ ~Horizontal(e) /\ Horizontal(b.edge) /\ Intersect(b.rect, s.dst)
         -> [s EXCEPT !.dst[b.edge] = b.rect[Opposite[b.edge]]]
    [] OTHER -> s
NormalRect(bs, w, e, m) ==
  LET Step(s, b) ==
        CASE b.win = w /\ ~b.overlap /\ b.mon = m -> [s EXCEPT !.found = TRUE]
          [] b.win # w /\ TakesRoom(b, m) -> Yield(b, e, s)
          [] OTHER -> s
      after[i \in 0 .. Len(bs)] ==
        IF i = 0 THEN [dst |-> Base(m), found |-> FALSE] ELSE Step(after[i - 1], bs[i])
  IN Broad(after[Len(bs)].dst, e)

\* modifyOverlapBar
OverlapRect(e) == Broad(Screen, e)

-----------------------------------------------------------------------------
(* The handler of ABP_NOTIFYPOSCHANGED keeps a copy of the vector, whose   *)
(* pointers dangle for the bars deleted since (gone).                      *)

NoLoop == [on |-> FALSE, sending |-> FALSE, todo |-> <<>>, skip |-> None,
           mon |-> None, p |-> None, gone |-> {}]

\* The thread is in its pump, or its SendMessage waits: sent messages are dispatched.
Dispatching == ~loop.on \/ loop.sending

\* Deletes the AppBars of the windows ws.
Delete(bs, ws) ==
  LET kept[i \in 0 .. Len(bs)] ==
        IF i = 0 THEN <<>>
        ELSE IF bs[i].win \in ws THEN kept[i - 1] ELSE Append(kept[i - 1], bs[i])
  IN kept[Len(bs)]
Dangle(ws) == loop' = [loop EXCEPT !.gone = IF loop.on
                 THEN @ \cup {w \in ws : w \in ToSet(loop.todo) \/ w = loop.p} ELSE @]

Dead == {bars[i].win : i \in DOMAIN bars} \ alive
\* removeDeadAppBars
LiveBars == Delete(bars, Dead)

Notify(skip, m) == posted' = Append(posted, [skip |-> skip, mon |-> m])

TypeOK ==
  /\ \A i \in DOMAIN bars :
       /\ bars[i].win \in Windows /\ bars[i].edge \in Edges \cup {None}
       /\ bars[i].mon \in Monitors \cup {None}
       /\ bars[i].clean => bars[i].mon # None
       /\ \A j \in DOMAIN bars : bars[i].win = bars[j].win => i = j
  /\ area \in [Monitors -> [Sides -> Int]]
  /\ {def, cur, external} \subseteq [Sides -> Int]
  /\ sent \in 0..MaxEvents
  /\ \A i \in DOMAIN posted : /\ posted[i].skip \in Windows \cup {None}
                              /\ posted[i].mon \in Monitors \cup {None}
  /\ loop.todo \in Seq(Windows) /\ loop.gone \subseteq Windows
  /\ loop.p \in Windows \cup {None} /\ (~loop.on => loop = NoLoop)
  /\ told \subseteq Windows /\ alive \subseteq Windows /\ unadjusted \subseteq Monitors /\ astray \subseteq Windows
  /\ known \subseteq Windows /\ moves \in 0..MaxMoves /\ events \in 0..MaxEvents

\* Start clears the work area before the tray window exists.
Init ==
  /\ bars = <<>> /\ area = [m \in Monitors |-> Screen] /\ def = Screen /\ cur = Screen
  /\ sent = 0 /\ posted = <<>> /\ loop = NoLoop /\ told = {} /\ alive = Windows
  /\ external = Screen /\ unadjusted = {} /\ astray = {} /\ known = {} /\ moves = 0 /\ events = 0

\* Nothing is under way: no notification, no answer, no change to be dispatched.
Quiet == posted = <<>> /\ ~loop.on /\ told = {} /\ sent = 0

Standing(i, m) == bars[i].win \in alive /\ TakesRoom(bars[i], m)
AtRest(m) == Quiet /\ \A i \in DOMAIN bars : Standing(i, m) => bars[i].win \notin astray

-----------------------------------------------------------------------------
(* Messages of the bars.  HandleAppBarMessage removes dead bars first.     *)

\* Windows that have not been bars are alike: one of them will do.
Newcomers == IF Windows = known THEN {} ELSE {CHOOSE w \in Windows : w \notin known}
Callers   == alive \cap (known \cup Newcomers)

\* ABM_NEW
barCreate(w) ==
  /\ Dispatching /\ w \in Callers /\ ~IsBar(LiveBars, w)
  /\ IF w \in known THEN events < MaxEvents /\ events' = events + 1 ELSE UNCHANGED events
  /\ bars' = Append(LiveBars, NewBar(w)) /\ Dangle(Dead) /\ known' = known \cup {w}
  /\ UNCHANGED <<areaVars, sent, posted, sysVars, ghosts, moves>>

\* ABM_REMOVE
barDestroy(w) ==
  /\ Dispatching /\ w \in alive /\ IsBar(bars, w) /\ events < MaxEvents
  /\ bars' = Delete(bars, Dead \cup {w}) /\ Dangle(Dead \cup {w})
  /\ Notify(None, Bar(w).mon)
  /\ told' = told \ {w} /\ events' = events + 1
  /\ UNCHANGED <<areaVars, sent, alive, ghosts, known, moves>>

\* ABM_SETPOS for the edge e of m.
Placed(b, e, m, r) == [b EXCEPT !.rect = r, !.clean = TRUE, !.edge = e, !.mon = m]
TellsOnce(b, m, r) == ~b.overlap /\ ~b.clean  \* slip: later moves are kept quiet
TellsAlways(b, m, r) == ~b.overlap  \* slip: whether the bar moved or not
Tells(b, m, r) == ~b.overlap /\ (~b.clean \/ b.rect # r \/ b.mon # m)
\* Nothing is posted for the monitor that a bar leaves, nor if it goes to another edge
\* in the same rectangle.
LeftAlone(b, e, m, r) ==
  IF b.overlap \/ ~b.clean THEN {}
  ELSE IF b.mon # m THEN {b.mon} ELSE IF b.rect = r /\ b.edge # e THEN {m} ELSE {}
\* A bar that comes to a monitor is not found among its bars: newer ones at its
\* edge push it inward too.
Behind(bs, w, e, m) ==
  /\ Bar(w).mon # m
  /\ \E i \in IndexOf(bs, w) + 1 .. Len(bs) : TakesRoom(bs[i], m) /\ bs[i].edge = e
\* A bar that leaves its place while it, or another, is still to make way forsakes the
\* newer bars of the monitor: nobody tells them.  One that turns to another edge where
\* it is forsakes all the bars there.
Newer(w)    == {bars[i].win : i \in {i \in IndexOf(bars, w) + 1 .. Len(bars) : Standing(i, Bar(w).mon)}}
Forsaken(w) == IF AtRest(Bar(w).mon) THEN {} ELSE Newer(w)
BarsOf(m)   == {bars[i].win : i \in {i \in DOMAIN bars : Standing(i, m)}}
Unmoved(w, e, m, r) ==
  CASE LeftAlone(Bar(w), e, m, r) = {} -> {}
    [] LeftAlone(Bar(w), e, m, r) # {} /\ Bar(w).mon # m -> Forsaken(w)
    [] OTHER -> BarsOf(m)
barSetPos(w, e, m) ==
  LET b == Bar(w)
      r == IF b.overlap THEN OverlapRect(e) ELSE NormalRect(LiveBars, w, e, m)
  IN /\ Dispatching /\ w \in alive /\ IsBar(bars, w)
     /\ bars' = [LiveBars EXCEPT ![IndexOf(LiveBars, w)] = Placed(b, e, m, r)]
     /\ Dangle(Dead)
     /\ IF Tells(b, m, r) THEN Notify(w, m) ELSE UNCHANGED posted
     /\ unadjusted' = unadjusted \cup LeftAlone(b, e, m, r)
     /\ told' = told \ {w}
     /\ astray' = (IF Behind(LiveBars, w, e, m) THEN astray \cup {w} ELSE astray \ {w})
                    \cup Unmoved(w, e, m, r)
     /\ UNCHANGED <<areaVars, sent, alive, known, events>>

\* The user moves a bar; or the bar answers ABN_POSCHANGED by asking for its edge.
Move(w, e, m) == barSetPos(w, e, m) /\ moves < MaxMoves /\ moves' = moves + 1
Answer(w) ==
  /\ w \in told /\ barSetPos(w, Bar(w).edge, Bar(w).mon) /\ UNCHANGED moves

\* ABM_SETAUTOHIDEBAR with lParam set: the window is on monitor m.  A bar that has a
\* place keeps it, whatever edge it asks for: it turns where it is, and nothing is posted.
AutoHideBars(e, m) ==
  {i \in DOMAIN LiveBars : LET b == LiveBars[i] IN b.mon = m /\ b.edge = e /\ b.autohide}
\* slip: without looking for the bar
HideNewBar(w, e) == Append(LiveBars, [NewBar(w) EXCEPT !.autohide = TRUE, !.edge = e])
HideBar(w, e) ==
  IF IsBar(LiveBars, w)
  THEN [LiveBars EXCEPT ![IndexOf(LiveBars, w)].autohide = TRUE, ![IndexOf(LiveBars, w)].edge = e]
  ELSE Append(LiveBars, [NewBar(w) EXCEPT !.overlap = TRUE, !.autohide = TRUE, !.edge = e])
Turns(b, e) == TakesRoom(b, b.mon) /\ b.edge # e
barSetAutoHide(w, e, m) ==
  /\ Dispatching /\ w \in Callers /\ events < MaxEvents
  /\ bars' = (IF AutoHideBars(e, m) # {} THEN LiveBars ELSE HideBar(w, e))
  /\ Dangle(Dead) /\ events' = events + 1
  /\ known' = IF IsBar(bars', w) THEN known \cup {w} ELSE known
  /\ IF AutoHideBars(e, m) = {} /\ IsBar(bars, w) /\ Turns(Bar(w), e)
     THEN unadjusted' = unadjusted \cup {Bar(w).mon} /\ astray' = astray \cup BarsOf(Bar(w).mon)
     ELSE UNCHANGED ghosts
  /\ UNCHANGED <<areaVars, sent, posted, sysVars, moves>>

\* The same with lParam clear: only the bar that is found as the autohide bar.
barClearAutoHide(w, e, m) ==
  /\ Dispatching /\ w \in alive /\ IsBar(bars, w)
  /\ LET i == IndexOf(LiveBars, w) IN
     /\ i \in AutoHideBars(e, m) /\ \A j \in AutoHideBars(e, m) : i <= j
     /\ IF Bar(w).overlap
        THEN /\ bars' = Delete(LiveBars, {w}) /\ Dangle(Dead \cup {w})
             /\ Notify(None, Bar(w).mon) /\ told' = told \ {w}
        ELSE /\ bars' = [LiveBars EXCEPT ![i].autohide = FALSE] /\ Dangle(Dead)
             /\ UNCHANGED <<posted, told>>
  /\ UNCHANGED <<areaVars, sent, alive, ghosts, counts>>

-----------------------------------------------------------------------------
(* Telling the others, and the work area.                                  *)

\* What is left of monitor m: bars whose window has died do not count.
Left(bs, m) ==
  LET Step(r, b) == IF TakesRoom(b, m) /\ b.win \in alive THEN Subtract(r, b.edge, b.rect) ELSE r
      after[i \in 0 .. Len(bs)] == IF i = 0 THEN Base(m) ELSE Step(after[i - 1], bs[i])
  IN after[Len(bs)]

\* The tray window belongs to this thread, so SendNotifyMessage calls its procedure
\* before it returns: that takes the new area as current and spends m_uWorkAreaDirty.
\* slip: the change is not heard of
setWorkArea(m, r) ==
  /\ area' = [area EXCEPT ![m] = r] /\ cur' = area'[Primary]

KnownDefault(m) == IF m = Primary THEN def ELSE area[m]  \* slip: compares with the default
Known(m) == IF m = Primary THEN cur ELSE area[m]
adjustWorkArea(m) ==
  /\ IF m # None /\ Left(bars, m) # Known(m)
     THEN setWorkArea(m, Left(bars, m)) ELSE UNCHANGED <<area, cur>>
  /\ unadjusted' = unadjusted \ {m}

\* ABP_NOTIFYPOSCHANGED: from the newest bar to the oldest.
NotifyPosChanged ==
  /\ ~loop.on /\ posted # <<>> /\ posted' = Tail(posted)
  /\ loop' = [NoLoop EXCEPT !.on = TRUE, !.skip = Head(posted).skip, !.mon = Head(posted).mon,
                            !.todo = Reverse([i \in DOMAIN bars |-> bars[i].win])]
  /\ UNCHANGED <<bars, areaVars, sent, sysVars, ghosts, counts>>

\* Whether bar i of the copy is told.  A deleted AppBar is read: anything may be found.
\* SendMessage to a window that has died returns at once.
Skipped(i) == \E j \in 1 .. i - 1 : loop.todo[j] = loop.skip
P(i)       == IF Skipped(i) THEN loop.skip ELSE loop.p
Told(i) ==
  LET w == loop.todo[i] IN
  IF w \notin alive THEN {FALSE}
  ELSE IF {w, P(i)} \cap loop.gone # {} THEN BOOLEAN
  ELSE {/\ w # loop.skip /\ Bar(w).mon = loop.mon
        /\ P(i) = None \/ Bar(P(i)).edge # Bar(w).edge}
NoneTold(I) == \A i \in I : FALSE \in Told(i)

\* A window that has no place, or is a bar no more, ignores the message.
Heeds(w) == IsBar(bars, w) /\ Bar(w).clean
SendPosChanged ==
  \E i \in DOMAIN loop.todo : LET w == loop.todo[i] IN
    /\ NoneTold(1 .. i - 1) /\ TRUE \in Told(i)
    /\ told' = IF Heeds(w) THEN told \cup {w} ELSE told
    /\ loop' = [loop EXCEPT !.sending = TRUE, !.p = P(i),
                            !.todo = SubSeq(@, i + 1, Len(@))]
    /\ UNCHANGED <<bars, areaVars, sent, posted, alive, ghosts, counts>>
AllTold ==
  /\ loop.on /\ NoneTold(DOMAIN loop.todo) /\ loop' = NoLoop /\ adjustWorkArea(loop.mon)
  /\ UNCHANGED <<bars, def, external, sent, posted, sysVars, astray, counts>>

\* WM_SETTINGCHANGE of another program.
SettingChange ==
  /\ Dispatching /\ sent > 0 /\ sent' = sent - 1
  /\ cur' = area[Primary] /\ def' = area[Primary]
  /\ bars' = LiveBars /\ Dangle(Dead) /\ Notify(None, Primary)
  /\ UNCHANGED <<area, external, sysVars, ghosts, counts>>

-----------------------------------------------------------------------------
(* The system and other programs.  What they do while the thread computes  *)
(* is taken to happen when it dispatches messages again.                   *)

SetExternally(r) ==
  /\ Dispatching /\ events < MaxEvents /\ events' = events + 1
  /\ area' = [area EXCEPT ![Primary] = r] /\ external' = r /\ sent' = sent + 1
  /\ UNCHANGED <<bars, def, cur, posted, loop, sysVars, ghosts, known, moves>>

\* An application that has had a bar ends without ABM_REMOVE.
Die(w) ==
  /\ Dispatching /\ w \in known \cap alive /\ events < MaxEvents /\ events' = events + 1
  /\ alive' = alive \ {w} /\ told' = told \ {w}
  /\ IF IsBar(bars, w) /\ TakesRoom(Bar(w), Bar(w).mon)
     THEN unadjusted' = unadjusted \cup {Bar(w).mon} /\ astray' = astray \cup Forsaken(w)
     ELSE UNCHANGED ghosts
  /\ UNCHANGED <<bars, areaVars, sent, posted, loop, known, moves>>

Service == NotifyPosChanged \/ SendPosChanged \/ AllTold \/ SettingChange
Next ==
  \/ Service \/ \E r \in WorkAreas : SetExternally(r)
  \/ \E w \in Windows :
       \/ barCreate(w) \/ barDestroy(w) \/ Answer(w) \/ Die(w)
       \/ \E q \in Places :
            Move(w, q[1], q[2]) \/ barSetAutoHide(w, q[1], q[2]) \/ barClearAutoHide(w, q[1], q[2])

Spec == Init /\ [][Next]_vars
\* The thread pumps, and a bar that is told asks for its place again, as the
\* protocol of application bars demands.
FairSpec ==
  /\ Spec /\ WF_vars(NotifyPosChanged) /\ WF_vars(SendPosChanged \/ AllTold) /\ WF_vars(SettingChange)
  /\ \A w \in Windows : WF_vars(Answer(w))

-----------------------------------------------------------------------------
(* Properties.                                                             *)

Disjoint(m) ==
  \A i, j \in DOMAIN bars :
     i # j /\ Standing(i, m) /\ Standing(j, m) => ~Intersect(bars[i].rect, bars[j].rect)

\* Once all have answered, no two bars of a monitor that take room cover each other, in
\* whatever order they registered, moved, were told and answered (barSetPos,
\* ABP_NOTIFYPOSCHANGED, modifyNormalBar).  Not so while a bar stays where it was placed
\* behind newer ones, or where another that was still to make way has left it, or where
\* one has turned to another edge in its rectangle (ABM_SETPOS, ABM_SETAUTOHIDEBAR).
BarsDisjoint == \A m \in Monitors : AtRest(m) => Disjoint(m)

\* Once all have answered, the work area of a monitor is the default area less the
\* bars that stand there, though adjustWorkArea compares with a copy of the area
\* that may be out of date.  Not so where a bar died, went to another monitor, or was
\* turned to another edge in the same rectangle, by ABM_SETPOS or by ABM_SETAUTOHIDEBAR:
\* nothing is posted for the place it left.
AreaFollowsBars ==
  Quiet => \A m \in Monitors \ unadjusted : area[m] = Left(bars, m)

\* The notifications come to an end when users stop moving bars: bars do not make
\* each other move for ever.
Settles == <>[]Quiet

\* "Only update the Default workarea when set externally": once all is quiet, the
\* default is what another program set last.
DefaultIsExternal == Quiet => def = external
=============================================================================
