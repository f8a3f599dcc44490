--------------------------- MODULE ShellLoopProofs ---------------------------
(* PendingIsServed and TypeOK for any number of requests and changes.       *)
EXTENDS ShellLoop, SequenceTheorems, TLAPS

Messages == Requests \cup {"other"}
Phases == {"unloading", "reloading", "loading"}

\* PendingIsServed is inductive once the queue and the calls are sequences.
Inv == posted \in Seq(Messages) /\ recycles \in Seq(Phases) /\ PendingIsServed

Queued(p) == \E i \in DOMAIN p : p[i] = "LR_RECYCLE"

\* A message that is appended moves none of those before it.
LEMMA Appending ==
  ASSUME NEW p \in Seq(Messages), NEW m \in Messages
  PROVE  /\ Append(p, m) \in Seq(Messages)
         /\ Queued(p) \/ m = "LR_RECYCLE" => Queued(Append(p, m))
BY AppendProperties DEF Queued, Messages

\* Only the message that is taken leaves the queue.
LEMMA Taking ==
  ASSUME NEW p \in Seq(Messages), p # <<>>
  PROVE  /\ Head(p) \in Messages /\ Tail(p) \in Seq(Messages)
         /\ Queued(p) /\ Head(p) # "LR_RECYCLE" => Queued(Tail(p))
<1>1. /\ Head(p) = p[1] /\ Head(p) \in Messages /\ Tail(p) \in Seq(Messages)
      /\ Len(Tail(p)) = Len(p) - 1
      /\ \A i \in 1..Len(Tail(p)) : Tail(p)[i] = p[i + 1]
  BY HeadTailProperties, EmptySeq
<1>2. ASSUME NEW i \in DOMAIN p, p[i] = "LR_RECYCLE", Head(p) # "LR_RECYCLE"
      PROVE  i - 1 \in DOMAIN Tail(p) /\ Tail(p)[i - 1] = "LR_RECYCLE"
  BY <1>1, <1>2, LenProperties
<1>3. QED
  BY <1>1, <1>2 DEF Queued

\* A recycle that is asked for in the queue is either begun or finds one that runs.
LEMMA Handling ==
  ASSUME Inv, posted # <<>>, Handle(Head(posted)), posted' = Tail(posted)
  PROVE  /\ posted' \in Seq(Messages) /\ recycles' \in Seq(Phases)
         /\ Queued(posted) \/ recycles # <<>> => Queued(posted') \/ recycles' # <<>>
<1>1. /\ posted' \in Seq(Messages)
      /\ Queued(posted) /\ Head(posted) # "LR_RECYCLE" => Queued(posted')
  BY Taking DEF Inv
<1>2. <<"unloading">> \in Seq(Phases)
  BY DEF Phases
<1>3. \/ recycles' = <<"unloading">> \o recycles
      \/ recycles' = recycles /\ (Head(posted) = "LR_RECYCLE" => recycles # <<>>)
  BY DEF Handle, Block
<1>4. CASE recycles' = <<"unloading">> \o recycles
  <2>1. recycles' \in Seq(Phases) /\ Len(recycles') = 1 + Len(recycles)
    BY <1>2, <1>4, ConcatProperties DEF Inv
  <2>2. recycles' # <<>>
    BY <2>1, LenProperties, EmptySeq DEF Inv
  <2>3. QED
    BY <1>1, <2>1, <2>2
<1>5. QED
  BY <1>1, <1>3, <1>4 DEF Inv

LEMMA StepPreserves ==
  ASSUME Inv, [Next]_vars
  PROVE  Inv'
<1> USE DEF Messages, Phases, Requests
<1>0. PendingIsServed <=>
        (pending => Queued(posted) \/ recycles # <<>> \/ at \in {"start", "ended"})
  BY DEF PendingIsServed, Queued
<1>0p. PendingIsServed' <=>
        (pending' => Queued(posted') \/ recycles' # <<>> \/ at' \in {"start", "ended"})
  BY DEF PendingIsServed, Queued
<1>1. ASSUME NEW r \in Requests, Ask(r)
      PROVE  Inv'
  BY <1>0, <1>0p, <1>1, Appending DEF Ask, Inv, displayVars
<1>2. CASE OtherMessage
  <2>1. ~Queued(posted) /\ posted' \in Seq(Messages)
    BY <1>2 DEF OtherMessage, Queued
  <2>2. QED
    BY <1>0, <1>0p, <1>2, <2>1 DEF OtherMessage, Inv, displayVars
<1>3. CASE DisplayChanges
  BY <1>0, <1>0p, <1>3 DEF DisplayChanges, Inv
<1>4. CASE HandleDisplayChange
  <2>1. CASE pending
    BY <1>0, <1>0p, <1>4, <2>1 DEF HandleDisplayChange, ScheduleUiRecycle, Inv
  <2>2. CASE ~pending
    BY <1>0p, <1>4, <2>2, Appending DEF HandleDisplayChange, ScheduleUiRecycle, Inv
  <2>3. QED
    BY <2>1, <2>2
<1>5. CASE GetMessage
  <2>1. /\ posted' \in Seq(Messages) /\ recycles' \in Seq(Phases)
        /\ Queued(posted) \/ recycles # <<>> => Queued(posted') \/ recycles' # <<>>
    BY <1>5, Handling DEF GetMessage
  <2>2. pending' = pending /\ at \notin {"start", "ended"}
    BY <1>5 DEF GetMessage, Gets, displayVars
  <2>3. QED
    BY <1>0, <1>0p, <2>1, <2>2 DEF Inv
<1>6. CASE PeekMessage
  <2>1. pending' = pending /\ at' = at
    BY <1>6 DEF PeekMessage, displayVars
  <2>2. CASE posted # <<>>
    <3>1. /\ posted' \in Seq(Messages) /\ recycles' \in Seq(Phases)
          /\ Queued(posted) \/ recycles # <<>> => Queued(posted') \/ recycles' # <<>>
      BY <1>6, <2>2, Handling DEF PeekMessage
    <3>2. QED
      BY <1>0, <1>0p, <2>1, <3>1 DEF Inv
  <2>3. CASE posted = <<>>
    <3>1. posted' = posted /\ recycles' = recycles
      BY <1>6, <2>3 DEF PeekMessage
    <3>2. QED
      BY <1>0, <1>0p, <2>1, <3>1 DEF Inv
  <2>4. QED
    BY <2>2, <2>3
<1>7. CASE CheckSignalExit \/ GetQuit
  BY <1>0, <1>0p, <1>7 DEF CheckSignalExit, GetQuit, Gets, Inv, displayVars
<1>8. CASE StartDone
  BY <1>0p, <1>8 DEF StartDone, Loaded, Inv
<1>9. CASE Unloaded \/ Reload
  <2>1. PICK phase \in Phases : Goto(phase)
    BY <1>9 DEF Unloaded, Reload
  <2>2. recycles # <<>>
    BY <1>9 DEF Unloaded, Reload, Recycle
  <2>3. Tail(recycles) \in Seq(Phases) /\ <<phase>> \in Seq(Phases) /\ Len(<<phase>>) = 1
    BY <2>2, HeadTailProperties DEF Inv
  <2>4. recycles' \in Seq(Phases) /\ Len(recycles') = 1 + Len(Tail(recycles))
    BY <2>1, <2>3, ConcatProperties DEF Goto
  <2>5. recycles' # <<>>
    BY <2>3, <2>4, LenProperties, EmptySeq
  <2>6. posted' = posted
    BY <1>9 DEF Unloaded, Reload
  <2>7. QED
    BY <1>0p, <2>4, <2>5, <2>6 DEF Inv
<1>10. CASE RecycleDone
  <2>1. Tail(recycles) \in Seq(Phases)
    BY <1>10, HeadTailProperties DEF RecycleDone, Recycle, Inv
  <2>2. QED
    BY <1>0p, <1>10, <2>1 DEF RecycleDone, Loaded, Inv
<1>11. CASE ExitDone
  BY <1>0p, <1>11 DEF ExitDone, Inv
<1>12. CASE UNCHANGED vars
  BY <1>0, <1>0p, <1>12 DEF vars, displayVars, Inv
<1>13. QED
  BY <1>1, <1>2, <1>3, <1>4, <1>5, <1>6, <1>7, <1>8, <1>9, <1>10, <1>11, <1>12 DEF Next, UI

\* As long as a display change counts as pending, a recycle that will clear the flag is
\* queued or runs, however many changes and requests meet (litestep.cpp:1528-1536, 1726).
THEOREM PendingServed == FairSpec => []PendingIsServed
<1>1. Init => Inv
  BY DEF Init, Inv, PendingIsServed
<1>2. Inv /\ [Next]_vars => Inv'
  BY StepPreserves
<1>3. Inv => PendingIsServed
  BY DEF Inv
<1>4. QED
  BY <1>1, <1>2, <1>3, PTL DEF FairSpec, Spec
-----------------------------------------------------------------------------
(* The type of the other variables.                                         *)

\* No more display changes are sent than there were.
RestInv ==
  /\ at \in {"start", "get", "handle", "check", "exit", "ended"}
  /\ quit \in Codes \cup {NoQuit} /\ quitMsg \in Codes
  /\ loaded \in BOOLEAN /\ signalExit \in BOOLEAN /\ pending \in BOOLEAN
  /\ display \in 0..MaxChanges /\ built \in 0..MaxChanges /\ sent \in Nat /\ sent <= display
  /\ posts \in 0..MaxPosts

\* What the handler of a message leaves.
LEMMA HandleRest ==
  ASSUME RestInv, NEW msg, Handle(msg)
  PROVE  loaded' \in BOOLEAN /\ quit' \in Codes \cup {NoQuit}
BY DEF RestInv, Handle, ExitCode, Codes

LEMMA RestStep ==
  ASSUME RestInv, [Next]_vars
  PROVE  RestInv'
<1> USE LoopAssumption
<1>1. ASSUME NEW r \in Requests, Ask(r)
      PROVE  RestInv'
  BY <1>1 DEF Ask, RestInv, displayVars, quitVars
<1>2. CASE OtherMessage \/ DisplayChanges
  BY <1>2 DEF OtherMessage, DisplayChanges, RestInv, displayVars, quitVars
<1>3. CASE HandleDisplayChange
  <2>1. pending' \in BOOLEAN
    BY <1>3 DEF HandleDisplayChange, ScheduleUiRecycle, RestInv
  <2>2. sent' = sent - 1 /\ sent > 0 /\ UNCHANGED <<at, loaded, quitVars, display, built, posts>>
    BY <1>3 DEF HandleDisplayChange
  <2>3. QED
    BY <2>1, <2>2 DEF RestInv, quitVars
<1>4. CASE GetMessage
  <2>1. loaded' \in BOOLEAN /\ quit' \in Codes \cup {NoQuit}
    BY <1>4, HandleRest DEF GetMessage
  <2>2. at' \in {"check", "handle"} /\ UNCHANGED <<signalExit, quitMsg, displayVars, posts>>
    BY <1>4 DEF GetMessage
  <2>3. QED
    BY <2>1, <2>2 DEF RestInv, displayVars
<1>5. CASE PeekMessage
  <2>1. at' = at /\ UNCHANGED <<displayVars, posts>>
    BY <1>5 DEF PeekMessage
  <2>2. CASE posted # <<>>
    <3>1. loaded' \in BOOLEAN /\ quit' \in Codes \cup {NoQuit}
      BY <1>5, <2>2, HandleRest DEF PeekMessage
    <3>2. UNCHANGED <<signalExit, quitMsg>>
      BY <1>5, <2>2 DEF PeekMessage
    <3>3. QED
      BY <2>1, <3>1, <3>2 DEF RestInv, displayVars
  <2>3. CASE posted = <<>>
    BY <1>5, <2>1, <2>3 DEF PeekMessage, RestInv, displayVars
  <2>4. QED
    BY <2>2, <2>3
<1>6. CASE CheckSignalExit \/ GetQuit
  BY <1>6 DEF CheckSignalExit, Repost, GetQuit, RestInv, displayVars, quitVars
<1>7. CASE StartDone \/ Unloaded \/ Reload \/ ExitDone
  BY <1>7 DEF StartDone, Unloaded, Reload, ExitDone, Loaded, Built, RestInv, displayVars, quitVars
<1>8. CASE RecycleDone
  <2>1. at' \in {"check", at}
    BY <1>8 DEF RecycleDone
  <2>2. QED
    BY <1>8, <2>1 DEF RecycleDone, Loaded, RestInv, quitVars
<1>9. CASE UNCHANGED vars
  BY <1>9 DEF vars, displayVars, quitVars, RestInv
<1>10. QED
  BY <1>1, <1>2, <1>3, <1>4, <1>5, <1>6, <1>7, <1>8, <1>9 DEF Next, UI

\* Every variable keeps its type: the codes of WM_QUIT that travel through both loops, and
\* the recycles that nest (litestep.cpp:796-806, 908-945).
THEOREM Typing == Spec => []TypeOK
<1>1. Init => Inv /\ RestInv
  <2>1. Init => Inv
    BY DEF Init, Inv, PendingIsServed
  <2>2. Init => RestInv
    <3>1. 0 \in 0..MaxChanges /\ 0 \in 0..MaxPosts /\ 0 <= 0
      BY LoopAssumption
    <3>2. Init => quit \in Codes \cup {NoQuit} /\ quitMsg \in Codes
      BY DEF Init, Codes
    <3>3. Init => loaded \in BOOLEAN /\ signalExit \in BOOLEAN /\ pending \in BOOLEAN
      BY DEF Init
    <3>4. Init => /\ at \in {"start", "get", "handle", "check", "exit", "ended"}
                  /\ display = 0 /\ built = 0 /\ sent = 0 /\ posts = 0
      BY DEF Init
    <3>5. QED
      BY <3>1, <3>2, <3>3, <3>4 DEF RestInv
  <2>3. QED
    BY <2>1, <2>2
<1>2. Inv /\ RestInv /\ [Next]_vars => (Inv /\ RestInv)'
  BY StepPreserves, RestStep
<1>3. Inv /\ RestInv => TypeOK
  BY LoopAssumption DEF Inv, RestInv, TypeOK, Messages, Phases
<1>4. QED
  BY <1>1, <1>2, <1>3, PTL DEF Spec
=============================================================================
