--------------------------- MODULE InstancesProofs ---------------------------
(* OneShell, OncePerSession and TypeOK for any number of launches, any      *)
(* command lines and any bounds.                                            *)
EXTENDS Instances, TLAPS

\* OneShell is inductive with the type of pc: LiteStep starts in a process only
\* when no handle of the mutex is open, and what runs LiteStep has one.
Inv == pc \in [Processes -> Places] /\ OneShell

\* A process that does not start LiteStep, takes no handle of another and, as
\* long as it runs LiteStep, keeps its own preserves the invariant.
LEMMA Moves ==
  ASSUME Inv, NEW p \in Processes, NEW s \in Places, Goes(p, s),
         s \in Shell => pc[p] \in Shell,
         handles \ {p} \subseteq handles', s \in Shell => p \in handles'
  PROVE  Inv'
<1>1. pc' \in [Processes -> Places]
  BY DEF Inv, Goes
<1>2. \A q \in Processes : pc'[q] = IF q = p THEN s ELSE pc[q]
  BY DEF Inv, Goes
<1>3. \A q \in Processes : pc'[q] \in Shell => pc[q] \in Shell
  BY <1>2
<1>4. ASSUME NEW q \in Processes, pc'[q] \in Shell
      PROVE  q \in handles'
  BY <1>2, <1>3, <1>4 DEF Inv, OneShell
<1>5. \A q, r \in Processes : pc'[q] \in Shell /\ pc'[r] \in Shell => q = r
  BY <1>3 DEF Inv, OneShell
<1>6. QED
  BY <1>1, <1>4, <1>5 DEF Inv, OneShell

\* The end of a process, whoever ends it, preserves the invariant.
LEMMA Ending ==
  ASSUME Inv, NEW p \in Processes, Ends(p)
  PROVE  Inv'
<1>1. Goes(p, "ended") /\ handles' = handles \ {p}
  BY DEF Ends, Ended
<1>2. "ended" \in Places /\ "ended" \notin Shell
  BY DEF Places, Shell, Pumping
<1>3. QED
  BY <1>1, <1>2, Moves

\* The first to open the mutex starts LiteStep; no other process runs it then.
LEMMA Opening ==
  ASSUME Inv, NEW p \in Processes, NEW other \in Places \ Shell, OpensMutex(p, other)
  PROVE  Inv'
<1>1. handles' = handles \union {p}
  BY DEF OpensMutex
<1>2. CASE handles # {}
  <2>1. Goes(p, other)
    BY <1>2 DEF OpensMutex, IsOtherInstanceRunning
  <2>2. QED
    BY <1>1, <2>1, Moves
<1>3. CASE handles = {}
  <2>1. \A q \in Processes : pc[q] \notin Shell
    BY <1>3 DEF Inv, OneShell
  <2>2. pc' = [pc EXCEPT ![p] = "start"]
    BY <1>3 DEF OpensMutex, IsOtherInstanceRunning, Goes
  <2>3. pc' \in [Processes -> Places]
    BY <2>2 DEF Inv, Places, Shell
  <2>4. \A q \in Processes : pc'[q] \in Shell => q = p
    BY <2>1, <2>2 DEF Inv
  <2>5. QED
    BY <1>1, <2>3, <2>4 DEF Inv, OneShell
<1>4. QED
  BY <1>2, <1>3

\* Another process is terminated while p goes on to poll.
LEMMA Waited ==
  ASSUME Inv, NEW p \in Processes, Wait(p)
  PROVE  Inv'
<1>0. "poll" \in Places \ Shell /\ "ended" \in Places \ Shell
  BY DEF Places, Shell, Pumping, Waiting
<1>1. CASE pc[target[p]] = "ended"
  <2>1. Goes(p, "poll") /\ handles' = handles
    BY <1>1 DEF Wait, Lives
  <2>2. QED
    BY <1>0, <2>1, Moves
<1>2. CASE pc[target[p]] # "ended"
  <2>1. /\ pc' = [pc EXCEPT ![p] = "poll", ![target[p]] = "ended"]
        /\ handles' = handles \ {target[p]}
    BY <1>2 DEF Wait, Ended
  <2>2. pc' \in [Processes -> Places]
    BY <1>0, <2>1 DEF Inv
  <2>3. \A q \in Processes :
          pc'[q] = IF q = target[p] THEN "ended" ELSE IF q = p THEN "poll" ELSE pc[q]
    BY <2>1 DEF Inv
  <2>4. \A q \in Processes : pc'[q] \in Shell => pc[q] \in Shell /\ q # target[p]
    BY <1>0, <2>3
  <2>5. QED
    BY <2>1, <2>2, <2>4 DEF Inv, OneShell
<1>3. QED
  BY <1>1, <1>2

LEMMA StepPreserves ==
  ASSUME Inv, [Next]_vars
  PROVE  Inv'
<1> USE DEF Shell, Pumping, Waiting, Places
<1>1. ASSUME NEW p \in Processes, Steps(p)
      PROVE  Inv'
  <2>1. CASE Launch(p)
    <3>1. PICK s \in {"boot", "send"} : Goes(p, s)
      BY <2>1 DEF Launch
    <3>2. QED
      BY <2>1, <3>1, Moves DEF Launch
  <2>2. CASE Boot(p)
    <3>1. Ends(p) \/ (Goes(p, "check") /\ handles' = handles)
      BY <2>2 DEF Boot
    <3>2. QED
      BY <3>1, Moves, Ending
  <2>3. CASE Check(p)
    BY <2>3, Opening DEF Check
  <2>4. CASE Retry(p)
    BY <2>4, Opening DEF Retry
  <2>5. CASE Drop(p)
    <3>1. PICK s \in {"send", "retry"} : Goes(p, s)
      BY <2>5 DEF Drop
    <3>2. QED
      BY <2>5, <3>1, Moves DEF Drop
  <2>6. CASE SendBang(p) \/ BangReturns(p)
    <3>1. \/ Goes(p, "sending") /\ handles' = handles
          \/ Goes(p, "find") /\ handles' = handles
          \/ Ends(p)
      BY <2>6 DEF SendBang, BangReturns, BangSent, Lives
    <3>2. QED
      BY <3>1, Moves, Ending
  <2>7. CASE Find(p) \/ CloseReturns(p) \/ Poll(p)
    <3>1. PICK s \in {"poll", "closing", "wait", "retry"} : Goes(p, s)
      BY <2>7 DEF Find, CloseReturns, Poll
    <3>2. handles' = handles
      BY <2>7 DEF Find, CloseReturns, Poll
    <3>3. QED
      BY <3>1, <3>2, Moves
  <2>8. CASE Wait(p)
    BY <2>8, Waited
  <2>9. CASE Start(p) \/ StartFails(p) \/ ManagersFail(p) \/ Started(p)
    <3>1. PICK s \in {"starting", "leave", "run"} : Goes(p, s)
      BY <2>9 DEF Start, StartFails, ManagersFail, Started
    <3>2. pc[p] \in Shell /\ handles' = handles
      BY <2>9 DEF Start, StartFails, ManagersFail, Started
    <3>3. p \in handles
      BY <3>2 DEF Inv, OneShell
    <3>4. QED
      BY <3>1, <3>2, <3>3, Moves
  <2>10. CASE RunReturns(p) \/ StopServices(p) \/ StopReturns(p)
    <3>1. PICK s \in {"stop", "join", "leave"} : Goes(p, s)
      BY <2>10 DEF RunReturns, StopServices, StopReturns
    <3>2. pc[p] \in Shell /\ handles' = handles
      BY <2>10 DEF RunReturns, StopServices, StopReturns
    <3>3. p \in handles
      BY <3>2 DEF Inv, OneShell
    <3>4. QED
      BY <3>1, <3>2, <3>3, Moves
  <2>11. CASE Leave(p)
    <3>1. (Goes(p, "boot") /\ handles' = handles \ {p}) \/ Ends(p)
      BY <2>11 DEF Leave
    <3>2. QED
      BY <3>1, Moves, Ending
  <2>12. QED
    BY <1>1, <2>1, <2>2, <2>3, <2>4, <2>5, <2>6, <2>7, <2>8, <2>9, <2>10, <2>11 DEF Steps
<1>2. ASSUME NEW p \in Processes, GiveUp(p) \/ Terminate(p)
      PROVE  Inv'
  BY <1>2, Ending DEF GiveUp, Terminate
<1>3. ASSUME NEW p \in Processes, ComThread(p) \/ Serve(p) \/ Recycle(p) \/ Ask(p)
      PROVE  Inv'
  <2>1. pc' = pc /\ handles' = handles
    BY <1>3 DEF ComThread, Serve, Recycle, Ask
  <2>2. QED
    BY <2>1 DEF Inv, OneShell
<1>4. ASSUME NEW r, RunnerChecks(r) \/ RunnerRuns(r)
      PROVE  Inv'
  <2>1. pc' = pc /\ handles' = handles
    BY <1>4 DEF RunnerChecks, RunnerRuns
  <2>2. QED
    BY <2>1 DEF Inv, OneShell
<1>5. CASE UNCHANGED vars
  BY <1>5 DEF vars, Inv, OneShell
<1>6. QED
  BY <1>1, <1>2, <1>3, <1>4, <1>5 DEF Next

\* At most one process runs LiteStep, and the mutex tells the others of it,
\* however many are launched (WinMain.cpp:116, 538, 611).
THEOREM OneShellHolds == FairSpec => []OneShell
<1>1. Init => Inv
  BY DEF Init, Inv, OneShell, Places, Shell, Pumping
<1>2. Inv /\ [Next]_vars => Inv'
  BY StepPreserves
<1>3. Inv => OneShell
  BY DEF Inv
<1>4. QED
  BY <1>1, <1>2, <1>3, PTL DEF FairSpec
-----------------------------------------------------------------------------
(* The startup entries.                                                     *)

\* The main thread has a turn of its loop in which it has not made a runner yet.
Before == Waiting \union {"unborn", "start", "starting"}

\* A process makes one runner in a turn, which stays the only one it had in that turn; and
\* the session is marked before anything runs, and for good.
RunnerInv ==
  /\ turns \in Nat
  /\ runners \subseteq [of : Processes, turn : Nat, at : {"new", "go"}]
  /\ \A r \in runners : r.turn <= turns /\ (pc[r.of] \in Before => r.turn < turns)
  /\ \A r, s \in runners : r.of = s.of /\ r.turn = s.turn => r = s
  /\ ran \/ (\E r \in runners : r.at = "go") => marked

\* What OncePerSession asks of a step.
Once ==
  \A r \in runners :
    (r.at = "new" /\ ~flags[r.of].force /\ [r EXCEPT !.at = "go"] \in runners')
      => ~ran /\ \A s \in runners : s.at = "new"

\* A runner and what becomes of it are not both there, so that a step which only lets
\* runners end, or makes new ones, lets none go.
LEMMA NoneGoes ==
  ASSUME RunnerInv, \A s \in runners' : s \in runners \/ s.at = "new"
  PROVE  Once
<1> SUFFICES ASSUME NEW r \in runners, r.at = "new", [r EXCEPT !.at = "go"] \in runners'
             PROVE  FALSE
  BY DEF Once
<1> DEFINE g == [r EXCEPT !.at = "go"]
<1>1. g.of = r.of /\ g.turn = r.turn /\ g.at = "go"
  BY DEF RunnerInv
<1>2. g \in runners
  BY <1>1
<1>3. g = r
  BY <1>1, <1>2 DEF RunnerInv
<1>4. QED
  BY <1>1, <1>3

\* No process comes back before its runner, and none is made.
LEMMA Fewer ==
  ASSUME RunnerInv, runners' \subseteq runners, UNCHANGED <<turns, marked, ran>>,
         \A q \in Processes : pc'[q] \in Before => pc[q] \in Before
  PROVE  RunnerInv' /\ Once
<1>1. RunnerInv'
  BY DEF RunnerInv
<1>2. QED
  BY <1>1, NoneGoes

\* The end of a process, and a step of its main thread within a turn.
LEMMA FewerEnds ==
  ASSUME Inv, RunnerInv, NEW p \in Processes, Ends(p), UNCHANGED <<turns, marked, ran>>
  PROVE  RunnerInv' /\ Once
<1>1. pc' = [pc EXCEPT ![p] = "ended"] /\ runners' \subseteq runners
  BY DEF Ends, Ended, Goes
<1>2. \A q \in Processes : pc'[q] \in Before => pc[q] \in Before
  BY <1>1 DEF Inv, Before, Waiting
<1>3. QED
  BY <1>1, <1>2, Fewer

LEMMA FewerGoes ==
  ASSUME Inv, RunnerInv, NEW p \in Processes, NEW place, Goes(p, place),
         place \in Before => pc[p] \in Before, UNCHANGED <<runners, turns, marked, ran>>
  PROVE  RunnerInv' /\ Once
<1>1. \A q \in Processes : pc'[q] \in Before => pc[q] \in Before
  BY DEF Goes, Inv
<1>2. QED
  BY <1>1, Fewer

LEMMA BootOnce ==
  ASSUME Inv, RunnerInv, NEW p \in Processes, Boot(p)
  PROVE  RunnerInv' /\ Once
<1>1. CASE Ends(p) /\ UNCHANGED turns
  BY <1>1, FewerEnds DEF Boot
<1>2. CASE turns' = turns + 1 /\ UNCHANGED runners
  <2>1. RunnerInv'
    BY <1>2 DEF Boot, RunnerInv
  <2>2. QED
    BY <1>2, <2>1, NoneGoes
<1>3. QED
  BY <1>1, <1>2 DEF Boot

LEMMA StartedOnce ==
  ASSUME Inv, RunnerInv, NEW p \in Processes, Started(p)
  PROVE  RunnerInv' /\ Once
<1>1. /\ pc[p] = "starting" /\ Goes(p, "run") /\ UNCHANGED <<turns, marked, ran>>
  BY DEF Started
<1>2. CASE UNCHANGED runners
  BY <1>1, <1>2, FewerGoes DEF Before, Waiting
<1>3. CASE runners' = runners \union {[of |-> p, turn |-> turns, at |-> "new"]}
  <2> DEFINE n == [of |-> p, turn |-> turns, at |-> "new"]
  <2>1. n.of = p /\ n.turn = turns /\ n.at = "new"
        /\ n \in [of : Processes, turn : Nat, at : {"new", "go"}]
    BY DEF RunnerInv
  <2>2. \A r \in runners : r.of = p => r.turn < turns
    BY <1>1 DEF RunnerInv, Before
  <2>3. \A q \in Processes : pc'[q] \in Before => pc[q] \in Before /\ q # p
    BY <1>1 DEF Goes, Inv, Before, Waiting
  <2>4. runners' = runners \union {n}
    BY <1>3
  <2> HIDE DEF n
  <2>5. \A r \in runners' : r.turn <= turns /\ (pc'[r.of] \in Before => r.turn < turns)
    BY <2>1, <2>3, <2>4 DEF RunnerInv
  <2>6. \A r, s \in runners' : r.of = s.of /\ r.turn = s.turn => r = s
    BY <2>1, <2>2, <2>4 DEF RunnerInv
  <2>7. RunnerInv'
    BY <1>1, <2>1, <2>4, <2>5, <2>6 DEF RunnerInv
  <2>8. QED
    BY <2>1, <2>4, <2>7, NoneGoes
<1>4. QED
  BY <1>2, <1>3 DEF Started

LEMMA ChecksOnce ==
  ASSUME RunnerInv, NEW r, RunnerChecks(r)
  PROVE  RunnerInv' /\ Once
<1> DEFINE g == [r EXCEPT !.at = "go"]
<1>1. /\ r \in runners /\ r.at = "new" /\ marked' = TRUE /\ UNCHANGED <<pc, ran, turns>>
      /\ \/ runners' = runners \ {r}
         \/ /\ ~marked \/ flags[r.of].force
            /\ runners' = (runners \ {r}) \union {g}
  BY DEF RunnerChecks, IsFirstRunThisSession
<1>2. /\ g.of = r.of /\ g.turn = r.turn /\ g.at = "go"
      /\ g \in [of : Processes, turn : Nat, at : {"new", "go"}]
  BY <1>1 DEF RunnerInv
<1>3. CASE runners' = runners \ {r}
  <2>1. RunnerInv'
    BY <1>1, <1>3 DEF RunnerInv
  <2>2. QED
    BY <1>3, <2>1, NoneGoes
<1>4. CASE /\ ~marked \/ flags[r.of].force
           /\ runners' = (runners \ {r}) \union {g}
  <2> HIDE DEF g
  <2>1. RunnerInv'
    BY <1>1, <1>2, <1>4 DEF RunnerInv
  <2>2. ASSUME NEW q \in runners, q.at = "new", ~flags[q.of].force,
               [q EXCEPT !.at = "go"] \in runners'
        PROVE  ~ran /\ \A s \in runners : s.at = "new"
    <3> DEFINE h == [q EXCEPT !.at = "go"]
    <3>1. h.of = q.of /\ h.turn = q.turn /\ h.at = "go"
      BY <2>2 DEF RunnerInv
    <3>2. h \notin runners
      BY <2>2, <3>1 DEF RunnerInv
    <3>3. h = g
      BY <1>4, <2>2, <3>2
    <3>4. q = r
      BY <1>1, <1>2, <3>1, <3>3 DEF RunnerInv
    <3>5. ~marked
      BY <1>4, <2>2, <3>4
    <3>6. QED
      BY <3>5 DEF RunnerInv
  <2>3. QED
    BY <2>1, <2>2 DEF Once
<1>5. QED
  BY <1>1, <1>3, <1>4

LEMMA RunsOnce ==
  ASSUME RunnerInv, NEW r, RunnerRuns(r)
  PROVE  RunnerInv' /\ Once
<1>1. /\ r \in runners /\ r.at = "go" /\ ran' = TRUE /\ runners' = runners \ {r}
      /\ UNCHANGED <<pc, marked, turns>>
  BY DEF RunnerRuns
<1>2. RunnerInv'
  BY <1>1 DEF RunnerInv
<1>3. QED
  BY <1>1, <1>2, NoneGoes

LEMMA StepOnce ==
  ASSUME Inv, RunnerInv, [Next]_vars
  PROVE  RunnerInv' /\ Once
<1> USE DEF Waiting, Session, Lives
<1>1. ASSUME NEW p \in Processes, Steps(p)
      PROVE  RunnerInv' /\ Once
  <2>1. CASE Launch(p)
    <3>1. PICK place \in {"boot", "send"} : Goes(p, place)
      BY <2>1 DEF Launch
    <3>2. QED
      BY <2>1, <3>1, FewerGoes DEF Launch, Before
  <2>2. CASE Boot(p)
    BY <2>2, BootOnce
  <2>3. CASE Check(p) \/ Retry(p)
    <3>1. PICK place \in {"start", "drop", "redrop"} : Goes(p, place)
      BY <2>3 DEF Check, Retry, OpensMutex
    <3>2. pc[p] \in {"check", "retry"} /\ UNCHANGED <<runners, turns, marked, ran>>
      BY <2>3 DEF Check, Retry, OpensMutex
    <3>3. QED
      BY <3>1, <3>2, FewerGoes DEF Before
  <2>4. CASE Drop(p)
    <3>1. PICK place \in {"send", "retry"} : Goes(p, place)
      BY <2>4 DEF Drop
    <3>2. QED
      BY <2>4, <3>1, FewerGoes DEF Drop, Before
  <2>5. CASE SendBang(p) \/ BangReturns(p)
    <3>1. pc[p] \in Before /\ UNCHANGED <<turns, marked, ran>>
      BY <2>5 DEF SendBang, BangReturns, Before
    <3>2. \/ Ends(p)
          \/ \E place \in {"sending", "find"} : Goes(p, place) /\ UNCHANGED runners
      BY <2>5 DEF SendBang, BangReturns, BangSent
    <3>3. QED
      BY <3>1, <3>2, FewerGoes, FewerEnds
  <2>6. CASE Find(p) \/ CloseReturns(p) \/ Poll(p)
    <3>1. PICK place \in {"poll", "closing", "wait", "retry"} : Goes(p, place)
      BY <2>6 DEF Find, CloseReturns, Poll
    <3>2. pc[p] \in Before /\ UNCHANGED <<runners, turns, marked, ran>>
      BY <2>6 DEF Find, CloseReturns, Poll, Before
    <3>3. QED
      BY <3>1, <3>2, FewerGoes
  <2>7. CASE Wait(p)
    <3>1. pc[p] = "wait" /\ UNCHANGED <<turns, marked, ran>> /\ runners' \subseteq runners
      BY <2>7 DEF Wait, Ended
    <3>2. \/ pc' = [pc EXCEPT ![p] = "poll"]
          \/ pc' = [pc EXCEPT ![p] = "poll", ![target[p]] = "ended"]
      BY <2>7 DEF Wait, Goes
    <3>3. \A q \in Processes : pc'[q] \in {pc[q], "ended"} \/ q = p
      BY <3>2 DEF Inv
    <3>4. \A q \in Processes : pc'[q] \in Before => pc[q] \in Before
      BY <3>1, <3>3 DEF Before
    <3>5. QED
      BY <3>1, <3>4, Fewer
  <2>8. CASE Started(p)
    BY <2>8, StartedOnce
  <2>9. CASE Start(p) \/ StartFails(p) \/ ManagersFail(p)
    <3>1. PICK place \in {"starting", "leave"} : Goes(p, place)
      BY <2>9 DEF Start, StartFails, ManagersFail
    <3>2. pc[p] \in Before /\ UNCHANGED <<runners, turns, marked, ran>>
      BY <2>9 DEF Start, StartFails, ManagersFail, Before
    <3>3. QED
      BY <3>1, <3>2, FewerGoes
  <2>10. CASE RunReturns(p) \/ StopServices(p) \/ StopReturns(p)
    <3>1. PICK place \in {"stop", "join", "leave"} : Goes(p, place)
      BY <2>10 DEF RunReturns, StopServices, StopReturns
    <3>2. UNCHANGED <<runners, turns, marked, ran>>
      BY <2>10 DEF RunReturns, StopServices, StopReturns
    <3>3. QED
      BY <3>1, <3>2, FewerGoes DEF Before
  <2>11. CASE Leave(p)
    <3>1. UNCHANGED <<turns, marked, ran>> /\ (Ends(p) \/ (Goes(p, "boot") /\ UNCHANGED runners))
      BY <2>11 DEF Leave
    <3>2. QED
      BY <3>1, FewerGoes, FewerEnds DEF Before
  <2>12. QED
    BY <1>1, <2>1, <2>2, <2>3, <2>4, <2>5, <2>6, <2>7, <2>8, <2>9, <2>10, <2>11 DEF Steps
<1>2. ASSUME NEW p \in Processes, GiveUp(p) \/ Terminate(p)
      PROVE  RunnerInv' /\ Once
  BY <1>2, FewerEnds DEF GiveUp, Terminate
<1>3. ASSUME NEW p \in Processes, ComThread(p) \/ Serve(p) \/ Recycle(p) \/ Ask(p)
      PROVE  RunnerInv' /\ Once
  <2>1. UNCHANGED <<pc, runners, turns, marked, ran>>
    BY <1>3 DEF ComThread, Serve, Recycle, Ask
  <2>2. QED
    BY <2>1, Fewer
<1>4. ASSUME NEW r, RunnerChecks(r) \/ RunnerRuns(r)
      PROVE  RunnerInv' /\ Once
  BY <1>4, ChecksOnce, RunsOnce
<1>5. CASE UNCHANGED vars
  BY <1>5, Fewer DEF vars
<1>6. QED
  BY <1>1, <1>2, <1>3, <1>4, <1>5 DEF Next

\* The startup entries run once in a session unless they are forced, whatever instances and
\* runner threads overlap or die (StartupRunner.cpp:72, 290).
THEOREM StartupOnce == FairSpec => OncePerSession
<1>1. Init => Inv /\ RunnerInv
  BY DEF Init, Inv, OneShell, RunnerInv, Places, Shell, Pumping
<1>2. Inv /\ RunnerInv /\ [Next]_vars => Inv' /\ RunnerInv'
  BY StepPreserves, StepOnce
<1>3. Inv /\ RunnerInv /\ [Next]_vars => Once
  BY StepOnce
<1>4. OncePerSession <=> [][Once]_vars
  BY PTL DEF OncePerSession, Once
<1>5. QED
  BY <1>1, <1>2, <1>3, <1>4, PTL DEF FairSpec
-----------------------------------------------------------------------------
(* The type of the other variables.                                         *)

\* The loop has been begun by a process that is here, unless it only sends a bang.
Begun == {"check", "drop", "find", "closing", "wait", "poll", "retry", "redrop"} \union Shell

TurnsInv ==
  /\ turns \in 0..MaxTurns
  /\ \A q \in Processes :
       \/ pc[q] \in Begun
       \/ pc[q] \in {"send", "sending"} /\ flags[q].bang = "none"
       => turns > 0
  /\ runners \subseteq [of : Processes, turn : 1..MaxTurns, at : {"new", "go"}]

RestInv ==
  /\ flags \in [Processes -> StartFlags]
  /\ ret \in [Processes -> {"none", "explorer"}]
  /\ handles \subseteq Processes /\ windows \subseteq Processes
  /\ target \in [Processes -> Processes \union {None}]
  /\ opened \in [Processes -> BOOLEAN] /\ answered \in [Processes -> BOOLEAN]
  /\ posted \in [Processes -> SUBSET {"dialog", "quit", "explorer"}]
  /\ quit \in [Processes -> {"no", "none", "explorer"}]
  /\ com \in [Processes -> {"none", "new", "queue", "quit"}]
  /\ marked \in BOOLEAN /\ ran \in BOOLEAN

\* A process, or none, ends.
LEMMA EndedRest ==
  ASSUME RestInv, NEW q, Ended(q)
  PROVE  /\ flags' \in [Processes -> StartFlags] /\ ret' \in [Processes -> {"none", "explorer"}]
         /\ handles' \subseteq Processes /\ windows' \subseteq Processes
         /\ posted' \in [Processes -> SUBSET {"dialog", "quit", "explorer"}]
         /\ quit' \in [Processes -> {"no", "none", "explorer"}]
         /\ com' \in [Processes -> {"none", "new", "queue", "quit"}]
<1>1. NoFlags \in StartFlags
  BY DEF NoFlags, StartFlags
<1>2. QED
  BY <1>1 DEF RestInv, Ended

\* Only the flag for Explorer changes while a process lives.
LEMMA FlagsKept ==
  ASSUME RestInv, NEW p \in Processes, NEW b \in BOOLEAN
  PROVE  [flags EXCEPT ![p].explorer = b] \in [Processes -> StartFlags]
<1>1. [flags[p] EXCEPT !.explorer = b] \in StartFlags
  BY DEF RestInv, StartFlags
<1>2. [flags EXCEPT ![p].explorer = b] = [flags EXCEPT ![p] = [flags[p] EXCEPT !.explorer = b]]
  BY DEF RestInv
<1>3. QED
  BY <1>1, <1>2 DEF RestInv

LEMMA EndsRest ==
  ASSUME RestInv, NEW p \in Processes, Ends(p), marked' = marked, ran' = ran,
         target' \in {target, [target EXCEPT ![p] = None]}, opened' = opened,
         answered' \in {answered, [answered EXCEPT ![p] = FALSE]}
  PROVE  RestInv'
<1>1. Ended(p)
  BY DEF Ends
<1>2. target' \in [Processes -> Processes \union {None}] /\ opened' \in [Processes -> BOOLEAN]
  BY DEF RestInv
<1>3. answered' \in [Processes -> BOOLEAN]
  BY DEF RestInv
<1>4. QED
  BY <1>1, <1>2, <1>3, EndedRest DEF RestInv

LEMMA RestStep ==
  ASSUME Inv, RestInv, [Next]_vars
  PROVE  RestInv'
<1>1. ASSUME NEW p \in Processes, Launch(p) \/ Check(p) \/ Retry(p) \/ Drop(p) \/ Poll(p)
      PROVE  RestInv'
  BY <1>1, BoundsAssumption DEF Launch, Check, Retry, Drop, Poll, OpensMutex, RestInv, Own, Asking, Serving, Session
<1>2. ASSUME NEW p \in Processes, Boot(p)
      PROVE  RestInv'
  <2>1. CASE Ends(p)
    BY <1>2, <2>1, EndsRest DEF Boot, Asking
  <2>2. CASE /\ flags' = [flags EXCEPT ![p].explorer = FALSE]
             /\ UNCHANGED <<ret, handles, windows, Serving, com, runners>>
    <3>1. flags' \in [Processes -> StartFlags]
      BY <2>2, FlagsKept
    <3>2. QED
      BY <1>2, <2>2, <3>1 DEF Boot, RestInv, Asking, Serving
  <2>3. QED
    BY <1>2, <2>1, <2>2 DEF Boot
<1>3. ASSUME NEW p \in Processes, SendBang(p) \/ BangReturns(p)
      PROVE  RestInv'
  <2>1. CASE Ends(p)
    <3>1. /\ marked' = marked /\ ran' = ran /\ opened' = opened
          /\ answered' \in {answered, [answered EXCEPT ![p] = FALSE]}
      BY <1>3 DEF SendBang, BangReturns
    <3>2. target' \in {target, [target EXCEPT ![p] = None]}
      <4>1. ~Goes(p, "sending")
        BY <2>1 DEF Ends, Goes, Inv
      <4>2. QED
        BY <1>3, <2>1, <4>1 DEF SendBang, BangReturns
    <3>3. QED
      BY <2>1, <3>1, <3>2, EndsRest
  <2>2. CASE UNCHANGED Lives
    <3>1. target' \in [Processes -> Processes \union {None}]
      BY <1>3 DEF SendBang, BangReturns, RestInv
    <3>2. answered' \in [Processes -> BOOLEAN] /\ opened' = opened /\ marked' = marked /\ ran' = ran
      BY <1>3 DEF SendBang, BangReturns, RestInv
    <3>3. QED
      BY <2>2, <3>1, <3>2 DEF RestInv, Lives, Own, Serving
  <2>3. QED
    BY <1>3, <2>1, <2>2 DEF SendBang, BangReturns, BangSent
<1>4. ASSUME NEW p \in Processes, Find(p) \/ CloseReturns(p)
      PROVE  RestInv'
  <2>1. CASE Find(p)
    <3>1. target' \in [Processes -> Processes \union {None}] /\ opened' \in [Processes -> BOOLEAN]
      BY <2>1 DEF Find, RestInv
    <3>2. QED
      BY <2>1, <3>1 DEF Find, RestInv, Own, Serving, Session
  <2>2. CASE CloseReturns(p)
    <3>1. /\ answered' \in [Processes -> BOOLEAN]
          /\ target' \in [Processes -> Processes \union {None}]
      BY <2>2 DEF CloseReturns, RestInv
    <3>2. Effect(p) \in {"dialog", "quit", "explorer"}
      <4>1. flags[p].bang \in {"none", "dialog", "quit", "explorer"}
        BY DEF RestInv, StartFlags
      <4>2. QED
        BY <4>1 DEF Effect
    <3>3. posted' \in [Processes -> SUBSET {"dialog", "quit", "explorer"}]
      BY <2>2, <3>2 DEF CloseReturns, RestInv
    <3>4. QED
      BY <2>2, <3>1, <3>3 DEF CloseReturns, RestInv, Own, Session
  <2>3. QED
    BY <1>4, <2>1, <2>2
<1>5. ASSUME NEW p \in Processes, Wait(p)
      PROVE  RestInv'
  <2>1. /\ target' \in [Processes -> Processes \union {None}] /\ opened' \in [Processes -> BOOLEAN]
        /\ answered' = answered /\ marked' = marked /\ ran' = ran
    BY <1>5 DEF Wait, RestInv
  <2>2. CASE UNCHANGED Lives
    BY <2>1, <2>2 DEF RestInv, Lives, Own, Serving
  <2>3. CASE Ended(target[p])
    BY <2>1, <2>3, EndedRest DEF RestInv
  <2>4. QED
    BY <1>5, <2>2, <2>3 DEF Wait
<1>6. ASSUME NEW p \in Processes, StartFails(p) \/ Start(p) \/ ManagersFail(p) \/ Started(p)
      PROVE  RestInv'
  BY <1>6 DEF StartFails, Start, ManagersFail, Started, RestInv, Own, Asking, Serving, Session
<1>7. ASSUME NEW p \in Processes, RunReturns(p) \/ StopServices(p) \/ StopReturns(p)
      PROVE  RestInv'
  BY <1>7 DEF RunReturns, StopServices, StopReturns, Posts, RestInv, Own, Asking, Session
<1>8. ASSUME NEW p \in Processes, Leave(p)
      PROVE  RestInv'
  <2>1. CASE Ends(p)
    BY <1>8, <2>1, EndsRest DEF Leave, Asking
  <2>2. CASE /\ flags' = [flags EXCEPT ![p].explorer = TRUE] /\ handles' = handles \ {p}
             /\ UNCHANGED <<ret, windows, Serving, com, runners>>
    <3>1. flags' \in [Processes -> StartFlags]
      BY <2>2, FlagsKept
    <3>2. QED
      BY <1>8, <2>2, <3>1 DEF Leave, RestInv, Asking, Serving
  <2>3. QED
    BY <1>8, <2>1, <2>2 DEF Leave
<1>9. ASSUME NEW p \in Processes, GiveUp(p) \/ Terminate(p)
      PROVE  RestInv'
  BY <1>9, EndsRest DEF GiveUp, Terminate, Asking
<1>10. ASSUME NEW p \in Processes, ComThread(p) \/ Serve(p)
       PROVE  RestInv'
  <2>1. CASE ComThread(p)
    BY <2>1 DEF ComThread, RestInv, Own, Asking, Serving, Session
  <2>2. CASE Serve(p)
    <3>1. Effect(p) \in {"dialog", "quit", "explorer"}
      BY DEF Effect, RestInv, StartFlags
    <3>2. QED
      BY <2>2, <3>1 DEF Serve, RestInv, Own, Session
  <2>3. QED
    BY <1>10, <2>1, <2>2
<1>11. ASSUME NEW p \in Processes, Recycle(p) \/ Ask(p)
       PROVE  RestInv'
  BY <1>11, RequestsAssumption DEF Recycle, Ask, RestInv, Own, Asking, Serving, Session
<1>12. ASSUME NEW r, RunnerChecks(r) \/ RunnerRuns(r)
       PROVE  RestInv'
  BY <1>12 DEF RunnerChecks, RunnerRuns, RestInv, Own, Asking, Serving
<1>13. CASE UNCHANGED vars
  BY <1>13 DEF vars, RestInv
<1>14. QED
  BY <1>1, <1>2, <1>3, <1>4, <1>5, <1>6, <1>7, <1>8, <1>9, <1>10, <1>11, <1>12, <1>13
  DEF Next, Steps

\* A process goes on to a place where the loop has begun only after its beginning.
LEMMA TurnsGoes ==
  ASSUME Inv, TurnsInv, NEW p \in Processes, NEW s, Goes(p, s), turns' = turns,
         runners' \subseteq [of : Processes, turn : 1..MaxTurns, at : {"new", "go"}],
         \A q \in Processes \ {p} : flags'[q] = flags[q],
         \/ s \in Begun
         \/ s \in {"send", "sending"} /\ flags'[p].bang = "none"
         => turns > 0
  PROVE  TurnsInv'
<1>1. \A q \in Processes : pc'[q] = IF q = p THEN s ELSE pc[q]
  BY DEF Goes, Inv
<1>2. QED
  BY <1>1 DEF TurnsInv

LEMMA TurnsEnds ==
  ASSUME Inv, RestInv, TurnsInv, NEW p \in Processes, Ends(p), turns' = turns
  PROVE  TurnsInv'
<1>1. Goes(p, "ended") /\ runners' \subseteq runners /\ \A q \in Processes \ {p} : flags'[q] = flags[q]
  BY DEF Ends, Ended, RestInv
<1>2. "ended" \notin Begun \union {"send", "sending"}
  BY DEF Begun, Shell, Pumping
<1>3. QED
  BY <1>1, <1>2, TurnsGoes DEF TurnsInv

\* Nothing changes in where the processes are.
LEMMA TurnsStay ==
  ASSUME TurnsInv, UNCHANGED <<pc, flags, turns>>,
         runners' \subseteq [of : Processes, turn : 1..MaxTurns, at : {"new", "go"}]
  PROVE  TurnsInv'
BY DEF TurnsInv

LEMMA TurnsStep ==
  ASSUME Inv, RestInv, TurnsInv, [Next]_vars
  PROVE  TurnsInv'
<1> USE DEF Begun, Shell, Pumping
<1>0. /\ turns \in 0..MaxTurns
      /\ runners \subseteq [of : Processes, turn : 1..MaxTurns, at : {"new", "go"}]
  BY DEF TurnsInv
<1>1. ASSUME NEW p \in Processes, Launch(p)
      PROVE  TurnsInv'
  <2>1. PICK command \in Commands[p] :
          /\ flags' = [flags EXCEPT ![p] = command]
          /\ Goes(p, IF command.bang = "none" THEN "boot" ELSE "send")
    BY <1>1 DEF Launch
  <2>2. flags'[p] = command /\ \A q \in Processes \ {p} : flags'[q] = flags[q]
    BY <2>1 DEF RestInv
  <2>3. PICK s : s = IF command.bang = "none" THEN "boot" ELSE "send"
    OBVIOUS
  <2>4. Goes(p, s) /\ (s = "boot" \/ (s = "send" /\ flags'[p].bang # "none"))
    BY <2>1, <2>2, <2>3
  <2>5. QED
    BY <1>0, <1>1, <2>2, <2>4, TurnsGoes DEF Launch, Session
<1>2. ASSUME NEW p \in Processes, Boot(p)
      PROVE  TurnsInv'
  <2>1. CASE Ends(p) /\ turns' = turns
    BY <2>1, TurnsEnds
  <2>2. CASE turns' = turns + 1 /\ UNCHANGED runners
    <3>1. turns < MaxTurns
      BY <1>2 DEF Boot
    <3>2. turns' \in 0..MaxTurns /\ turns' > 0
      BY <1>0, <2>2, <3>1, BoundsAssumption
    <3>3. QED
      BY <1>0, <2>2, <3>2 DEF TurnsInv
  <2>3. QED
    BY <1>2, <2>1, <2>2 DEF Boot
<1>3. ASSUME NEW p \in Processes,
             Check(p) \/ Retry(p) \/ Drop(p) \/ Find(p) \/ CloseReturns(p) \/ Poll(p)
      PROVE  TurnsInv'
  <2>1. PICK s : Goes(p, s)
    BY <1>3 DEF Check, Retry, Drop, Find, CloseReturns, Poll, OpensMutex
  <2>2. UNCHANGED <<turns, flags, runners>>
    BY <1>3 DEF Check, Retry, Drop, Find, CloseReturns, Poll, OpensMutex, Own, Session
  <2>3. CASE pc[p] \in Begun
    BY <1>0, <2>1, <2>2, <2>3, TurnsGoes DEF TurnsInv
  <2>4. QED
    BY <1>3, <2>3 DEF Check, Retry, Drop, Find, CloseReturns, Poll
<1>4. ASSUME NEW p \in Processes, SendBang(p) \/ BangReturns(p)
      PROVE  TurnsInv'
  <2>1. turns' = turns /\ pc[p] \in {"send", "sending"}
    BY <1>4 DEF SendBang, BangReturns
  <2>2. CASE Ends(p)
    BY <2>1, <2>2, TurnsEnds
  <2>3. CASE (\E s \in {"sending", "find"} :
                Goes(p, s) /\ (s = "find" => flags[p].bang = "none")) /\ UNCHANGED Lives
    <3>1. PICK s \in {"sending", "find"} : Goes(p, s) /\ (s = "find" => flags[p].bang = "none")
      BY <2>3
    <3>2. UNCHANGED <<flags, runners>>
      BY <2>3 DEF Lives, Own
    <3>3. flags[p].bang = "none" => turns > 0
      BY <2>1 DEF TurnsInv
    <3>4. QED
      BY <1>0, <2>1, <3>1, <3>2, <3>3, TurnsGoes
  <2>4. QED
    BY <1>4, <2>2, <2>3 DEF SendBang, BangReturns, BangSent
<1>5. ASSUME NEW p \in Processes, Wait(p)
      PROVE  TurnsInv'
  <2>1. turns' = turns /\ pc[p] = "wait" /\ turns > 0
    BY <1>5 DEF Wait, TurnsInv
  <2>2. runners' \subseteq runners
    BY <1>5 DEF Wait, Lives, Ended
  <2>3. QED
    BY <1>0, <2>1, <2>2 DEF TurnsInv
<1>6. ASSUME NEW p \in Processes, StartFails(p) \/ Start(p) \/ ManagersFail(p) \/ Started(p)
                                  \/ RunReturns(p) \/ StopServices(p) \/ StopReturns(p)
      PROVE  TurnsInv'
  <2>1. PICK s : Goes(p, s)
    BY <1>6 DEF StartFails, Start, ManagersFail, Started, RunReturns, StopServices, StopReturns
  <2>2. UNCHANGED <<turns, flags>> /\ pc[p] \in Begun
    BY <1>6 DEF StartFails, Start, ManagersFail, Started, RunReturns, StopServices, StopReturns,
       Own, Session
  <2>3. turns > 0
    BY <2>2 DEF TurnsInv
  <2>4. runners' \subseteq [of : Processes, turn : 1..MaxTurns, at : {"new", "go"}]
    <3>1. turns \in 1..MaxTurns
      BY <1>0, <2>3
    <3>2. CASE Started(p)
      BY <1>0, <3>1, <3>2 DEF Started
    <3>3. CASE ~Started(p)
      BY <1>0, <1>6, <3>3 DEF StartFails, Start, ManagersFail, RunReturns, StopServices, StopReturns,
         Session
    <3>4. QED
      BY <3>2, <3>3
  <2>5. QED
    BY <2>1, <2>2, <2>3, <2>4, TurnsGoes
<1>7. ASSUME NEW p \in Processes, Leave(p)
      PROVE  TurnsInv'
  <2>1. turns' = turns
    BY <1>7 DEF Leave
  <2>2. CASE Ends(p)
    BY <2>1, <2>2, TurnsEnds
  <2>3. CASE Goes(p, "boot") /\ flags' = [flags EXCEPT ![p].explorer = TRUE] /\ UNCHANGED runners
    <3>1. \A q \in Processes \ {p} : flags'[q] = flags[q]
      BY <2>3 DEF RestInv
    <3>2. QED
      BY <1>0, <2>1, <2>3, <3>1, TurnsGoes
  <2>4. QED
    BY <1>7, <2>2, <2>3 DEF Leave
<1>8. ASSUME NEW p \in Processes, GiveUp(p) \/ Terminate(p)
      PROVE  TurnsInv'
  BY <1>8, TurnsEnds DEF GiveUp, Terminate
<1>9. ASSUME NEW p \in Processes, ComThread(p) \/ Serve(p) \/ Recycle(p) \/ Ask(p)
      PROVE  TurnsInv'
  BY <1>0, <1>9, TurnsStay DEF ComThread, Serve, Recycle, Ask, Own, Session
<1>10. ASSUME NEW r, RunnerChecks(r) \/ RunnerRuns(r)
       PROVE  TurnsInv'
  <2>1. r \in [of : Processes, turn : 1..MaxTurns, at : {"new", "go"}]
    BY <1>0, <1>10 DEF RunnerChecks, RunnerRuns
  <2>2. [r EXCEPT !.at = "go"] \in [of : Processes, turn : 1..MaxTurns, at : {"new", "go"}]
    BY <2>1
  <2>3. runners' \subseteq runners \union {[r EXCEPT !.at = "go"]}
    BY <1>10 DEF RunnerChecks, RunnerRuns
  <2>4. QED
    BY <1>0, <1>10, <2>2, <2>3, TurnsStay DEF RunnerChecks, RunnerRuns, Own
<1>11. CASE UNCHANGED vars
  BY <1>0, <1>11, TurnsStay DEF vars, Own, Session
<1>12. QED
  BY <1>1, <1>2, <1>3, <1>4, <1>5, <1>6, <1>7, <1>8, <1>9, <1>10, <1>11 DEF Next, Steps

\* Every variable keeps its type, though a process may end at any step and its handles,
\* window, threads and messages with it (WinMain.cpp:116-196, 538-611).
THEOREM Typing == FairSpec => []TypeOK
<1>1. Init => Inv /\ RestInv /\ TurnsInv
  <2>1. Init => Inv
    BY DEF Init, Inv, OneShell, Places, Shell, Pumping
  <2>2. NoFlags \in StartFlags
    BY DEF NoFlags, StartFlags
  <2>3. Init => RestInv
    <3>1. Init => marked \in BOOLEAN /\ ran \in BOOLEAN
      BY DEF Init
    <3>2. Init => /\ opened \in [Processes -> BOOLEAN] /\ answered \in [Processes -> BOOLEAN]
      BY DEF Init
    <3>3. Init => /\ flags \in [Processes -> StartFlags] /\ ret \in [Processes -> {"none", "explorer"}]
                  /\ handles \subseteq Processes /\ windows \subseteq Processes
                  /\ target \in [Processes -> Processes \union {None}]
      BY <2>2 DEF Init
    <3>4. Init => /\ posted \in [Processes -> SUBSET {"dialog", "quit", "explorer"}]
                  /\ quit \in [Processes -> {"no", "none", "explorer"}]
                  /\ com \in [Processes -> {"none", "new", "queue", "quit"}]
      BY DEF Init
    <3>5. QED
      BY <3>1, <3>2, <3>3, <3>4 DEF RestInv
  <2>4. Init => TurnsInv
    BY BoundsAssumption DEF Init, TurnsInv, Begun, Shell, Pumping
  <2>5. QED
    BY <2>1, <2>3, <2>4
<1>2. Inv /\ RestInv /\ TurnsInv /\ [Next]_vars => (Inv /\ RestInv /\ TurnsInv)'
  BY StepPreserves, RestStep, TurnsStep
<1>3. Inv /\ RestInv /\ TurnsInv => TypeOK
  BY DEF Inv, RestInv, TurnsInv, TypeOK
<1>4. QED
  BY <1>1, <1>2, <1>3, PTL DEF FairSpec
=============================================================================
