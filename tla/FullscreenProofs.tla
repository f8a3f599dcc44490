-------------------------- MODULE FullscreenProofs --------------------------
(***************************************************************************)
(* The multiset of hidden monitors against the list of known windows and   *)
(* against what the modules are told, and the type of the monitor, for any *)
(* number of windows and monitors, and any moves of the windows.           *)
(***************************************************************************)
EXTENDS FullscreenMonitor, FiniteSetTheorems, SequenceTheorems, TLAPS

\* The windows that a list of known windows has on a monitor; no window is on it twice.
EntriesOn(s, m) == {i \in 1..Len(s) : s[i].mon = m}
WinsOn(s, m)    == {s[i].win : i \in EntriesOn(s, m)}
OnceIn(s)       == \A i, j \in 1..Len(s) : s[i].win = s[j].win => i = j
Counted(h, s)   == \A m \in Monitors : h[m] <= Cardinality(WinsOn(s, m))

\* What the argument needs of the types.
TypeInv ==
  /\ full \in [Windows -> Monitors \cup {None}]
  /\ foreground \in Windows \cup {Shell} /\ fg \in Windows \cup {Shell}
  /\ known \in Seq(Entry) /\ hidden \in [Monitors -> Nat]
  /\ pos \in 1..(Len(known) + 1)

\* A window is known once.  The walk over the windows known has not met one that is
\* still to be enumerated, nor, while it has not said so, the one in front.
KnownInv ==
  /\ OnceIn(known)
  /\ pc = "enumerate" => /\ \A i \in 1..Len(known) : known[i].win \notin todo
                         /\ \A m \in Monitors : hidden[m] = 0
  /\ pc = "verify" /\ ~checked => \A i \in 1..Len(known) : i < pos => known[i].win # fg
  /\ pc = "foreground" => \A i \in 1..Len(known) : known[i].win # fg
  /\ pc # "verify" => pos = 1

Inv == TypeInv /\ KnownInv /\ Counted(hidden, known)

-----------------------------------------------------------------------------
LEMMA RemoveOne ==
  ASSUME NEW S, NEW s \in Seq(S), NEW p \in 1..Len(s)
  PROVE  /\ RemoveAt(s, p) \in Seq(S) /\ Len(RemoveAt(s, p)) = Len(s) - 1
         /\ \A i \in 1..(Len(s) - 1) : RemoveAt(s, p)[i] = IF i < p THEN s[i] ELSE s[i + 1]
<1> DEFINE a == SubSeq(s, 1, p - 1)
           b == SubSeq(s, p + 1, Len(s))
<1>1. /\ a \in Seq(S) /\ Len(a) = p - 1
      /\ \A i \in 1..(p - 1) : a[i] = s[i]
  <2>1. \A i \in 1..(p - 1) : s[i] \in S
    OBVIOUS
  <2> QED
    BY <2>1, SubSeqProperties
<1>2. /\ b \in Seq(S) /\ Len(b) = Len(s) - p
      /\ \A i \in 1..(Len(s) - p) : b[i] = s[p + i]
  <2>1. \A i \in (p + 1)..Len(s) : s[i] \in S
    OBVIOUS
  <2>2. /\ SubSeq(s, p + 1, Len(s)) \in Seq(S)
        /\ Len(SubSeq(s, p + 1, Len(s))) = IF p + 1 <= Len(s) THEN Len(s) - (p + 1) + 1 ELSE 0
        /\ \A i \in 1..(Len(s) - (p + 1) + 1) : SubSeq(s, p + 1, Len(s))[i] = s[p + 1 + i - 1]
    BY <2>1, SubSeqProperties
  <2> QED
    BY <2>2
<1>3. RemoveAt(s, p) = a \o b
  BY DEF RemoveAt
<1> HIDE DEF a, b
<1>4. /\ a \o b \in Seq(S) /\ Len(a \o b) = Len(s) - 1
      /\ \A i \in 1..(Len(s) - 1) : (a \o b)[i] = IF i <= p - 1 THEN a[i] ELSE b[i - (p - 1)]
  BY <1>1, <1>2, ConcatProperties
<1>5. ASSUME NEW i \in 1..(Len(s) - 1)
      PROVE  (a \o b)[i] = IF i < p THEN s[i] ELSE s[i + 1]
  <2>1. CASE i < p
    BY <1>1, <1>4, <2>1
  <2>2. CASE i >= p
    <3> DEFINE k == i - (p - 1)
    <3>1. k \in 1..(Len(s) - p) /\ p + k = i + 1
      BY <2>2
    <3>2. b[k] = s[i + 1]
      BY <1>2, <3>1
    <3>3. (a \o b)[i] = b[k]
      BY <1>4, <2>2
    <3> QED
      BY <2>2, <3>2, <3>3
  <2>3. i < p \/ i >= p
    OBVIOUS
  <2> QED
    BY <2>1, <2>2, <2>3
<1> QED
  BY <1>3, <1>4, <1>5

\* The windows on a monitor are as many as their entries.
LEMMA WinsCount ==
  ASSUME NEW s \in Seq(Entry), NEW m \in Monitors
  PROVE  /\ IsFiniteSet(WinsOn(s, m)) /\ Cardinality(WinsOn(s, m)) \in Nat
         /\ OnceIn(s) => Cardinality(EntriesOn(s, m)) = Cardinality(WinsOn(s, m))
<1> DEFINE E == EntriesOn(s, m)
           W == WinsOn(s, m)
           f == [i \in E |-> s[i].win]
<1>1. E \in SUBSET (1..Len(s)) /\ IsFiniteSet(1..Len(s))
  BY FS_Interval DEF EntriesOn
<1>2. IsFiniteSet(E)
  BY <1>1, FS_Subset
<1>3. f \in Surjection(E, W)
  BY DEF Surjection, WinsOn
<1>4. ASSUME OnceIn(s) PROVE f \in Injection(E, W)
  <2>1. f \in [E -> W]
    BY DEF WinsOn
  <2>2. \A i, j \in E : f[i] = f[j] => i = j
    BY <1>1, <1>4 DEF OnceIn
  <2> QED
    BY <2>1, <2>2 DEF Injection, IsInjective
<1> HIDE DEF E, W, f
<1>5. IsFiniteSet(W) /\ (Cardinality(W) = Cardinality(E) <=> f \in Injection(E, W))
  BY <1>2, <1>3, FS_Surjection
<1>6. Cardinality(W) \in Nat
  BY <1>5, FS_CardinalityType
<1> QED
  BY <1>4, <1>5, <1>6 DEF E, W

\* One more entry, an entry less, and an entry that moves.
LEMMA WinsAppend ==
  ASSUME NEW s \in Seq(Entry), NEW e \in Entry, NEW m \in Monitors
  PROVE  WinsOn(Append(s, e), m) = WinsOn(s, m) \cup (IF e.mon = m THEN {e.win} ELSE {})
<1>1. /\ Len(Append(s, e)) = Len(s) + 1 /\ Append(s, e)[Len(s) + 1] = e
      /\ \A i \in 1..Len(s) : Append(s, e)[i] = s[i]
  BY AppendProperties
<1>2. EntriesOn(Append(s, e), m)
        = EntriesOn(s, m) \cup (IF e.mon = m THEN {Len(s) + 1} ELSE {})
  BY <1>1 DEF EntriesOn
<1>3. \A i \in EntriesOn(s, m) : Append(s, e)[i] = s[i]
  BY <1>1 DEF EntriesOn
<1> QED
  BY <1>1, <1>2, <1>3 DEF WinsOn

LEMMA WinsRemove ==
  ASSUME NEW s \in Seq(Entry), NEW p \in 1..Len(s), NEW m \in Monitors, s[p].mon # m
  PROVE  WinsOn(s, m) \subseteq WinsOn(RemoveAt(s, p), m)
<1> DEFINE r == RemoveAt(s, p)
<1>1. /\ Len(r) = Len(s) - 1
      /\ \A i \in 1..(Len(s) - 1) : r[i] = IF i < p THEN s[i] ELSE s[i + 1]
  BY RemoveOne
<1> HIDE DEF r
<1>2. ASSUME NEW i \in 1..Len(s), s[i].mon = m
      PROVE  \E k \in 1..Len(r) : r[k].mon = m /\ r[k].win = s[i].win
  <2>1. CASE i < p
    BY <1>1, <1>2, <2>1
  <2>2. CASE i > p
    <3>1. i - 1 \in 1..(Len(s) - 1) /\ ~(i - 1 < p) /\ (i - 1) + 1 = i
      BY <2>2
    <3>2. r[i - 1] = s[i]
      BY <1>1, <3>1
    <3> QED
      BY <1>1, <1>2, <3>1, <3>2
  <2> QED
    BY <1>2, <2>1, <2>2
<1> QED
  BY <1>2 DEF WinsOn, EntriesOn, r

LEMMA WinsMove ==
  ASSUME NEW s \in Seq(Entry), NEW r \in Seq(Entry), NEW p \in 1..Len(s), NEW n \in Monitors,
         s[p].mon # n, Len(r) = Len(s), r[p].win = s[p].win, r[p].mon = n,
         \A i \in 1..Len(s) : i # p => r[i] = s[i]
  PROVE  /\ \A i \in 1..Len(s) : r[i].win = s[i].win
         /\ WinsOn(r, n) = WinsOn(s, n) \cup {s[p].win}
         /\ \A m \in Monitors \ {n, s[p].mon} : WinsOn(r, m) = WinsOn(s, m)
         /\ OnceIn(s) => s[p].win \notin WinsOn(s, n)
<1>1. EntriesOn(r, n) = EntriesOn(s, n) \cup {p}
  BY DEF EntriesOn
<1>2. \A i \in 1..Len(s) : r[i].win = s[i].win
  OBVIOUS
<1>3. \A m \in Monitors \ {n, s[p].mon} : EntriesOn(r, m) = EntriesOn(s, m)
  BY DEF EntriesOn
<1>4. OnceIn(s) => s[p].win \notin WinsOn(s, n)
  BY DEF OnceIn, WinsOn, EntriesOn
<1>5. \A m \in Monitors : EntriesOn(s, m) \subseteq 1..Len(s)
  BY DEF EntriesOn
<1>6. WinsOn(r, n) = WinsOn(s, n) \cup {s[p].win}
  <2>1. WinsOn(r, n) = {s[i].win : i \in EntriesOn(r, n)}
    BY <1>1, <1>2, <1>5 DEF WinsOn
  <2> QED
    BY <1>1, <2>1 DEF WinsOn
<1>7. ASSUME NEW m \in Monitors \ {n, s[p].mon} PROVE WinsOn(r, m) = WinsOn(s, m)
  BY <1>2, <1>3, <1>5 DEF WinsOn
<1> QED
  BY <1>2, <1>4, <1>6, <1>7

-----------------------------------------------------------------------------
(* The steps.                                                               *)

LEMMA InitInv == Init => Inv
<1> SUFFICES ASSUME Init PROVE Inv
  OBVIOUS
<1>1. /\ known = <<>> /\ hidden = [m \in Monitors |-> 0] /\ pos = 1 /\ pc = "enumerate"
      /\ fg = Shell /\ full \in [Windows -> Monitors \cup {None}] /\ foreground \in Windows \cup {Shell}
  BY MonitorAssumption DEF Init
<1>2. <<>> \in Seq(Entry) /\ Len(<<>>) = 0
  OBVIOUS
<1>3. TypeInv
  BY <1>1, <1>2 DEF TypeInv
<1>4. KnownInv
  BY <1>1, <1>2 DEF KnownInv, OnceIn
<1>5. ASSUME NEW m \in Monitors PROVE hidden[m] <= Cardinality(WinsOn(known, m))
  <2>1. hidden[m] = 0 /\ known \in Seq(Entry)
    BY <1>1, <1>3 DEF TypeInv
  <2>2. Cardinality(WinsOn(known, m)) \in Nat
    BY <2>1, WinsCount
  <2> QED
    BY <2>1, <2>2
<1> QED
  BY <1>3, <1>4, <1>5 DEF Inv, Counted

\* All monitors are counted anew.
LEMMA CountAnew ==
  ASSUME Inv, hidden' = [m \in Monitors |-> Cardinality(On(m))]
  PROVE  hidden' \in [Monitors -> Nat] /\ Counted(hidden', known)
<1>1. ASSUME NEW m \in Monitors
      PROVE  hidden'[m] \in Nat /\ hidden'[m] = Cardinality(WinsOn(known, m))
  <2>1. On(m) = EntriesOn(known, m)
    BY DEF On, EntriesOn, Inv, TypeInv
  <2> QED
    BY <2>1, WinsCount DEF Inv, TypeInv, KnownInv
<1> QED
  BY <1>1, WinsCount DEF Counted, Inv, TypeInv

\* One more entry, for a window that was not known.
LEMMA AppendKeeps ==
  ASSUME NEW s \in Seq(Entry), NEW e \in Entry, OnceIn(s), \A i \in 1..Len(s) : s[i].win # e.win
  PROVE  /\ Append(s, e) \in Seq(Entry) /\ Len(Append(s, e)) = Len(s) + 1 /\ OnceIn(Append(s, e))
         /\ \A i \in 1..(Len(s) + 1) : Append(s, e)[i] = IF i = Len(s) + 1 THEN e ELSE s[i]
         /\ \A m \in Monitors : Cardinality(WinsOn(Append(s, e), m))
              = Cardinality(WinsOn(s, m)) + (IF e.mon = m THEN 1 ELSE 0)
<1> DEFINE r == Append(s, e)
<1>1. /\ r \in Seq(Entry) /\ Len(r) = Len(s) + 1
      /\ \A i \in 1..(Len(s) + 1) : r[i] = IF i = Len(s) + 1 THEN e ELSE s[i]
  BY AppendProperties
<1>2. OnceIn(r)
  BY <1>1 DEF OnceIn
<1>3. ASSUME NEW m \in Monitors
      PROVE  Cardinality(WinsOn(r, m)) = Cardinality(WinsOn(s, m)) + (IF e.mon = m THEN 1 ELSE 0)
  <2>1. /\ WinsOn(r, m) = WinsOn(s, m) \cup (IF e.mon = m THEN {e.win} ELSE {})
        /\ IsFiniteSet(WinsOn(s, m)) /\ Cardinality(WinsOn(s, m)) \in Nat
    BY WinsAppend, WinsCount
  <2>2. e.win \notin WinsOn(s, m)
    BY DEF WinsOn, EntriesOn
  <2>3. Cardinality(WinsOn(s, m) \cup {e.win}) = Cardinality(WinsOn(s, m)) + 1
    BY <2>1, <2>2, FS_AddElement
  <2>4. CASE e.mon = m
    BY <2>1, <2>3, <2>4
  <2>5. CASE e.mon # m
    BY <2>1, <2>5
  <2> QED
    BY <2>4, <2>5
<1> QED
  BY <1>1, <1>2, <1>3

LEMMA EnumerateKeeps == ASSUME Inv, NEW w \in Windows, EnumerateOne(w) PROVE Inv'
<1>1. /\ pc = "enumerate" /\ pc' = pc /\ w \in todo /\ todo' = todo \ {w}
      /\ UNCHANGED <<full, foreground, fg, pos, hidden, checked>>
  BY DEF EnumerateOne, envVars
<1>2. CASE full[w] = None
  BY <1>1, <1>2 DEF EnumerateOne, Inv, TypeInv, KnownInv, OnceIn, Counted
<1>3. CASE full[w] # None
  <2> DEFINE e == [win |-> w, mon |-> full[w]]
  <2>1. known' = Append(known, e) /\ e \in Entry /\ e.win = w
    BY <1>3 DEF EnumerateOne, Entry, Inv, TypeInv
  <2>2. known \in Seq(Entry) /\ OnceIn(known) /\ \A i \in 1..Len(known) : known[i].win # e.win
    BY <1>1 DEF Inv, TypeInv, KnownInv
  <2> HIDE DEF e
  <2>3. /\ known' \in Seq(Entry) /\ Len(known') = Len(known) + 1 /\ OnceIn(known')
        /\ \A i \in 1..(Len(known) + 1) : known'[i] = IF i = Len(known) + 1 THEN e ELSE known[i]
        /\ \A m \in Monitors : Cardinality(WinsOn(known', m))
             = Cardinality(WinsOn(known, m)) + (IF e.mon = m THEN 1 ELSE 0)
    BY <2>1, <2>2, AppendKeeps
  <2>4. TypeInv'
    BY <1>1, <2>3 DEF Inv, TypeInv
  <2>5. KnownInv'
    BY <1>1, <2>1, <2>2, <2>3 DEF Inv, KnownInv
  <2>6. \A m \in Monitors : hidden'[m] <= Cardinality(WinsOn(known', m))
    BY <1>1, <2>2, <2>3, WinsCount DEF Inv, KnownInv
  <2> QED
    BY <2>4, <2>5, <2>6 DEF Inv, Counted
<1> QED
  BY <1>2, <1>3

LEMMA HideFoundKeeps == ASSUME Inv, HideFound PROVE Inv'
<1>1. hidden' \in [Monitors -> Nat] /\ Counted(hidden', known)
  BY CountAnew DEF HideFound, HideAll
<1> QED
  BY <1>1 DEF HideFound, HideAll, envVars, Inv, TypeInv, KnownInv, OnceIn, Counted

LEMMA PollKeeps == ASSUME Inv, Poll PROVE Inv'
<1>1. hidden' \in [Monitors -> Nat] /\ Counted(hidden', known)
  BY CountAnew DEF Poll, HideAll, Inv, TypeInv
<1> QED
  BY <1>1 DEF Poll, HideAll, envVars, Inv, TypeInv, KnownInv, OnceIn, Counted

\* A window moved to another monitor.
MovesTo(new) ==
  /\ pc = "verify" /\ pos <= Len(known) /\ new # known[pos].mon
  /\ known' = [known EXCEPT ![pos].mon = new]
  /\ hidden' = [EraseMonitor(hidden, known[pos].mon) EXCEPT ![new] = @ + 1]
  /\ pos' = pos + 1 /\ checked' = (checked \/ known[pos].win = fg)
  /\ UNCHANGED <<full, foreground, pc, fg>>

LEMMA MoveKeeps == ASSUME Inv, NEW new \in Monitors, MovesTo(new) PROVE Inv'
<1> DEFINE old == known[pos].mon
<1>0. known \in Seq(Entry) /\ pos \in 1..Len(known) /\ known[pos] \in Entry
  BY DEF Inv, TypeInv, MovesTo
<1>1. known \in Seq(Entry) /\ pos \in 1..Len(known) /\ known[pos] \in Entry /\ old \in Monitors
  BY <1>0 DEF Entry
<1>2. /\ known' \in Seq(Entry) /\ Len(known') = Len(known)
      /\ \A i \in 1..Len(known) : known'[i].win = known[i].win
      /\ WinsOn(known', new) = WinsOn(known, new) \cup {known[pos].win}
      /\ \A m \in Monitors \ {new, old} : WinsOn(known', m) = WinsOn(known, m)
      /\ known[pos].win \notin WinsOn(known, new)
  <2> DEFINE e == [known[pos] EXCEPT !.mon = new]
  <2>1. e \in Entry /\ e.win = known[pos].win /\ e.mon = new
    BY <1>0 DEF Entry
  <2>2. known' = [known EXCEPT ![pos] = e]
    BY DEF MovesTo
  <2> HIDE DEF e
  <2>3. /\ known' \in Seq(Entry) /\ Len(known') = Len(known)
        /\ \A i \in 1..Len(known) : known'[i] = IF i = pos THEN e ELSE known[i]
    BY <1>0, <2>1, <2>2, ExceptSeq
  <2>4. /\ known'[pos].win = known[pos].win /\ known'[pos].mon = new
        /\ \A i \in 1..Len(known) : i # pos => known'[i] = known[i]
    BY <1>0, <2>1, <2>3
  <2>5. OnceIn(known) /\ known[pos].mon # new
    BY DEF Inv, KnownInv, MovesTo
  <2>6. ASSUME NEW r, r = known'
        PROVE  /\ \A i \in 1..Len(known) : r[i].win = known[i].win
               /\ WinsOn(r, new) = WinsOn(known, new) \cup {known[pos].win}
               /\ \A m \in Monitors \ {new, old} : WinsOn(r, m) = WinsOn(known, m)
               /\ OnceIn(known) => known[pos].win \notin WinsOn(known, new)
    <3>1. /\ r \in Seq(Entry) /\ Len(r) = Len(known) /\ r[pos].win = known[pos].win
          /\ r[pos].mon = new /\ \A i \in 1..Len(known) : i # pos => r[i] = known[i]
      BY <2>3, <2>4, <2>6
    <3> QED
      BY <1>0, <2>5, <3>1, WinsMove
  <2> QED
    BY <2>3, <2>5, <2>6
<1>3. /\ hidden' \in [Monitors -> Nat] /\ hidden'[old] = 0 /\ hidden'[new] = hidden[new] + 1
      /\ \A m \in Monitors \ {new, old} : hidden'[m] = hidden[m]
  <2> DEFINE h == [hidden EXCEPT ![old] = 0]
  <2>1. /\ h \in [Monitors -> Nat] /\ h[old] = 0
        /\ \A m \in Monitors \ {old} : h[m] = hidden[m]
    BY <1>1 DEF Inv, TypeInv
  <2>2. hidden' = [h EXCEPT ![new] = h[new] + 1] /\ new # old
    BY DEF MovesTo, EraseMonitor
  <2> HIDE DEF h
  <2> QED
    BY <1>1, <2>1, <2>2
<1>4. ASSUME NEW m \in Monitors PROVE hidden'[m] <= Cardinality(WinsOn(known', m))
  <2>1. CASE m = old
    <3>1. Cardinality(WinsOn(known', m)) \in Nat
      BY <1>2, WinsCount
    <3> QED
      BY <1>3, <2>1, <3>1
  <2>2. CASE m = new
    <3>1. hidden[m] <= Cardinality(WinsOn(known, m)) /\ hidden[m] \in Nat
      BY DEF Inv, Counted, TypeInv
    <3>2. IsFiniteSet(WinsOn(known, m)) /\ Cardinality(WinsOn(known, m)) \in Nat
      BY <1>1, WinsCount
    <3>3. Cardinality(WinsOn(known', m)) = Cardinality(WinsOn(known, m)) + 1
      BY <1>2, <2>2, <3>2, FS_AddElement
    <3> QED
      BY <1>3, <2>2, <3>1, <3>2, <3>3
  <2>3. CASE m \notin {old, new}
    BY <1>2, <1>3, <2>3 DEF Inv, Counted
  <2> QED
    BY <2>1, <2>2, <2>3
<1>5. TypeInv'
  BY <1>1, <1>2, <1>3 DEF Inv, TypeInv, MovesTo
<1>6. KnownInv'
  <2>1. OnceIn(known)'
    BY <1>2 DEF Inv, KnownInv, OnceIn
  <2>2. ASSUME ~checked', NEW i \in 1..Len(known), i < pos + 1
        PROVE  known'[i].win # fg
    <3>1. i < pos \/ i = pos
      BY <1>1, <2>2
    <3> QED
      BY <1>2, <2>2, <3>1 DEF Inv, KnownInv, MovesTo
  <2> QED
    BY <1>2, <2>1, <2>2 DEF KnownInv, MovesTo
<1> QED
  BY <1>4, <1>5, <1>6 DEF Inv, Counted

\* A window is not fullscreen any more.
LEMMA RemoveKeeps ==
  ASSUME Inv, pc = "verify", pos <= Len(known),
         known' = RemoveAt(known, pos), hidden' = EraseMonitor(hidden, known[pos].mon),
         pos' = pos, checked' = (checked \/ known[pos].win = fg),
         UNCHANGED <<full, foreground, pc, fg>>
  PROVE  Inv'
<1> DEFINE old == known[pos].mon
<1>0. known \in Seq(Entry) /\ pos \in 1..Len(known) /\ known[pos] \in Entry
  BY DEF Inv, TypeInv
<1>1. known \in Seq(Entry) /\ pos \in 1..Len(known) /\ known[pos] \in Entry /\ old \in Monitors
  BY <1>0 DEF Entry
<1>2. /\ known' \in Seq(Entry) /\ Len(known') = Len(known) - 1
      /\ \A i \in 1..(Len(known) - 1) : known'[i] = IF i < pos THEN known[i] ELSE known[i + 1]
  BY <1>1, RemoveOne
<1>3. /\ hidden' \in [Monitors -> Nat] /\ hidden'[old] = 0
      /\ \A m \in Monitors \ {old} : hidden'[m] = hidden[m]
  BY <1>1 DEF EraseMonitor, Inv, TypeInv
<1>4. ASSUME NEW m \in Monitors PROVE hidden'[m] <= Cardinality(WinsOn(known', m))
  <2>1. IsFiniteSet(WinsOn(known', m)) /\ Cardinality(WinsOn(known', m)) \in Nat
    BY <1>2, WinsCount
  <2>2. CASE m = old
    BY <1>3, <2>1, <2>2
  <2>3. CASE m # old
    <3>1. WinsOn(known, m) \in SUBSET WinsOn(known', m)
      BY <1>1, <2>3, WinsRemove
    <3>2. Cardinality(WinsOn(known, m)) <= Cardinality(WinsOn(known', m))
      BY <2>1, <3>1, FS_Subset
    <3>3. /\ hidden[m] <= Cardinality(WinsOn(known, m)) /\ hidden[m] \in Nat
          /\ Cardinality(WinsOn(known, m)) \in Nat
      BY <1>1, WinsCount DEF Inv, Counted, TypeInv
    <3> QED
      BY <1>3, <2>1, <2>3, <3>2, <3>3
  <2> QED
    BY <2>2, <2>3
<1>5. TypeInv'
  BY <1>1, <1>2, <1>3 DEF Inv, TypeInv
<1>6. KnownInv'
  <2>1. ASSUME NEW i \in 1..Len(known'), NEW j \in 1..Len(known'), known'[i].win = known'[j].win
        PROVE  i = j
    <3> DEFINE g(k) == IF k < pos THEN k ELSE k + 1
    <3>1. \A k \in 1..Len(known') : g(k) \in 1..Len(known) /\ known'[k] = known[g(k)]
      BY <1>1, <1>2
    <3>2. g(i) = g(j)
      BY <2>1, <3>1 DEF Inv, KnownInv, OnceIn
    <3> QED
      BY <1>1, <1>2, <3>2
  <2>2. ASSUME ~checked', NEW i \in 1..Len(known'), i < pos
        PROVE  known'[i].win # fg
    <3>1. i \in 1..Len(known) /\ known'[i] = known[i]
      BY <1>1, <1>2, <2>2
    <3> QED
      BY <2>2, <3>1 DEF Inv, KnownInv
  <2> QED
    BY <2>1, <2>2 DEF KnownInv, OnceIn
<1> QED
  BY <1>4, <1>5, <1>6 DEF Inv, Counted

LEMMA VerifyKeeps == ASSUME Inv, VerifyOne PROVE Inv'
<1> DEFINE old == known[pos].mon
           new == full[known[pos].win]
<1>1. /\ pc = "verify" /\ pos <= Len(known) /\ checked' = (checked \/ known[pos].win = fg)
      /\ UNCHANGED <<full, foreground, pc, todo, fg>>
  BY DEF VerifyOne, envVars
<1>0. known[pos] \in Entry
  BY <1>1 DEF Inv, TypeInv
<1>2. known[pos] \in Entry /\ new \in Monitors \cup {None} /\ old \in Monitors
  BY <1>0 DEF Entry, Inv, TypeInv
<1>3. CASE new = old
  <2>1. UNCHANGED <<known, hidden>> /\ pos' = pos + 1
    BY <1>2, <1>3, MonitorAssumption DEF VerifyOne
  <2>2. TypeInv' /\ Counted(hidden', known')
    BY <1>1, <2>1 DEF Inv, TypeInv, Counted
  <2>3. ASSUME ~checked', NEW i \in 1..Len(known), i < pos + 1
        PROVE  known[i].win # fg
    <3>1. i < pos \/ i = pos
      BY <2>3 DEF Inv, TypeInv
    <3> QED
      BY <1>1, <2>3, <3>1 DEF Inv, KnownInv
  <2>4. KnownInv'
    BY <1>1, <2>1, <2>3 DEF Inv, KnownInv, OnceIn
  <2> QED
    BY <2>2, <2>4 DEF Inv
<1>4. CASE new \notin {old, None}
  BY <1>1, <1>2, <1>4, MoveKeeps DEF VerifyOne, MovesTo
<1>5. CASE new = None
  BY <1>1, <1>2, <1>5, RemoveKeeps, MonitorAssumption DEF VerifyOne, AfterErase
<1> QED
  BY <1>3, <1>4, <1>5

LEMMA ShellKeeps == ASSUME Inv, ShellInFront PROVE Inv'
<1>1. /\ hidden' = [m \in Monitors |-> 0] /\ known' \in {known, <<>>} /\ pc' = "poll"
      /\ UNCHANGED <<full, foreground, pos, fg, checked>> /\ pc = "foreground"
  BY DEF ShellInFront, envVars
<1>2. pos = 1 /\ <<>> \in Seq(Entry) /\ Len(<<>>) = 0 /\ known' \in Seq(Entry)
  <2>1. pos = 1 /\ known \in Seq(Entry)
    BY <1>1 DEF Inv, TypeInv, KnownInv
  <2>2. <<>> \in Seq(Entry) /\ Len(<<>>) = 0
    OBVIOUS
  <2> QED
    BY <1>1, <2>1, <2>2
<1>3. TypeInv' /\ KnownInv'
  BY <1>1, <1>2 DEF Inv, TypeInv, KnownInv, OnceIn
<1>4. ASSUME NEW m \in Monitors PROVE hidden'[m] <= Cardinality(WinsOn(known', m))
  BY <1>1, <1>2, WinsCount
<1> QED
  BY <1>3, <1>4 DEF Inv, Counted

LEMMA OtherKeeps == ASSUME Inv, OtherInFront PROVE Inv'
<1>1. /\ pc = "foreground" /\ pc' = "poll" /\ fg # Shell
      /\ UNCHANGED <<full, foreground, todo, pos, fg, checked>>
  BY DEF OtherInFront, envVars
<1>2. CASE full[fg] = None
  BY <1>1, <1>2 DEF OtherInFront, Inv, TypeInv, KnownInv, OnceIn, Counted
<1>3. CASE full[fg] # None
  <2> DEFINE m0 == full[fg]
             e == [win |-> fg, mon |-> m0]
  <2>1. fg \in Windows /\ m0 \in Monitors /\ e \in Entry /\ e.win = fg /\ e.mon = m0
    BY <1>1, <1>3 DEF Entry, Inv, TypeInv
  <2>2. known' = Append(known, e) /\ hidden' = [hidden EXCEPT ![m0] = @ + 1]
    BY <1>3 DEF OtherInFront
  <2>3. known \in Seq(Entry) /\ OnceIn(known) /\ \A i \in 1..Len(known) : known[i].win # e.win
    BY <1>1, <2>1 DEF Inv, TypeInv, KnownInv
  <2> HIDE DEF e
  <2>4. /\ known' \in Seq(Entry) /\ Len(known') = Len(known) + 1 /\ OnceIn(known')
        /\ \A m \in Monitors : Cardinality(WinsOn(known', m))
             = Cardinality(WinsOn(known, m)) + (IF m0 = m THEN 1 ELSE 0)
    BY <2>1, <2>2, <2>3, AppendKeeps
  <2>5. TypeInv'
    BY <1>1, <2>1, <2>2, <2>4 DEF Inv, TypeInv
  <2>6. KnownInv'
    BY <1>1, <2>4 DEF Inv, KnownInv
  <2>7. ASSUME NEW m \in Monitors PROVE hidden'[m] <= Cardinality(WinsOn(known', m))
    <3>1. /\ hidden[m] <= Cardinality(WinsOn(known, m)) /\ hidden[m] \in Nat
          /\ Cardinality(WinsOn(known, m)) \in Nat
      BY <2>3, WinsCount DEF Inv, Counted, TypeInv
    <3>2. hidden'[m] = hidden[m] + (IF m0 = m THEN 1 ELSE 0)
      BY <2>1, <2>2 DEF Inv, TypeInv
    <3> QED
      BY <2>4, <3>1, <3>2
  <2> QED
    BY <2>5, <2>6, <2>7 DEF Inv, Counted
<1> QED
  BY <1>2, <1>3

\* The environment and the UI thread touch neither the list nor the multiset.
LEMMA StepInv == Inv /\ [Next]_vars => Inv'
<1> SUFFICES ASSUME Inv, [Next]_vars PROVE Inv'
  OBVIOUS
<1> USE DEF Inv, TypeInv, KnownInv, OnceIn, Counted, envVars, threadVars
<1>1. CASE WindowChanges
  <2>1. PICK w \in Windows : \E m \in Places[w] \cup {None} : full' = [full EXCEPT ![w] = m]
    BY <1>1 DEF WindowChanges
  <2>2. PICK m \in Monitors \cup {None} : full' = [full EXCEPT ![w] = m]
    BY <2>1, MonitorAssumption
  <2> QED
    BY <1>1, <2>2 DEF WindowChanges
<1>2. CASE ForegroundChanges
  BY <1>2, MonitorAssumption DEF ForegroundChanges
<1>3. ASSUME NEW w \in Windows, EnumerateOne(w) PROVE Inv'
  BY <1>3, EnumerateKeeps
<1>4. CASE HideFound
  BY <1>4, HideFoundKeeps
<1>5. CASE Poll
  BY <1>5, PollKeeps
<1>6. CASE End
  BY <1>6 DEF End
<1>7. CASE VerifyOne
  BY <1>7, VerifyKeeps
<1>8. CASE VerifyDone
  BY <1>8 DEF VerifyDone
<1>9. CASE ShellInFront
  BY <1>9, ShellKeeps
<1>10. CASE OtherInFront
  BY <1>10, OtherKeeps
<1>11. CASE Dispatch \/ Unload \/ Recycle \/ Load \/ Stop \/ UNCHANGED vars
  BY <1>11 DEF Dispatch, Unload, Recycle, Load, Stop, vars
<1> QED
  BY <1>1, <1>2, <1>3, <1>4, <1>5, <1>6, <1>7, <1>8, <1>9, <1>10, <1>11 DEF Next, ThreadProc

\* Modules are hidden only for a known window, and a window counts once, for any windows,
\* monitors and moves: the foreground window is only added where the walk over the known
\* ones has not met it.
THEOREM HiddenHasReason == Spec => []HiddenForAReason
<1>1. Inv => HiddenForAReason
  <2> SUFFICES ASSUME Inv, NEW m \in Monitors
               PROVE  hidden[m] <= Cardinality({known[i].win : i \in On(m)})
    BY DEF HiddenForAReason
  <2>1. {known[i].win : i \in On(m)} = WinsOn(known, m)
    BY DEF On, WinsOn, EntriesOn, Inv, TypeInv
  <2> QED
    BY <2>1 DEF Inv, Counted
<1> QED
  BY <1>1, InitInv, StepInv, PTL DEF Spec
-----------------------------------------------------------------------------
(* What the modules are told.                                               *)

RestInv ==
  /\ pc \in {"enumerate", "poll", "verify", "foreground", "ended"} /\ todo \subseteq Windows
  /\ {checked, run, reHide, autoHide} \subseteq BOOLEAN
  /\ ui \in {"pump", "unloaded", "reloaded", "joining"}
  /\ queue \in Seq(Notice)
  /\ covered \subseteq Monitors /\ invisible \subseteq Monitors

\* The monitors that have a fullscreen window by the messages q, which come after c.
Covers(q, c) ==
  {m \in Monitors :
     IF News(q, m) = {} THEN m \in c
     ELSE \E i \in News(q, m) : \A j \in News(q, m) : i <= j => q[j].kind = "activated"}

\* The messages t tell the modules on ms, and no others, the message k.
Tells(t, ms, k) ==
  /\ t \in Seq(Notice)
  /\ \A m \in ms : News(t, m) # {}
  /\ \A i \in 1..Len(t) : /\ t[i].mon \in ms
                          /\ t[i].kind \in {"activated", "deactivated"} => t[i].kind = k

\* The monitors ms are added to C or taken from it by the message k.
After(k, C, ms) == IF k = "activated" THEN C \cup ms ELSE C \ ms

\* q is r with more messages; these monitors have a fullscreen window by one of them.
Announced(r, q) ==
  {m \in Monitors : \E i \in (Len(r) + 1)..Len(q) : q[i] = [kind |-> "activated", mon |-> m]}

\* The modules are told of what the thread holds for hidden, until a recycle.
ToldInv == /\ TellsWhatItHolds
           /\ ui = "reloaded" => reHide

\* Who is told now has not been told before.
Afresh == \A m \in Monitors : ~reHide /\ ui = "pump" /\ m \in Announced(queue, queue') => m \notin CoveredSoon

LEMMA NoneTells ==
  ASSUME NEW k PROVE Tells(<<>>, {}, k)
BY DEF Tells, News

LEMMA ToldTells ==
  ASSUME NEW m \in Monitors, NEW hide \in BOOLEAN, autoHide \in BOOLEAN
  PROVE  IF hide THEN Tells(HideModules(m), {m}, "activated")
                 ELSE Tells(ShowModules(m), {m}, "deactivated")
<1> DEFINE bang == IF hide THEN "!HideModules" ELSE "!ShowModules"
           message == IF hide THEN "activated" ELSE "deactivated"
           a == [kind |-> bang, mon |-> m]
           b == [kind |-> message, mon |-> m]
           t == Told(bang, message, m)
<1>1. a \in Notice /\ b \in Notice /\ a.mon = m /\ b.mon = m /\ a.kind = bang /\ b.kind = message
  BY DEF Notice
<1>2. t = IF autoHide THEN <<a, b>> ELSE <<b>>
  BY DEF Told
<1> HIDE DEF a, b, t
<1>3. CASE autoHide
  <2>1. Len(t) = 2 /\ t[1] = a /\ t[2] = b /\ t \in Seq(Notice)
    BY <1>1, <1>2, <1>3
  <2>2. 2 \in News(t, m)
    BY <1>1, <2>1 DEF News
  <2>3. \A i \in 1..Len(t) : i = 1 \/ i = 2
    BY <2>1
  <2>4. bang \notin {"activated", "deactivated"}
    OBVIOUS
  <2> QED
    <3>1. \A i \in 1..Len(t) : t[i].mon = m /\ (t[i].kind = bang \/ t[i].kind = message)
      BY <1>1, <2>1, <2>3
    <3>2. Tells(t, {m}, message)
      BY <2>1, <2>2, <2>4, <3>1 DEF Tells
    <3> QED
      BY <3>2 DEF HideModules, ShowModules, t
<1>4. CASE ~autoHide
  <2>1. Len(t) = 1 /\ t[1] = b /\ t \in Seq(Notice)
    BY <1>1, <1>2, <1>4
  <2>2. 1 \in News(t, m)
    BY <1>1, <2>1 DEF News
  <2>3. \A i \in 1..Len(t) : i = 1
    BY <2>1
  <2> QED
    <3>1. Tells(t, {m}, message)
      BY <1>1, <2>1, <2>2, <2>3 DEF Tells
    <3> QED
      BY <3>1 DEF HideModules, ShowModules, t
<1> QED
  BY <1>3, <1>4

\* All monitors of a finite set have their place in a sequence of it.
LEMMA Ordered ==
  ASSUME NEW S, IsFiniteSet(S)
  PROVE  /\ Cardinality(S) \in Nat /\ SetToSeq(S) \in [1..Cardinality(S) -> S]
         /\ \A x \in S : \E i \in 1..Cardinality(S) : SetToSeq(S)[i] = x
<1>1. Cardinality(S) \in Nat /\ \E f : f \in Bijection(1..Cardinality(S), S)
  BY FS_CardinalityType DEF ExistsBijection
<1>2. PICK f : f \in Bijection(1..Cardinality(S), S)
  BY <1>1
<1>3. f \in [1..Cardinality(S) -> S] /\ IsInjective(f)
  BY <1>2 DEF Bijection, Injection, IsInjective
<1> DEFINE s == SetToSeq(S)
<1>4. s \in [1..Cardinality(S) -> S] /\ IsInjective(s)
  <2>1. s = CHOOSE g \in [1..Cardinality(S) -> S] : IsInjective(g)
    BY DEF SetToSeq
  <2> HIDE DEF s
  <2> QED
    BY <1>3, <2>1
<1>5. s \in Injection(1..Cardinality(S), S)
  BY <1>4 DEF Injection
<1>6. IsFiniteSet(1..Cardinality(S)) /\ Cardinality(1..Cardinality(S)) = Cardinality(S)
  BY <1>1, FS_Interval
<1> HIDE DEF s
<1>7. s \in Surjection(1..Cardinality(S), S)
  BY <1>5, <1>6, FS_Injection
<1> QED
  BY <1>1, <1>4, <1>7 DEF Surjection, s

LEMMA OnEachTells ==
  ASSUME NEW es \in SUBSET (Monitors \X Nat), IsFiniteSet(es), autoHide \in BOOLEAN,
         NEW bang \in {"!HideModules", "!ShowModules"}, NEW message \in {"activated", "deactivated"}
  PROVE  Tells(OnEach(bang, message, es), {e[1] : e \in es}, message)
<1> DEFINE n == Cardinality(es)
           order == SetToSeq(es)
           ms == {e[1] : e \in es}
           t == OnEach(bang, message, es)
<1>0. n \in Nat /\ order \in [1..n -> es] /\ \A x \in es : \E i \in 1..n : order[i] = x
  BY Ordered
<1> HIDE DEF n, order
<1>1. /\ n \in Nat /\ ms \in SUBSET Monitors /\ \A i \in 1..n : order[i][1] \in ms
      /\ \A m \in ms : \E i \in 1..n : order[i][1] = m
  <2>1. ms \in SUBSET Monitors
    OBVIOUS
  <2>2. \A i \in 1..n : order[i] \in es
    BY <1>0
  <2>3. \A i \in 1..n : order[i][1] \in ms
    BY <2>2
  <2>4. ASSUME NEW m \in ms PROVE \E i \in 1..n : order[i][1] = m
    <3>1. PICK x \in es : x[1] = m
      OBVIOUS
    <3>2. PICK i \in 1..n : order[i] = x
      BY <1>0
    <3> QED
      BY <3>1, <3>2
  <2> QED
    BY <1>0, <2>1, <2>3, <2>4
<1> HIDE DEF ms
<1>2. CASE autoHide
  <2> DEFINE e(i) == [kind |-> IF i % 2 = 1 THEN bang ELSE message, mon |-> order[(i + 1) \div 2][1]]
  <2>1. t = [i \in 1..(2 * n) |-> e(i)]
    BY <1>2 DEF OnEach, n, order
  <2>2. \A i \in 1..(2 * n) : (i + 1) \div 2 \in 1..n /\ order[(i + 1) \div 2][1] \in ms
    BY <1>1
  <2>3. \A i \in 1..(2 * n) : e(i) \in Notice /\ e(i).mon \in ms
                                              /\ e(i).kind \in {bang, message}
    BY <1>1, <2>2 DEF Notice
  <2>4. ASSUME NEW i \in 1..n
        PROVE  2 * i \in 1..(2 * n) /\ e(2 * i).mon = order[i][1] /\ e(2 * i).kind = message
    <3>1. 2 * i \in 1..(2 * n) /\ (2 * i) % 2 = 0 /\ (2 * i + 1) \div 2 = i
      BY <1>1
    <3> QED
      BY <3>1
  <2> HIDE DEF e, t
  <2>5. t \in Seq(Notice) /\ Len(t) = 2 * n /\ \A i \in 1..(2 * n) : t[i] = e(i)
    BY <1>1, <2>1, <2>3
  <2>6. ASSUME NEW m \in ms PROVE News(t, m) # {}
    <3>1. PICK i \in 1..n : order[i][1] = m
      BY <1>1
    <3>2. 2 * i \in News(t, m)
      BY <2>4, <2>5, <3>1 DEF News
    <3> QED
      BY <3>2
  <2>7. \A i \in 1..Len(t) : t[i].mon \in ms /\ t[i].kind \in {bang, message}
    BY <2>3, <2>5
  <2> QED
    BY <2>5, <2>6, <2>7 DEF Tells, t, ms
<1>3. CASE ~autoHide
  <2> DEFINE e(i) == [kind |-> message, mon |-> order[i][1]]
  <2>1. t = [i \in 1..n |-> e(i)]
    BY <1>3 DEF OnEach, n, order
  <2>2. \A i \in 1..n : e(i) \in Notice /\ e(i).mon = order[i][1] /\ e(i).kind = message
    BY <1>1 DEF Notice
  <2> HIDE DEF e, t
  <2>3. t \in Seq(Notice) /\ Len(t) = n /\ \A i \in 1..n : t[i] = e(i)
    BY <1>1, <2>1, <2>2
  <2>4. ASSUME NEW m \in ms PROVE News(t, m) # {}
    <3>1. PICK i \in 1..n : order[i][1] = m
      BY <1>1
    <3>2. i \in News(t, m)
      BY <2>2, <2>3, <3>1 DEF News
    <3> QED
      BY <3>2
  <2>5. \A i \in 1..Len(t) : t[i].mon \in ms /\ t[i].kind = message
    BY <1>1, <2>2, <2>3
  <2> QED
    BY <2>3, <2>4, <2>5 DEF Tells, t, ms
<1> QED
  BY <1>2, <1>3

\* More messages speak for the monitors that they are about.
LEMMA TellsMore ==
  ASSUME NEW q \in Seq(Notice), NEW c, NEW t, NEW ms \in SUBSET Monitors, NEW k, Tells(t, ms, k)
  PROVE  /\ q \o t \in Seq(Notice) /\ Len(q) <= Len(q \o t)
         /\ Covers(q \o t, c) = After(k, Covers(q, c), ms)
         /\ Announced(q, q \o t) \subseteq After(k, {}, ms)
         /\ \A r \in Seq(Notice) : Len(r) <= Len(q) =>
              Announced(r, q \o t) \subseteq Announced(r, q) \cup Announced(q, q \o t)
<1> DEFINE b == q \o t
<1>1. /\ b \in Seq(Notice) /\ Len(b) = Len(q) + Len(t) /\ Len(q) \in Nat /\ Len(t) \in Nat
      /\ \A i \in 1..Len(q) : b[i] = q[i]
  BY ConcatProperties, LenProperties DEF Tells
<1>2. ASSUME NEW i \in 1..Len(t) PROVE b[Len(q) + i] = t[i] /\ Len(q) + i \in 1..Len(b)
  <2>1. /\ Len(q) + i \in 1..(Len(q) + Len(t)) /\ ~(Len(q) + i <= Len(q))
        /\ Len(q) + i - Len(q) = i
    BY <1>1
  <2> QED
    BY <1>1, <2>1, ConcatProperties DEF Tells
<1> HIDE DEF b
<1>3. ASSUME NEW i \in 1..Len(b)
      PROVE  \/ i \in 1..Len(q) /\ b[i] = q[i]
             \/ i > Len(q) /\ i - Len(q) \in 1..Len(t) /\ b[i] = t[i - Len(q)]
  <2>1. CASE i <= Len(q)
    BY <1>1, <2>1
  <2>2. CASE i > Len(q)
    <3>1. i - Len(q) \in 1..Len(t) /\ Len(q) + (i - Len(q)) = i
      BY <1>1, <2>2
    <3> QED
      BY <1>2, <2>2, <3>1
  <2> QED
    BY <1>1, <2>1, <2>2
<1>4. ASSUME NEW m \in Monitors, m \in ms PROVE m \in Covers(b, c) <=> k = "activated"
  <2>1. PICK i \in 1..Len(t) : t[i].mon = m /\ t[i].kind \in {"activated", "deactivated"}
    BY <1>4 DEF Tells, News
  <2>2. Len(q) + i \in News(b, m)
    BY <1>2, <2>1 DEF News
  <2>3. \A j \in News(b, m) : j > Len(q) => b[j].kind = k
    <3> SUFFICES ASSUME NEW j \in News(b, m), j > Len(q) PROVE b[j].kind = k
      OBVIOUS
    <3>1. j \in 1..Len(b) /\ b[j].kind \in {"activated", "deactivated"}
      BY DEF News
    <3>2. j - Len(q) \in 1..Len(t) /\ b[j] = t[j - Len(q)]
      BY <1>1, <1>3, <3>1
    <3> QED
      BY <3>1, <3>2 DEF Tells
  <2>4. CASE k = "activated"
    <3>1. \A j \in News(b, m) : Len(q) + i <= j => b[j].kind = "activated"
      BY <1>1, <2>3, <2>4 DEF News
    <3> QED
      BY <2>2, <2>4, <3>1 DEF Covers
  <2>5. CASE k # "activated"
    <3> SUFFICES ASSUME NEW j \in News(b, m), \A n \in News(b, m) : j <= n => b[n].kind = "activated"
                 PROVE  FALSE
      BY <2>2, <2>5 DEF Covers
    <3>1. CASE j <= Len(q) + i
      BY <1>1, <2>2, <2>3, <2>5, <3>1
    <3>2. CASE j > Len(q) + i
      BY <1>1, <2>3, <2>5, <3>2 DEF News
    <3> QED
      BY <1>1, <3>1, <3>2 DEF News
  <2> QED
    BY <2>4, <2>5
<1>5. ASSUME NEW m \in Monitors, m \notin ms PROVE m \in Covers(b, c) <=> m \in Covers(q, c)
  <2>1. News(b, m) = News(q, m)
    <3>1. News(b, m) \subseteq News(q, m)
      <4> SUFFICES ASSUME NEW i \in News(b, m) PROVE i \in News(q, m)
        OBVIOUS
      <4>1. i \in 1..Len(b) /\ b[i].mon = m
        BY DEF News
      <4>2. i \in 1..Len(q) /\ b[i] = q[i]
        BY <1>3, <1>5, <4>1 DEF Tells
      <4> QED
        BY <4>2 DEF News
    <3>2. News(q, m) \subseteq News(b, m)
      BY <1>1 DEF News
    <3> QED
      BY <3>1, <3>2
  <2>2. \A i \in News(q, m) : b[i] = q[i]
    BY <1>1 DEF News
  <2> QED
    BY <2>1, <2>2 DEF Covers
<1>6. ASSUME NEW m \in Announced(q, b) PROVE m \in ms /\ k = "activated"
  <2>1. PICK i \in (Len(q) + 1)..Len(b) : b[i] = [kind |-> "activated", mon |-> m]
    BY <1>6 DEF Announced
  <2>2. i - Len(q) \in 1..Len(t) /\ b[i] = t[i - Len(q)] /\ b[i].mon = m /\ b[i].kind = "activated"
    BY <1>1, <1>3, <2>1
  <2> QED
    BY <2>2 DEF Tells
<1>7. ASSUME NEW r \in Seq(Notice), Len(r) <= Len(q), NEW m \in Announced(r, b)
      PROVE  m \in Announced(r, q) \/ m \in Announced(q, b)
  <2>1. PICK i \in (Len(r) + 1)..Len(b) : b[i] = [kind |-> "activated", mon |-> m]
    BY <1>7 DEF Announced
  <2>2. Len(r) \in Nat /\ m \in Monitors
    BY LenProperties DEF Announced
  <2>3. CASE i <= Len(q)
    BY <1>1, <2>1, <2>2, <2>3 DEF Announced
  <2>4. CASE i > Len(q)
    BY <1>1, <2>1, <2>2, <2>4 DEF Announced
  <2> QED
    BY <1>1, <2>1, <2>2, <2>3, <2>4
<1>8. Covers(b, c) \subseteq Monitors /\ Covers(q, c) \subseteq Monitors
  BY DEF Covers
<1>9. k = "activated" => Covers(b, c) = Covers(q, c) \cup ms
  BY <1>4, <1>5, <1>8
<1>10. k # "activated" => Covers(b, c) = Covers(q, c) \ ms
  BY <1>4, <1>5, <1>8
<1>11. Covers(b, c) = After(k, Covers(q, c), ms)
  BY <1>9, <1>10 DEF After
<1>12. Announced(q, b) \subseteq After(k, {}, ms)
  BY <1>6 DEF After
<1> QED
  BY <1>1, <1>7, <1>11, <1>12 DEF b

\* The modules handle the oldest message.
LEMMA SaysTail ==
  ASSUME NEW q \in Seq(Notice), q # <<>>, NEW c \in SUBSET Monitors, NEW d, NEW m \in Monitors,
         d = (CASE Head(q).kind = "activated"   -> c \cup {Head(q).mon}
                [] Head(q).kind = "deactivated" -> c \ {Head(q).mon}
                [] OTHER                        -> c)
  PROVE  m \in Covers(Tail(q), d) <=> m \in Covers(q, c)
<1> DEFINE t == Tail(q)
<1>1. /\ Len(q) \in Nat \ {0} /\ Head(q) = q[1] /\ t \in Seq(Notice) /\ Len(t) = Len(q) - 1
      /\ \A i \in 1..Len(t) : t[i] = q[i + 1] /\ i + 1 \in 1..Len(q)
  <2>1. Len(q) \in Nat \ {0}
    BY LenProperties, EmptySeq
  <2> QED
    BY <2>1, HeadTailProperties
<1> HIDE DEF t
<1>2. \A i \in News(t, m) : i + 1 \in News(q, m)
  BY <1>1 DEF News
<1>3. \A i \in News(q, m) : i # 1 => i - 1 \in News(t, m) /\ (i - 1) + 1 = i /\ q[i] = t[i - 1]
  <2> SUFFICES ASSUME NEW i \in News(q, m), i # 1
               PROVE  i - 1 \in News(t, m) /\ (i - 1) + 1 = i /\ q[i] = t[i - 1]
    OBVIOUS
  <2>1. i - 1 \in 1..Len(t) /\ (i - 1) + 1 = i
    BY <1>1 DEF News
  <2> QED
    BY <1>1, <2>1 DEF News
<1>6. /\ q[1].mon = m /\ q[1].kind = "activated" => m \in d
      /\ q[1].mon = m /\ q[1].kind = "deactivated" => m \notin d
      /\ q[1].mon # m \/ q[1].kind \notin {"activated", "deactivated"} => (m \in d <=> m \in c)
  <2>1. CASE q[1].kind = "activated"
    BY <1>1, <2>1
  <2>2. CASE q[1].kind = "deactivated"
    BY <1>1, <2>2
  <2>3. CASE q[1].kind \notin {"activated", "deactivated"}
    <3>1. d = c
      BY <1>1, <2>3
    <3> QED
      BY <2>3, <3>1
  <2> QED
    BY <2>1, <2>2, <2>3
<1> SUFFICES m \in Covers(t, d) <=> m \in Covers(q, c)
  BY DEF t
<1>4. CASE News(t, m) = {}
  <2>1. m \in Covers(t, d) <=> m \in d
    BY <1>4 DEF Covers
  <2>2. CASE 1 \in News(q, m)
    <3>1. News(q, m) = {1}
      BY <1>3, <1>4, <2>2
    <3>2. q[1].mon = m /\ q[1].kind \in {"activated", "deactivated"}
      BY <2>2 DEF News
    <3>3. m \in Covers(q, c) <=> q[1].kind = "activated"
      BY <3>1 DEF Covers
    <3> QED
      BY <1>6, <2>1, <3>2, <3>3
  <2>3. CASE 1 \notin News(q, m)
    <3>1. News(q, m) = {}
      BY <1>3, <1>4, <2>3
    <3>2. q[1].mon # m \/ q[1].kind \notin {"activated", "deactivated"}
      BY <1>1, <2>3 DEF News
    <3> QED
      BY <1>6, <2>1, <3>1, <3>2 DEF Covers
  <2> QED
    BY <2>2, <2>3
<1>5. CASE News(t, m) # {}
  <2>1. PICK n : n \in News(t, m) /\ n + 1 \in News(q, m) /\ n \in Nat
    BY <1>2, <1>5 DEF News
  <2>2. ASSUME m \in Covers(t, d) PROVE m \in Covers(q, c)
    <3>1. PICK i \in News(t, m) : \A j \in News(t, m) : i <= j => t[j].kind = "activated"
      BY <1>5, <2>2 DEF Covers
    <3>2. ASSUME NEW j \in News(q, m), i + 1 <= j PROVE q[j].kind = "activated"
      <4>1. i \in 1..Len(t) /\ j \in 1..Len(q)
        BY DEF News
      <4>2. j # 1 /\ i <= j - 1
        BY <1>1, <3>2, <4>1
      <4> QED
        BY <1>3, <3>1, <4>2
    <3> QED
      BY <1>2, <3>2, <2>1 DEF Covers
  <2>3. ASSUME m \in Covers(q, c) PROVE m \in Covers(t, d)
    <3>1. PICK i \in News(q, m) : \A j \in News(q, m) : i <= j => q[j].kind = "activated"
      BY <2>1, <2>3 DEF Covers
    <3>2. ASSUME NEW j \in News(t, m), i <= j + 1 PROVE t[j].kind = "activated"
      <4>1. t[j] = q[j + 1] /\ j + 1 \in News(q, m)
        BY <1>1, <1>2 DEF News
      <4> QED
        BY <3>1, <3>2, <4>1
    <3>3. CASE i = 1
      <4>1. \A j \in News(t, m) : n <= j => t[j].kind = "activated"
        BY <1>1, <3>2, <3>3 DEF News
      <4> QED
        BY <1>5, <2>1, <4>1 DEF Covers
    <3>4. CASE i # 1
      <4>1. i - 1 \in News(t, m) /\ (i - 1) + 1 = i /\ i \in Nat
        BY <1>3, <3>4 DEF News
      <4>2. \A j \in News(t, m) : i - 1 <= j => t[j].kind = "activated"
        BY <3>2, <4>1 DEF News
      <4> QED
        BY <1>5, <4>1, <4>2 DEF Covers
    <3> QED
      BY <3>3, <3>4
  <2> QED
    BY <2>2, <2>3
<1> QED
  BY <1>4, <1>5

LEMMA Soon == CoveredSoon = Covers(queue, covered) /\ CoveredSoon' = Covers(queue', covered')
BY DEF CoveredSoon, Covers

LEMMA TellStep ==
  ASSUME queue \in Seq(Notice), NEW t, NEW ms \in SUBSET Monitors, NEW k, Tells(t, ms, k),
         queue' = queue \o t, covered' = covered
  PROVE  /\ queue' \in Seq(Notice)
         /\ CoveredSoon' = After(k, CoveredSoon, ms)
         /\ Announced(queue, queue') \subseteq After(k, {}, ms)
<1>1. /\ queue \o t \in Seq(Notice)
      /\ Covers(queue \o t, covered) = After(k, Covers(queue, covered), ms)
      /\ Announced(queue, queue \o t) \subseteq After(k, {}, ms)
  BY TellsMore
<1>2. CoveredSoon = Covers(queue, covered) /\ CoveredSoon' = Covers(queue \o t, covered)
  BY Soon
<1> QED
  BY <1>1, <1>2

LEMMA TellsCover ==
  ASSUME NEW q \in Seq(Notice), NEW c, NEW t, NEW ms \in SUBSET Monitors, NEW k, Tells(t, ms, k)
  PROVE  Covers(q \o t, c) = After(k, Covers(q, c), ms)
BY TellsMore

\* Two tidings in a row, the first of which shows modules.
LEMMA TellsTwo ==
  ASSUME queue \in Seq(Notice), NEW s, NEW h, NEW os \in SUBSET Monitors, NEW ms \in SUBSET Monitors,
         Tells(s, os, "deactivated"), Tells(h, ms, "activated"), covered' = covered,
         queue' = queue \o s \o h
  PROVE  /\ queue' \in Seq(Notice) /\ CoveredSoon' = (CoveredSoon \ os) \cup ms
         /\ Announced(queue, queue') \subseteq ms
<1> DEFINE q == queue \o s
<1>1. /\ queue \o s \in Seq(Notice) /\ Len(queue) <= Len(queue \o s)
      /\ Covers(queue \o s, covered) = After("deactivated", Covers(queue, covered), os)
      /\ Announced(queue, queue \o s) \subseteq After("deactivated", {}, os)
  <2>1. queue \o s \in Seq(Notice)
    BY TellsMore
  <2>2. Len(queue) <= Len(queue \o s)
    BY TellsMore
  <2>3. Covers(queue \o s, covered) = After("deactivated", Covers(queue, covered), os)
    BY TellsCover
  <2>4. Announced(queue, queue \o s) \subseteq After("deactivated", {}, os)
    BY TellsMore
  <2> QED
    BY <2>1, <2>2, <2>3, <2>4
<1>2. /\ q \in Seq(Notice) /\ Len(queue) <= Len(q)
      /\ Covers(q, covered) = Covers(queue, covered) \ os /\ Announced(queue, q) = {}
  BY <1>1 DEF After
<1>3. queue' = q \o h
  OBVIOUS
<1> HIDE DEF q
<1>4. /\ q \o h \in Seq(Notice)
      /\ Covers(q \o h, covered) = After("activated", Covers(q, covered), ms)
      /\ Announced(q, q \o h) \subseteq After("activated", {}, ms)
      /\ \A r \in Seq(Notice) : Len(r) <= Len(q) =>
           Announced(r, q \o h) \subseteq Announced(r, q) \cup Announced(q, q \o h)
  <2>1. q \o h \in Seq(Notice)
    BY <1>2, TellsMore
  <2>2. Covers(q \o h, covered) = After("activated", Covers(q, covered), ms)
    <3>1. ASSUME NEW r \in Seq(Notice)
          PROVE  Covers(r \o h, covered) = After("activated", Covers(r, covered), ms)
      BY TellsCover
    <3> QED
      BY <1>2, <3>1
  <2>3. Announced(q, q \o h) \subseteq After("activated", {}, ms)
    BY <1>2, TellsMore
  <2>4. ASSUME NEW r \in Seq(Notice), Len(r) <= Len(q)
        PROVE  Announced(r, q \o h) \subseteq Announced(r, q) \cup Announced(q, q \o h)
    BY <1>2, <2>4, TellsMore
  <2> QED
    BY <2>1, <2>2, <2>3, <2>4
<1>5. Announced(queue, queue') \subseteq Announced(queue, q) \cup Announced(q, queue')
  BY <1>2, <1>3, <1>4
<1>6. CoveredSoon = Covers(queue, covered) /\ CoveredSoon' = Covers(queue', covered)
  BY Soon
<1> QED
  BY <1>2, <1>3, <1>4, <1>5, <1>6 DEF After

LEMMA Silent ==
  ASSUME ToldInv, RestInv, queue' = queue, covered' = covered, hidden' = hidden, reHide' = reHide,
         ui' = ui \/ reHide \/ (ui = "pump" /\ ui' = "joining")
  PROVE  ToldInv' /\ Afresh
<1>1. CoveredSoon' = CoveredSoon
  BY DEF CoveredSoon
<1>2. \A m : m \notin Announced(queue, queue')
  <2>1. Len(queue) \in Nat
    BY LenProperties DEF RestInv
  <2> QED
    BY <2>1 DEF Announced
<1> QED
  BY <1>1, <1>2 DEF ToldInv, TellsWhatItHolds, Afresh

LEMMA KnownFinite ==
  ASSUME Inv
  PROVE  /\ KnownMonitors \in SUBSET Monitors /\ IsFiniteSet(KnownMonitors)
         /\ \A m \in Monitors : /\ m \in KnownMonitors <=> Cardinality(On(m)) > 0
                                /\ hidden[m] > 0 => m \in KnownMonitors
<1>1. known \in Seq(Entry) /\ DOMAIN known = 1..Len(known) /\ Len(known) \in Nat
  BY LenProperties DEF Inv, TypeInv
<1>2. \A i \in 1..Len(known) : known[i].mon \in Monitors
  <2>1. \A i \in 1..Len(known) : known[i] \in Entry
    BY <1>1
  <2> QED
    BY <2>1 DEF Entry
<1>3. KnownMonitors \in SUBSET Monitors
  BY <1>1, <1>2 DEF KnownMonitors
<1>4. IsFiniteSet(KnownMonitors)
  <2> DEFINE f == [i \in 1..Len(known) |-> known[i].mon]
  <2>1. f \in Surjection(1..Len(known), KnownMonitors)
    BY <1>1 DEF KnownMonitors, Surjection
  <2>2. IsFiniteSet(1..Len(known))
    BY <1>1, FS_Interval
  <2> HIDE DEF f
  <2> QED
    BY <2>1, <2>2, FS_Surjection
<1>5. ASSUME NEW m \in Monitors
      PROVE  /\ m \in KnownMonitors <=> Cardinality(On(m)) > 0
             /\ hidden[m] > 0 => m \in KnownMonitors
  <2>1. On(m) = EntriesOn(known, m) /\ On(m) \in SUBSET (1..Len(known))
    BY <1>1 DEF On, EntriesOn
  <2>2. IsFiniteSet(On(m))
    <3>1. IsFiniteSet(1..Len(known))
      BY <1>1, FS_Interval
    <3> QED
      BY <2>1, <3>1, FS_Subset
  <2>3. Cardinality(On(m)) \in Nat /\ (Cardinality(On(m)) = 0 <=> On(m) = {})
    BY <2>2, FS_CardinalityType, FS_EmptySet
  <2>4. m \in KnownMonitors <=> On(m) # {}
    BY <1>1 DEF On, KnownMonitors
  <2>5. hidden[m] \in Nat /\ hidden[m] <= Cardinality(On(m))
    BY <1>1, <2>1, WinsCount DEF Inv, Counted, KnownInv, TypeInv
  <2> QED
    BY <2>3, <2>4, <2>5
<1> QED
  BY <1>3, <1>4, <1>5

\* Counting anew tells the modules on every monitor of a known window.
LEMMA HideAllTells ==
  ASSUME Inv, RestInv, ToldInv, HideAll, covered' = covered
  PROVE  /\ queue' \in Seq(Notice) /\ CoveredSoon' = CoveredSoon \cup KnownMonitors
         /\ \A m \in Monitors : hidden'[m] > 0 <=> m \in KnownMonitors
<1> DEFINE es == KnownMonitors \X {1}
<1>1. Tells(OnEach("!HideModules", "activated", es), KnownMonitors, "activated")
  <2>1. es \in SUBSET (Monitors \X Nat) /\ KnownMonitors = {e[1] : e \in es}
    <3> DEFINE ms == KnownMonitors
    <3>1. ms \in SUBSET Monitors
      BY KnownFinite
    <3> HIDE DEF ms
    <3>2. ms \X {1} \in SUBSET (Monitors \X Nat)
      BY <3>1
    <3>3. ms \subseteq {e[1] : e \in ms \X {1}}
      <4> SUFFICES ASSUME NEW m \in ms PROVE m \in {e[1] : e \in ms \X {1}}
        OBVIOUS
      <4>1. <<m, 1>> \in ms \X {1} /\ <<m, 1>>[1] = m
        OBVIOUS
      <4> QED
        BY <4>1
    <3>4. {e[1] : e \in ms \X {1}} \subseteq ms
      OBVIOUS
    <3> QED
      BY <3>2, <3>3, <3>4 DEF ms
  <2>2. IsFiniteSet(es)
    BY KnownFinite, FS_Singleton, FS_Product
  <2>3. autoHide \in BOOLEAN
    BY DEF RestInv
  <2> HIDE DEF es
  <2> QED
    BY <2>1, <2>2, <2>3, OnEachTells
<1>2. /\ queue \in Seq(Notice)
      /\ queue' = queue \o OnEach("!HideModules", "activated", es)
  BY DEF RestInv, HideAll
<1>3. queue' \in Seq(Notice) /\ CoveredSoon' = CoveredSoon \cup KnownMonitors
  BY <1>1, <1>2, KnownFinite, TellStep DEF After
<1>4. ASSUME NEW m \in Monitors PROVE hidden'[m] > 0 <=> m \in KnownMonitors
  <2>1. hidden'[m] = Cardinality(On(m))
    BY DEF HideAll
  <2>2. m \in KnownMonitors <=> Cardinality(On(m)) > 0
    BY KnownFinite
  <2> QED
    BY <2>1, <2>2
<1> QED
  BY <1>3, <1>4

LEMMA HideFoundTells ==
  ASSUME Inv, RestInv, ToldInv, HideFound PROVE RestInv' /\ ToldInv' /\ Afresh
<1>1. /\ UNCHANGED <<todo, checked, run, reHide, autoHide, ui, covered, invisible>>
      /\ pc = "enumerate" /\ pc' = "poll" /\ HideAll
  BY DEF HideFound, flagVars, uiVars
<1>2. /\ queue' \in Seq(Notice) /\ CoveredSoon' = CoveredSoon \cup KnownMonitors
      /\ \A m \in Monitors : hidden'[m] > 0 <=> m \in KnownMonitors
  BY <1>1, HideAllTells
<1>3. \A m \in Monitors : ~(hidden[m] > 0)
  BY <1>1 DEF Inv, KnownInv
<1>4. RestInv'
  BY <1>1, <1>2 DEF RestInv
<1>5. ~reHide /\ ui = "pump" => \A m \in Monitors : m \notin CoveredSoon
  BY <1>3 DEF ToldInv, TellsWhatItHolds
<1> QED
  BY <1>1, <1>2, <1>3, <1>4, <1>5 DEF ToldInv, TellsWhatItHolds, Afresh

LEMMA PollTells ==
  ASSUME Inv, RestInv, ToldInv, Poll PROVE RestInv' /\ ToldInv' /\ Afresh
<1>1. /\ UNCHANGED <<todo, run, reHide, autoHide, ui, covered, invisible>>
      /\ pc' = "verify" /\ checked' = FALSE
  BY DEF Poll, flagVars, uiVars
<1>2. CASE reHide
  <2>1. queue' \in Seq(Notice)
    BY <1>1, <1>2, HideAllTells DEF Poll
  <2> QED
    BY <1>1, <1>2, <2>1 DEF RestInv, ToldInv, TellsWhatItHolds, Afresh
<1>3. CASE ~reHide
  <2>1. UNCHANGED <<queue, hidden>>
    BY <1>3 DEF Poll
  <2>2. RestInv'
    BY <1>1, <2>1 DEF RestInv
  <2> QED
    BY <1>1, <2>1, <2>2, Silent
<1> QED
  BY <1>2, <1>3

LEMMA VerifyTells ==
  ASSUME Inv, RestInv, ToldInv, VerifyOne PROVE RestInv' /\ ToldInv' /\ Afresh
<1> DEFINE old == known[pos].mon
           new == full[known[pos].win]
           left == EraseMonitor(hidden, old)
<1>1. /\ UNCHANGED <<pc, todo, run, reHide, autoHide, ui, covered, invisible>>
      /\ pos <= Len(known) /\ checked' = (checked \/ known[pos].win = fg)
  BY DEF VerifyOne, flagVars, uiVars
<1>2. known[pos] \in Entry
  BY <1>1 DEF Inv, TypeInv
<1>3. new \in Monitors \cup {None} /\ old \in Monitors /\ None \notin Monitors
  BY <1>2, MonitorAssumption DEF Entry, Inv, TypeInv
<1>4. /\ left \in [Monitors -> Nat] /\ left[old] = 0 /\ hidden \in [Monitors -> Nat]
      /\ \A m \in Monitors \ {old} : left[m] = hidden[m]
  BY <1>3 DEF EraseMonitor, Inv, TypeInv
<1>5. queue \in Seq(Notice) /\ autoHide \in BOOLEAN
  BY DEF RestInv
<1>6. queue' \in Seq(Notice) => RestInv'
  BY <1>1 DEF RestInv
<1>7. CASE new = old
  <2>1. UNCHANGED <<queue, hidden>>
    BY <1>3, <1>7 DEF VerifyOne
  <2> QED
    BY <1>1, <1>5, <1>6, <2>1, Silent
<1>8. CASE new # old
  <2> DEFINE s == ShowModules(old)
             os == {old}
  <2>1. Tells(s, os, "deactivated") /\ os \in SUBSET Monitors
    BY <1>3, <1>5, ToldTells
  <2> HIDE DEF s, os
  <2>2. CASE new = None
    <3>1. queue' = queue \o s /\ hidden' = left
      BY <1>1, <1>3, <1>4, <1>8, <2>2 DEF VerifyOne, s
    <3>2. /\ queue' \in Seq(Notice)
          /\ CoveredSoon' = After("deactivated", CoveredSoon, os)
          /\ Announced(queue, queue') \subseteq After("deactivated", {}, os)
      BY <1>1, <1>5, <2>1, <3>1, TellStep
    <3>3. CoveredSoon' = CoveredSoon \ {old} /\ Announced(queue, queue') = {}
      BY <3>2 DEF After, os
    <3> QED
      BY <1>1, <1>3, <1>4, <1>6, <3>1, <3>2, <3>3 DEF ToldInv, TellsWhatItHolds, Afresh
  <2>3. CASE new # None
    <3> DEFINE h == InsertAndHide(left, new)
               ms == IF left[new] = 0 THEN {new} ELSE {}
    <3>1. queue' = queue \o s \o h /\ hidden' = [left EXCEPT ![new] = @ + 1] /\ new \in Monitors
      BY <1>1, <1>3, <1>4, <1>8, <2>3 DEF VerifyOne, s
    <3>2. Tells(h, ms, "activated") /\ ms \in SUBSET Monitors
      BY <1>5, <3>1, ToldTells, NoneTells DEF InsertAndHide
    <3>3. \A m \in Monitors : m \in ms <=> m = new /\ ~(hidden[m] > 0)
      BY <1>4, <1>8, <3>1
    <3> HIDE DEF h, ms
    <3>4. /\ queue' \in Seq(Notice) /\ CoveredSoon' = (CoveredSoon \ {old}) \cup ms
          /\ Announced(queue, queue') \subseteq ms
      <4>1. /\ queue' \in Seq(Notice) /\ CoveredSoon' = (CoveredSoon \ os) \cup ms
            /\ Announced(queue, queue') \subseteq ms
        BY <1>1, <1>5, <2>1, <3>1, <3>2, TellsTwo
      <4> QED
        BY <4>1 DEF os
    <3>5. \A m \in Monitors : hidden'[m] > 0 <=> m = new \/ (m # old /\ hidden[m] > 0)
      BY <1>3, <1>4, <1>8, <3>1
    <3> QED
      BY <1>1, <1>6, <1>8, <3>3, <3>4, <3>5 DEF ToldInv, TellsWhatItHolds, Afresh
  <2> QED
    BY <2>2, <2>3
<1> QED
  BY <1>7, <1>8

LEMMA ShellTells ==
  ASSUME Inv, RestInv, ToldInv, ShellInFront PROVE RestInv' /\ ToldInv' /\ Afresh
<1> DEFINE shown == {m \in Monitors : hidden[m] > 0}
           t == OnEach("!ShowModules", "deactivated", Elements)
<1>1. /\ UNCHANGED <<todo, checked, run, reHide, autoHide, ui, covered, invisible>>
      /\ pc' = "poll" /\ queue' = queue \o t /\ hidden' = [m \in Monitors |-> 0]
  BY DEF ShellInFront, flagVars, uiVars
<1>2. shown \in SUBSET Monitors /\ IsFiniteSet(shown)
  <2>1. shown \in SUBSET KnownMonitors
    <3>1. \A m \in Monitors : hidden[m] > 0 => m \in KnownMonitors
      <4> SUFFICES ASSUME NEW m \in Monitors PROVE hidden[m] > 0 => m \in KnownMonitors
        OBVIOUS
      <4> QED
        BY KnownFinite
    <3> QED
      BY <3>1
  <2> QED
    BY <2>1, KnownFinite, FS_Subset
<1>3. queue \in Seq(Notice) /\ autoHide \in BOOLEAN
  BY DEF RestInv
<1>4. Tells(t, shown, "deactivated")
  <2>1. \A m \in Monitors : hidden[m] \in Nat
    BY DEF Inv, TypeInv
  <2>2. Elements \in SUBSET (Monitors \X Nat) /\ shown = {e[1] : e \in Elements}
    <3>1. \A e \in Elements : \E m \in Monitors : e \in {m} \X (1..hidden[m])
      BY DEF Elements
    <3>2. \A e \in Elements : e \in Monitors \X Nat /\ e[1] \in Monitors /\ hidden[e[1]] > 0
      BY <2>1, <3>1
    <3>3. ASSUME NEW m \in shown PROVE <<m, 1>> \in Elements /\ <<m, 1>>[1] = m
      <4>1. <<m, 1>> \in {m} \X (1..hidden[m])
        BY <2>1
      <4> QED
        BY <4>1 DEF Elements
    <3> QED
      BY <3>2, <3>3
  <2>3. IsFiniteSet(Elements)
    <3>1. \A m \in shown : IsFiniteSet({m} \X (1..hidden[m]))
      <4> SUFFICES ASSUME NEW m \in shown PROVE IsFiniteSet({m} \X (1..hidden[m]))
        OBVIOUS
      <4>1. IsFiniteSet({m})
        BY FS_Singleton
      <4>2. IsFiniteSet(1..hidden[m])
        BY <2>1, FS_Interval
      <4> QED
        BY <4>1, <4>2, FS_Product
    <3> DEFINE each == {{m} \X (1..hidden[m]) : m \in shown}
    <3>2. Elements = UNION each
      BY <2>1 DEF Elements
    <3>3. IsFiniteSet(each)
      <4> DEFINE f == [m \in shown |-> {m} \X (1..hidden[m])]
      <4>1. f \in Surjection(shown, each)
        BY DEF Surjection
      <4> QED
        BY <1>2, <4>1, FS_Surjection
    <3> QED
      BY <3>1, <3>2, <3>3, FS_UNION
  <2> HIDE DEF shown
  <2> QED
    BY <1>3, <2>2, <2>3, OnEachTells
<1> HIDE DEF shown
<1> HIDE DEF t
<1>5. queue' \in Seq(Notice) /\ CoveredSoon' = CoveredSoon \ shown /\ Announced(queue, queue') = {}
  <2>1. /\ queue' \in Seq(Notice)
        /\ CoveredSoon' = After("deactivated", CoveredSoon, shown)
        /\ Announced(queue, queue') \subseteq After("deactivated", {}, shown)
    BY <1>1, <1>2, <1>3, <1>4, TellStep
  <2> QED
    BY <2>1 DEF After
<1>6. RestInv'
  BY <1>1, <1>5 DEF RestInv
<1>7. \A m \in Monitors : ~(hidden'[m] > 0)
  BY <1>1
<1> QED
  BY <1>1, <1>5, <1>6, <1>7 DEF ToldInv, TellsWhatItHolds, Afresh, shown

LEMMA OtherTells ==
  ASSUME Inv, RestInv, ToldInv, OtherInFront PROVE RestInv' /\ ToldInv' /\ Afresh
<1>1. /\ UNCHANGED <<todo, checked, run, reHide, autoHide, ui, covered, invisible>>
      /\ pc' = "poll" /\ fg # Shell
  BY DEF OtherInFront, flagVars, uiVars
<1>2. queue \in Seq(Notice) /\ autoHide \in BOOLEAN /\ hidden \in [Monitors -> Nat]
  BY DEF RestInv, Inv, TypeInv
<1>3. queue' \in Seq(Notice) => RestInv'
  BY <1>1 DEF RestInv
<1>4. CASE full[fg] = None
  <2>1. UNCHANGED <<queue, hidden>>
    BY <1>4 DEF OtherInFront
  <2> QED
    BY <1>1, <1>2, <1>3, <2>1, Silent
<1>5. CASE full[fg] # None
  <2> DEFINE n == full[fg]
             h == InsertAndHide(hidden, n)
             ms == IF hidden[n] = 0 THEN {n} ELSE {}
  <2>1. n \in Monitors /\ queue' = queue \o h /\ hidden' = [hidden EXCEPT ![n] = @ + 1]
    BY <1>1, <1>5 DEF OtherInFront, Inv, TypeInv
  <2> HIDE DEF n
  <2>2. Tells(h, ms, "activated")
    BY <1>2, <2>1, ToldTells, NoneTells DEF InsertAndHide
  <2> HIDE DEF h, ms
  <2>3. /\ queue' \in Seq(Notice) /\ CoveredSoon' = CoveredSoon \cup ms
        /\ Announced(queue, queue') \subseteq ms
    <3>1. ms \in SUBSET Monitors
      BY <2>1 DEF ms
    <3> QED
      BY <1>1, <1>2, <2>1, <2>2, <3>1, TellStep DEF After
  <2>4. \A m \in Monitors : /\ hidden'[m] > 0 <=> m = n \/ hidden[m] > 0
                            /\ m \in ms <=> m = n /\ ~(hidden[m] > 0)
    BY <1>2, <2>1 DEF ms
  <2> QED
    BY <1>1, <1>3, <2>3, <2>4 DEF ToldInv, TellsWhatItHolds, Afresh
<1> QED
  BY <1>4, <1>5

LEMMA DispatchTells ==
  ASSUME Inv, RestInv, ToldInv, Dispatch PROVE RestInv' /\ ToldInv' /\ Afresh
<1> DEFINE kind == Head(queue).kind
           mon == Head(queue).mon
<1>1. /\ UNCHANGED <<hidden, pc, todo, checked, run, reHide, autoHide, ui>>
      /\ queue # <<>> /\ queue' = Tail(queue)
      /\ covered' = (CASE kind = "activated"   -> covered \cup {mon}
                       [] kind = "deactivated" -> covered \ {mon}
                       [] OTHER                -> covered)
      /\ invisible' = (CASE kind = "!HideModules" -> invisible \cup {mon}
                         [] kind = "!ShowModules" -> invisible \ {mon}
                         [] OTHER                 -> invisible)
  BY DEF Dispatch, threadVars, flagVars
<1>2. queue \in Seq(Notice) /\ covered \in SUBSET Monitors
  BY DEF RestInv
<1>3. Head(queue) \in Notice /\ Tail(queue) \in Seq(Notice) /\ Len(Tail(queue)) = Len(queue) - 1
      /\ Len(queue) \in Nat
  BY <1>1, <1>2, HeadTailProperties, LenProperties
<1>4. mon \in Monitors
  BY <1>3 DEF Notice
<1>5. covered' \subseteq Monitors /\ invisible' \subseteq Monitors
  <2>1. covered' \in {covered, covered \cup {mon}, covered \ {mon}}
    BY <1>1
  <2>2. invisible' \in {invisible, invisible \cup {mon}, invisible \ {mon}}
    BY <1>1
  <2> QED
    BY <1>4, <2>1, <2>2 DEF RestInv
<1>6. RestInv'
  BY <1>1, <1>3, <1>5 DEF RestInv
<1>7. \A m \in Monitors : m \in CoveredSoon' <=> m \in CoveredSoon
  BY <1>1, <1>2, SaysTail, Soon
<1>8. \A m : m \notin Announced(queue, queue')
  BY <1>1, <1>3 DEF Announced
<1> QED
  BY <1>1, <1>6, <1>7, <1>8 DEF ToldInv, TellsWhatItHolds, Afresh

LEMMA StepTells ==
  ASSUME Inv, RestInv, ToldInv, [Next]_vars PROVE RestInv' /\ ToldInv' /\ Afresh
<1>1. ASSUME \/ WindowChanges \/ ForegroundChanges \/ End \/ VerifyDone \/ Load \/ Stop
             \/ UNCHANGED vars \/ \E w \in Windows : EnumerateOne(w)
      PROVE  RestInv' /\ ToldInv' /\ Afresh
  <2>1. /\ UNCHANGED <<queue, covered, hidden>>
        /\ reHide' = reHide
        /\ ui' = ui \/ (ui = "pump" /\ ui' = "joining") \/ ui = "reloaded"
    BY <1>1 DEF WindowChanges, ForegroundChanges, End, VerifyDone, Load, Stop, EnumerateOne, vars,
       threadVars, flagVars, uiVars
  <2>2. RestInv'
    BY <1>1 DEF RestInv, WindowChanges, ForegroundChanges, End, VerifyDone, Load, Stop, EnumerateOne,
       vars, threadVars, flagVars, uiVars
  <2>3. reHide \in BOOLEAN /\ (ui = "reloaded" => reHide)
    BY DEF RestInv, ToldInv
  <2> QED
    BY <2>1, <2>2, <2>3, Silent
<1>2. CASE Unload
  BY <1>2 DEF Unload, threadVars, flagVars, RestInv, ToldInv, TellsWhatItHolds, Afresh, Announced
<1>3. CASE Recycle
  BY <1>3 DEF Recycle, threadVars, RestInv, ToldInv, TellsWhatItHolds, Afresh
<1> QED
  BY <1>1, <1>2, <1>3, HideFoundTells, PollTells, VerifyTells, ShellTells, OtherTells, DispatchTells
  DEF Next, ThreadProc

LEMMA InitTells == Init => RestInv /\ ToldInv
<1> SUFFICES ASSUME Init PROVE RestInv /\ ToldInv
  OBVIOUS
<1>1. queue = <<>> /\ covered = {} /\ hidden = [m \in Monitors |-> 0] /\ ui = "pump"
  BY DEF Init
<1>2. RestInv
  <2>1. <<>> \in Seq(Notice)
    OBVIOUS
  <2> QED
    BY <2>1 DEF Init, RestInv
<1>3. CoveredSoon = {}
  BY <1>1 DEF CoveredSoon, News
<1> QED
  BY <1>1, <1>2, <1>3 DEF ToldInv, TellsWhatItHolds

LEMMA StepAll == Inv /\ RestInv /\ ToldInv /\ [Next]_vars => (Inv /\ RestInv /\ ToldInv)' /\ Afresh
BY StepInv, StepTells

\* What the modules are told is what the thread holds for hidden, up to the first recycle,
\* whatever the order in which windows move, are found, verified and come to the front
\* while earlier messages are still to be handled (FullscreenMonitor.cpp:209-236, 271-335).
THEOREM ToldWhatItHolds == Spec => []TellsWhatItHolds
<1>1. Init => Inv /\ RestInv /\ ToldInv
  BY InitInv, InitTells
<1>2. Inv /\ RestInv /\ ToldInv => TellsWhatItHolds
  BY DEF ToldInv
<1> QED
  BY <1>1, <1>2, StepAll, PTL DEF Spec

\* The thread tells nobody twice in a row (FullscreenMonitor.cpp:232, 286, 329).
THEOREM TellsOnce == Spec => ToldOnce
<1> DEFINE A == \A m \in Monitors :
       (~reHide /\ ui = "pump" /\ Len(queue') > Len(queue)
         /\ \E i \in Len(queue)+1..Len(queue') : queue'[i] = [kind |-> "activated", mon |-> m])
       => m \notin CoveredSoon \/ \E i \in Len(queue)+1..Len(queue') :
                                     queue'[i] = [kind |-> "deactivated", mon |-> m]
<1>1. Init => Inv /\ RestInv /\ ToldInv
  BY InitInv, InitTells
<1>2. Afresh => A
  BY DEF Afresh, Announced
<1>3. Inv /\ RestInv /\ ToldInv /\ [Next]_vars => [A]_vars
  BY <1>2, StepAll
<1>4. ToldOnce <=> [][A]_vars
  BY DEF ToldOnce
<1> HIDE DEF A
<1> QED
  BY <1>1, <1>3, <1>4, StepAll, PTL DEF Spec

\* Every variable keeps its type: the walk, above all, stays within the list of windows
\* while it removes from it (FullscreenMonitor.cpp:258-299).
THEOREM Typing == Spec => []TypeOK
<1>1. Init => Inv /\ RestInv /\ ToldInv
  BY InitInv, InitTells
<1>2. Inv /\ RestInv => TypeOK
  BY DEF Inv, TypeInv, RestInv, TypeOK
<1> QED
  BY <1>1, <1>2, StepAll, PTL DEF Spec
=============================================================================
