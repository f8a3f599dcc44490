---------------------------- MODULE ModuleProofs ----------------------------
(***************************************************************************)
(* For any paths, any requests and any height of the call stack, if        *)
(* callers are polite: no DLL is initialised twice, nothing deleted is     *)
(* used, and a recycle and Stop unload all modules.                        *)
(***************************************************************************)
EXTENDS ModuleLifecycle, FiniteSetTheorems, FunctionTheorems, SequenceTheorems, TLAPS

Loc(o) == mod[o].loc

\* The modules a frame is starting, the paths it may still start or starts, and the
\* modules that it keeps outside of the queue or will have emptied the queue of.
Busies(f) == ToSet(f.mods) \cup ({f.call} \ {NoModule})
Starts(f, m) ==
  CASE f.op = "start"   -> {m[o].loc : o \in Busies(f)}
    [] f.op = "load"    -> {f.loc}
    [] f.op = "loadAll" -> {Configured[i].loc : i \in 1..Len(Configured)}
    [] OTHER            -> {}
Holds(f) ==
  CASE f.op = "start"   -> {f.call} \ {NoModule}
    [] f.op = "quitAll" -> ToSet(f.mods)
    [] OTHER            -> {}

Present == ToSet(queue) \cup UNION {Holds(stack[i]) : i \in 1..Len(stack)}
Begun(o) == mod[o].life = "made" /\ (mod[o].inits > 0 \/ mod[o].thread # "none")

\* Objects are made in the order of their numbers, and enough are left for the loads begun.
BoundInv ==
  /\ Made + Loads(stack) <= MaxModules
  /\ \A o \in Modules : mod[o].life # "unmade" <=> o <= Made
  /\ \A o \in Present : mod[o].life # "unmade"
  /\ \A i \in 1..Len(stack) : \A o \in ToSet(stack[i].mods) : mod[o].life # "unmade"

\* Who begins is known to the queue or to a frame, with a path of its own.
PresentInv ==
  /\ \A o \in Modules : Begun(o) => o \in Present
  /\ \A o, p \in Present : Loc(o) = Loc(p) => o = p
  /\ \A i, j \in 1..Len(queue) : queue[i] = queue[j] => i = j

\* Nothing is started on top of a frame that holds its path; and what a module's start
\* is in the middle of is not in the queue yet.
OrderInv ==
  /\ \A i, j \in 1..Len(stack) : i < j =>
       \A o \in Holds(stack[j]) : Loc(o) \notin Starts(stack[i], mod)
  /\ \A i \in 1..Len(stack) : stack[i].op = "start" => stack[i].call \notin ToSet(queue)

\* While _QuitModules goes through the queue nothing is added to it, and what follows the
\* module quit last has been quit.
QuitInv ==
  /\ \A i \in 1..Len(stack) : stack[i].op = "quit" => stack[i].mods # <<>>
  /\ \A i \in 1..Len(stack) : stack[i].op = "quitAll" /\ stack[i].at = "begin" =>
       /\ \A k \in 1..(i - 1) : stack[k].op = "quit"
       /\ stack[i].mods # <<>> =>
            \A n, k \in 1..Len(queue) :
              queue[n] = Last(stack[i].mods) /\ n <= k => queue[k] \in ToSet(stack[i].mods)

Inv == TypeOK /\ BoundInv /\ PresentInv /\ OrderInv /\ QuitInv
-----------------------------------------------------------------------------
(* The stack and the queue as sequences.                                    *)

LEMMA Stacked ==
  ASSUME NEW S, NEW s \in Seq(S), s # <<>>
  PROVE  /\ Len(s) \in Nat \ {0} /\ Head(s) = s[1] /\ Head(s) \in S
         /\ Tail(s) \in Seq(S) /\ Len(Tail(s)) = Len(s) - 1
         /\ \A i \in 1..(Len(s) - 1) : Tail(s)[i] = s[i + 1]
BY HeadTailProperties, EmptySeq

LEMMA Joined ==
  ASSUME NEW S, NEW s \in Seq(S), NEW t \in Seq(S)
  PROVE  /\ s \o t \in Seq(S) /\ Len(s \o t) = Len(s) + Len(t)
         /\ Len(s) \in Nat /\ Len(t) \in Nat
         /\ \A i \in 1..Len(s) : (s \o t)[i] = s[i]
         /\ \A i \in 1..Len(t) : (s \o t)[Len(s) + i] = t[i]
<1>1. Len(s) \in Nat /\ Len(t) \in Nat
  BY LenProperties
<1>2. /\ s \o t \in Seq(S) /\ Len(s \o t) = Len(s) + Len(t)
      /\ \A i \in 1..(Len(s) + Len(t)) :
           (s \o t)[i] = IF i <= Len(s) THEN s[i] ELSE t[i - Len(s)]
  BY ConcatProperties
<1>3. ASSUME NEW i \in 1..Len(t) PROVE (s \o t)[Len(s) + i] = t[i]
  <2>1. Len(s) + i \in 1..(Len(s) + Len(t)) /\ ~(Len(s) + i <= Len(s)) /\ Len(s) + i - Len(s) = i
    BY <1>1
  <2> QED
    BY <1>2, <2>1
<1>4. \A i \in 1..Len(s) : (s \o t)[i] = s[i]
  BY <1>1, <1>2
<1> QED
  BY <1>1, <1>2, <1>3, <1>4

LEMMA Replaced ==
  ASSUME NEW S, NEW s \in Seq(S), s # <<>>, NEW f \in S
  PROVE  LET t == <<f>> \o Tail(s) IN
         /\ t \in Seq(S) /\ Len(t) = Len(s) /\ t # <<>> /\ Tail(t) = Tail(s)
         /\ t[1] = f /\ \A i \in 2..Len(s) : t[i] = s[i]
<1> DEFINE t == <<f>> \o Tail(s)
<1>1. <<f>> \in Seq(S) /\ Len(<<f>>) = 1 /\ <<f>>[1] = f
  OBVIOUS
<1>2. /\ Tail(s) \in Seq(S) /\ Len(Tail(s)) = Len(s) - 1 /\ Len(s) \in Nat \ {0}
      /\ \A i \in 1..(Len(s) - 1) : Tail(s)[i] = s[i + 1]
  BY Stacked
<1>3. /\ t \in Seq(S) /\ Len(t) = Len(s) /\ t[1] = f
      /\ \A i \in 1..(Len(s) - 1) : t[1 + i] = Tail(s)[i]
  BY <1>1, <1>2, Joined
<1> HIDE DEF t
<1>4. ASSUME NEW i \in 2..Len(s) PROVE t[i] = s[i]
  <2>1. i - 1 \in 1..(Len(s) - 1) /\ 1 + (i - 1) = i /\ (i - 1) + 1 = i
    BY <1>2
  <2> QED
    BY <1>2, <1>3, <2>1
<1>5. t # <<>>
  BY <1>2, <1>3
<1>6. Tail(t) = Tail(s)
  <2>1. /\ Tail(t) \in Seq(S) /\ Len(Tail(t)) = Len(t) - 1
        /\ \A i \in 1..(Len(t) - 1) : Tail(t)[i] = t[i + 1]
    BY <1>3, <1>5, Stacked
  <2>2. \A i \in 1..Len(Tail(t)) : Tail(t)[i] = Tail(s)[i]
    BY <1>2, <1>3, <2>1
  <2> QED
    BY <1>2, <1>3, <2>1, <2>2, SeqEqual
<1> QED
  BY <1>3, <1>4, <1>5, <1>6 DEF t

\* How many loads are begun: one less without the innermost frame, if it is one.
LEMMA PendingNat ==
  ASSUME NEW s \in Seq(Frame), NEW op
  PROVE  Pending(s, op) \in Nat /\ IsFiniteSet({i \in DOMAIN s : s[i].op = op})
<1>1. DOMAIN s = 1..Len(s) /\ Len(s) \in Nat
  BY LenProperties
<1>2. IsFiniteSet(1..Len(s))
  BY <1>1, FS_Interval
<1> QED
  BY <1>1, <1>2, FS_Subset, FS_CardinalityType DEF Pending

LEMMA PendingTail ==
  ASSUME NEW s \in Seq(Frame), s # <<>>, NEW op
  PROVE  Pending(s, op) = Pending(Tail(s), op) + (IF Head(s).op = op THEN 1 ELSE 0)
<1> DEFINE A == {i \in 1..Len(s) : s[i].op = op}
           B == {i \in 1..(Len(s) - 1) : s[i + 1].op = op}
           C == {i \in 2..Len(s) : s[i].op = op}
           f == [i \in B |-> i + 1]
<1>1. /\ Len(s) \in Nat \ {0} /\ Head(s) = s[1] /\ DOMAIN s = 1..Len(s)
      /\ Tail(s) \in Seq(Frame) /\ Len(Tail(s)) = Len(s) - 1
      /\ \A i \in 1..(Len(s) - 1) : Tail(s)[i] = s[i + 1]
  BY Stacked, LenProperties
<1>2. DOMAIN Tail(s) = 1..(Len(s) - 1)
  BY <1>1, LenProperties
<1>3. {i \in DOMAIN Tail(s) : Tail(s)[i].op = op} = B
  BY <1>1, <1>2
<1>4. IsFiniteSet(B) /\ Cardinality(B) = Pending(Tail(s), op)
  BY <1>1, <1>3, PendingNat DEF Pending
<1>5. Cardinality(A) = Pending(s, op)
  BY <1>1 DEF Pending
<1>6. ExistsBijection(B, C)
  <2>1. f \in [B -> C] /\ \A i, j \in B : f[i] = f[j] => i = j
    BY <1>1
  <2>2. ASSUME NEW c \in C PROVE \E i \in B : f[i] = c
    <3>1. c - 1 \in B /\ (c - 1) + 1 = c
      BY <1>1
    <3> QED
      BY <3>1
  <2> HIDE DEF f, B, C
  <2>3. f \in Bijection(B, C)
    BY <2>1, <2>2, Fun_IsBij
  <2> QED
    BY <2>3 DEF ExistsBijection
<1>7. IsFiniteSet(C) /\ Cardinality(C) = Cardinality(B)
  BY <1>4, <1>6, FS_Bijection
<1>8. A = IF s[1].op = op THEN C \cup {1} ELSE C
  BY <1>1
<1>9. 1 \notin C
  OBVIOUS
<1>10. IsFiniteSet(C \cup {1}) /\ Cardinality(C \cup {1}) = Cardinality(C) + 1
  BY <1>7, <1>9, FS_AddElement
<1>11. Cardinality(B) \in Nat
  BY <1>4, FS_CardinalityType
<1> HIDE DEF A, B, C, f
<1> QED
  BY <1>1, <1>4, <1>5, <1>7, <1>8, <1>10, <1>11
-----------------------------------------------------------------------------
(* Steps that start nothing.                                                *)

\* What a frame may become while it stays where it is.
Stays(f, g) ==
  /\ g.op = f.op /\ g.loc = f.loc /\ ToSet(g.mods) \subseteq ToSet(f.mods)
  /\ f.op = "start" => g.call = f.call
  /\ f.op # "start" => g.mods = f.mods
  /\ f.op = "quitAll" => g.at = f.at

\* No module gets another path, is made or begins.
NoneBegins ==
  \A o \in Modules : /\ mod'[o].loc = mod[o].loc
                     /\ mod'[o].life = "unmade" <=> mod[o].life = "unmade"
                     /\ Begun(o)' => Begun(o)

LEMMA Typed ==
  ASSUME TypeOK
  PROVE  /\ Len(stack) \in Nat /\ Len(queue) \in Nat
         /\ DOMAIN stack = 1..Len(stack) /\ DOMAIN queue = 1..Len(queue)
         /\ \A i \in 1..Len(stack) : /\ stack[i] \in Frame
                                     /\ DOMAIN stack[i].mods = 1..Len(stack[i].mods)
                                     /\ Len(stack[i].mods) \in Nat
                                     /\ ToSet(stack[i].mods) \subseteq Modules
                                     /\ Holds(stack[i]) \subseteq Modules
         /\ \A i \in 1..Len(queue) : queue[i] \in Modules
         /\ Present \subseteq Modules /\ ToSet(queue) \subseteq Modules
<1>1. /\ Len(stack) \in Nat /\ Len(queue) \in Nat
      /\ DOMAIN stack = 1..Len(stack) /\ DOMAIN queue = 1..Len(queue)
      /\ \A i \in 1..Len(queue) : queue[i] \in Modules
      /\ \A i \in 1..Len(stack) : stack[i] \in Frame
  BY LenProperties, ElementOfSeq DEF TypeOK
<1>2. ASSUME NEW i \in 1..Len(stack)
      PROVE  /\ DOMAIN stack[i].mods = 1..Len(stack[i].mods) /\ Len(stack[i].mods) \in Nat
             /\ ToSet(stack[i].mods) \subseteq Modules /\ Holds(stack[i]) \subseteq Modules
  <2>1. stack[i].mods \in Seq(Modules) /\ stack[i].call \in Modules \cup {NoModule}
    BY <1>1 DEF Frame
  <2>2. /\ DOMAIN stack[i].mods = 1..Len(stack[i].mods) /\ Len(stack[i].mods) \in Nat
        /\ \A n \in 1..Len(stack[i].mods) : stack[i].mods[n] \in Modules
    BY <2>1, LenProperties, ElementOfSeq
  <2> QED
    BY <2>1, <2>2 DEF ToSet, Holds
<1>3. ToSet(queue) \subseteq Modules
  BY <1>1 DEF ToSet
<1> QED
  BY <1>1, <1>2, <1>3 DEF Present

LEMMA StaysSame ==
  ASSUME NEW f \in Frame, NEW g \in Frame, Stays(f, g), NoneBegins,
         ToSet(f.mods) \subseteq Modules
  PROVE  Holds(g) = Holds(f) /\ Starts(g, mod') \subseteq Starts(f, mod)
<1>1. f.call \in Modules \cup {NoModule} /\ g.call \in Modules \cup {NoModule}
  BY DEF Frame
<1>2. Holds(g) = Holds(f)
  BY DEF Stays, Holds
<1>3. CASE f.op = "start"
  <2>1. Busies(g) \subseteq Busies(f) /\ Busies(f) \subseteq Modules
    BY <1>1, <1>3 DEF Stays, Busies
  <2> QED
    BY <1>2, <1>3, <2>1 DEF Stays, Starts, Loc, NoneBegins
<1>4. CASE f.op # "start"
  BY <1>2, <1>4 DEF Stays, Starts
<1> QED
  BY <1>3, <1>4

LEMMA QuietKeeps ==
  ASSUME Inv, TypeOK', NoneBegins, queue' = queue, Len(stack') = Len(stack),
         \A i \in 1..Len(stack) : Stays(stack[i], stack'[i])
  PROVE  Inv'
<1> USE DEF Inv
<1>1. /\ Len(stack) \in Nat /\ DOMAIN stack = 1..Len(stack) /\ DOMAIN stack' = 1..Len(stack)
      /\ \A i \in 1..Len(stack) :
           /\ stack[i] \in Frame /\ stack'[i] \in Frame
           /\ ToSet(stack[i].mods) \subseteq Modules /\ Holds(stack[i]) \subseteq Modules
      /\ Present \subseteq Modules
  <2>1. stack' \in Seq(Frame)
    BY DEF TypeOK
  <2>2. DOMAIN stack' = 1..Len(stack') /\ \A i \in 1..Len(stack') : stack'[i] \in Frame
    BY <2>1, LenProperties, ElementOfSeq
  <2> QED
    BY <2>2, Typed
<1>2. \A i \in 1..Len(stack) : Holds(stack'[i]) = Holds(stack[i])
                             /\ Starts(stack'[i], mod') \subseteq Starts(stack[i], mod)
  BY <1>1, StaysSame
<1>3. Present' = Present
  BY <1>2 DEF Present
<1>4. Made' = Made
  BY DEF Made, NoneBegins
<1>5. Loads(stack') = Loads(stack)
  <2>1. \A op : {i \in DOMAIN stack' : stack'[i].op = op} = {i \in DOMAIN stack : stack[i].op = op}
    BY <1>1 DEF Stays
  <2> QED
    BY <2>1 DEF Loads, Pending
<1>6. BoundInv'
  <2>1. \A i \in 1..Len(stack) : ToSet(stack'[i].mods) \subseteq ToSet(stack[i].mods)
    BY DEF Stays
  <2> QED
    BY <1>1, <1>3, <1>4, <1>5, <2>1 DEF BoundInv, NoneBegins
<1>7. PresentInv'
  BY <1>1, <1>3 DEF PresentInv, NoneBegins, Loc
<1>8. OrderInv'
  <2>1. ASSUME NEW i \in 1..Len(stack), NEW j \in 1..Len(stack), i < j,
               NEW o \in Holds(stack'[j])
        PROVE  Loc(o)' \notin Starts(stack'[i], mod')
    <3>1. o \in Holds(stack[j]) /\ o \in Modules
      BY <1>1, <1>2
    <3>2. Loc(o)' = Loc(o)
      BY <3>1 DEF Loc, NoneBegins
    <3> QED
      BY <1>2, <2>1, <3>1, <3>2 DEF OrderInv
  <2>2. \A i \in 1..Len(stack) : stack'[i].op = "start" => stack'[i].call \notin ToSet(queue')
    BY DEF OrderInv, Stays
  <2> QED
    BY <2>1, <2>2 DEF OrderInv
<1>9. QuitInv'
  <2>1. \A i \in 1..Len(stack) : stack'[i].op = stack[i].op
    BY DEF Stays
  <2>2. \A i \in 1..Len(stack) : stack[i].op # "start" => stack'[i].mods = stack[i].mods
    BY DEF Stays
  <2>3. \A i \in 1..Len(stack) : stack[i].op = "quitAll" => stack'[i].at = stack[i].at
    BY DEF Stays
  <2> QED
    BY <1>1, <2>1, <2>2, <2>3 DEF QuitInv
<1> QED
  BY <1>6, <1>7, <1>8, <1>9
-----------------------------------------------------------------------------
(* The end of a frame, and what leaves the queue.                           *)

\* A queue that has lost some modules and kept the order of the others.
Shrinks(q, r) ==
  /\ ToSet(r) \subseteq ToSet(q)
  /\ \A n, k \in 1..Len(r) : n <= k =>
       \E a, b \in 1..Len(q) : q[a] = r[n] /\ q[b] = r[k] /\ a <= b /\ (n < k => a < b)

LEMMA RemoveOne ==
  ASSUME NEW S, NEW s \in Seq(S), NEW p \in 1..Len(s)
  PROVE  /\ RemoveAt(s, p) \in Seq(S) /\ Len(RemoveAt(s, p)) = Len(s) - 1
         /\ \A i \in 1..(Len(s) - 1) : RemoveAt(s, p)[i] = IF i < p THEN s[i] ELSE s[i + 1]
<1> DEFINE a == SubSeq(s, 1, p - 1)
           b == SubSeq(s, p + 1, Len(s))
<1>1. a \in Seq(S) /\ Len(a) = p - 1 /\ \A i \in 1..(p - 1) : a[i] = s[i]
  <2>1. \A i \in 1..(p - 1) : s[i] \in S
    OBVIOUS
  <2> QED
    BY <2>1, SubSeqProperties
<1>2. b \in Seq(S) /\ Len(b) = Len(s) - p /\ \A i \in 1..(Len(s) - p) : b[i] = s[p + i]
  <2>1. \A i \in (p + 1)..Len(s) : s[i] \in S
    OBVIOUS
  <2>2. /\ b \in Seq(S) /\ Len(b) = IF p + 1 <= Len(s) THEN Len(s) - (p + 1) + 1 ELSE 0
        /\ \A i \in 1..(Len(s) - (p + 1) + 1) : b[i] = s[p + 1 + i - 1]
    BY <2>1, SubSeqProperties
  <2> QED
    BY <2>2
<1>3. RemoveAt(s, p) = a \o b
  BY DEF RemoveAt
<1> HIDE DEF a, b
<1>4. /\ a \o b \in Seq(S) /\ Len(a \o b) = Len(s) - 1
      /\ \A i \in 1..(p - 1) : (a \o b)[i] = a[i]
      /\ \A i \in 1..(Len(s) - p) : (a \o b)[(p - 1) + i] = b[i]
  <2>1. /\ a \o b \in Seq(S) /\ Len(a \o b) = Len(a) + Len(b)
        /\ \A i \in 1..Len(a) : (a \o b)[i] = a[i]
        /\ \A i \in 1..Len(b) : (a \o b)[Len(a) + i] = b[i]
    <3>1. a \in Seq(S) /\ b \in Seq(S)
      BY <1>1, <1>2
    <3> QED
      BY <3>1, Joined
  <2>2. Len(s) \in Nat
    BY LenProperties
  <2> QED
    BY <1>1, <1>2, <2>1, <2>2
<1>5. ASSUME NEW i \in 1..(Len(s) - 1), ~(i < p) PROVE (a \o b)[i] = s[i + 1]
  <2>1. i - (p - 1) \in 1..(Len(s) - p) /\ (p - 1) + (i - (p - 1)) = i /\ p + (i - (p - 1)) = i + 1
    BY <1>5
  <2> QED
    BY <1>2, <1>4, <2>1
<1> QED
  BY <1>1, <1>3, <1>4, <1>5

LEMMA ErasedShrinks ==
  ASSUME TypeOK, PresentInv, NEW o
  PROVE  /\ Erased(o) \in Seq(Modules) /\ Shrinks(queue, Erased(o))
         /\ \A q \in ToSet(queue) : q # o => q \in ToSet(Erased(o))
<1>1. /\ queue \in Seq(Modules) /\ DOMAIN queue = 1..Len(queue) /\ Len(queue) \in Nat
  BY Typed DEF TypeOK
<1> DEFINE at == {i \in DOMAIN queue : queue[i] = o}
           p  == CHOOSE i \in at : TRUE
           r  == RemoveAt(queue, p)
<1>2. CASE at = {}
  BY <1>1, <1>2 DEF Erased, Shrinks
<1>3. CASE at # {}
  <2>1. p \in 1..Len(queue) /\ queue[p] = o /\ Erased(o) = r
    BY <1>1, <1>3 DEF Erased
  <2> HIDE DEF p, at
  <2>2. /\ r \in Seq(Modules) /\ Len(r) = Len(queue) - 1 /\ DOMAIN r = 1..(Len(queue) - 1)
        /\ \A i \in 1..(Len(queue) - 1) : r[i] = IF i < p THEN queue[i] ELSE queue[i + 1]
    BY <1>1, <2>1, RemoveOne, LenProperties
  <2> HIDE DEF r
  <2>3. ToSet(r) \subseteq ToSet(queue)
    BY <1>1, <2>2 DEF ToSet
  <2>4. ASSUME NEW n \in 1..Len(r), NEW k \in 1..Len(r), n <= k
        PROVE  \E a, b \in 1..Len(queue) :
                 queue[a] = r[n] /\ queue[b] = r[k] /\ a <= b /\ (n < k => a < b)
    <3> DEFINE a == IF n < p THEN n ELSE n + 1
               b == IF k < p THEN k ELSE k + 1
    <3>1. a \in 1..Len(queue) /\ b \in 1..Len(queue) /\ a <= b /\ (n < k => a < b)
      BY <1>1, <2>1, <2>2, <2>4
    <3>2. queue[a] = r[n] /\ queue[b] = r[k]
      BY <2>2
    <3> QED
      BY <3>1, <3>2
  <2>5. ASSUME NEW q \in ToSet(queue), q # o PROVE q \in ToSet(r)
    <3>1. PICK i \in 1..Len(queue) : queue[i] = q
      BY <1>1 DEF ToSet
    <3>2. i # p
      BY <2>1, <2>5, <3>1
    <3>3. CASE i < p
      BY <1>1, <2>1, <2>2, <3>1, <3>3 DEF ToSet
    <3>4. CASE i > p
      <4>1. i - 1 \in 1..(Len(queue) - 1) /\ ~(i - 1 < p) /\ (i - 1) + 1 = i
        BY <1>1, <2>1, <3>4
      <4> QED
        BY <2>2, <3>1, <4>1 DEF ToSet
    <3> QED
      BY <2>1, <3>2, <3>3, <3>4
  <2> QED
    BY <2>1, <2>2, <2>3, <2>4, <2>5 DEF Shrinks
<1> QED
  BY <1>2, <1>3

LEMMA MadeNat ==
  ASSUME BoundInv
  PROVE  Made \in Nat /\ MaxModules \in Nat /\ Len(Configured) \in Nat
<1>1. MaxModules \in Nat /\ Len(Configured) \in Nat
  BY ModuleAssumption, LenProperties
<1>2. IsFiniteSet(Modules)
  BY <1>1, FS_Interval DEF Modules
<1> QED
  BY <1>1, <1>2, FS_Subset, FS_CardinalityType DEF Made

LEMMA PopKeeps ==
  ASSUME Inv, Running, TypeOK', NoneBegins, Return, Shrinks(queue, queue'),
         \A o \in ToSet(queue) \cup Holds(Top) : o \in ToSet(queue') \/ ~Begun(o)'
  PROVE  Inv'
<1> USE DEF Inv
<1>1. /\ Len(stack) \in Nat \ {0} /\ Top = stack[1] /\ stack' = Tail(stack)
      /\ Len(stack') = Len(stack) - 1
      /\ \A i \in 1..(Len(stack) - 1) : stack'[i] = stack[i + 1]
  BY Stacked DEF TypeOK, Running, Top, Return
<1>2. /\ \A i \in 1..Len(stack) :
           /\ stack[i] \in Frame
           /\ ToSet(stack[i].mods) \subseteq Modules /\ Holds(stack[i]) \subseteq Modules
      /\ Present \subseteq Modules /\ ToSet(queue) \subseteq Modules /\ Len(queue') \in Nat
  BY Typed, LenProperties DEF TypeOK
<1>3. ToSet(queue') \subseteq ToSet(queue)
  BY DEF Shrinks
<1>4. Present' \subseteq Present
  BY <1>1, <1>3 DEF Present
<1>5. \A o \in Present : o \in Present' \/ ~Begun(o)'
  <2> SUFFICES ASSUME NEW o \in Present, Begun(o)' PROVE o \in Present'
    OBVIOUS
  <2>1. CASE o \in ToSet(queue) \cup Holds(stack[1])
    BY <1>1, <2>1 DEF Present
  <2>2. CASE o \notin ToSet(queue) \cup Holds(stack[1])
    <3>1. PICK i \in 1..Len(stack) : o \in Holds(stack[i])
      BY <2>2 DEF Present
    <3>2. i - 1 \in 1..(Len(stack) - 1) /\ (i - 1) + 1 = i
      BY <1>1, <2>2, <3>1
    <3>3. o \in Holds(stack'[i - 1])
      BY <1>1, <3>1, <3>2
    <3> QED
      BY <1>1, <3>2, <3>3 DEF Present
  <2> QED
    BY <2>1, <2>2
<1>6. BoundInv'
  <2>1. Made' = Made
    BY DEF Made, NoneBegins
  <2>2. ASSUME NEW op
        PROVE  /\ Pending(stack', op) \in Nat /\ Pending(stack, op) \in Nat
               /\ Pending(stack', op) <= Pending(stack, op)
    <3>1. Pending(stack, op) = Pending(Tail(stack), op) + (IF Head(stack).op = op THEN 1 ELSE 0)
      BY PendingTail DEF TypeOK, Running
    <3>2. Pending(stack', op) \in Nat /\ Pending(stack, op) \in Nat
      BY PendingNat DEF TypeOK
    <3> QED
      BY <1>1, <3>1, <3>2
  <2>3. Len(Configured) \in Nat /\ Made \in Int /\ MaxModules \in Nat
    BY MadeNat
  <2>4. Loads(stack') <= Loads(stack) /\ Loads(stack') \in Nat /\ Loads(stack) \in Nat
    <3>1. Loads(stack') \in Nat /\ Loads(stack) \in Nat
      BY <2>2, <2>3 DEF Loads
    <3>2. Len(Configured) * Pending(stack', "loadAll") <= Len(Configured) * Pending(stack, "loadAll")
      BY <2>2, <2>3
    <3> QED
      BY <2>2, <2>3, <3>1, <3>2 DEF Loads
  <2>5. \A i \in 1..Len(stack') : ToSet(stack'[i].mods) \subseteq ToSet(stack[i + 1].mods)
    BY <1>1
  <2>6. Made' + Loads(stack') <= MaxModules
    BY <2>1, <2>3, <2>4 DEF BoundInv
  <2>7. \A o \in Modules : mod'[o].life # "unmade" <=> o <= Made'
    BY <2>1 DEF BoundInv, NoneBegins
  <2>8. \A o \in Present' : mod'[o].life # "unmade"
    BY <1>2, <1>4 DEF BoundInv, NoneBegins
  <2>9. ASSUME NEW i \in 1..Len(stack'), NEW o \in ToSet(stack'[i].mods)
        PROVE  mod'[o].life # "unmade"
    <3>1. i + 1 \in 1..Len(stack) /\ o \in ToSet(stack[i + 1].mods) /\ o \in Modules
      BY <1>1, <1>2, <2>5
    <3> QED
      BY <3>1 DEF BoundInv, NoneBegins
  <2> QED
    BY <2>6, <2>7, <2>8, <2>9 DEF BoundInv
<1>7. PresentInv'
  <2>1. \A o \in Modules : Begun(o)' => o \in Present'
    BY <1>5 DEF PresentInv, NoneBegins
  <2>2. \A o, p \in Present' : Loc(o)' = Loc(p)' => o = p
    BY <1>2, <1>4 DEF PresentInv, NoneBegins, Loc
  <2>3. ASSUME NEW n \in 1..Len(queue'), NEW k \in 1..Len(queue'), queue'[n] = queue'[k], n < k
        PROVE  FALSE
    BY <2>3 DEF Shrinks, PresentInv
  <2> QED
    BY <1>2, <2>1, <2>2, <2>3 DEF PresentInv
<1>8. OrderInv'
  <2>1. \A i \in 1..Len(stack') : Starts(stack'[i], mod') = Starts(stack[i + 1], mod)
    <3> SUFFICES ASSUME NEW i \in 1..Len(stack')
                 PROVE  Starts(stack[i + 1], mod') = Starts(stack[i + 1], mod)
      BY <1>1
    <3>1. stack[i + 1] \in Frame /\ ToSet(stack[i + 1].mods) \subseteq Modules
      BY <1>1, <1>2
    <3>2. Busies(stack[i + 1]) \subseteq Modules
      BY <3>1 DEF Busies, Frame
    <3> QED
      BY <3>2 DEF Starts, NoneBegins
  <2>2. \A o \in Modules : Loc(o)' = Loc(o)
    BY DEF Loc, NoneBegins
  <2> QED
    BY <1>1, <1>2, <1>3, <2>1, <2>2 DEF OrderInv
<1>9. QuitInv'
  <2>1. ASSUME NEW i \in 1..Len(stack'), stack'[i].op = "quitAll" /\ stack'[i].at = "begin",
               NEW k \in 1..(i - 1)
        PROVE  stack'[k].op = "quit"
    <3>1. stack[i + 1].op = "quitAll" /\ stack[i + 1].at = "begin" /\ i + 1 \in 1..Len(stack)
          /\ k + 1 \in 1..((i + 1) - 1) /\ stack'[k] = stack[k + 1]
      BY <1>1, <2>1
    <3> QED
      BY <3>1 DEF QuitInv
  <2>2. ASSUME NEW i \in 1..Len(stack'), stack'[i].op = "quitAll" /\ stack'[i].at = "begin",
               stack'[i].mods # <<>>, NEW n \in 1..Len(queue'), NEW k \in 1..Len(queue'),
               queue'[n] = Last(stack'[i].mods), n <= k
        PROVE  queue'[k] \in ToSet(stack'[i].mods)
    <3>1. PICK a \in 1..Len(queue), b \in 1..Len(queue) :
            queue[a] = queue'[n] /\ queue[b] = queue'[k] /\ a <= b
      BY <2>2 DEF Shrinks
    <3>2. stack'[i] = stack[i + 1] /\ i + 1 \in 1..Len(stack)
      BY <1>1
    <3> QED
      BY <2>2, <3>1, <3>2 DEF QuitInv
  <2>3. \A i \in 1..Len(stack') : stack'[i].op = "quit" => stack'[i].mods # <<>>
    BY <1>1 DEF QuitInv
  <2> QED
    BY <2>1, <2>2, <2>3 DEF QuitInv
<1> QED
  BY <1>6, <1>7, <1>8, <1>9
-----------------------------------------------------------------------------
LEMMA TopFrame ==
  ASSUME TypeOK, Running
  PROVE  /\ Len(stack) \in Nat \ {0} /\ Top = stack[1] /\ Top \in Frame
         /\ Top.op \in {"start", "quitAll", "quit", "load", "loadAll", "recycle", "stop"}
         /\ Top.at \in {"begin", "wait"} /\ Top.waits \in SUBSET Modules
         /\ Top.mods \in Seq(Modules) /\ Top.call \in Modules \cup {NoModule}
         /\ Top.loc \in Locations \cup {None} /\ Top.thr \in BOOLEAN
<1>1. Len(stack) \in Nat \ {0} /\ Top = stack[1] /\ Top \in Frame
  BY Stacked DEF TypeOK, Running, Top
<1> QED
  BY <1>1 DEF Frame

LEMMA BecomesFrame ==
  ASSUME TypeOK, Running, NEW f \in Frame, Becomes(f)
  PROVE  /\ stack' \in Seq(Frame) /\ Len(stack') = Len(stack) /\ stack'[1] = f
         /\ stack' # <<>> /\ Tail(stack') = Tail(stack)
         /\ \A i \in 2..Len(stack) : stack'[i] = stack[i]
BY Replaced DEF TypeOK, Running, Becomes

\* A step of the innermost frame that starts nothing.
LEMMA TopStays ==
  ASSUME Inv, Running, NEW f \in Frame, Becomes(f), Stays(Top, f), NoneBegins,
         mod' \in [Modules -> Module], queue' = queue
  PROVE  Inv'
<1>1. /\ stack' \in Seq(Frame) /\ Len(stack') = Len(stack) /\ stack'[1] = f
      /\ \A i \in 2..Len(stack) : stack'[i] = stack[i]
  BY BecomesFrame DEF Inv
<1>2. TypeOK'
  BY <1>1 DEF Inv, TypeOK
<1>3. Len(stack) \in Nat \ {0} /\ Top = stack[1]
  BY TopFrame DEF Inv
<1>4. ASSUME NEW i \in 1..Len(stack) PROVE Stays(stack[i], stack'[i])
  <2>1. CASE i = 1
    BY <1>1, <1>3, <2>1
  <2>2. CASE i # 1
    <3>1. i \in 2..Len(stack)
      BY <1>3, <2>2
    <3> QED
      BY <1>1, <3>1 DEF Stays
  <2> QED
    BY <2>1, <2>2
<1>5. Len(stack') = Len(stack)
  BY <1>1
<1> QED
  BY <1>2, <1>4, <1>5, QuietKeeps

LEMMA DeleteKeeps ==
  ASSUME TypeOK, NEW ms, \A o \in ms : mod[o].life # "unmade", mod' = Delete(ms)
  PROVE  /\ mod' \in [Modules -> Module] /\ NoneBegins
         /\ \A o \in Modules : o \in ms => ~Begun(o)'
<1>1. \A o \in Modules : mod[o] \in Module /\ [mod[o] EXCEPT !.life = "deleted"] \in Module
  BY DEF TypeOK, Module
<1>2. mod' \in [Modules -> Module]
  BY <1>1 DEF Delete
<1>3. ASSUME NEW o \in Modules
      PROVE  /\ mod'[o].loc = mod[o].loc /\ mod'[o].inits = mod[o].inits
             /\ mod'[o].thread = mod[o].thread
             /\ o \notin ms => mod'[o].life = mod[o].life
             /\ o \in ms => mod'[o].life = "deleted"
  BY <1>1 DEF Delete, Module
<1> QED
  BY <1>2, <1>3 DEF NoneBegins, Begun

LEMMA DiscardKeeps == ASSUME Inv, Discard PROVE Inv'
<1> DEFINE f == [Top EXCEPT !.mods = Tail(@)]
<1>1. Running /\ Becomes(f) /\ queue' = queue /\ mod' = Delete({Head(Top.mods)})
      /\ Top.mods # <<>> /\ Top.op = "start"
  BY DEF Discard, Starting
<1>2. /\ Top \in Frame /\ Top.mods \in Seq(Modules) /\ Top = stack[1] /\ 1 \in 1..Len(stack)
  BY <1>1, TopFrame DEF Inv
<1>3. /\ Tail(Top.mods) \in Seq(Modules) /\ Head(Top.mods) \in ToSet(Top.mods)
      /\ ToSet(Tail(Top.mods)) \subseteq ToSet(Top.mods)
  <2>1. /\ Len(Top.mods) \in Nat \ {0} /\ Head(Top.mods) = Top.mods[1]
        /\ Tail(Top.mods) \in Seq(Modules) /\ Len(Tail(Top.mods)) = Len(Top.mods) - 1
        /\ \A i \in 1..(Len(Top.mods) - 1) : Tail(Top.mods)[i] = Top.mods[i + 1]
    BY <1>1, <1>2, Stacked
  <2>2. DOMAIN Top.mods = 1..Len(Top.mods) /\ DOMAIN Tail(Top.mods) = 1..(Len(Top.mods) - 1)
    BY <1>2, <2>1, LenProperties
  <2> QED
    BY <2>1, <2>2 DEF ToSet
<1>4. f \in Frame /\ Stays(Top, f)
  BY <1>1, <1>2, <1>3 DEF Frame, Stays
<1>5. \A o \in {Head(Top.mods)} : mod[o].life # "unmade"
  BY <1>2, <1>3 DEF Inv, BoundInv
<1> HIDE DEF f
<1>6. mod' \in [Modules -> Module] /\ NoneBegins
  <2> DEFINE ms == {Head(Top.mods)}
  <2>1. TypeOK /\ mod' = Delete(ms) /\ \A o \in ms : mod[o].life # "unmade"
    BY <1>1, <1>5 DEF Inv
  <2> HIDE DEF ms
  <2> QED
    BY <2>1, DeleteKeeps
<1> QED
  BY <1>1, <1>4, <1>6, TopStays

LEMMA StartWaitsKeeps == ASSUME Inv, StartWaits PROVE Inv'
<1> DEFINE f == [Top EXCEPT !.at = "wait"]
<1>1. Running /\ Becomes(f) /\ queue' = queue /\ mod' = mod /\ Top.op = "start"
  BY DEF StartWaits, Starting
<1>2. f \in Frame /\ Stays(Top, f)
  BY <1>1, TopFrame DEF Inv, Frame, Stays
<1>3. NoneBegins /\ mod' \in [Modules -> Module]
  BY <1>1 DEF NoneBegins, Begun, Inv, TypeOK
<1> HIDE DEF f
<1> QED
  BY <1>1, <1>2, <1>3, TopStays

LEMMA WaitOneKeeps == ASSUME Inv, WaitOne PROVE Inv'
<1>1. PICK o \in Top.waits : Becomes([Top EXCEPT !.waits = @ \ {o}])
  BY DEF WaitOne
<1> DEFINE f == [Top EXCEPT !.waits = @ \ {o}]
<1>2. Running /\ Becomes(f) /\ queue' = queue /\ mod' = mod
  BY <1>1 DEF WaitOne, Waiting
<1>3. f \in Frame /\ Stays(Top, f)
  BY <1>2, TopFrame DEF Inv, Frame, Stays
<1>4. NoneBegins /\ mod' \in [Modules -> Module]
  BY <1>2 DEF NoneBegins, Begun, Inv, TypeOK
<1> HIDE DEF f
<1> QED
  BY <1>2, <1>3, <1>4, TopStays

LEMMA QuitReturnsKeeps == ASSUME Inv, QuitReturns PROVE Inv'
<1> DEFINE f == [Top EXCEPT !.call = NoModule]
<1>1. /\ Running /\ Becomes(f) /\ queue' = queue /\ mod' = mod
      /\ Top.op \in {"quit", "quitAll"}
  BY DEF QuitReturns
<1>2. f \in Frame /\ Stays(Top, f)
  BY <1>1, TopFrame DEF Inv, Frame, Stays
<1>3. NoneBegins /\ mod' \in [Modules -> Module]
  BY <1>1 DEF NoneBegins, Begun, Inv, TypeOK
<1> HIDE DEF f
<1> QED
  BY <1>1, <1>2, <1>3, TopStays

\* The call of quitModule, or the message to the thread.
LEMMA QuitQuiet ==
  ASSUME TypeOK, NEW o \in Modules, mod' = Quit(o), NEW f \in Frame
  PROVE  /\ mod' \in [Modules -> Module] /\ NoneBegins
         /\ Quitting(f, o) \in Frame
         /\ Quitting(f, o).op = f.op /\ Quitting(f, o).mods = f.mods
         /\ Quitting(f, o).at = f.at /\ Quitting(f, o).loc = f.loc
<1>1. mod \in [Modules -> Module]
  BY DEF TypeOK
<1>2. CASE mod[o].thr
  <2> DEFINE n == IF mod[o].hasQueue THEN mod[o].posted + 1 ELSE mod[o].posted
             r == [mod[o] EXCEPT !.taken = TRUE, !.posted = n]
  <2>1. mod' = [mod EXCEPT ![o] = r]
    BY <1>1, <1>2 DEF Quit
  <2>3. mod[o] \in Module /\ n \in Nat
    BY <1>1 DEF Module
  <2> HIDE DEF n
  <2>2. /\ r \in Module /\ r.loc = mod[o].loc /\ r.life = mod[o].life
        /\ r.inits = mod[o].inits /\ r.thread = mod[o].thread
    BY <2>3 DEF Module
  <2> HIDE DEF r
  <2> QED
    BY <1>1, <2>1, <2>2 DEF NoneBegins, Begun, Quitting, Frame
<1>3. CASE ~mod[o].thr
  <2> DEFINE r == [mod[o] EXCEPT !.quits = @ + 1]
  <2>1. mod' = [mod EXCEPT ![o] = r]
    BY <1>1, <1>3 DEF Quit
  <2>2. /\ r \in Module /\ r.loc = mod[o].loc /\ r.life = mod[o].life
        /\ r.inits = mod[o].inits /\ r.thread = mod[o].thread
    BY <1>1 DEF Module
  <2> HIDE DEF r
  <2> QED
    BY <1>1, <2>1, <2>2 DEF NoneBegins, Begun, Quitting, Frame
<1> QED
  BY <1>2, <1>3

LEMMA QuitModuleKeeps == ASSUME Inv, QuitModule PROVE Inv'
<1> DEFINE g == [Top EXCEPT !.at = "wait"]
           o == Head(Top.mods)
           f == Quitting(g, o)
<1>1. /\ Running /\ Becomes(f) /\ queue' = queue /\ mod' = Quit(o) /\ Top.op = "quit"
  BY DEF QuitModule
<1>2. /\ Top \in Frame /\ Top.mods \in Seq(Modules) /\ Top = stack[1] /\ 1 \in 1..Len(stack)
  BY <1>1, TopFrame DEF Inv
<1>3. o \in Modules
  BY <1>1, <1>2, Stacked DEF Inv, QuitInv
<1>4. g \in Frame /\ g.op = Top.op /\ g.mods = Top.mods /\ g.loc = Top.loc
  BY <1>2 DEF Frame
<1> HIDE DEF g, o
<1>5. /\ mod' \in [Modules -> Module] /\ NoneBegins /\ f \in Frame
      /\ f.op = Top.op /\ f.mods = Top.mods /\ f.loc = Top.loc
  BY <1>1, <1>3, <1>4, QuitQuiet DEF Inv
<1> HIDE DEF f
<1>6. Stays(Top, f)
  BY <1>1, <1>5 DEF Stays
<1> QED
  BY <1>1, <1>5, <1>6, TopStays

\* A thread's own steps.
LEMMA ThreadKeeps ==
  ASSUME Inv, NEW o \in Modules, ThreadInit(o) \/ ThreadLoop(o) PROVE Inv'
<1>1. queue' = queue /\ stack' = stack
  BY DEF ThreadInit, ThreadLoop
<1>2. mod \in [Modules -> Module] /\ mod[o] \in Module
  BY DEF Inv, TypeOK
<1>3. PICK r \in Module :
        /\ mod' = [mod EXCEPT ![o] = r] /\ r.loc = mod[o].loc /\ r.life = mod[o].life
        /\ mod[o].thread # "none"
  <2>1. CASE ThreadInit(o)
    <3>1. PICK q \in {mod[o].hasQueue, TRUE} :
            mod' = [mod EXCEPT ![o].thread = "loop", ![o].hasQueue = q, ![o].inits = @ + 1]
      BY <2>1 DEF ThreadInit
    <3> DEFINE r == [mod[o] EXCEPT !.thread = "loop", !.hasQueue = q, !.inits = @ + 1]
    <3>2. mod' = [mod EXCEPT ![o] = r]
      BY <1>2, <3>1
    <3>3. r \in Module /\ r.loc = mod[o].loc /\ r.life = mod[o].life /\ mod[o].thread = "init"
      BY <1>2, <2>1 DEF Module, ThreadInit
    <3> QED
      BY <3>2, <3>3
  <2>2. CASE ThreadLoop(o)
    <3>1. mod[o].thread \in {"loop", "quitting"}
      BY <2>2 DEF ThreadLoop
    <3>2. CASE /\ mod[o].posted > 0
               /\ mod' = [mod EXCEPT ![o].posted = @ - 1, ![o].quits = @ + 1,
                                     ![o].thread = Destroyed]
      <4> DEFINE r == [mod[o] EXCEPT !.posted = @ - 1, !.quits = @ + 1, !.thread = Destroyed]
      <4>1. mod' = [mod EXCEPT ![o] = r]
        BY <1>2, <3>2
      <4>2. r \in Module /\ r.loc = mod[o].loc /\ r.life = mod[o].life
        BY <1>2, <3>2 DEF Module, Destroyed
      <4> QED
        BY <3>1, <4>1, <4>2
    <3>3. CASE mod' = [mod EXCEPT ![o].thread = "ended"]
      <4> DEFINE r == [mod[o] EXCEPT !.thread = "ended"]
      <4>1. mod' = [mod EXCEPT ![o] = r]
        BY <1>2, <3>3
      <4>2. r \in Module /\ r.loc = mod[o].loc /\ r.life = mod[o].life
        BY <1>2 DEF Module
      <4> QED
        BY <3>1, <4>1, <4>2
    <3>4. CASE mod' = [mod EXCEPT ![o].hasQueue = TRUE]
      <4> DEFINE r == [mod[o] EXCEPT !.hasQueue = TRUE]
      <4>1. mod' = [mod EXCEPT ![o] = r]
        BY <1>2, <3>4
      <4>2. r \in Module /\ r.loc = mod[o].loc /\ r.life = mod[o].life
        BY <1>2 DEF Module
      <4> QED
        BY <3>1, <4>1, <4>2
    <3> QED
      BY <2>2, <3>2, <3>3, <3>4 DEF ThreadLoop
  <2> QED
    BY <2>1, <2>2
<1>4. NoneBegins /\ mod' \in [Modules -> Module]
  <2>1. \A p \in Modules : mod'[p] = IF p = o THEN r ELSE mod[p]
    BY <1>2, <1>3
  <2> QED
    BY <1>2, <1>3, <2>1 DEF NoneBegins, Begun
<1>5. TypeOK'
  BY <1>1, <1>4 DEF Inv, TypeOK
<1>6. \A i \in 1..Len(stack) : Stays(stack[i], stack'[i])
  BY <1>1 DEF Stays
<1> QED
  BY <1>1, <1>4, <1>5, <1>6, QuietKeeps

\* The end of a start, of an unload, and of the unloading of all; and of a recycle.
LEMMA DoneKeeps == ASSUME Inv, Done PROVE Inv'
<1>1. /\ Running /\ Return /\ Top.call = NoModule /\ 1 \in 1..Len(stack) /\ Top = stack[1]
      /\ Top.mods \in Seq(Modules) /\ stack' \in Seq(Frame)
  BY TopFrame, Stacked DEF Inv, Done, Waiting, TypeOK, Running, Return
<1>2. queue' \in Seq(Modules) /\ Shrinks(queue, queue')
      /\ \A o \in ToSet(queue) : o \in ToSet(queue') \/ (Top.op = "quit" /\ o = Head(Top.mods))
  <2>1. CASE Top.op = "quit"
    BY <2>1, ErasedShrinks DEF Inv, Done
  <2>2. CASE Top.op # "quit"
    <3>1. queue' = queue /\ queue \in Seq(Modules) /\ Len(queue) \in Nat
      BY <2>2, LenProperties DEF Inv, Done, TypeOK
    <3> QED
      BY <2>2, <3>1 DEF Shrinks
  <2> QED
    BY <2>1, <2>2
<1>3. CASE Top.op = "start"
  <2>1. mod' = mod /\ Holds(Top) = {}
    BY <1>1, <1>3 DEF Done, Holds
  <2>2. NoneBegins /\ TypeOK'
    BY <1>1, <1>2, <2>1 DEF NoneBegins, Begun, Inv, TypeOK
  <2> QED
    BY <1>1, <1>2, <1>3, <2>1, <2>2, PopKeeps
<1>4. CASE Top.op # "start"
  <2> DEFINE ms == ToSet(Top.mods)
  <2>1. mod' = Delete(ms) /\ Holds(Top) \subseteq ms
    BY <1>1, <1>4 DEF Done, Holds
  <2>2. \A o \in ms : mod[o].life # "unmade"
    BY <1>1 DEF Inv, BoundInv
  <2>3. Top.op = "quit" => Head(Top.mods) \in ms
    <3> SUFFICES ASSUME Top.op = "quit" PROVE Head(Top.mods) \in ms
      OBVIOUS
    <3>1. Top.mods # <<>>
      BY <1>1 DEF Inv, QuitInv
    <3>2. /\ Head(Top.mods) = Top.mods[1] /\ Len(Top.mods) \in Nat \ {0}
          /\ DOMAIN Top.mods = 1..Len(Top.mods)
      BY <1>1, <3>1, Stacked, LenProperties
    <3> QED
      BY <3>2 DEF ToSet
  <2>4. ms \subseteq Modules /\ ToSet(queue) \subseteq Modules
    BY <1>1, Typed DEF Inv
  <2> HIDE DEF ms
  <2>5. /\ mod' \in [Modules -> Module] /\ NoneBegins
        /\ \A o \in Modules : o \in ms => ~Begun(o)'
    BY <2>1, <2>2, DeleteKeeps DEF Inv
  <2>6. TypeOK'
    BY <1>1, <1>2, <2>5 DEF TypeOK
  <2>7. \A o \in ToSet(queue) \cup Holds(Top) : o \in ToSet(queue') \/ ~Begun(o)'
    BY <1>2, <2>1, <2>3, <2>4, <2>5
  <2> QED
    BY <1>1, <1>2, <2>5, <2>6, <2>7, PopKeeps
<1> QED
  BY <1>3, <1>4

LEMMA RecycledKeeps == ASSUME Inv, Recycled PROVE Inv'
<1>1. /\ Running /\ Return /\ Top.op = "recycle" /\ mod' = mod /\ queue' = queue
      /\ stack' \in Seq(Frame)
  BY Stacked DEF Recycled, Inv, TypeOK, Running, Return
<1>2. Holds(Top) = {} /\ NoneBegins /\ TypeOK'
  BY <1>1 DEF Holds, NoneBegins, Begun, Inv, TypeOK
<1>3. Shrinks(queue, queue')
  <2>1. Len(queue) \in Nat
    BY LenProperties DEF Inv, TypeOK
  <2> QED
    BY <1>1, <2>1 DEF Shrinks
<1> QED
  BY <1>1, <1>2, <1>3, PopKeeps

-----------------------------------------------------------------------------
(* What the innermost frame does to the modules that are present.           *)

Rest == UNION {Holds(stack[i]) : i \in 2..Len(stack)}

LEMMA TopPresent ==
  ASSUME TypeOK, Running
  PROVE  /\ Present = ToSet(queue) \cup Holds(Top) \cup Rest
         /\ \A f \in Frame : Becomes(f) => Present' = ToSet(queue') \cup Holds(f) \cup Rest
<1>1. Len(stack) \in Nat \ {0} /\ Top = stack[1]
  BY TopFrame
<1>2. 1..Len(stack) = {1} \cup 2..Len(stack)
  BY <1>1
<1>3. Present = ToSet(queue) \cup Holds(Top) \cup Rest
  BY <1>1, <1>2 DEF Present, Rest
<1>4. ASSUME NEW f \in Frame, Becomes(f)
      PROVE  Present' = ToSet(queue') \cup Holds(f) \cup Rest
  <2>1. Len(stack') = Len(stack) /\ stack'[1] = f /\ \A i \in 2..Len(stack) : stack'[i] = stack[i]
    BY <1>4, BecomesFrame
  <2> QED
    BY <1>1, <1>2, <2>1 DEF Present, Rest
<1> QED
  BY <1>3, <1>4

\* The bounds and the order, when the frame does not become another function's.
LEMMA TopKeeps ==
  ASSUME Inv, Running, NEW f \in Frame, Becomes(f), f.op = Top.op,
         \A p \in Modules : /\ mod'[p].loc = mod[p].loc
                            /\ mod'[p].life = "unmade" <=> mod[p].life = "unmade",
         ToSet(f.mods) \subseteq Modules, \A o \in ToSet(f.mods) : mod[o].life # "unmade",
         Present' \subseteq Modules, \A o \in Present' : mod[o].life # "unmade",
         Starts(f, mod') \subseteq Starts(Top, mod),
         Top.op = "start" => f.call \notin ToSet(queue'),
         \A i \in 2..Len(stack) : stack[i].op = "start" => stack[i].call \notin ToSet(queue')
  PROVE  BoundInv' /\ OrderInv'
<1>1. /\ Len(stack) \in Nat \ {0} /\ Top = stack[1] /\ stack' \in Seq(Frame)
      /\ Len(stack') = Len(stack) /\ stack'[1] = f
      /\ \A i \in 2..Len(stack) : stack'[i] = stack[i]
  BY TopFrame, BecomesFrame DEF Inv
<1>2. \A i \in 1..Len(stack) : stack'[i].op = stack[i].op
  BY <1>1
<1>3. Loads(stack') = Loads(stack)
  <2>1. DOMAIN stack = 1..Len(stack) /\ DOMAIN stack' = 1..Len(stack)
    BY <1>1, LenProperties DEF Inv, TypeOK
  <2>2. \A op : {i \in DOMAIN stack' : stack'[i].op = op} = {i \in DOMAIN stack : stack[i].op = op}
    BY <1>2, <2>1
  <2> QED
    BY <2>2 DEF Loads, Pending
<1>4. Made' = Made
  BY DEF Made
<1>5. \A i \in 1..Len(stack) : /\ stack[i] \in Frame /\ ToSet(stack[i].mods) \subseteq Modules
                               /\ Holds(stack[i]) \subseteq Modules
  BY Typed DEF Inv
<1>6. BoundInv'
  <2>1. ASSUME NEW i \in 1..Len(stack), NEW o \in ToSet(stack'[i].mods)
        PROVE  mod'[o].life # "unmade"
    <3>1. CASE i = 1
      BY <1>1, <2>1, <3>1
    <3>2. CASE i # 1
      <4>1. i \in 2..Len(stack)
        BY <1>1, <3>2
      <4> QED
        BY <1>1, <1>5, <2>1, <4>1 DEF Inv, BoundInv
    <3> QED
      BY <3>1, <3>2
  <2> QED
    BY <1>1, <1>3, <1>4, <2>1 DEF Inv, BoundInv
<1>7. \A i \in 1..Len(stack) : Starts(stack'[i], mod') \subseteq Starts(stack[i], mod)
  <2> SUFFICES ASSUME NEW i \in 2..Len(stack)
               PROVE  Starts(stack[i], mod') \subseteq Starts(stack[i], mod)
    BY <1>1
  <2>1. Busies(stack[i]) \subseteq Modules
    BY <1>1, <1>5 DEF Busies, Frame
  <2> QED
    BY <2>1 DEF Starts
<1>8. ASSUME NEW i \in 1..Len(stack), NEW j \in 1..Len(stack), i < j, NEW o \in Holds(stack'[j])
      PROVE  Loc(o)' \notin Starts(stack'[i], mod')
  <2>1. j \in 2..Len(stack) /\ o \in Holds(stack[j]) /\ o \in Modules
    BY <1>1, <1>5, <1>8
  <2>2. Loc(o)' = Loc(o)
    BY <2>1 DEF Loc
  <2> QED
    BY <1>7, <1>8, <2>1, <2>2 DEF Inv, OrderInv
<1>9. \A i \in 1..Len(stack) : stack'[i].op = "start" => stack'[i].call \notin ToSet(queue')
  BY <1>1
<1> QED
  BY <1>1, <1>6, <1>8, <1>9 DEF OrderInv

\* A start is not on top of an unloading of all that goes through the queue.
LEMMA NotQuitting ==
  ASSUME Inv, Running, Top.op \notin {"quit", "quitAll"},
         NEW f \in Frame, Becomes(f), f.op \notin {"quit", "quitAll"}
  PROVE  QuitInv'
<1>1. /\ Len(stack) \in Nat \ {0} /\ Top = stack[1] /\ Len(stack') = Len(stack) /\ stack'[1] = f
      /\ \A i \in 2..Len(stack) : stack'[i] = stack[i]
  BY TopFrame, BecomesFrame DEF Inv
<1>2. \A i \in 2..Len(stack) : ~(stack[i].op = "quitAll" /\ stack[i].at = "begin")
  <2> SUFFICES ASSUME NEW i \in 2..Len(stack), stack[i].op = "quitAll", stack[i].at = "begin"
               PROVE  FALSE
    OBVIOUS
  <2>1. 1 \in 1..(i - 1) /\ i \in 1..Len(stack)
    BY <1>1
  <2> QED
    BY <1>1, <2>1 DEF Inv, QuitInv
<1>3. \A i \in 1..Len(stack') : i = 1 \/ i \in 2..Len(stack)
  BY <1>1
<1>4. ASSUME NEW i \in 1..Len(stack'), stack'[i].op = "quitAll", stack'[i].at = "begin"
      PROVE  FALSE
  BY <1>1, <1>2, <1>3, <1>4
<1>5. ASSUME NEW i \in 1..Len(stack'), stack'[i].op = "quit" PROVE stack'[i].mods # <<>>
  BY <1>1, <1>3, <1>5 DEF Inv, QuitInv
<1> QED
  BY <1>4, <1>5 DEF QuitInv

LEMMA FindSpec ==
  ASSUME TypeOK, PresentInv, NEW l
  PROVE  \/ Find(l) = NoModule /\ \A o \in ToSet(queue) : Loc(o) # l
         \/ Find(l) \in ToSet(queue) /\ Find(l) \in Modules /\ Loc(Find(l)) = l
<1>1. /\ DOMAIN queue = 1..Len(queue) /\ Len(queue) \in Nat /\ ToSet(queue) \subseteq Modules
      /\ \A i \in 1..Len(queue) : queue[i] \in Modules
  BY Typed
<1>2. CASE InQueue(l) = {}
  BY <1>1, <1>2 DEF Find, InQueue, ToSet, Loc
<1>3. CASE InQueue(l) # {}
  <2>1. PICK i \in 1..Len(queue) : i \in InQueue(l) /\ mod[queue[i]].loc = l
    BY <1>1, <1>3 DEF InQueue
  <2>2. InQueue(l) = {i}
    <3> SUFFICES ASSUME NEW j \in 1..Len(queue), mod[queue[j]].loc = l PROVE j = i
      BY <1>1, <2>1 DEF InQueue
    <3>1. queue[i] \in Present /\ queue[j] \in Present
      BY <1>1 DEF Present, ToSet
    <3> QED
      BY <2>1, <3>1 DEF PresentInv, Loc
  <2>3. Find(l) = queue[i]
    BY <1>1, <1>3, <2>2 DEF Find
  <2> QED
    BY <1>1, <2>1, <2>3 DEF ToSet, Loc
<1> QED
  BY <1>2, <1>3

LEMMA Appended ==
  ASSUME TypeOK, NEW o \in Modules
  PROVE  /\ Append(queue, o) \in Seq(Modules) /\ ToSet(Append(queue, o)) = ToSet(queue) \cup {o}
         /\ PresentInv /\ o \notin ToSet(queue) =>
              \A i, j \in 1..Len(Append(queue, o)) : Append(queue, o)[i] = Append(queue, o)[j] => i = j
<1> DEFINE q == Append(queue, o)
<1>1. /\ q \in Seq(Modules) /\ Len(q) = Len(queue) + 1 /\ Len(queue) \in Nat
      /\ DOMAIN queue = 1..Len(queue) /\ q[Len(queue) + 1] = o
      /\ \A i \in 1..Len(queue) : q[i] = queue[i]
  BY Typed, AppendProperties DEF TypeOK
<1>2. DOMAIN q = 1..Len(q)
  BY <1>1, LenProperties
<1> HIDE DEF q
<1>3. ToSet(q) = ToSet(queue) \cup {o}
  BY <1>1, <1>2 DEF ToSet
<1>4. ASSUME PresentInv, o \notin ToSet(queue), NEW i \in 1..Len(q), NEW j \in 1..Len(q), q[i] = q[j]
      PROVE  i = j
  <2>1. \A k \in 1..Len(queue) : queue[k] # o
    BY <1>1, <1>4 DEF ToSet
  <2>2. \A k \in 1..Len(q) : k \in 1..Len(queue) \/ k = Len(queue) + 1
    BY <1>1
  <2> QED
    BY <1>1, <1>4, <2>1, <2>2 DEF PresentInv
<1> QED
  BY <1>1, <1>3, <1>4 DEF q

\* What the frames below are starting is none of what the innermost one starts.
LEMMA OthersStart ==
  ASSUME Inv, Running, Top.op = "start", NEW o \in Busies(Top)
  PROVE  /\ \A i \in 2..Len(stack) : stack[i].op = "start" => stack[i].call # o
         /\ \A p \in Rest : Loc(p) # Loc(o)
         /\ o \in Modules
<1>1. Len(stack) \in Nat \ {0} /\ Top = stack[1] /\ Loc(o) \in Starts(stack[1], mod)
  BY TopFrame DEF Inv, Starts, Loc
<1>2. o \in Modules /\ o # NoModule
  <2>1. Busies(Top) \subseteq Modules
    BY <1>1, Typed, TopFrame DEF Inv, Busies
  <2> QED
    BY <2>1 DEF Modules, NoModule
<1>3. \A i \in 2..Len(stack) : \A p \in Holds(stack[i]) : Loc(p) # Loc(o)
  BY <1>1 DEF Inv, OrderInv
<1>4. \A i \in 2..Len(stack) : stack[i].op = "start" /\ stack[i].call # NoModule =>
        stack[i].call \in Holds(stack[i])
  BY DEF Holds
<1> QED
  BY <1>2, <1>3, <1>4 DEF Rest

LEMMA InitReturnsKeeps == ASSUME Inv, InitReturns PROVE Inv'
<1> DEFINE f == [Top EXCEPT !.call = NoModule]
<1>0. PICK c \in Modules : c = Top.call
  BY TopFrame DEF InitReturns, Inv
<1>1. Running /\ Becomes(f) /\ Top.op = "start" /\ c # NoModule
  BY <1>0 DEF InitReturns
<1>2. /\ Top \in Frame /\ Top = stack[1] /\ c \in Modules /\ Top.mods \in Seq(Modules)
      /\ 1 \in 1..Len(stack) /\ ToSet(Top.mods) \subseteq Modules
  BY <1>1, TopFrame, Typed DEF Inv
<1>3. /\ f \in Frame /\ f.op = "start" /\ f.call = NoModule /\ f.mods = Top.mods
      /\ Holds(f) = {} /\ Holds(Top) = {c} /\ c \in Busies(Top)
      /\ Busies(f) \subseteq Busies(Top) /\ Busies(Top) \subseteq Modules
  BY <1>0, <1>1, <1>2 DEF Frame, Holds, Busies
<1> HIDE DEF f
<1>4. /\ Present = ToSet(queue) \cup {c} \cup Rest /\ Present' = ToSet(queue') \cup Rest
      /\ Present \subseteq Modules
  BY <1>1, <1>3, TopPresent, Typed DEF Inv
<1>5. /\ c \notin ToSet(queue) /\ NoModule \notin Modules
      /\ \A i \in 2..Len(stack) : stack[i].op = "start" =>
           stack[i].call # c /\ stack[i].call \notin ToSet(queue)
  <2>1. \A i \in 2..Len(stack) : i \in 1..Len(stack)
    OBVIOUS
  <2>2. c \notin ToSet(queue)
    BY <1>0, <1>1, <1>2 DEF Inv, OrderInv
  <2>3. NoModule \notin Modules
    BY DEF Modules, NoModule
  <2> QED
    BY <1>1, <1>3, <2>1, <2>2, <2>3, OthersStart DEF Inv, OrderInv
<1>6. QuitInv'
  BY <1>1, <1>3, NotQuitting
<1>7. stack' \in Seq(Frame)
  BY <1>1, <1>3, BecomesFrame DEF Inv
<1>8. CASE queue' = Append(queue, c) /\ mod' = mod
  <2>1. /\ queue' \in Seq(Modules) /\ ToSet(queue') = ToSet(queue) \cup {c}
        /\ \A i, j \in 1..Len(queue') : queue'[i] = queue'[j] => i = j
    BY <1>2, <1>5, <1>8, Appended DEF Inv
  <2>2. Present' = Present
    BY <1>4, <2>1
  <2>3. PresentInv'
    BY <1>8, <2>1, <2>2 DEF Inv, PresentInv, Begun, Loc
  <2>4. TypeOK'
    BY <1>7, <1>8, <2>1 DEF Inv, TypeOK
  <2>5. NoModule \notin ToSet(queue')
    BY <1>4, <1>5, <2>2 DEF Present
  <2>6. Starts(f, mod') \subseteq Starts(Top, mod)
    BY <1>1, <1>3, <1>8 DEF Starts
  <2>7. BoundInv' /\ OrderInv'
    BY <1>1, <1>2, <1>3, <1>4, <1>5, <1>8, <2>1, <2>2, <2>5, <2>6, TopKeeps DEF Inv, BoundInv
  <2> QED
    BY <1>6, <2>3, <2>4, <2>7 DEF Inv
<1>9. CASE mod' = Delete({c}) /\ queue' = queue
  <2> DEFINE ms == {c}
  <2>1. mod' = Delete(ms) /\ c \in ms /\ \A o \in ms : mod[o].life # "unmade"
    BY <1>4, <1>9 DEF Inv, BoundInv
  <2> HIDE DEF ms
  <2>2. /\ mod' \in [Modules -> Module] /\ NoneBegins /\ ~Begun(c)'
    BY <1>2, <2>1, DeleteKeeps DEF Inv
  <2>3. Present' \subseteq Present /\ \A o \in Present : o \in Present' \/ o = c
    BY <1>4, <1>9
  <2>4. PresentInv'
    <3>1. \A o \in Modules : Begun(o)' => o \in Present'
      BY <2>2, <2>3 DEF Inv, PresentInv, NoneBegins
    <3>2. \A o, p \in Present' : Loc(o)' = Loc(p)' => o = p
      BY <1>4, <2>2, <2>3 DEF Inv, PresentInv, NoneBegins, Loc
    <3> QED
      BY <1>9, <3>1, <3>2 DEF Inv, PresentInv
  <2>5. TypeOK'
    BY <1>7, <1>9, <2>2 DEF Inv, TypeOK
  <2>6. NoModule \notin ToSet(queue')
    BY <1>4, <1>5, <1>9
  <2>7. Starts(f, mod') \subseteq Starts(Top, mod)
    BY <1>1, <1>3, <2>2 DEF Starts, NoneBegins
  <2>8. BoundInv' /\ OrderInv'
    <3>1. \A p \in Modules : /\ mod'[p].loc = mod[p].loc
                             /\ mod'[p].life = "unmade" <=> mod[p].life = "unmade"
      BY <2>2 DEF NoneBegins
    <3>2. Present' \subseteq Modules /\ \A o \in Present' : mod[o].life # "unmade"
      BY <1>4, <2>3 DEF Inv, BoundInv
    <3>3. ToSet(f.mods) \subseteq Modules /\ \A o \in ToSet(f.mods) : mod[o].life # "unmade"
      BY <1>2, <1>3 DEF Inv, BoundInv
    <3>4. \A i \in 2..Len(stack) : stack[i].op = "start" => stack[i].call \notin ToSet(queue')
      BY <1>5, <1>9
    <3>5. Top.op = "start" => f.call \notin ToSet(queue')
      BY <1>3, <2>6
    <3> QED
      BY <1>1, <1>2, <1>3, <2>7, <3>1, <3>2, <3>3, <3>4, <3>5, TopKeeps
  <2> QED
    BY <1>6, <2>4, <2>5, <2>8 DEF Inv
<1> QED
  BY <1>0, <1>8, <1>9 DEF InitReturns

\* Module::Init: the look into the queue suffices, since nothing else that is present has
\* the path.
LEMMA StartNextKeeps == ASSUME Inv, StartNext \/ LoadFails PROVE Inv'
<1>0. /\ Running /\ Top.op = "start" /\ Top.mods # <<>> /\ Top.call = NoModule
      /\ Top.mods \in Seq(Modules) /\ Top \in Frame /\ Top = stack[1] /\ 1 \in 1..Len(stack)
  BY TopFrame DEF StartNext, LoadFails, Starting, Inv
<1>1. /\ Head(Top.mods) \in Modules /\ Head(Top.mods) \in ToSet(Top.mods)
      /\ Tail(Top.mods) \in Seq(Modules) /\ ToSet(Tail(Top.mods)) \subseteq ToSet(Top.mods)
  <2>1. /\ Len(Top.mods) \in Nat \ {0} /\ Head(Top.mods) = Top.mods[1]
        /\ Tail(Top.mods) \in Seq(Modules) /\ Len(Tail(Top.mods)) = Len(Top.mods) - 1
        /\ Head(Top.mods) \in Modules
        /\ \A i \in 1..(Len(Top.mods) - 1) : Tail(Top.mods)[i] = Top.mods[i + 1]
    BY <1>0, Stacked
  <2>2. DOMAIN Top.mods = 1..Len(Top.mods) /\ DOMAIN Tail(Top.mods) = 1..(Len(Top.mods) - 1)
    BY <1>0, <2>1, LenProperties
  <2> QED
    BY <2>1, <2>2 DEF ToSet
<1>2. PICK o \in Modules : o = Head(Top.mods)
  BY <1>1
<1>3. /\ o \in ToSet(Top.mods) /\ o \in Busies(Top) /\ Holds(Top) = {}
      /\ ToSet(Top.mods) \subseteq Modules /\ mod[o].life # "unmade"
  BY <1>0, <1>1, <1>2, Typed DEF Busies, Holds, Inv, BoundInv
<1>4. /\ \A i \in 2..Len(stack) : stack[i].op = "start" => stack[i].call # o
      /\ \A p \in Rest : Loc(p) # Loc(o)
  BY <1>0, <1>3, OthersStart
<1>5. \A p \in ToSet(queue) : Loc(p) # Loc(o)
  <2>1. Find(Loc(o)) = NoModule
    BY <1>2 DEF StartNext, LoadFails, Loc
  <2>2. NoModule \notin Modules
    BY DEF Modules, NoModule
  <2> QED
    BY <2>1, <2>2, FindSpec DEF Inv
<1>6. Present = ToSet(queue) \cup Rest /\ Present \subseteq Modules
  BY <1>0, <1>3, TopPresent, Typed DEF Inv
<1>7. o \notin ToSet(queue) /\ NoModule \notin Modules /\ ToSet(queue) \subseteq Modules
  BY <1>5, <1>6 DEF Modules, NoModule
<1>8. PICK f \in Frame :
        /\ Becomes(f) /\ f.op = "start" /\ f.mods = Tail(Top.mods)
        /\ mod' \in [Modules -> Module]
        /\ \A p \in Modules : /\ mod'[p].loc = mod[p].loc /\ mod'[p].life = mod[p].life
                              /\ p # o => mod'[p] = mod[p]
        /\ \/ f.call = NoModule /\ queue' = Append(queue, o)
           \/ f.call = o /\ queue' = queue
  <2>1. mod \in [Modules -> Module] /\ mod[o] \in Module
    BY DEF Inv, TypeOK
  <2>4. CASE LoadFails
    <3> DEFINE f == [Top EXCEPT !.mods = Tail(@), !.call = o]
    <3>1. Becomes(f) /\ queue' = queue /\ mod' = mod
      BY <1>2, <2>4 DEF LoadFails
    <3>2. f \in Frame /\ f.op = "start" /\ f.mods = Tail(Top.mods) /\ f.call = o
      BY <1>0, <1>1 DEF Frame
    <3> HIDE DEF f
    <3> QED
      BY <2>1, <3>1, <3>2
  <2>2. CASE StartNext /\ mod[o].thr
    <3> DEFINE f == [Top EXCEPT !.mods = Tail(@), !.waits = @ \cup {o}]
               r == [mod[o] EXCEPT !.thread = "init", !.hasQueue = WithQueue]
    <3>1. Becomes(f) /\ queue' = Append(queue, o) /\ mod' = [mod EXCEPT ![o] = r]
      BY <1>2, <2>1, <2>2 DEF StartNext
    <3>2. r \in Module /\ r.loc = mod[o].loc /\ r.life = mod[o].life
      BY <2>1, ModuleAssumption DEF Module
    <3>3. f \in Frame /\ f.op = "start" /\ f.mods = Tail(Top.mods) /\ f.call = NoModule
      BY <1>0, <1>1 DEF Frame
    <3> HIDE DEF f, r
    <3> QED
      BY <2>1, <3>1, <3>2, <3>3
  <2>3. CASE StartNext /\ ~mod[o].thr
    <3> DEFINE f == [Top EXCEPT !.mods = Tail(@), !.call = o]
               r == [mod[o] EXCEPT !.inits = @ + 1]
    <3>1. Becomes(f) /\ queue' = queue /\ mod' = [mod EXCEPT ![o] = r]
      BY <1>2, <2>1, <2>3 DEF StartNext
    <3>2. r \in Module /\ r.loc = mod[o].loc /\ r.life = mod[o].life
      BY <2>1 DEF Module
    <3>3. f \in Frame /\ f.op = "start" /\ f.mods = Tail(Top.mods) /\ f.call = o
      BY <1>0, <1>1 DEF Frame
    <3> HIDE DEF f, r
    <3> QED
      BY <2>1, <3>1, <3>2, <3>3
  <2> QED
    BY <2>2, <2>3, <2>4
<1>9. /\ queue' \in Seq(Modules) /\ ToSet(queue') \cup Holds(f) = ToSet(queue) \cup {o}
      /\ \A i, j \in 1..Len(queue') : queue'[i] = queue'[j] => i = j
      /\ f.call \notin ToSet(queue')
      /\ ToSet(queue') \subseteq ToSet(queue) \cup {o}
  <2>1. CASE f.call = NoModule /\ queue' = Append(queue, o)
    <3>1. /\ queue' \in Seq(Modules) /\ ToSet(queue') = ToSet(queue) \cup {o}
          /\ \A i, j \in 1..Len(queue') : queue'[i] = queue'[j] => i = j
      BY <1>7, <2>1, Appended DEF Inv
    <3>2. Holds(f) = {}
      BY <1>8, <2>1 DEF Holds
    <3> QED
      BY <1>7, <2>1, <3>1, <3>2
  <2>2. CASE f.call = o /\ queue' = queue
    <3>1. Holds(f) = {o}
      BY <1>7, <1>8, <2>2 DEF Holds
    <3> QED
      BY <1>7, <2>2, <3>1 DEF Inv, TypeOK, PresentInv
  <2> QED
    BY <1>8, <2>1, <2>2
<1>10. Present' = Present \cup {o}
  BY <1>0, <1>6, <1>8, <1>9, TopPresent DEF Inv
<1>11. PresentInv'
  <2>1. \A p \in Modules : Begun(p)' => p \in Present'
    BY <1>8, <1>10 DEF Inv, PresentInv, Begun
  <2>2. \A p \in Present : Loc(p) # Loc(o)
    BY <1>4, <1>5, <1>6
  <2>3. \A p, q \in Present \cup {o} : Loc(p) = Loc(q) => p = q
    BY <2>2 DEF Inv, PresentInv
  <2>4. \A p \in Present \cup {o} : Loc(p)' = Loc(p)
    BY <1>6, <1>8 DEF Loc
  <2> QED
    BY <1>9, <1>10, <2>1, <2>3, <2>4 DEF PresentInv
<1>12. TypeOK'
  <2>1. stack' \in Seq(Frame)
    BY <1>0, <1>8, BecomesFrame DEF Inv
  <2> QED
    BY <1>8, <1>9, <2>1 DEF TypeOK
<1>13. QuitInv'
  BY <1>0, <1>8, NotQuitting
<1>14. Starts(f, mod') \subseteq Starts(Top, mod)
  <2>1. Busies(f) \subseteq Busies(Top) /\ Busies(Top) \subseteq Modules
    BY <1>0, <1>1, <1>3, <1>8 DEF Busies
  <2> QED
    BY <1>0, <1>8, <2>1 DEF Starts
<1>15. /\ ToSet(f.mods) \subseteq Modules /\ \A p \in ToSet(f.mods) : mod[p].life # "unmade"
       /\ Present' \subseteq Modules /\ \A p \in Present' : mod[p].life # "unmade"
  BY <1>0, <1>1, <1>3, <1>6, <1>8, <1>10 DEF Inv, BoundInv
<1>16. \A i \in 2..Len(stack) : stack[i].op = "start" => stack[i].call \notin ToSet(queue')
  <2>1. \A i \in 2..Len(stack) : i \in 1..Len(stack)
    OBVIOUS
  <2> QED
    BY <1>4, <1>9, <2>1 DEF Inv, OrderInv
<1>17. BoundInv' /\ OrderInv'
  BY <1>0, <1>8, <1>9, <1>14, <1>15, <1>16, TopKeeps
<1> QED
  BY <1>11, <1>12, <1>13, <1>17 DEF Inv

-----------------------------------------------------------------------------
(* _QuitModules.                                                            *)

\* What is left to be quit ends before the module that was quit last, and what comes from
\* there on has been quit.
LEMMA LeftSpec ==
  ASSUME Inv, QuitLoop, ~Lost
  PROVE  \E p \in 1..(Len(queue) + 1) :
           /\ Left \in Seq(Modules) /\ Len(Left) = p - 1
           /\ \A i \in 1..(p - 1) : Left[i] = queue[i]
           /\ \A k \in p..Len(queue) : queue[k] \in ToSet(Top.mods)
<1>1. /\ Running /\ Top = stack[1] /\ 1 \in 1..Len(stack) /\ Top.op = "quitAll" /\ Top.at = "begin"
      /\ queue \in Seq(Modules) /\ Len(queue) \in Nat /\ DOMAIN queue = 1..Len(queue)
  BY TopFrame, Typed DEF Inv, QuitLoop, TypeOK
<1>2. CASE Top.mods = <<>>
  <2>1. Left = queue
    BY <1>2 DEF Left
  <2>2. Len(queue) + 1 \in 1..(Len(queue) + 1) /\ (Len(queue) + 1)..Len(queue) = {}
        /\ Len(queue) = Len(queue) + 1 - 1
    BY <1>1
  <2> QED
    BY <1>1, <2>1, <2>2
<1>3. CASE Top.mods # <<>>
  <2> DEFINE p == CHOOSE i \in DOMAIN queue : queue[i] = Last(Top.mods)
  <2>1. p \in 1..Len(queue) /\ queue[p] = Last(Top.mods)
    BY <1>1, <1>3 DEF Lost, ToSet
  <2>2. Left = SubSeq(queue, 1, p - 1)
    BY <1>3 DEF Left
  <2> HIDE DEF p
  <2>3. \A i \in 1..(p - 1) : queue[i] \in Modules
    BY <1>1, <2>1
  <2>4. Left \in Seq(Modules) /\ Len(Left) = p - 1 /\ \A i \in 1..(p - 1) : Left[i] = queue[i]
    <3>1. /\ Left \in Seq(Modules) /\ Len(Left) = IF 1 <= p - 1 THEN (p - 1) - 1 + 1 ELSE 0
          /\ \A i \in 1..((p - 1) - 1 + 1) : Left[i] = queue[1 + i - 1]
      BY <1>1, <2>1, <2>2, <2>3, SubSeqProperties
    <3> QED
      BY <1>1, <2>1, <3>1
  <2>5. \A k \in p..Len(queue) : queue[k] \in ToSet(Top.mods)
    BY <1>1, <1>3, <2>1 DEF Inv, QuitInv
  <2> QED
    BY <1>1, <2>1, <2>4, <2>5
<1> QED
  BY <1>2, <1>3

LEMMA QuitNextKeeps == ASSUME Inv, QuitNext PROVE Inv'
<1>1. /\ Running /\ QuitLoop /\ ~Lost /\ Left # <<>> /\ queue' = queue
      /\ Top.op = "quitAll" /\ Top.at = "begin"
  BY DEF QuitNext, QuitLoop
<1>2. /\ Top = stack[1] /\ 1 \in 1..Len(stack) /\ Top \in Frame /\ Top.mods \in Seq(Modules)
      /\ ToSet(Top.mods) \subseteq Modules /\ Len(stack) \in Nat \ {0}
      /\ queue \in Seq(Modules) /\ Len(queue) \in Nat /\ DOMAIN queue = 1..Len(queue)
  BY <1>1, TopFrame, Typed DEF Inv, TypeOK
<1>3. PICK p \in 1..(Len(queue) + 1) :
        /\ Left \in Seq(Modules) /\ Len(Left) = p - 1
        /\ \A i \in 1..(p - 1) : Left[i] = queue[i]
        /\ \A k \in p..Len(queue) : queue[k] \in ToSet(Top.mods)
  BY <1>1, LeftSpec
<1>4. p - 1 \in 1..Len(queue) /\ Last(Left) = queue[p - 1]
  <2>1. Len(Left) \in Nat \ {0}
    BY <1>1, <1>3, EmptySeq
  <2> QED
    BY <1>2, <1>3, <2>1 DEF Last
<1>5. PICK o \in Modules : o = Last(Left) /\ o = queue[p - 1] /\ o \in ToSet(queue)
  BY <1>2, <1>4, ElementOfSeq DEF ToSet
<1> DEFINE g == [Top EXCEPT !.mods = Append(@, o)]
           f == Quitting(g, o)
<1>6. mod' = Quit(o) /\ Becomes(f)
  BY <1>5 DEF QuitNext
<1>7. /\ g \in Frame /\ g.op = Top.op /\ g.at = Top.at /\ g.mods = Append(Top.mods, o)
      /\ g.loc = Top.loc
  <2>1. Append(Top.mods, o) \in Seq(Modules)
    BY <1>2, AppendProperties
  <2> QED
    BY <1>2, <2>1 DEF Frame
<1> HIDE DEF g
<1>8. /\ mod' \in [Modules -> Module] /\ NoneBegins
      /\ f \in Frame /\ f.op = "quitAll" /\ f.at = "begin" /\ f.mods = Append(Top.mods, o)
  BY <1>1, <1>6, <1>7, QuitQuiet DEF Inv
<1> HIDE DEF f
<1>9. f.mods # <<>> /\ Last(f.mods) = o /\ ToSet(f.mods) = ToSet(Top.mods) \cup {o}
  <2>1. /\ Len(f.mods) = Len(Top.mods) + 1 /\ Len(Top.mods) \in Nat /\ f.mods \in Seq(Modules)
        /\ f.mods[Len(Top.mods) + 1] = o
        /\ \A i \in 1..Len(Top.mods) : f.mods[i] = Top.mods[i]
        /\ DOMAIN Top.mods = 1..Len(Top.mods)
    BY <1>2, <1>8, AppendProperties, LenProperties
  <2>2. DOMAIN f.mods = 1..Len(f.mods)
    BY <2>1, LenProperties
  <2>3. f.mods # <<>>
    BY <2>1, EmptySeq
  <2>4. ToSet(f.mods) = ToSet(Top.mods) \cup {o}
    <3>1. \A i : i \in DOMAIN f.mods <=> i \in 1..Len(Top.mods) \/ i = Len(Top.mods) + 1
      BY <2>1, <2>2
    <3> QED
      BY <2>1, <3>1 DEF ToSet
  <2> QED
    BY <2>1, <2>3, <2>4 DEF Last
<1>10. Present' = Present /\ Present \subseteq Modules /\ o \in Present
  <2>1. Holds(Top) = ToSet(Top.mods) /\ Holds(f) = ToSet(Top.mods) \cup {o}
    BY <1>1, <1>8, <1>9 DEF Holds
  <2> QED
    BY <1>1, <1>5, <1>6, <1>8, <2>1, TopPresent, Typed DEF Inv
<1>11. PresentInv'
  BY <1>1, <1>8, <1>10 DEF Inv, PresentInv, NoneBegins, Loc
<1>12. /\ stack' \in Seq(Frame) /\ Len(stack') = Len(stack) /\ stack'[1] = f
       /\ \A i \in 2..Len(stack) : stack'[i] = stack[i]
  BY <1>1, <1>6, <1>8, BecomesFrame DEF Inv
<1>13. TypeOK'
  BY <1>1, <1>2, <1>8, <1>12 DEF TypeOK
<1>14. QuitInv'
  <2>1. \A i \in 1..Len(stack') : i = 1 \/ i \in 2..Len(stack)
    BY <1>2, <1>12
  <2>2. \A i \in 2..Len(stack) : ~(stack[i].op = "quitAll" /\ stack[i].at = "begin")
    <3> SUFFICES ASSUME NEW i \in 2..Len(stack), stack[i].op = "quitAll", stack[i].at = "begin"
                 PROVE  FALSE
      OBVIOUS
    <3>1. 1 \in 1..(i - 1) /\ i \in 1..Len(stack)
      BY <1>2
    <3> QED
      BY <1>1, <1>2, <3>1 DEF Inv, QuitInv
  <2>3. ASSUME NEW n \in 1..Len(queue), NEW k \in 1..Len(queue), queue[n] = o, n <= k
        PROVE  queue[k] \in ToSet(f.mods)
    <3>1. n = p - 1
      BY <1>4, <1>5, <2>3 DEF Inv, PresentInv
    <3>2. CASE k = n
      BY <1>9, <2>3, <3>2
    <3>3. CASE k # n
      <4>1. k \in p..Len(queue)
        BY <1>2, <1>3, <2>3, <3>1, <3>3
      <4> QED
        BY <1>3, <1>9, <4>1
    <3> QED
      BY <3>2, <3>3
  <2>4. ASSUME NEW i \in 1..Len(stack'), stack'[i].op = "quit" PROVE stack'[i].mods # <<>>
    BY <1>8, <1>12, <2>1, <2>4 DEF Inv, QuitInv
  <2>5. ASSUME NEW i \in 1..Len(stack'), stack'[i].op = "quitAll", stack'[i].at = "begin"
        PROVE  i = 1
    BY <1>12, <2>1, <2>2, <2>5
  <2>6. 1..(1 - 1) = {}
    OBVIOUS
  <2> QED
    BY <1>1, <1>9, <1>12, <2>3, <2>4, <2>5, <2>6 DEF QuitInv
<1>15. BoundInv' /\ OrderInv'
  <2>1. Starts(f, mod') \subseteq Starts(Top, mod)
    BY <1>8 DEF Starts
  <2>2. /\ ToSet(f.mods) \subseteq Modules /\ \A q \in ToSet(f.mods) : mod[q].life # "unmade"
        /\ \A q \in Present' : mod[q].life # "unmade"
    BY <1>2, <1>9, <1>10 DEF Inv, BoundInv
  <2>3. \A i \in 2..Len(stack) : stack[i].op = "start" => stack[i].call \notin ToSet(queue')
    <3>1. \A i \in 2..Len(stack) : i \in 1..Len(stack)
      OBVIOUS
    <3> QED
      BY <1>1, <3>1 DEF Inv, OrderInv
  <2> QED
    BY <1>1, <1>6, <1>8, <1>10, <2>1, <2>2, <2>3, TopKeeps DEF NoneBegins
<1> QED
  BY <1>11, <1>13, <1>14, <1>15 DEF Inv

\* m_ModuleQueue.clear() forgets only modules that have been quit.
LEMMA QuitAllWaitsKeeps == ASSUME Inv, QuitAllWaits PROVE Inv'
<1> DEFINE f == [Top EXCEPT !.at = "wait"]
<1>1. /\ Running /\ QuitLoop /\ ~Lost /\ Left = <<>> /\ queue' = <<>> /\ mod' = mod
      /\ Top.op = "quitAll" /\ Top.at = "begin" /\ Becomes(f)
  BY DEF QuitAllWaits, QuitLoop
<1>2. /\ Top = stack[1] /\ 1 \in 1..Len(stack) /\ Top \in Frame /\ Len(stack) \in Nat \ {0}
      /\ ToSet(Top.mods) \subseteq Modules
      /\ Len(queue) \in Nat /\ DOMAIN queue = 1..Len(queue)
  BY <1>1, TopFrame, Typed DEF Inv
<1>3. f \in Frame /\ f.op = "quitAll" /\ f.at = "wait" /\ f.mods = Top.mods
  BY <1>1, <1>2 DEF Frame
<1> HIDE DEF f
<1>4. ToSet(queue) \subseteq ToSet(Top.mods) /\ ToSet(queue') = {} /\ Len(queue') = 0
  <2>1. PICK p \in 1..(Len(queue) + 1) :
          Len(Left) = p - 1 /\ \A k \in p..Len(queue) : queue[k] \in ToSet(Top.mods)
    BY <1>1, LeftSpec
  <2>2. p = 1
    BY <1>1, <2>1
  <2> QED
    BY <1>1, <1>2, <2>1, <2>2 DEF ToSet
<1>5. Present' = Present /\ Present \subseteq Modules
  <2>1. Holds(Top) = ToSet(Top.mods) /\ Holds(f) = ToSet(Top.mods)
    BY <1>1, <1>3 DEF Holds
  <2> QED
    <3>1. Present = ToSet(queue) \cup Holds(Top) \cup Rest /\ Present \subseteq Modules
      BY <1>1, TopPresent, Typed DEF Inv
    <3>2. Present' = ToSet(queue') \cup Holds(f) \cup Rest
      BY <1>1, <1>3, TopPresent DEF Inv
    <3> QED
      BY <1>4, <2>1, <3>1, <3>2
<1>6. PresentInv'
  BY <1>1, <1>4, <1>5 DEF Inv, PresentInv, Begun, Loc
<1>7. /\ stack' \in Seq(Frame) /\ Len(stack') = Len(stack) /\ stack'[1] = f
      /\ \A i \in 2..Len(stack) : stack'[i] = stack[i]
  BY <1>1, <1>3, BecomesFrame DEF Inv
<1>8. TypeOK'
  BY <1>1, <1>7 DEF Inv, TypeOK
<1>9. QuitInv'
  <2>1. \A i \in 1..Len(stack') : i = 1 \/ i \in 2..Len(stack)
    BY <1>2, <1>7
  <2>2. \A i \in 2..Len(stack) : ~(stack[i].op = "quitAll" /\ stack[i].at = "begin")
    <3> SUFFICES ASSUME NEW i \in 2..Len(stack), stack[i].op = "quitAll", stack[i].at = "begin"
                 PROVE  FALSE
      OBVIOUS
    <3>1. 1 \in 1..(i - 1) /\ i \in 1..Len(stack)
      BY <1>2
    <3> QED
      BY <1>1, <1>2, <3>1 DEF Inv, QuitInv
  <2>3. ASSUME NEW i \in 1..Len(stack'), stack'[i].op = "quit" PROVE stack'[i].mods # <<>>
    BY <1>3, <1>7, <2>1, <2>3 DEF Inv, QuitInv
  <2>4. ASSUME NEW i \in 1..Len(stack'), stack'[i].op = "quitAll", stack'[i].at = "begin"
        PROVE  FALSE
    BY <1>3, <1>7, <2>1, <2>2, <2>4
  <2> QED
    BY <2>3, <2>4 DEF QuitInv
<1>10. BoundInv' /\ OrderInv'
  <2>1. Starts(f, mod') \subseteq Starts(Top, mod)
    BY <1>3 DEF Starts
  <2>2. /\ \A q \in ToSet(f.mods) : mod[q].life # "unmade"
        /\ \A q \in Present' : mod[q].life # "unmade"
    BY <1>2, <1>3, <1>5 DEF Inv, BoundInv
  <2> QED
    BY <1>1, <1>2, <1>3, <1>4, <1>5, <2>1, <2>2, TopKeeps
<1> QED
  BY <1>6, <1>8, <1>9, <1>10 DEF Inv

-----------------------------------------------------------------------------
(* Loads make their objects from what is left.                              *)

LEMMA LoadsTail ==
  ASSUME NEW s \in Seq(Frame), s # <<>>
  PROVE  /\ Loads(s) = Loads(Tail(s)) + (IF Head(s).op = "load" THEN 1
                                         ELSE IF Head(s).op = "loadAll" THEN Len(Configured) ELSE 0)
         /\ Loads(Tail(s)) \in Nat /\ Loads(s) \in Nat
<1> DEFINE l == Pending(Tail(s), "load")
           a == Pending(Tail(s), "loadAll")
           c == Len(Configured)
<1>1. c \in Nat
  BY ModuleAssumption, LenProperties
<1>2. l \in Nat /\ a \in Nat
  BY Stacked, PendingNat
<1>3. /\ Pending(s, "load") = l + (IF Head(s).op = "load" THEN 1 ELSE 0)
      /\ Pending(s, "loadAll") = a + (IF Head(s).op = "loadAll" THEN 1 ELSE 0)
  BY PendingTail
<1>4. Loads(Tail(s)) = l + c * a /\ Loads(s) = Pending(s, "load") + c * Pending(s, "loadAll")
  BY DEF Loads
<1> HIDE DEF l, a, c
<1>5. c * a \in Nat /\ c * (a + 1) = c * a + c
  BY <1>1, <1>2
<1>6. /\ Head(s).op = "load" => Loads(s) = l + 1 + c * a
      /\ Head(s).op = "loadAll" => Loads(s) = l + c * (a + 1)
      /\ Head(s).op \notin {"load", "loadAll"} => Loads(s) = l + c * a
  BY <1>2, <1>3, <1>4
<1>7. Loads(s) = Loads(Tail(s)) + (IF Head(s).op = "load" THEN 1
                                   ELSE IF Head(s).op = "loadAll" THEN c ELSE 0)
  BY <1>1, <1>2, <1>4, <1>5, <1>6
<1> QED
  BY <1>1, <1>2, <1>4, <1>5, <1>7 DEF c

Entries == [loc : Locations \cup {None}, thr : BOOLEAN]

LEMMA MakeSpec ==
  ASSUME TypeOK, BoundInv, NEW list \in Seq(Entries), Made + Len(list) <= MaxModules,
         mod' = Make(list)
  PROVE  /\ mod' \in [Modules -> Module] /\ Made' = Made + Len(list)
         /\ Fresh(Len(list)) \in Seq(Modules)
         /\ ToSet(Fresh(Len(list))) = {Made + i : i \in 1..Len(list)}
         /\ \A i \in 1..Len(list) : Made + i \in Modules /\ mod'[Made + i].loc = list[i].loc
         /\ \A o \in Modules : /\ mod[o].life # "unmade" => mod'[o] = mod[o]
                               /\ mod[o].life = "unmade" => ~Begun(o)' \/ Begun(o)
                               /\ mod'[o].life # "unmade" <=> o <= Made + Len(list)
<1>1. /\ Made \in Nat /\ MaxModules \in Nat /\ Len(list) \in Nat /\ DOMAIN list = 1..Len(list)
      /\ \A i \in 1..Len(list) : list[i] \in Entries
      /\ mod \in [Modules -> Module]
  BY MadeNat, LenProperties, ElementOfSeq DEF TypeOK
<1> DEFINE late == \E f \in Frames : f.op = "quitAll"
           new(i) == [Unmade EXCEPT !.loc = list[i].loc, !.thr = list[i].thr,
                                    !.life = "made", !.late = late]
<1>2. ASSUME NEW i \in 1..Len(list)
      PROVE  /\ new(i) \in Module /\ new(i).loc = list[i].loc /\ new(i).life = "made"
             /\ new(i).inits = 0 /\ new(i).thread = "none"
  <2>1. late \in BOOLEAN
    OBVIOUS
  <2> HIDE DEF late
  <2> QED
    BY <1>1, <2>1 DEF Entries, Module, Unmade
<1>3. \A o \in Modules : mod'[o] = IF o - Made \in 1..Len(list) THEN new(o - Made) ELSE mod[o]
  BY <1>1 DEF Make
<1> HIDE DEF new
<1>4. mod' \in [Modules -> Module]
  <2>1. mod' = [o \in Modules |-> IF o - Made \in 1..Len(list) THEN new(o - Made) ELSE mod[o]]
    BY <1>1 DEF Make, new
  <2> QED
    BY <1>1, <1>2, <2>1
<1>5. ASSUME NEW i \in 1..Len(list)
      PROVE  Made + i \in Modules /\ mod'[Made + i].loc = list[i].loc
  <2>1. Made + i \in Modules /\ (Made + i) - Made = i
    BY <1>1 DEF Modules
  <2> QED
    BY <1>2, <1>3, <2>1
<1>6. ASSUME NEW o \in Modules
      PROVE  /\ mod[o].life # "unmade" => mod'[o] = mod[o]
             /\ mod[o].life = "unmade" => ~Begun(o)' \/ Begun(o)
             /\ mod'[o].life # "unmade" <=> o <= Made + Len(list)
  <2>1. o \in Nat \ {0} /\ (mod[o].life # "unmade" <=> o <= Made)
    BY DEF Modules, BoundInv
  <2>2. CASE o - Made \in 1..Len(list)
    <3>1. mod'[o] = new(o - Made) /\ o > Made /\ o <= Made + Len(list)
      BY <1>1, <1>3, <2>1, <2>2
    <3> QED
      BY <1>1, <1>2, <2>1, <2>2, <3>1 DEF Begun
  <2>3. CASE o - Made \notin 1..Len(list)
    <3>1. mod'[o] = mod[o] /\ (o <= Made \/ o > Made + Len(list))
      BY <1>1, <1>3, <2>1, <2>3
    <3> QED
      BY <1>1, <2>1, <3>1 DEF Begun
  <2> QED
    BY <2>2, <2>3
<1>7. Made' = Made + Len(list)
  <2>1. {o \in Modules : mod'[o].life # "unmade"} = 1..(Made + Len(list))
    BY <1>1, <1>6 DEF Modules
  <2>2. Cardinality(1..(Made + Len(list))) = Made + Len(list)
    BY <1>1, FS_Interval
  <2> QED
    BY <2>1, <2>2 DEF Made
<1>8. Fresh(Len(list)) \in Seq(Modules) /\ DOMAIN Fresh(Len(list)) = 1..Len(list)
  BY <1>1, <1>5, IsASeq DEF Fresh
<1>9. ToSet(Fresh(Len(list))) = {Made + i : i \in 1..Len(list)}
  BY <1>8 DEF ToSet, Fresh
<1> QED
  BY <1>4, <1>5, <1>6, <1>7, <1>8, <1>9

LEMMA LoadKeeps ==
  ASSUME Inv, Running, Top.op \in {"load", "loadAll"}, NEW list \in Seq(Entries),
         Len(list) = IF Top.op = "load" THEN 1 ELSE Len(Configured),
         \A i \in 1..Len(list) : list[i].loc \in Starts(Top, mod),
         mod' = Make(list), queue' = queue, Becomes(Call("start", Fresh(Len(list))))
  PROVE  Inv'
<1> DEFINE new == Fresh(Len(list))
           f == Call("start", new)
<1>1. /\ Top = stack[1] /\ Len(stack) \in Nat \ {0} /\ Top \in Frame
      /\ stack \in Seq(Frame) /\ stack # <<>> /\ Head(stack) = Top
  BY TopFrame DEF Inv, TypeOK, Running, Top
<1>2. Made + Loads(stack) <= MaxModules /\ Made \in Nat /\ MaxModules \in Nat /\ Len(list) \in Nat
  BY MadeNat, LenProperties DEF Inv, BoundInv
<1>3. Loads(stack) = Loads(Tail(stack)) + Len(list) /\ Loads(Tail(stack)) \in Nat
  BY <1>1, LoadsTail
<1>4. Made + Len(list) <= MaxModules
  BY <1>2, <1>3
<1>5. /\ mod' \in [Modules -> Module] /\ Made' = Made + Len(list)
      /\ new \in Seq(Modules) /\ ToSet(new) = {Made + i : i \in 1..Len(list)}
      /\ \A i \in 1..Len(list) : Made + i \in Modules /\ mod'[Made + i].loc = list[i].loc
      /\ \A o \in Modules : /\ mod[o].life # "unmade" => mod'[o] = mod[o]
                            /\ mod[o].life = "unmade" => ~Begun(o)' \/ Begun(o)
                            /\ mod'[o].life # "unmade" <=> o <= Made + Len(list)
  BY <1>4, MakeSpec DEF Inv
<1> HIDE DEF new
<1>6. /\ f \in Frame /\ f.op = "start" /\ f.call = NoModule /\ f.mods = new
      /\ Holds(f) = {} /\ Holds(Top) = {} /\ Busies(f) = ToSet(new)
  BY <1>5 DEF Call, Frame, Holds, Busies
<1>7. Becomes(f)
  BY DEF new
<1> HIDE DEF f
<1>8. /\ stack' \in Seq(Frame) /\ Len(stack') = Len(stack) /\ stack'[1] = f /\ stack' # <<>>
      /\ Tail(stack') = Tail(stack) /\ \A i \in 2..Len(stack) : stack'[i] = stack[i]
  BY <1>6, <1>7, BecomesFrame DEF Inv
<1>9. Present' = Present /\ Present \subseteq Modules
  BY <1>6, <1>7, TopPresent, Typed DEF Inv
<1>10. \A o \in Present : mod'[o] = mod[o]
  BY <1>5, <1>9 DEF Inv, BoundInv
<1>11. TypeOK'
  BY <1>5, <1>8 DEF Inv, TypeOK
<1>12. PresentInv'
  <2>1. \A o \in Modules : Begun(o)' => Begun(o)
    BY <1>5 DEF Begun
  <2> QED
    BY <1>9, <1>10, <2>1 DEF Inv, PresentInv, Loc
<1>13. QuitInv'
  BY <1>6, <1>7, NotQuitting
<1>14. \A i \in 1..Len(stack) : i = 1 \/ i \in 2..Len(stack)
  BY <1>1
<1>15. \A i \in 1..Len(stack) : /\ stack[i] \in Frame /\ Holds(stack[i]) \subseteq Present
                                /\ ToSet(stack[i].mods) \subseteq Modules
                                /\ \A o \in Busies(stack[i]) :
                                     o \in Modules /\ (stack[i].op = "start" => mod'[o] = mod[o])
  <2> SUFFICES ASSUME NEW i \in 1..Len(stack)
               PROVE  /\ stack[i] \in Frame /\ Holds(stack[i]) \subseteq Present
                      /\ ToSet(stack[i].mods) \subseteq Modules
                      /\ \A o \in Busies(stack[i]) :
                           o \in Modules /\ (stack[i].op = "start" => mod'[o] = mod[o])
    OBVIOUS
  <2>1. /\ stack[i] \in Frame /\ ToSet(stack[i].mods) \subseteq Modules
        /\ Holds(stack[i]) \subseteq Present
    BY Typed DEF Inv, Present
  <2>2. \A o \in ToSet(stack[i].mods) : mod'[o] = mod[o]
    BY <1>5, <2>1 DEF Inv, BoundInv
  <2>3. stack[i].call \in Modules \cup {NoModule}
    BY <2>1 DEF Frame
  <2>4. stack[i].op = "start" => {stack[i].call} \ {NoModule} \subseteq Present
    BY <2>1 DEF Holds
  <2> QED
    BY <1>10, <2>1, <2>2, <2>3, <2>4 DEF Busies
<1>16. BoundInv'
  <2>1. Made' + Loads(stack') <= MaxModules
    <3>1. PICK t \in Seq(Frame) : t = stack' /\ t # <<>> /\ Head(t) = f /\ Tail(t) = Tail(stack)
      <4>1. Head(stack') = f
        BY <1>8, Stacked
      <4> QED
        BY <1>8, <4>1
    <3>2. Loads(t) = Loads(Tail(t)) /\ Loads(Tail(t)) \in Nat
      <4>1. Loads(t) = Loads(Tail(t)) + 0 /\ Loads(Tail(t)) \in Nat
        BY <1>6, <3>1, LoadsTail
      <4> QED
        BY <4>1
    <3>3. Loads(stack') = Loads(Tail(stack))
      BY <3>1, <3>2
    <3> QED
      BY <1>2, <1>3, <1>5, <3>3
  <2>2. ASSUME NEW i \in 1..Len(stack'), NEW o \in ToSet(stack'[i].mods)
        PROVE  mod'[o].life # "unmade"
    <3>1. CASE i = 1
      <4>1. PICK k \in 1..Len(list) : o = Made + k
        BY <1>5, <1>6, <1>8, <2>2, <3>1
      <4>2. o \in Modules /\ o <= Made + Len(list)
        BY <1>2, <1>5, <4>1
      <4> QED
        BY <1>5, <4>2
    <3>2. CASE i \in 2..Len(stack)
      BY <1>5, <1>8, <1>15, <2>2, <3>2 DEF Inv, BoundInv
    <3> QED
      BY <1>8, <1>14, <3>1, <3>2
  <2> QED
    BY <1>5, <1>9, <1>10, <2>1, <2>2 DEF Inv, BoundInv
<1>17. OrderInv'
  <2>1. \A i \in 1..Len(stack) : Starts(stack'[i], mod') \subseteq Starts(stack[i], mod)
    <3>1. Starts(f, mod') \subseteq Starts(Top, mod)
      <4>1. Starts(f, mod') = {mod'[o].loc : o \in ToSet(new)}
        BY <1>6 DEF Starts
      <4>2. ASSUME NEW o \in ToSet(new) PROVE mod'[o].loc \in Starts(Top, mod)
        <5>1. PICK k \in 1..Len(list) : o = Made + k
          BY <1>5
        <5> QED
          BY <1>5, <5>1
      <4> QED
        BY <4>1, <4>2
    <3>2. \A i \in 2..Len(stack) : Starts(stack[i], mod') \subseteq Starts(stack[i], mod)
      BY <1>1, <1>15 DEF Starts
    <3> QED
      BY <1>1, <1>8, <1>14, <3>1, <3>2
  <2>2. ASSUME NEW i \in 1..Len(stack), NEW j \in 1..Len(stack), i < j, NEW o \in Holds(stack'[j])
        PROVE  Loc(o)' \notin Starts(stack'[i], mod')
    <3>1. j \in 2..Len(stack) /\ o \in Holds(stack[j]) /\ o \in Present
      BY <1>1, <1>8, <1>15, <2>2
    <3>2. Loc(o)' = Loc(o)
      BY <1>10, <3>1 DEF Loc
    <3> QED
      BY <2>1, <2>2, <3>1, <3>2 DEF Inv, OrderInv
  <2>3. ASSUME NEW i \in 1..Len(stack), stack'[i].op = "start" PROVE stack'[i].call \notin ToSet(queue)
    <3>1. NoModule \notin ToSet(queue)
      BY Typed DEF Inv, Modules, NoModule
    <3> QED
      BY <1>6, <1>8, <1>14, <2>3, <3>1 DEF Inv, OrderInv
  <2> QED
    BY <1>8, <2>2, <2>3 DEF OrderInv
<1> QED
  BY <1>11, <1>12, <1>13, <1>16, <1>17 DEF Inv

LEMMA LoadModuleKeeps == ASSUME Inv, LoadModule PROVE Inv'
<1> DEFINE list == <<[loc |-> Top.loc, thr |-> Top.thr]>>
<1>1. Running /\ Top.op = "load" /\ mod' = Make(list) /\ queue' = queue
      /\ Becomes(Call("start", Fresh(1)))
  BY DEF LoadModule
<1>2. Top.loc \in Locations \cup {None} /\ Top.thr \in BOOLEAN
  BY <1>1, TopFrame DEF Inv
<1>3. list \in Seq(Entries) /\ Len(list) = 1 /\ \A i \in 1..Len(list) : list[i].loc = Top.loc
  BY <1>2 DEF Entries
<1> HIDE DEF list
<1>4. \A i \in 1..Len(list) : list[i].loc \in Starts(Top, mod)
  BY <1>1, <1>3 DEF Starts
<1> QED
  BY <1>1, <1>3, <1>4, LoadKeeps

LEMMA LoadAllKeeps == ASSUME Inv, LoadAll PROVE Inv'
<1>1. Running /\ Top.op = "loadAll" /\ mod' = Make(Configured) /\ queue' = queue
      /\ Becomes(Call("start", Fresh(Len(Configured))))
  BY DEF LoadAll
<1>2. Configured \in Seq(Entries)
  <2>1. [loc : Locations, thr : BOOLEAN] \subseteq Entries
    BY DEF Entries
  <2> QED
    BY <2>1, ModuleAssumption, SeqMonotonic
<1>3. \A i \in 1..Len(Configured) : Configured[i].loc \in Starts(Top, mod)
  BY <1>1 DEF Starts
<1> QED
  BY <1>1, <1>2, <1>3, LoadKeeps

-----------------------------------------------------------------------------
(* Requests push calls.                                                     *)

LEMMA PushKeeps ==
  ASSUME Inv, NEW t \in Seq(Frame), stack' = t \o stack, UNCHANGED <<mod, queue>>,
         Made + Loads(stack') <= MaxModules,
         \A i \in 1..Len(t) :
           /\ t[i].op # "start" /\ Holds(t[i]) = {}
           /\ t[i].op = "quit" => t[i].mods # <<>>
           /\ t[i].op = "quitAll" => i = 1 /\ t[i].mods = <<>>
           /\ \A o \in ToSet(t[i].mods) : mod[o].life # "unmade"
           /\ \A j \in 1..Len(stack) : \A o \in Holds(stack[j]) : Loc(o) \notin Starts(t[i], mod),
         \A j \in 1..Len(stack) : stack[j].op = "quitAll" /\ stack[j].at = "begin" =>
           \A i \in 1..Len(t) : t[i].op = "quit"
  PROVE  Inv'
<1> DEFINE n == Len(t)
<1>1. /\ stack' \in Seq(Frame) /\ Len(stack') = n + Len(stack) /\ n \in Nat /\ Len(stack) \in Nat
      /\ \A i \in 1..n : stack'[i] = t[i]
      /\ \A i \in 1..Len(stack) : stack'[n + i] = stack[i]
  BY Joined DEF Inv, TypeOK
<1> HIDE DEF n
<1>2. ASSUME NEW i \in 1..Len(stack')
      PROVE  i \in 1..n \/ (i - n \in 1..Len(stack) /\ stack'[i] = stack[i - n])
  <2>1. CASE i <= n
    BY <1>1, <2>1
  <2>2. CASE i > n
    <3>1. i - n \in 1..Len(stack) /\ n + (i - n) = i
      BY <1>1, <2>2
    <3> QED
      BY <1>1, <3>1
  <2> QED
    BY <1>1, <2>1, <2>2
<1>3. Present' = Present
  <2>1. UNION {Holds(stack'[i]) : i \in 1..Len(stack')} = UNION {Holds(stack[i]) : i \in 1..Len(stack)}
    <3>1. ASSUME NEW i \in 1..Len(stack), NEW o \in Holds(stack[i])
          PROVE  \E j \in 1..Len(stack') : o \in Holds(stack'[j])
      <4>1. n + i \in 1..Len(stack')
        BY <1>1
      <4> QED
        BY <1>1, <3>1, <4>1
    <3>2. ASSUME NEW i \in 1..Len(stack'), NEW o \in Holds(stack'[i])
          PROVE  \E j \in 1..Len(stack) : o \in Holds(stack[j])
      <4>1. i \notin 1..n
        BY <1>1, <3>2 DEF n
      <4>2. i - n \in 1..Len(stack) /\ stack'[i] = stack[i - n]
        BY <1>2, <4>1
      <4> QED
        BY <3>2, <4>2
    <3> DEFINE new == UNION {Holds(stack'[i]) : i \in 1..Len(stack')}
               old == UNION {Holds(stack[i]) : i \in 1..Len(stack)}
    <3>3. ASSUME NEW o \in old PROVE o \in new
      <4>1. PICK i \in 1..Len(stack) : o \in Holds(stack[i])
        OBVIOUS
      <4>2. PICK j \in 1..Len(stack') : o \in Holds(stack'[j])
        BY <3>1, <4>1
      <4> QED
        BY <4>2
    <3>4. ASSUME NEW o \in new PROVE o \in old
      <4>1. PICK i \in 1..Len(stack') : o \in Holds(stack'[i])
        OBVIOUS
      <4>2. PICK j \in 1..Len(stack) : o \in Holds(stack[j])
        BY <3>2, <4>1
      <4> QED
        BY <4>2
    <3> QED
      BY <3>3, <3>4
  <2> QED
    BY <2>1 DEF Present
<1>4. TypeOK' /\ PresentInv'
  BY <1>1, <1>3 DEF Inv, TypeOK, PresentInv, Begun, Loc
<1>5. BoundInv'
  <2>1. ASSUME NEW i \in 1..Len(stack'), NEW o \in ToSet(stack'[i].mods)
        PROVE  mod[o].life # "unmade"
    <3>1. CASE i \in 1..n
      BY <1>1, <2>1, <3>1 DEF n
    <3>2. CASE i \notin 1..n
      BY <1>2, <2>1, <3>2 DEF Inv, BoundInv
    <3> QED
      BY <3>1, <3>2
  <2>2. Made' = Made
    BY DEF Made
  <2> QED
    BY <1>3, <2>1, <2>2 DEF Inv, BoundInv
<1>6. OrderInv'
  <2>1. ASSUME NEW i \in 1..Len(stack'), NEW j \in 1..Len(stack'), i < j, NEW o \in Holds(stack'[j])
        PROVE  Loc(o) \notin Starts(stack'[i], mod)
    <3>1. j \notin 1..n
      BY <1>1, <2>1 DEF n
    <3>2. j - n \in 1..Len(stack) /\ o \in Holds(stack[j - n])
      BY <1>2, <2>1, <3>1
    <3>3. CASE i \in 1..n
      BY <1>1, <3>2, <3>3 DEF n
    <3>4. CASE i \notin 1..n
      <4>1. i - n \in 1..Len(stack) /\ stack'[i] = stack[i - n] /\ i - n < j - n
        BY <1>1, <1>2, <2>1, <3>2, <3>4
      <4> QED
        BY <3>2, <4>1 DEF Inv, OrderInv
    <3> QED
      BY <3>3, <3>4
  <2>2. ASSUME NEW i \in 1..Len(stack'), stack'[i].op = "start"
        PROVE  stack'[i].call \notin ToSet(queue)
    <3>1. i \notin 1..n
      BY <1>1, <2>2 DEF n
    <3> QED
      BY <1>2, <2>2, <3>1 DEF Inv, OrderInv
  <2>3. \A i \in 1..Len(stack') : Starts(stack'[i], mod') = Starts(stack'[i], mod)
    BY DEF Starts
  <2> QED
    BY <2>1, <2>2, <2>3 DEF OrderInv, Loc
<1>7. QuitInv'
  <2>1. ASSUME NEW i \in 1..Len(stack'), stack'[i].op = "quit" PROVE stack'[i].mods # <<>>
    <3>1. CASE i \in 1..n
      BY <1>1, <2>1, <3>1 DEF n
    <3>2. CASE i \notin 1..n
      BY <1>2, <2>1, <3>2 DEF Inv, QuitInv
    <3> QED
      BY <3>1, <3>2
  <2>2. ASSUME NEW i \in 1..Len(stack'), stack'[i].op = "quitAll", stack'[i].at = "begin"
        PROVE  /\ \A k \in 1..(i - 1) : stack'[k].op = "quit"
               /\ stack'[i].mods # <<>> =>
                    \A m, k \in 1..Len(queue) :
                      queue[m] = Last(stack'[i].mods) /\ m <= k => queue[k] \in ToSet(stack'[i].mods)
    <3>1. CASE i \in 1..n
      <4>1. stack'[i].mods = <<>> /\ i = 1
        BY <1>1, <2>2, <3>1 DEF n
      <4>2. 1..(1 - 1) = {}
        OBVIOUS
      <4> QED
        BY <4>1, <4>2
    <3>2. CASE i \notin 1..n
      <4>1. i - n \in 1..Len(stack) /\ stack'[i] = stack[i - n]
        BY <1>2, <3>2
      <4>2. /\ \A k \in 1..n : stack'[k].op = "quit"
            /\ \A k \in 1..(i - n - 1) : stack[k].op = "quit"
        <5>1. \A k \in 1..n : t[k].op = "quit"
          BY <2>2, <4>1 DEF n
        <5>2. \A k \in 1..((i - n) - 1) : stack[k].op = "quit"
          BY <2>2, <4>1 DEF Inv, QuitInv
        <5> QED
          BY <1>1, <5>1, <5>2
      <4>3. ASSUME NEW k \in 1..(i - 1) PROVE stack'[k].op = "quit"
        <5>1. CASE k \in 1..n
          BY <4>2, <5>1
        <5>2. CASE k \notin 1..n
          <6>1. k - n \in 1..(i - n - 1) /\ k \in 1..Len(stack')
            BY <1>1, <4>1, <5>2
          <6> QED
            BY <1>2, <4>2, <5>2, <6>1
        <5> QED
          BY <5>1, <5>2
      <4> QED
        BY <2>2, <4>1, <4>3 DEF Inv, QuitInv
    <3> QED
      BY <3>1, <3>2
  <2> QED
    BY <2>1, <2>2 DEF QuitInv
<1> QED
  BY <1>4, <1>5, <1>6, <1>7 DEF Inv

\* What a polite request that loads or unloads pushes.
Pushed(l) == {f \in Frame :
  /\ f.op \in {"quit", "load"} /\ \A o \in ToSet(f.mods) : mod[o].life # "unmade"
  /\ f.op = "quit" => f.mods # <<>>
  /\ f.op = "load" => f.loc = l}

LEMMA QuitCallsSpec ==
  ASSUME Inv, NEW l \in Locations
  PROVE  /\ QuitCalls(l) \in Seq(Pushed(l))
         /\ \A i \in 1..Len(QuitCalls(l)) : QuitCalls(l)[i].op = "quit"
<1>1. CASE Find(l) = NoModule
  BY <1>1 DEF QuitCalls
<1>2. CASE Find(l) # NoModule
  <2>1. PICK o \in Modules : o = Find(l) /\ mod[o].life # "unmade"
    BY <1>2, FindSpec DEF Inv, BoundInv, Present
  <2> DEFINE f == Call("quit", <<o>>)
  <2>2. f \in Frame /\ f.op = "quit" /\ f.mods = <<o>>
    BY <2>1 DEF Frame, Call
  <2> HIDE DEF f
  <2>3. f.mods # <<>> /\ ToSet(f.mods) = {o}
    BY <2>2 DEF ToSet
  <2>4. f \in Pushed(l)
    BY <2>1, <2>2, <2>3 DEF Pushed
  <2>5. QuitCalls(l) = <<f>>
    BY <1>2, <2>1 DEF QuitCalls, f
  <2> QED
    BY <2>2, <2>4, <2>5
<1> QED
  BY <1>1, <1>2

LEMMA LoadCallSpec ==
  ASSUME NEW l \in Locations, NEW t \in BOOLEAN
  PROVE  LoadCall(l, t) \in Pushed(l)
<1> DEFINE f == LoadCall(l, t)
           g == Call("load", <<>>)
<1>1. g \in Frame /\ g.op = "load" /\ g.mods = <<>>
  BY DEF Call, Frame, NoModule
<1> HIDE DEF g
<1>2. f \in Frame /\ f.op = "load" /\ f.mods = <<>> /\ f.loc = l
  <2>1. f = [g EXCEPT !.loc = l, !.thr = t]
    BY DEF LoadCall, g
  <2> QED
    BY <1>1, <2>1 DEF Frame
<1> HIDE DEF f
<1>3. ToSet(f.mods) = {}
  BY <1>2 DEF ToSet
<1>4. f \in Pushed(l)
  BY <1>2, <1>3 DEF Pushed
<1> QED
  BY <1>4 DEF f

\* While _QuitModules goes through the queue only unloads come.
LEMMA CallsSpec ==
  ASSUME Inv, NEW k \in Kinds \ {"recycle"}, NEW l \in Locations
  PROVE  /\ Calls(k, l) \in Seq(Pushed(l))
         /\ k = "unload" => \A i \in 1..Len(Calls(k, l)) : Calls(k, l)[i].op = "quit"
<1>1. CASE k = "unload"
  BY <1>1, QuitCallsSpec DEF Calls
<1>2. ASSUME NEW t \in BOOLEAN
      PROVE  QuitCalls(l) \o <<LoadCall(l, t)>> \in Seq(Pushed(l))
  BY QuitCallsSpec, LoadCallSpec, ConcatProperties
<1>3. CASE k = "reload" \/ k = "reloadThreaded"
  BY <1>2, <1>3 DEF Calls
<1>4. CASE k = "reloadInstance"
  <2>1. CASE Find(l) = NoModule
    BY <1>4, <2>1 DEF Calls
  <2>2. CASE Find(l) # NoModule
    <3>1. mod[Find(l)].thr \in BOOLEAN
      BY <2>2, FindSpec DEF Inv, TypeOK, Module
    <3>2. Calls(k, l) = QuitCalls(l) \o <<LoadCall(l, mod[Find(l)].thr)>>
      BY <1>4, <2>2 DEF Calls
    <3> QED
      BY <1>2, <1>4, <3>1, <3>2
  <2> QED
    BY <2>1, <2>2
<1> QED
  BY <1>1, <1>3, <1>4 DEF Kinds

\* What frames hold is busy, and polite callers leave it alone.
LEMMA HeldBusy ==
  ASSUME Inv, NEW j \in 1..Len(stack), NEW o \in Holds(stack[j])
  PROVE  o \in Busy \ {NoModule} /\ stack[j] \in Frames
<1>1. stack[j] \in Frames /\ o \in Modules
  BY Typed DEF Inv, Frames
<1>2. o # NoModule
  BY <1>1 DEF Modules, NoModule
<1>3. o \in Busy
  BY <1>1 DEF Holds, Busy
<1> QED
  BY <1>1, <1>2, <1>3

LEMMA LoadRequestKeeps ==
  ASSUME Inv, NEW k \in Kinds \ {"recycle"}, NEW l \in Locations, Request(k, l), Polite(k, l)
  PROVE  Inv'
<1>1. PICK t \in Seq(Pushed(l)) :
        t = Calls(k, l) /\ (k = "unload" => \A i \in 1..Len(t) : t[i].op = "quit")
  BY CallsSpec
<1>2. /\ stack' = t \o stack /\ Made + Loads(stack') <= MaxModules /\ UNCHANGED <<mod, queue>>
  BY <1>1 DEF Request
<1>3. t \in Seq(Frame)
  <2>1. Pushed(l) \subseteq Frame
    BY DEF Pushed
  <2> QED
    BY <1>1, <2>1, SeqMonotonic
<1>4. ASSUME NEW i \in 1..Len(t)
      PROVE  /\ t[i].op # "start" /\ Holds(t[i]) = {}
             /\ t[i].op = "quit" => t[i].mods # <<>>
             /\ t[i].op # "quitAll"
             /\ \A o \in ToSet(t[i].mods) : mod[o].life # "unmade"
             /\ Starts(t[i], mod) \subseteq {l}
  <2>1. t[i] \in Pushed(l)
    BY <1>1, ElementOfSeq
  <2> QED
    BY <2>1 DEF Pushed, Holds, Starts
<1>5. ASSUME NEW j \in 1..Len(stack), NEW o \in Holds(stack[j])
      PROVE  Loc(o) # l
  BY HeldBusy DEF Polite, Loc
<1>6. ASSUME NEW j \in 1..Len(stack), stack[j].op = "quitAll", stack[j].at = "begin"
      PROVE  \A i \in 1..Len(t) : t[i].op = "quit"
  <2>1. stack[j] \in Frames
    BY Typed DEF Inv, Frames
  <2>2. k = "unload"
    BY <1>6, <2>1 DEF Polite
  <2> QED
    BY <1>1, <2>2
<1> QED
  BY <1>2, <1>3, <1>4, <1>5, <1>6, PushKeeps

\* The calls of a recycle and of Stop, above frames that hold nothing.
LEMMA QuitAllKeeps ==
  ASSUME Inv, NEW t \in Seq(Frame), stack' = t \o stack, UNCHANGED <<mod, queue>>,
         Made + Loads(stack') <= MaxModules,
         \A i \in 1..Len(t) : /\ t[i].op \in {"quitAll", "loadAll", "recycle", "stop"}
                              /\ t[i].mods = <<>> /\ (t[i].op = "quitAll" => i = 1),
         \A f \in Frames : f.call = NoModule /\ f.op \notin {"quit", "quitAll"}
  PROVE  Inv'
<1>1. \A j \in 1..Len(stack) : stack[j] \in Frames
  BY Typed DEF Inv, Frames
<1>2. \A j \in 1..Len(stack) : Holds(stack[j]) = {} /\ stack[j].op # "quitAll"
  BY <1>1 DEF Holds
<1>3. ToSet(<<>>) = {}
  BY DEF ToSet
<1>4. \A i \in 1..Len(t) : Holds(t[i]) = {}
  BY <1>3 DEF Holds
<1> QED
  BY <1>2, <1>3, <1>4, PushKeeps

LEMMA RecycleKeeps ==
  ASSUME Inv, NEW l, Request("recycle", l), Polite("recycle", l)
  PROVE  Inv'
<1> DEFINE a == Call("quitAll", <<>>)
           b == Call("loadAll", <<>>)
           c == Call("recycle", <<>>)
           t == <<a, b, c>>
<1>1. /\ t = Calls("recycle", l) /\ stack' = t \o stack
      /\ Made + Loads(stack') <= MaxModules /\ UNCHANGED <<mod, queue>>
  BY DEF Request, Calls
<1>2. /\ a \in Frame /\ b \in Frame /\ c \in Frame
      /\ a.op = "quitAll" /\ b.op = "loadAll" /\ c.op = "recycle"
      /\ a.mods = <<>> /\ b.mods = <<>> /\ c.mods = <<>>
  BY DEF Call, Frame, NoModule
<1> HIDE DEF a, b, c
<1>3. /\ t \in Seq(Frame)
      /\ \A i \in 1..Len(t) : /\ t[i].op \in {"quitAll", "loadAll", "recycle", "stop"}
                              /\ t[i].mods = <<>> /\ (t[i].op = "quitAll" => i = 1)
  BY <1>2
<1> HIDE DEF t
<1> QED
  BY <1>1, <1>3, QuitAllKeeps DEF Polite

LEMMA StopKeeps == ASSUME Inv, Stop PROVE Inv'
<1> DEFINE a == Call("quitAll", <<>>)
           b == Call("stop", <<>>)
           t == <<a, b>>
<1>1. /\ stack = <<>> /\ stack' = t /\ UNCHANGED <<mod, queue>>
  BY DEF Stop
<1>2. /\ a \in Frame /\ b \in Frame /\ a.op = "quitAll" /\ b.op = "stop"
      /\ a.mods = <<>> /\ b.mods = <<>>
  BY DEF Call, Frame, NoModule
<1> HIDE DEF a, b
<1>3. /\ t \in Seq(Frame) /\ Len(t) = 2
      /\ \A i \in 1..Len(t) : /\ t[i].op \in {"quitAll", "loadAll", "recycle", "stop"}
                              /\ t[i].mods = <<>> /\ (t[i].op = "quitAll" => i = 1)
      /\ \A i \in 1..Len(t) : t[i].op \notin {"load", "loadAll"}
  BY <1>2
<1> HIDE DEF t
<1>4. Loads(t) = 0
  <2>1. \A op \in {"load", "loadAll"} : {i \in DOMAIN t : t[i].op = op} = {}
    <3>1. DOMAIN t = 1..Len(t)
      BY <1>3, LenProperties
    <3> QED
      BY <1>3, <3>1
  <2>2. Pending(t, "load") = 0 /\ Pending(t, "loadAll") = 0
    BY <2>1, FS_EmptySet DEF Pending
  <2>3. Len(Configured) \in Nat
    BY ModuleAssumption, LenProperties
  <2> QED
    BY <2>2, <2>3 DEF Loads
<1>5. Made + Loads(stack') <= MaxModules
  <2>1. Made \in Nat /\ Loads(stack) \in Nat
    <3>1. Made \in Nat /\ Len(Configured) \in Nat
      BY MadeNat DEF Inv
    <3>2. Pending(stack, "load") \in Nat /\ Pending(stack, "loadAll") \in Nat
      BY PendingNat DEF Inv, TypeOK
    <3> QED
      BY <3>1, <3>2 DEF Loads
  <2>2. MaxModules \in Nat /\ Made + Loads(stack) <= MaxModules
    BY ModuleAssumption DEF Inv, BoundInv
  <2> QED
    BY <1>1, <1>4, <2>1, <2>2
<1>6. stack' = t \o stack
  BY <1>1, <1>3, ConcatEmptySeq
<1>7. Frames = {}
  BY <1>1 DEF Frames
<1> QED
  BY <1>1, <1>3, <1>5, <1>6, <1>7, QuitAllKeeps

-----------------------------------------------------------------------------
(* The theorems.                                                            *)

LEMMA InitHolds == ASSUME Init PROVE Inv
<1> DEFINE f == Call("loadAll", <<>>)
<1>1. /\ mod = [o \in Modules |-> Unmade] /\ queue = <<>> /\ stack = <<f>>
  BY DEF Init
<1>2. f \in Frame /\ f.op = "loadAll" /\ f.mods = <<>> /\ f.at = "begin"
  BY DEF Call, Frame, NoModule
<1> HIDE DEF f
<1>3. stack \in Seq(Frame) /\ Len(stack) = 1 /\ stack[1] = f /\ Head(stack) = f /\ Tail(stack) = <<>>
  BY <1>1, <1>2
<1>4. Unmade \in Module /\ Unmade.life = "unmade"
  BY DEF Unmade, Module
<1>5. TypeOK
  BY <1>1, <1>3, <1>4 DEF TypeOK
<1>6. ToSet(queue) = {} /\ Len(queue) = 0 /\ ToSet(<<>>) = {}
  BY <1>1 DEF ToSet
<1>7. Present = {}
  BY <1>2, <1>3, <1>6 DEF Present, Holds
<1>8. Made = 0
  <2>1. {o \in Modules : mod[o].life # "unmade"} = {}
    BY <1>1, <1>4
  <2> QED
    BY <2>1, FS_EmptySet DEF Made
<1>9. Loads(stack) = Len(Configured) /\ Len(Configured) \in Nat
  <2>1. \A op : {i \in DOMAIN <<>> : <<>>[i].op = op} = {}
    OBVIOUS
  <2>2. Len(Configured) \in Nat
    BY ModuleAssumption, LenProperties
  <2>3. Pending(<<>>, "load") = 0 /\ Pending(<<>>, "loadAll") = 0
    BY <2>1, FS_EmptySet DEF Pending
  <2>4. Loads(<<>>) = 0
    BY <2>2, <2>3 DEF Loads
  <2>5. Loads(stack) = Loads(Tail(stack)) + Len(Configured)
    <3>1. PICK s \in Seq(Frame) : s = stack /\ s # <<>> /\ Head(s).op = "loadAll"
      <4>1. stack # <<>>
        BY <1>1
      <4> QED
        BY <1>2, <1>3, <4>1
    <3> QED
      BY <3>1, LoadsTail
  <2>6. Loads(Tail(stack)) = 0
    BY <1>3, <2>4
  <2> QED
    BY <2>2, <2>5, <2>6
<1>10. BoundInv
  <2>1. \A o \in Modules : mod[o].life = "unmade" /\ o > 0
    BY <1>1, <1>4 DEF Modules
  <2> QED
    BY <1>2, <1>3, <1>6, <1>7, <1>8, <1>9, <2>1, ModuleAssumption DEF BoundInv, Modules
<1>11. PresentInv
  BY <1>1, <1>4, <1>6, <1>7 DEF PresentInv, Begun
<1>12. OrderInv /\ QuitInv
  BY <1>2, <1>3 DEF OrderInv, QuitInv
<1> QED
  BY <1>5, <1>10, <1>11, <1>12 DEF Inv

LEMMA PoliteRequestKeeps ==
  ASSUME Inv, NEW k \in Kinds, NEW l \in Locations, Request(k, l), Polite(k, l)
  PROVE  Inv'
BY LoadRequestKeeps, RecycleKeeps

LEMMA IdleKeeps ==
  ASSUME Inv, NEW l \in Locations, Idle(l)
  PROVE  Inv'
<1>1. PICK k \in Kinds : Request(k, l)
  BY ModuleAssumption DEF Idle
<1>2. Frames = {}
  BY DEF Idle, Frames
<1>3. Polite(k, l)
  BY <1>2 DEF Polite, Busy
<1> QED
  BY <1>1, <1>3, PoliteRequestKeeps

LEMMA Inductive == ASSUME Careless = FALSE, Inv, [Next]_vars PROVE Inv'
<1>1. CASE UI
  BY <1>1, LoadAllKeeps, LoadModuleKeeps, DiscardKeeps, StartNextKeeps, InitReturnsKeeps,
     StartWaitsKeeps, QuitModuleKeeps, QuitNextKeeps, QuitReturnsKeeps, QuitAllWaitsKeeps,
     WaitOneKeeps, DoneKeeps, RecycledKeeps DEF UI
<1>2. CASE Stop
  BY <1>2, StopKeeps
<1>3. ASSUME NEW l \in Locations, Idle(l) PROVE Inv'
  BY <1>3, IdleKeeps
<1>4. ASSUME NEW l \in Locations, Nested(l) PROVE Inv'
  <2>1. PICK k \in Kinds : Request(k, l) /\ Polite(k, l)
    BY <1>4 DEF Nested
  <2> QED
    BY <2>1, PoliteRequestKeeps
<1>5. ASSUME NEW o \in Modules, ThreadInit(o) \/ ThreadLoop(o) PROVE Inv'
  BY <1>5, ThreadKeeps
<1>6. CASE UNCHANGED vars
  <2>1. UNCHANGED <<mod, queue, stack>>
    BY <1>6 DEF vars
  <2>2. TypeOK' /\ BoundInv'
    BY <2>1 DEF Inv, TypeOK, BoundInv, Present, Made
  <2>3. PresentInv'
    BY <2>1 DEF Inv, PresentInv, Present, Begun, Loc
  <2>4. OrderInv'
    BY <2>1 DEF Inv, OrderInv, Loc
  <2>5. QuitInv'
    BY <2>1 DEF Inv, QuitInv
  <2> QED
    BY <2>2, <2>3, <2>4, <2>5 DEF Inv
<1> QED
  BY <1>1, <1>2, <1>3, <1>4, <1>5, <1>6 DEF Next

\* What is active has begun, and what has begun has a path of its own.
LEMMA InvOneActive == ASSUME Inv PROVE OneActive
<1>1. ASSUME NEW o \in Modules, Active(o) PROVE o \in Present
  <2>1. mod[o].inits \in Nat /\ mod[o].quits \in Nat
    BY DEF Inv, TypeOK, Module
  <2>2. mod[o].inits > 0
    BY <1>1, <2>1 DEF Active
  <2> QED
    BY <1>1, <2>2 DEF Active, Begun, Inv, PresentInv
<1> QED
  BY <1>1 DEF OneActive, Inv, PresentInv, Loc

\* A DLL is not initialised again before it has been quit, whatever paths and modules there
\* are and however high the requests nest: for as long as callers leave alone what is being
\* started or unloaded, the look into m_ModuleQueue in _StartModules suffices, and neither
\* erase nor clear() forgets a module that has not been quit (ModuleManager.cpp:196-323).
THEOREM InitialisedOnce == ASSUME Careless = FALSE PROVE Spec => []OneActive
<1>1. Init => Inv
  BY InitHolds
<1>2. Inv /\ [Next]_vars => Inv'
  BY Inductive
<1>3. Inv => OneActive
  BY InvOneActive
<1> QED
  BY <1>1, <1>2, <1>3, PTL DEF Spec

\* Every value the variables take is of its type: a frame refers to Module objects only, so
\* no request reaches for a module that _FindModule has not found (ModuleManager.cpp:133-170).
THEOREM Typing == ASSUME Careless = FALSE PROVE Spec => []TypeOK
<1>1. Init => Inv
  BY InitHolds
<1>2. Inv /\ [Next]_vars => Inv'
  BY Inductive
<1>3. Inv => TypeOK
  BY DEF Inv
<1> QED
  BY <1>1, <1>2, <1>3, PTL DEF Spec

-----------------------------------------------------------------------------
(***************************************************************************)
(* Nothing deleted is used, and a recycle and Stop unload all modules, if  *)
(* callers are polite.                                                     *)
(***************************************************************************)

\* How far a Module object has come.
Started(r)    == r.life = "made" /\ (r.inits > 0 \/ r.thread # "none")
Untouched(r)  == ~r.taken /\ r.posted = 0 /\ r.quits = 0
NotStarted(r) == r.life = "made" /\ r.inits = 0 /\ r.thread = "none" /\ Untouched(r)
Sane(r) ==
  /\ r.inits <= 1 /\ r.quits <= r.inits /\ r.quits + r.posted <= 1
  /\ ~r.thr => r.thread = "none" /\ r.posted = 0
  /\ r.thr /\ r.thread = "none" => r.inits = 0
  /\ r.thread = "init" => r.inits = 0
  /\ r.thread = "loop" => r.inits = 1 /\ r.quits = 0
  /\ r.thread \in {"quitting", "ended"} => r.quits = 1
  /\ r.life = "deleted" => r.thread \in {"none", "ended"}

\* In initModule, or in the message about a DLL that did not load.
InCall(r) == NotStarted(r) \/ (r.life = "made" /\ ~r.thr /\ r.inits = 1 /\ Untouched(r))

\* What a frame relies on, of itself, of the Module objects m and of the queue q.
Bare(f) == f.at = "begin" /\ f.mods = <<>> /\ f.call = NoModule
StartOK(f, m, q) ==
  /\ \A n, k \in 1..Len(f.mods) : f.mods[n] = f.mods[k] => n = k
  /\ \A o \in ToSet(f.mods) : NotStarted(m[o]) /\ o # f.call
  /\ f.call # NoModule => InCall(m[f.call])
  /\ Busies(f) \cap ToSet(q) = {}
\* A module that has been asked to quit has ended, or the frame waits for it.
Leaving(f, m, o) == m[o].thr => o \in f.waits \/ m[o].thread = "ended"
QuitOK(f, m) ==
  /\ Len(f.mods) = 1 /\ f.call \in {NoModule, f.mods[1]} /\ Started(m[f.mods[1]])
  /\ f.at = "begin" => f.call = NoModule /\ Untouched(m[f.mods[1]])
  /\ f.at = "wait" => Leaving(f, m, f.mods[1])
QuitAllOK(f, m, q) ==
  /\ f.call \in ToSet(f.mods) \cup {NoModule}
  /\ \A o \in ToSet(f.mods) : /\ Started(m[o]) /\ Leaving(f, m, o)
                              /\ f.at = "wait" => o \notin ToSet(q)
  /\ f.at = "begin" /\ f.mods # <<>> =>
       \A n, k \in 1..Len(q) : q[n] = Last(f.mods) /\ k < n => q[k] \notin ToSet(f.mods)
FrameOK(f, m, q) ==
  /\ f.op \in {"load", "loadAll", "recycle", "stop"} => Bare(f)
  /\ f.op = "start"   => StartOK(f, m, q)
  /\ f.op = "quit"    => QuitOK(f, m)
  /\ f.op = "quitAll" => QuitAllOK(f, m, q)

Quits(f, o) == f.op \in {"quit", "quitAll"} /\ o \in ToSet(f.mods)

SaneInv   == \A o \in Modules : Sane(mod[o])
FramesInv == \A i \in 1..Len(stack) : FrameOK(stack[i], mod, queue)
\* No two frames deal with one module, and what is below a recycle unloads nothing.
ApartInv ==
  \A i, j \in 1..Len(stack) : i < j =>
    /\ Busies(stack[i]) \cap Busies(stack[j]) = {}
    /\ stack[i].op = "quitAll" => stack[j].op \notin {"quit", "quitAll"}
\* What is in the queue has been started, and asked to quit only by a frame that is there.
QueueInv ==
  \A o \in ToSet(queue) :
    /\ Started(mod[o])
    /\ Untouched(mod[o]) \/ \E i \in 1..Len(stack) : Quits(stack[i], o)

UseInv == SaneInv /\ FramesInv /\ ApartInv /\ QueueInv
-----------------------------------------------------------------------------
(* Frames that a step leaves alone.                                         *)

\* What a module's thread may do to its object, beneath a frame that deals with it.
Later(r, s) ==
  /\ s.life = r.life /\ s.thr = r.thr
  /\ r.thread = "none" => s = r
  /\ r.thread # "none" => s.thread # "none"
  /\ r.thread = "ended" => s.thread = "ended"
  /\ Untouched(r) => Untouched(s)

\* The queue keeps its order, and only what is in new is added to its end.
Follows(q, r, new) ==
  /\ ToSet(r) \subseteq ToSet(q) \cup new
  /\ \A n, k \in 1..Len(r) : k < n =>
       r[n] \in new \/ \E a, b \in 1..Len(q) : q[a] = r[k] /\ q[b] = r[n] /\ a < b

LEMMA LaterStarted ==
  ASSUME NEW r \in Module, NEW s \in Module, Later(r, s), Started(r)
  PROVE  Started(s)
BY DEF Later, Started

LEMMA SameLater == \A r : Later(r, r)
BY DEF Later

LEMMA BusiesModules ==
  ASSUME NEW f \in Frame
  PROVE  /\ Busies(f) \subseteq Modules /\ ToSet(f.mods) \subseteq Busies(f)
         /\ f.mods \in Seq(Modules) /\ DOMAIN f.mods = 1..Len(f.mods) /\ Len(f.mods) \in Nat
         /\ f.call # NoModule => f.call \in Busies(f)
         /\ NoModule \notin Modules
         /\ f.mods # <<>> => Last(f.mods) \in ToSet(f.mods)
         /\ \A i \in 1..Len(f.mods) : f.mods[i] \in ToSet(f.mods)
<1>1. f.mods \in Seq(Modules) /\ f.call \in Modules \cup {NoModule}
  BY DEF Frame
<1>2. /\ DOMAIN f.mods = 1..Len(f.mods) /\ Len(f.mods) \in Nat
      /\ \A i \in 1..Len(f.mods) : f.mods[i] \in Modules
  BY <1>1, LenProperties, ElementOfSeq
<1>3. NoModule \notin Modules
  BY DEF Modules, NoModule
<1>4. f.mods # <<>> => Last(f.mods) \in ToSet(f.mods)
  <2> SUFFICES ASSUME f.mods # <<>> PROVE Last(f.mods) \in ToSet(f.mods)
    OBVIOUS
  <2>1. Len(f.mods) \in 1..Len(f.mods)
    BY <1>1, <1>2, Stacked
  <2> QED
    BY <1>2, <2>1 DEF Last, ToSet
<1> QED
  BY <1>1, <1>2, <1>3, <1>4 DEF Busies, ToSet

\* A frame stays right while the threads go on and the queue changes by other modules.
LEMMA FrameStays ==
  ASSUME NEW f \in Frame, NEW m \in [Modules -> Module], NEW n \in [Modules -> Module],
         NEW q \in Seq(Modules), NEW r \in Seq(Modules), NEW new,
         FrameOK(f, m, q), \A o \in Modules : Sane(m[o]),
         \A o \in Busies(f) : Later(m[o], n[o]),
         Follows(q, r, new), new \cap Busies(f) = {}
  PROVE  FrameOK(f, n, r)
<1>1. /\ Busies(f) \subseteq Modules /\ ToSet(f.mods) \subseteq Busies(f)
      /\ f.call # NoModule => f.call \in Busies(f)
      /\ f.mods # <<>> => Last(f.mods) \in ToSet(f.mods)
      /\ \A i \in 1..Len(f.mods) : f.mods[i] \in ToSet(f.mods)
  BY BusiesModules
<1>2. \A o \in Busies(f) : m[o] \in Module /\ n[o] \in Module /\ Sane(m[o])
  BY <1>1
<1>3. \A o \in Busies(f) : Started(m[o]) => Started(n[o])
  BY <1>2, LaterStarted
<1>4. \A o \in Busies(f) : Leaving(f, m, o) => Leaving(f, n, o)
  BY DEF Later, Leaving
<1>5. \A o \in Busies(f) : o \in ToSet(r) => o \in ToSet(q)
  BY DEF Follows
<1>6. CASE f.op = "start"
  <2>1. StartOK(f, m, q)
    BY <1>6 DEF FrameOK
  <2>2. \A o \in ToSet(f.mods) : NotStarted(n[o]) /\ o # f.call
    BY <1>1, <2>1 DEF StartOK, NotStarted, Later
  <2>3. f.call # NoModule => InCall(n[f.call])
    <3> SUFFICES ASSUME f.call # NoModule PROVE InCall(n[f.call])
      OBVIOUS
    <3>1. m[f.call].thread = "none"
      BY <1>1, <1>2, <2>1 DEF StartOK, InCall, NotStarted, Sane
    <3>2. n[f.call] = m[f.call]
      BY <1>1, <3>1 DEF Later
    <3> QED
      BY <2>1, <3>2 DEF StartOK
  <2>4. Busies(f) \cap ToSet(r) = {}
    BY <1>5, <2>1 DEF StartOK
  <2> QED
    BY <1>6, <2>1, <2>2, <2>3, <2>4 DEF FrameOK, StartOK
<1>7. CASE f.op = "quit"
  <2>1. QuitOK(f, m)
    BY <1>7 DEF FrameOK
  <2>2. f.mods[1] \in Busies(f)
    BY <1>1, <2>1 DEF QuitOK
  <2>3. QuitOK(f, n)
    BY <1>3, <1>4, <2>1, <2>2 DEF QuitOK, Later
  <2> QED
    BY <1>7, <2>3 DEF FrameOK
<1>8. CASE f.op = "quitAll"
  <2>1. QuitAllOK(f, m, q)
    BY <1>8 DEF FrameOK
  <2>2. \A o \in ToSet(f.mods) : /\ Started(n[o]) /\ Leaving(f, n, o)
                                 /\ f.at = "wait" => o \notin ToSet(r)
    BY <1>1, <1>3, <1>4, <1>5, <2>1 DEF QuitAllOK
  <2>3. ASSUME f.at = "begin", f.mods # <<>>, NEW i \in 1..Len(r), NEW k \in 1..Len(r),
               r[i] = Last(f.mods), k < i
        PROVE  r[k] \notin ToSet(f.mods)
    <3>1. r[i] \notin new
      BY <1>1, <2>3
    <3>2. PICK a \in 1..Len(q), b \in 1..Len(q) : q[a] = r[k] /\ q[b] = r[i] /\ a < b
      BY <2>3, <3>1 DEF Follows
    <3> QED
      BY <2>1, <2>3, <3>2 DEF QuitAllOK
  <2> QED
    BY <1>8, <2>1, <2>2, <2>3 DEF FrameOK, QuitAllOK
<1>9. CASE f.op \in {"load", "loadAll", "recycle", "stop"}
  BY <1>9 DEF FrameOK
<1> QED
  BY <1>6, <1>7, <1>8, <1>9 DEF Frame
LEMMA Trivially ==
  ASSUME NEW q \in Seq(Modules), NEW new
  PROVE  Follows(q, q, new)
<1>1. Len(q) \in Nat
  BY LenProperties
<1> QED
  BY <1>1 DEF Follows

LEMMA ShrinksFollows ==
  ASSUME NEW q, NEW r \in Seq(Modules), NEW new, Shrinks(q, r)
  PROVE  Follows(q, r, new)
<1>1. Len(r) \in Nat
  BY LenProperties
<1> QED
  BY <1>1 DEF Shrinks, Follows

LEMMA AppendFollows ==
  ASSUME TypeOK, NEW new, NEW o \in Modules, o \in new
  PROVE  Follows(queue, Append(queue, o), new)
<1> DEFINE r == Append(queue, o)
<1>1. /\ Len(r) = Len(queue) + 1 /\ Len(queue) \in Nat /\ r[Len(queue) + 1] = o
      /\ \A i \in 1..Len(queue) : r[i] = queue[i]
  BY AppendProperties, LenProperties DEF TypeOK
<1>2. ToSet(r) = ToSet(queue) \cup {o}
  BY Appended
<1> HIDE DEF r
<1>3. ASSUME NEW n \in 1..Len(r), NEW k \in 1..Len(r), k < n, r[n] \notin new
      PROVE  \E a, b \in 1..Len(queue) : queue[a] = r[k] /\ queue[b] = r[n] /\ a < b
  <2>1. n # Len(queue) + 1
    BY <1>1, <1>3
  <2>2. n \in 1..Len(queue) /\ k \in 1..Len(queue)
    BY <1>1, <1>3, <2>1
  <2> QED
    BY <1>1, <1>3, <2>2
<1> QED
  BY <1>2, <1>3 DEF Follows, r

-----------------------------------------------------------------------------
(* A step of the innermost frame.                                           *)

\* What the step may touch: modules that no other frame deals with.
LEMMA TopUses ==
  ASSUME Inv, UseInv, TypeOK', Running, NEW g \in Frame, Becomes(g), NEW A,
         \A i \in 2..Len(stack) : A \cap Busies(stack[i]) = {},
         Busies(g) \cup Busies(Top) \subseteq A,
         \A o \in Modules : o \in A \/ mod'[o] = mod[o],
         Follows(queue, queue', A),
         FrameOK(g, mod', queue'),
         \A o \in Modules : o \in A => Sane(mod'[o]),
         \A o \in ToSet(queue') : o \in A =>
           Started(mod'[o]) /\ (Untouched(mod'[o]) \/ Quits(g, o)),
         g.op = "quitAll" => Top.op = "quitAll"
  PROVE  UseInv'
<1>1. /\ Len(stack) \in Nat \ {0} /\ Top = stack[1] /\ Top \in Frame
      /\ Len(stack') = Len(stack) /\ stack'[1] = g
      /\ \A i \in 2..Len(stack) : stack'[i] = stack[i]
  BY TopFrame, BecomesFrame DEF Inv
<1>2. \A i \in 1..Len(stack) : i = 1 \/ i \in 2..Len(stack)
  BY <1>1
<1>3. /\ \A i \in 1..Len(stack) : stack[i] \in Frame
      /\ queue' \in Seq(Modules) /\ queue \in Seq(Modules)
      /\ mod \in [Modules -> Module] /\ mod' \in [Modules -> Module]
      /\ ToSet(queue') \subseteq Modules
  BY Typed DEF Inv, TypeOK, ToSet
<1>4. SaneInv'
  BY DEF UseInv, SaneInv
<1>5. FramesInv'
  <2>1. ASSUME NEW i \in 2..Len(stack) PROVE FrameOK(stack[i], mod', queue')
    <3>1. /\ i \in 1..Len(stack) /\ Busies(stack[i]) \subseteq Modules
          /\ A \cap Busies(stack[i]) = {}
      BY <1>1, <1>3, BusiesModules
    <3>2. \A o \in Busies(stack[i]) : Later(mod[o], mod'[o])
      BY <3>1, SameLater
    <3>3. stack[i] \in Frame /\ FrameOK(stack[i], mod, queue)
      BY <1>3, <3>1 DEF UseInv, FramesInv
    <3>4. \A o \in Modules : Sane(mod[o])
      BY DEF UseInv, SaneInv
    <3> QED
      BY <1>3, <3>1, <3>2, <3>3, <3>4, FrameStays
  <2> QED
    BY <1>1, <1>2, <2>1 DEF FramesInv
<1>6. ApartInv'
  <2> SUFFICES ASSUME NEW i \in 1..Len(stack), NEW j \in 1..Len(stack), i < j
               PROVE  /\ Busies(stack'[i]) \cap Busies(stack'[j]) = {}
                      /\ stack'[i].op = "quitAll" => stack'[j].op \notin {"quit", "quitAll"}
    BY <1>1 DEF ApartInv
  <2>1. j \in 2..Len(stack) /\ stack'[j] = stack[j]
    BY <1>1
  <2>2. /\ Busies(stack[i]) \cap Busies(stack[j]) = {}
        /\ stack[i].op = "quitAll" => stack[j].op \notin {"quit", "quitAll"}
    BY DEF UseInv, ApartInv
  <2>3. CASE i = 1
    <3>1. Busies(g) \cap Busies(stack[j]) = {}
      BY <2>1
    <3> QED
      BY <1>1, <2>1, <2>2, <2>3, <3>1
  <2>4. CASE i # 1
    <3>1. stack'[i] = stack[i]
      BY <1>1, <2>4
    <3> QED
      BY <2>1, <2>2, <3>1
  <2> QED
    BY <2>3, <2>4
<1>7. QueueInv'
  <2> SUFFICES ASSUME NEW o \in ToSet(queue'), o \notin A
               PROVE  /\ Started(mod'[o])
                      /\ Untouched(mod'[o]) \/ \E i \in 1..Len(stack') : Quits(stack'[i], o)
    <3>1. ASSUME NEW o \in ToSet(queue'), o \in A
          PROVE  /\ Started(mod'[o])
                 /\ Untouched(mod'[o]) \/ \E i \in 1..Len(stack') : Quits(stack'[i], o)
      BY <1>1, <3>1
    <3> QED
      BY <3>1 DEF QueueInv
  <2>1. o \in Modules /\ mod'[o] = mod[o] /\ o \in ToSet(queue)
    BY <1>3 DEF Follows
  <2>2. ASSUME NEW i \in 1..Len(stack), Quits(stack[i], o) PROVE Quits(stack'[i], o)
    <3>1. o \in Busies(stack[i])
      BY <2>2 DEF Quits, Busies
    <3>2. i # 1
      BY <1>1, <3>1
    <3> QED
      BY <1>1, <1>2, <2>2, <3>2
  <2> QED
    BY <1>1, <2>1, <2>2 DEF UseInv, QueueInv
<1> QED
  BY <1>4, <1>5, <1>6, <1>7 DEF UseInv

\* The end of the innermost frame.
LEMMA PopUses ==
  ASSUME Inv, UseInv, TypeOK', Running, Return,
         \A o \in Modules : o \in Busies(Top) \/ mod'[o] = mod[o],
         Shrinks(queue, queue'),
         \A o \in Modules : o \in Busies(Top) => Sane(mod'[o]),
         \A o \in ToSet(queue') : o \notin Busies(Top)
  PROVE  UseInv'
<1>1. /\ Len(stack) \in Nat \ {0} /\ Top = stack[1]
      /\ Len(stack') = Len(stack) - 1
      /\ \A i \in 1..(Len(stack) - 1) : stack'[i] = stack[i + 1]
  BY Stacked DEF Inv, TypeOK, Running, Top, Return
<1>3. /\ \A i \in 1..Len(stack) : stack[i] \in Frame
      /\ queue' \in Seq(Modules) /\ queue \in Seq(Modules)
      /\ mod \in [Modules -> Module] /\ mod' \in [Modules -> Module]
      /\ ToSet(queue') \subseteq Modules
  BY Typed DEF Inv, TypeOK, ToSet
<1>4. SaneInv'
  BY DEF UseInv, SaneInv
<1>5. FramesInv'
  <2>1. ASSUME NEW i \in 1..Len(stack') PROVE FrameOK(stack'[i], mod', queue')
    <3>1. /\ stack'[i] = stack[i + 1] /\ i + 1 \in 1..Len(stack) /\ 1 \in 1..Len(stack) /\ 1 < i + 1
      BY <1>1
    <3>2. /\ Busies(stack[i + 1]) \subseteq Modules /\ Busies(Top) \cap Busies(stack[i + 1]) = {}
      BY <1>1, <1>3, <3>1, BusiesModules DEF UseInv, ApartInv
    <3>3. \A o \in Busies(stack[i + 1]) : Later(mod[o], mod'[o])
      BY <3>2, SameLater
    <3>4. Follows(queue, queue', {})
      BY <1>3, ShrinksFollows
    <3> QED
      BY <1>3, <3>1, <3>3, <3>4, FrameStays DEF UseInv, SaneInv, FramesInv
  <2> QED
    BY <2>1 DEF FramesInv
<1>6. ApartInv'
  <2> SUFFICES ASSUME NEW i \in 1..Len(stack'), NEW j \in 1..Len(stack'), i < j
               PROVE  /\ Busies(stack'[i]) \cap Busies(stack'[j]) = {}
                      /\ stack'[i].op = "quitAll" => stack'[j].op \notin {"quit", "quitAll"}
    BY DEF ApartInv
  <2>1. /\ stack'[i] = stack[i + 1] /\ stack'[j] = stack[j + 1] /\ i + 1 < j + 1
        /\ i + 1 \in 1..Len(stack) /\ j + 1 \in 1..Len(stack)
    BY <1>1
  <2> QED
    BY <2>1 DEF UseInv, ApartInv
<1>7. QueueInv'
  <2> SUFFICES ASSUME NEW o \in ToSet(queue')
               PROVE  /\ Started(mod'[o])
                      /\ Untouched(mod'[o]) \/ \E i \in 1..Len(stack') : Quits(stack'[i], o)
    BY DEF QueueInv
  <2>1. o \in Modules /\ mod'[o] = mod[o] /\ o \in ToSet(queue)
    BY <1>3 DEF Shrinks
  <2>2. ASSUME NEW i \in 1..Len(stack), Quits(stack[i], o)
        PROVE  \E j \in 1..Len(stack') : Quits(stack'[j], o)
    <3>1. o \in Busies(stack[i])
      BY <2>2 DEF Quits, Busies
    <3>2. i # 1
      BY <1>1, <3>1
    <3>3. i - 1 \in 1..Len(stack') /\ stack'[i - 1] = stack[i]
      <4>1. i - 1 \in 1..(Len(stack) - 1) /\ (i - 1) + 1 = i
        BY <1>1, <3>2
      <4> QED
        BY <1>1, <4>1
    <3> QED
      BY <2>2, <3>3
  <2> QED
    BY <2>1, <2>2 DEF UseInv, QueueInv
<1> QED
  BY <1>4, <1>5, <1>6, <1>7 DEF UseInv
LEMMA TopUse ==
  ASSUME Inv, UseInv, Running
  PROVE  /\ FrameOK(Top, mod, queue) /\ Busies(Top) \subseteq Modules
         /\ \A i \in 2..Len(stack) : Busies(Top) \cap Busies(stack[i]) = {}
         /\ \A o \in Busies(Top) : mod[o] \in Module /\ Sane(mod[o])
<1>1. Len(stack) \in Nat \ {0} /\ Top = stack[1] /\ Top \in Frame
  BY TopFrame DEF Inv
<1>2. \A i \in 2..Len(stack) : 1 \in 1..Len(stack) /\ i \in 1..Len(stack) /\ 1 < i
  BY <1>1
<1>3. 1 \in 1..Len(stack)
  BY <1>1
<1>4. Busies(Top) \subseteq Modules
  BY <1>1, BusiesModules
<1>5. \A i \in 2..Len(stack) : Busies(Top) \cap Busies(stack[i]) = {}
  BY <1>1, <1>2 DEF UseInv, ApartInv
<1>6. \A o \in Busies(Top) : mod[o] \in Module /\ Sane(mod[o])
  BY <1>4 DEF UseInv, SaneInv, Inv, TypeOK
<1> QED
  BY <1>1, <1>3, <1>4, <1>5, <1>6 DEF UseInv, FramesInv

\* A step of the innermost frame that touches no object and leaves the queue as it is.
LEMMA QuietUses ==
  ASSUME Inv, UseInv, TypeOK', Running, NEW g \in Frame, Becomes(g), UNCHANGED <<mod, queue>>,
         g.op = Top.op, g.mods = Top.mods, g.call \in {Top.call, NoModule},
         FrameOK(g, mod, queue)
  PROVE  UseInv'
<1>1. Busies(g) \subseteq Busies(Top)
  BY DEF Busies
<1>2. FrameOK(g, mod', queue')
  OBVIOUS
<1>3. Follows(queue, queue', Busies(Top))
  BY Trivially DEF Inv, TypeOK
<1>4. \A o \in Modules : o \in Busies(Top) => Sane(mod'[o])
  BY DEF UseInv, SaneInv
<1>5. ASSUME NEW o \in ToSet(queue'), o \in Busies(Top)
      PROVE  Started(mod'[o]) /\ (Untouched(mod'[o]) \/ Quits(g, o))
  <2>1. Started(mod[o]) /\ (Untouched(mod[o]) \/ \E i \in 1..Len(stack) : Quits(stack[i], o))
    BY <1>5 DEF UseInv, QueueInv
  <2>2. ASSUME NEW i \in 1..Len(stack), Quits(stack[i], o) PROVE Quits(g, o)
    <3>1. o \in Busies(stack[i])
      BY <2>2 DEF Quits, Busies
    <3>2. i \notin 2..Len(stack)
      BY <1>5, <3>1, TopUse
    <3>3. stack[i] = Top
      BY <3>2, TopFrame DEF Inv
    <3> QED
      BY <2>2, <3>3 DEF Quits
  <2> QED
    BY <2>1, <2>2
<1>6. \A i \in 2..Len(stack) : Busies(Top) \cap Busies(stack[i]) = {}
  BY TopUse
<1> QED
  BY <1>1, <1>2, <1>3, <1>4, <1>5, <1>6, TopUses

LEMMA StartWaitsUses == ASSUME Inv, Inv', UseInv, StartWaits PROVE UseInv'
<1> DEFINE g == [Top EXCEPT !.at = "wait"]
<1>1. /\ Running /\ Becomes(g) /\ UNCHANGED <<mod, queue>> /\ Top.op = "start"
  BY DEF StartWaits, Starting
<1>2. /\ g \in Frame /\ g.op = Top.op /\ g.mods = Top.mods /\ g.call = Top.call
  BY <1>1, TopFrame DEF Inv, Frame
<1> HIDE DEF g
<1>3. FrameOK(Top, mod, queue)
  BY <1>1, TopUse
<1>4. FrameOK(g, mod, queue)
  BY <1>1, <1>2, <1>3 DEF FrameOK, StartOK, Busies
<1> QED
  BY <1>1, <1>2, <1>4, QuietUses DEF Inv

LEMMA WaitOneUses == ASSUME Inv, Inv', UseInv, WaitOne PROVE UseInv'
<1>1. PICK o \in Top.waits : Signaled(o) /\ Becomes([Top EXCEPT !.waits = @ \ {o}])
  BY DEF WaitOne
<1> DEFINE g == [Top EXCEPT !.waits = @ \ {o}]
<1>2. /\ Running /\ Becomes(g) /\ UNCHANGED <<mod, queue>> /\ Top.at = "wait"
  BY <1>1 DEF WaitOne, Waiting
<1>3. /\ g \in Frame /\ g.op = Top.op /\ g.mods = Top.mods /\ g.call = Top.call /\ g.at = Top.at
      /\ g.waits = Top.waits \ {o} /\ Top \in Frame
  BY <1>2, TopFrame DEF Inv, Frame
<1> HIDE DEF g
<1>4. FrameOK(Top, mod, queue)
  BY <1>2, TopUse
<1>5. FrameOK(g, mod, queue)
  <2>1. CASE Top.op = "start"
    BY <1>3, <1>4, <2>1 DEF FrameOK, StartOK, Busies
  <2>2. CASE Top.op \in {"quit", "quitAll"}
    <3>1. mod[o].thread = "ended"
      BY <1>1, <2>2 DEF Signaled
    <3>2. \A p : Leaving(Top, mod, p) => Leaving(g, mod, p)
      BY <1>3, <3>1 DEF Leaving
    <3> QED
      BY <1>3, <1>4, <2>2, <3>2 DEF FrameOK, QuitOK, QuitAllOK
  <2>3. CASE Top.op \in {"load", "loadAll", "recycle", "stop"}
    BY <1>2, <1>4, <2>3 DEF FrameOK, Bare
  <2> QED
    BY <1>3, <2>1, <2>2, <2>3 DEF Frame
<1> QED
  BY <1>2, <1>3, <1>5, QuietUses DEF Inv

LEMMA QuitReturnsUses == ASSUME Inv, Inv', UseInv, QuitReturns PROVE UseInv'
<1> DEFINE g == [Top EXCEPT !.call = NoModule]
<1>1. /\ Running /\ Becomes(g) /\ UNCHANGED <<mod, queue>> /\ Top.op \in {"quit", "quitAll"}
  BY DEF QuitReturns
<1>2. /\ g \in Frame /\ g.op = Top.op /\ g.mods = Top.mods /\ g.call = NoModule
      /\ g.at = Top.at /\ g.waits = Top.waits
  BY <1>1, TopFrame DEF Inv, Frame
<1> HIDE DEF g
<1>3. FrameOK(Top, mod, queue)
  BY <1>1, TopUse
<1>4. FrameOK(g, mod, queue)
  BY <1>1, <1>2, <1>3 DEF FrameOK, QuitOK, QuitAllOK, Leaving
<1> QED
  BY <1>1, <1>2, <1>4, QuietUses DEF Inv

\* The threads go on beneath the frames.
LEMMA ThreadUses ==
  ASSUME Inv, Inv', UseInv, NEW o \in Modules, ThreadInit(o) \/ ThreadLoop(o)
  PROVE  UseInv'
<1>1. queue' = queue /\ stack' = stack
  BY DEF ThreadInit, ThreadLoop
<1>2. /\ mod \in [Modules -> Module] /\ mod' \in [Modules -> Module] /\ mod[o] \in Module
      /\ Sane(mod[o]) /\ queue \in Seq(Modules)
  BY DEF Inv, TypeOK, UseInv, SaneInv
<1>3. /\ \A p \in Modules : p # o => mod'[p] = mod[p]
      /\ Later(mod[o], mod'[o]) /\ Sane(mod'[o])
  <2>1. CASE ThreadInit(o)
    <3>1. PICK q \in {mod[o].hasQueue, TRUE} :
            mod' = [mod EXCEPT ![o].thread = "loop", ![o].hasQueue = q, ![o].inits = @ + 1]
      BY <2>1 DEF ThreadInit
    <3> DEFINE r == [mod[o] EXCEPT !.thread = "loop", !.hasQueue = q, !.inits = @ + 1]
    <3>2. mod' = [mod EXCEPT ![o] = r] /\ mod[o].thread = "init"
      BY <1>2, <2>1, <3>1 DEF ThreadInit
    <3>3. /\ r.life = mod[o].life /\ r.thr = mod[o].thr /\ r.thread = "loop"
          /\ r.inits = mod[o].inits + 1 /\ r.quits = mod[o].quits
          /\ r.posted = mod[o].posted /\ r.taken = mod[o].taken
      BY <1>2 DEF Module
    <3> HIDE DEF r
    <3>4. /\ Later(mod[o], r)
      BY <3>2, <3>3 DEF Later, Untouched
    <3>5. Sane(r)
      BY <1>2, <3>2, <3>3 DEF Sane, Module
    <3> QED
      BY <1>2, <3>2, <3>4, <3>5
  <2>2. CASE ThreadLoop(o)
    <3>0. mod[o].thread \in {"loop", "quitting"}
      BY <2>2 DEF ThreadLoop
    <3>1. CASE /\ mod[o].posted > 0
               /\ mod' = [mod EXCEPT ![o].posted = @ - 1, ![o].quits = @ + 1,
                                     ![o].thread = Destroyed]
      <4> DEFINE r == [mod[o] EXCEPT !.posted = @ - 1, !.quits = @ + 1, !.thread = Destroyed]
      <4>1. mod' = [mod EXCEPT ![o] = r]
        BY <1>2, <3>1
      <4>2. /\ r.life = mod[o].life /\ r.thr = mod[o].thr /\ r.thread = "quitting"
            /\ r.inits = mod[o].inits /\ r.quits = mod[o].quits + 1
            /\ r.posted = mod[o].posted - 1 /\ r.taken = mod[o].taken
        BY <1>2 DEF Module, Destroyed
      <4> HIDE DEF r
      <4>3. Later(mod[o], r)
        BY <1>2, <3>0, <3>1, <4>2 DEF Later, Untouched, Module
      <4>4. mod[o].posted = 1 /\ mod[o].quits = 0 /\ mod[o].inits = 1
        BY <1>2, <3>0, <3>1 DEF Sane, Module
      <4>5. Sane(r)
        BY <1>2, <3>0, <4>2, <4>4 DEF Sane, Module
      <4> QED
        BY <1>2, <4>1, <4>3, <4>5
    <3>2. CASE /\ mod[o].posted = 0 /\ mod[o].thread = "quitting"
               /\ mod' = [mod EXCEPT ![o].thread = "ended"]
      <4> DEFINE r == [mod[o] EXCEPT !.thread = "ended"]
      <4>1. mod' = [mod EXCEPT ![o] = r]
        BY <1>2, <3>2
      <4>2. /\ r.life = mod[o].life /\ r.thr = mod[o].thr /\ r.thread = "ended"
            /\ r.inits = mod[o].inits /\ r.quits = mod[o].quits
            /\ r.posted = mod[o].posted /\ r.taken = mod[o].taken
        BY <1>2 DEF Module
      <4> HIDE DEF r
      <4>3. Later(mod[o], r) /\ Sane(r)
        BY <1>2, <3>2, <4>2 DEF Later, Untouched, Sane, Module
      <4> QED
        BY <1>2, <4>1, <4>3
    <3>3. CASE mod' = [mod EXCEPT ![o].hasQueue = TRUE]
      <4> DEFINE r == [mod[o] EXCEPT !.hasQueue = TRUE]
      <4>1. mod' = [mod EXCEPT ![o] = r]
        BY <1>2, <3>3
      <4>2. /\ r.life = mod[o].life /\ r.thr = mod[o].thr /\ r.thread = mod[o].thread
            /\ r.inits = mod[o].inits /\ r.quits = mod[o].quits
            /\ r.posted = mod[o].posted /\ r.taken = mod[o].taken
        BY <1>2 DEF Module
      <4> HIDE DEF r
      <4>3. Later(mod[o], r) /\ Sane(r)
        BY <1>2, <3>0, <4>2 DEF Later, Untouched, Sane, Module
      <4> QED
        BY <1>2, <4>1, <4>3
    <3> QED
      BY <2>2, <3>1, <3>2, <3>3 DEF ThreadLoop
  <2> QED
    BY <2>1, <2>2
<1>4. \A p \in Modules : Later(mod[p], mod'[p]) /\ mod[p] \in Module /\ mod'[p] \in Module
  BY <1>2, <1>3, SameLater
<1>5. SaneInv'
  BY <1>3 DEF UseInv, SaneInv
<1>6. FramesInv'
  <2>1. ASSUME NEW i \in 1..Len(stack) PROVE FrameOK(stack[i], mod', queue)
    <3>1. stack[i] \in Frame /\ Busies(stack[i]) \subseteq Modules
      BY Typed, BusiesModules DEF Inv
    <3>2. Follows(queue, queue, {})
      BY <1>2, Trivially
    <3> QED
      BY <1>2, <1>4, <3>1, <3>2, FrameStays DEF UseInv, SaneInv, FramesInv
  <2> QED
    BY <1>1, <2>1 DEF FramesInv
<1>7. ApartInv'
  BY <1>1 DEF UseInv, ApartInv
<1>8. QueueInv'
  <2> SUFFICES ASSUME NEW p \in ToSet(queue)
               PROVE  /\ Started(mod'[p])
                      /\ Untouched(mod'[p]) \/ \E i \in 1..Len(stack) : Quits(stack[i], p)
    BY <1>1 DEF QueueInv
  <2>1. p \in Modules
    BY Typed DEF Inv
  <2> QED
    BY <1>4, <2>1, LaterStarted DEF UseInv, QueueInv, Later
<1> QED
  BY <1>5, <1>6, <1>7, <1>8 DEF UseInv

LEMMA ErasedGone == ASSUME TypeOK, PresentInv, NEW o PROVE o \notin ToSet(Erased(o))
<1>1. queue \in Seq(Modules) /\ DOMAIN queue = 1..Len(queue) /\ Len(queue) \in Nat
  BY Typed DEF TypeOK
<1> DEFINE at == {i \in DOMAIN queue : queue[i] = o}
           p  == CHOOSE i \in at : TRUE
           r  == RemoveAt(queue, p)
<1>2. CASE at = {}
  BY <1>1, <1>2 DEF Erased, ToSet
<1>3. CASE at # {}
  <2>1. p \in 1..Len(queue) /\ queue[p] = o /\ Erased(o) = r
    BY <1>1, <1>3 DEF Erased
  <2> HIDE DEF p, at
  <2>2. /\ DOMAIN r = 1..(Len(queue) - 1)
        /\ \A i \in 1..(Len(queue) - 1) : r[i] = IF i < p THEN queue[i] ELSE queue[i + 1]
    BY <1>1, <2>1, RemoveOne, LenProperties
  <2> HIDE DEF r
  <2>3. ASSUME NEW i \in 1..(Len(queue) - 1) PROVE r[i] # o
    <3>1. \A k, n \in 1..Len(queue) : queue[k] = queue[n] => k = n
      BY <1>1 DEF PresentInv
    <3>2. CASE i < p
      BY <1>1, <2>1, <2>2, <3>1, <3>2
    <3>3. CASE ~(i < p)
      <4>1. i + 1 \in 1..Len(queue) /\ i + 1 # p /\ r[i] = queue[i + 1]
        BY <1>1, <2>1, <2>2, <3>3
      <4> QED
        BY <2>1, <3>1, <4>1
    <3> QED
      BY <3>2, <3>3
  <2> QED
    BY <2>1, <2>2, <2>3 DEF ToSet
<1> QED
  BY <1>2, <1>3
-----------------------------------------------------------------------------
(* What is deleted.                                                         *)

LEMMA DeletedSane ==
  ASSUME Inv, UseInv, NEW ms, mod' = Delete(ms), NEW o \in Modules,
         o \in ms => mod[o].thread \in {"none", "ended"}
  PROVE  Sane(mod'[o]) /\ (o \notin ms => mod'[o] = mod[o])
<1>1. mod[o] \in Module /\ Sane(mod[o])
  BY DEF Inv, TypeOK, UseInv, SaneInv
<1>2. mod'[o] = IF o \in ms THEN [mod[o] EXCEPT !.life = "deleted"] ELSE mod[o]
  BY DEF Delete
<1>3. CASE o \in ms
  <2> DEFINE r == [mod[o] EXCEPT !.life = "deleted"]
  <2>1. /\ r.life = "deleted" /\ r.thr = mod[o].thr /\ r.thread = mod[o].thread
        /\ r.inits = mod[o].inits /\ r.quits = mod[o].quits /\ r.posted = mod[o].posted
    BY <1>1 DEF Module
  <2>2. mod'[o] = r
    BY <1>2, <1>3
  <2> HIDE DEF r
  <2> QED
    BY <1>1, <1>3, <2>1, <2>2 DEF Sane
<1> QED
  BY <1>1, <1>2, <1>3

\* What waits for nothing any more has ended.
LEMMA LeftEnded ==
  ASSUME Inv, UseInv, Waiting, Top.waits = {}, Top.op # "start", NEW o \in ToSet(Top.mods)
  PROVE  mod[o].thread \in {"none", "ended"} /\ (Top.op = "quitAll" => o \notin ToSet(queue))
<1>1. Running /\ Top.at = "wait" /\ Top.call = NoModule /\ FrameOK(Top, mod, queue) /\ Top \in Frame
  BY TopUse, TopFrame DEF Waiting, Inv
<1>2. /\ o \in Busies(Top) /\ mod[o] \in Module /\ Sane(mod[o])
      /\ DOMAIN Top.mods = 1..Len(Top.mods)
  BY <1>1, TopUse, BusiesModules
<1>3. Leaving(Top, mod, o) => mod[o].thread \in {"none", "ended"}
  BY <1>2 DEF Leaving, Sane
<1>4. CASE Top.op = "quit"
  <2>1. QuitOK(Top, mod)
    BY <1>1, <1>4 DEF FrameOK
  <2>2. o = Top.mods[1]
    BY <1>2, <2>1 DEF ToSet, QuitOK
  <2> QED
    BY <1>1, <1>3, <1>4, <2>1, <2>2 DEF QuitOK
<1>5. CASE Top.op = "quitAll"
  BY <1>1, <1>3, <1>5 DEF FrameOK, QuitAllOK
<1>6. CASE Top.op \in {"load", "loadAll", "recycle", "stop"}
  BY <1>1, <1>6 DEF FrameOK, Bare
<1> QED
  BY <1>1, <1>4, <1>5, <1>6 DEF Frame

LEMMA DoneUses == ASSUME Inv, Inv', UseInv, Done PROVE UseInv'
<1>1. /\ Waiting /\ Running /\ Return /\ Top.waits = {} /\ Top.call = NoModule /\ TypeOK'
  BY DEF Done, Waiting, Inv
<1>2. /\ Busies(Top) = ToSet(Top.mods) /\ Busies(Top) \subseteq Modules /\ Top \in Frame
      /\ FrameOK(Top, mod, queue) /\ DOMAIN Top.mods = 1..Len(Top.mods)
      /\ Top.mods \in Seq(Modules)
  <2>1. Top \in Frame
    BY <1>1, TopFrame DEF Inv
  <2> QED
    BY <1>1, <2>1, TopUse, BusiesModules DEF Busies
<1>3. CASE Top.op = "start"
  <2>1. mod' = mod /\ queue' = queue
    BY <1>3 DEF Done
  <2>2. Shrinks(queue, queue')
    <3>1. Len(queue) \in Nat
      BY Typed DEF Inv
    <3> QED
      BY <2>1, <3>1 DEF Shrinks
  <2>3. Busies(Top) \cap ToSet(queue) = {}
    BY <1>2, <1>3 DEF FrameOK, StartOK
  <2>4. \A o \in Modules : o \in Busies(Top) => Sane(mod'[o])
    BY <2>1 DEF UseInv, SaneInv
  <2> QED
    BY <1>1, <2>1, <2>2, <2>3, <2>4, PopUses
<1>4. CASE Top.op # "start"
  <2> DEFINE ms == ToSet(Top.mods)
  <2>1. mod' = Delete(ms)
    BY <1>4 DEF Done
  <2>2. \A o \in ms : /\ mod[o].thread \in {"none", "ended"}
                      /\ Top.op = "quitAll" => o \notin ToSet(queue)
    BY <1>1, <1>4, LeftEnded
  <2>3. Busies(Top) = ms
    BY <1>2
  <2>4. Shrinks(queue, queue') /\ \A o \in ToSet(queue') : o \notin ms
    <3>1. CASE Top.op = "quit"
      <4>1. QuitOK(Top, mod)
        BY <1>2, <3>1 DEF FrameOK
      <4>2. Len(Top.mods) = 1 /\ Head(Top.mods) = Top.mods[1] /\ Top.mods # <<>>
        BY <1>2, <4>1, Stacked DEF QuitOK
      <4>3. ms = {Head(Top.mods)}
        BY <1>2, <4>2 DEF ToSet
      <4>4. queue' = Erased(Head(Top.mods))
        BY <3>1 DEF Done
      <4>5. Shrinks(queue, queue')
        BY <4>4, ErasedShrinks DEF Inv
      <4>6. Head(Top.mods) \notin ToSet(Erased(Head(Top.mods)))
        BY ErasedGone DEF Inv
      <4> QED
        BY <4>3, <4>4, <4>5, <4>6
    <3>2. CASE Top.op # "quit"
      <4>1. queue' = queue /\ Len(queue) \in Nat
        BY <3>2, Typed DEF Done, Inv
      <4>2. Shrinks(queue, queue')
        BY <4>1 DEF Shrinks
      <4>3. Top.op # "quitAll" => ms = {}
        <5>1. Top.op # "quitAll" => Top.at = "begin"
          BY <1>2, <1>4, <3>2 DEF FrameOK, Bare, Frame
        <5> QED
          BY <1>1, <5>1 DEF Waiting
      <4> QED
        BY <2>2, <4>1, <4>2, <4>3
    <3> QED
      BY <3>1, <3>2
  <2> HIDE DEF ms
  <2>5. \A o \in Modules : Sane(mod'[o]) /\ (o \notin ms => mod'[o] = mod[o])
    BY <2>1, <2>2, DeletedSane
  <2> QED
    BY <1>1, <2>3, <2>4, <2>5, PopUses
<1> QED
  BY <1>3, <1>4

LEMMA RecycledUses == ASSUME Inv, Inv', UseInv, Recycled PROVE UseInv'
<1>1. Running /\ Return /\ Top.op = "recycle" /\ mod' = mod /\ queue' = queue /\ TypeOK'
  BY DEF Recycled, Inv
<1>2. Busies(Top) = {}
  <2>1. Bare(Top)
    BY <1>1, TopUse DEF FrameOK
  <2> QED
    BY <2>1 DEF Bare, Busies, ToSet
<1>3. Shrinks(queue, queue')
  <2>1. Len(queue) \in Nat
    BY Typed DEF Inv
  <2> QED
    BY <1>1, <2>1 DEF Shrinks
<1> QED
  BY <1>1, <1>2, <1>3, PopUses
-----------------------------------------------------------------------------
(* What is started.                                                         *)

LEMMA NextStart ==
  ASSUME NEW s \in Seq(Modules), s # <<>>,
         \A n, k \in 1..Len(s) : s[n] = s[k] => n = k
  PROVE  /\ Head(s) \in Modules /\ Tail(s) \in Seq(Modules)
         /\ ToSet(s) = ToSet(Tail(s)) \cup {Head(s)} /\ Head(s) \notin ToSet(Tail(s))
         /\ \A n, k \in 1..Len(Tail(s)) : Tail(s)[n] = Tail(s)[k] => n = k
<1>1. /\ Len(s) \in Nat \ {0} /\ Head(s) = s[1] /\ Head(s) \in Modules
      /\ Tail(s) \in Seq(Modules) /\ Len(Tail(s)) = Len(s) - 1
      /\ \A i \in 1..(Len(s) - 1) : Tail(s)[i] = s[i + 1]
      /\ DOMAIN s = 1..Len(s)
  BY Stacked, LenProperties
<1> DEFINE t == Tail(s)
<1>2. DOMAIN t = 1..(Len(s) - 1)
  BY <1>1, LenProperties
<1> HIDE DEF t
<1>3. \A i \in 1..(Len(s) - 1) : t[i] = s[i + 1]
  BY <1>1 DEF t
<1>4. ASSUME NEW i \in 1..Len(s) PROVE s[i] \in ToSet(t) \cup {s[1]}
  <2>1. CASE i = 1
    BY <2>1
  <2>2. CASE i # 1
    <3>1. i - 1 \in 1..(Len(s) - 1) /\ (i - 1) + 1 = i
      BY <1>1, <2>2
    <3>2. t[i - 1] = s[i]
      BY <1>3, <3>1
    <3> QED
      BY <1>2, <3>1, <3>2 DEF ToSet
  <2> QED
    BY <2>1, <2>2
<1>5. \A i \in 1..(Len(s) - 1) : i + 1 \in 1..Len(s) /\ i + 1 # 1
  BY <1>1
<1>6. ToSet(t) \subseteq ToSet(s) /\ s[1] \in ToSet(s)
  <2>1. 1 \in 1..Len(s)
    BY <1>1
  <2> QED
    BY <1>1, <1>2, <1>3, <1>5, <2>1 DEF ToSet
<1>7. ToSet(s) = ToSet(t) \cup {s[1]}
  BY <1>1, <1>4, <1>6 DEF ToSet
<1>8. s[1] \notin ToSet(t)
  <2>1. \A i \in 1..(Len(s) - 1) : t[i] # s[1]
    <3>1. 1 \in 1..Len(s)
      BY <1>1
    <3> QED
      BY <1>3, <1>5, <3>1
  <2> QED
    BY <1>2, <2>1 DEF ToSet
<1>9. \A n, k \in 1..Len(t) : t[n] = t[k] => n = k
  <2>1. Len(t) = Len(s) - 1
    BY <1>1 DEF t
  <2> QED
    BY <1>1, <1>3, <1>5, <2>1
<1> QED
  BY <1>1, <1>7, <1>8, <1>9 DEF t

LEMMA DiscardUses == ASSUME Inv, Inv', UseInv, Discard PROVE UseInv'
<1> DEFINE g == [Top EXCEPT !.mods = Tail(@)]
           ms == {Head(Top.mods)}
<1>1. /\ Running /\ Becomes(g) /\ queue' = queue /\ mod' = Delete(ms) /\ TypeOK'
      /\ Top.mods # <<>> /\ Top.op = "start" /\ Top.call = NoModule
  BY DEF Discard, Starting, Inv
<1>2. Top \in Frame /\ Top.mods \in Seq(Modules) /\ StartOK(Top, mod, queue)
  BY <1>1, TopFrame, TopUse DEF Inv, FrameOK
<1>3. PICK o \in Modules : o = Head(Top.mods)
  BY <1>1, <1>2, Stacked
<1>4. /\ Tail(Top.mods) \in Seq(Modules)
      /\ ToSet(Top.mods) = ToSet(Tail(Top.mods)) \cup {o} /\ o \notin ToSet(Tail(Top.mods))
      /\ \A n, k \in 1..Len(Tail(Top.mods)) : Tail(Top.mods)[n] = Tail(Top.mods)[k] => n = k
  BY <1>1, <1>2, <1>3, NextStart DEF StartOK
<1>5. /\ g \in Frame /\ g.op = "start" /\ g.mods = Tail(Top.mods) /\ g.call = NoModule
  BY <1>1, <1>2, <1>4 DEF Frame
<1> HIDE DEF g
<1>6. /\ Busies(g) = ToSet(g.mods) /\ Busies(Top) = ToSet(Top.mods)
      /\ Busies(Top) \subseteq Modules
  BY <1>1, <1>5, TopUse DEF Busies
<1>7. \A p \in Modules : Sane(mod'[p]) /\ (p # o => mod'[p] = mod[p])
  <2>1. mod[o].thread = "none"
    BY <1>2, <1>4 DEF StartOK, NotStarted
  <2>2. mod' = Delete(ms) /\ ms = {o}
    BY <1>1, <1>3
  <2> HIDE DEF ms
  <2>3. ASSUME NEW p \in Modules PROVE Sane(mod'[p]) /\ (p # o => mod'[p] = mod[p])
    <3>1. p \in ms => mod[p].thread \in {"none", "ended"}
      BY <2>1, <2>2
    <3> QED
      BY <2>2, <3>1, DeletedSane
  <2> QED
    BY <2>3
<1>8. FrameOK(g, mod', queue')
  <2>1. \A p \in ToSet(g.mods) : mod'[p] = mod[p] /\ p \in ToSet(Top.mods) /\ p # NoModule
    BY <1>4, <1>5, <1>6, <1>7 DEF Modules, NoModule
  <2>3. Busies(g) \cap ToSet(queue') = {}
    BY <1>1, <1>2, <1>4, <1>5, <1>6 DEF StartOK
  <2>2. StartOK(g, mod', queue')
    BY <1>2, <1>4, <1>5, <2>1, <2>3 DEF StartOK
  <2> QED
    BY <1>5, <2>2 DEF FrameOK
<1>9. Follows(queue, queue', Busies(Top))
  BY <1>1, Trivially DEF Inv, TypeOK
<1>10. \A p \in ToSet(queue') : p \notin Busies(Top)
  BY <1>1, <1>2 DEF StartOK
<1>11. Busies(g) \subseteq Busies(Top) /\ o \in Busies(Top)
  BY <1>4, <1>5, <1>6
<1>12. \A i \in 2..Len(stack) : Busies(Top) \cap Busies(stack[i]) = {}
  BY <1>1, TopUse
<1>13. g.op # "quitAll"
  BY <1>5
<1> QED
  BY <1>1, <1>5, <1>7, <1>8, <1>9, <1>10, <1>11, <1>12, <1>13, TopUses

LEMMA InitReturnsUses == ASSUME Inv, Inv', UseInv, InitReturns PROVE UseInv'
<1> DEFINE g == [Top EXCEPT !.call = NoModule]
<1>0. PICK c \in Modules : c = Top.call
  BY TopFrame DEF InitReturns, Inv
<1>1. Running /\ Becomes(g) /\ Top.op = "start" /\ c # NoModule /\ TypeOK'
  BY <1>0 DEF InitReturns, Inv
<1>2. Top \in Frame /\ StartOK(Top, mod, queue)
  BY <1>1, TopFrame, TopUse DEF Inv, FrameOK
<1>3. g \in Frame /\ g.op = "start" /\ g.call = NoModule /\ g.mods = Top.mods
  BY <1>1, <1>2 DEF Frame
<1> HIDE DEF g
<1>4. /\ Busies(g) = ToSet(Top.mods) /\ Busies(Top) = ToSet(Top.mods) \cup {c}
      /\ c \notin ToSet(Top.mods) /\ Busies(Top) \subseteq Modules /\ NoModule \notin Modules
      /\ \A i \in 2..Len(stack) : Busies(Top) \cap Busies(stack[i]) = {}
  BY <1>0, <1>1, <1>2, <1>3, TopUse DEF Busies, StartOK, Modules, NoModule
<1>5. /\ mod[c].life = "made" /\ mod[c].thread = "none" /\ Untouched(mod[c])
      /\ Sane(mod[c])
  <2>1. InCall(mod[c]) /\ Sane(mod[c])
    BY <1>0, <1>1, <1>2 DEF StartOK, UseInv, SaneInv
  <2> QED
    BY <2>1 DEF InCall, NotStarted, Sane
<1>6. CASE mod[c].inits > 0 /\ queue' = Append(queue, c) /\ mod' = mod
  <2>1. Follows(queue, queue', Busies(Top))
    BY <1>4, <1>6, AppendFollows DEF Inv
  <2>2. ToSet(queue') = ToSet(queue) \cup {c}
    BY <1>6, Appended DEF Inv
  <2>3. FrameOK(g, mod', queue')
    <3>1. \A p \in ToSet(g.mods) : p # NoModule
      BY <1>3, <1>4
    <3>2. Busies(g) \cap ToSet(queue') = {}
      BY <1>2, <1>4, <2>2 DEF StartOK
    <3>3. StartOK(g, mod', queue')
      BY <1>2, <1>3, <1>6, <3>1, <3>2 DEF StartOK
    <3> QED
      BY <1>3, <3>3 DEF FrameOK
  <2>4. \A p \in ToSet(queue') : p \in Busies(Top) => p = c
    BY <1>2, <2>2 DEF StartOK
  <2>5. Started(mod'[c]) /\ Untouched(mod'[c])
    BY <1>5, <1>6 DEF Started
  <2>6. \A p \in Modules : Sane(mod'[p])
    BY <1>6 DEF UseInv, SaneInv
  <2> QED
    BY <1>1, <1>3, <1>4, <1>6, <2>1, <2>3, <2>4, <2>5, <2>6, TopUses
<1>7. CASE mod' = Delete({c}) /\ queue' = queue
  <2> DEFINE ms == {c}
  <2>1. \A p \in Modules : Sane(mod'[p]) /\ (p # c => mod'[p] = mod[p])
    <3>1. mod[c].thread = "none" /\ mod' = Delete(ms) /\ ms = {c}
      BY <1>5, <1>7
    <3> HIDE DEF ms
    <3>2. ASSUME NEW p \in Modules PROVE Sane(mod'[p]) /\ (p # c => mod'[p] = mod[p])
      BY <3>1, DeletedSane
    <3> QED
      BY <3>2
  <2>2. FrameOK(g, mod', queue')
    <3>1. \A p \in ToSet(g.mods) : p # NoModule /\ mod'[p] = mod[p]
      BY <1>3, <1>4, <2>1
    <3>2. Busies(g) \cap ToSet(queue') = {}
      BY <1>2, <1>4, <1>7 DEF StartOK
    <3>3. StartOK(g, mod', queue')
      BY <1>2, <1>3, <3>1, <3>2 DEF StartOK
    <3> QED
      BY <1>3, <3>3 DEF FrameOK
  <2>3. Follows(queue, queue', Busies(Top))
    BY <1>7, Trivially DEF Inv, TypeOK
  <2>4. \A p \in ToSet(queue') : p \notin Busies(Top)
    BY <1>2, <1>7 DEF StartOK
  <2> QED
    BY <1>1, <1>3, <1>4, <2>1, <2>2, <2>3, <2>4, TopUses
<1> QED
  BY <1>0, <1>6, <1>7 DEF InitReturns

LEMMA LoadFailsUses == ASSUME Inv, Inv', UseInv, LoadFails PROVE UseInv'
<1> DEFINE g == [Top EXCEPT !.mods = Tail(@), !.call = Head(Top.mods)]
<1>1. /\ Running /\ Becomes(g) /\ queue' = queue /\ mod' = mod /\ TypeOK'
      /\ Top.mods # <<>> /\ Top.op = "start" /\ Top.call = NoModule
  BY DEF LoadFails, Starting, Inv
<1>2. Top \in Frame /\ Top.mods \in Seq(Modules) /\ StartOK(Top, mod, queue)
  BY <1>1, TopFrame, TopUse DEF Inv, FrameOK
<1>3. PICK o \in Modules : o = Head(Top.mods)
  BY <1>1, <1>2, Stacked
<1>4. /\ Tail(Top.mods) \in Seq(Modules)
      /\ ToSet(Top.mods) = ToSet(Tail(Top.mods)) \cup {o} /\ o \notin ToSet(Tail(Top.mods))
      /\ \A n, k \in 1..Len(Tail(Top.mods)) : Tail(Top.mods)[n] = Tail(Top.mods)[k] => n = k
  BY <1>1, <1>2, <1>3, NextStart DEF StartOK
<1>5. /\ g \in Frame /\ g.op = "start" /\ g.mods = Tail(Top.mods) /\ g.call = o
  BY <1>1, <1>2, <1>3, <1>4 DEF Frame
<1> HIDE DEF g
<1>6. /\ Busies(Top) = ToSet(Top.mods) /\ Busies(g) = Busies(Top)
      /\ Busies(Top) \subseteq Modules /\ NoModule \notin Modules
  <2>1. NoModule \notin Modules
    BY DEF Modules, NoModule
  <2> QED
    BY <1>1, <1>3, <1>4, <1>5, <2>1, TopUse DEF Busies
<1>7. StartOK(g, mod', queue')
  <2>1. InCall(mod[o])
    BY <1>2, <1>4 DEF StartOK, InCall
  <2>2. \A p \in ToSet(g.mods) : p \in ToSet(Top.mods) /\ p # o
    BY <1>4, <1>5
  <2>3. Busies(g) \cap ToSet(queue') = {}
    BY <1>1, <1>2, <1>6 DEF StartOK
  <2> QED
    BY <1>1, <1>2, <1>4, <1>5, <2>1, <2>2, <2>3 DEF StartOK
<1>8. FrameOK(g, mod', queue')
  BY <1>5, <1>7 DEF FrameOK
<1>9. Follows(queue, queue', Busies(Top))
  BY <1>1, Trivially DEF Inv, TypeOK
<1>10. \A p \in ToSet(queue') : p \notin Busies(Top)
  BY <1>1, <1>2 DEF StartOK
<1>11. \A p \in Modules : Sane(mod'[p]) /\ mod'[p] = mod[p]
  BY <1>1 DEF UseInv, SaneInv
<1>12. \A i \in 2..Len(stack) : Busies(Top) \cap Busies(stack[i]) = {}
  BY <1>1, TopUse
<1>13. g.op # "quitAll"
  BY <1>5
<1> QED
  BY <1>1, <1>5, <1>6, <1>8, <1>9, <1>10, <1>11, <1>12, <1>13, TopUses

LEMMA StartNextUses == ASSUME Inv, Inv', UseInv, StartNext PROVE UseInv'
<1>1. /\ Running /\ Top.op = "start" /\ Top.mods # <<>> /\ Top.call = NoModule /\ TypeOK'
      /\ Top \in Frame /\ Top.mods \in Seq(Modules) /\ StartOK(Top, mod, queue)
  <2>1. Running /\ Top.op = "start" /\ Top.mods # <<>> /\ Top.call = NoModule
    BY DEF StartNext, Starting
  <2> QED
    BY <2>1, TopFrame, TopUse DEF Inv, FrameOK
<1>2. PICK o \in Modules : o = Head(Top.mods)
  BY <1>1, Stacked
<1>3. /\ Tail(Top.mods) \in Seq(Modules)
      /\ ToSet(Top.mods) = ToSet(Tail(Top.mods)) \cup {o} /\ o \notin ToSet(Tail(Top.mods))
      /\ \A n, k \in 1..Len(Tail(Top.mods)) : Tail(Top.mods)[n] = Tail(Top.mods)[k] => n = k
  BY <1>1, <1>2, NextStart DEF StartOK
<1>4. /\ mod \in [Modules -> Module] /\ mod[o] \in Module /\ Sane(mod[o]) /\ NotStarted(mod[o])
      /\ Busies(Top) = ToSet(Top.mods) /\ Busies(Top) \subseteq Modules /\ NoModule \notin Modules
      /\ \A i \in 2..Len(stack) : Busies(Top) \cap Busies(stack[i]) = {}
      /\ ToSet(Top.mods) \cap ToSet(queue) = {}
  BY <1>1, <1>3, TopUse DEF Inv, TypeOK, UseInv, SaneInv, StartOK, Busies, Modules, NoModule
<1>5. CASE mod[o].thr
  <2> DEFINE g == [Top EXCEPT !.mods = Tail(@), !.waits = @ \cup {o}]
             r == [mod[o] EXCEPT !.thread = "init", !.hasQueue = WithQueue]
  <2>1. Becomes(g) /\ queue' = Append(queue, o) /\ mod' = [mod EXCEPT ![o] = r]
    BY <1>2, <1>4, <1>5 DEF StartNext
  <2>2. /\ r.life = "made" /\ r.thr = TRUE /\ r.thread = "init" /\ r.inits = 0
        /\ r.taken = mod[o].taken /\ r.posted = mod[o].posted /\ r.quits = mod[o].quits
    BY <1>4, <1>5 DEF Module, NotStarted
  <2>3. g \in Frame /\ g.op = "start" /\ g.mods = Tail(Top.mods) /\ g.call = NoModule
    BY <1>1, <1>3 DEF Frame
  <2> HIDE DEF g, r
  <2>4. Sane(r) /\ Started(r) /\ Untouched(r)
    BY <1>4, <2>2 DEF Sane, Started, NotStarted, Untouched, Module
  <2>5. mod'[o] = r /\ \A p \in Modules : p # o => mod'[p] = mod[p]
    BY <1>4, <2>1
  <2>6. ToSet(queue') = ToSet(queue) \cup {o} /\ Follows(queue, queue', Busies(Top))
    BY <1>3, <1>4, <2>1, Appended, AppendFollows DEF Inv
  <2>7. Busies(g) = ToSet(Tail(Top.mods))
    BY <2>3 DEF Busies
  <2>8. FrameOK(g, mod', queue')
    <3>1. \A p \in ToSet(g.mods) : mod'[p] = mod[p] /\ p \in ToSet(Top.mods) /\ p # NoModule
      BY <1>3, <1>4, <2>3, <2>5
    <3>2. Busies(g) \cap ToSet(queue') = {}
      BY <1>3, <1>4, <2>6, <2>7
    <3>3. StartOK(g, mod', queue')
      BY <1>1, <1>3, <2>3, <3>1, <3>2 DEF StartOK
    <3> QED
      BY <2>3, <3>3 DEF FrameOK
  <2>9. /\ \A p \in ToSet(queue') : p \in Busies(Top) => p = o
        /\ \A p \in Modules : Sane(mod'[p])
    BY <1>4, <2>4, <2>5, <2>6 DEF UseInv, SaneInv
  <2>10. Busies(g) \cup Busies(Top) \subseteq Busies(Top) /\ o \in Busies(Top)
    BY <1>3, <1>4, <2>7
  <2>11. \A p \in ToSet(queue') : p \in Busies(Top) =>
           Started(mod'[p]) /\ (Untouched(mod'[p]) \/ Quits(g, p))
    BY <2>4, <2>5, <2>9
  <2>12. \A p \in Modules : p \in Busies(Top) \/ mod'[p] = mod[p]
    BY <2>5, <2>10
  <2>13. g.op # "quitAll"
    BY <2>3
  <2> QED
    BY <1>1, <1>4, <2>1, <2>3, <2>6, <2>8, <2>9, <2>10, <2>11, <2>12, <2>13, TopUses
<1>6. CASE ~mod[o].thr
  <2> DEFINE g == [Top EXCEPT !.mods = Tail(@), !.call = o]
             r == [mod[o] EXCEPT !.inits = @ + 1]
  <2>1. Becomes(g) /\ queue' = queue /\ mod' = [mod EXCEPT ![o] = r]
    BY <1>2, <1>4, <1>6 DEF StartNext
  <2>2. /\ r.life = "made" /\ r.thr = FALSE /\ r.thread = "none" /\ r.inits = 1
        /\ r.taken = mod[o].taken /\ r.posted = mod[o].posted /\ r.quits = mod[o].quits
    BY <1>4, <1>6 DEF Module, NotStarted
  <2>3. g \in Frame /\ g.op = "start" /\ g.mods = Tail(Top.mods) /\ g.call = o
    BY <1>1, <1>3 DEF Frame
  <2> HIDE DEF g, r
  <2>4. Sane(r) /\ Untouched(r)
    BY <1>4, <2>2 DEF Sane, NotStarted, Untouched, Module
  <2>5. mod'[o] = r /\ \A p \in Modules : p # o => mod'[p] = mod[p]
    BY <1>4, <2>1
  <2>6. Follows(queue, queue', Busies(Top))
    BY <2>1, Trivially DEF Inv, TypeOK
  <2>7. Busies(g) = ToSet(Top.mods)
    BY <1>3, <1>4, <2>3 DEF Busies
  <2>8. FrameOK(g, mod', queue')
    <3>1. \A p \in ToSet(g.mods) : mod'[p] = mod[p] /\ p \in ToSet(Top.mods) /\ p # o
      BY <1>3, <1>4, <2>3, <2>5
    <3>2. Busies(g) \cap ToSet(queue') = {}
      BY <1>4, <2>1, <2>7
    <3>3. StartOK(g, mod', queue')
      BY <1>1, <1>3, <2>2, <2>3, <2>4, <2>5, <3>1, <3>2 DEF StartOK, InCall
    <3> QED
      BY <2>3, <3>3 DEF FrameOK
  <2>9. /\ \A p \in ToSet(queue') : p \notin Busies(Top)
        /\ \A p \in Modules : Sane(mod'[p])
    BY <1>4, <2>1, <2>4, <2>5 DEF UseInv, SaneInv
  <2>10. Busies(g) \cup Busies(Top) \subseteq Busies(Top) /\ o \in Busies(Top)
    BY <1>3, <1>4, <2>7
  <2>12. \A p \in Modules : p \in Busies(Top) \/ mod'[p] = mod[p]
    BY <2>5, <2>10
  <2>13. g.op # "quitAll"
    BY <2>3
  <2> QED
    BY <1>1, <1>4, <2>1, <2>3, <2>6, <2>8, <2>9, <2>10, <2>12, <2>13, TopUses
<1> QED
  BY <1>5, <1>6
-----------------------------------------------------------------------------
(* What is asked to quit.                                                   *)

LEMMA QuitSpec ==
  ASSUME TypeOK, NEW o \in Modules, Sane(mod[o]), Started(mod[o]), Untouched(mod[o]),
         mod' = Quit(o), NEW f \in Frame
  PROVE  /\ Sane(mod'[o]) /\ Started(mod'[o]) /\ \A p \in Modules : p # o => mod'[p] = mod[p]
         /\ mod'[o].thr = mod[o].thr
         /\ Quitting(f, o).call \in {o, NoModule}
         /\ f.waits \subseteq Quitting(f, o).waits
         /\ mod[o].thr => o \in Quitting(f, o).waits
<1>1. mod \in [Modules -> Module] /\ mod[o] \in Module
  BY DEF TypeOK
<1>2. ~mod[o].taken /\ mod[o].posted = 0 /\ mod[o].quits = 0
  BY DEF Untouched
<1>3. /\ Quitting(f, o).call \in {o, NoModule} /\ f.waits \subseteq Quitting(f, o).waits
      /\ mod[o].thr => o \in Quitting(f, o).waits
  BY <1>2 DEF Quitting, Frame
<1>4. CASE mod[o].thr
  <2> DEFINE n == IF mod[o].hasQueue THEN mod[o].posted + 1 ELSE mod[o].posted
             r == [mod[o] EXCEPT !.taken = TRUE, !.posted = n]
  <2>1. mod' = [mod EXCEPT ![o] = r]
    BY <1>1, <1>4 DEF Quit
  <2>2. n \in {0, 1}
    BY <1>2
  <2> HIDE DEF n
  <2>3. /\ r.life = mod[o].life /\ r.thr = mod[o].thr /\ r.thread = mod[o].thread
        /\ r.inits = mod[o].inits /\ r.quits = 0 /\ r.posted = n
    BY <1>1, <1>2 DEF Module
  <2> HIDE DEF r
  <2>4. Sane(r) /\ Started(r)
    BY <1>1, <1>2, <1>4, <2>2, <2>3 DEF Sane, Started, Module
  <2> QED
    BY <1>1, <1>3, <2>1, <2>3, <2>4
<1>5. CASE ~mod[o].thr
  <2> DEFINE r == [mod[o] EXCEPT !.quits = @ + 1]
  <2>1. mod' = [mod EXCEPT ![o] = r]
    BY <1>1, <1>5 DEF Quit
  <2>2. /\ r.life = mod[o].life /\ r.thr = mod[o].thr /\ r.thread = mod[o].thread
        /\ r.inits = mod[o].inits /\ r.quits = 1 /\ r.posted = 0
    BY <1>1, <1>2 DEF Module
  <2> HIDE DEF r
  <2>3. mod[o].thread = "none" /\ mod[o].inits = 1
    BY <1>1, <1>5 DEF Sane, Started, Module
  <2>4. Sane(r) /\ Started(r)
    BY <1>1, <1>5, <2>2, <2>3 DEF Sane, Started, Module
  <2> QED
    BY <1>1, <1>3, <2>1, <2>2, <2>4
<1> QED
  BY <1>4, <1>5

LEMMA QuitModuleUses == ASSUME Inv, Inv', UseInv, QuitModule PROVE UseInv'
<1> DEFINE h == [Top EXCEPT !.at = "wait"]
           g == Quitting(h, Head(Top.mods))
<1>1. /\ Running /\ Becomes(g) /\ queue' = queue /\ mod' = Quit(Head(Top.mods)) /\ TypeOK'
      /\ Top.op = "quit" /\ Top.at = "begin"
  BY DEF QuitModule, Inv
<1>2. /\ Top \in Frame /\ Top.mods \in Seq(Modules) /\ QuitOK(Top, mod)
      /\ \A i \in 2..Len(stack) : Busies(Top) \cap Busies(stack[i]) = {}
  BY <1>1, TopFrame, TopUse DEF Inv, FrameOK
<1>3. PICK o \in Modules : o = Head(Top.mods) /\ o = Top.mods[1] /\ ToSet(Top.mods) = {o}
  <2>1. Top.mods # <<>> /\ Len(Top.mods) = 1
    BY <1>2 DEF QuitOK
  <2>2. Head(Top.mods) = Top.mods[1] /\ Head(Top.mods) \in Modules
    BY <1>2, <2>1, Stacked
  <2>3. DOMAIN Top.mods = 1..1
    BY <1>2, <2>1, LenProperties
  <2> QED
    BY <2>2, <2>3 DEF ToSet
<1>4. h \in Frame /\ h.op = "quit" /\ h.mods = Top.mods /\ h.at = "wait"
  BY <1>1, <1>2 DEF Frame
<1> HIDE DEF h
<1>5. /\ Started(mod[o]) /\ Untouched(mod[o]) /\ Sane(mod[o]) /\ Top.call = NoModule
  BY <1>1, <1>2, <1>3 DEF QuitOK, UseInv, SaneInv
<1>6. mod' = Quit(o) /\ g = Quitting(h, o)
  BY <1>1, <1>3
<1> HIDE DEF g
<1>7. g \in Frame /\ g.op = "quit" /\ g.mods = Top.mods /\ g.at = "wait"
  BY <1>4, <1>6, QuitQuiet DEF Inv
<1>8. /\ Sane(mod'[o]) /\ Started(mod'[o]) /\ \A p \in Modules : p # o => mod'[p] = mod[p]
      /\ mod'[o].thr = mod[o].thr /\ g.call \in {o, NoModule}
      /\ mod[o].thr => o \in g.waits
  BY <1>4, <1>5, <1>6, QuitSpec DEF Inv
<1>9. FrameOK(g, mod', queue')
  <2>1. QuitOK(g, mod')
    BY <1>2, <1>3, <1>7, <1>8 DEF QuitOK, Leaving
  <2> QED
    BY <1>7, <2>1 DEF FrameOK
<1>10. Busies(Top) = {o} /\ Busies(g) \subseteq {o}
  BY <1>3, <1>5, <1>7, <1>8 DEF Busies
<1>11. Follows(queue, queue', {o})
  BY <1>1, Trivially DEF Inv, TypeOK
<1>12. Quits(g, o)
  BY <1>3, <1>7 DEF Quits
<1>13. \A p \in Modules : p \in {o} => Sane(mod'[p])
  BY <1>8
<1>14. \A p \in ToSet(queue') : p \in {o} =>
         Started(mod'[p]) /\ (Untouched(mod'[p]) \/ Quits(g, p))
  BY <1>8, <1>12
<1>15. /\ \A i \in 2..Len(stack) : {o} \cap Busies(stack[i]) = {}
       /\ Busies(g) \cup Busies(Top) \subseteq {o}
       /\ \A p \in Modules : p \in {o} \/ mod'[p] = mod[p]
       /\ g.op # "quitAll"
  BY <1>2, <1>7, <1>8, <1>10
<1> QED
  BY <1>1, <1>7, <1>9, <1>11, <1>13, <1>14, <1>15, TopUses

\* What _QuitModules takes next has not been asked to quit, by it or by anyone.
LEMMA NextQuit ==
  ASSUME Inv, UseInv, QuitLoop, ~Lost, Left # <<>>
  PROVE  \E o \in Modules, p \in 1..Len(queue) :
           /\ o = Last(Left) /\ o = queue[p] /\ o \in ToSet(queue) /\ o \notin ToSet(Top.mods)
           /\ Started(mod[o]) /\ Untouched(mod[o])
           /\ \A k \in 1..(p - 1) : queue[k] \notin ToSet(Top.mods)
           /\ \A i \in 1..Len(stack) : o \notin Busies(stack[i])
<1>1. /\ Running /\ Top = stack[1] /\ Len(stack) \in Nat \ {0} /\ Top.op = "quitAll"
      /\ Top.at = "begin" /\ Top.call = NoModule /\ FrameOK(Top, mod, queue)
      /\ queue \in Seq(Modules) /\ Len(queue) \in Nat /\ DOMAIN queue = 1..Len(queue)
  BY TopFrame, TopUse, Typed DEF Inv, QuitLoop, TypeOK
<1>2. QuitAllOK(Top, mod, queue)
  BY <1>1 DEF FrameOK
<1>3. PICK p \in 1..Len(queue) :
        /\ Last(Left) = queue[p]
        /\ \A k \in 1..p : queue[k] \notin ToSet(Top.mods)
  <2>1. CASE Top.mods = <<>>
    <3>1. Left = queue /\ ToSet(Top.mods) = {}
      BY <2>1 DEF Left, ToSet
    <3>2. Len(queue) \in 1..Len(queue)
      BY <1>1, <3>1, Stacked
    <3> QED
      BY <1>1, <3>1, <3>2 DEF Last
  <2>2. CASE Top.mods # <<>>
    <3> DEFINE n == CHOOSE i \in DOMAIN queue : queue[i] = Last(Top.mods)
    <3>1. n \in 1..Len(queue) /\ queue[n] = Last(Top.mods)
      BY <1>1, <2>2 DEF Lost, ToSet
    <3>2. Left = SubSeq(queue, 1, n - 1)
      BY <2>2 DEF Left
    <3> HIDE DEF n
    <3>3. \A i \in 1..(n - 1) : queue[i] \in Modules
      BY <1>1, <3>1
    <3>4. Left \in Seq(Modules) /\ Len(Left) = n - 1 /\ \A i \in 1..(n - 1) : Left[i] = queue[i]
      <4>1. /\ Left \in Seq(Modules) /\ Len(Left) = IF 1 <= n - 1 THEN (n - 1) - 1 + 1 ELSE 0
            /\ \A i \in 1..((n - 1) - 1 + 1) : Left[i] = queue[1 + i - 1]
        BY <1>1, <3>1, <3>2, <3>3, SubSeqProperties
      <4> QED
        BY <1>1, <3>1, <4>1
    <3>5. Len(Left) \in Nat \ {0}
      BY <3>4, Stacked
    <3>6. n - 1 \in 1..Len(queue) /\ Last(Left) = queue[n - 1]
      BY <1>1, <3>1, <3>4, <3>5 DEF Last
    <3>7. \A k \in 1..(n - 1) : queue[k] \notin ToSet(Top.mods)
      BY <1>1, <1>2, <2>2, <3>1 DEF QuitAllOK
    <3> QED
      BY <3>6, <3>7
  <2> QED
    BY <2>1, <2>2
<1>4. PICK o \in Modules : o = queue[p] /\ o \in ToSet(queue) /\ o \notin ToSet(Top.mods)
  BY <1>1, <1>3, ElementOfSeq DEF ToSet
<1>5. ASSUME NEW i \in 1..Len(stack) PROVE o \notin Busies(stack[i])
  <2>1. CASE i = 1
    BY <1>1, <1>4, <2>1 DEF Busies
  <2>2. CASE i # 1
    <3>1. i \in 1..Len(stack) /\ 1 \in 1..Len(stack) /\ 1 < i /\ stack[i] \in Frame
      BY <1>1, <2>2, Typed DEF Inv
    <3>2. stack[i].op \notin {"quit", "quitAll"}
      BY <1>1, <3>1 DEF UseInv, ApartInv
    <3>3. FrameOK(stack[i], mod, queue)
      BY <3>1 DEF UseInv, FramesInv
    <3>4. CASE stack[i].op = "start"
      BY <1>4, <3>3, <3>4 DEF FrameOK, StartOK
    <3>5. CASE stack[i].op \in {"load", "loadAll", "recycle", "stop"}
      BY <3>3, <3>5 DEF FrameOK, Bare, Busies, ToSet
    <3> QED
      BY <3>1, <3>2, <3>4, <3>5 DEF Frame
  <2> QED
    BY <2>1, <2>2
<1>6. Started(mod[o]) /\ Untouched(mod[o])
  BY <1>4, <1>5 DEF UseInv, QueueInv, Quits, Busies
<1>7. \A k \in 1..(p - 1) : queue[k] \notin ToSet(Top.mods)
  BY <1>1, <1>3
<1> QED
  BY <1>3, <1>4, <1>5, <1>6, <1>7

LEMMA QuitNextUses == ASSUME Inv, Inv', UseInv, QuitNext PROVE UseInv'
<1>1. /\ Running /\ QuitLoop /\ ~Lost /\ Left # <<>> /\ queue' = queue /\ TypeOK'
      /\ Top.op = "quitAll" /\ Top.at = "begin"
  BY DEF QuitNext, QuitLoop, Inv
<1>2. PICK o \in Modules, p \in 1..Len(queue) :
        /\ o = Last(Left) /\ o = queue[p] /\ o \in ToSet(queue) /\ o \notin ToSet(Top.mods)
        /\ Started(mod[o]) /\ Untouched(mod[o])
        /\ \A k \in 1..(p - 1) : queue[k] \notin ToSet(Top.mods)
        /\ \A i \in 1..Len(stack) : o \notin Busies(stack[i])
  BY <1>1, NextQuit
<1>3. /\ Top \in Frame /\ Top.mods \in Seq(Modules) /\ QuitAllOK(Top, mod, queue)
      /\ \A i \in 2..Len(stack) : Busies(Top) \cap Busies(stack[i]) = {}
      /\ Busies(Top) \subseteq Modules /\ Sane(mod[o]) /\ Len(stack) \in Nat \ {0}
      /\ Len(queue) \in Nat
  BY <1>1, TopFrame, TopUse, Typed DEF Inv, FrameOK, UseInv, SaneInv
<1> DEFINE h == [Top EXCEPT !.mods = Append(@, o)]
           g == Quitting(h, o)
<1>4. mod' = Quit(o) /\ Becomes(g)
  BY <1>2 DEF QuitNext
<1>5. /\ h \in Frame /\ h.op = Top.op /\ h.at = Top.at /\ h.mods = Append(Top.mods, o)
      /\ h.waits = Top.waits
  <2>1. Append(Top.mods, o) \in Seq(Modules)
    BY <1>3, AppendProperties
  <2> QED
    BY <1>3, <2>1 DEF Frame
<1> HIDE DEF h
<1>6. g \in Frame /\ g.op = "quitAll" /\ g.mods = Append(Top.mods, o) /\ g.at = "begin"
  BY <1>1, <1>4, <1>5, QuitQuiet DEF Inv
<1>7. /\ Sane(mod'[o]) /\ Started(mod'[o]) /\ \A q \in Modules : q # o => mod'[q] = mod[q]
      /\ mod'[o].thr = mod[o].thr /\ g.call \in {o, NoModule}
      /\ mod[o].thr => o \in g.waits
      /\ Top.waits \subseteq g.waits
  BY <1>2, <1>3, <1>4, <1>5, QuitSpec DEF Inv
<1> HIDE DEF g
<1>8. g.mods # <<>> /\ Last(g.mods) = o /\ ToSet(g.mods) = ToSet(Top.mods) \cup {o}
  <2>1. /\ Len(g.mods) = Len(Top.mods) + 1 /\ Len(Top.mods) \in Nat /\ g.mods \in Seq(Modules)
        /\ g.mods[Len(Top.mods) + 1] = o
        /\ \A i \in 1..Len(Top.mods) : g.mods[i] = Top.mods[i]
        /\ DOMAIN Top.mods = 1..Len(Top.mods)
    BY <1>3, <1>6, AppendProperties, LenProperties
  <2>2. DOMAIN g.mods = 1..Len(g.mods)
    BY <2>1, LenProperties
  <2>3. g.mods # <<>>
    BY <2>1, EmptySeq
  <2>4. \A i : i \in DOMAIN g.mods <=> i \in 1..Len(Top.mods) \/ i = Len(Top.mods) + 1
    BY <2>1, <2>2
  <2>5. ToSet(g.mods) = ToSet(Top.mods) \cup {o}
    BY <2>1, <2>4 DEF ToSet
  <2> QED
    BY <2>1, <2>3, <2>5 DEF Last
<1> DEFINE A == Busies(Top) \cup {o}
<1>9. Busies(g) \cup Busies(Top) \subseteq A
  BY <1>7, <1>8 DEF Busies
<1>10. \A i \in 2..Len(stack) : A \cap Busies(stack[i]) = {}
  <2>1. \A i \in 2..Len(stack) : i \in 1..Len(stack)
    BY <1>3
  <2> QED
    BY <1>2, <1>3, <2>1
<1>11. QuitAllOK(g, mod', queue')
  <2>1. g.call \in ToSet(g.mods) \cup {NoModule}
    BY <1>7, <1>8
  <2>2. ASSUME NEW q \in ToSet(g.mods) PROVE Started(mod'[q]) /\ Leaving(g, mod', q)
    <3>1. CASE q = o
      BY <1>7, <3>1 DEF Leaving
    <3>2. CASE q # o
      <4>1. q \in ToSet(Top.mods) /\ q \in Modules
        BY <1>3, <1>8, <3>2 DEF Busies
      <4>2. mod'[q] = mod[q]
        BY <1>7, <3>2, <4>1
      <4> QED
        BY <1>3, <1>7, <4>1, <4>2 DEF QuitAllOK, Leaving
    <3> QED
      BY <3>1, <3>2
  <2>3. ASSUME NEW n \in 1..Len(queue), NEW k \in 1..Len(queue), queue[n] = o, k < n
        PROVE  queue[k] \notin ToSet(g.mods)
    <3>1. n = p
      BY <1>2, <2>3 DEF Inv, PresentInv
    <3>2. queue[k] # o
      BY <2>3 DEF Inv, PresentInv
    <3>3. k \in 1..(p - 1)
      BY <1>3, <2>3, <3>1
    <3> QED
      BY <1>2, <1>8, <3>2, <3>3
  <2> QED
    BY <1>1, <1>6, <1>8, <2>1, <2>2, <2>3 DEF QuitAllOK
<1>12. FrameOK(g, mod', queue')
  BY <1>6, <1>11 DEF FrameOK
<1>13. Follows(queue, queue', A)
  BY <1>1, Trivially DEF Inv, TypeOK
<1>14. \A q \in Modules : Sane(mod'[q])
  BY <1>7 DEF UseInv, SaneInv
<1>15. \A q \in ToSet(queue') : q \in A =>
         Started(mod'[q]) /\ (Untouched(mod'[q]) \/ Quits(g, q))
  <2>1. A = ToSet(g.mods)
    BY <1>1, <1>8 DEF QuitLoop, Busies
  <2> QED
    BY <1>6, <1>11, <2>1 DEF QuitAllOK, Quits
<1>16. \A q \in Modules : q \in A \/ mod'[q] = mod[q]
  BY <1>7
<1> HIDE DEF A
<1> QED
  BY <1>1, <1>4, <1>6, <1>9, <1>10, <1>12, <1>13, <1>14, <1>15, <1>16, TopUses

LEMMA QuitAllWaitsUses == ASSUME Inv, Inv', UseInv, QuitAllWaits PROVE UseInv'
<1> DEFINE g == [Top EXCEPT !.at = "wait"]
<1>1. /\ Running /\ queue' = <<>> /\ mod' = mod /\ Becomes(g) /\ TypeOK' /\ Top.op = "quitAll"
  BY DEF QuitAllWaits, QuitLoop, Inv
<1>2. /\ Top \in Frame /\ QuitAllOK(Top, mod, queue)
      /\ \A i \in 2..Len(stack) : Busies(Top) \cap Busies(stack[i]) = {}
  BY <1>1, TopFrame, TopUse DEF Inv, FrameOK
<1>3. /\ g \in Frame /\ g.op = "quitAll" /\ g.mods = Top.mods /\ g.call = Top.call
      /\ g.at = "wait" /\ g.waits = Top.waits
  BY <1>1, <1>2 DEF Frame
<1> HIDE DEF g
<1>4. ToSet(queue') = {} /\ Len(queue') = 0
  BY <1>1 DEF ToSet
<1>5. FrameOK(g, mod', queue')
  <2>1. QuitAllOK(g, mod', queue')
    BY <1>1, <1>2, <1>3, <1>4 DEF QuitAllOK, Leaving
  <2> QED
    BY <1>3, <2>1 DEF FrameOK
<1>6. Busies(g) = Busies(Top)
  BY <1>3 DEF Busies
<1>7. Follows(queue, queue', Busies(Top))
  BY <1>4 DEF Follows
<1>8. \A q \in Modules : Sane(mod'[q])
  BY <1>1 DEF UseInv, SaneInv
<1> QED
  BY <1>1, <1>2, <1>3, <1>4, <1>5, <1>6, <1>7, <1>8, TopUses
-----------------------------------------------------------------------------
(* What is made.                                                            *)

LEMMA BusyMade ==
  ASSUME Inv, UseInv, NEW i \in 1..Len(stack), NEW o \in Busies(stack[i])
  PROVE  o \in Modules /\ mod[o].life # "unmade"
<1>1. stack[i] \in Frame /\ FrameOK(stack[i], mod, queue)
  BY Typed DEF Inv, UseInv, FramesInv
<1>2. /\ Busies(stack[i]) \subseteq Modules
      /\ \A k \in 1..Len(stack[i].mods) : stack[i].mods[k] \in ToSet(stack[i].mods)
  BY <1>1, BusiesModules
<1>3. \A p \in ToSet(stack[i].mods) : mod[p].life # "unmade"
  BY DEF Inv, BoundInv
<1>4. o \in ToSet(stack[i].mods) \/ (o = stack[i].call /\ o # NoModule)
  BY DEF Busies
<1>5. CASE o = stack[i].call /\ o # NoModule
  <2>1. CASE stack[i].op = "start"
    BY <1>1, <1>2, <1>5, <2>1 DEF FrameOK, StartOK, InCall, NotStarted
  <2>2. CASE stack[i].op = "quit"
    <3>1. QuitOK(stack[i], mod)
      BY <1>1, <2>2 DEF FrameOK
    <3>2. o = stack[i].mods[1] /\ 1 \in 1..Len(stack[i].mods)
      BY <1>5, <3>1 DEF QuitOK
    <3> QED
      BY <1>2, <1>3, <3>2
  <2>3. CASE stack[i].op = "quitAll"
    BY <1>1, <1>2, <1>3, <1>5, <2>3 DEF FrameOK, QuitAllOK
  <2>4. CASE stack[i].op \in {"load", "loadAll", "recycle", "stop"}
    BY <1>1, <1>5, <2>4 DEF FrameOK, Bare
  <2> QED
    BY <1>1, <1>2, <2>1, <2>2, <2>3, <2>4 DEF Frame
<1> QED
  BY <1>2, <1>3, <1>4, <1>5

LEMMA MakeNew ==
  ASSUME TypeOK, BoundInv, NEW list \in Seq(Entries), Made + Len(list) <= MaxModules,
         mod' = Make(list)
  PROVE  LET t == Fresh(Len(list)) IN
         /\ \A o \in Modules : o \in ToSet(t) \/ mod'[o] = mod[o]
         /\ \A o \in ToSet(t) : /\ o \in Modules /\ mod[o].life = "unmade"
                                /\ NotStarted(mod'[o]) /\ Sane(mod'[o])
                                /\ (\E f \in Frames : f.op = "quitAll") => mod'[o].late
         /\ \A n, k \in 1..Len(t) : t[n] = t[k] => n = k
<1>1. /\ Made \in Nat /\ MaxModules \in Nat /\ Len(list) \in Nat /\ DOMAIN list = 1..Len(list)
      /\ \A i \in 1..Len(list) : list[i] \in Entries
      /\ \A o \in Modules : o \in Nat \ {0} /\ (mod[o].life # "unmade" <=> o <= Made)
  BY MadeNat, LenProperties, ElementOfSeq DEF TypeOK, BoundInv, Modules
<1> DEFINE late == \E f \in Frames : f.op = "quitAll"
           new(i) == [Unmade EXCEPT !.loc = list[i].loc, !.thr = list[i].thr,
                                    !.life = "made", !.late = late]
           t == Fresh(Len(list))
<1>2. ASSUME NEW i \in 1..Len(list)
      PROVE  NotStarted(new(i)) /\ Sane(new(i)) /\ (late => new(i).late)
  <2>1. late \in BOOLEAN
    OBVIOUS
  <2> HIDE DEF late
  <2>2. /\ new(i).life = "made" /\ new(i).inits = 0 /\ new(i).thread = "none"
        /\ new(i).taken = FALSE /\ new(i).posted = 0 /\ new(i).quits = 0 /\ new(i).late = late
    BY <1>1, <2>1 DEF Entries, Unmade
  <2> HIDE DEF new
  <2> QED
    BY <2>2 DEF NotStarted, Sane, Untouched
<1>3. \A o \in Modules : mod'[o] = IF o - Made \in 1..Len(list) THEN new(o - Made) ELSE mod[o]
  BY <1>1 DEF Make
<1>4. /\ t \in Seq(Modules) /\ ToSet(t) = {Made + i : i \in 1..Len(list)}
      /\ \A i \in 1..Len(list) : Made + i \in Modules
  BY MakeSpec
<1>5. DOMAIN t = 1..Len(list) /\ \A i \in 1..Len(list) : t[i] = Made + i
  BY DEF Fresh
<1>6. Len(t) = Len(list)
  BY <1>1, <1>4, <1>5, LenProperties
<1> HIDE DEF t, new, late
<1>7. ASSUME NEW o \in Modules PROVE o \in ToSet(t) \/ mod'[o] = mod[o]
  <2>1. CASE o - Made \in 1..Len(list)
    <3>1. o = Made + (o - Made)
      BY <1>1
    <3> QED
      BY <1>4, <2>1, <3>1
  <2>2. CASE o - Made \notin 1..Len(list)
    BY <1>3, <2>2
  <2> QED
    BY <2>1, <2>2
<1>8. ASSUME NEW o \in ToSet(t)
      PROVE  /\ o \in Modules /\ mod[o].life = "unmade"
             /\ NotStarted(mod'[o]) /\ Sane(mod'[o]) /\ (late => mod'[o].late)
  <2>1. PICK i \in 1..Len(list) : o = Made + i
    BY <1>4
  <2>2. o \in Modules /\ o - Made = i /\ ~(o <= Made)
    BY <1>1, <1>4, <2>1
  <2>3. mod'[o] = new(i) /\ mod[o].life = "unmade"
    BY <1>1, <1>3, <2>2
  <2> QED
    BY <1>2, <2>2, <2>3
<1>9. \A n, k \in 1..Len(t) : t[n] = t[k] => n = k
  BY <1>1, <1>5, <1>6
<1> QED
  BY <1>7, <1>8, <1>9 DEF t, late

LEMMA LoadUses ==
  ASSUME Inv, Inv', UseInv, Running, Top.op \in {"load", "loadAll"}, NEW list \in Seq(Entries),
         Len(list) = IF Top.op = "load" THEN 1 ELSE Len(Configured),
         mod' = Make(list), queue' = queue, Becomes(Call("start", Fresh(Len(list))))
  PROVE  UseInv'
<1> DEFINE t == Fresh(Len(list))
           g == Call("start", t)
           A == ToSet(t)
<1>1. /\ Top = stack[1] /\ Len(stack) \in Nat \ {0} /\ Top \in Frame
      /\ stack \in Seq(Frame) /\ stack # <<>> /\ Head(stack) = Top /\ Bare(Top)
  BY TopFrame, TopUse DEF Inv, TypeOK, Running, Top, FrameOK
<1>2. Made + Len(list) <= MaxModules
  <2>1. Made + Loads(stack) <= MaxModules /\ Made \in Nat /\ MaxModules \in Nat /\ Len(list) \in Nat
    BY MadeNat, LenProperties DEF Inv, BoundInv
  <2>2. Loads(stack) = Loads(Tail(stack)) + Len(list) /\ Loads(Tail(stack)) \in Nat
    BY <1>1, LoadsTail
  <2> QED
    BY <2>1, <2>2
<1>3. /\ \A o \in Modules : o \in A \/ mod'[o] = mod[o]
      /\ \A o \in A : o \in Modules /\ mod[o].life = "unmade"
      /\ \A o \in A : NotStarted(mod'[o]) /\ Sane(mod'[o])
      /\ \A n, k \in 1..Len(t) : t[n] = t[k] => n = k
  BY <1>2, MakeNew DEF Inv
<1>4. t \in Seq(Modules)
  BY <1>2, MakeSpec DEF Inv
<1> HIDE DEF t
<1>5. /\ g \in Frame /\ g.op = "start" /\ g.call = NoModule /\ g.mods = t
      /\ Busies(g) = A /\ Busies(Top) = {}
  BY <1>1, <1>4 DEF Call, Frame, Busies, Bare, ToSet
<1>6. Becomes(g) /\ TypeOK'
  BY DEF t, Inv
<1> HIDE DEF g
<1>7. \A o \in ToSet(queue') : o \notin A
  <2>1. \A o \in ToSet(queue) : mod[o].life = "made"
    BY DEF UseInv, QueueInv, Started
  <2> QED
    BY <1>3, <2>1
<1>8. \A i \in 2..Len(stack) : A \cap Busies(stack[i]) = {}
  <2>1. \A i \in 2..Len(stack) : i \in 1..Len(stack)
    BY <1>1
  <2> QED
    BY <1>3, <2>1, BusyMade
<1>9. FrameOK(g, mod', queue')
  <2>1. NoModule \notin A
    BY <1>3 DEF Modules, NoModule
  <2>2. StartOK(g, mod', queue')
    BY <1>3, <1>5, <1>7, <2>1 DEF StartOK
  <2> QED
    BY <1>5, <2>2 DEF FrameOK
<1>10. Follows(queue, queue', A)
  BY Trivially DEF Inv, TypeOK
<1>11. /\ Busies(g) \cup Busies(Top) \subseteq A /\ g.op # "quitAll"
       /\ \A o \in Modules : o \in A => Sane(mod'[o])
  BY <1>3, <1>5
<1> HIDE DEF A
<1> QED
  BY <1>3, <1>5, <1>6, <1>7, <1>8, <1>9, <1>10, <1>11, TopUses

LEMMA LoadModuleUses == ASSUME Inv, Inv', UseInv, LoadModule PROVE UseInv'
<1> DEFINE list == <<[loc |-> Top.loc, thr |-> Top.thr]>>
<1>1. Running /\ Top.op = "load" /\ mod' = Make(list) /\ queue' = queue
      /\ Becomes(Call("start", Fresh(1)))
  BY DEF LoadModule
<1>2. Top.loc \in Locations \cup {None} /\ Top.thr \in BOOLEAN
  BY <1>1, TopFrame DEF Inv
<1>3. list \in Seq(Entries) /\ Len(list) = 1
  BY <1>2 DEF Entries
<1> HIDE DEF list
<1> QED
  BY <1>1, <1>3, LoadUses

LEMMA LoadAllUses == ASSUME Inv, Inv', UseInv, LoadAll PROVE UseInv'
<1>1. Running /\ Top.op = "loadAll" /\ mod' = Make(Configured) /\ queue' = queue
      /\ Becomes(Call("start", Fresh(Len(Configured))))
  BY DEF LoadAll
<1>2. Configured \in Seq(Entries)
  <2>1. [loc : Locations, thr : BOOLEAN] \subseteq Entries
    BY DEF Entries
  <2> QED
    BY <2>1, ModuleAssumption, SeqMonotonic
<1> QED
  BY <1>1, <1>2, LoadUses
-----------------------------------------------------------------------------
(* What requests push.                                                      *)

LEMMA PushUses ==
  ASSUME Inv, UseInv, TypeOK', NEW t \in Seq(Frame), stack' = t \o stack, UNCHANGED <<mod, queue>>,
         \A i \in 1..Len(t) : FrameOK(t[i], mod, queue),
         \A i \in 1..Len(t), j \in 1..Len(stack) :
           /\ Busies(t[i]) \cap Busies(stack[j]) = {}
           /\ t[i].op = "quitAll" => stack[j].op \notin {"quit", "quitAll"},
         \A i, j \in 1..Len(t) : i < j =>
           /\ Busies(t[i]) \cap Busies(t[j]) = {}
           /\ t[i].op = "quitAll" => t[j].op \notin {"quit", "quitAll"}
  PROVE  UseInv'
<1> DEFINE n == Len(t)
<1>1. /\ Len(stack') = n + Len(stack) /\ n \in Nat /\ Len(stack) \in Nat
      /\ \A i \in 1..n : stack'[i] = t[i]
      /\ \A i \in 1..Len(stack) : stack'[n + i] = stack[i]
  BY Joined DEF Inv, TypeOK
<1>2. ASSUME NEW i \in 1..Len(stack')
      PROVE  \/ i \in 1..n /\ stack'[i] = t[i]
             \/ i > n /\ i - n \in 1..Len(stack) /\ stack'[i] = stack[i - n]
  <2>1. CASE i <= n
    BY <1>1, <2>1
  <2>2. CASE i > n
    <3>1. i - n \in 1..Len(stack) /\ n + (i - n) = i
      BY <1>1, <2>2
    <3> QED
      BY <1>1, <2>2, <3>1
  <2> QED
    BY <1>1, <2>1, <2>2
<1>3. SaneInv'
  BY DEF UseInv, SaneInv
<1>4. FramesInv'
  <2>1. ASSUME NEW i \in 1..Len(stack') PROVE FrameOK(stack'[i], mod, queue)
    BY <1>2 DEF UseInv, FramesInv
  <2> QED
    BY <2>1 DEF FramesInv
<1>5. ApartInv'
  <2> SUFFICES ASSUME NEW i \in 1..Len(stack'), NEW j \in 1..Len(stack'), i < j
               PROVE  /\ Busies(stack'[i]) \cap Busies(stack'[j]) = {}
                      /\ stack'[i].op = "quitAll" => stack'[j].op \notin {"quit", "quitAll"}
    BY DEF ApartInv
  <2>1. CASE i \in 1..n /\ j \in 1..n
    BY <1>1, <2>1
  <2>2. CASE i \in 1..n /\ j > n
    <3>1. j - n \in 1..Len(stack) /\ stack'[j] = stack[j - n]
      BY <1>1, <1>2, <2>2
    <3> QED
      BY <1>1, <2>2, <3>1
  <2>3. CASE i > n /\ j > n
    <3>1. /\ j - n \in 1..Len(stack) /\ stack'[j] = stack[j - n]
          /\ i - n \in 1..Len(stack) /\ stack'[i] = stack[i - n] /\ i - n < j - n
      BY <1>1, <1>2, <2>3
    <3> QED
      BY <3>1 DEF UseInv, ApartInv
  <2>4. (i \in 1..n \/ i > n) /\ (j \in 1..n \/ j > n) /\ (i > n => j > n)
    BY <1>1
  <2> QED
    BY <2>1, <2>2, <2>3, <2>4
<1>6. QueueInv'
  <2>1. ASSUME NEW o, NEW i \in 1..Len(stack), Quits(stack[i], o)
        PROVE  \E j \in 1..Len(stack') : Quits(stack'[j], o)
    <3>1. n + i \in 1..Len(stack')
      BY <1>1
    <3> QED
      BY <1>1, <2>1, <3>1
  <2> QED
    BY <2>1 DEF UseInv, QueueInv
<1> QED
  BY <1>3, <1>4, <1>5, <1>6 DEF UseInv

\* A polite request to unload or reload finds what nobody deals with.
LEMMA FoundFree ==
  ASSUME Inv, UseInv, NEW k \in Kinds \ {"recycle"}, NEW l \in Locations, Polite(k, l),
         Find(l) # NoModule
  PROVE  /\ Find(l) \in Modules /\ Started(mod[Find(l)]) /\ Untouched(mod[Find(l)])
         /\ \A j \in 1..Len(stack) : Find(l) \notin Busies(stack[j])
<1>1. PICK o \in Modules : o = Find(l) /\ o \in ToSet(queue) /\ mod[o].loc = l /\ o # NoModule
  BY FindSpec DEF Inv, Loc
<1>2. o \notin Busy
  BY <1>1 DEF Polite
<1>3. ASSUME NEW j \in 1..Len(stack) PROVE o \notin Busies(stack[j])
  <2>1. stack[j] \in Frame /\ stack[j] \in Frames /\ FrameOK(stack[j], mod, queue)
    BY Typed DEF Inv, Frames, UseInv, FramesInv
  <2>2. o # stack[j].call /\ (stack[j].op \in {"quit", "quitAll"} => o \notin ToSet(stack[j].mods))
    BY <1>2, <2>1 DEF Busy
  <2>3. CASE stack[j].op = "start"
    BY <1>1, <2>1, <2>3 DEF FrameOK, StartOK
  <2>4. CASE stack[j].op \in {"quit", "quitAll"}
    BY <2>2, <2>4 DEF Busies
  <2>5. CASE stack[j].op \in {"load", "loadAll", "recycle", "stop"}
    BY <2>1, <2>5 DEF FrameOK, Bare, Busies, ToSet
  <2> QED
    BY <2>1, <2>3, <2>4, <2>5 DEF Frame
<1>4. Started(mod[o]) /\ Untouched(mod[o])
  BY <1>1, <1>3 DEF UseInv, QueueInv, Quits, Busies
<1> QED
  BY <1>1, <1>3, <1>4

\* The calls that a request to load or unload makes: at most one unloads, the first.
Asked(l) == {f \in Frame :
  \/ f.op = "load" /\ Bare(f)
  \/ f.op = "quit" /\ f.at = "begin" /\ f.call = NoModule /\ f.mods = <<Find(l)>> /\ Find(l) # NoModule}

LEMMA QuitAsked ==
  ASSUME Inv, NEW l \in Locations
  PROVE  QuitCalls(l) \in Seq(Asked(l)) /\ Len(QuitCalls(l)) <= 1
<1>1. CASE Find(l) = NoModule
  BY <1>1 DEF QuitCalls
<1>2. CASE Find(l) # NoModule
  <2>1. PICK o \in Modules : o = Find(l)
    BY <1>2, FindSpec DEF Inv
  <2> DEFINE f == Call("quit", <<o>>)
  <2>2. f \in Frame /\ f.op = "quit" /\ f.mods = <<o>> /\ f.at = "begin" /\ f.call = NoModule
    BY <2>1 DEF Frame, Call
  <2>3. QuitCalls(l) = <<f>>
    BY <1>2, <2>1 DEF QuitCalls
  <2> HIDE DEF f
  <2>4. f \in Asked(l)
    BY <1>2, <2>1, <2>2 DEF Asked
  <2> QED
    BY <2>3, <2>4
<1> QED
  BY <1>1, <1>2

LEMMA CallsAsked ==
  ASSUME Inv, NEW k \in Kinds \ {"recycle"}, NEW l \in Locations
  PROVE  /\ Calls(k, l) \in Seq(Asked(l))
         /\ \A i, j \in 1..Len(Calls(k, l)) : i < j => Calls(k, l)[j].op = "load"
<1>1. CASE k = "unload"
  <2>1. Calls(k, l) = QuitCalls(l)
    BY <1>1 DEF Calls
  <2>2. Len(QuitCalls(l)) \in Nat
    BY QuitAsked, LenProperties
  <2> QED
    BY <2>1, <2>2, QuitAsked
<1>2. ASSUME NEW t \in BOOLEAN
      PROVE  LET c == QuitCalls(l) \o <<LoadCall(l, t)>> IN
             c \in Seq(Asked(l)) /\ \A i, j \in 1..Len(c) : i < j => c[j].op = "load"
  <2> DEFINE q == QuitCalls(l)
             f == LoadCall(l, t)
             u == <<f>>
  <2>1. f \in Frame /\ f.op = "load" /\ Bare(f)
    <3> DEFINE g == Call("load", <<>>)
    <3>1. g \in Frame /\ g.op = "load" /\ g.mods = <<>> /\ g.at = "begin" /\ g.call = NoModule
      BY DEF Call, Frame, NoModule
    <3> HIDE DEF g
    <3>2. f = [g EXCEPT !.loc = l, !.thr = t]
      BY DEF LoadCall, g
    <3> HIDE DEF f
    <3> QED
      BY <3>1, <3>2 DEF Frame, Bare
  <2> HIDE DEF f
  <2>2. u \in Seq(Asked(l)) /\ Len(u) = 1 /\ u[1] = f
    BY <2>1 DEF Asked
  <2>3. q \in Seq(Asked(l)) /\ Len(q) <= 1
    BY QuitAsked
  <2> HIDE DEF q, u
  <2>4. /\ q \o u \in Seq(Asked(l)) /\ Len(q \o u) = Len(q) + 1 /\ Len(q) \in Nat
        /\ (q \o u)[Len(q) + 1] = f
    <3>1. /\ q \o u \in Seq(Asked(l)) /\ Len(q \o u) = Len(q) + Len(u) /\ Len(q) \in Nat
          /\ \A i \in 1..Len(u) : (q \o u)[Len(q) + i] = u[i]
      <4>1. q \in Seq(Asked(l)) /\ u \in Seq(Asked(l))
        BY <2>2, <2>3
      <4>2. q \o u \in Seq(Asked(l))
        BY <4>1, Joined
      <4>3. Len(q \o u) = Len(q) + Len(u)
        BY <4>1, Joined
      <4>4. Len(q) \in Nat
        BY <4>1, Joined
      <4>5. \A i \in 1..Len(u) : (q \o u)[Len(q) + i] = u[i]
        BY <4>1, Joined
      <4> QED
        BY <4>2, <4>3, <4>4, <4>5
    <3>2. 1 \in 1..Len(u)
      BY <2>2
    <3> QED
      BY <2>2, <3>1, <3>2
  <2>5. ASSUME NEW i \in 1..Len(q \o u), NEW j \in 1..Len(q \o u), i < j
        PROVE  (q \o u)[j].op = "load"
    <3>1. j = Len(q) + 1
      BY <2>3, <2>4, <2>5
    <3> QED
      BY <2>1, <2>4, <3>1
  <2> QED
    BY <2>4, <2>5 DEF q, u, f
<1>3. CASE k = "reload" \/ k = "reloadThreaded"
  BY <1>2, <1>3 DEF Calls
<1>4. CASE k = "reloadInstance"
  <2>1. CASE Find(l) = NoModule
    BY <1>4, <2>1 DEF Calls
  <2>2. CASE Find(l) # NoModule
    <3>1. mod[Find(l)].thr \in BOOLEAN
      BY <2>2, FindSpec DEF Inv, TypeOK, Module
    <3>2. Calls(k, l) = QuitCalls(l) \o <<LoadCall(l, mod[Find(l)].thr)>>
      BY <1>4, <2>2 DEF Calls
    <3> QED
      BY <1>2, <1>4, <3>1, <3>2
  <2> QED
    BY <2>1, <2>2
<1> QED
  BY <1>1, <1>3, <1>4 DEF Kinds

LEMMA LoadRequestUses ==
  ASSUME Inv, Inv', UseInv, NEW k \in Kinds \ {"recycle"}, NEW l \in Locations,
         Request(k, l), Polite(k, l)
  PROVE  UseInv'
<1>1. PICK t \in Seq(Asked(l)) :
        t = Calls(k, l) /\ \A i, j \in 1..Len(t) : i < j => t[j].op = "load"
  BY CallsAsked
<1>2. stack' = t \o stack /\ UNCHANGED <<mod, queue>> /\ TypeOK'
  BY <1>1 DEF Request, Inv
<1>3. t \in Seq(Frame) /\ \A i \in 1..Len(t) : t[i] \in Asked(l)
  <2>1. Asked(l) \subseteq Frame
    BY DEF Asked
  <2> QED
    BY <1>1, <2>1, SeqMonotonic, ElementOfSeq
<1>4. ASSUME NEW f \in Asked(l), f.op = "load"
      PROVE  FrameOK(f, mod, queue) /\ Busies(f) = {}
  BY <1>4 DEF Asked, FrameOK, Bare, Busies, ToSet
<1>5. ASSUME NEW f \in Asked(l), f.op # "load"
      PROVE  /\ FrameOK(f, mod, queue) /\ f.op = "quit"
             /\ \A j \in 1..Len(stack) : Busies(f) \cap Busies(stack[j]) = {}
  <2>1. /\ f.op = "quit" /\ f.at = "begin" /\ f.call = NoModule /\ f.mods = <<Find(l)>>
        /\ Find(l) # NoModule
    BY <1>5 DEF Asked
  <2>2. /\ Started(mod[Find(l)]) /\ Untouched(mod[Find(l)])
        /\ \A j \in 1..Len(stack) : Find(l) \notin Busies(stack[j])
    BY <2>1, FoundFree
  <2>3. Len(f.mods) = 1 /\ f.mods[1] = Find(l) /\ ToSet(f.mods) = {Find(l)}
    BY <2>1 DEF ToSet
  <2>4. QuitOK(f, mod)
    BY <2>1, <2>2, <2>3 DEF QuitOK
  <2>5. Busies(f) = {Find(l)}
    BY <2>1, <2>3 DEF Busies
  <2> QED
    BY <2>1, <2>2, <2>4, <2>5 DEF FrameOK
<1>6. \A i \in 1..Len(t) : FrameOK(t[i], mod, queue) /\ t[i].op # "quitAll"
  BY <1>3, <1>4, <1>5
<1>7. \A i \in 1..Len(t), j \in 1..Len(stack) : Busies(t[i]) \cap Busies(stack[j]) = {}
  BY <1>3, <1>4, <1>5
<1>8. \A i, j \in 1..Len(t) : i < j => Busies(t[i]) \cap Busies(t[j]) = {}
  BY <1>1, <1>3, <1>4
<1> QED
  BY <1>2, <1>3, <1>6, <1>7, <1>8, PushUses

\* The calls of a recycle and of Stop.
LEMMA QuitAllUses ==
  ASSUME Inv, Inv', UseInv, NEW t \in Seq(Frame), stack' = t \o stack, UNCHANGED <<mod, queue>>,
         \A i \in 1..Len(t) : /\ t[i].op \in {"quitAll", "loadAll", "recycle", "stop"}
                              /\ Bare(t[i]) /\ (t[i].op = "quitAll" => i = 1),
         \A f \in Frames : f.call = NoModule /\ f.op \notin {"quit", "quitAll"}
  PROVE  UseInv'
<1>1. \A j \in 1..Len(stack) : stack[j] \in Frames
  BY Typed DEF Inv, Frames
<1>2. ASSUME NEW i \in 1..Len(t) PROVE FrameOK(t[i], mod, queue) /\ Busies(t[i]) = {}
  <2>1. Bare(t[i]) /\ ToSet(t[i].mods) = {}
    BY DEF Bare, ToSet
  <2> QED
    BY <2>1 DEF FrameOK, Bare, QuitAllOK, Busies
<1>3. \A i, j \in 1..Len(t) : i < j => t[j].op \notin {"quit", "quitAll"}
  OBVIOUS
<1> QED
  BY <1>1, <1>2, <1>3, PushUses DEF Inv

LEMMA BareCall ==
  ASSUME NEW op \in {"quitAll", "loadAll", "recycle", "stop"}
  PROVE  Call(op, <<>>) \in Frame /\ Call(op, <<>>).op = op /\ Bare(Call(op, <<>>))
BY DEF Call, Frame, NoModule, Bare

LEMMA RecycleUses ==
  ASSUME Inv, Inv', UseInv, NEW l, Request("recycle", l), Polite("recycle", l)
  PROVE  UseInv'
<1> DEFINE a == Call("quitAll", <<>>)
           b == Call("loadAll", <<>>)
           c == Call("recycle", <<>>)
           t == <<a, b, c>>
<1>1. stack' = t \o stack /\ UNCHANGED <<mod, queue>>
  BY DEF Request, Calls
<1>2. /\ a \in Frame /\ b \in Frame /\ c \in Frame
      /\ a.op = "quitAll" /\ b.op = "loadAll" /\ c.op = "recycle"
      /\ Bare(a) /\ Bare(b) /\ Bare(c)
  BY BareCall
<1> HIDE DEF a, b, c
<1>3. /\ t \in Seq(Frame)
      /\ \A i \in 1..Len(t) : /\ t[i].op \in {"quitAll", "loadAll", "recycle", "stop"}
                              /\ Bare(t[i]) /\ (t[i].op = "quitAll" => i = 1)
  BY <1>2
<1> HIDE DEF t
<1> QED
  BY <1>1, <1>3, QuitAllUses DEF Polite

LEMMA StopUses == ASSUME Inv, Inv', UseInv, Stop PROVE UseInv'
<1> DEFINE a == Call("quitAll", <<>>)
           b == Call("stop", <<>>)
           t == <<a, b>>
<1>1. stack = <<>> /\ stack' = t /\ UNCHANGED <<mod, queue>>
  BY DEF Stop
<1>2. /\ a \in Frame /\ b \in Frame /\ a.op = "quitAll" /\ b.op = "stop" /\ Bare(a) /\ Bare(b)
  BY BareCall
<1> HIDE DEF a, b
<1>3. /\ t \in Seq(Frame)
      /\ \A i \in 1..Len(t) : /\ t[i].op \in {"quitAll", "loadAll", "recycle", "stop"}
                              /\ Bare(t[i]) /\ (t[i].op = "quitAll" => i = 1)
  BY <1>2
<1> HIDE DEF t
<1>4. stack' = t \o stack
  BY <1>1, <1>3, ConcatEmptySeq
<1>5. Frames = {}
  BY <1>1 DEF Frames
<1> QED
  BY <1>1, <1>3, <1>4, <1>5, QuitAllUses
-----------------------------------------------------------------------------
(* Nothing deleted is used.                                                 *)

LEMMA InitUses == ASSUME Init PROVE UseInv
<1> DEFINE f == Call("loadAll", <<>>)
<1>1. mod = [o \in Modules |-> Unmade] /\ queue = <<>> /\ stack = <<f>>
  BY DEF Init
<1>2. f.op = "loadAll" /\ Bare(f)
  BY BareCall
<1> HIDE DEF f
<1>3. Len(stack) = 1 /\ stack[1] = f /\ ToSet(queue) = {}
  BY <1>1 DEF ToSet
<1>4. SaneInv
  BY <1>1 DEF SaneInv, Sane, Unmade
<1>5. FramesInv
  BY <1>2, <1>3 DEF FramesInv, FrameOK
<1>6. ApartInv /\ QueueInv
  BY <1>3 DEF ApartInv, QueueInv
<1> QED
  BY <1>4, <1>5, <1>6 DEF UseInv

LEMMA RequestUses ==
  ASSUME Inv, Inv', UseInv, NEW k \in Kinds, NEW l \in Locations, Request(k, l), Polite(k, l)
  PROVE  UseInv'
BY LoadRequestUses, RecycleUses

LEMMA IdlePolite == ASSUME NEW k, NEW l, NEW s, Idle(s) PROVE Polite(k, l)
<1>1. Frames = {}
  BY DEF Idle, Frames
<1> QED
  BY <1>1 DEF Polite, Busy

LEMMA UseInductive ==
  ASSUME Careless = FALSE, Inv, Inv', UseInv, [Next]_vars
  PROVE  UseInv'
<1>1. CASE UI
  BY <1>1, LoadAllUses, LoadModuleUses, DiscardUses, LoadFailsUses, StartNextUses, InitReturnsUses,
     StartWaitsUses, QuitModuleUses, QuitNextUses, QuitReturnsUses, QuitAllWaitsUses,
     WaitOneUses, DoneUses, RecycledUses DEF UI
<1>2. CASE Stop
  BY <1>2, StopUses
<1>3. ASSUME NEW l \in Locations, Idle(l) PROVE UseInv'
  <2>1. PICK k \in Kinds : Request(k, l)
    BY <1>3, ModuleAssumption DEF Idle
  <2> QED
    BY <1>3, <2>1, IdlePolite, RequestUses
<1>4. ASSUME NEW l \in Locations, Nested(l) PROVE UseInv'
  <2>1. PICK k \in Kinds : Request(k, l) /\ Polite(k, l)
    BY <1>4 DEF Nested
  <2> QED
    BY <2>1, RequestUses
<1>5. ASSUME NEW o \in Modules, ThreadInit(o) \/ ThreadLoop(o) PROVE UseInv'
  BY <1>5, ThreadUses
<1>6. CASE UNCHANGED vars
  BY <1>6 DEF vars, UseInv, SaneInv, FramesInv, ApartInv, QueueInv
<1> QED
  BY <1>1, <1>2, <1>3, <1>4, <1>5, <1>6 DEF Next

LEMMA UsesMade == ASSUME Inv, UseInv PROVE DeletedAfterUse
<1>1. \A o \in ToSet(queue) : mod[o].life = "made"
  BY DEF UseInv, QueueInv, Started
<1>2. ASSUME NEW i \in 1..Len(stack), NEW o \in ToSet(stack[i].mods) PROVE mod[o].life = "made"
  <2>1. stack[i] \in Frame /\ FrameOK(stack[i], mod, queue)
    BY Typed DEF Inv, UseInv, FramesInv
  <2>2. CASE stack[i].op = "start"
    BY <2>1, <2>2 DEF FrameOK, StartOK, NotStarted
  <2>3. CASE stack[i].op = "quit"
    <3>1. QuitOK(stack[i], mod) /\ DOMAIN stack[i].mods = 1..Len(stack[i].mods)
      BY <2>1, <2>3, BusiesModules DEF FrameOK
    <3>2. o = stack[i].mods[1]
      BY <3>1 DEF QuitOK, ToSet
    <3> QED
      BY <3>1, <3>2 DEF QuitOK, Started
  <2>4. CASE stack[i].op = "quitAll"
    BY <2>1, <2>4 DEF FrameOK, QuitAllOK, Started
  <2>5. CASE stack[i].op \in {"load", "loadAll", "recycle", "stop"}
    BY <2>1, <2>5 DEF FrameOK, Bare, ToSet
  <2> QED
    BY <2>1, <2>2, <2>3, <2>4, <2>5 DEF Frame
<1>3. \A f \in Frames : \A o \in ToSet(f.mods) : mod[o].life = "made"
  <2>1. DOMAIN stack = 1..Len(stack)
    BY Typed DEF Inv
  <2> QED
    BY <1>2, <2>1 DEF Frames
<1>4. \A o \in Modules : mod[o].quits <= mod[o].inits /\ mod[o].inits <= 1
  BY DEF UseInv, SaneInv, Sane
<1>5. \A o \in Modules : mod[o].life = "deleted" /\ mod[o].thread # "none" =>
                         mod[o].thread = "ended" /\ mod[o].quits = 1
  BY DEF UseInv, SaneInv, Sane
<1> QED
  BY <1>1, <1>3, <1>4, <1>5 DEF DeletedAfterUse

\* A Module object is deleted only when neither the queue nor a function on the stack, however
\* high it is, refers to it any more and its thread has ended, and initModule and quitModule
\* are called at most once each, in this order: TempQueue keeps what _QuitModules unloads, and
\* the wait for a thread that was asked to quit covers what comes after it
\* (ModuleManager.cpp:252-323, Module.cpp:332-430).
THEOREM UsedWhileMade == ASSUME Careless = FALSE PROVE Spec => []DeletedAfterUse
<1>1. Init => Inv /\ UseInv
  BY InitHolds, InitUses
<1>2. (Inv /\ UseInv) /\ [Next]_vars => (Inv /\ UseInv)'
  <2> SUFFICES ASSUME Inv, UseInv, [Next]_vars PROVE Inv' /\ UseInv'
    OBVIOUS
  <2>1. Inv'
    BY Inductive
  <2> QED
    BY <2>1, UseInductive
<1>3. Inv /\ UseInv => DeletedAfterUse
  BY UsesMade
<1> QED
  BY <1>1, <1>2, <1>3, PTL DEF Spec
-----------------------------------------------------------------------------
(* A recycle and Stop unload all.                                           *)

\* What is below an unloading of all is in no initModule or quitModule.
CoverInv ==
  \A i \in 1..Len(stack) : stack[i].op = "quitAll" =>
    \A j \in (i + 1)..Len(stack) : stack[j].call = NoModule
\* What is loaded while the threads are waited for is marked as late.
AddedInv ==
  \A i \in 1..Len(stack) : stack[i].op = "quitAll" /\ stack[i].at = "wait" =>
    /\ \A o \in ToSet(queue) : mod[o].late
    /\ \A k \in 1..(i - 1) : stack[k].op = "start" => \A o \in Busies(stack[k]) : mod[o].late
\* All is loaded again, and Stop goes on, only after all has been unloaded.
FollowInv ==
  \A i \in 2..Len(stack) : stack[i].op \in {"loadAll", "stop"} => stack[i - 1].op = "quitAll"
EmptiedInv ==
  stack # <<>> /\ Top.op \in {"loadAll", "stop"} => \A o \in Present : mod[o].late

LateInv == CoverInv /\ AddedInv /\ FollowInv /\ EmptiedInv

\* A step makes no module late that was not, but for those it makes.
KeepsLate == \A o \in Modules : mod[o].life # "unmade" => mod'[o].late = mod[o].late

LEMMA QueueMade ==
  ASSUME Inv, UseInv, NEW o \in ToSet(queue)
  PROVE  o \in Modules /\ mod[o].life # "unmade"
BY Typed DEF Inv, UseInv, QueueInv, Started

LEMMA TopLate ==
  ASSUME Inv, UseInv, LateInv, Running, NEW g \in Frame, Becomes(g), KeepsLate,
         g.op = Top.op \/ (g.op = "start" /\ Top.op \in {"load", "loadAll"}),
         g.op \notin {"loadAll", "stop"},
         \A o \in ToSet(queue') : o \in ToSet(queue) \/ (Top.op = "start" /\ o \in Busies(Top)),
         g.op = "quitAll" /\ g.at = "wait" => Top.at = "wait" \/ queue' = <<>>,
         g.op = "start" => \A o \in Busies(g) :
           \/ Top.op = "start" /\ o \in Busies(Top)
           \/ (\E f \in Frames : f.op = "quitAll") => mod'[o].late
  PROVE  LateInv'
<1>1. /\ Len(stack) \in Nat \ {0} /\ Top = stack[1] /\ Top \in Frame
      /\ Len(stack') = Len(stack) /\ stack'[1] = g /\ stack' # <<>>
      /\ \A i \in 2..Len(stack) : stack'[i] = stack[i]
  BY TopFrame, BecomesFrame DEF Inv
<1>2. \A i \in 1..Len(stack) : i = 1 \/ i \in 2..Len(stack)
  BY <1>1
<1>3. CoverInv'
  <2> SUFFICES ASSUME NEW i \in 1..Len(stack), stack'[i].op = "quitAll",
                      NEW j \in (i + 1)..Len(stack)
               PROVE  stack'[j].call = NoModule
    BY <1>1 DEF CoverInv
  <2>1. j \in 2..Len(stack) /\ stack[i].op = "quitAll"
    BY <1>1, <1>2
  <2> QED
    BY <1>1, <2>1 DEF LateInv, CoverInv
<1>4. AddedInv'
  <2> SUFFICES ASSUME NEW i \in 1..Len(stack), stack'[i].op = "quitAll", stack'[i].at = "wait"
               PROVE  /\ \A o \in ToSet(queue') : mod'[o].late
                      /\ \A k \in 1..(i - 1) : stack'[k].op = "start" =>
                           \A o \in Busies(stack'[k]) : mod'[o].late
    BY <1>1 DEF AddedInv
  <2>1. CASE i = 1
    <3>1. 1..(i - 1) = {} /\ g.op = "quitAll" /\ g.at = "wait" /\ Top.op = "quitAll"
      BY <1>1, <2>1
    <3>2. ASSUME NEW o \in ToSet(queue') PROVE mod'[o].late
      <4>1. queue' # <<>>
        BY <3>2 DEF ToSet
      <4>2. o \in ToSet(queue) /\ 1 \in 1..Len(stack) /\ Top.at = "wait"
        BY <1>1, <3>1, <4>1
      <4>3. mod[o].late
        BY <1>1, <3>1, <4>2 DEF LateInv, AddedInv
      <4> QED
        BY <4>2, <4>3, QueueMade DEF KeepsLate
    <3> QED
      BY <3>1, <3>2
  <2>2. CASE i \in 2..Len(stack)
    <3>1. /\ stack[i].op = "quitAll" /\ stack[i].at = "wait" /\ 1 \in 1..(i - 1)
          /\ \E f \in Frames : f.op = "quitAll"
      <4>1. stack[i] \in Frames
        BY Typed DEF Inv, Frames
      <4> QED
        BY <1>1, <2>2, <4>1
    <3>2. \A o \in ToSet(queue) : mod'[o].late
      BY <3>1, QueueMade DEF KeepsLate, LateInv, AddedInv
    <3>3. ASSUME NEW k \in 1..(i - 1), stack[k].op = "start", NEW o \in Busies(stack[k])
          PROVE  mod'[o].late
      <4>1. k \in 1..Len(stack)
        BY <1>1
      <4>2. mod[o].late
        BY <3>1, <3>3 DEF LateInv, AddedInv
      <4> QED
        BY <3>3, <4>1, <4>2, BusyMade DEF KeepsLate
    <3>4. \A o \in ToSet(queue') : mod'[o].late
      BY <1>1, <3>1, <3>2, <3>3
    <3>5. ASSUME NEW k \in 1..(i - 1), stack'[k].op = "start", NEW o \in Busies(stack'[k])
          PROVE  mod'[o].late
      <4>1. CASE k = 1
        BY <1>1, <3>1, <3>3, <3>5, <4>1
      <4>2. CASE k # 1
        <5>1. stack'[k] = stack[k]
          BY <1>1, <4>2
        <5> QED
          BY <3>3, <3>5, <5>1
      <4> QED
        BY <4>1, <4>2
    <3> QED
      BY <3>4, <3>5
  <2> QED
    BY <1>2, <2>1, <2>2
<1>5. FollowInv'
  <2> SUFFICES ASSUME NEW i \in 2..Len(stack), stack'[i].op \in {"loadAll", "stop"}
               PROVE  stack'[i - 1].op = "quitAll"
    BY <1>1 DEF FollowInv
  <2>1. stack[i - 1].op = "quitAll" /\ i - 1 \in 1..Len(stack)
    BY <1>1 DEF LateInv, FollowInv
  <2> QED
    BY <1>1, <1>2, <2>1
<1>6. EmptiedInv'
  <2>1. Top' = g
    <3>1. stack' \in Seq(Frame)
      BY BecomesFrame DEF Inv
    <3> QED
      BY <1>1, <3>1, Stacked DEF Top
  <2> QED
    BY <2>1 DEF EmptiedInv
<1> QED
  BY <1>3, <1>4, <1>5, <1>6 DEF LateInv

LEMMA PopLate ==
  ASSUME Inv, UseInv, LateInv, Running, Return, KeepsLate,
         ToSet(queue') \subseteq ToSet(queue), Top.op = "quitAll" => Top.at = "wait"
  PROVE  LateInv'
<1>1. /\ Len(stack) \in Nat \ {0} /\ Top = stack[1] /\ stack' \in Seq(Frame)
      /\ Len(stack') = Len(stack) - 1
      /\ \A i \in 1..(Len(stack) - 1) : stack'[i] = stack[i + 1]
  BY Stacked DEF Inv, TypeOK, Running, Top, Return
<1>2. CoverInv'
  <2> SUFFICES ASSUME NEW i \in 1..Len(stack'), stack'[i].op = "quitAll",
                      NEW j \in (i + 1)..Len(stack')
               PROVE  stack'[j].call = NoModule
    BY DEF CoverInv
  <2>1. /\ stack'[i] = stack[i + 1] /\ stack'[j] = stack[j + 1]
        /\ i + 1 \in 1..Len(stack) /\ j + 1 \in ((i + 1) + 1)..Len(stack)
    BY <1>1
  <2> QED
    BY <2>1 DEF LateInv, CoverInv
<1>3. AddedInv'
  <2> SUFFICES ASSUME NEW i \in 1..Len(stack'), stack'[i].op = "quitAll", stack'[i].at = "wait"
               PROVE  /\ \A o \in ToSet(queue') : mod'[o].late
                      /\ \A k \in 1..(i - 1) : stack'[k].op = "start" =>
                           \A o \in Busies(stack'[k]) : mod'[o].late
    BY DEF AddedInv
  <2>1. stack'[i] = stack[i + 1] /\ i + 1 \in 1..Len(stack)
    BY <1>1
  <2>2. \A o \in ToSet(queue') : mod'[o].late
    BY <2>1, QueueMade DEF KeepsLate, LateInv, AddedInv
  <2>3. ASSUME NEW k \in 1..(i - 1), stack'[k].op = "start", NEW o \in Busies(stack'[k])
        PROVE  mod'[o].late
    <3>1. stack'[k] = stack[k + 1] /\ k + 1 \in 1..((i + 1) - 1) /\ k + 1 \in 1..Len(stack)
      BY <1>1
    <3>2. mod[o].late
      BY <2>1, <2>3, <3>1 DEF LateInv, AddedInv
    <3> QED
      BY <2>3, <3>1, <3>2, BusyMade DEF KeepsLate
  <2> QED
    BY <2>2, <2>3
<1>4. FollowInv'
  <2> SUFFICES ASSUME NEW i \in 2..Len(stack'), stack'[i].op \in {"loadAll", "stop"}
               PROVE  stack'[i - 1].op = "quitAll"
    BY DEF FollowInv
  <2>1. /\ stack'[i] = stack[i + 1] /\ stack'[i - 1] = stack[i] /\ i + 1 \in 2..Len(stack)
        /\ (i + 1) - 1 = i
    <3>1. i \in 1..(Len(stack) - 1) /\ i - 1 \in 1..(Len(stack) - 1) /\ (i - 1) + 1 = i
          /\ i + 1 \in 2..Len(stack) /\ (i + 1) - 1 = i
      BY <1>1
    <3> QED
      BY <1>1, <3>1
  <2> QED
    BY <2>1 DEF LateInv, FollowInv
<1>5. EmptiedInv'
  <2> SUFFICES ASSUME stack' # <<>>, Top'.op \in {"loadAll", "stop"}, NEW o \in Present'
               PROVE  mod'[o].late
    BY DEF EmptiedInv
  <2>1. Len(stack) - 1 \in Nat \ {0} /\ Top' = stack[2] /\ 2 \in 2..Len(stack) /\ 1 \in 1..Len(stack)
    <3>1. Len(stack') \in Nat \ {0} /\ Head(stack') = stack'[1]
      BY <1>1, Stacked
    <3> QED
      BY <1>1, <3>1 DEF Top
  <2>2. stack[1].op = "quitAll"
    <3>1. stack[2 - 1].op = "quitAll"
      BY <2>1 DEF LateInv, FollowInv
    <3> QED
      BY <3>1
  <2>3. stack[1].at = "wait"
    BY <1>1, <2>2
  <2>4. ASSUME NEW i \in 1..Len(stack') PROVE Holds(stack'[i]) = {}
    <3>1. stack'[i] = stack[i + 1] /\ i + 1 \in (1 + 1)..Len(stack) /\ i + 1 \in 1..Len(stack) /\ 1 < i + 1
      BY <1>1
    <3>2. stack[i + 1].call = NoModule
      BY <2>1, <2>2, <3>1 DEF LateInv, CoverInv
    <3>3. stack[i + 1].op # "quitAll"
      BY <2>1, <2>2, <3>1 DEF UseInv, ApartInv
    <3> QED
      BY <3>1, <3>2, <3>3 DEF Holds
  <2>5. o \in ToSet(queue)
    BY <2>4 DEF Present
  <2>6. mod[o].late
    BY <2>1, <2>2, <2>3, <2>5 DEF LateInv, AddedInv
  <2> QED
    BY <2>5, <2>6, QueueMade DEF KeepsLate
<1> QED
  BY <1>2, <1>3, <1>4, <1>5 DEF LateInv

LEMMA PushLate ==
  ASSUME Inv, UseInv, LateInv, NEW t \in Seq(Frame), t # <<>>, stack' = t \o stack,
         UNCHANGED <<mod, queue>>,
         \A i \in 1..Len(t) :
           /\ t[i].op # "start" /\ t[i].at = "begin" /\ t[i].call = NoModule
           /\ t[i].op = "quitAll" => \A j \in 1..Len(stack) : stack[j].call = NoModule
           /\ t[i].op \in {"loadAll", "stop"} => i # 1 /\ t[i - 1].op = "quitAll",
         Running => Top.op \notin {"loadAll", "stop"}
  PROVE  LateInv'
<1> DEFINE n == Len(t)
<1>1. /\ Len(stack') = n + Len(stack) /\ n \in Nat \ {0} /\ Len(stack) \in Nat
      /\ stack' \in Seq(Frame)
      /\ \A i \in 1..n : stack'[i] = t[i]
      /\ \A i \in 1..Len(stack) : stack'[n + i] = stack[i]
  BY Joined, Stacked DEF Inv, TypeOK
<1>2. ASSUME NEW i \in 1..Len(stack')
      PROVE  \/ i \in 1..n /\ stack'[i] = t[i]
             \/ i > n /\ i - n \in 1..Len(stack) /\ stack'[i] = stack[i - n]
  <2>1. CASE i <= n
    BY <1>1, <2>1
  <2>2. CASE i > n
    <3>1. i - n \in 1..Len(stack) /\ n + (i - n) = i
      BY <1>1, <2>2
    <3> QED
      BY <1>1, <2>2, <3>1
  <2> QED
    BY <1>1, <2>1, <2>2
<1>3. CoverInv'
  <2> SUFFICES ASSUME NEW i \in 1..Len(stack'), stack'[i].op = "quitAll",
                      NEW j \in (i + 1)..Len(stack')
               PROVE  stack'[j].call = NoModule
    BY DEF CoverInv
  <2>0. j \in 1..Len(stack') /\ i < j
    BY <1>1
  <2>1. CASE j \in 1..n
    BY <1>1, <2>1
  <2>2. CASE i \in 1..n /\ j > n
    BY <1>1, <1>2, <2>0, <2>2
  <2>3. CASE i > n /\ j > n
    <3>1. /\ j - n \in ((i - n) + 1)..Len(stack) /\ stack'[j] = stack[j - n]
          /\ i - n \in 1..Len(stack) /\ stack'[i] = stack[i - n]
      BY <1>1, <1>2, <2>0, <2>3
    <3> QED
      BY <3>1 DEF LateInv, CoverInv
  <2>4. (i \in 1..n \/ i > n) /\ (j \in 1..n \/ j > n)
    BY <1>1, <2>0
  <2> QED
    BY <2>1, <2>2, <2>3, <2>4
<1>4. AddedInv'
  <2> SUFFICES ASSUME NEW i \in 1..Len(stack'), stack'[i].op = "quitAll", stack'[i].at = "wait"
               PROVE  /\ \A o \in ToSet(queue) : mod[o].late
                      /\ \A k \in 1..(i - 1) : stack'[k].op = "start" =>
                           \A o \in Busies(stack'[k]) : mod[o].late
    BY DEF AddedInv
  <2>1. i > n /\ i - n \in 1..Len(stack) /\ stack'[i] = stack[i - n]
    BY <1>1, <1>2
  <2>2. ASSUME NEW k \in 1..(i - 1), stack'[k].op = "start", NEW o \in Busies(stack'[k])
        PROVE  mod[o].late
    <3>1. k \in 1..Len(stack') /\ k \notin 1..n
      BY <1>1, <2>1, <2>2
    <3>2. stack'[k] = stack[k - n] /\ k - n \in 1..((i - n) - 1)
      BY <1>1, <1>2, <2>1, <3>1
    <3> QED
      BY <2>1, <2>2, <3>2 DEF LateInv, AddedInv
  <2> QED
    BY <2>1, <2>2 DEF LateInv, AddedInv
<1>5. FollowInv'
  <2> SUFFICES ASSUME NEW i \in 2..Len(stack'), stack'[i].op \in {"loadAll", "stop"}
               PROVE  stack'[i - 1].op = "quitAll"
    BY DEF FollowInv
  <2>0. i \in 1..Len(stack') /\ i - 1 \in 1..Len(stack')
    BY <1>1
  <2>1. CASE i \in 1..n
    <3>1. i - 1 \in 1..n
      BY <1>1, <2>1
    <3> QED
      BY <1>1, <2>1, <3>1
  <2>2. CASE i > n
    <3>1. i - n \in 1..Len(stack) /\ stack'[i] = stack[i - n]
      BY <1>1, <1>2, <2>0, <2>2
    <3>2. i - n # 1
      <4> SUFFICES ASSUME i - n = 1 PROVE FALSE
        OBVIOUS
      <4>1. stack # <<>>
        BY <1>1, <3>1, EmptySeq
      <4>2. Running /\ Top = stack[1]
        BY <4>1, TopFrame DEF Running, Inv
      <4> QED
        BY <3>1, <4>2
    <3>3. i - n \in 2..Len(stack) /\ i - 1 > n /\ (i - 1) - n = (i - n) - 1
      BY <1>1, <2>2, <3>1, <3>2
    <3>4. stack'[i - 1] = stack[(i - n) - 1]
      BY <1>1, <1>2, <2>0, <3>3
    <3> QED
      BY <3>1, <3>3, <3>4 DEF LateInv, FollowInv
  <2> QED
    BY <1>1, <2>0, <2>1, <2>2
<1>6. EmptiedInv'
  <2>1. stack' # <<>> /\ Top' = t[1] /\ 1 \in 1..n
    <3>1. stack' # <<>>
      BY <1>1, EmptySeq
    <3> QED
      BY <1>1, <3>1, Stacked DEF Top
  <2> QED
    BY <2>1 DEF EmptiedInv
<1> QED
  BY <1>3, <1>4, <1>5, <1>6 DEF LateInv
-----------------------------------------------------------------------------
LEMMA DeleteLate == ASSUME TypeOK, NEW ms, mod' = Delete(ms) PROVE KeepsLate
<1> SUFFICES ASSUME NEW o \in Modules PROVE mod'[o].late = mod[o].late
  BY DEF KeepsLate
<1>1. mod[o] \in Module
  BY DEF TypeOK
<1>2. [mod[o] EXCEPT !.life = "deleted"].late = mod[o].late
  BY <1>1 DEF Module
<1> QED
  BY <1>2 DEF Delete

LEMMA QuitLate == ASSUME TypeOK, NEW o \in Modules, mod' = Quit(o) PROVE KeepsLate
<1>1. mod \in [Modules -> Module] /\ mod[o] \in Module
  BY DEF TypeOK
<1>2. CASE mod[o].thr
  <2> DEFINE n == IF mod[o].hasQueue THEN mod[o].posted + 1 ELSE mod[o].posted
             r == [mod[o] EXCEPT !.taken = TRUE, !.posted = n]
  <2>1. mod' = [mod EXCEPT ![o] = r]
    BY <1>1, <1>2 DEF Quit
  <2> HIDE DEF n
  <2>2. r.late = mod[o].late
    BY <1>1 DEF Module
  <2> HIDE DEF r
  <2> QED
    BY <1>1, <2>1, <2>2 DEF KeepsLate
<1>3. CASE ~mod[o].thr
  <2> DEFINE r == [mod[o] EXCEPT !.quits = @ + 1]
  <2>1. mod' = [mod EXCEPT ![o] = r]
    BY <1>1, <1>3 DEF Quit
  <2>2. r.late = mod[o].late
    BY <1>1 DEF Module
  <2> HIDE DEF r
  <2> QED
    BY <1>1, <2>1, <2>2 DEF KeepsLate
<1> QED
  BY <1>2, <1>3

LEMMA QuietLate ==
  ASSUME Inv, UseInv, LateInv, StartWaits \/ WaitOne \/ QuitReturns
  PROVE  LateInv'
<1>1. PICK g \in Frame :
        /\ Running /\ Becomes(g) /\ UNCHANGED <<mod, queue>> /\ g.op = Top.op
        /\ g.mods = Top.mods /\ g.call \in {Top.call, NoModule}
        /\ Top.op # "quitAll" \/ g.at = Top.at
        /\ Top.op \notin {"loadAll", "stop"}
  <2>1. CASE StartWaits
    <3> DEFINE g == [Top EXCEPT !.at = "wait"]
    <3>1. /\ Running /\ Becomes(g) /\ UNCHANGED <<mod, queue>> /\ Top.op = "start"
      BY <2>1 DEF StartWaits, Starting
    <3>2. g \in Frame /\ g.op = Top.op /\ g.mods = Top.mods /\ g.call = Top.call
      BY <3>1, TopFrame DEF Inv, Frame
    <3> QED
      BY <3>1, <3>2
  <2>2. CASE WaitOne
    <3>1. PICK o \in Top.waits : Becomes([Top EXCEPT !.waits = @ \ {o}])
      BY <2>2 DEF WaitOne
    <3> DEFINE g == [Top EXCEPT !.waits = @ \ {o}]
    <3>2. /\ Running /\ Becomes(g) /\ UNCHANGED <<mod, queue>> /\ Top.at = "wait"
      BY <2>2, <3>1 DEF WaitOne, Waiting
    <3>3. g \in Frame /\ g.op = Top.op /\ g.mods = Top.mods /\ g.call = Top.call /\ g.at = Top.at
      BY <3>2, TopFrame DEF Inv, Frame
    <3>4. Top.op \notin {"loadAll", "stop"}
      BY <3>2, TopUse DEF FrameOK, Bare
    <3> QED
      BY <3>2, <3>3, <3>4
  <2>3. CASE QuitReturns
    <3> DEFINE g == [Top EXCEPT !.call = NoModule]
    <3>1. /\ Running /\ Becomes(g) /\ UNCHANGED <<mod, queue>> /\ Top.op \in {"quit", "quitAll"}
      BY <2>3 DEF QuitReturns
    <3>2. g \in Frame /\ g.op = Top.op /\ g.mods = Top.mods /\ g.call = NoModule /\ g.at = Top.at
      BY <3>1, TopFrame DEF Inv, Frame
    <3> QED
      BY <3>1, <3>2
  <2> QED
    BY <2>1, <2>2, <2>3
<1>2. KeepsLate /\ Busies(g) \subseteq Busies(Top)
  BY <1>1 DEF KeepsLate, Busies
<1> QED
  BY <1>1, <1>2, TopLate

LEMMA StartLate ==
  ASSUME Inv, UseInv, LateInv, Discard \/ InitReturns \/ StartNext \/ LoadFails
  PROVE  LateInv'
<1>1. Running /\ Top.op = "start" /\ Top \in Frame
  BY TopFrame DEF Discard, InitReturns, StartNext, LoadFails, Starting, Inv
<1>2. /\ Busies(Top) \subseteq Modules /\ Top.mods \in Seq(Modules)
      /\ Top.call \in Modules \cup {NoModule} /\ mod \in [Modules -> Module]
  BY <1>1, TopUse, TopFrame DEF Inv, TypeOK
<1>3. Top.mods # <<>> => /\ Tail(Top.mods) \in Seq(Modules)
                         /\ ToSet(Tail(Top.mods)) \subseteq ToSet(Top.mods)
                         /\ Head(Top.mods) \in ToSet(Top.mods) /\ Head(Top.mods) \in Modules
  <2>1. StartOK(Top, mod, queue)
    BY <1>1, TopUse DEF FrameOK
  <2> QED
    BY <1>2, <2>1, NextStart DEF StartOK
<1>4. CASE Discard
  <2> DEFINE g == [Top EXCEPT !.mods = Tail(@)]
             ms == {Head(Top.mods)}
  <2>1. Becomes(g) /\ queue' = queue /\ mod' = Delete(ms) /\ Top.mods # <<>>
    BY <1>4 DEF Discard, Starting
  <2>2. g \in Frame /\ g.op = "start" /\ g.mods = Tail(Top.mods) /\ g.call = Top.call
    BY <1>1, <1>3, <2>1 DEF Frame
  <2> HIDE DEF g, ms
  <2>3. KeepsLate /\ Busies(g) \subseteq Busies(Top)
    BY <1>3, <2>1, <2>2, DeleteLate DEF Inv, Busies
  <2> QED
    BY <1>1, <2>1, <2>2, <2>3, TopLate
<1>5. CASE InitReturns
  <2> DEFINE g == [Top EXCEPT !.call = NoModule]
             ms == {Top.call}
  <2>1. Becomes(g) /\ Top.call # NoModule
        /\ \/ queue' = Append(queue, Top.call) /\ mod' = mod
           \/ queue' = queue /\ mod' = Delete(ms)
    BY <1>5 DEF InitReturns
  <2>2. g \in Frame /\ g.op = "start" /\ g.mods = Top.mods /\ g.call = NoModule
    BY <1>1 DEF Frame
  <2> HIDE DEF g, ms
  <2>3. KeepsLate
    BY <2>1, DeleteLate DEF Inv, KeepsLate
  <2>4. \A o \in ToSet(queue') : o \in ToSet(queue) \/ o \in Busies(Top)
    <3>1. TypeOK /\ Top.call \in Modules /\ Top.call \in Busies(Top)
      BY <1>2, <2>1 DEF Inv, Busies
    <3>2. ToSet(Append(queue, Top.call)) = ToSet(queue) \cup {Top.call}
      BY <3>1, Appended
    <3> QED
      BY <2>1, <3>1, <3>2
  <2>5. Busies(g) \subseteq Busies(Top)
    BY <2>2 DEF Busies
  <2> QED
    BY <1>1, <2>1, <2>2, <2>3, <2>4, <2>5, TopLate
<1>6. CASE StartNext
  <2>1. PICK o \in Modules : o = Head(Top.mods) /\ o \in ToSet(Top.mods) /\ Top.mods # <<>>
    BY <1>3, <1>6 DEF StartNext, Starting
  <2>2. CASE mod[o].thr
    <3> DEFINE g == [Top EXCEPT !.mods = Tail(@), !.waits = @ \cup {o}]
               r == [mod[o] EXCEPT !.thread = "init", !.hasQueue = WithQueue]
    <3>1. Becomes(g) /\ queue' = Append(queue, o) /\ mod' = [mod EXCEPT ![o] = r]
      BY <1>2, <1>6, <2>1, <2>2 DEF StartNext
    <3>2. r.late = mod[o].late
      BY <1>2 DEF Module
    <3>3. g \in Frame /\ g.op = "start" /\ g.mods = Tail(Top.mods) /\ g.call = Top.call
      BY <1>1, <1>3, <2>1 DEF Frame
    <3> HIDE DEF g, r
    <3>4. KeepsLate
      BY <1>2, <3>1, <3>2 DEF KeepsLate
    <3>5. \A p \in ToSet(queue') : p \in ToSet(queue) \/ p \in Busies(Top)
      BY <2>1, <3>1, Appended DEF Inv, Busies
    <3>6. Busies(g) \subseteq Busies(Top)
      BY <1>3, <2>1, <3>3 DEF Busies
    <3> QED
      BY <1>1, <3>1, <3>3, <3>4, <3>5, <3>6, TopLate
  <2>3. CASE ~mod[o].thr
    <3> DEFINE g == [Top EXCEPT !.mods = Tail(@), !.call = o]
               r == [mod[o] EXCEPT !.inits = @ + 1]
    <3>1. Becomes(g) /\ queue' = queue /\ mod' = [mod EXCEPT ![o] = r]
      BY <1>2, <1>6, <2>1, <2>3 DEF StartNext
    <3>2. r.late = mod[o].late
      BY <1>2 DEF Module
    <3>3. g \in Frame /\ g.op = "start" /\ g.mods = Tail(Top.mods) /\ g.call = o
      BY <1>1, <1>3, <2>1 DEF Frame
    <3> HIDE DEF g, r
    <3>4. KeepsLate
      BY <1>2, <3>1, <3>2 DEF KeepsLate
    <3>5. Busies(g) \subseteq Busies(Top)
      BY <1>3, <2>1, <3>3 DEF Busies
    <3> QED
      BY <1>1, <3>1, <3>3, <3>4, <3>5, TopLate
  <2> QED
    BY <2>2, <2>3
<1>7. CASE LoadFails
  <2> DEFINE g == [Top EXCEPT !.mods = Tail(@), !.call = Head(Top.mods)]
  <2>1. Becomes(g) /\ queue' = queue /\ mod' = mod /\ Top.mods # <<>>
    BY <1>7 DEF LoadFails
  <2>2. g \in Frame /\ g.op = "start" /\ g.mods = Tail(Top.mods) /\ g.call = Head(Top.mods)
    BY <1>1, <1>3, <2>1 DEF Frame
  <2> HIDE DEF g
  <2>3. KeepsLate /\ Busies(g) \subseteq Busies(Top)
    BY <1>3, <2>1, <2>2 DEF KeepsLate, Busies
  <2> QED
    BY <1>1, <2>1, <2>2, <2>3, TopLate
<1> QED
  BY <1>4, <1>5, <1>6, <1>7

LEMMA QuitsLate ==
  ASSUME Inv, UseInv, LateInv, QuitModule \/ QuitNext \/ QuitAllWaits
  PROVE  LateInv'
<1>1. Running /\ Top.op \in {"quit", "quitAll"} /\ Top.at = "begin"
  BY DEF QuitModule, QuitNext, QuitAllWaits, QuitLoop
<1>2. Top \in Frame /\ Top.mods \in Seq(Modules)
  BY <1>1, TopFrame DEF Inv
<1>3. CASE QuitModule
  <2> DEFINE h == [Top EXCEPT !.at = "wait"]
             o == Head(Top.mods)
             g == Quitting(h, o)
  <2>1. Becomes(g) /\ queue' = queue /\ mod' = Quit(o) /\ Top.op = "quit"
    BY <1>3 DEF QuitModule
  <2>2. o \in Modules
    <3>1. QuitOK(Top, mod)
      BY <1>1, <2>1, TopUse DEF FrameOK
    <3>2. Top.mods # <<>>
      BY <3>1 DEF QuitOK
    <3> QED
      BY <1>2, <3>2, Stacked
  <2>3. h \in Frame /\ h.op = "quit"
    BY <1>2, <2>1 DEF Frame
  <2> HIDE DEF h, o
  <2>4. KeepsLate /\ g \in Frame /\ g.op = "quit"
    BY <2>1, <2>2, <2>3, QuitQuiet, QuitLate DEF Inv
  <2> HIDE DEF g
  <2> QED
    BY <1>1, <2>1, <2>4, TopLate
<1>4. CASE QuitNext
  <2>1. QuitLoop /\ ~Lost /\ Left # <<>> /\ queue' = queue /\ Top.op = "quitAll"
    BY <1>4 DEF QuitNext, QuitLoop
  <2>2. PICK o \in Modules : o = Last(Left)
    BY <2>1, NextQuit
  <2> DEFINE h == [Top EXCEPT !.mods = Append(@, o)]
             g == Quitting(h, o)
  <2>3. Becomes(g) /\ mod' = Quit(o)
    BY <1>4, <2>2 DEF QuitNext
  <2>4. h \in Frame /\ h.op = "quitAll" /\ h.at = "begin"
    <3>1. Append(Top.mods, o) \in Seq(Modules)
      BY <1>2, AppendProperties
    <3> QED
      BY <1>1, <1>2, <2>1, <3>1 DEF Frame
  <2> HIDE DEF h
  <2>5. KeepsLate /\ g \in Frame /\ g.op = "quitAll" /\ g.at = "begin"
    BY <2>3, <2>4, QuitQuiet, QuitLate DEF Inv
  <2> HIDE DEF g
  <2> QED
    BY <1>1, <2>1, <2>3, <2>5, TopLate
<1>5. CASE QuitAllWaits
  <2> DEFINE g == [Top EXCEPT !.at = "wait"]
  <2>1. Becomes(g) /\ queue' = <<>> /\ mod' = mod /\ Top.op = "quitAll"
    BY <1>5 DEF QuitAllWaits, QuitLoop
  <2>2. g \in Frame /\ g.op = "quitAll"
    BY <1>2, <2>1 DEF Frame
  <2> HIDE DEF g
  <2>3. KeepsLate /\ ToSet(queue') = {}
    BY <2>1 DEF KeepsLate, ToSet
  <2> QED
    BY <1>1, <2>1, <2>2, <2>3, TopLate
<1> QED
  BY <1>3, <1>4, <1>5

LEMMA LoadLate ==
  ASSUME Inv, UseInv, LateInv, Running, Top.op \in {"load", "loadAll"}, NEW list \in Seq(Entries),
         Len(list) = IF Top.op = "load" THEN 1 ELSE Len(Configured),
         mod' = Make(list), queue' = queue, Becomes(Call("start", Fresh(Len(list))))
  PROVE  LateInv'
<1> DEFINE t == Fresh(Len(list))
           g == Call("start", t)
<1>1. stack \in Seq(Frame) /\ stack # <<>> /\ Head(stack) = Top
  BY DEF Inv, TypeOK, Running, Top
<1>2. Made + Len(list) <= MaxModules
  <2>1. Made + Loads(stack) <= MaxModules /\ Made \in Nat /\ MaxModules \in Nat /\ Len(list) \in Nat
    BY MadeNat, LenProperties DEF Inv, BoundInv
  <2>2. Loads(stack) = Loads(Tail(stack)) + Len(list) /\ Loads(Tail(stack)) \in Nat
    BY <1>1, LoadsTail
  <2> QED
    BY <2>1, <2>2
<1>3. /\ \A o \in Modules : o \in ToSet(t) \/ mod'[o] = mod[o]
      /\ \A o \in ToSet(t) : mod[o].life = "unmade"
      /\ \A o \in ToSet(t) : (\E f \in Frames : f.op = "quitAll") => mod'[o].late
  BY <1>2, MakeNew DEF Inv
<1>4. t \in Seq(Modules)
  BY <1>2, MakeSpec DEF Inv
<1> HIDE DEF t
<1>5. g \in Frame /\ g.op = "start" /\ Busies(g) = ToSet(t)
  BY <1>4 DEF Call, Frame, Busies
<1>6. Becomes(g)
  BY DEF t
<1> HIDE DEF g
<1>7. KeepsLate
  BY <1>3 DEF KeepsLate
<1> QED
  BY <1>3, <1>5, <1>6, <1>7, TopLate

LEMMA LoadsLate == ASSUME Inv, UseInv, LateInv, LoadModule \/ LoadAll PROVE LateInv'
<1>1. CASE LoadModule
  <2> DEFINE list == <<[loc |-> Top.loc, thr |-> Top.thr]>>
  <2>1. Running /\ Top.op = "load" /\ mod' = Make(list) /\ queue' = queue
        /\ Becomes(Call("start", Fresh(1)))
    BY <1>1 DEF LoadModule
  <2>2. Top.loc \in Locations \cup {None} /\ Top.thr \in BOOLEAN
    BY <2>1, TopFrame DEF Inv
  <2>3. list \in Seq(Entries) /\ Len(list) = 1
    BY <2>2 DEF Entries
  <2> HIDE DEF list
  <2> QED
    BY <2>1, <2>3, LoadLate
<1>2. CASE LoadAll
  <2>1. Running /\ Top.op = "loadAll" /\ mod' = Make(Configured) /\ queue' = queue
        /\ Becomes(Call("start", Fresh(Len(Configured))))
    BY <1>2 DEF LoadAll
  <2>2. Configured \in Seq(Entries)
    <3>1. [loc : Locations, thr : BOOLEAN] \subseteq Entries
      BY DEF Entries
    <3> QED
      BY <3>1, ModuleAssumption, SeqMonotonic
  <2> QED
    BY <2>1, <2>2, LoadLate
<1> QED
  BY <1>1, <1>2

LEMMA ReturnsLate == ASSUME Inv, UseInv, LateInv, Done \/ Recycled PROVE LateInv'
<1>1. CASE Done
  <2>1. Running /\ Return /\ Top.at = "wait"
    BY <1>1 DEF Done, Waiting
  <2>2. KeepsLate
    <3>1. CASE Top.op = "start"
      BY <1>1, <3>1 DEF Done, KeepsLate
    <3>2. CASE Top.op # "start"
      BY <1>1, <3>2, DeleteLate DEF Done, Inv
    <3> QED
      BY <3>1, <3>2
  <2>3. ToSet(queue') \subseteq ToSet(queue)
    <3>1. CASE Top.op = "quit"
      BY <1>1, <3>1, ErasedShrinks DEF Done, Inv, Shrinks
    <3>2. CASE Top.op # "quit"
      BY <1>1, <3>2 DEF Done
    <3> QED
      BY <3>1, <3>2
  <2> QED
    BY <2>1, <2>2, <2>3, PopLate
<1>2. CASE Recycled
  <2>1. Running /\ Return /\ Top.op = "recycle" /\ UNCHANGED <<mod, queue>> /\ KeepsLate
    BY <1>2 DEF Recycled, KeepsLate
  <2> QED
    BY <2>1, PopLate
<1> QED
  BY <1>1, <1>2

LEMMA ThreadLate ==
  ASSUME Inv, UseInv, LateInv, NEW o \in Modules, ThreadInit(o) \/ ThreadLoop(o)
  PROVE  LateInv'
<1>1. queue' = queue /\ stack' = stack /\ mod \in [Modules -> Module] /\ mod[o] \in Module
  BY DEF ThreadInit, ThreadLoop, Inv, TypeOK
<1>2. PICK r : mod' = [mod EXCEPT ![o] = r] /\ r.late = mod[o].late
  <2>1. CASE ThreadInit(o)
    <3>1. PICK q : mod' = [mod EXCEPT ![o].thread = "loop", ![o].hasQueue = q, ![o].inits = @ + 1]
      BY <2>1 DEF ThreadInit
    <3> DEFINE r == [mod[o] EXCEPT !.thread = "loop", !.hasQueue = q, !.inits = @ + 1]
    <3>2. mod' = [mod EXCEPT ![o] = r] /\ r.late = mod[o].late
      BY <1>1, <3>1 DEF Module
    <3> QED
      BY <3>2
  <2>2. CASE ThreadLoop(o)
    <3> DEFINE a == [mod[o] EXCEPT !.posted = @ - 1, !.quits = @ + 1, !.thread = Destroyed]
               b == [mod[o] EXCEPT !.thread = "ended"]
               c == [mod[o] EXCEPT !.hasQueue = TRUE]
    <3>1. /\ \/ mod' = [mod EXCEPT ![o] = a] \/ mod' = [mod EXCEPT ![o] = b]
             \/ mod' = [mod EXCEPT ![o] = c]
          /\ a.late = mod[o].late /\ b.late = mod[o].late /\ c.late = mod[o].late
      BY <1>1, <2>2 DEF ThreadLoop, Module
    <3> QED
      BY <3>1
  <2> QED
    BY <2>1, <2>2
<1>3. \A p \in Modules : mod'[p].late = mod[p].late
  BY <1>1, <1>2
<1>4. ToSet(queue) \subseteq Modules /\ Present \subseteq Modules /\ Present' = Present
  <2>1. Present' = Present
    BY <1>1 DEF Present
  <2> QED
    BY <2>1, Typed DEF Inv
<1>5. \A i \in 1..Len(stack) : Busies(stack[i]) \subseteq Modules
  BY Typed, BusiesModules DEF Inv
<1>6. CoverInv' /\ FollowInv'
  BY <1>1 DEF LateInv, CoverInv, FollowInv
<1>7. AddedInv'
  <2> SUFFICES ASSUME NEW i \in 1..Len(stack), stack[i].op = "quitAll", stack[i].at = "wait"
               PROVE  /\ \A p \in ToSet(queue) : mod'[p].late
                      /\ \A k \in 1..(i - 1) : stack[k].op = "start" =>
                           \A p \in Busies(stack[k]) : mod'[p].late
    BY <1>1 DEF AddedInv
  <2>1. \A k \in 1..(i - 1) : k \in 1..Len(stack)
    BY Typed DEF Inv
  <2> QED
    BY <1>3, <1>4, <1>5, <2>1 DEF LateInv, AddedInv
<1>8. EmptiedInv'
  <2>1. Top' = Top
    BY <1>1 DEF Top
  <2> QED
    BY <1>1, <1>3, <1>4, <2>1 DEF LateInv, EmptiedInv
<1> QED
  BY <1>6, <1>7, <1>8 DEF LateInv

\* What a polite caller asks for, in the message loop and where Nested lets it.
LEMMA RequestLate ==
  ASSUME Inv, UseInv, LateInv, NEW k \in Kinds, NEW l \in Locations, Request(k, l), Polite(k, l),
         Running => Top.op \notin {"loadAll", "stop"}
  PROVE  LateInv'
<1>1. CASE k # "recycle"
  <2>1. PICK t \in Seq(Asked(l)) : t = Calls(k, l)
    BY <1>1, CallsAsked
  <2>2. t # <<>> /\ stack' = t \o stack /\ UNCHANGED <<mod, queue>>
    BY <2>1 DEF Request
  <2>3. t \in Seq(Frame) /\ \A i \in 1..Len(t) : t[i] \in Asked(l)
    <3>1. Asked(l) \subseteq Frame
      BY DEF Asked
    <3> QED
      BY <2>1, <3>1, SeqMonotonic, ElementOfSeq
  <2>4. \A i \in 1..Len(t) :
          /\ t[i].op \in {"quit", "load"} /\ t[i].at = "begin" /\ t[i].call = NoModule
    BY <2>3 DEF Asked, Bare
  <2> QED
    BY <2>2, <2>3, <2>4, PushLate
<1>2. CASE k = "recycle"
  <2> DEFINE a == Call("quitAll", <<>>)
             b == Call("loadAll", <<>>)
             c == Call("recycle", <<>>)
             t == <<a, b, c>>
  <2>1. stack' = t \o stack /\ UNCHANGED <<mod, queue>>
    BY <1>2 DEF Request, Calls
  <2>2. /\ a \in Frame /\ b \in Frame /\ c \in Frame
        /\ a.op = "quitAll" /\ b.op = "loadAll" /\ c.op = "recycle"
        /\ Bare(a) /\ Bare(b) /\ Bare(c)
    BY BareCall
  <2> HIDE DEF a, b, c
  <2>3. \A j \in 1..Len(stack) : stack[j].call = NoModule
    <3>1. \A j \in 1..Len(stack) : stack[j] \in Frames
      BY Typed DEF Inv, Frames
    <3> QED
      BY <1>2, <3>1 DEF Polite
  <2>4. /\ t \in Seq(Frame) /\ t # <<>>
        /\ \A i \in 1..Len(t) :
             /\ t[i].op # "start" /\ t[i].at = "begin" /\ t[i].call = NoModule
             /\ t[i].op \in {"loadAll", "stop"} => i # 1 /\ t[i - 1].op = "quitAll"
    <3>1. Len(t) = 3 /\ t[1] = a /\ t[2] = b /\ t[3] = c /\ t \in Seq(Frame)
      BY <2>2
    <3> HIDE DEF t
    <3>2. t # <<>>
      BY <3>1, EmptySeq
    <3>3. ASSUME NEW i \in 1..Len(t)
          PROVE  /\ t[i].op # "start" /\ t[i].at = "begin" /\ t[i].call = NoModule
                 /\ t[i].op \in {"loadAll", "stop"} => i # 1 /\ t[i - 1].op = "quitAll"
      <4>1. CASE i = 1
        BY <2>2, <3>1, <4>1 DEF Bare
      <4>2. CASE i = 2
        <5>1. t[i - 1] = a
          BY <3>1, <4>2
        <5> QED
          BY <2>2, <3>1, <4>2, <5>1 DEF Bare
      <4>3. CASE i = 3
        BY <2>2, <3>1, <4>3 DEF Bare
      <4> QED
        BY <3>1, <4>1, <4>2, <4>3
    <3> QED
      BY <3>1, <3>2, <3>3
  <2> HIDE DEF t
  <2> QED
    BY <2>1, <2>3, <2>4, PushLate
<1> QED
  BY <1>1, <1>2

LEMMA StopLate == ASSUME Inv, UseInv, LateInv, Stop PROVE LateInv'
<1> DEFINE a == Call("quitAll", <<>>)
           b == Call("stop", <<>>)
           t == <<a, b>>
<1>1. stack = <<>> /\ stack' = t /\ UNCHANGED <<mod, queue>>
  BY DEF Stop
<1>2. /\ a \in Frame /\ b \in Frame /\ a.op = "quitAll" /\ b.op = "stop" /\ Bare(a) /\ Bare(b)
  BY BareCall
<1> HIDE DEF a, b
<1>3. /\ t \in Seq(Frame) /\ t # <<>>
      /\ \A i \in 1..Len(t) :
           /\ t[i].op # "start" /\ t[i].at = "begin" /\ t[i].call = NoModule
           /\ t[i].op \in {"loadAll", "stop"} => i # 1 /\ t[i - 1].op = "quitAll"
  <2>1. Len(t) = 2 /\ t[1] = a /\ t[2] = b /\ t \in Seq(Frame)
    BY <1>2
  <2>2. 1..2 = {1, 2} /\ 2 - 1 = 1
    OBVIOUS
  <2> HIDE DEF t
  <2> QED
    BY <1>2, <2>1, <2>2, EmptySeq DEF Bare
<1> HIDE DEF t
<1>4. stack' = t \o stack
  BY <1>1, <1>3, ConcatEmptySeq
<1>5. \A j \in 1..Len(stack) : stack[j].call = NoModule
  BY <1>1
<1>6. ~Running
  BY <1>1 DEF Running
<1> QED
  BY <1>1, <1>3, <1>4, <1>5, <1>6, PushLate
-----------------------------------------------------------------------------
LEMMA InitLate == ASSUME Init PROVE LateInv
<1> DEFINE f == Call("loadAll", <<>>)
<1>1. queue = <<>> /\ stack = <<f>>
  BY DEF Init
<1>2. f.op = "loadAll" /\ Bare(f)
  BY BareCall
<1> HIDE DEF f
<1>3. Len(stack) = 1 /\ stack[1] = f /\ ToSet(queue) = {}
  BY <1>1 DEF ToSet
<1>4. Present = {}
  BY <1>2, <1>3 DEF Present, Holds
<1> QED
  BY <1>2, <1>3, <1>4 DEF LateInv, CoverInv, AddedInv, FollowInv, EmptiedInv

LEMMA LateInductive ==
  ASSUME Careless = FALSE, Inv, UseInv, LateInv, [Next]_vars
  PROVE  LateInv'
<1>1. CASE UI
  BY <1>1, LoadsLate, StartLate, QuietLate, QuitsLate, ReturnsLate DEF UI
<1>2. CASE Stop
  BY <1>2, StopLate
<1>3. ASSUME NEW l \in Locations, Idle(l) PROVE LateInv'
  <2>1. PICK k \in Kinds : Request(k, l)
    BY <1>3, ModuleAssumption DEF Idle
  <2>2. ~Running
    BY <1>3 DEF Idle, Running
  <2> QED
    BY <1>3, <2>1, <2>2, IdlePolite, RequestLate
<1>4. ASSUME NEW l \in Locations, Nested(l) PROVE LateInv'
  <2>1. PICK k \in Kinds : Request(k, l) /\ Polite(k, l)
    BY <1>4 DEF Nested
  <2>2. Running /\ (Top.at = "wait" \/ Top.call # NoModule)
    BY <1>4 DEF Nested, InMessage
  <2>3. Top.op \notin {"loadAll", "stop"}
    BY <2>2, TopUse, TopFrame DEF FrameOK, Bare, Inv
  <2> QED
    BY <2>1, <2>3, RequestLate
<1>5. ASSUME NEW o \in Modules, ThreadInit(o) \/ ThreadLoop(o) PROVE LateInv'
  BY <1>5, ThreadLate
<1>6. CASE UNCHANGED vars
  BY <1>6 DEF vars, LateInv, CoverInv, AddedInv, FollowInv, EmptiedInv, Present, Top
<1> QED
  BY <1>1, <1>2, <1>3, <1>4, <1>5, <1>6 DEF Next

LEMMA EmptiedUnloads == ASSUME Inv, UseInv, LateInv PROVE UnloadsAll
<1> SUFFICES ASSUME stack # <<>>, Top.op \in {"loadAll", "stop"},
                    NEW o \in Modules, Active(o) \/ o \in ToSet(queue)
             PROVE  mod[o].late
  BY DEF UnloadsAll
<1>1. o \in Present
  <2>1. CASE o \in ToSet(queue)
    BY <2>1 DEF Present
  <2>2. CASE Active(o)
    <3>1. mod[o].inits \in Nat /\ mod[o].quits \in Nat
      BY DEF Inv, TypeOK, Module
    <3>2. Begun(o)
      BY <2>2, <3>1 DEF Active, Begun
    <3> QED
      BY <3>2 DEF Inv, PresentInv
  <2> QED
    BY <2>1, <2>2
<1> QED
  BY <1>1 DEF LateInv, EmptiedInv

\* Whatever a module's own start, its quitting and the waits for others let in, a recycle loads
\* the modules again, and Stop comes to its end, with no module initialised and an empty queue,
\* but for what was loaded while the others were unloaded: the asserts of _LoadModules and
\* Stop (ModuleManager.cpp:74-87, 112, ModuleManager.h:61).
THEOREM UnloadedAll == ASSUME Careless = FALSE PROVE Spec => []UnloadsAll
<1>1. Init => Inv /\ UseInv /\ LateInv
  BY InitHolds, InitUses, InitLate
<1>2. (Inv /\ UseInv /\ LateInv) /\ [Next]_vars => (Inv /\ UseInv /\ LateInv)'
  <2> SUFFICES ASSUME Inv, UseInv, LateInv, [Next]_vars PROVE Inv' /\ UseInv' /\ LateInv'
    OBVIOUS
  <2>1. Inv'
    BY Inductive
  <2> QED
    BY <2>1, UseInductive, LateInductive
<1>3. Inv /\ UseInv /\ LateInv => UnloadsAll
  BY EmptiedUnloads
<1> QED
  BY <1>1, <1>2, <1>3, PTL DEF Spec
=============================================================================
